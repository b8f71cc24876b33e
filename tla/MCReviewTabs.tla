---------------------------- MODULE MCReviewTabs ----------------------------
(* Instances of ReviewTabs for TLC. *)
EXTENDS ReviewTabs, TLC

CONSTANTS m1, m2

MCFilters == {{m1, m2}, {m1}}
=============================================================================
