------------------------- MODULE MCResumableUpload -------------------------
(* Instances of ResumableUpload for TLC. *)
EXTENDS ResumableUpload, TLC

CONSTANTS f1, f2

MCLength == [f \in File |-> IF f = f1 THEN 2 ELSE 1]
=============================================================================
