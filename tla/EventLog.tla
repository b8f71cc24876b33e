------------------------------ MODULE EventLog ------------------------------
(***************************************************************************)
(* What the datastore promises of one of its tables (admin/store.go): a    *)
(* log that only grows at its end and is only cut at its beginning.  A row *)
(* never changes, no row appears among older ones, and the newest row      *)
(* stays, so that ids tell for ever which of two rows came first.          *)
(***************************************************************************)
EXTENDS Naturals

CONSTANT Entry \* what is recorded

VARIABLE log   \* rows [id, event]

Init == log = {}

\* INSERT: one row above all others.
Record ==
    \E row \in log' :
        /\ row.id \in Nat /\ row.event \in Entry
        /\ \A old \in log : old.id < row.id
        /\ log' = log \cup {row}

\* prune: the oldest rows go, never the last one.
Retain ==
    /\ log' \subseteq log
    /\ \A gone \in log \ log' : \A kept \in log' : gone.id < kept.id
    /\ log # {} => log' # {}

Next == Record \/ Retain

Spec == Init /\ [][Next]_log
=============================================================================
