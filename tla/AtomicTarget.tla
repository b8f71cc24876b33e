---------------------------- MODULE AtomicTarget ----------------------------
(***************************************************************************)
(* What the file store promises of one upload target: a register that      *)
(* holds one complete version or nothing, replaced and removed atomically, *)
(* and downloads that each read the version they opened.                   *)
(***************************************************************************)
CONSTANTS Version, Reader, None

VARIABLES
    content,  \* the version under the final name, or None
    view      \* view[x]: the version reader x has open, or None

Init ==
    /\ content = None
    /\ view = [x \in Reader |-> None]

Publish == content' \in Version /\ UNCHANGED view

Remove == content' = None /\ UNCHANGED view

Open(x) ==
    /\ view[x] = None /\ content # None
    /\ view' = [view EXCEPT ![x] = content]
    /\ UNCHANGED content

Close(x) ==
    /\ view' = [view EXCEPT ![x] = None]
    /\ UNCHANGED content

\* The server restarts: every download breaks off.
Restart ==
    /\ view' = [x \in Reader |-> None]
    /\ UNCHANGED content

Next == Publish \/ Remove \/ Restart \/ \E x \in Reader : Open(x) \/ Close(x)

Spec == Init /\ [][Next]_<<content, view>>
=============================================================================
