----------------------------- MODULE MCFilesTab -----------------------------
(* Instances of FilesTab for TLC. *)
EXTENDS FilesTab, TLC

CONSTANTS images, config, f1, f2

\* Every directory that exists holds a file of the same name.
MCInitial == [d \in Dir |-> IF Len(d[2]) < 2 THEN {f1} ELSE {}]
=============================================================================
