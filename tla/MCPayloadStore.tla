--------------------------- MODULE MCPayloadStore ---------------------------
(* Instances of PayloadStore for TLC. *)
EXTENDS PayloadStore, TLC

CONSTANTS f1, f2

\* Two versions of the file, of different sizes.
MCLength == [f \in File |-> IF f = f1 THEN 2 ELSE 1]
MCSymmetry == Permutations(Inode) \cup Permutations(Req)
=============================================================================
