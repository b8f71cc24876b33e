--------------------------- MODULE MCMachinesTab ---------------------------
(* Instances of MachinesTab for TLC. *)
EXTENDS MachinesTab, TLC

CONSTANTS s1, s2, p1, p2

Sealed(p) == [form |-> "sealed", pass |-> p]

\* s1 joins a domain, s2 is not provisioned, default.json has an administrator.
Provisioned(bom) ==
    (s1 :> [join |-> TRUE, bom |-> bom,
            secret |-> [f \in Field |-> IF f = "DOMAINPASS" THEN Sealed(p2) ELSE Sealed(p1)]]) @@
    (s2 :> Absent) @@
    (Default :> [join |-> FALSE, bom |-> FALSE,
                 secret |-> [Nowhere EXCEPT !["LOCALADMINPASS"] = [form |-> "plain", pass |-> p2]]])

\* The file of s1 was written by the editor, or in Notepad.
MCInitial == {Provisioned(FALSE), Provisioned(TRUE)}
MCInitialEdited == {Provisioned(FALSE)}

\* The browsers are alike.
Browsers == Permutations(Editor)
=============================================================================
