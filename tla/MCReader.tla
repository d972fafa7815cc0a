------------------------------ MODULE MCReader ------------------------------
(* Two publishers of one package, a root that reads their channel and a    *)
(* second one.                                                             *)
EXTENDS Reader, TLC
CONSTANTS p, q, a, b
MCKeyOf == [x \in {p, q} |-> IF x = p THEN "kp" ELSE "kq"]
MCVersions == 1..2
MCOther == {[ver |-> v, files |-> "theirs", kind |-> "image"] : v \in MCVersions}
MCDrawers == {a, b}
MCSymmetry == Permutations(MCDrawers)
=============================================================================
