------------------------------- MODULE MCPush -------------------------------
(***************************************************************************)
(* Two publishers of one channel, each with a version of package A of its  *)
(* own; p may make its channel anew, with the same version of other        *)
(* content.                                                                *)
(***************************************************************************)
EXTENDS Push, FiniteSetsExt

CONSTANTS p, q, x, r1, r2

Line(n, s, d) == [name |-> n, slot |-> s, digest |-> d]
a1 == Line("A", 1, "a1")
a1b == Line("A", 1, "a1b")
a2 == Line("A", 2, "a2")
MCLines == {a1, a1b, a2}
MCArchiveOf == [l \in MCLines |-> IF l = a1 THEN x ELSE None]
MCKeyOf == [l \in MCLines |-> IF l = a2 /\ q \in Publisher THEN q ELSE p]
Offered(lines, readme) == [lines |-> lines, readme |-> readme]
MCOffers == [i \in Publisher |-> IF i = p THEN <<Offered(<<a1>>, r1), Offered(<<a1b>>, r2)>>
                                 ELSE <<Offered(<<a2>>, r1)>>]
MCInOrder == FoldSet(LAMBDA f, s : Append(s, f), <<>>, Paths)
MCTransfer == [n \in Names |-> None]
MCSize == [object |-> 1, sig |-> 1, withdrawn |-> 1, archive |-> 3, mutable |-> 1]
=============================================================================
