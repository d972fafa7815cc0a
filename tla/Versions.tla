------------------------------ MODULE Versions -------------------------------
(***************************************************************************)
(* The order of versions, as a walk over the two texts, in pkg and, ported *)
(* by hand, in the portal.  A text is a sequence of characters, written as *)
(* numbers: 0 to 9 the digits, then Point, Plus and Other, any other one.  *)
(* Every step of a walk reads a number of each text, then a point of each. *)
(***************************************************************************)
EXTENDS Naturals, Sequences, SequencesExt

Digit == 0..9
Point == 10
Plus == 11
Other == 12

(* What a manifest, an index line and the command line may hold: numbers   *)
(* of nine digits at most, points between, one "+" at most, none empty.    *)
CheckVersion(s) ==
    /\ s # <<>>
    /\ \A i \in 1 .. Len(s) - 9 : \E k \in i .. i + 9 : s[k] \notin Digit
    /\ \A i \in DOMAIN s : s[i] \in Digit \cup {Point, Plus}
    /\ \A i \in DOMAIN s : s[i] \notin Digit =>
         i > 1 /\ i < Len(s) /\ s[i - 1] \in Digit /\ s[i + 1] \in Digit
    /\ \A i, j \in DOMAIN s : s[i] = Plus /\ s[j] = Plus => i = j

(* Past the digits from i on, and the number they are.                     *)
RECURSIVE PastDigits(_, _)
PastDigits(s, i) == IF i <= Len(s) /\ s[i] \in Digit THEN PastDigits(s, i + 1) ELSE i

RECURSIVE Number(_, _, _)
Number(s, i, x) == IF i <= Len(s) /\ s[i] \in Digit THEN Number(s, i + 1, 10 * x + s[i]) ELSE x

Past(s, i, sep) == IF i <= Len(s) /\ s[i] = sep THEN i + 1 ELSE i
More(s, i) == i <= Len(s) /\ s[i] # Plus

Step(s, i) == Past(s, PastDigits(s, i), Point)

Said(r, x, y) == IF r # "=" THEN r ELSE IF x < y THEN "<" ELSE IF x > y THEN ">" ELSE "="

(* cmp_dotted, as far as it comes: a step that passes nothing of either    *)
(* text is taken for ever.                                                 *)
RECURSIVE CmpDotted(_, _, _, _, _)
CmpDotted(a, b, i, j, r) ==
    IF ~ More(a, i) /\ ~ More(b, j) THEN [r |-> r, i |-> i, j |-> j]
    ELSE IF Step(a, i) = i /\ Step(b, j) = j THEN [r |-> "for ever", i |-> i, j |-> j]
    ELSE CmpDotted(a, b, Step(a, i), Step(b, j), Said(r, Number(a, i, 0), Number(b, j, 0)))

VersionCmp(a, b) ==
    LET base == CmpDotted(a, b, 1, 1, "=")
    IN IF base.r # "=" THEN base.r
       ELSE CmpDotted(a, b, Past(a, base.i, Plus), Past(b, base.j, Plus), "=").r

(* The build left out of the comparison where one text has none.           *)
PortalNoBuild(a, b, at) ==
    IF at.i > Len(a) \/ at.j > Len(b) THEN "="
    ELSE CmpDotted(a, b, Past(a, at.i, Plus), Past(b, at.j, Plus), "=").r

(* The portal's walk passes a character where a step passed none.          *)
RECURSIVE PortalDotted(_, _, _, _, _)
PortalDotted(a, b, i, j, r) ==
    LET stuck == Step(a, i) = i /\ Step(b, j) = j
        next(s, k) == IF stuck /\ More(s, k) THEN k + 1 ELSE Step(s, k)
    IN IF ~ More(a, i) /\ ~ More(b, j) THEN [r |-> r, i |-> i, j |-> j]
       ELSE PortalDotted(a, b, next(a, i), next(b, j), Said(r, Number(a, i, 0), Number(b, j, 0)))

PortalBuild(a, b, at) == PortalDotted(a, b, Past(a, at.i, Plus), Past(b, at.j, Plus), "=").r

PortalCompare(a, b) ==
    LET base == PortalDotted(a, b, 1, 1, "=")
    IN IF base.r # "=" THEN base.r ELSE PortalBuild(a, b, base)

----------------------------------------------------------------------------
(* The order meant: the numbers of the version one by one, those missing   *)
(* counting 0; then, of the build, the same.                               *)
Numbers(s) ==
    LET starts == SelectSeq([i \in DOMAIN s |-> i],
                            LAMBDA i : s[i] \in Digit /\ (i = 1 \/ s[i - 1] \notin Digit))
    IN [n \in DOMAIN starts |-> Number(s, starts[n], 0)]

Part(s, build) ==
    LET plus == IF Contains(s, Plus) THEN SelectInSeq(s, LAMBDA c : c = Plus) ELSE Len(s) + 1
    IN Numbers(IF build THEN SubSeq(s, plus + 1, Len(s)) ELSE SubSeq(s, 1, plus - 1))

Lower(x, y) ==
    LET at(z, n) == IF n \in DOMAIN z THEN z[n] ELSE 0
        longer == IF Len(x) > Len(y) THEN DOMAIN x ELSE DOMAIN y
    IN \E n \in longer : at(x, n) < at(y, n) /\ \A k \in 1..(n - 1) : at(x, k) = at(y, k)

Older(a, b) ==
    \/ Lower(Part(a, FALSE), Part(b, FALSE))
    \/ ~ Lower(Part(b, FALSE), Part(a, FALSE)) /\ Lower(Part(a, TRUE), Part(b, TRUE))

(* Of two versions pkg accepts, the comparison ends and is the order meant *)
(* whichever is given first, and the portal lists them in that order; and  *)
(* of any two texts, where pkg's comparison ends the portal's is the same. *)
OneOrder(a, b) ==
    LET r == VersionCmp(a, b)
    IN /\ CheckVersion(a) /\ CheckVersion(b) =>
            /\ r = "<" <=> Older(a, b)
            /\ r = ">" <=> Older(b, a)
            /\ r # "for ever"
       /\ r # "for ever" => PortalCompare(a, b) = r
=============================================================================
