------------------------------- MODULE Choice -------------------------------
(***************************************************************************)
(* Which entry of the indexes read an operation takes: the machine a root  *)
(* is for, the highest version of each channel, and the weighing of        *)
(* several channels against the key the root has pinned.  An index is a    *)
(* sequence of entries [ch, ver, arch, ...] of one package, in the order   *)
(* read; ch is the channel's place in the list.                            *)
(***************************************************************************)
EXTENDS Naturals, Sequences, FiniteSets

CONSTANTS
    Nothing,      \* no CPU known, no version asked for, no key, no entry
    Generic       \* the architecture every CPU can run

(* The machine a root is for: the one it recorded, else ARCH, else this    *)
(* computer's.  ARCH may not name another than the recorded one.           *)
ArchRefused(given, recorded) ==
    given # Nothing /\ recorded # Nothing /\ given # recorded

TargetArch(given, recorded, native) ==
    IF given # Nothing THEN given
    ELSE IF recorded # Nothing THEN recorded ELSE native

(* What a root records once a package is installed. *)
RecordArch(recorded, arch) ==
    IF recorded # Nothing \/ arch = Generic THEN recorded ELSE arch

ArchMatches(e, target) == target = Nothing \/ e.arch \in {target, Generic}

(* With no machine known, a package offered for two CPUs cannot be chosen. *)
Ambiguous(ix, target) ==
    /\ target = Nothing
    /\ Cardinality({ix[i].arch : i \in DOMAIN ix} \ {Generic}) > 1

(* The place of a channel's candidate in the index: the last one of the    *)
(* version asked for, else the first of the highest not withdrawn.  0 when *)
(* it has none.                                                            *)
Offered(ix, c, asked, withdrawn, target) ==
    {i \in DOMAIN ix :
        /\ ix[i].ch = c
        /\ ArchMatches(ix[i], target)
        /\ IF asked # Nothing THEN ix[i].ver = asked ELSE ix[i] \notin withdrawn}

Best(ix, c, asked, withdrawn, target) ==
    LET offered == Offered(ix, c, asked, withdrawn, target)
        top == {i \in offered : \A j \in offered : ix[j].ver <= ix[i].ver}
    IN IF offered = {} THEN 0
       ELSE IF asked # Nothing THEN CHOOSE i \in offered : \A j \in offered : j <= i
       ELSE CHOOSE i \in top : \A j \in top : i <= j

(* Several channels that offer it are weighed by the keys their signature  *)
(* files claim: with a pinned key the others do not count, without one     *)
(* they must agree.                                                        *)
Candidates(best, claims, pin) ==
    LET some == {c \in DOMAIN best : best[c] # 0}
    IN IF Cardinality(some) > 1 /\ pin # Nothing
       THEN {c \in some : claims[c] = pin} ELSE some

TwoKeys(best, claims, pin) ==
    LET some == {c \in DOMAIN best : best[c] # 0}
    IN pin = Nothing /\ \E c, d \in some : claims[c] # claims[d]

(* Newest wins, and list order breaks a tie. *)
Winner(ix, best, some) ==
    IF some = {} THEN 0
    ELSE LET c == CHOOSE c \in some : \A d \in some :
                      \/ ix[best[d]].ver < ix[best[c]].ver
                      \/ ix[best[d]].ver = ix[best[c]].ver /\ c <= d
         IN best[c]

Pick(ix, best, claims, pin) ==
    IF TwoKeys(best, claims, pin) THEN 0
    ELSE Winner(ix, best, Candidates(best, claims, pin))
=============================================================================
