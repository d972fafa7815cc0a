----------------------------- MODULE UpgradeAll ------------------------------
(***************************************************************************)
(* UPGRADE ALL: the order the packages are taken in, each taken as UPGRADE *)
(* <name> would, with what is missing for it, and what is said of each.    *)
(* in holds the packages 1..n in name order: the version installed (0: not *)
(* installed), the one the channels offer (0: none), the packages whose    *)
(* placing fails (an edited file, a conflict of files), and the Depends of *)
(* a version, a minimum for each package named (0: not named).             *)
(***************************************************************************)
EXTENDS Naturals, Sequences, FiniteSetsExt, SequencesExt

Package(in) == DOMAIN in.have
Newer(in) == {p \in Package(in) : in.have[p] # 0 /\ in.offer[p] > in.have[p]}
Candidate(in) == Newer(in) \ in.conflict

Names(in, p, version) == {q \in Package(in) : in.needs[p][version][q] # 0}

(* A candidate waits while one it names is not taken yet: named by the     *)
(* version it moves to or by the one installed.                            *)
BlockedOld(in, p, left) == Names(in, p, in.have[p]) \cap (left \ {p}) # {}

Blocked(in, p, left) ==
    (Names(in, p, in.offer[p]) \cup Names(in, p, in.have[p])) \cap (left \ {p}) # {}

(* By name among those that do not wait; when all do, the first by name.   *)
Following(in, left) ==
    LET free == {p \in left : ~ Blocked(in, p, left)}
    IN IF free # {} THEN Min(free) ELSE Min(left)

RECURSIVE Ordered(_, _)
Ordered(in, left) ==
    IF left = {} THEN <<>>
    ELSE LET p == Following(in, left) IN <<p>> \o Ordered(in, left \ {p})

----------------------------------------------------------------------------
(* The plan for q, which stack leads to: what is installed must meet the   *)
(* minimum, what is missing is brought, at the version offered.            *)
RECURSIVE Plan(_, _, _, _, _, _)
Plan(in, have, q, min, stack, brought) ==
    LET fails == [ok |-> FALSE, brought |-> brought]
        enough(v) == [ok |-> v >= min, brought |-> brought]
        need(acc, d) ==
            IF ~ acc.ok \/ in.needs[q][in.offer[q]][d] = 0 THEN acc
            ELSE Plan(in, have, d, in.needs[q][in.offer[q]][d], Append(stack, q), acc.brought)
        whole == FoldLeft(need, [ok |-> TRUE, brought |-> brought],
                          SetToSortSeq(Package(in), <))
    IN IF Contains(stack, q) THEN fails
       ELSE IF stack # <<>> /\ have[q] # 0 THEN enough(have[q])
       ELSE IF stack # <<>> /\ Contains(brought, q) THEN enough(in.offer[q])
       ELSE IF q \in in.conflict \/ in.offer[q] = 0 \/ in.offer[q] < min THEN fails
       ELSE IF ~ whole.ok THEN fails
       ELSE [ok |-> TRUE, brought |-> Append(whole.brought, q)]

(* UPGRADE p: the plan, and its placing, all of it or none. *)
Takes(in, have, p) ==
    LET plan == Plan(in, have, p, 0, <<>>, <<>>)
    IN [plan EXCEPT !.ok = @ /\ ToSet(plan.brought) \cap in.stuck = {}]

(* One candidate: skipped when its new version names one that was not      *)
(* upgraded, refused or upgraded.  A dry run places nothing; the versions  *)
(* it would have upgraded to count, what it would have brought does not.   *)
One(in, dry, acc, p) ==
    LET take == Takes(in, acc.have, p)
        moved == IF dry THEN {p} ELSE ToSet(take.brought)
    IN IF Names(in, p, in.offer[p]) \cap {q \in DOMAIN acc.said : acc.said[q] # "upgraded"} # {}
       THEN [acc EXCEPT !.said = @ @@ (p :> "skipped")]
       ELSE IF ~ take.ok THEN [acc EXCEPT !.said = @ @@ (p :> "refused")]
       ELSE [said |-> acc.said @@ (p :> "upgraded"),
             have |-> [q \in DOMAIN acc.have |->
                           IF q \in moved THEN in.offer[q] ELSE acc.have[q]]]

(* Two channels that disagree about a package refuse that one alone. *)
All(in, dry) ==
    LET begun == [said |-> [p \in {} |-> ""], have |-> in.have]
        run == FoldLeft(LAMBDA acc, p : One(in, dry, acc, p), begun,
                        Ordered(in, Candidate(in)))
    IN [run EXCEPT !.said = @ @@ [p \in in.conflict |-> "refused"]]

----------------------------------------------------------------------------
Consistent(in, have) ==
    \A p \in Package(in) : have[p] # 0 =>
        \A q \in Package(in) : have[q] >= in.needs[p][have[p]][q]

(* Through what is missing, the plan of a candidate reaches these.         *)
RECURSIVE Reaches(_, _, _)
Reaches(in, p, seen) ==
    LET near == Names(in, p, in.offer[p])
    IN near \cup UNION {Reaches(in, q, seen \cup {p}) :
                          q \in {x \in near \ (seen \cup {p}) : in.have[x] = 0 /\ in.offer[x] # 0}}

(* No candidate is named again from what it names; and what it reaches is  *)
(* what it names.                                                          *)
Acyclic(in) ==
    LET c == Candidate(in)
        named == [p \in c |-> (Names(in, p, in.offer[p]) \cup Names(in, p, in.have[p])) \cap c]
        two == [p \in c |-> named[p] \cup UNION {named[q] : q \in named[p]}]
        all == [p \in c |-> two[p] \cup UNION {two[q] : q \in two[p]}]
    IN \A p \in c : p \notin all[p] /\ Reaches(in, p, {}) \cap c \subseteq named[p]

(* Every package a newer version is offered for is told of once, and what  *)
(* is installed has what it needs afterwards.  Unless dependencies go      *)
(* round in a circle or lead through a package that is not there to one    *)
(* that is, a DRYRUN says of each package what the command would, and the  *)
(* command refuses none that a second UPGRADE would take.                  *)
AsFarAsItCan(in) ==
    LET run == All(in, FALSE)
    IN Consistent(in, in.have) =>
         /\ DOMAIN run.said = Newer(in) \cup in.conflict
         /\ Consistent(in, run.have)
         /\ Acyclic(in) =>
              /\ All(in, TRUE).said = run.said
              /\ \A p \in Candidate(in) :
                   run.said[p] = "refused" => ~ Takes(in, run.have, p).ok
=============================================================================
