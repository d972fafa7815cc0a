------------------------------ MODULE Standing ------------------------------
(***************************************************************************)
(* How an installed package stands against the channels: what STATUS and   *)
(* UPGRADE ALL say of it, what the check a program makes of its own        *)
(* package says, and what an UPGRADE of it does.  The three read the same  *)
(* index, each in a walk of its own.  An entry also says the key it is     *)
(* signed by and whether its withdrawal counts; m is the manifest          *)
(* installed, base the machine the root is for.                            *)
(***************************************************************************)
EXTENDS Choice

Gone(ix) == {ix[i] : i \in {j \in DOMAIN ix : ix[j].gone}}

(* pick, of every channel listed, with the pinned key. *)
PickOf(ix, asked, target, pin) ==
    LET best == [c \in {ix[i].ch : i \in DOMAIN ix} |-> Best(ix, c, asked, Gone(ix), target)]
        claims == [c \in DOMAIN best |-> IF best[c] = 0 THEN Nothing ELSE ix[best[c]].key]
    IN [at |-> Pick(ix, best, claims, pin), refused |-> TwoKeys(best, claims, pin)]

(* The machine UPGRADE chooses for: the root's, else the package's CPU. *)
ArchFor(base, m) == IF base = Nothing /\ m.arch # Generic THEN m.arch ELSE base

(* The installed build is withdrawn. *)
StandWithdrawn(ix, m) ==
    \E i \in DOMAIN ix : ix[i].ver = m.ver /\ ix[i].arch \in {m.arch, Generic} /\ ix[i].gone

Stand(ix, base, m, pin, edited) ==
    LET pick == PickOf(ix, Nothing, ArchFor(base, m), pin)
        newer == pick.at # 0 /\ ix[pick.at].ver > m.ver
        withdrawn == StandWithdrawn(ix, m)
    IN [offer |-> pick.at, newer |-> newer,
        state |-> CASE pick.refused -> "conflict"
                    [] pick.at = 0 /\ ~ pick.refused ->
                         IF withdrawn THEN "withdrawn" ELSE "not-offered"
                    [] newer -> IF edited THEN "edited" ELSE "upgradable"
                    [] OTHER -> IF withdrawn THEN "withdrawn"
                                ELSE IF edited THEN "edited" ELSE "current"]

----------------------------------------------------------------------------
(* The first of the lowest versions in a channel, for any machine,         *)
(* withdrawn or not: whose key it has is taken for the publisher's.        *)
Oldest(ix, c) ==
    LET own == {i \in DOMAIN ix : ix[i].ch = c}
        low == {i \in own : \A j \in own : ix[i].ver <= ix[j].ver}
    IN CHOOSE i \in low : \A j \in low : i <= j

(* UPGRADE <name>: the choice, then, in the plan, the version chosen asked *)
(* for by its number, in whichever channel has it first.  Refused is what  *)
(* was withdrawn, what another key than the pinned one signed, and, where  *)
(* no key is pinned, what another key than the oldest version's did.       *)
Planned(ix, ver, target, pin) ==
    LET pick == PickOf(ix, ver, target, pin)
        e == ix[pick.at]
        trusted == IF pin # Nothing THEN pin ELSE ix[Oldest(ix, e.ch)].key
    IN CASE pick.at = 0 -> [how |-> "refused", at |-> 0]
         [] pick.at # 0 /\ e.gone -> [how |-> "withdrawn", at |-> pick.at]
         [] pick.at # 0 /\ ~ e.gone /\ e.key # trusted ->
              [how |-> IF pin # Nothing THEN "other-key" ELSE "first-key", at |-> pick.at]
         [] OTHER -> [how |-> "taken", at |-> pick.at]

Upgrade(ix, base, m, pin) ==
    LET target == ArchFor(base, m)
        pick == PickOf(ix, Nothing, target, pin)
    IN IF pick.at = 0 THEN [how |-> IF pick.refused THEN "refused" ELSE "not-found", at |-> 0]
       ELSE IF ix[pick.at].ver = m.ver THEN [how |-> "unchanged", at |-> pick.at]
       ELSE IF ix[pick.at].ver < m.ver THEN [how |-> "older", at |-> pick.at]
       ELSE Planned(ix, ix[pick.at].ver, target, pin)

----------------------------------------------------------------------------
(* The check a program makes of its own package: the highest offer of all  *)
(* channels, whoever signed it; a package of every CPU is compared with    *)
(* those alone where no machine is known.                                  *)
CheckWithdrawn(ix, m, pin) ==
    \E i \in DOMAIN ix : /\ ix[i].ver = m.ver /\ ix[i].arch = m.arch
                         /\ ix[i].gone /\ ix[i].key = pin

(* Without a look at the withdrawals. *)
CheckOfferBlind(ix, target) ==
    LET some == {i \in DOMAIN ix : ArchMatches(ix[i], target)}
        top == {i \in some : \A j \in some : ix[j].ver <= ix[i].ver}
    IN IF some = {} THEN 0 ELSE CHOOSE i \in top : \A j \in top : i <= j

CheckOffer(ix, target) ==
    LET some == {i \in DOMAIN ix : ArchMatches(ix[i], target) /\ ~ ix[i].gone}
        top == {i \in some : \A j \in some : ix[j].ver <= ix[i].ver}
    IN IF some = {} THEN 0 ELSE CHOOSE i \in top : \A j \in top : i <= j

UpdateCheck(ix, base, m, pin) ==
    LET at == CheckOffer(ix, IF base = Nothing THEN m.arch ELSE base)
        withdrawn == CheckWithdrawn(ix, m, pin)
    IN CASE pin = Nothing -> "error"
         [] pin # Nothing /\ at = 0 -> IF withdrawn THEN "withdrawn" ELSE "not-offered"
         [] pin # Nothing /\ at # 0 ->
              CASE ix[at].key # pin -> "key-changed"
                [] ix[at].key = pin /\ ix[at].ver > m.ver -> "available"
                [] OTHER -> IF withdrawn THEN "withdrawn" ELSE "none"

----------------------------------------------------------------------------
(* No version is in the index twice, withdrawn in one place alone or       *)
(* signed by two keys: UPGRADE's second look could meet the other one.     *)
OneBuild(ix) ==
    \A i, j \in DOMAIN ix :
        ix[i].ver = ix[j].ver => ix[i].gone = ix[j].gone /\ ix[i].key = ix[j].key

(* No channel holds the package signed by two keys.                        *)
OneSigner(ix) ==
    \A i, j \in DOMAIN ix : ix[i].ch = ix[j].ch => ix[i].key = ix[j].key

(* An older version in an entry's channel has another key than its own.    *)
OlderSigner(ix, at) ==
    \E i \in DOMAIN ix : /\ ix[i].ch = ix[at].ch /\ ix[i].ver < ix[at].ver
                         /\ ix[i].key # ix[at].key

(* The three agree.  What STATUS offers, an UPGRADE takes, at that very    *)
(* version, unless its key is not the pinned one, which the program's own  *)
(* check says too, or no key is pinned and an older version in its channel *)
(* has another, of which STATUS says nothing; what STATUS does not offer,  *)
(* an UPGRADE does not take.                                               *)
(* A program told of an update gets it from UPGRADE, but where it is for   *)
(* every CPU, nobody named a machine and a channel holds a higher version  *)
(* for one CPU under another key; and one told of none misses nothing      *)
(* UPGRADE would take, but where a second channel holds a higher version   *)
(* under another key, or nobody named a machine.                           *)
Agree(ix, base, m, pin, edited) ==
    LET s == Stand(ix, base, m, pin, edited)
        u == Upgrade(ix, base, m, pin)
        check == UpdateCheck(ix, base, m, pin)
    IN OneBuild(ix) =>
       /\ s.newer =>
            \/ u.how = "taken" /\ ix[u.at].ver = ix[s.offer].ver
            \/ u.how = "other-key" /\ (base # Nothing => check = "key-changed")
            \/ u.how = "first-key" /\ pin = Nothing /\ OlderSigner(ix, u.at)
       /\ u.how = "taken" => s.newer
       /\ check = "available" =>
            \/ u.how = "taken"
            \/ base = Nothing /\ m.arch = Generic /\ ~ OneSigner(ix)
       /\ u.how = "taken" /\ pin # Nothing /\ base # Nothing =>
            \/ check = "available"
            \/ check = "key-changed" /\ \E i, j \in DOMAIN ix : ix[i].ch # ix[j].ch
=============================================================================
