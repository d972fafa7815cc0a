------------------------------ MODULE PlanRun -------------------------------
(***************************************************************************)
(* Dependencies: how plan_one of pkg_lib_root.c settles what an INSTALL or *)
(* an UPGRADE brings, how run_plan places it package by package and takes  *)
(* it back out when one fails, and how REMOVE and REMOVE ORPHANS of        *)
(* pkg_lib_resolve.c take packages out.                                    *)
(*                                                                         *)
(* plan_one is recursive; here its frames are on a stack and each call and *)
(* return is a step.  It meets a manifest's Depends in any order.  What    *)
(* RootChange has in detail is one step here: a package has one file, its  *)
(* bytes told by its version, and its prev record is left out.  One        *)
(* command runs at a time, under the root's lock; a ROLLBACK moves the     *)
(* root as an UPGRADE with DOWNGRADE to the version it names.              *)
(***************************************************************************)
EXTENDS Integers, Sequences, FiniteSets

CONSTANTS
    Package,    \* package names
    Version,    \* version numbers
    None,       \* no version; no package
    Foreign,    \* bytes that no version ships
    Key,        \* publishers' keys
    NoKey,      \* no key pinned, none given
    Signer,     \* [Package -> [Version -> Key]]
    Needs,      \* a version's Depends, each a name and a minimum
    Given,      \* the KEY and ACCEPTKEY a command may carry
    InitDisk,   \* what the packages' paths may hold at first
    InitOffered,\* what the channel may offer at first
    Depth,      \* how deep plan_one goes: 32 in the source
    Room        \* names that fit in remove_orphans' failed[]: 31 or more

Need == [name : Package, min : Version]

ASSUME VersionAssumption == Version \subseteq Nat
ASSUME NoneAssumption == None \notin Version /\ None \notin Package /\ None # Foreign
ASSUME ForeignAssumption == Foreign \notin Version
ASSUME KeyAssumption == NoKey \notin Key /\ Signer \in [Package -> [Version -> Key]]
ASSUME NeedsAssumption == Needs \in [Package -> [Version -> SUBSET Need]]
ASSUME GivenAssumption == Given \subseteq (Key \cup {NoKey}) \X (Key \cup {NoKey})
ASSUME InitAssumption ==
    /\ InitDisk \subseteq [Package -> Version \cup {None, Foreign}]
    /\ InitOffered \subseteq [Package -> SUBSET Version]
ASSUME BoundAssumption == Depth \in Nat \ {0} /\ Room \in Nat

VARIABLES
    disk,       \* what is at each package's path
    db,         \* .pkg/db: the installed version
    pin,        \* .pkg/keys: the key trusted
    auto,       \* .pkg/auto: the packages marked as dependencies
    offered,    \* the versions the channel offers
    pc,         \* the next step, "idle" between commands
    cmd,        \* the command under way
    stack,      \* plan_one's frames: a version and the needs left to plan
    plan,       \* what is to be placed, dependencies first
    at,         \* run_plan's i
    had,        \* run_plan's had_pin: packages with a key before their turn
    touched,    \* apply_touched
    restore,    \* ev_restored's state
    victim,     \* the package remove_files works on
    queue,      \* remove_orphans' which[]
    failed,     \* remove_orphans' failed[]
    said,       \* how the last command ended
    start,      \* observer: the root when a plan began
    torn,       \* observer: those pkg said it could not take back out
    couldnot    \* observer: those this REMOVE ORPHANS failed to remove

root == <<disk, db, pin, auto>>
planning == <<stack, plan>>
running == <<at, had, touched>>
removing == <<victim, queue, failed, couldnot>>
vars == <<root, offered, pc, cmd, planning, running, restore, removing, said, start,
          torn>>

NoCommand == [verb |-> "none", pkg |-> None, version |-> None, old |-> None,
              key |-> NoKey, accept |-> NoKey]

Command == [verb : {"install", "upgrade", "remove", "orphans", "none"},
            pkg : Package \cup {None}, version : Version \cup {None},
            old : Version \cup {None}, key : Key \cup {NoKey}, accept : Key \cup {NoKey}]

Entry == [pkg : Package, version : Version]
Frame == [pkg : Package, version : Version, left : SUBSET Need]

Root == [disk : [Package -> Version \cup {None, Foreign}],
         db : [Package -> Version \cup {None}],
         pin : [Package -> Key \cup {NoKey}],
         auto : SUBSET Package]

Snapshot == [disk |-> disk, db |-> db, pin |-> pin, auto |-> auto]

(* Where nothing is planned there is nothing to compare with. *)
Blank == [disk |-> [p \in Package |-> None], db |-> [p \in Package |-> None],
          pin |-> [p \in Package |-> NoKey], auto |-> {}]

Steps == {"idle", "resolve", "place", "pin", "db", "mark", "file", "unlink", "unmark",
          "unpin", "pass", "next"}

TypeOK ==
    /\ Snapshot \in Root /\ start \in Root
    /\ offered \in [Package -> SUBSET Version]
    /\ pc \in Steps
    /\ cmd \in Command
    /\ stack \in Seq(Frame) /\ plan \in Seq(Entry)
    /\ at \in 0 .. Len(plan)
    /\ had \in SUBSET Package /\ touched \in BOOLEAN
    /\ restore \in {"none", "done", "incomplete", "failed"}
    /\ victim \in Package \cup {None}
    /\ queue \in SUBSET Package /\ failed \in SUBSET Package /\ couldnot \in SUBSET Package
    /\ said \in {"nothing", "done", "refused", "cut"}
    /\ torn \in SUBSET Package

-----------------------------------------------------------------------------
Highest(p) == {v \in offered[p] : \A w \in offered[p] : w <= v}
Lowest(p) == {v \in offered[p] : \A w \in offered[p] : v <= w}

Installed == {p \in Package : db[p] # None}

Names(ds) == {d.name : d \in ds}

(* needed_by: some installed package names p among its Depends. *)
NeededBy(p) == \E q \in Installed : p \in Names(Needs[q][db[q]])

(* find_orphans. *)
Orphans == {p \in Installed : p \in auto /\ ~NeededBy(p)}

(* plan_one's rules on keys: KEY, the pin, and the channel's first signer. *)
KeyAllows(c, p, v) ==
    c.key # NoKey =>
        IF p = c.pkg
        THEN /\ Signer[p][v] = c.key
             /\ pin[p] \in {NoKey, c.key} \/ c.accept = c.key
        ELSE pin[p] # NoKey

(* check_pin. *)
PinAllows(c, p, v) == pin[p] \in {NoKey, Signer[p][v]} \/ c.accept = Signer[p][v]

FirstSigner(c, p, v) ==
    pin[p] = NoKey =>
        Signer[p][v] \in {Signer[p][w] : w \in Lowest(p)} \cup {c.accept, c.key}

Trusts(c, p, v) == KeyAllows(c, p, v) /\ PinAllows(c, p, v) /\ FirstSigner(c, p, v)

Top == stack[Len(stack)]
Planned(p) == {plan[i].version : i \in {j \in 1 .. Len(plan) : plan[j].pkg = p}}
OnStack(p) == \E i \in 1 .. Len(stack) : stack[i].pkg = p

Init ==
    /\ disk \in InitDisk
    /\ db = [p \in Package |-> None]
    /\ pin = [p \in Package |-> NoKey]
    /\ auto = {}
    /\ offered \in InitOffered
    /\ pc = "idle" /\ cmd = NoCommand
    /\ stack = <<>> /\ plan = <<>>
    /\ at = 0 /\ had = {} /\ touched = FALSE
    /\ restore = "none"
    /\ victim = None /\ queue = {} /\ failed = {} /\ couldnot = {}
    /\ said = "nothing"
    /\ start = Blank
    /\ torn = {}

-----------------------------------------------------------------------------
(* call(): every command starts from the same clean state. *)
Begin(step, c) ==
    /\ pc = "idle"
    /\ pc' = step
    /\ cmd' = c
    /\ start' = IF step = "resolve" THEN Snapshot ELSE Blank
    /\ said' = "nothing" /\ restore' = "none"
    /\ plan' = <<>> /\ at' = 0 /\ had' = {} /\ touched' = FALSE
    /\ queue' = {} /\ failed' = {} /\ couldnot' = {}
    /\ UNCHANGED <<offered, disk, db, pin, torn>>

End(how) ==
    /\ pc' = "idle"
    /\ said' = how
    /\ cmd' = NoCommand
    /\ stack' = <<>> /\ plan' = <<>>
    /\ at' = 0 /\ had' = {} /\ touched' = FALSE
    /\ victim' = None /\ queue' = {} /\ failed' = {} /\ couldnot' = {}
    /\ start' = Blank
    /\ UNCHANGED offered

(* plan_one for the package the person named. *)
Ask(c) ==
    /\ c.version \in offered[c.pkg]
    /\ Trusts(c, c.pkg, c.version)
    /\ Begin("resolve", c)
    /\ stack' = << [pkg |-> c.pkg, version |-> c.version, left |-> Needs[c.pkg][c.version]] >>
    /\ UNCHANGED <<victim, auto>>

(* install_steps: what is not installed is planned ... *)
Install(p, v, key, accept) ==
    /\ db[p] = None
    /\ Ask([verb |-> "install", pkg |-> p, version |-> v, old |-> None,
            key |-> key, accept |-> accept])

(* ... and what is, marked or at that version, is kept for itself.         *)
Keep(p) ==
    /\ pc = "idle" /\ db[p] # None
    /\ \/ p \in auto /\ offered[p] # {}
       \/ db[p] \in offered[p]
    /\ auto' \in {auto, auto \ {p}}
    /\ said' = "done" /\ restore' = "none"
    /\ UNCHANGED <<disk, db, pin, offered, pc, cmd, planning, running, removing, start, torn>>

(* upgrade_steps: another version; a lower one is DOWNGRADE's or ROLLBACK's. *)
Upgrade(p, v, key, accept) ==
    /\ db[p] \notin {None, v}
    /\ Ask([verb |-> "upgrade", pkg |-> p, version |-> v, old |-> db[p],
            key |-> key, accept |-> accept])

(* Refused, cancelled, or a package that cannot be fetched. *)
RefusePlan ==
    /\ pc = "resolve"
    /\ End("refused")
    /\ UNCHANGED <<root, restore, torn>>

Leave(stk) ==
    /\ stack' = stk
    /\ UNCHANGED <<root, offered, cmd, restore, removing, said, start, torn>>

(* The needs of the top frame but d are left. *)
Without(d) == [stack EXCEPT ![Len(stack)].left = @ \ {d}]

(* Mutant: an installed package satisfies any minimum. *)
MutSatisfied(d) == db[d.name] # None \/ \E v \in Planned(d.name) : v >= d.min

Satisfied(d) ==
    IF db[d.name] # None THEN db[d.name] >= d.min
                         ELSE \E v \in Planned(d.name) : v >= d.min

(* plan_one for a dependency that is there, or will be. *)
Meet ==
    /\ pc = "resolve" /\ stack # <<>>
    /\ \E d \in Top.left :
          /\ ~OnStack(d.name)
          /\ Satisfied(d)
          /\ Leave(Without(d))
    /\ UNCHANGED <<pc, plan, running>>

(* plan_one for a dependency to bring: the highest version offered. *)
Descend ==
    /\ pc = "resolve" /\ stack # <<>>
    /\ \E d \in Top.left : \E v \in Highest(d.name) :
          /\ ~OnStack(d.name)
          /\ db[d.name] = None /\ Planned(d.name) = {}
          /\ v >= d.min
          /\ Len(stack) < Depth
          /\ Trusts(cmd, d.name, v)
          /\ Leave(Append(Without(d), [pkg |-> d.name, version |-> v,
                                       left |-> Needs[d.name][v]]))
    /\ UNCHANGED <<pc, plan, running>>

(* The frame's needs are all planned: it comes after them. *)
Return ==
    /\ pc = "resolve" /\ stack # <<>> /\ Top.left = {}
    /\ plan' = Append(plan, [pkg |-> Top.pkg, version |-> Top.version])
    /\ Leave(SubSeq(stack, 1, Len(stack) - 1))
    /\ pc' = IF Len(stack) = 1 THEN "place" ELSE "resolve"
    /\ at' = IF Len(stack) = 1 THEN 1 ELSE 0
    /\ UNCHANGED <<had, touched>>

-----------------------------------------------------------------------------
(* run_plan. *)

Now == plan[at]

Last == at = Len(plan)

(* What apply may find at the path: nothing, the bytes it brings, or those *)
(* of the version it replaces.                                             *)
MayPlace == disk[Now.pkg] \in {None, Now.version} \/ (Last /\ disk[Now.pkg] = cmd.old)

Continue(step) ==
    /\ pc' = step
    /\ UNCHANGED <<offered, cmd, planning, at, restore, removing, said, start>>

(* A file that holds these bytes already counts as placed. *)
Place ==
    /\ pc = "place" /\ MayPlace
    /\ disk' = [disk EXCEPT ![Now.pkg] = Now.version]
    /\ touched' = (disk' # disk)
    /\ had' = IF pin[Now.pkg] # NoKey THEN had \cup {Now.pkg} ELSE had
    /\ Continue("pin")
    /\ UNCHANGED <<db, pin, auto, torn>>

WritePin ==
    /\ pc = "pin"
    /\ pin' = [pin EXCEPT ![Now.pkg] = Signer[Now.pkg][Now.version]]
    /\ Continue("db")
    /\ UNCHANGED <<disk, db, auto, had, touched, torn>>

(* A package that was to be there already, and is marked as another's.     *)
WriteDb ==
    /\ pc = "db"
    /\ db' = [db EXCEPT ![Now.pkg] = Now.version]
    /\ torn' = torn \ {Now.pkg}
    /\ IF Last
       THEN End("done")
       ELSE Continue("mark") /\ UNCHANGED <<had, touched>>
    /\ UNCHANGED <<disk, pin, auto, restore>>

(* set_auto(1): when the mark cannot be written, that is said. *)
Mark ==
    /\ pc = "mark"
    /\ auto' \in {auto, auto \cup {Now.pkg}}
    /\ pc' = "place" /\ at' = at + 1 /\ touched' = FALSE
    /\ UNCHANGED <<disk, db, pin, offered, cmd, planning, had, restore, removing, said,
                   start, torn>>

(* Mutant: the first package placed is not taken back out. *)
MutTakeBack(i, told) ==
    IF i <= 1
    THEN End("refused") /\ restore' = IF told = "none" /\ at > 1 THEN "done" ELSE told
    ELSE /\ pc' = "file" /\ at' = i /\ victim' = plan[i].pkg
         /\ restore' = told
         /\ UNCHANGED <<offered, cmd, planning, had, touched, queue, failed, couldnot,
                        said, start>>

(* The packages before i are to be taken back, told so far. *)
TakeBack(i, told) ==
    IF i = 0
    THEN End("refused") /\ restore' = told
    ELSE /\ pc' = "file" /\ at' = i /\ victim' = plan[i].pkg
         /\ restore' = told
         /\ UNCHANGED <<offered, cmd, planning, had, touched, queue, failed, couldnot,
                        said, start>>

(* Refused, cancelled or failed: what is told when nothing is to be undone *)
(* is whether apply had begun to place.                                    *)
Fail ==
    /\ pc \in {"place", "pin", "db"}
    /\ TakeBack(at - 1, IF touched THEN "incomplete" ELSE "none")
    /\ UNCHANGED <<root, torn>>

-----------------------------------------------------------------------------
(* remove_files, for REMOVE, REMOVE ORPHANS and what is taken back.        *)

Undoing == plan # <<>>

Removing(step) ==
    /\ pc' = step
    /\ UNCHANGED <<offered, cmd, planning, running, restore, removing, said, start>>

(* An edited file stays, and one that is gone is gone. *)
DeleteFile ==
    /\ pc = "file"
    /\ disk' = [disk EXCEPT ![victim] = IF @ = db[victim] THEN None ELSE @]
    /\ Removing("unlink")
    /\ UNCHANGED <<db, pin, auto, torn>>

UnlinkDb ==
    /\ pc = "unlink"
    /\ db' = [db EXCEPT ![victim] = None]
    /\ Removing("unmark")
    /\ torn' = torn \ {victim}
    /\ UNCHANGED <<disk, pin, auto>>

(* set_auto(0), whose failure is not asked about. *)
Unmark ==
    /\ pc = "unmark"
    /\ auto' \in {auto, auto \ {victim}}
    /\ \/ Undoing /\ Removing("unpin")
       \/ cmd.verb = "orphans" /\ Removing("next")
       \/ cmd.verb = "remove" /\ End("done") /\ UNCHANGED restore
    /\ UNCHANGED <<disk, db, pin, torn>>

(* Mutant: what could not be removed is not remembered. *)
MutRemember(p) == failed' = failed

(* The name of what could not be removed, while there is room. *)
Remember(p) == failed' = IF Cardinality(failed) < Room THEN failed \cup {p} ELSE failed

TornNow == torn' = torn \cup {victim}

CannotRemove ==
    /\ pc \in {"file", "unlink"}
    /\ \/ Undoing /\ TakeBack(at - 1, "failed") /\ TornNow
       \/ /\ cmd.verb = "orphans"
          /\ Remember(victim) /\ couldnot' = couldnot \cup {victim}
          /\ pc' = "next"
          /\ UNCHANGED <<offered, cmd, planning, running, restore, victim, queue, said,
                         start, torn>>
       \/ cmd.verb = "remove" /\ End("refused") /\ UNCHANGED <<restore, torn>>
    /\ UNCHANGED root

(* Mutant: that the key was there before is not asked. *)
MutUnpin ==
    /\ pc = "unpin"
    /\ pin' = [pin EXCEPT ![victim] = NoKey]
    /\ TakeBack(at - 1, IF restore = "none" /\ at = 1 THEN "done" ELSE restore)
    /\ UNCHANGED <<disk, db, auto, torn>>

(* The pin, when this operation wrote the first one. *)
Unpin ==
    /\ pc = "unpin"
    /\ pin' = IF victim \in had THEN pin ELSE [pin EXCEPT ![victim] = NoKey]
    /\ TakeBack(at - 1, IF restore = "none" /\ at = 1 THEN "done" ELSE restore)
    /\ UNCHANGED <<disk, db, auto, torn>>

CannotUnpin ==
    /\ pc = "unpin" /\ victim \notin had
    /\ TakeBack(at - 1, "failed")
    /\ UNCHANGED <<root, torn>>

(* Mutant: what other packages need is not asked. *)
MutRemove(p) ==
    /\ db[p] # None
    /\ Begin("file", [NoCommand EXCEPT !.verb = "remove", !.pkg = p])
    /\ victim' = p
    /\ UNCHANGED <<stack, auto>>

(* cmd_remove. *)
Remove(p) ==
    /\ db[p] # None /\ ~NeededBy(p)
    /\ Begin("file", [NoCommand EXCEPT !.verb = "remove", !.pkg = p])
    /\ victim' = p
    /\ UNCHANGED <<stack, auto>>

(* remove_orphans. *)
RemoveOrphans ==
    /\ Begin("pass", [NoCommand EXCEPT !.verb = "orphans"])
    /\ UNCHANGED <<stack, victim, auto>>

(* Removing one orphan can orphan its own dependencies. *)
Pass ==
    /\ pc = "pass"
    /\ \/ /\ Orphans \subseteq failed
          /\ End(IF couldnot = {} THEN "done" ELSE "refused")
       \/ /\ ~(Orphans \subseteq failed)
          /\ queue' = Orphans \ failed
          /\ pc' = "next"
          /\ UNCHANGED <<offered, cmd, planning, running, victim, failed, couldnot, said, start>>
    /\ UNCHANGED <<root, restore, torn>>

NextOrphan ==
    /\ pc = "next"
    /\ \/ /\ queue = {} /\ pc' = "pass"
          /\ UNCHANGED <<victim, queue>>
       \/ \E p \in queue : victim' = p /\ queue' = queue \ {p} /\ pc' = "file"
    /\ UNCHANGED <<root, offered, cmd, planning, running, restore, failed, couldnot, said,
                   start, torn>>

-----------------------------------------------------------------------------
(* A crash, a reset or a kill between two steps. *)
Cut ==
    /\ pc # "idle"
    /\ End("cut")
    /\ restore' = "none"
    /\ UNCHANGED <<root, torn>>

(* Someone publishes, between commands. *)
Publish(p, v) ==
    /\ pc = "idle" /\ v \notin offered[p]
    /\ offered' = [offered EXCEPT ![p] = @ \cup {v}]
    /\ UNCHANGED <<root, pc, cmd, planning, running, restore, removing, said, start,
                   torn>>

Resolve == RefusePlan \/ Meet \/ Descend \/ Return
Run == Place \/ WritePin \/ WriteDb \/ Mark \/ Fail
TakeOut == DeleteFile \/ UnlinkDb \/ Unmark \/ CannotRemove \/ Unpin \/ CannotUnpin
Sweep == Pass \/ NextOrphan

Commands ==
    \/ \E p \in Package, v \in Version, g \in Given :
          Install(p, v, g[1], g[2]) \/ Upgrade(p, v, g[1], g[2])
    \/ \E p \in Package : Remove(p)
    \/ RemoveOrphans

Changes ==
    \/ Commands \/ Resolve \/ Run \/ TakeOut \/ Sweep \/ Cut
    \/ \E p \in Package, v \in Version : Publish(p, v)

Next == Changes \/ \E p \in Package : Keep(p)

Spec == Init /\ [][Next]_vars

(* A command under way takes its next step. *)
FairSpec == Spec /\ WF_vars(Resolve \/ Run \/ TakeOut \/ Sweep)

-----------------------------------------------------------------------------
(* "Dependencies go in before what needs them" and a failure takes them    *)
(* back out: through cuts, failures and failed undoing, each installed     *)
(* package has what it needs, but one pkg said it could not take back out. *)
Closed ==
    \A p \in Installed \ torn : Names(Needs[p][db[p]]) \subseteq Installed

(* plan_one: when a version is recorded, each need is installed at the     *)
(* minimum or above.                                                       *)
NeedsMet ==
    [][\A p \in Package : db'[p] \notin {None, db[p]} =>
          \A d \in Needs[p][db'[p]] : db[d.name] # None /\ db[d.name] >= d.min]_vars

(* pkg.h, PKG_RESTORE_DONE: "every package this operation placed was taken *)
(* back out": its entry, its files, and its key unless one was pinned      *)
(* before.  The package that failed is not one of those.                   *)
RestoreTold ==
    [][pc # "idle" /\ pc' = "idle" /\ said' = "refused" /\ restore' = "done" =>
          /\ db' = start.db
          /\ \A p \in Package :
                \/ disk'[p] = start.disk[p] /\ start.disk[p] # None
                \/ disk'[p] = None /\ (pin'[p] = start.pin[p] \/ start.pin[p] # NoKey)]_vars

(* A key begins to be trusted when it signed the oldest version offered,   *)
(* or when ACCEPTKEY, or KEY for the package named, says so; under KEY for *)
(* the package named only.                                                 *)
TrustBegins(p) ==
    /\ pin[p] = NoKey
    /\ pin'[p] \in {Signer[p][w] : w \in Lowest(p)} \cup {cmd.accept, cmd.key}
    /\ cmd.key # NoKey => p = cmd.pkg

(* The person accepts another in its place. *)
TrustMoves(p) == NoKey \notin {pin[p], pin'[p]} /\ pin'[p] = cmd.accept

(* It is taken back with the package that brought it. *)
TrustEnds(p) == pin'[p] = NoKey /\ Undoing /\ start.pin[p] = NoKey

(* What a root trusts.  A package removed, cut or refused leaves its key   *)
(* behind, so that the next install of it is not a first use again; the    *)
(* undo of a plan that meets such a key must leave it, and forget only the *)
(* keys that very plan brought ("the keys this operation pinned",          *)
(* pkg_lib_root.c:2582).                                                   *)
TrustChanges ==
    [][\A p \in Package : pin'[p] # pin[p] =>
          TrustBegins(p) \/ TrustMoves(p) \/ TrustEnds(p)]_vars

(* Every command ends: the dependencies' cycle is found, and what cannot   *)
(* be removed is not tried for ever, while the list of it has room.        *)
Returns == pc # "idle" ~> pc = "idle" \/ Cardinality(couldnot) > Room

=============================================================================
