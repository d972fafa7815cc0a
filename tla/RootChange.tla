----------------------------- MODULE RootChange -----------------------------
(***************************************************************************)
(* One root and the changes pkg makes to it, file by file: INSTALL,        *)
(* UPGRADE, ROLLBACK, REPAIR and REMOVE of one package at a time, each cut *)
(* at any point by a crash, a kill or an I/O refusal, while a person edits *)
(* files and publishers publish.                                           *)
(*                                                                         *)
(* The root's records are .pkg/db, .pkg/prev and .pkg/keys; the files are  *)
(* the paths under the root, with the .pkgnew and .pkgold names beside     *)
(* them.  The lock makes one change run at a time (RootLock); a record is  *)
(* written whole or not at all (RecordFile); plans of several packages are *)
(* PlanRun.  Left out: staging (wiped by the next change, read by none),   *)
(* placements (AT), Amiga attributes, and wording.                         *)
(***************************************************************************)
EXTENDS Naturals, FiniteSets

CONSTANTS
    Package,    \* package names
    Version,    \* versions, ordered as pkg_version_cmp orders them
    Path,       \* paths under the root, in the order of a manifest's files
    Content,    \* what a file holds, as its size and digest tell it apart
    Missing,    \* no file there
    Key,        \* publishers' keys
    NoKey,      \* nothing pinned
    Ships,      \* Ships[p][v][f]: the content p's version v ships at f
    Config,     \* Config[p][v]: the paths v declares CONFIG
    Signer,     \* Signer[p][v]: the key that signed it
    InitDisk,   \* the files a root may hold before pkg's first change
    Edit        \* what a person may write over a file

None == 0       \* no version: not installed, or nothing recorded

ASSUME PackageAssumption == Package # {}
ASSUME VersionAssumption == Version \subseteq Nat \ {0}
ASSUME PathAssumption == Path \subseteq Nat
ASSUME MissingAssumption == Missing \notin Content
ASSUME KeyAssumption == NoKey \notin Key
ASSUME ShipsAssumption ==
    Ships \in [Package -> [Version -> [Path -> Content \cup {Missing}]]]
ASSUME ConfigAssumption == Config \in [Package -> [Version -> SUBSET Path]]
ASSUME SignerAssumption == Signer \in [Package -> [Version -> Key]]
ASSUME DiskAssumption == InitDisk \subseteq [Path -> Content \cup {Missing}]
ASSUME EditAssumption == Edit \subseteq Content

VARIABLES
    (* the root *)
    disk,       \* disk[f]: the content at path f
    pkgnew,     \* pkgnew[f]: the content of f's .pkgnew
    pkgold,     \* pkgold[f]: the content of f's .pkgold
    db,         \* .pkg/db: the version installed
    prev,       \* .pkg/prev: "<from>" then "to <to> <how>"
    pin,        \* .pkg/keys: the key pinned
    (* the channel *)
    offered,    \* offered[p]: the versions published so far
    (* the change under way *)
    pc,         \* its step, "idle" between changes
    cmd,        \* what it was asked, and the versions it goes from and to
    todo,       \* the paths this step has still to take
    skip,       \* "place": those set beside as .pkgnew;
                \* "repair": those whose damaged file is still to be set aside
    failed,     \* REMOVE: some file could not be deleted
    (* observers *)
    raced,      \* paths a person touched since the change under way inspected
    was,        \* was[p]: the version installed before this one, as a set;
                \* anything, after a REMOVE that was cut before it forgot it
    cut         \* the command that was cut, if no person came between

root == <<disk, pkgnew, pkgold, db, prev, pin>>
change == <<pc, cmd, todo, skip, failed, raced>>
vars == <<root, offered, change, was, cut>>

Verb == {"install", "upgrade", "rollback", "repair", "remove"}
Step == {"idle", "place", "drop", "prev", "pin", "db", "repair", "remove",
         "forget"}

MaybeVersion == Version \cup {None}
MaybeContent == Content \cup {Missing}
Command == [verb : Verb \cup {"none"}, pkg : Package, old : MaybeVersion,
            new : MaybeVersion, takeover : BOOLEAN, accept : BOOLEAN,
            named : BOOLEAN]
Previous == [from : MaybeVersion, to : MaybeVersion, how : Verb \cup {"none"}]
NoPrevious == [from |-> None, to |-> None, how |-> "none"]
NoCommand == [verb |-> "none", pkg |-> CHOOSE p \in Package : TRUE, old |-> None,
              new |-> None, takeover |-> FALSE, accept |-> FALSE, named |-> FALSE]

TypeOK ==
    /\ disk \in [Path -> MaybeContent]
    /\ pkgnew \in [Path -> MaybeContent]
    /\ pkgold \in [Path -> MaybeContent]
    /\ db \in [Package -> MaybeVersion]
    /\ prev \in [Package -> Previous]
    /\ pin \in [Package -> Key \cup {NoKey}]
    /\ offered \in [Package -> SUBSET Version]
    /\ pc \in Step
    /\ cmd \in Command
    /\ todo \subseteq Path
    /\ skip \subseteq Path
    /\ failed \in BOOLEAN
    /\ raced \subseteq Path
    /\ was \in [Package -> SUBSET Version]
    /\ cut \in Command

-----------------------------------------------------------------------------
(* Manifests, and what a path holds against them. *)

Ship(p, v, f) == IF v = None THEN Missing ELSE Ships[p][v][f]
Files(p, v) == {f \in Path : Ship(p, v, f) # Missing}
Configs(p, v) == IF v = None THEN {} ELSE Config[p][v]

(* Some other installed package lists the path. *)
OwnedByOther(p, f) == \E q \in Package \ {p} : f \in Files(q, db[q])

(* Mutant: the new version's own bytes count as an edit. *)
MutConflictsNoResume(p, old, new, takeover) ==
    {f \in Files(p, new) \ Configs(p, new) :
        /\ disk[f] # Missing
        /\ \/ f \in Files(p, old) /\ disk[f] # Ship(p, old, f)
           \/ f \notin Files(p, old) /\ disk[f] # Ship(p, new, f) /\ ~takeover
           \/ f \notin Files(p, old) /\ disk[f] = Ship(p, new, f) /\ OwnedByOther(p, f)}

(* Mutant: every file in the way is taken over. *)
MutConflictsTakeover(p, old, new, takeover) ==
    {f \in (Files(p, new) \cap Files(p, old)) \ Configs(p, new) :
        disk[f] \notin {Missing, Ship(p, old, f), Ship(p, new, f)}}

(* What the inspection refuses (15): a file a person edited since the old  *)
(* version was installed, a file already there that this package did not   *)
(* place, an identical one that another package lists.  A file that holds  *)
(* the new version's own bytes is an interrupted change's, not an edit.    *)
Conflicts(p, old, new, takeover) ==
    {f \in Files(p, new) \ Configs(p, new) :
        /\ disk[f] # Missing
        /\ \/ /\ f \in Files(p, old)
              /\ disk[f] \notin {Ship(p, old, f), Ship(p, new, f)}
           \/ /\ f \notin Files(p, old)
              /\ disk[f] # Ship(p, new, f)
              /\ ~takeover
           \/ /\ f \notin Files(p, old)
              /\ disk[f] = Ship(p, new, f)
              /\ OwnedByOther(p, f)}

(* A configuration that is a person's: it stays. *)
Kept(p, old, new) ==
    {f \in Files(p, new) \cap Configs(p, new) :
        disk[f] # Missing /\ (f \in Files(p, old) => disk[f] # Ship(p, old, f))}

(* The new one goes beside it when it is news. *)
Beside(p, old, new) ==
    {f \in Kept(p, old, new) :
        Ship(p, new, f) # IF f \in Files(p, old) THEN Ship(p, old, f) ELSE disk[f]}

(* Mutant: a file that is not there counts as one in place. *)
MutReplacedMissing(p, old, new) ==
    {f \in Files(p, new) \ Kept(p, old, new) : disk[f] \notin {Missing, Ship(p, new, f)}}

(* Nothing being in the way, the rest is put at its own path, but for what *)
(* holds the new version's bytes already.                                  *)
Replaced(p, old, new) ==
    {f \in Files(p, new) \ Kept(p, old, new) : disk[f] # Ship(p, new, f)}

(* A key is pinned, or the signer of the lowest version offered is presumed *)
(* the publisher.                                                          *)
Trusted(p, v, accept) ==
    \/ accept
    \/ pin[p] = Signer[p][v]
    \/ /\ pin[p] = NoKey
       /\ \A w \in offered[p] :
            (\A u \in offered[p] : w <= u) => Signer[p][w] = Signer[p][v]

Highest(p) == {v \in offered[p] : \A w \in offered[p] : w <= v}

(* UPGRADE and INSTALL take the version named, else the highest offered. *)
Choice(p, named) == IF named THEN offered[p] ELSE Highest(p)

(* Mutant: any unfinished change is finished by ROLLBACK. *)
MutRollbackTarget(p) ==
    IF prev[p].from # db[p] THEN prev[p].from ELSE prev[p].to

(* Where ROLLBACK goes: the version recorded, or, when the record is of a  *)
(* rollback that was cut before its database entry, where that one went.   *)
RollbackTarget(p) ==
    IF prev[p].from # db[p] THEN prev[p].from
    ELSE IF prev[p].how = "rollback" /\ prev[p].to # db[p] THEN prev[p].to
    ELSE None

(* What REPAIR puts back: an edited configuration file is not damage. *)
Damaged(p) ==
    {f \in Files(p, db[p]) :
        /\ disk[f] # Ship(p, db[p], f)
        /\ disk[f] # Missing => f \notin Configs(p, db[p])}

-----------------------------------------------------------------------------
Init ==
    /\ disk \in InitDisk
    /\ pkgnew = [f \in Path |-> Missing]
    /\ pkgold = [f \in Path |-> Missing]
    /\ db = [p \in Package |-> None]
    /\ prev = [p \in Package |-> NoPrevious]
    /\ pin = [p \in Package |-> NoKey]
    /\ offered = [p \in Package |-> {}]
    /\ pc = "idle"
    /\ cmd = NoCommand
    /\ todo = {}
    /\ skip = {}
    /\ failed = FALSE
    /\ raced = {}
    /\ was = [p \in Package |-> {}]
    /\ cut = NoCommand

(* The lock is free; the command is taken up and its first step prepared.  *)
Start(c, step, paths, beside) ==
    /\ pc = "idle"
    /\ pc' = step
    /\ cmd' = c
    /\ todo' = paths
    /\ skip' = beside
    /\ cut' = NoCommand
    /\ UNCHANGED <<root, offered, failed, raced, was>>

(* The command returns, done or refused. *)
Finish ==
    /\ pc' = "idle"
    /\ cmd' = NoCommand
    /\ todo' = {}
    /\ skip' = {}
    /\ failed' = FALSE
    /\ raced' = {}

(* One path of the step under way, in manifest order. *)
Take(step, f) ==
    /\ pc = step
    /\ f \in todo
    /\ \A g \in todo : f <= g
    /\ todo' = todo \ {f}
    /\ UNCHANGED <<db, prev, pin, offered, pc, cmd, raced, was, cut>>

(* The next step, once this one has taken every path. *)
Proceed(step, next, paths) ==
    /\ pc = step
    /\ todo = {}
    /\ pc' = next
    /\ todo' = paths
    /\ UNCHANGED <<disk, pkgnew, pkgold, offered, cmd, skip, failed, raced, cut>>

(* The common part of INSTALL, UPGRADE and ROLLBACK: the pin is checked,   *)
(* every file is inspected, and only then does placing begin.  A refusal   *)
(* changes nothing and is a step that is not taken.                        *)
Apply(c) ==
    /\ Trusted(c.pkg, c.new, c.accept)
    /\ Conflicts(c.pkg, c.old, c.new, c.takeover) = {}
    /\ LET beside == Beside(c.pkg, c.old, c.new)
       IN  Start(c, "place",
                 beside \cup Replaced(c.pkg, c.old, c.new), beside)

(* INSTALL <name> [VERSION v] [TAKEOVER] [ACCEPTKEY k] of a package that   *)
(* is not installed.                                                       *)
Install(p, v, named, takeover, accept) ==
    /\ db[p] = None
    /\ v \in Choice(p, named)
    /\ Apply([verb |-> "install", pkg |-> p, old |-> None, new |-> v,
              takeover |-> takeover, accept |-> accept, named |-> named])

(* UPGRADE <name> [VERSION v] [DOWNGRADE] [ACCEPTKEY k]. *)
Upgrade(p, v, named, downgrade, accept) ==
    /\ db[p] # None
    /\ v \in Choice(p, named)
    /\ v # db[p]
    /\ v < db[p] => downgrade
    /\ Apply([verb |-> "upgrade", pkg |-> p, old |-> db[p], new |-> v,
              takeover |-> FALSE, accept |-> accept, named |-> named])

(* ROLLBACK <name> [ACCEPTKEY k]. *)
Rollback(p, accept) ==
    /\ db[p] # None
    /\ RollbackTarget(p) \in offered[p]
    /\ Apply([verb |-> "rollback", pkg |-> p, old |-> db[p],
              new |-> RollbackTarget(p), takeover |-> FALSE, accept |-> accept,
              named |-> TRUE])

(* One rename out of staging: over the path itself, or over its .pkgnew. *)
Place(f) ==
    /\ Take("place", f)
    /\ IF f \in skip
       THEN /\ pkgnew' = [pkgnew EXCEPT ![f] = Ship(cmd.pkg, cmd.new, f)]
            /\ UNCHANGED disk
       ELSE /\ disk' = [disk EXCEPT ![f] = Ship(cmd.pkg, cmd.new, f)]
            /\ UNCHANGED pkgnew
    /\ UNCHANGED <<pkgold, skip, failed>>

(* Every file is placed: the old version's files the new one lacks go next. *)
EndPlace ==
    /\ Proceed("place", "drop", Files(cmd.pkg, cmd.old) \ Files(cmd.pkg, cmd.new))
    /\ UNCHANGED <<db, prev, pin, was>>

(* A dropped file goes when it is intact; an edited one is kept, and one   *)
(* that cannot be deleted is left without a word.                          *)
Drop(f) ==
    /\ Take("drop", f)
    /\ \/ UNCHANGED disk
       \/ /\ disk[f] = Ship(cmd.pkg, cmd.old, f)
          /\ disk' = [disk EXCEPT ![f] = Missing]
    /\ UNCHANGED <<pkgnew, pkgold, skip, failed>>

EndDrop ==
    /\ Proceed("drop", IF cmd.old = None THEN "pin" ELSE "prev", {})
    /\ UNCHANGED <<db, prev, pin, was>>

(* The records, the database last. *)
RecordPrevious ==
    /\ Proceed("prev", "pin", {})
    /\ prev' = [prev EXCEPT ![cmd.pkg] =
                   [from |-> cmd.old, to |-> cmd.new, how |-> cmd.verb]]
    /\ UNCHANGED <<db, pin, was>>

WritePin ==
    /\ Proceed("pin", "db", {})
    /\ pin' = [pin EXCEPT ![cmd.pkg] = Signer[cmd.pkg][cmd.new]]
    /\ UNCHANGED <<db, prev, was>>

WriteDatabase ==
    /\ pc = "db"
    /\ Finish
    /\ db' = [db EXCEPT ![cmd.pkg] = cmd.new]
    /\ was' = IF cmd.old = None THEN was ELSE [was EXCEPT ![cmd.pkg] = {cmd.old}]
    /\ UNCHANGED <<disk, pkgnew, pkgold, prev, pin, offered, cut>>

-----------------------------------------------------------------------------
(* REPAIR puts back the installed version's own bytes, from a channel that *)
(* still offers it under the pinned key.                                   *)
Repair(p) ==
    /\ db[p] \in offered[p]
    /\ Damaged(p) # {}
    /\ pin[p] \in {NoKey, Signer[p][db[p]]}
    /\ Start([verb |-> "repair", pkg |-> p, old |-> db[p], new |-> db[p],
              takeover |-> FALSE, accept |-> FALSE, named |-> TRUE],
             "repair", Damaged(p), {f \in Damaged(p) : disk[f] # Missing})

(* A changed file is renamed to its .pkgold first, *)
SetAside(f) ==
    /\ pc = "repair"
    /\ f \in todo \cap skip
    /\ \A g \in todo : f <= g
    /\ pkgold[f] = Missing
    /\ disk[f] # Missing
    /\ pkgold' = [pkgold EXCEPT ![f] = disk[f]]
    /\ disk' = [disk EXCEPT ![f] = Missing]
    /\ skip' = skip \ {f}
    /\ UNCHANGED <<pkgnew, db, prev, pin, offered, pc, cmd, todo, failed, raced,
                   was, cut>>

(* Mutant: a changed file is left wherever it is in the way. *)
MutLeaveDamaged(f) ==
    /\ Take("repair", f)
    /\ f \in skip
    /\ UNCHANGED <<disk, pkgnew, pkgold, skip, failed>>

(* unless an earlier change is there already: then the file is left. *)
LeaveDamaged(f) ==
    /\ Take("repair", f)
    /\ f \in skip
    /\ pkgold[f] # Missing
    /\ UNCHANGED <<disk, pkgnew, pkgold, skip, failed>>

PutBack(f) ==
    /\ Take("repair", f)
    /\ f \notin skip
    /\ disk' = [disk EXCEPT ![f] = Ship(cmd.pkg, cmd.new, f)]
    /\ UNCHANGED <<pkgnew, pkgold, skip, failed>>

EndRepair ==
    /\ pc = "repair"
    /\ todo = {}
    /\ Finish
    /\ UNCHANGED <<root, offered, was, cut>>

-----------------------------------------------------------------------------
(* REMOVE deletes the intact files, then the database entry, then the      *)
(* other records but the pin.                                              *)
Remove(p) ==
    /\ db[p] # None
    /\ Start([verb |-> "remove", pkg |-> p, old |-> db[p], new |-> None,
              takeover |-> FALSE, accept |-> FALSE, named |-> TRUE],
             "remove", Files(p, db[p]), {})

Delete(f) ==
    /\ Take("remove", f)
    /\ IF disk[f] = Ship(cmd.pkg, cmd.old, f)
       THEN \/ disk' = [disk EXCEPT ![f] = Missing] /\ UNCHANGED failed
            \/ failed' = TRUE /\ UNCHANGED disk
       ELSE UNCHANGED <<disk, failed>>
    /\ UNCHANGED <<pkgnew, pkgold, skip>>

(* A file it could not delete keeps the package in the database. *)
RefuseRemoval ==
    /\ pc = "remove"
    /\ todo = {}
    /\ failed
    /\ Finish
    /\ UNCHANGED <<root, offered, was, cut>>

(* Mutant: the entry goes though a file of the package stayed. *)
MutUnrecord ==
    /\ Proceed("remove", "forget", {})
    /\ db' = [db EXCEPT ![cmd.pkg] = None]
    /\ was' = [was EXCEPT ![cmd.pkg] = Version]
    /\ UNCHANGED <<prev, pin>>

Unrecord ==
    /\ ~failed
    /\ Proceed("remove", "forget", {})
    /\ db' = [db EXCEPT ![cmd.pkg] = None]
    /\ was' = [was EXCEPT ![cmd.pkg] = Version]
    /\ UNCHANGED <<prev, pin>>

Forget ==
    /\ pc = "forget"
    /\ Finish
    /\ prev' = [prev EXCEPT ![cmd.pkg] = NoPrevious]
    /\ was' = [was EXCEPT ![cmd.pkg] = {}]
    /\ UNCHANGED <<disk, pkgnew, pkgold, db, pin, offered, cut>>

-----------------------------------------------------------------------------
(* The change ends where it is: a crash, a kill, a reset, or an I/O error  *)
(* it refuses with.  What it had written stays.                            *)
Cut ==
    /\ pc # "idle"
    /\ cut' = IF raced = {} THEN cmd ELSE NoCommand
    /\ Finish
    /\ UNCHANGED <<root, offered, was>>

(* A person writes, edits or deletes a file, or moves what pkg set beside. *)
PersonWrites(f, c) ==
    /\ disk[f] # c
    /\ disk' = [disk EXCEPT ![f] = c]
    /\ raced' = IF pc = "idle" THEN {} ELSE raced \cup {f}
    /\ cut' = NoCommand
    /\ UNCHANGED <<pkgnew, pkgold, db, prev, pin, offered, pc, cmd, todo, skip,
                   failed, was>>

PersonTidies(f) ==
    /\ pkgnew[f] # Missing \/ pkgold[f] # Missing
    /\ pkgnew' = [pkgnew EXCEPT ![f] = Missing]
    /\ pkgold' = [pkgold EXCEPT ![f] = Missing]
    /\ raced' = IF pc = "idle" THEN {} ELSE raced \cup {f}
    /\ UNCHANGED <<disk, db, prev, pin, offered, pc, cmd, todo, skip, failed, was,
                   cut>>

(* A publisher adds a version to the channel; none is ever changed. *)
Publish(p, v) ==
    /\ v \notin offered[p]
    /\ offered' = [offered EXCEPT ![p] = @ \cup {v}]
    /\ UNCHANGED <<root, change, was, cut>>

Begin ==
    \E p \in Package :
       \/ \E v \in Version, named, option, accept \in BOOLEAN :
             \/ Install(p, v, named, option, accept)
             \/ Upgrade(p, v, named, option, accept)
       \/ \E accept \in BOOLEAN : Rollback(p, accept)
       \/ Repair(p)
       \/ Remove(p)

Progress ==
    \/ \E f \in Path : Place(f) \/ Drop(f) \/ SetAside(f) \/ LeaveDamaged(f)
                         \/ PutBack(f) \/ Delete(f)
    \/ EndPlace \/ EndDrop \/ RecordPrevious \/ WritePin \/ WriteDatabase
    \/ EndRepair \/ RefuseRemoval \/ Unrecord \/ Forget

Environment ==
    \/ \E f \in Path, c \in Edit \cup {Missing} : PersonWrites(f, c)
    \/ \E f \in Path : PersonTidies(f)
    \/ \E p \in Package, v \in Version : Publish(p, v)

Next == Begin \/ Progress \/ Cut \/ Environment

Spec == Init /\ [][Next]_vars
-----------------------------------------------------------------------------
(* A command that goes to a version: its files, its records, its database. *)
Changing == pc \in {"place", "drop", "prev", "pin", "db"}

(* The path holds what the version ships, or a person's configuration with *)
(* the version's own beside it when that is news.                          *)
InPlace(p, old, new, f) ==
    \/ disk[f] = Ship(p, new, f)
    \/ /\ f \in Configs(p, new)
       /\ disk[f] # Missing
       /\ pkgnew[f] = Ship(p, new, f) \/ Ship(p, old, f) = Ship(p, new, f)

(* A file holds bytes no package ships there: a person's. *)
Edited(f) ==
    disk[f] # Missing /\ \A p \in Package, v \in Version : Ship(p, v, f) # disk[f]

(* apply_steps writes .pkg/db last, "it is what says the change is done":  *)
(* when the entry changes, every file of the new version is in place,      *)
(* whatever cut and half-placed changes came before; a path a person       *)
(* touched meanwhile excepted.                                             *)
Committed ==
    [][\A p \in Package : db'[p] \notin {db[p], None} =>
          \A f \in Files(p, db'[p]) \ raced : InPlace(p, db[p], db'[p], f)]_vars

(* "A cut can leave them ahead of the database, never behind it": when the *)
(* entry changes, the pin is already the new version's signer and the      *)
(* rollback record already tells this very change.                         *)
RecordsFirst ==
    [][\A p \in Package : db'[p] \notin {db[p], None} =>
          /\ pin[p] = Signer[p][db'[p]]
          /\ db[p] # None => prev[p].from = db[p] /\ prev[p].to = db'[p]]_vars

(* check_pin: the key a root trusts for a package changes only where the   *)
(* command that changes it carries ACCEPTKEY, and nothing forgets a key.   *)
KeyAccepted ==
    [][\A p \in Package : pin'[p] # pin[p] =>
          pin'[p] # NoKey /\ (pin[p] = NoKey \/ cmd.accept)]_vars

(* "The edit belongs to whoever made it": no command destroys bytes that   *)
(* no package ships, but for TAKEOVER, and for an edit made after the      *)
(* inspection; REPAIR keeps them as .pkgold, and never overwrites those.   *)
EditSurvives ==
    [][\A f \in Path :
         /\ pc # "idle" /\ Edited(f) /\ disk'[f] # disk[f] =>
               \/ f \in raced'
               \/ cmd.takeover
               \/ pkgold[f] = Missing /\ pkgold'[f] = disk[f]
         /\ pkgold[f] # Missing => pkgold'[f] \in {pkgold[f], Missing}]_vars

(* apply_steps refuses a path that holds other bytes: without TAKEOVER no  *)
(* command changes the bytes another installed package put at a path this  *)
(* one did not list already.                                               *)
OthersSpared ==
    [][\A q \in Package, f \in Path :
          (/\ pc # "idle" /\ q # cmd.pkg /\ f \in Files(q, db[q])
           /\ disk[f] = Ship(q, db[q], f) /\ disk'[f] # disk[f]) =>
             f \in raced' \/ cmd.takeover \/ f \in Files(cmd.pkg, cmd.old)]_vars

(* repair_steps: when REPAIR has gone through every file, the package is   *)
(* intact but for what a person touched meanwhile and for a changed file   *)
(* whose .pkgold name was taken.                                           *)
Repaired ==
    [][pc = "repair" /\ todo = {} /\ pc' = "idle" =>
          \A f \in Damaged(cmd.pkg) \ raced : pkgold[f] # Missing]_vars

(* remove_steps: a package leaves the database only when none of its own   *)
(* bytes is left in the root.                                              *)
Removed ==
    [][\A p \in Package : db[p] # None /\ db'[p] = None =>
          \A f \in Files(p, db[p]) \ raced : disk[f] # Ship(p, db[p], f)]_vars

(* What REPAIR and REMOVE say they did is done, whatever they were cut at  *)
(* before.                                                                 *)
DoneAsSaid == Repaired /\ Removed

(* rollback_steps reads a record that may be of a change that never        *)
(* finished: it still goes to the version this one replaced, or nowhere.   *)
RollbackTruth ==
    \A p \in Package : db[p] # None => RollbackTarget(p) \in was[p] \cup {None}

(* The command is accepted again and goes the same way. *)
Resumes(c) ==
    /\ db[c.pkg] = c.old
    /\ Conflicts(c.pkg, c.old, c.new, c.takeover) = {}
    /\ pin[c.pkg] \in {NoKey, Signer[c.pkg][c.new]} \/ c.accept
    /\ c.verb = "rollback" => RollbackTarget(c.pkg) = c.new

(* "A change cut at any point is finished by giving the same command       *)
(* again" (docs/history.md): a cut INSTALL, UPGRADE or ROLLBACK that goes  *)
(* to the same version is not refused, its half-placed files are not taken *)
(* for edits, and its records do not send it elsewhere.  The version is    *)
(* the same when it was named, and no other package lists the files.       *)
CutResumes ==
    /\ cut.verb \in {"install", "upgrade", "rollback"}
    /\ \A f \in Files(cut.pkg, cut.new) : ~OwnedByOther(cut.pkg, f)
    => Resumes(cut)

=============================================================================
