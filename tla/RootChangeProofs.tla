-------------------------- MODULE RootChangeProofs --------------------------
(***************************************************************************)
(* Proofs about RootChange, for every set of packages, versions, paths and *)
(* contents.                                                               *)
(***************************************************************************)
EXTENDS RootChange, TLAPS

(***************************************************************************)
(* What holds while a command is under way.  Each part is what the steps   *)
(* already taken have established, and what the ones to come rely on.      *)
(***************************************************************************)

(* The command is about the version installed when it began. *)
CommandInv ==
    /\ Changing => cmd.new \in Version /\ db[cmd.pkg] = cmd.old
    /\ pc = "repair" => cmd.new = db[cmd.pkg]
    /\ pc = "remove" => db[cmd.pkg] = cmd.old

(* The paths of the new version still to be placed. *)
Ahead == IF pc = "place" THEN todo ELSE {}

(* What is not ahead is in place: it was found so, or was placed. *)
PlacedInv ==
    Changing => \A f \in Files(cmd.pkg, cmd.new) \ (raced \cup Ahead) :
                   InPlace(cmd.pkg, cmd.old, cmd.new, f)

(* The records precede the database entry. *)
RecordsInv ==
    /\ pc \in {"pin", "db"} /\ cmd.old # None =>
          prev[cmd.pkg].from = cmd.old /\ prev[cmd.pkg].to = cmd.new
    /\ pc = "db" => pin[cmd.pkg] = Signer[cmd.pkg][cmd.new]

(* The signer was checked against the pin, which no other command changes. *)
TrustInv ==
    Changing => pin[cmd.pkg] \in {NoKey, Signer[cmd.pkg][cmd.new]} \/ cmd.accept

(* A path that is to be overwritten holds nobody's edit. *)
SpareInv ==
    \A f \in todo \ (skip \cup raced) :
       /\ pc = "place" => \/ disk[f] \in {Missing, Ship(cmd.pkg, cmd.old, f)}
                          \/ cmd.takeover
       /\ pc = "repair" => disk[f] = Missing

(* What is to be set beside is a configuration that is there. *)
BesideInv ==
    pc = "place" => \A f \in (todo \cap skip) \ raced :
                       f \in Configs(cmd.pkg, cmd.new) /\ disk[f] # Missing

(* What is to be dropped is no path of the new version. *)
DropInv ==
    pc = "drop" => todo \cap Files(cmd.pkg, cmd.new) = {}

(* What REMOVE has passed holds no bytes of the package, or a deletion     *)
(* failed.                                                                 *)
GoneInv ==
    pc = "remove" /\ ~failed =>
       \A f \in Files(cmd.pkg, cmd.old) \ (todo \cup raced) :
          disk[f] # Ship(cmd.pkg, cmd.old, f)

UnderWay ==
    /\ CommandInv /\ PlacedInv /\ RecordsInv /\ TrustInv
    /\ SpareInv /\ BesideInv /\ DropInv /\ GoneInv

-----------------------------------------------------------------------------
(* What a version ships at a path is a content, or nothing. *)
LEMMA ShipType ==
    ASSUME NEW p \in Package, NEW v \in MaybeVersion, NEW f \in Path
    PROVE  Ship(p, v, f) \in MaybeContent
  BY ShipsAssumption DEF Ship, MaybeVersion, MaybeContent, None

(* Only versions are installed, recorded or asked for. *)
LEMMA NoneIsNoVersion == None \notin Version
  BY VersionAssumption DEF None

LEMMA NoCommandType == NoCommand \in Command /\ NoPrevious \in Previous
  BY PackageAssumption DEF NoCommand, Command, NoPrevious, Previous, MaybeVersion

(* Start is the beginning of every command. *)
LEMMA StartType ==
    ASSUME TypeOK, NEW c \in Command, NEW step \in Step,
           NEW paths \in SUBSET Path, NEW beside \in SUBSET Path,
           Start(c, step, paths, beside)
    PROVE  TypeOK'
  BY NoCommandType DEF TypeOK, Start, root

LEMMA ApplyType ==
    ASSUME TypeOK, NEW c \in Command, Apply(c)
    PROVE  TypeOK'
  <1> DEFINE beside == Beside(c.pkg, c.old, c.new)
             paths == beside \cup Replaced(c.pkg, c.old, c.new)
  <1>1. Start(c, "place", paths, beside)
    BY DEF Apply
  <1>2. paths \in SUBSET Path /\ beside \in SUBSET Path
    BY DEF Beside, Kept, Replaced, Files
  <1>3. "place" \in Step
    BY DEF Step
  <1> QED BY <1>1, <1>2, <1>3, StartType

LEMMA FinishType ==
    ASSUME Finish
    PROVE  /\ pc' \in Step
           /\ cmd' \in Command
           /\ todo' \subseteq Path
           /\ skip' \subseteq Path
           /\ failed' \in BOOLEAN
           /\ raced' \subseteq Path
  BY NoCommandType DEF Finish, Step

(* The type invariant, one step per action of Next. *)
LEMMA TypeStep ==
    ASSUME TypeOK, CommandInv, [Next]_vars
    PROVE  TypeOK'
  <1> USE DEF TypeOK
  <1>1. ASSUME NEW p \in Package, NEW v \in Version, NEW n \in BOOLEAN,
               NEW t \in BOOLEAN, NEW a \in BOOLEAN, Install(p, v, n, t, a)
        PROVE  TypeOK'
    <2> DEFINE c == [verb |-> "install", pkg |-> p, old |-> None, new |-> v,
                     takeover |-> t, accept |-> a, named |-> n]
    <2>1. c \in Command
      BY DEF Command, MaybeVersion, Verb
    <2>2. Apply(c)
      BY <1>1 DEF Install
    <2> QED BY <2>1, <2>2, ApplyType
  <1>2. ASSUME NEW p \in Package, NEW v \in Version, NEW n \in BOOLEAN,
               NEW d \in BOOLEAN, NEW a \in BOOLEAN, Upgrade(p, v, n, d, a)
        PROVE  TypeOK'
    <2> DEFINE c == [verb |-> "upgrade", pkg |-> p, old |-> db[p], new |-> v,
                     takeover |-> FALSE, accept |-> a, named |-> n]
    <2>1. c \in Command
      BY DEF Command, MaybeVersion, Verb
    <2>2. Apply(c)
      BY <1>2 DEF Upgrade
    <2> QED BY <2>1, <2>2, ApplyType
  <1>3. ASSUME NEW p \in Package, NEW a \in BOOLEAN, Rollback(p, a)
        PROVE  TypeOK'
    <2> DEFINE c == [verb |-> "rollback", pkg |-> p, old |-> db[p],
                     new |-> RollbackTarget(p), takeover |-> FALSE, accept |-> a,
                     named |-> TRUE]
    <2>1. RollbackTarget(p) \in Version
      BY <1>3 DEF Rollback
    <2>2. c \in Command
      BY <2>1 DEF Command, MaybeVersion, Verb
    <2>3. Apply(c)
      BY <1>3 DEF Rollback
    <2> QED BY <2>2, <2>3, ApplyType
  <1>4. ASSUME NEW p \in Package, Repair(p)
        PROVE  TypeOK'
    <2> DEFINE c == [verb |-> "repair", pkg |-> p, old |-> db[p], new |-> db[p],
                     takeover |-> FALSE, accept |-> FALSE, named |-> TRUE]
               S == {f \in Damaged(p) : disk[f] # Missing}
    <2>1. c \in Command
      BY DEF Command, MaybeVersion, Verb
    <2>2. Start(c, "repair", Damaged(p), S)
      BY <1>4 DEF Repair
    <2>3. Damaged(p) \in SUBSET Path /\ S \in SUBSET Path
      BY DEF Damaged, Files
    <2>4. "repair" \in Step
      BY DEF Step
    <2> QED BY <2>1, <2>2, <2>3, <2>4, StartType
  <1>5. ASSUME NEW p \in Package, Remove(p)
        PROVE  TypeOK'
    <2> DEFINE c == [verb |-> "remove", pkg |-> p, old |-> db[p], new |-> None,
                     takeover |-> FALSE, accept |-> FALSE, named |-> TRUE]
    <2>1. c \in Command
      BY DEF Command, MaybeVersion, Verb
    <2>2. Start(c, "remove", Files(p, db[p]), {})
      BY <1>5 DEF Remove
    <2>3. Files(p, db[p]) \in SUBSET Path /\ {} \in SUBSET Path
      BY DEF Files
    <2>4. "remove" \in Step
      BY DEF Step
    <2> QED BY <2>1, <2>2, <2>3, <2>4, StartType
  <1>6. ASSUME NEW f \in Path, Place(f)
        PROVE  TypeOK'
    <2>1. Ship(cmd.pkg, cmd.new, f) \in MaybeContent
      BY ShipType DEF Command
    <2> QED BY <1>6, <2>1 DEF Place, Take
  <1>7. ASSUME NEW f \in Path, Drop(f)
        PROVE  TypeOK'
    BY <1>7 DEF Drop, Take, MaybeContent
  <1>8. ASSUME NEW f \in Path, SetAside(f)
        PROVE  TypeOK'
    BY <1>8 DEF SetAside, MaybeContent
  <1>9. ASSUME NEW f \in Path, LeaveDamaged(f)
        PROVE  TypeOK'
    BY <1>9 DEF LeaveDamaged, Take
  <1>10. ASSUME NEW f \in Path, PutBack(f)
         PROVE  TypeOK'
    <2>1. Ship(cmd.pkg, cmd.new, f) \in MaybeContent
      BY ShipType DEF Command
    <2> QED BY <1>10, <2>1 DEF PutBack, Take
  <1>11. ASSUME NEW f \in Path, Delete(f)
         PROVE  TypeOK'
    BY <1>11 DEF Delete, Take, MaybeContent
  <1>12. CASE EndPlace
    BY <1>12 DEF EndPlace, Proceed, Step, Files
  <1>13. CASE EndDrop
    BY <1>13 DEF EndDrop, Proceed, Step
  <1>14. CASE RecordPrevious
    <2>1. [from |-> cmd.old, to |-> cmd.new, how |-> cmd.verb] \in Previous
      BY DEF Previous, Command
    <2> QED BY <1>14, <2>1 DEF RecordPrevious, Proceed, Step
  <1>15. CASE WritePin
    <2>1. cmd.pkg \in Package /\ cmd.new \in Version
      BY <1>15 DEF WritePin, Proceed, CommandInv, Changing, Command
    <2>2. Signer[cmd.pkg][cmd.new] \in Key
      BY <2>1, SignerAssumption
    <2>3. pin' \in [Package -> Key \cup {NoKey}]
      BY <1>15, <2>2 DEF WritePin
    <2>4. pc' \in Step /\ todo' \subseteq Path
      BY <1>15 DEF WritePin, Proceed, Step
    <2> QED BY <1>15, <2>3, <2>4 DEF WritePin, Proceed
  <1>16. CASE WriteDatabase
    <2>1. cmd.new \in MaybeVersion /\ (cmd.old = None \/ cmd.old \in Version)
      BY DEF Command, MaybeVersion
    <2>2. db' \in [Package -> MaybeVersion]
      BY <1>16, <2>1 DEF WriteDatabase
    <2>3. was' \in [Package -> SUBSET Version]
      BY <1>16, <2>1 DEF WriteDatabase
    <2> QED BY <1>16, <2>2, <2>3, FinishType DEF WriteDatabase
  <1>17. CASE EndRepair
    BY <1>17, FinishType DEF EndRepair, root
  <1>18. CASE RefuseRemoval
    BY <1>18, FinishType DEF RefuseRemoval, root
  <1>19. CASE Unrecord
    BY <1>19 DEF Unrecord, Proceed, Step, MaybeVersion
  <1>20. CASE Forget
    BY <1>20, FinishType, NoCommandType DEF Forget
  <1>21. CASE Cut
    BY <1>21, FinishType, NoCommandType DEF Cut, root
  <1>22. ASSUME NEW f \in Path, NEW c \in Edit \cup {Missing}, PersonWrites(f, c)
         PROVE  TypeOK'
    BY <1>22, EditAssumption, NoCommandType DEF PersonWrites, MaybeContent
  <1>23. ASSUME NEW f \in Path, PersonTidies(f)
         PROVE  TypeOK'
    BY <1>23 DEF PersonTidies, MaybeContent
  <1>24. ASSUME NEW p \in Package, NEW v \in Version, Publish(p, v)
         PROVE  TypeOK'
    BY <1>24 DEF Publish, root, change
  <1>25. CASE UNCHANGED vars
    BY <1>25 DEF vars, root, change
  <1> HIDE DEF TypeOK
  <1>26. CASE Begin
    BY <1>1, <1>2, <1>3, <1>4, <1>5, <1>26 DEF Begin
  <1>27. CASE Progress
    BY <1>6, <1>7, <1>8, <1>9, <1>10, <1>11, <1>12, <1>13, <1>14, <1>15, <1>16,
       <1>17, <1>18, <1>19, <1>20, <1>27 DEF Progress
  <1>28. CASE Environment
    BY <1>22, <1>23, <1>24, <1>28 DEF Environment
  <1> QED BY <1>21, <1>25, <1>26, <1>27, <1>28 DEF Next

-----------------------------------------------------------------------------
(* The inspection of Apply establishes what placing relies on: a path that *)
(* is neither in the way nor to be placed is in place, and one that is to  *)
(* be overwritten is missing, or the old version's, or TAKEOVER's.         *)
LEMMA Inspection ==
    ASSUME NEW p \in Package, NEW old \in MaybeVersion, NEW new \in Version,
           NEW t \in BOOLEAN, Conflicts(p, old, new, t) = {}
    PROVE  /\ \A f \in Files(p, new) \ (Beside(p, old, new) \cup Replaced(p, old, new)) :
                 InPlace(p, old, new, f)
           /\ \A f \in Replaced(p, old, new) \ Beside(p, old, new) :
                 disk[f] \in {Missing, Ship(p, old, f)} \/ t
           /\ \A f \in Beside(p, old, new) :
                 f \in Configs(p, new) /\ disk[f] # Missing
  <1>1. ASSUME NEW f \in Files(p, new), f \notin Beside(p, old, new),
               f \notin Replaced(p, old, new)
        PROVE  InPlace(p, old, new, f)
    <2>1. CASE f \in Configs(p, new)
      BY <1>1, <2>1 DEF Beside, Kept, Replaced, InPlace, Files
    <2>2. CASE f \notin Configs(p, new)
      <3>1. f \notin Conflicts(p, old, new, t)
        OBVIOUS
      <3> QED BY <1>1, <2>2, <3>1 DEF Conflicts, Kept, Replaced, InPlace, Files
    <2> QED BY <2>1, <2>2
  <1>2. ASSUME NEW f \in Replaced(p, old, new)
        PROVE  disk[f] \in {Missing, Ship(p, old, f)} \/ t
    BY <1>2 DEF Conflicts, Kept, Replaced, Files
  <1>3. ASSUME NEW f \in Beside(p, old, new)
        PROVE  f \in Configs(p, new) /\ disk[f] # Missing
    BY <1>3 DEF Beside, Kept
  <1> QED BY <1>1, <1>2, <1>3

(* A command that goes to a version begins with all of UnderWay. *)
LEMMA ApplyInv ==
    ASSUME TypeOK, NEW c \in Command, Apply(c), c.new \in Version,
           c.old = db[c.pkg], c.pkg \in Package
    PROVE  UnderWay'
  <1> DEFINE beside == Beside(c.pkg, c.old, c.new)
             placed == Replaced(c.pkg, c.old, c.new)
  <1>1. /\ pc' = "place" /\ cmd' = c /\ todo' = beside \cup placed /\ skip' = beside
        /\ UNCHANGED <<disk, pkgnew, pkgold, db, prev, pin, raced>>
    BY DEF Apply, Start, root
  <1>2. /\ \A f \in Files(c.pkg, c.new) \ (beside \cup placed) :
              InPlace(c.pkg, c.old, c.new, f)
        /\ \A f \in placed \ beside :
              disk[f] \in {Missing, Ship(c.pkg, c.old, f)} \/ c.takeover
        /\ \A f \in beside : f \in Configs(c.pkg, c.new) /\ disk[f] # Missing
    <2>1. /\ c.pkg \in Package /\ c.old \in MaybeVersion /\ c.new \in Version
          /\ c.takeover \in BOOLEAN /\ Conflicts(c.pkg, c.old, c.new, c.takeover) = {}
      BY DEF Command, Apply
    <2> QED BY <2>1, Inspection
  <1>3. CommandInv'
    BY <1>1 DEF CommandInv, Changing
  <1>4. PlacedInv'
    <2> HIDE DEF beside, placed
    <2> QED BY <1>1, <1>2 DEF PlacedInv, Changing, InPlace, Ahead
  <1>5. RecordsInv'
    BY <1>1 DEF RecordsInv
  <1>6. TrustInv'
    BY <1>1 DEF TrustInv, Apply, Trusted
  <1>7. SpareInv'
    <2> HIDE DEF beside, placed
    <2> QED BY <1>1, <1>2 DEF SpareInv
  <1>8. BesideInv'
    <2> HIDE DEF beside, placed
    <2> QED BY <1>1, <1>2 DEF BesideInv
  <1>9. DropInv' /\ GoneInv'
    BY <1>1 DEF DropInv, GoneInv
  <1> QED BY <1>3, <1>4, <1>5, <1>6, <1>7, <1>8, <1>9 DEF UnderWay

(* Between commands UnderWay says nothing. *)
LEMMA IdleInv ==
    ASSUME pc' = "idle"
    PROVE  UnderWay'
  BY DEF UnderWay, CommandInv, PlacedInv, RecordsInv, TrustInv, SpareInv, BesideInv,
         DropInv, GoneInv, Changing

(* UnderWay is inductive, one step per action of Next. *)
LEMMA UnderWayStep ==
    ASSUME TypeOK, UnderWay, [Next]_vars
    PROVE  UnderWay'
  <1>1. ASSUME NEW p \in Package, NEW v \in Version, NEW n \in BOOLEAN,
               NEW t \in BOOLEAN, NEW a \in BOOLEAN, Install(p, v, n, t, a)
        PROVE  UnderWay'
    <2> DEFINE c == [verb |-> "install", pkg |-> p, old |-> None, new |-> v,
                     takeover |-> t, accept |-> a, named |-> n]
    <2>1. c \in Command /\ c.new \in Version /\ c.pkg \in Package
      BY DEF Command, MaybeVersion, Verb
    <2>2. Apply(c) /\ c.old = db[c.pkg]
      BY <1>1 DEF Install
    <2> QED BY <2>1, <2>2, ApplyInv
  <1>2. ASSUME NEW p \in Package, NEW v \in Version, NEW n \in BOOLEAN,
               NEW d \in BOOLEAN, NEW a \in BOOLEAN, Upgrade(p, v, n, d, a)
        PROVE  UnderWay'
    <2> DEFINE c == [verb |-> "upgrade", pkg |-> p, old |-> db[p], new |-> v,
                     takeover |-> FALSE, accept |-> a, named |-> n]
    <2>1. c \in Command /\ c.new \in Version /\ c.pkg \in Package
      BY DEF Command, MaybeVersion, Verb, TypeOK
    <2>2. Apply(c) /\ c.old = db[c.pkg]
      BY <1>2 DEF Upgrade
    <2> QED BY <2>1, <2>2, ApplyInv
  <1>3. ASSUME NEW p \in Package, NEW a \in BOOLEAN, Rollback(p, a)
        PROVE  UnderWay'
    <2> DEFINE c == [verb |-> "rollback", pkg |-> p, old |-> db[p],
                     new |-> RollbackTarget(p), takeover |-> FALSE, accept |-> a,
                     named |-> TRUE]
    <2>1. RollbackTarget(p) \in Version
      BY <1>3 DEF Rollback, TypeOK
    <2>2. c \in Command /\ c.new \in Version /\ c.pkg \in Package
      BY <2>1 DEF Command, MaybeVersion, Verb, TypeOK
    <2>3. Apply(c) /\ c.old = db[c.pkg]
      BY <1>3 DEF Rollback
    <2> QED BY <2>2, <2>3, ApplyInv
  <1>4. ASSUME NEW p \in Package, Repair(p)
        PROVE  UnderWay'
    <2>1. /\ pc' = "repair" /\ cmd'.new = db[p] /\ cmd'.pkg = p
          /\ todo' = Damaged(p) /\ skip' = {f \in Damaged(p) : disk[f] # Missing}
          /\ UNCHANGED <<disk, db>>
      BY <1>4 DEF Repair, Start, root
    <2> QED BY <2>1 DEF UnderWay, CommandInv, PlacedInv, RecordsInv, TrustInv,
                        SpareInv, BesideInv, DropInv, GoneInv,
                        Changing
  <1>5. ASSUME NEW p \in Package, Remove(p)
        PROVE  UnderWay'
    <2>1. /\ pc' = "remove" /\ cmd'.old = db[p] /\ cmd'.pkg = p
          /\ todo' = Files(p, db[p]) /\ UNCHANGED <<disk, db>>
      BY <1>5 DEF Remove, Start, root
    <2> QED BY <2>1 DEF UnderWay, CommandInv, PlacedInv, RecordsInv, TrustInv,
                        SpareInv, BesideInv, DropInv, GoneInv,
                        Changing
  <1>6. ASSUME NEW f \in Path, Place(f)
        PROVE  UnderWay'
    <2>1. /\ pc = "place" /\ pc' = "place" /\ f \in todo /\ todo' = todo \ {f}
          /\ UNCHANGED <<db, prev, pin, cmd, raced, skip>>
      BY <1>6 DEF Place, Take
    <2>2. PlacedInv'
      <3> SUFFICES ASSUME NEW g \in Files(cmd.pkg, cmd.new) \ (raced \cup (todo \ {f}))
                   PROVE  InPlace(cmd.pkg, cmd.old, cmd.new, g)'
        BY <2>1 DEF PlacedInv, Ahead, InPlace
      <3>1. CASE g # f
        <4>1. InPlace(cmd.pkg, cmd.old, cmd.new, g)
          BY <2>1, <3>1 DEF UnderWay, PlacedInv, Changing, Ahead
        <4>2. disk'[g] = disk[g] /\ pkgnew'[g] = pkgnew[g]
          BY <1>6, <3>1 DEF Place, TypeOK, Files
        <4> QED BY <2>1, <4>1, <4>2 DEF InPlace
      <3>2. CASE g = f
        <4>1. CASE f \in skip
          <5>1. pkgnew'[f] = Ship(cmd.pkg, cmd.new, f) /\ disk' = disk
            BY <1>6, <4>1 DEF Place, TypeOK
          <5>2. f \in Configs(cmd.pkg, cmd.new) /\ disk[f] # Missing
            BY <2>1, <3>2, <4>1 DEF UnderWay, BesideInv
          <5> QED BY <2>1, <3>2, <5>1, <5>2 DEF InPlace
        <4>2. CASE f \notin skip
          <5>1. disk'[f] = Ship(cmd.pkg, cmd.new, f)
            BY <1>6, <4>2 DEF Place, TypeOK
          <5> QED BY <2>1, <3>2, <5>1 DEF InPlace
        <4> QED BY <4>1, <4>2
      <3> QED BY <3>1, <3>2
    <2>3. \A g \in todo' : disk'[g] = disk[g]
      BY <1>6, <2>1 DEF Place, TypeOK
    <2>4. SpareInv' /\ BesideInv'
      BY <2>1, <2>3 DEF UnderWay, SpareInv, BesideInv
    <2> QED BY <2>1, <2>2, <2>4 DEF UnderWay, CommandInv, RecordsInv, TrustInv,
                                    DropInv, GoneInv, Changing
  <1>7. ASSUME NEW f \in Path, Drop(f)
        PROVE  UnderWay'
    <2>1. /\ pc = "drop" /\ pc' = "drop" /\ f \in todo /\ todo' = todo \ {f}
          /\ UNCHANGED <<pkgnew, db, prev, pin, cmd, raced, skip>>
          /\ \A g \in Path \ {f} : disk'[g] = disk[g]
      BY <1>7 DEF Drop, Take, TypeOK
    <2>2. f \notin Files(cmd.pkg, cmd.new)
      BY <2>1 DEF UnderWay, DropInv
    <2>3. PlacedInv'
      BY <2>1, <2>2 DEF UnderWay, PlacedInv, Ahead, InPlace, Files, Changing
    <2> QED BY <2>1, <2>3 DEF UnderWay, CommandInv, RecordsInv, TrustInv, SpareInv,
                              BesideInv, DropInv, GoneInv, Changing
  <1>8. ASSUME NEW f \in Path, SetAside(f)
        PROVE  UnderWay'
    <2>1. /\ pc = "repair" /\ pc' = "repair" /\ skip' = skip \ {f}
          /\ UNCHANGED <<db, cmd, todo, raced>>
          /\ disk' = [disk EXCEPT ![f] = Missing]
      BY <1>8 DEF SetAside
    <2>2. SpareInv'
      BY <2>1 DEF UnderWay, SpareInv, TypeOK
    <2> QED BY <2>1, <2>2 DEF UnderWay, CommandInv, PlacedInv, RecordsInv, TrustInv,
                              BesideInv, DropInv, GoneInv, Changing
  <1>9. ASSUME NEW f \in Path, LeaveDamaged(f)
        PROVE  UnderWay'
    BY <1>9 DEF LeaveDamaged, Take, UnderWay, CommandInv, PlacedInv, RecordsInv,
                TrustInv, SpareInv, BesideInv, DropInv, GoneInv, Changing
  <1>10. ASSUME NEW f \in Path, PutBack(f)
         PROVE  UnderWay'
    <2>1. /\ pc = "repair" /\ pc' = "repair" /\ todo' = todo \ {f}
          /\ UNCHANGED <<db, cmd, skip, raced>>
          /\ \A g \in Path \ {f} : disk'[g] = disk[g]
      BY <1>10 DEF PutBack, Take, TypeOK
    <2>2. SpareInv'
      BY <2>1 DEF UnderWay, SpareInv, TypeOK
    <2> QED BY <2>1, <2>2 DEF UnderWay, CommandInv, PlacedInv, RecordsInv, TrustInv,
                              BesideInv, DropInv, GoneInv, Changing
  <1>11. ASSUME NEW f \in Path, Delete(f)
         PROVE  UnderWay'
    <2>1. /\ pc = "remove" /\ pc' = "remove" /\ todo' = todo \ {f}
          /\ UNCHANGED <<db, cmd, skip, raced>>
          /\ \A g \in Path \ {f} : disk'[g] = disk[g]
          /\ \/ disk'[f] = Missing /\ failed' = failed
             \/ failed' = TRUE
             \/ /\ disk[f] # Ship(cmd.pkg, cmd.old, f)
                /\ disk'[f] = disk[f] /\ failed' = failed
      BY <1>11 DEF Delete, Take, TypeOK
    <2>2. GoneInv'
      BY <2>1 DEF UnderWay, GoneInv, TypeOK, Files
    <2> QED BY <2>1, <2>2 DEF UnderWay, CommandInv, PlacedInv, RecordsInv, TrustInv,
                              SpareInv, BesideInv, DropInv, Changing
  <1>12. CASE EndPlace
    <2>1. /\ pc = "place" /\ pc' = "drop" /\ todo = {}
          /\ todo' = Files(cmd.pkg, cmd.old) \ Files(cmd.pkg, cmd.new)
          /\ UNCHANGED <<disk, pkgnew, db, prev, pin, cmd, raced>>
      BY <1>12 DEF EndPlace, Proceed
    <2>2. PlacedInv'
      BY <2>1 DEF UnderWay, PlacedInv, Ahead, InPlace, Changing
    <2> QED BY <2>1, <2>2 DEF UnderWay, CommandInv, RecordsInv, TrustInv, SpareInv,
                              BesideInv, DropInv, GoneInv, Changing
  <1>13. CASE EndDrop
    <2>1. /\ pc = "drop" /\ pc' = (IF cmd.old = None THEN "pin" ELSE "prev")
          /\ UNCHANGED <<disk, pkgnew, db, prev, pin, cmd, raced>>
      BY <1>13 DEF EndDrop, Proceed
    <2>2. PlacedInv'
      BY <2>1 DEF UnderWay, PlacedInv, Ahead, InPlace, Changing
    <2> QED BY <2>1, <2>2 DEF UnderWay, CommandInv, RecordsInv, TrustInv, SpareInv,
                              BesideInv, DropInv, GoneInv, Changing
  <1>14. CASE RecordPrevious
    <2>1. /\ pc = "prev" /\ pc' = "pin"
          /\ UNCHANGED <<disk, pkgnew, db, pin, cmd, raced>>
          /\ prev'[cmd.pkg].from = cmd.old /\ prev'[cmd.pkg].to = cmd.new
      BY <1>14 DEF RecordPrevious, Proceed, TypeOK, Command
    <2>2. PlacedInv'
      BY <2>1 DEF UnderWay, PlacedInv, Ahead, InPlace, Changing
    <2> QED BY <2>1, <2>2 DEF UnderWay, CommandInv, RecordsInv, TrustInv, SpareInv,
                              BesideInv, DropInv, GoneInv, Changing
  <1>15. CASE WritePin
    <2>1. /\ pc = "pin" /\ pc' = "db"
          /\ UNCHANGED <<disk, pkgnew, db, prev, cmd, raced>>
          /\ pin'[cmd.pkg] = Signer[cmd.pkg][cmd.new]
      BY <1>15 DEF WritePin, Proceed, TypeOK, Command
    <2>2. PlacedInv'
      BY <2>1 DEF UnderWay, PlacedInv, Ahead, InPlace, Changing
    <2> QED BY <2>1, <2>2 DEF UnderWay, CommandInv, RecordsInv, TrustInv, SpareInv,
                              BesideInv, DropInv, GoneInv, Changing
  <1>16. CASE WriteDatabase \/ EndRepair \/ RefuseRemoval \/ Forget \/ Cut
    BY <1>16, IdleInv DEF WriteDatabase, EndRepair, RefuseRemoval, Forget, Cut, Finish
  <1>17. CASE Unrecord
    BY <1>17 DEF Unrecord, Proceed, UnderWay, CommandInv, PlacedInv, RecordsInv,
                 TrustInv, SpareInv, BesideInv, DropInv, GoneInv, Changing
  <1>18. ASSUME NEW f \in Path, NEW c \in Edit \cup {Missing}, PersonWrites(f, c)
         PROVE  UnderWay'
    <2>1. CASE pc = "idle"
      BY <1>18, <2>1, IdleInv DEF PersonWrites
    <2>2. CASE pc # "idle"
      <3>1. /\ UNCHANGED <<pkgnew, db, prev, pin, pc, cmd, todo, skip, failed>>
            /\ raced' = raced \cup {f}
            /\ \A g \in Path \ {f} : disk'[g] = disk[g]
        BY <1>18, <2>2 DEF PersonWrites, TypeOK
      <3>2. PlacedInv'
        BY <3>1 DEF UnderWay, PlacedInv, Ahead, InPlace, Changing, Files
      <3>3. SpareInv' /\ BesideInv' /\ GoneInv'
        BY <3>1 DEF UnderWay, SpareInv, BesideInv, GoneInv, TypeOK, Files
      <3> QED BY <3>1, <3>2, <3>3 DEF UnderWay, CommandInv, RecordsInv, TrustInv,
                                      DropInv, Changing
    <2> QED BY <2>1, <2>2
  <1>19. ASSUME NEW f \in Path, PersonTidies(f)
         PROVE  UnderWay'
    <2>1. CASE pc = "idle"
      BY <1>19, <2>1, IdleInv DEF PersonTidies
    <2>2. CASE pc # "idle"
      <3>1. /\ UNCHANGED <<disk, db, prev, pin, pc, cmd, todo, skip, failed>>
            /\ raced' = raced \cup {f}
            /\ \A g \in Path \ {f} : pkgnew'[g] = pkgnew[g]
        BY <1>19, <2>2 DEF PersonTidies, TypeOK
      <3>2. PlacedInv'
        BY <3>1 DEF UnderWay, PlacedInv, Ahead, InPlace, Changing, Files
      <3> QED BY <3>1, <3>2 DEF UnderWay, CommandInv, RecordsInv, TrustInv, SpareInv,
                                BesideInv, DropInv, GoneInv, Changing
    <2> QED BY <2>1, <2>2
  <1>20. ASSUME NEW p \in Package, NEW v \in Version, Publish(p, v)
         PROVE  UnderWay'
    BY <1>20 DEF Publish, root, change, UnderWay, CommandInv, PlacedInv, RecordsInv,
                 TrustInv, SpareInv, BesideInv, DropInv, GoneInv, Changing, Ahead, InPlace
  <1>21. CASE UNCHANGED vars
    BY <1>21 DEF vars, root, change, UnderWay, CommandInv, PlacedInv, RecordsInv,
                 TrustInv, SpareInv, BesideInv, DropInv, GoneInv, Changing, Ahead, InPlace
  <1>22. CASE Begin
    BY <1>1, <1>2, <1>3, <1>4, <1>5, <1>22 DEF Begin
  <1>23. CASE Progress
    BY <1>6, <1>7, <1>8, <1>9, <1>10, <1>11, <1>12, <1>13, <1>14, <1>15, <1>16,
       <1>17, <1>23 DEF Progress
  <1>24. CASE Environment
    BY <1>18, <1>19, <1>20, <1>24 DEF Environment
  <1> QED BY <1>16, <1>21, <1>22, <1>23, <1>24 DEF Next

-----------------------------------------------------------------------------
(* Every record and every step keeps its type, and every command under way *)
(* what its steps have established.                                        *)
THEOREM Inductive == Spec => [](TypeOK /\ UnderWay)
  <1>1. Init => TypeOK
    BY DiskAssumption, NoCommandType
    DEF Init, TypeOK, MaybeContent, MaybeVersion, Step
  <1>2. Init => UnderWay
    BY DEF Init, UnderWay, CommandInv, PlacedInv, RecordsInv, TrustInv, SpareInv,
           BesideInv, DropInv, GoneInv, Changing
  <1>3. TypeOK /\ UnderWay /\ [Next]_vars => TypeOK'
    BY TypeStep DEF UnderWay
  <1>4. TypeOK /\ UnderWay /\ [Next]_vars => UnderWay'
    BY UnderWayStep
  <1> QED BY <1>1, <1>2, <1>3, <1>4, PTL DEF Spec

(* The type invariant alone. *)
THEOREM TypeCorrect == Spec => []TypeOK
  BY Inductive, PTL

-----------------------------------------------------------------------------
(* Taking a command up changes nothing in the root. *)
LEMMA BeginStep == Begin => UNCHANGED root
  <1>1. ASSUME NEW c, Apply(c) PROVE UNCHANGED root
    BY <1>1 DEF Apply, Start
  <1>2. ASSUME NEW p \in Package, NEW v \in Version, NEW named \in BOOLEAN,
               NEW option \in BOOLEAN, NEW accept \in BOOLEAN,
               Install(p, v, named, option, accept) \/ Upgrade(p, v, named, option, accept)
        PROVE  UNCHANGED root
    BY <1>1, <1>2 DEF Install, Upgrade
  <1>3. ASSUME NEW p \in Package, NEW accept \in BOOLEAN, Rollback(p, accept)
        PROVE  UNCHANGED root
    BY <1>1, <1>3 DEF Rollback
  <1>4. ASSUME NEW p \in Package, Repair(p) \/ Remove(p) PROVE UNCHANGED root
    BY <1>4 DEF Repair, Remove, Start
  <1> QED BY <1>2, <1>3, <1>4 DEF Begin

(* Only the last step of a command puts another version in the database,   *)
(* and only REMOVE takes one out.                                          *)
LEMMA DatabaseStep ==
    ASSUME TypeOK, [Next]_vars, NEW p \in Package, db'[p] # db[p]
    PROVE  p = cmd.pkg /\ (WriteDatabase \/ Unrecord)
  <1>1. CASE Begin
    BY <1>1, BeginStep DEF root
  <1>2. CASE Progress
    <2>1. ASSUME NEW f \in Path,
                 \/ Place(f) \/ Drop(f) \/ SetAside(f) \/ LeaveDamaged(f)
                 \/ PutBack(f) \/ Delete(f)
          PROVE  FALSE
      BY <2>1 DEF Place, Drop, SetAside, LeaveDamaged, PutBack, Delete, Take
    <2>2. ~EndPlace /\ ~EndDrop /\ ~RecordPrevious /\ ~WritePin
      BY DEF EndPlace, EndDrop, RecordPrevious, WritePin
    <2>3. ~EndRepair /\ ~RefuseRemoval /\ ~Forget
      BY DEF EndRepair, RefuseRemoval, Forget, root
    <2>4. WriteDatabase \/ Unrecord
      BY <1>2, <2>1, <2>2, <2>3 DEF Progress
    <2>5. p = cmd.pkg
      BY <2>4 DEF WriteDatabase, Unrecord, TypeOK
    <2> QED BY <2>4, <2>5
  <1>3. CASE Cut \/ UNCHANGED vars
    BY <1>3 DEF Cut, vars, root
  <1>4. CASE Environment
    BY <1>4 DEF Environment, PersonWrites, PersonTidies, Publish, root
  <1> QED BY <1>1, <1>2, <1>3, <1>4 DEF Next

(* Only WritePin changes a pin. *)
LEMMA PinStep ==
    ASSUME TypeOK, [Next]_vars, NEW p \in Package, pin'[p] # pin[p]
    PROVE  p = cmd.pkg /\ WritePin
  <1>1. CASE Begin
    BY <1>1, BeginStep DEF root
  <1>2. CASE Progress
    <2>1. ASSUME NEW f \in Path,
                 \/ Place(f) \/ Drop(f) \/ SetAside(f) \/ LeaveDamaged(f)
                 \/ PutBack(f) \/ Delete(f)
          PROVE  FALSE
      BY <2>1 DEF Place, Drop, SetAside, LeaveDamaged, PutBack, Delete, Take
    <2>2. ~EndPlace /\ ~EndDrop /\ ~RecordPrevious /\ ~WriteDatabase /\ ~Unrecord
      BY DEF EndPlace, EndDrop, RecordPrevious, WriteDatabase, Unrecord
    <2>3. ~EndRepair /\ ~RefuseRemoval /\ ~Forget
      BY DEF EndRepair, RefuseRemoval, Forget, root
    <2>4. WritePin
      BY <1>2, <2>1, <2>2, <2>3 DEF Progress
    <2>5. p = cmd.pkg
      BY <2>4 DEF WritePin, TypeOK
    <2> QED BY <2>4, <2>5
  <1>3. CASE Cut \/ UNCHANGED vars
    BY <1>3 DEF Cut, vars, root
  <1>4. CASE Environment
    BY <1>4 DEF Environment, PersonWrites, PersonTidies, Publish, root
  <1> QED BY <1>1, <1>2, <1>3, <1>4 DEF Next

(* When the database entry changes, every file of the new version that no  *)
(* person touched is in place, after any number of cuts.                   *)
THEOREM FilesBeforeDatabase == Spec => Committed
  <1>1. TypeOK /\ UnderWay /\ [Next]_vars =>
          (\A p \in Package : db'[p] \notin {db[p], None} =>
             \A f \in Files(p, db'[p]) \ raced : InPlace(p, db[p], db'[p], f))
    <2> SUFFICES ASSUME TypeOK, UnderWay, [Next]_vars,
                        NEW p \in Package, db'[p] \notin {db[p], None},
                        NEW f \in Files(p, db'[p]) \ raced
                 PROVE  InPlace(p, db[p], db'[p], f)
      OBVIOUS
    <2>1. p = cmd.pkg /\ (WriteDatabase \/ Unrecord)
      BY DatabaseStep
    <2>2. p = cmd.pkg /\ WriteDatabase /\ db'[p] = cmd.new
      BY <2>1 DEF WriteDatabase, Unrecord, TypeOK
    <2>3. pc = "db" /\ db[p] = cmd.old
      BY <2>2 DEF WriteDatabase, UnderWay, CommandInv, Changing
    <2> QED BY <2>2, <2>3 DEF UnderWay, PlacedInv, Changing, Ahead
  <1> QED BY <1>1, Inductive, PTL DEF Spec, Committed

(* A cut can leave the pin and the rollback record ahead of the database,  *)
(* never behind it.                                                        *)
THEOREM RecordsBeforeDatabase == Spec => RecordsFirst
  <1>1. TypeOK /\ UnderWay /\ [Next]_vars =>
          (\A p \in Package : db'[p] \notin {db[p], None} =>
             /\ pin[p] = Signer[p][db'[p]]
             /\ db[p] # None => prev[p].from = db[p] /\ prev[p].to = db'[p])
    <2> SUFFICES ASSUME TypeOK, UnderWay, [Next]_vars,
                        NEW p \in Package, db'[p] \notin {db[p], None}
                 PROVE  /\ pin[p] = Signer[p][db'[p]]
                        /\ db[p] # None => prev[p].from = db[p] /\ prev[p].to = db'[p]
      OBVIOUS
    <2>1. p = cmd.pkg /\ (WriteDatabase \/ Unrecord)
      BY DatabaseStep
    <2>2. p = cmd.pkg /\ WriteDatabase /\ db'[p] = cmd.new
      BY <2>1 DEF WriteDatabase, Unrecord, TypeOK
    <2>3. pc = "db" /\ db[p] = cmd.old
      BY <2>2 DEF WriteDatabase, UnderWay, CommandInv, Changing
    <2> QED BY <2>2, <2>3 DEF UnderWay, RecordsInv
  <1> QED BY <1>1, Inductive, PTL DEF Spec, RecordsFirst

(* No command changes a pinned key without ACCEPTKEY, or forgets one.      *)
THEOREM PinnedKeyStays == Spec => KeyAccepted
  <1>1. TypeOK /\ UnderWay /\ [Next]_vars =>
          (\A p \in Package : pin'[p] # pin[p] =>
             pin'[p] # NoKey /\ (pin[p] = NoKey \/ cmd.accept))
    <2> SUFFICES ASSUME TypeOK, UnderWay, [Next]_vars,
                        NEW p \in Package, pin'[p] # pin[p]
                 PROVE  pin'[p] # NoKey /\ (pin[p] = NoKey \/ cmd.accept)
      OBVIOUS
    <2>1. p = cmd.pkg /\ WritePin
      BY PinStep
    <2>2. pc = "pin" /\ pin'[p] = Signer[p][cmd.new]
      BY <2>1 DEF WritePin, Proceed, TypeOK
    <2>3. cmd.new \in Version
      BY <2>2 DEF UnderWay, CommandInv, Changing
    <2>4. pin'[p] \in Key
      BY <2>2, <2>3, SignerAssumption
    <2>5. pin[p] \in {NoKey, Signer[p][cmd.new]} \/ cmd.accept
      BY <2>1, <2>2 DEF UnderWay, TrustInv, Changing
    <2> QED BY <2>2, <2>4, <2>5, KeyAssumption
  <1> QED BY <1>1, Inductive, PTL DEF Spec, KeyAccepted

(* A package leaves the database only when none of its bytes is left.      *)
THEOREM RemovalIsComplete == Spec => Removed
  <1>1. TypeOK /\ UnderWay /\ [Next]_vars =>
          (\A p \in Package : db[p] # None /\ db'[p] = None =>
             \A f \in Files(p, db[p]) \ raced : disk[f] # Ship(p, db[p], f))
    <2> SUFFICES ASSUME TypeOK, UnderWay, [Next]_vars,
                        NEW p \in Package, db[p] # None, db'[p] = None,
                        NEW f \in Files(p, db[p]) \ raced
                 PROVE  disk[f] # Ship(p, db[p], f)
      OBVIOUS
    <2>1. p = cmd.pkg /\ (WriteDatabase \/ Unrecord)
      BY DatabaseStep
    <2>2. ~WriteDatabase
      <3> SUFFICES ASSUME WriteDatabase PROVE FALSE
        OBVIOUS
      <3>1. cmd.new \in Version /\ db'[p] = cmd.new
        BY <2>1 DEF WriteDatabase, UnderWay, CommandInv, Changing, TypeOK
      <3> QED BY <3>1, NoneIsNoVersion
    <2>3. pc = "remove" /\ todo = {} /\ ~failed
      BY <2>1, <2>2 DEF Unrecord, Proceed
    <2> QED BY <2>1, <2>3 DEF UnderWay, GoneInv, CommandInv
  <1> QED BY <1>1, Inductive, PTL DEF Spec, Removed

-----------------------------------------------------------------------------
(* What REPAIR has passed is intact, or its .pkgold name was taken; what it *)
(* has still to take are the package's own paths.                          *)
MendInv ==
    pc = "repair" =>
       /\ todo \subseteq Files(cmd.pkg, cmd.old) /\ cmd.old = db[cmd.pkg]
       /\ \A f \in Damaged(cmd.pkg) \ (todo \cup raced) : pkgold[f] # Missing

(* MendInv is inductive beside UnderWay. *)
LEMMA MendStep ==
    ASSUME TypeOK, UnderWay, MendInv, [Next]_vars
    PROVE  MendInv'
  <1>1. ASSUME NEW p \in Package, Repair(p)
        PROVE  MendInv'
    <2>1. /\ cmd'.old = db[p] /\ cmd'.pkg = p /\ todo' = Damaged(p)
          /\ UNCHANGED <<disk, db>>
      BY <1>1 DEF Repair, Start, root
    <2> QED BY <2>1 DEF MendInv, Damaged
  <1>2. ASSUME NEW f \in Path, SetAside(f)
        PROVE  MendInv'
    <2>1. /\ pc = "repair" /\ f \in todo
          /\ UNCHANGED <<db, cmd, todo, raced>>
          /\ \A g \in Path \ {f} : disk'[g] = disk[g] /\ pkgold'[g] = pkgold[g]
      BY <1>2 DEF SetAside, TypeOK
    <2> QED BY <2>1 DEF MendInv, Damaged, Files
  <1>3. ASSUME NEW f \in Path, LeaveDamaged(f)
        PROVE  MendInv'
    <2>1. /\ pc = "repair" /\ todo' = todo \ {f} /\ pkgold[f] # Missing
          /\ UNCHANGED <<disk, pkgold, db, cmd, raced>>
      BY <1>3 DEF LeaveDamaged, Take
    <2> QED BY <2>1 DEF MendInv, Damaged
  <1>4. ASSUME NEW f \in Path, PutBack(f)
        PROVE  MendInv'
    <2>1. /\ pc = "repair" /\ todo' = todo \ {f}
          /\ UNCHANGED <<pkgold, db, cmd, raced>>
          /\ \A g \in Path \ {f} : disk'[g] = disk[g]
          /\ disk'[f] = Ship(cmd.pkg, cmd.new, f)
      BY <1>4 DEF PutBack, Take, TypeOK
    <2>2. cmd.new = db[cmd.pkg]
      BY <2>1 DEF UnderWay, CommandInv
    <2> QED BY <2>1, <2>2 DEF MendInv, Damaged, Files
  <1>5. ASSUME NEW f \in Path, NEW c \in Edit \cup {Missing}, PersonWrites(f, c)
        PROVE  MendInv'
    <2>1. /\ UNCHANGED <<pkgold, db, pc, cmd, todo>>
          /\ pc = "repair" => raced' = raced \cup {f}
          /\ \A g \in Path \ {f} : disk'[g] = disk[g]
      BY <1>5 DEF PersonWrites, TypeOK
    <2> QED BY <2>1 DEF MendInv, Damaged, Files
  <1>6. ASSUME NEW f \in Path, PersonTidies(f)
        PROVE  MendInv'
    <2>1. /\ UNCHANGED <<disk, db, pc, cmd, todo>>
          /\ pc = "repair" => raced' = raced \cup {f}
          /\ \A g \in Path \ {f} : pkgold'[g] = pkgold[g]
      BY <1>6 DEF PersonTidies, TypeOK
    <2> QED BY <2>1 DEF MendInv, Damaged, Files
  <1>7. ASSUME NEW p \in Package, NEW v \in Version, Publish(p, v)
        PROVE  MendInv'
    BY <1>7 DEF Publish, root, change, MendInv, Damaged
  <1>8. CASE UNCHANGED vars
    BY <1>8 DEF vars, root, change, MendInv, Damaged
  <1>9. ASSUME pc' # "repair" PROVE MendInv'
    BY <1>9 DEF MendInv
  <1>10. CASE Begin
    <2>1. ASSUME NEW c, Apply(c) PROVE pc' # "repair"
      BY <2>1 DEF Apply, Start
    <2>2. ASSUME NEW p \in Package, NEW v \in Version, NEW named \in BOOLEAN,
                 NEW option \in BOOLEAN, NEW accept \in BOOLEAN,
                 Install(p, v, named, option, accept) \/ Upgrade(p, v, named, option, accept)
          PROVE  pc' # "repair"
      BY <2>1, <2>2 DEF Install, Upgrade
    <2>3. ASSUME NEW p \in Package, NEW accept \in BOOLEAN, Rollback(p, accept)
          PROVE  pc' # "repair"
      BY <2>1, <2>3 DEF Rollback
    <2>4. ASSUME NEW p \in Package, Remove(p) PROVE pc' # "repair"
      BY <2>4 DEF Remove, Start
    <2> QED BY <1>1, <1>9, <1>10, <2>2, <2>3, <2>4 DEF Begin
  <1>11. CASE Progress
    <2>1. ASSUME NEW f \in Path, Place(f) \/ Drop(f) \/ Delete(f)
          PROVE  pc' # "repair"
      BY <2>1 DEF Place, Drop, Delete, Take
    <2>2. ASSUME \/ EndPlace \/ EndDrop \/ RecordPrevious \/ WritePin \/ WriteDatabase
                 \/ EndRepair \/ RefuseRemoval \/ Unrecord \/ Forget
          PROVE  pc' # "repair"
      BY <2>2 DEF EndPlace, EndDrop, RecordPrevious, WritePin, WriteDatabase,
                  EndRepair, RefuseRemoval, Unrecord, Forget, Proceed, Finish
    <2> QED BY <1>2, <1>3, <1>4, <1>9, <1>11, <2>1, <2>2 DEF Progress
  <1>12. CASE Cut
    BY <1>9, <1>12 DEF Cut, Finish
  <1>13. CASE Environment
    BY <1>5, <1>6, <1>7, <1>13 DEF Environment
  <1> QED BY <1>8, <1>10, <1>11, <1>12, <1>13 DEF Next

(* Both invariants together. *)
LEMMA InductiveMend == Spec => [](TypeOK /\ UnderWay /\ MendInv)
  <1>1. Init => MendInv
    BY DEF Init, MendInv
  <1>2. TypeOK /\ UnderWay /\ MendInv /\ [Next]_vars => MendInv'
    BY MendStep
  <1> QED BY <1>1, <1>2, Inductive, PTL DEF Spec

(* A step that changes the bytes at a path no person touched meanwhile: it *)
(* found nothing there, or the package's own installed bytes, or the       *)
(* command is TAKEOVER, or it is REPAIR renaming the file to a free name.  *)
LEMMA DiskStep ==
    ASSUME TypeOK, UnderWay, MendInv, [Next]_vars, pc # "idle",
           NEW f \in Path, f \notin raced', disk'[f] # disk[f]
    PROVE  \/ disk[f] \in {Missing, Ship(cmd.pkg, cmd.old, f)}
           \/ cmd.takeover
           \/ /\ pkgold[f] = Missing /\ pkgold'[f] = disk[f]
              /\ f \in Files(cmd.pkg, cmd.old)
  <1>1. ASSUME NEW g \in Path, Place(g) \/ Drop(g) \/ PutBack(g) \/ Delete(g)
        PROVE  disk[f] \in {Missing, Ship(cmd.pkg, cmd.old, f)} \/ cmd.takeover
    <2>1. f = g /\ raced' = raced
      BY <1>1 DEF Place, Drop, PutBack, Delete, Take, TypeOK
    <2>2. CASE Place(g)
      <3>1. pc = "place" /\ f \in todo \ skip
        BY <2>1, <2>2 DEF Place, Take
      <3> QED BY <2>1, <3>1 DEF UnderWay, SpareInv
    <2>3. CASE Drop(g)
      BY <2>1, <2>3 DEF Drop
    <2>4. CASE PutBack(g)
      <3>1. pc = "repair" /\ f \in todo \ skip
        BY <2>1, <2>4 DEF PutBack, Take
      <3> QED BY <2>1, <3>1 DEF UnderWay, SpareInv
    <2>5. CASE Delete(g)
      BY <2>1, <2>5 DEF Delete
    <2> QED BY <1>1, <2>2, <2>3, <2>4, <2>5
  <1>2. ASSUME NEW g \in Path, SetAside(g)
        PROVE  /\ pkgold[f] = Missing /\ pkgold'[f] = disk[f]
               /\ f \in Files(cmd.pkg, cmd.old)
    <2>1. f = g /\ pc = "repair" /\ f \in todo
      BY <1>2 DEF SetAside, TypeOK
    <2> QED BY <1>2, <2>1 DEF SetAside, MendInv, TypeOK
  <1>3. ASSUME NEW g \in Path, LeaveDamaged(g)
        PROVE  FALSE
    BY <1>3 DEF LeaveDamaged
  <1>4. ASSUME \/ EndPlace \/ EndDrop \/ RecordPrevious \/ WritePin \/ WriteDatabase
               \/ EndRepair \/ RefuseRemoval \/ Unrecord \/ Forget
        PROVE  FALSE
    BY <1>4 DEF EndPlace, EndDrop, RecordPrevious, WritePin, WriteDatabase,
                EndRepair, RefuseRemoval, Unrecord, Forget, Proceed, root
  <1>5. ~Begin /\ ~Cut /\ ~UNCHANGED vars
    BY BeginStep DEF root, Cut, vars
  <1>6. ~Environment
    <2>1. ASSUME NEW g \in Path, NEW c \in Edit \cup {Missing}, PersonWrites(g, c)
          PROVE  FALSE
      BY <2>1 DEF PersonWrites, TypeOK
    <2>2. ASSUME NEW g \in Path, PersonTidies(g) PROVE FALSE
      BY <2>2 DEF PersonTidies
    <2>3. ASSUME NEW p \in Package, NEW v \in Version, Publish(p, v) PROVE FALSE
      BY <2>3 DEF Publish, root
    <2> QED BY <2>1, <2>2, <2>3 DEF Environment
  <1> QED BY <1>1, <1>2, <1>3, <1>4, <1>5, <1>6 DEF Next, Progress

(* Nothing but a person overwrites what REPAIR set aside. *)
LEMMA AsideStep ==
    ASSUME TypeOK, [Next]_vars, NEW f \in Path, pkgold[f] # Missing
    PROVE  pkgold'[f] \in {pkgold[f], Missing}
  <1>1. CASE Begin
    BY <1>1, BeginStep DEF root
  <1>2. ASSUME NEW g \in Path, SetAside(g)
        PROVE  pkgold'[f] = pkgold[f]
    BY <1>2 DEF SetAside, TypeOK
  <1>3. CASE Progress
    <2>1. ASSUME NEW g \in Path, \/ Place(g) \/ Drop(g) \/ LeaveDamaged(g)
                                 \/ PutBack(g) \/ Delete(g)
          PROVE  pkgold' = pkgold
      BY <2>1 DEF Place, Drop, LeaveDamaged, PutBack, Delete
    <2>2. ASSUME \/ EndPlace \/ EndDrop \/ RecordPrevious \/ WritePin
                 \/ WriteDatabase \/ EndRepair \/ RefuseRemoval \/ Unrecord \/ Forget
          PROVE  pkgold' = pkgold
      BY <2>2 DEF EndPlace, EndDrop, RecordPrevious, WritePin, WriteDatabase,
                  EndRepair, RefuseRemoval, Unrecord, Forget, Proceed, root
    <2> QED BY <1>2, <1>3, <2>1, <2>2 DEF Progress
  <1>4. CASE Cut \/ UNCHANGED vars
    BY <1>4 DEF Cut, vars, root
  <1>5. CASE Environment
    <2>1. ASSUME NEW g \in Path, PersonTidies(g)
          PROVE  pkgold'[f] \in {pkgold[f], Missing}
      BY <2>1 DEF PersonTidies, TypeOK
    <2>2. ASSUME NEW g \in Path, NEW c \in Edit \cup {Missing}, PersonWrites(g, c)
          PROVE  pkgold' = pkgold
      BY <2>2 DEF PersonWrites
    <2>3. ASSUME NEW p \in Package, NEW v \in Version, Publish(p, v)
          PROVE  pkgold' = pkgold
      BY <2>3 DEF Publish, root
    <2> QED BY <1>5, <2>1, <2>2, <2>3 DEF Environment
  <1> QED BY <1>1, <1>3, <1>4, <1>5 DEF Next

(* No command destroys a person's bytes, whatever was cut before it.       *)
THEOREM EditsAreKept == Spec => EditSurvives
  <1>1. TypeOK /\ UnderWay /\ MendInv /\ [Next]_vars =>
          (\A f \in Path :
             /\ pc # "idle" /\ Edited(f) /\ disk'[f] # disk[f] =>
                   \/ f \in raced'
                   \/ cmd.takeover
                   \/ pkgold[f] = Missing /\ pkgold'[f] = disk[f]
             /\ pkgold[f] # Missing => pkgold'[f] \in {pkgold[f], Missing})
    <2> SUFFICES ASSUME TypeOK, UnderWay, MendInv, [Next]_vars, NEW f \in Path
                 PROVE  /\ pc # "idle" /\ Edited(f) /\ disk'[f] # disk[f] =>
                              \/ f \in raced'
                              \/ cmd.takeover
                              \/ pkgold[f] = Missing /\ pkgold'[f] = disk[f]
                        /\ pkgold[f] # Missing => pkgold'[f] \in {pkgold[f], Missing}
      OBVIOUS
    <2>1. ASSUME Edited(f)
          PROVE  disk[f] \notin {Missing, Ship(cmd.pkg, cmd.old, f)}
      BY <2>1 DEF Edited, Ship, TypeOK, Command, MaybeVersion
    <2> QED BY <2>1, DiskStep, AsideStep
  <1> QED BY <1>1, InductiveMend, PTL DEF Spec, EditSurvives

(* No command without TAKEOVER changes another installed package's bytes,  *)
(* but at a path its own installed version lists too.                      *)
THEOREM OthersAreSpared == Spec => OthersSpared
  <1>1. TypeOK /\ UnderWay /\ MendInv /\ [Next]_vars =>
          (\A q \in Package, f \in Path :
             (/\ pc # "idle" /\ q # cmd.pkg /\ f \in Files(q, db[q])
              /\ disk[f] = Ship(q, db[q], f) /\ disk'[f] # disk[f]) =>
                f \in raced' \/ cmd.takeover \/ f \in Files(cmd.pkg, cmd.old))
    BY DiskStep DEF Files
  <1> QED BY <1>1, InductiveMend, PTL DEF Spec, OthersSpared

(* What REPAIR leaves damaged, it could not set aside.                     *)
THEOREM RepairIsComplete == Spec => Repaired
  <1>1. TypeOK /\ UnderWay /\ MendInv /\ [Next]_vars =>
          (pc = "repair" /\ todo = {} /\ pc' = "idle" =>
             \A f \in Damaged(cmd.pkg) \ raced : pkgold[f] # Missing)
    BY DEF MendInv
  <1> QED BY <1>1, InductiveMend, PTL DEF Spec, Repaired

(* Both together: a REPAIR or a REMOVE that says it is done has done it.   *)
THEOREM WhatIsSaidIsDone == Spec => DoneAsSaid
  BY RepairIsComplete, RemovalIsComplete, PTL DEF DoneAsSaid

-----------------------------------------------------------------------------
(* What the record of a package says of the version it came from: a change *)
(* that is done, one that is not, or, after a REMOVE that was cut, nothing.*)
History(p) ==
    \/ was[p] = Version
    \/ was[p] = {} /\ prev[p] = NoPrevious
    \/ /\ db[p] # None /\ prev[p].from = db[p]
       /\ prev[p].how = "rollback" => prev[p].to \in was[p]
    \/ db[p] # None /\ prev[p].from # db[p] /\ prev[p].from \in was[p]

(* Where a command goes: to another version, and ROLLBACK to the one this  *)
(* replaced, which it would still go to if it were given again.            *)
Goes == {"install", "upgrade", "rollback"}

Goal(c) ==
    /\ c.verb \in Goes /\ c.new # c.old
    /\ c.verb = "rollback" => c.new \in was[c.pkg] /\ RollbackTarget(c.pkg) = c.new

(* What the path holds is not in the command's way. *)
Meets(c, f) ==
    disk[f] # Missing =>
       \/ f \in Files(c.pkg, c.old) /\ disk[f] \in {Ship(c.pkg, c.old, f), Ship(c.pkg, c.new, f)}
       \/ f \notin Files(c.pkg, c.old) /\ (disk[f] = Ship(c.pkg, c.new, f) \/ c.takeover)

MeetsAll(c) == \A f \in Files(c.pkg, c.new) \ Configs(c.pkg, c.new) : Meets(c, f)

AgainInv == Changing => Goal(cmd) /\ (raced = {} => MeetsAll(cmd))

CutInv ==
    cut.verb \in Goes =>
       /\ pc = "idle" /\ db[cut.pkg] = cut.old
       /\ Goal(cut) /\ MeetsAll(cut)
       /\ pin[cut.pkg] \in {NoKey, Signer[cut.pkg][cut.new]} \/ cut.accept

(* Only an installed version is recorded as one that was left, and a       *)
(* command that goes to a version is past its inspection.                  *)
KindInv ==
    /\ pc = "prev" => cmd.old # None
    /\ pc # "idle" /\ cmd.verb \in Goes => Changing

HistoryInv ==
    /\ \A p \in Package : History(p)
    /\ AgainInv /\ CutInv /\ KindInv

LEMMA TargetIs ==
    ASSUME TypeOK, NEW p \in Package, History(p), db[p] # None
    PROVE  RollbackTarget(p) \in was[p] \cup {None} /\ RollbackTarget(p) # db[p]
  <1>1. prev[p] \in Previous /\ prev[p].from \in MaybeVersion /\ prev[p].to \in MaybeVersion
    BY DEF TypeOK, Previous
  <1>2. RollbackTarget(p) \in MaybeVersion /\ RollbackTarget(p) # db[p]
    BY <1>1 DEF RollbackTarget, MaybeVersion
  <1>3. CASE was[p] = Version
    BY <1>2, <1>3 DEF MaybeVersion
  <1>4. CASE was[p] # Version
    BY <1>4 DEF History, RollbackTarget, NoPrevious
  <1> QED BY <1>2, <1>3, <1>4

(* A step that leaves the records and the observers alone. *)
LEMMA HistorySame ==
    ASSUME UNCHANGED <<db, prev, was>>
    PROVE  /\ \A p \in Package : History(p) => History(p)'
           /\ \A c : Goal(c) => Goal(c)'
  BY DEF History, Goal, RollbackTarget

LEMMA NoCut ==
    ASSUME cut' = NoCommand
    PROVE  CutInv'
  BY DEF CutInv, NoCommand, Goes

LEMMA ApplyHistory ==
    ASSUME TypeOK, HistoryInv, NEW c \in Command, Apply(c), c.verb \in Goes, c.new # c.old,
           c.verb = "rollback" => db[c.pkg] # None /\ c.new = RollbackTarget(c.pkg) /\ c.new \in Version
    PROVE  HistoryInv'
  <1>1. /\ Conflicts(c.pkg, c.old, c.new, c.takeover) = {}
        /\ cmd' = c /\ cut' = NoCommand /\ pc' = "place"
        /\ UNCHANGED <<disk, db, prev, was, raced>>
    BY DEF Apply, Start, root
  <1>2. c.verb = "rollback" => c.new \in was[c.pkg]
    <2>1. c.pkg \in Package
      BY DEF Command
    <2> QED BY <2>1, TargetIs, NoneIsNoVersion DEF HistoryInv
  <1>3. Goal(c)
    BY <1>2 DEF Goal
  <1>4. MeetsAll(c)
    BY <1>1 DEF MeetsAll, Meets, Conflicts
  <1>5. Goal(c)' /\ MeetsAll(c)'
    BY <1>1, <1>3, <1>4, HistorySame DEF MeetsAll, Meets
  <1>6. AgainInv'
    BY <1>1, <1>5 DEF AgainInv, Goal, MeetsAll, Meets, RollbackTarget
  <1>7. KindInv'
    BY <1>1 DEF KindInv, Changing
  <1> QED BY <1>1, <1>6, <1>7, HistorySame, NoCut DEF HistoryInv

LEMMA BeginHistory ==
    ASSUME TypeOK, UnderWay, HistoryInv, Begin
    PROVE  HistoryInv'
  <1>1. ASSUME NEW p \in Package, NEW v \in Version, NEW n \in BOOLEAN,
               NEW t \in BOOLEAN, NEW a \in BOOLEAN, Install(p, v, n, t, a)
        PROVE  HistoryInv'
    <2> DEFINE c == [verb |-> "install", pkg |-> p, old |-> None, new |-> v,
                     takeover |-> t, accept |-> a, named |-> n]
    <2>1. c \in Command
      BY DEF Command, MaybeVersion, Verb
    <2>2. Apply(c)
      BY <1>1 DEF Install
    <2>3. c.verb \in Goes /\ c.new # c.old /\ c.verb # "rollback"
      BY NoneIsNoVersion DEF Goes
    <2> QED BY <2>1, <2>2, <2>3, ApplyHistory
  <1>2. ASSUME NEW p \in Package, NEW v \in Version, NEW n \in BOOLEAN,
               NEW d \in BOOLEAN, NEW a \in BOOLEAN, Upgrade(p, v, n, d, a)
        PROVE  HistoryInv'
    <2> DEFINE c == [verb |-> "upgrade", pkg |-> p, old |-> db[p], new |-> v,
                     takeover |-> FALSE, accept |-> a, named |-> n]
    <2>1. c \in Command
      BY DEF Command, MaybeVersion, Verb, TypeOK
    <2>2. Apply(c)
      BY <1>2 DEF Upgrade
    <2>3. c.verb \in Goes /\ c.new # c.old /\ c.verb # "rollback"
      BY <1>2 DEF Goes, Upgrade
    <2> QED BY <2>1, <2>2, <2>3, ApplyHistory
  <1>3. ASSUME NEW p \in Package, NEW a \in BOOLEAN, Rollback(p, a)
        PROVE  HistoryInv'
    <2> DEFINE c == [verb |-> "rollback", pkg |-> p, old |-> db[p],
                     new |-> RollbackTarget(p), takeover |-> FALSE, accept |-> a,
                     named |-> TRUE]
    <2>1. RollbackTarget(p) \in Version /\ db[p] # None
      BY <1>3 DEF Rollback, TypeOK
    <2>2. c \in Command
      BY <2>1 DEF Command, MaybeVersion, Verb, TypeOK
    <2>3. Apply(c)
      BY <1>3 DEF Rollback
    <2>4. RollbackTarget(p) # db[p]
      BY <2>1, TargetIs DEF HistoryInv
    <2>5. c.verb \in Goes /\ c.new # c.old /\ c.pkg = p /\ c.new = RollbackTarget(p)
      BY <2>4 DEF Goes
    <2> HIDE DEF c
    <2> QED BY <2>1, <2>2, <2>3, <2>5, ApplyHistory
  <1>4. ASSUME NEW p \in Package, Repair(p) \/ Remove(p)
        PROVE  HistoryInv'
    <2>1. /\ cut' = NoCommand /\ pc' \in {"repair", "remove"} /\ UNCHANGED <<db, prev, was>>
          /\ cmd'.verb \in {"repair", "remove"}
      BY <1>4 DEF Repair, Remove, Start, root
    <2>2. AgainInv'
      BY <2>1 DEF AgainInv, Changing
    <2>3. KindInv'
      BY <2>1 DEF KindInv, Goes
    <2> QED BY <2>1, <2>2, <2>3, HistorySame, NoCut DEF HistoryInv
  <1> QED BY <1>1, <1>2, <1>3, <1>4 DEF Begin

(* A command under way is not a cut one. *)
LEMMA BusyNoCut ==
    ASSUME HistoryInv, pc # "idle", cut' = cut
    PROVE  CutInv'
  BY DEF HistoryInv, CutInv

LEMMA PathHistory ==
    ASSUME TypeOK, UnderWay, HistoryInv, NEW f \in Path,
           \/ Place(f) \/ Drop(f) \/ SetAside(f) \/ LeaveDamaged(f) \/ PutBack(f) \/ Delete(f)
    PROVE  HistoryInv'
  <1>1. pc # "idle" /\ UNCHANGED <<db, prev, was, cut, cmd, pc, raced>>
    BY DEF Place, Drop, SetAside, LeaveDamaged, PutBack, Delete, Take
  <1>2. AgainInv'
    <2>1. SUFFICES ASSUME Changing, raced = {}, MeetsAll(cmd)
                   PROVE  MeetsAll(cmd)'
      BY <1>1, HistorySame DEF HistoryInv, AgainInv, Changing, Goal, RollbackTarget
    <2>2. Place(f) \/ Drop(f)
      BY <2>1 DEF Changing, SetAside, LeaveDamaged, PutBack, Delete, Take
    <2>3. ASSUME NEW g \in Files(cmd.pkg, cmd.new) \ Configs(cmd.pkg, cmd.new), Meets(cmd, g)
          PROVE  Meets(cmd, g)'
      <3>1. disk'[g] = disk[g] \/ disk'[g] = Ship(cmd.pkg, cmd.new, g)
        <4>0. g \in Path
          BY DEF Files
        <4>1. CASE Place(f)
          <5>1. disk' = disk \/ disk' = [disk EXCEPT ![f] = Ship(cmd.pkg, cmd.new, f)]
            BY <4>1 DEF Place
          <5> QED BY <4>0, <5>1 DEF TypeOK
        <4>2. CASE Drop(f)
          <5>1. f # g
            BY <2>3, <4>2 DEF UnderWay, DropInv, Drop, Take
          <5>2. disk' = disk \/ disk' = [disk EXCEPT ![f] = Missing]
            BY <4>2 DEF Drop
          <5> QED BY <4>0, <5>1, <5>2 DEF TypeOK
        <4> QED BY <2>2, <4>1, <4>2
      <3>2. CASE disk'[g] = disk[g]
        BY <1>1, <2>3, <3>2 DEF Meets
      <3>3. CASE disk'[g] = Ship(cmd.pkg, cmd.new, g)
        BY <1>1, <3>3 DEF Meets
      <3> QED BY <3>1, <3>2, <3>3
    <2> QED BY <1>1, <2>1, <2>3 DEF MeetsAll
  <1>3. KindInv'
    BY <1>1 DEF HistoryInv, KindInv, Changing
  <1> QED BY <1>1, <1>2, <1>3, HistorySame, BusyNoCut DEF HistoryInv

LEMMA RecordHistory ==
    ASSUME TypeOK, UnderWay, HistoryInv,
           \/ EndPlace \/ EndDrop \/ RecordPrevious \/ WritePin \/ WriteDatabase
           \/ EndRepair \/ RefuseRemoval \/ Unrecord \/ Forget
    PROVE  HistoryInv'
  <1>t. /\ cmd \in Command /\ cmd.pkg \in Package /\ cmd.old \in MaybeVersion /\ cmd.new \in MaybeVersion
        /\ \A p \in Package : prev[p] \in Previous
    BY DEF TypeOK, Command
  <1>c. CutInv'
    <2>1. pc # "idle" /\ cut' = cut
      BY DEF EndPlace, EndDrop, RecordPrevious, WritePin, WriteDatabase,
             EndRepair, RefuseRemoval, Unrecord, Forget, Proceed
    <2> QED BY <2>1, BusyNoCut
  <1>k. KindInv'
    <2>1. \/ pc' = "idle"
          \/ pc' \in {"drop", "pin", "db"}
          \/ pc' = "prev" /\ cmd' = cmd /\ cmd.old # None
          \/ pc = "remove" /\ pc' = "forget" /\ cmd' = cmd
      BY DEF EndPlace, EndDrop, RecordPrevious, WritePin, WriteDatabase,
             EndRepair, RefuseRemoval, Unrecord, Forget, Proceed, Finish
    <2> QED BY <2>1 DEF HistoryInv, KindInv, Changing
  <1>1. ASSUME EndPlace \/ EndDrop \/ WritePin
        PROVE  HistoryInv'
    <2>1. UNCHANGED <<db, prev, was, disk, cmd, raced>> /\ Changing
      BY <1>1 DEF EndPlace, EndDrop, WritePin, Proceed, Changing
    <2>2. AgainInv'
      BY <2>1, HistorySame DEF HistoryInv, AgainInv, Goal, MeetsAll, Meets, RollbackTarget
    <2> QED BY <1>c, <1>k, <2>1, <2>2, HistorySame DEF HistoryInv
  <1>2. CASE RecordPrevious
    <2>1. /\ pc = "prev" /\ UNCHANGED <<db, was, disk, cmd, raced>> /\ Changing
          /\ prev' = [prev EXCEPT ![cmd.pkg] = [from |-> cmd.old, to |-> cmd.new, how |-> cmd.verb]]
      BY <1>2 DEF RecordPrevious, Proceed, Changing
    <2>2. db[cmd.pkg] = cmd.old /\ Goal(cmd)
      BY <2>1 DEF UnderWay, CommandInv, HistoryInv, AgainInv
    <2>3. /\ prev'[cmd.pkg].from = cmd.old /\ prev'[cmd.pkg].to = cmd.new /\ prev'[cmd.pkg].how = cmd.verb
          /\ \A p \in Package \ {cmd.pkg} : prev'[p] = prev[p]
      BY <1>t, <2>1 DEF TypeOK
    <2>4. cmd.old # None
      BY <2>1 DEF HistoryInv, KindInv
    <2>5. ASSUME NEW p \in Package PROVE History(p)'
      <3>1. CASE p = cmd.pkg
        BY <2>1, <2>2, <2>3, <2>4, <3>1 DEF History, Goal
      <3>2. CASE p # cmd.pkg
        BY <2>1, <2>3, <3>2 DEF History, HistoryInv
      <3> QED BY <3>1, <3>2
    <2>6. Goal(cmd)'
      BY <1>t, <2>1, <2>2, <2>3 DEF Goal, RollbackTarget
    <2>7. raced' = {} => MeetsAll(cmd)'
      BY <2>1 DEF HistoryInv, AgainInv, MeetsAll, Meets
    <2> QED BY <1>c, <1>k, <2>5, <2>6, <2>7 DEF HistoryInv, AgainInv
  <1>3. CASE WriteDatabase
    <2>1. /\ pc = "db" /\ pc' = "idle" /\ Changing /\ prev' = prev
          /\ db' = [db EXCEPT ![cmd.pkg] = cmd.new]
          /\ was' = IF cmd.old = None THEN was ELSE [was EXCEPT ![cmd.pkg] = {cmd.old}]
      BY <1>3 DEF WriteDatabase, Finish, Changing
    <2>2. /\ db[cmd.pkg] = cmd.old /\ cmd.new \in Version /\ cmd.new # cmd.old
          /\ cmd.old # None => prev[cmd.pkg].from = cmd.old
      BY <2>1 DEF UnderWay, CommandInv, RecordsInv, HistoryInv, AgainInv, Goal
    <2>3. ASSUME NEW p \in Package PROVE History(p)'
      <3>1. CASE p # cmd.pkg
        <4>1. db'[p] = db[p] /\ was'[p] = was[p]
          BY <1>t, <2>1, <3>1 DEF TypeOK
        <4> QED BY <2>1, <4>1 DEF History, HistoryInv
      <3>2. CASE p = cmd.pkg /\ cmd.old = None
        BY <2>1, <2>2, <3>2 DEF History, HistoryInv
      <3>3. CASE p = cmd.pkg /\ cmd.old # None
        <4>1. db'[p] = cmd.new /\ was'[p] = {cmd.old} /\ prev'[p].from = cmd.old
          BY <1>t, <2>1, <2>2, <3>3 DEF TypeOK
        <4> QED BY <2>2, <4>1, NoneIsNoVersion DEF History
      <3> QED BY <3>1, <3>2, <3>3
    <2>4. AgainInv'
      BY <2>1 DEF AgainInv, Changing
    <2> QED BY <1>c, <1>k, <2>3, <2>4 DEF HistoryInv
  <1>4. CASE EndRepair \/ RefuseRemoval
    <2>1. UNCHANGED <<db, prev, was>> /\ pc' = "idle"
      BY <1>4 DEF EndRepair, RefuseRemoval, Finish, root
    <2>2. AgainInv'
      BY <2>1 DEF AgainInv, Changing
    <2> QED BY <1>c, <1>k, <2>1, <2>2, HistorySame DEF HistoryInv
  <1>5. CASE Unrecord
    <2>1. /\ pc' = "forget" /\ prev' = prev
          /\ db' = [db EXCEPT ![cmd.pkg] = None] /\ was' = [was EXCEPT ![cmd.pkg] = Version]
      BY <1>5 DEF Unrecord, Proceed
    <2>2. ASSUME NEW p \in Package PROVE History(p)'
      <3>1. CASE p = cmd.pkg
        BY <1>t, <2>1, <3>1 DEF TypeOK, History
      <3>2. CASE p # cmd.pkg
        <4>1. db'[p] = db[p] /\ was'[p] = was[p]
          BY <1>t, <2>1, <3>2 DEF TypeOK
        <4> QED BY <2>1, <4>1 DEF History, HistoryInv
      <3> QED BY <3>1, <3>2
    <2>3. AgainInv'
      BY <2>1 DEF AgainInv, Changing
    <2> QED BY <1>c, <1>k, <2>2, <2>3 DEF HistoryInv
  <1>6. CASE Forget
    <2>1. /\ pc' = "idle" /\ db' = db
          /\ prev' = [prev EXCEPT ![cmd.pkg] = NoPrevious] /\ was' = [was EXCEPT ![cmd.pkg] = {}]
      BY <1>6 DEF Forget, Finish
    <2>2. ASSUME NEW p \in Package PROVE History(p)'
      <3>1. CASE p = cmd.pkg
        BY <1>t, <2>1, <3>1 DEF TypeOK, History
      <3>2. CASE p # cmd.pkg
        <4>1. prev'[p] = prev[p] /\ was'[p] = was[p]
          BY <1>t, <2>1, <3>2 DEF TypeOK
        <4> QED BY <2>1, <4>1 DEF History, HistoryInv
      <3> QED BY <3>1, <3>2
    <2>3. AgainInv'
      BY <2>1 DEF AgainInv, Changing
    <2> QED BY <1>c, <1>k, <2>2, <2>3 DEF HistoryInv
  <1> QED BY <1>1, <1>2, <1>3, <1>4, <1>5, <1>6

(* A cut leaves what the inspection of the same command passes.            *)
LEMMA CutHistory ==
    ASSUME TypeOK, UnderWay, HistoryInv, Cut
    PROVE  HistoryInv'
  <1>1. /\ pc # "idle" /\ pc' = "idle" /\ UNCHANGED <<disk, db, prev, pin, was>>
        /\ cut' = IF raced = {} THEN cmd ELSE NoCommand
    BY DEF Cut, Finish, root
  <1>2. CASE raced = {} /\ cmd.verb \in Goes
    <2>0. PICK c : c = cmd
      OBVIOUS
    <2>1. Changing /\ Goal(c) /\ MeetsAll(c)
      BY <1>1, <1>2, <2>0 DEF HistoryInv, KindInv, AgainInv
    <2>2. /\ db[c.pkg] = c.old
          /\ pin[c.pkg] \in {NoKey, Signer[c.pkg][c.new]} \/ c.accept
      BY <2>0, <2>1 DEF UnderWay, CommandInv, TrustInv
    <2>3. cut' = c
      BY <1>1, <1>2, <2>0
    <2>4. Goal(c)' /\ MeetsAll(c)'
      BY <1>1, <2>1 DEF Goal, MeetsAll, Meets, RollbackTarget
    <2>5. CutInv'
      BY <1>1, <2>2, <2>3, <2>4 DEF CutInv, Goal, MeetsAll, Meets, RollbackTarget
    <2> QED BY <1>1, <2>5, HistorySame DEF HistoryInv, AgainInv, KindInv, Changing
  <1>3. CASE ~(raced = {} /\ cmd.verb \in Goes)
    <2>1. cut'.verb \notin Goes
      BY <1>1, <1>3 DEF NoCommand, Goes
    <2> QED BY <1>1, <2>1, HistorySame DEF HistoryInv, AgainInv, KindInv, CutInv, Changing
  <1> QED BY <1>2, <1>3

(* A person who touches a file meanwhile is seen in raced, or in cut.      *)
LEMMA PersonHistory ==
    ASSUME TypeOK, HistoryInv, NEW f \in Path,
           (\E c \in Edit \cup {Missing} : PersonWrites(f, c)) \/ PersonTidies(f)
    PROVE  HistoryInv'
  <1>1. /\ UNCHANGED <<db, prev, pin, was, pc, cmd>>
        /\ raced' = IF pc = "idle" THEN {} ELSE raced \cup {f}
        /\ cut' = NoCommand \/ UNCHANGED <<cut, disk>>
    BY DEF PersonWrites, PersonTidies
  <1>2. AgainInv'
    BY <1>1, HistorySame DEF HistoryInv, AgainInv, Changing, Goal, RollbackTarget
  <1>3. KindInv'
    BY <1>1 DEF HistoryInv, KindInv, Changing
  <1>4. CutInv'
    <2>1. CASE UNCHANGED <<cut, disk>>
      BY <1>1, <2>1 DEF HistoryInv, CutInv, Goal, MeetsAll, Meets, RollbackTarget
    <2> QED BY <1>1, <2>1, NoCut
  <1> QED BY <1>1, <1>2, <1>3, <1>4, HistorySame DEF HistoryInv

(* A step that touches neither the root nor the command. *)
LEMMA QuietHistory ==
    ASSUME HistoryInv, UNCHANGED <<disk, db, prev, pin, was, pc, cmd, raced, cut>>
    PROVE  HistoryInv'
  <1>1. AgainInv' /\ KindInv'
    BY DEF HistoryInv, AgainInv, KindInv, Changing, Goal, MeetsAll, Meets, RollbackTarget
  <1>2. CutInv'
    BY DEF HistoryInv, CutInv, Goal, MeetsAll, Meets, RollbackTarget
  <1> QED BY <1>1, <1>2, HistorySame DEF HistoryInv

LEMMA HistoryStep ==
    ASSUME TypeOK, UnderWay, HistoryInv, [Next]_vars
    PROVE  HistoryInv'
  <1>1. CASE Begin
    BY <1>1, BeginHistory
  <1>2. CASE Progress
    BY <1>2, PathHistory, RecordHistory DEF Progress
  <1>3. CASE Cut
    BY <1>3, CutHistory
  <1>4. CASE Environment
    <2>1. ASSUME NEW p \in Package, NEW v \in Version, Publish(p, v)
          PROVE  HistoryInv'
      BY <2>1, QuietHistory DEF Publish, root, change
    <2> QED BY <1>4, <2>1, PersonHistory DEF Environment
  <1>5. CASE UNCHANGED vars
    BY <1>5, QuietHistory DEF vars, root, change
  <1> QED BY <1>1, <1>2, <1>3, <1>4, <1>5 DEF Next

LEMMA InductiveHistory == Spec => [](TypeOK /\ UnderWay /\ HistoryInv)
  <1>1. Init => HistoryInv
    BY DEF Init, HistoryInv, History, AgainInv, CutInv, KindInv, Changing, NoCommand, Goes
  <1>2. TypeOK /\ UnderWay /\ HistoryInv /\ [Next]_vars => HistoryInv'
    BY HistoryStep
  <1> QED BY <1>1, <1>2, Inductive, PTL DEF Spec

(* ROLLBACK goes to the version the installed one replaced, or nowhere,    *)
(* whatever was cut between the record it reads and the database.          *)
THEOREM RollbackGoesBack == Spec => []RollbackTruth
  <1>1. TypeOK /\ HistoryInv => RollbackTruth
    BY TargetIs DEF HistoryInv, RollbackTruth
  <1> QED BY <1>1, InductiveHistory, PTL

(* A command that was cut is accepted when it is given again, and goes to  *)
(* the version it was going to.                                            *)
THEOREM CutIsResumed == Spec => []CutResumes
  <1>1. TypeOK /\ HistoryInv => CutResumes
    <2> SUFFICES ASSUME TypeOK, HistoryInv, cut.verb \in Goes,
                        \A f \in Files(cut.pkg, cut.new) : ~OwnedByOther(cut.pkg, f)
                 PROVE  Resumes(cut)
      BY DEF CutResumes, Goes
    <2>1. CutInv /\ Goal(cut) /\ MeetsAll(cut)
      BY DEF HistoryInv, CutInv
    <2>2. Conflicts(cut.pkg, cut.old, cut.new, cut.takeover) = {}
      BY <2>1 DEF Conflicts, MeetsAll, Meets
    <2> QED BY <2>1, <2>2 DEF Resumes, CutInv, Goal
  <1> QED BY <1>1, InductiveHistory, PTL
=============================================================================
