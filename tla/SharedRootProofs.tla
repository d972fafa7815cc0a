-------------------------- MODULE SharedRootProofs --------------------------
(***************************************************************************)
(* Proofs about RootLock and Placement, what commands of one root share:   *)
(* its lock, for any number of processes, inode numbers and tries; and the *)
(* places recorded outside it, for any packages, versions, paths, records  *)
(* and number of commands.                                                 *)
(*                                                                         *)
(* The lock excludes because whoever may change the root has the flock of  *)
(* the very file the root's link names (Held); it leaves nothing because   *)
(* that file, while it is there, has a process that will remove it         *)
(* (Remover), and an empty .pkg has one that will try to (Emptier).        *)
(*                                                                         *)
(* A package is where the records say because the files of a version that  *)
(* fits are at different places (PlacesDiffer): in the root, in the place  *)
(* the alias leads to, or in the package's own drawer, which no alias      *)
(* reaches.  So deleting the old version takes nothing of the new one, and *)
(* what was placed is still there when it is recorded (PlacementInv).      *)
(***************************************************************************)
EXTENDS RootLock, Placement, SequenceTheorems, WellFoundedInduction, TLAPS

(* Part 1: the lock. *)

(* Where a process has the lock file open, and where it has its flock. *)
Opened ==
    \A p \in Process :
       /\ pc[p] \in {"idle", "isdir", "mkdir", "isdir2", "open", "rmdir"} => fd[p] = None
       /\ pc[p] \in {"flock", "check", "unlink", "unlock"} => fd[p] # None

Owned ==
    /\ \A p \in Process :
          pc[p] \in {"check", "work", "unlink", "unlock"} /\ fd[p] # None => owner[fd[p]] = p
    /\ \A p \in Process, i \in Inode :
          owner[i] = p => fd[p] = i /\ pc[p] \in {"check", "work", "unlink", "unlock"}

Held == \A p \in Process : Holds(p) => link = fd[p]

(* After the unlink, the file p has open is not in the root again. *)
Orphaned == \A p \in Process : pc[p] = "unlock" => link # fd[p]

Remover ==
    ~killed /\ link # None =>
        \E p \in Process : fd[p] = link /\ pc[p] \in {"flock", "check", "work", "unlink"}

Directory == (link # None \/ kept) => dir

Emptier ==
    ~killed /\ dir /\ ~kept =>
        link # None \/ \E p \in Process : pc[p] \in {"open", "unlock", "rmdir"}

Inv == TypeOK /\ Opened /\ Owned /\ Held /\ Orphaned /\ Remover /\ Directory /\ Emptier

USE NoneAssumption, TriesAssumption

LEMMA InitInv == Init => Inv
  <1> SUFFICES ASSUME Init PROVE Inv
    OBVIOUS
  <1>1. TypeOK
    <2>1. dir \in BOOLEAN /\ kept \in BOOLEAN /\ root \in BOOLEAN /\ killed \in BOOLEAN
      BY Zenon DEF Init
    <2>2. 0 \in 0 .. Tries - 1
      OBVIOUS
    <2> QED BY <2>1, <2>2 DEF Init, TypeOK, Calls
  <1>2. Opened /\ Owned BY DEF Init, Opened, Owned
  <1>3. Held /\ Orphaned BY DEF Init, Held, Holds, Orphaned
  <1>4. Remover /\ Emptier BY DEF Init, Remover, Emptier
  <1>5. Directory BY DEF Init, Directory
  <1> QED BY <1>1, <1>2, <1>3, <1>4, <1>5 DEF Inv

(* Each step keeps the type. *)
LEMMA TypeStep ==
  ASSUME TypeOK, Opened, NEW p \in Process, Begin(p) \/ Step(p) \/ Kill(p)
  PROVE  TypeOK'
  <1> USE DEF TypeOK, Calls, Go, End, Close, files
  <1>1. CASE Begin(p) BY <1>1 DEF Begin
  <1>2. CASE IsDir(p) BY <1>2 DEF IsDir
  <1>3. CASE MakeDir(p) BY <1>3 DEF MakeDir
  <1>4. CASE IsDirNow(p) BY <1>4 DEF IsDirNow
  <1>5. CASE Open(p) BY <1>5 DEF Open
  <1>6. CASE Flock(p) BY <1>6 DEF Flock, Opened
  <1>7. CASE Check(p) BY <1>7 DEF Check, SameFile, Again, LastTry
  <1>8. CASE Work(p) BY <1>8 DEF Work
  <1>9. CASE MakeRoot(p) BY <1>9 DEF MakeRoot
  <1>10. CASE WorkUnlocked(p) BY <1>10 DEF WorkUnlocked
  <1>11. CASE Unlink(p) BY <1>11 DEF Unlink
  <1>12. CASE Unlock(p) BY <1>12 DEF Unlock
  <1>13. CASE Rmdir(p) BY <1>13 DEF Rmdir
  <1>14. CASE Kill(p) BY <1>14 DEF Kill
  <1> QED BY <1>1, <1>2, <1>3, <1>4, <1>5, <1>6, <1>7, <1>8, <1>9, <1>10, <1>11,
             <1>12, <1>13, <1>14 DEF Step

(* Each step keeps the mutual exclusion's part. *)
LEMMA LockStep ==
  ASSUME Inv, NEW p \in Process, Begin(p) \/ Step(p) \/ Kill(p)
  PROVE  Opened' /\ Owned' /\ Held' /\ Orphaned'
  <1> USE DEF Inv, TypeOK, Calls, Go, End, Close, files, Opened, Owned, Held, Holds, Orphaned
  <1>1. CASE Begin(p) BY <1>1 DEF Begin
  <1>2. CASE IsDir(p) BY <1>2 DEF IsDir
  <1>3. CASE MakeDir(p) BY <1>3 DEF MakeDir
  <1>4. CASE IsDirNow(p) BY <1>4 DEF IsDirNow
  <1>5. CASE Open(p) BY <1>5 DEF Open
  <1>6. CASE Flock(p) BY <1>6 DEF Flock
  <1>7. CASE Check(p) BY <1>7 DEF Check, SameFile, Again, LastTry
  <1>8. CASE Work(p) BY <1>8 DEF Work
  <1>9. CASE MakeRoot(p) BY <1>9 DEF MakeRoot
  <1>10. CASE WorkUnlocked(p) BY <1>10 DEF WorkUnlocked
  <1>11. CASE Unlink(p) BY <1>11 DEF Unlink
  <1>12. CASE Unlock(p) BY <1>12 DEF Unlock
  <1>13. CASE Rmdir(p) BY <1>13 DEF Rmdir
  <1>14. CASE Kill(p) BY <1>14 DEF Kill
  <1> QED BY <1>1, <1>2, <1>3, <1>4, <1>5, <1>6, <1>7, <1>8, <1>9, <1>10, <1>11,
             <1>12, <1>13, <1>14 DEF Step

(* Each step keeps somebody to remove the file and the directory. *)
LEMMA RemoverStep ==
  ASSUME Inv, NEW p \in Process, Begin(p) \/ Step(p) \/ Kill(p)
  PROVE  Remover' /\ Directory' /\ Emptier'
  <1> USE DEF Inv, TypeOK, Calls, Go, End, Close, files, Opened, Owned, Held, Holds, Orphaned,
              Remover, Directory, Emptier
  <1>1. CASE Begin(p) BY <1>1 DEF Begin
  <1>2. CASE IsDir(p) BY <1>2 DEF IsDir
  <1>3. CASE MakeDir(p) BY <1>3 DEF MakeDir
  <1>4. CASE IsDirNow(p) BY <1>4 DEF IsDirNow
  <1>5. CASE Open(p) BY <1>5 DEF Open
  <1>6. CASE Flock(p) BY <1>6 DEF Flock
  <1>7. CASE Check(p) BY <1>7 DEF Check, SameFile, Again, LastTry
  <1>8. CASE Work(p) BY <1>8 DEF Work
  <1>9. CASE MakeRoot(p) BY <1>9 DEF MakeRoot
  <1>10. CASE WorkUnlocked(p) BY <1>10 DEF WorkUnlocked
  <1>11. CASE Unlink(p) BY <1>11 DEF Unlink
  <1>12. CASE Unlock(p) BY <1>12 DEF Unlock
  <1>13. CASE Rmdir(p) BY <1>13 DEF Rmdir
  <1>14. CASE Kill(p) BY <1>14 DEF Kill
  <1> QED BY <1>1, <1>2, <1>3, <1>4, <1>5, <1>6, <1>7, <1>8, <1>9, <1>10, <1>11,
             <1>12, <1>13, <1>14 DEF Step

(* The invariant holds in every state: who holds the lock has the flock of *)
(* the file the root's link names.                                         *)
THEOREM LockInvariant == Spec => []Inv
  <1>1. Inv /\ [Next]_vars => Inv'
    <2> SUFFICES ASSUME Inv, [Next]_vars PROVE Inv'
      OBVIOUS
    <2>1. CASE Next
      BY <2>1, TypeStep, LockStep, RemoverStep DEF Next, Inv
    <2>2. CASE UNCHANGED vars
      BY <2>2 DEF vars, files, process, Inv, TypeOK, Opened, Owned, Held, Holds,
                  Orphaned, Remover, Directory, Emptier
    <2> QED BY <2>1, <2>2
  <1> QED BY <1>1, InitInv, PTL DEF Spec

(* pkg_fs_lock_root and pkg_fs_unlock_root keep their types. *)
THEOREM LockTypes == Spec => []TypeOK
  <1>1. Inv => TypeOK BY DEF Inv
  <1> QED BY <1>1, LockInvariant, PTL

(* "A root keeps nothing of it": no .pkg/lock, and no .pkg made for it.    *)
THEOREM RootKeepsNothing == Spec => []NothingLeft
  <1>1. Inv => NothingLeft
    BY DEF Inv, TypeOK, NothingLeft, Remover, Directory, Emptier
  <1> QED BY <1>1, LockInvariant, PTL

-----------------------------------------------------------------------------
(* The processes that may change the root, as the abstract lock has them. *)
Holders == {p \in Process : Holds(p)}

LEMMA OneHolder ==
  ASSUME Inv, NEW p \in Process, NEW q \in Process, Holds(p), Holds(q)
  PROVE  p = q
  BY DEF Inv, Owned, Held, Holds

(* What a step does to the holders: one joins none, the one leaves, or     *)
(* nothing changes.                                                        *)
LEMMA HolderStep ==
  ASSUME Inv, NEW p \in Process, Begin(p) \/ Step(p) \/ Kill(p)
  PROVE  \/ Holders = {} /\ Holders' = {p}
         \/ Holders = {p} /\ Holders' = {}
         \/ Holders' = Holders
  <1> USE DEF Inv, TypeOK, Go, Close, Opened, Holders, Holds
  <1>1. CASE Begin(p) BY <1>1 DEF Begin
  <1>2. CASE IsDir(p) BY <1>2 DEF IsDir
  <1>3. CASE MakeDir(p) BY <1>3 DEF MakeDir
  <1>4. CASE IsDirNow(p) BY <1>4 DEF IsDirNow
  <1>5. CASE Open(p) BY <1>5 DEF Open
  <1>6. CASE Flock(p) BY <1>6 DEF Flock
  <1>7. CASE Check(p)
    <2>1. CASE SameFile(p)
      <3>1. \A q \in Process : ~Holds(q)
        BY <1>7, <2>1 DEF Check, SameFile, Owned, Held
      <3> QED BY <1>7, <2>1, <3>1 DEF Check, SameFile
    <2>2. CASE ~SameFile(p)
      BY <1>7, <2>2 DEF Check, Again
    <2> QED BY <2>1, <2>2
  <1>8. CASE Work(p) BY <1>8 DEF Work
  <1>9. CASE MakeRoot(p) BY <1>9 DEF MakeRoot
  <1>10. CASE WorkUnlocked(p) BY <1>10 DEF WorkUnlocked
  <1>11. CASE Unlink(p)
    <2>1. Holders = {p} BY <1>11, OneHolder DEF Unlink
    <2> QED BY <1>11, <2>1 DEF Unlink
  <1>12. CASE Unlock(p) BY <1>12 DEF Unlock
  <1>13. CASE Rmdir(p) BY <1>13 DEF Rmdir
  <1>14. CASE Kill(p)
    <2>1. Holds(p) => Holders = {p} BY OneHolder
    <2> QED BY <1>14, <2>1 DEF Kill
  <1> QED BY <1>1, <1>2, <1>3, <1>4, <1>5, <1>6, <1>7, <1>8, <1>9, <1>10, <1>11,
             <1>12, <1>13, <1>14 DEF Step

(* The calls around .pkg/lock implement the abstract mutual exclusion, for *)
(* any number of runs of pkg on the root.                                  *)
THEOREM LockExcludes == Spec => IsMutex
  <1>1. Init => Excludes!Init
    BY DEF Init, Excludes!Init, Holds
  <1>2. Inv /\ [Next]_vars => [Excludes!Next]_Holders
    <2> SUFFICES ASSUME Inv, [Next]_vars PROVE [Excludes!Next]_Holders
      OBVIOUS
    <2>1. CASE Next
      BY <2>1, HolderStep DEF Next, Excludes!Next, Excludes!Acquire, Excludes!Release, Holders
    <2>2. CASE UNCHANGED vars
      BY <2>2 DEF vars, process, Holders, Holds
    <2> QED BY <2>1, <2>2
  <1> QED BY <1>1, <1>2, LockInvariant, PTL DEF Spec, IsMutex, Excludes!Spec, Holders

----------------------------------------------------------------------------
(* Part 2: the places. *)

(* A place a record may name: a drawer of a directory outside the root,    *)
(* and no drawer the root itself is in.                                    *)
Places ==
    {pl \in [prefix : Seq(STRING), parent : Seq(STRING)] :
        pl.prefix # <<>> /\ ~ IsPrefix(Root, pl.parent) /\ ~ IsPrefix(Drawer(pl), Root)}

Records == UNION {[D -> Places] : D \in SUBSET Package}

Orders ==
    [pc : {"idle", "lock", "install", "upgrade", "remove", "save", "place", "drop",
           "delete", "forget"},
     verb : {"install", "upgrade", "remove", Nothing},
     pkg : Package \cup {Nothing}, ver : Version \cup {0}, at : Targets \cup {Nothing},
     known : Records, fresh : SUBSET Package, todo : SUBSET Seq(STRING), stale : BOOLEAN]

PlacementTyped ==
    /\ db \in [Package -> Version \cup {0}]
    /\ record \in Records
    /\ lock \in Run \cup {Nothing}
    /\ cmd \in [Run -> Orders]

(* A command was given a package that has paths, and works under the lock. *)
Given(r, c) ==
    /\ c.pc # "idle" =>
         /\ c.verb \in {"install", "upgrade", "remove"}
         /\ c.pkg \in Package /\ c.ver \in Version /\ Paths(c.pkg, c.ver) # {}
    /\ c.pc \notin {"idle", "lock"} => lock = r

(* The records it works from are the root's, its own before it is saved    *)
(* apart.                                                                  *)
Grown(c) ==
    /\ c.pkg \notin DOMAIN record /\ c.pkg \in c.fresh
    /\ DOMAIN c.known = DOMAIN record \cup {c.pkg}
    /\ \A q \in DOMAIN record : c.known[q] = record[q]

Knows(c) ==
    /\ c.pc \in {"install", "upgrade", "place", "drop"} => c.known = record
    /\ c.pc = "save" => c.known = record \/ Grown(c)

(* A version's files are in its package's drawer, and in no other's.       *)
Fitting(known, p, v) ==
    \A q \in DOMAIN known :
        IF q = p
        THEN Layout(known[p], p, v) /\ \A f \in Paths(p, v) : SafeFile(known[p], f)
        ELSE \A f \in Paths(p, v) :
               ~ IsPrefix(known[q].prefix, f) /\ ~ Meet(Drawer(known[q]), Physical(known, f))

Fits(c) ==
    /\ c.pc \in {"save", "place", "drop"} => Fitting(c.known, c.pkg, c.ver)
    /\ /\ c.pc \in {"upgrade", "save", "place", "drop"}
       /\ c.pkg \in DOMAIN c.known /\ db[c.pkg] # 0
       => Fitting(c.known, c.pkg, db[c.pkg])

(* What it is to place is there, or still to be placed; and what it is to  *)
(* delete is of the old version alone.                                     *)
Its(c, f) == Physical(c.known, f) \in DOMAIN disk /\ disk[Physical(c.known, f)] = c.pkg

Puts(c) ==
    /\ c.pc \in {"save", "place"} =>
         c.todo \subseteq Paths(c.pkg, c.ver) /\ \A f \in Paths(c.pkg, c.ver) \ c.todo : Its(c, f)
    /\ c.pc = "drop" =>
         /\ c.todo \subseteq Paths(c.pkg, db[c.pkg]) \ Paths(c.pkg, c.ver)
         /\ \A f \in Paths(c.pkg, c.ver) : Its(c, f)

Working(c) == ~ c.stale => Knows(c) /\ Fits(c) /\ Puts(c)

PlacementInv == PlacementTyped /\ \A r \in Run : Given(r, cmd[r]) /\ Working(cmd[r])

----------------------------------------------------------------------------
(* Paths and their prefixes. *)
LEMMA PathIs ==
    ASSUME NEW x \in Seq(STRING)
    PROVE  /\ Len(x) \in Nat /\ DOMAIN x = 1 .. Len(x)
           /\ \A i \in 1 .. Len(x) : x[i] \in STRING
  BY LenProperties, ElementOfSeq

LEMMA SamePath ==
    ASSUME NEW x \in Seq(STRING), NEW y \in Seq(STRING), Len(x) = Len(y),
           \A i \in 1 .. Len(x) : x[i] = y[i]
    PROVE  x = y
  BY SeqEqual

LEMMA PartIs ==
    ASSUME NEW x \in Seq(STRING), NEW m \in Nat \ {0}, NEW n \in Nat, n <= Len(x)
    PROVE  /\ SubSeq(x, m, n) \in Seq(STRING)
           /\ Len(SubSeq(x, m, n)) = IF m <= n THEN n - m + 1 ELSE 0
           /\ \A i \in 1 .. n - m + 1 : SubSeq(x, m, n)[i] = x[m + i - 1]
  <1>1. m \in Int /\ n \in Int
    OBVIOUS
  <1>2. \A i \in m .. n : x[i] \in STRING
    BY PathIs
  <1> QED BY <1>1, <1>2, SubSeqProperties

LEMMA JoinIs ==
    ASSUME NEW x \in Seq(STRING), NEW y \in Seq(STRING)
    PROVE  /\ x \o y \in Seq(STRING) /\ Len(x \o y) = Len(x) + Len(y)
           /\ \A i \in 1 .. Len(x) : (x \o y)[i] = x[i]
           /\ \A i \in 1 .. Len(y) : (x \o y)[Len(x) + i] = y[i]
  <1>1. /\ x \o y \in Seq(STRING) /\ Len(x \o y) = Len(x) + Len(y)
        /\ \A i \in 1 .. Len(x) + Len(y) :
              (x \o y)[i] = IF i <= Len(x) THEN x[i] ELSE y[i - Len(x)]
    BY ConcatProperties
  <1>2. Len(x) \in Nat /\ Len(y) \in Nat
    BY PathIs
  <1> QED BY <1>1, <1>2

LEMMA PrefixIs ==
    ASSUME NEW a \in Seq(STRING), NEW x \in Seq(STRING)
    PROVE  IsPrefix(a, x) <=> Len(a) <= Len(x) /\ \A i \in 1 .. Len(a) : a[i] = x[i]
  <1>1. Len(a) \in Nat /\ Len(x) \in Nat /\ 1 \in Nat \ {0}
    BY PathIs
  <1>2. SubSeq(a, 1, Len(a)) = a
    BY SubSeqFull
  <1>3. ASSUME Len(a) <= Len(x)
        PROVE  /\ SubSeq(x, 1, Len(a)) \in Seq(STRING) /\ Len(SubSeq(x, 1, Len(a))) = Len(a)
               /\ \A i \in 1 .. Len(a) : SubSeq(x, 1, Len(a))[i] = x[i]
    <2>1. /\ SubSeq(x, 1, Len(a)) \in Seq(STRING)
          /\ Len(SubSeq(x, 1, Len(a))) = IF 1 <= Len(a) THEN Len(a) - 1 + 1 ELSE 0
          /\ \A i \in 1 .. Len(a) - 1 + 1 : SubSeq(x, 1, Len(a))[i] = x[1 + i - 1]
      BY <1>1, <1>3, PartIs
    <2> QED BY <1>1, <2>1
  <1>4. ASSUME IsPrefix(a, x)
        PROVE  Len(a) <= Len(x) /\ \A i \in 1 .. Len(a) : a[i] = x[i]
    BY <1>2, <1>3, <1>4 DEF IsPrefix
  <1>5. ASSUME Len(a) <= Len(x), \A i \in 1 .. Len(a) : a[i] = x[i]
        PROVE  IsPrefix(a, x)
    <2>1. a = SubSeq(x, 1, Len(a))
      BY <1>3, <1>5, SamePath
    <2> QED BY <1>2, <1>5, <2>1 DEF IsPrefix
  <1> QED BY <1>4, <1>5

(* Two prefixes of one path meet. *)
LEMMA PrefixesMeet ==
    ASSUME NEW a \in Seq(STRING), NEW b \in Seq(STRING), NEW x \in Seq(STRING),
           IsPrefix(a, x), IsPrefix(b, x)
    PROVE  Meet(a, b)
  <1>1. /\ Len(a) \in Nat /\ Len(b) \in Nat
        /\ \A i \in 1 .. Len(a) : a[i] = x[i]
        /\ \A i \in 1 .. Len(b) : b[i] = x[i]
    BY PathIs, PrefixIs
  <1>2. CASE Len(a) <= Len(b)
    <2>1. \A i \in 1 .. Len(a) : a[i] = b[i]
      BY <1>1, <1>2
    <2> QED BY <1>2, <2>1, PrefixIs DEF Meet
  <1>3. CASE Len(b) <= Len(a)
    <2>1. \A i \in 1 .. Len(b) : b[i] = a[i]
      BY <1>1, <1>3
    <2> QED BY <1>3, <2>1, PrefixIs DEF Meet
  <1> QED BY <1>1, <1>2, <1>3

LEMMA PrefixThrough ==
    ASSUME NEW a \in Seq(STRING), NEW b \in Seq(STRING), NEW x \in Seq(STRING),
           IsPrefix(a, b), IsPrefix(b, x)
    PROVE  IsPrefix(a, x)
  <1>1. /\ Len(a) \in Nat /\ Len(b) \in Nat /\ Len(x) \in Nat /\ Len(a) <= Len(b) /\ Len(b) <= Len(x)
        /\ \A i \in 1 .. Len(a) : a[i] = b[i]
        /\ \A i \in 1 .. Len(b) : b[i] = x[i]
    BY PathIs, PrefixIs
  <1>2. Len(a) <= Len(x) /\ \A i \in 1 .. Len(a) : a[i] = x[i]
    BY <1>1
  <1> QED BY <1>2, PrefixIs

LEMMA PrefixOfJoin ==
    ASSUME NEW a \in Seq(STRING), NEW b \in Seq(STRING)
    PROVE  IsPrefix(a, a \o b)
  <1>1. /\ a \o b \in Seq(STRING) /\ Len(a \o b) = Len(a) + Len(b)
        /\ \A i \in 1 .. Len(a) : (a \o b)[i] = a[i]
    BY JoinIs
  <1>2. Len(a) \in Nat /\ Len(b) \in Nat
    BY PathIs
  <1>3. Len(a) <= Len(a \o b)
    BY <1>1, <1>2
  <1> QED BY <1>1, <1>3, PrefixIs

LEMMA JoinTells ==
    ASSUME NEW a \in Seq(STRING), NEW x \in Seq(STRING), NEW y \in Seq(STRING),
           a \o x = a \o y
    PROVE  x = y
  <1>1. /\ Len(a \o x) = Len(a) + Len(x) /\ Len(a \o y) = Len(a) + Len(y)
        /\ \A i \in 1 .. Len(x) : (a \o x)[Len(a) + i] = x[i]
        /\ \A i \in 1 .. Len(y) : (a \o y)[Len(a) + i] = y[i]
    BY JoinIs
  <1>2. Len(a) \in Nat /\ Len(x) \in Nat /\ Len(y) \in Nat
    BY PathIs
  <1>3. Len(x) = Len(y)
    BY <1>1, <1>2
  <1>4. \A i \in 1 .. Len(x) : x[i] = y[i]
    BY <1>1, <1>3
  <1> QED BY <1>3, <1>4, SamePath

(* What follows a prefix, and the prefix, are the path. *)
LEMMA RestTells ==
    ASSUME NEW a \in Seq(STRING), NEW x \in Seq(STRING), NEW y \in Seq(STRING),
           NEW n \in Nat \ {0}, n <= Len(a) + 1,
           IsPrefix(a, x), IsPrefix(a, y), SubSeq(x, n, Len(x)) = SubSeq(y, n, Len(y))
    PROVE  x = y
  <1>1. /\ Len(a) \in Nat /\ Len(x) \in Nat /\ Len(y) \in Nat
        /\ Len(a) <= Len(x) /\ Len(a) <= Len(y)
        /\ \A i \in 1 .. Len(a) : a[i] = x[i] /\ a[i] = y[i]
    BY PathIs, PrefixIs
  <1>2. /\ Len(SubSeq(x, n, Len(x))) = IF n <= Len(x) THEN Len(x) - n + 1 ELSE 0
        /\ \A i \in 1 .. Len(x) - n + 1 : SubSeq(x, n, Len(x))[i] = x[n + i - 1]
    BY <1>1, PartIs, SMTT(60)
  <1>3. /\ Len(SubSeq(y, n, Len(y))) = IF n <= Len(y) THEN Len(y) - n + 1 ELSE 0
        /\ \A i \in 1 .. Len(y) - n + 1 : SubSeq(y, n, Len(y))[i] = y[n + i - 1]
    BY <1>1, PartIs
  <1>4. Len(x) = Len(y)
    BY <1>1, <1>2, <1>3
  <1>5. ASSUME NEW i \in 1 .. Len(x)
        PROVE  x[i] = y[i]
    <2>1. CASE i <= Len(a)
      BY <1>1, <2>1
    <2>2. CASE i > Len(a)
      <3>1. i - n + 1 \in 1 .. Len(x) - n + 1 /\ n + (i - n + 1) - 1 = i
        BY <1>1, <2>2
      <3> QED BY <1>2, <1>3, <1>4, <3>1
    <2> QED BY <1>1, <2>1, <2>2
  <1> QED BY <1>4, <1>5, SamePath

----------------------------------------------------------------------------
(* Where a path of a root is. *)
LEMMA ConstantPaths ==
    /\ Root \in Seq(STRING) /\ Alias \in Seq(STRING) /\ Elsewhere \in Seq(STRING)
    /\ IsPrefix(Root, Alias) /\ ~ Meet(Root, Elsewhere)
  BY PlacementAssumption

(* A path placed by a record. *)
PlacedAt(pl, f) == pl.parent \o SubSeq(f, Len(pl.prefix), Len(f))

LEMMA PlaceIs ==
    ASSUME NEW pl \in Places
    PROVE  /\ pl.prefix \in Seq(STRING) /\ pl.parent \in Seq(STRING)
           /\ Len(pl.prefix) \in Nat \ {0}
           /\ ~ IsPrefix(Root, pl.parent) /\ ~ IsPrefix(Drawer(pl), Root)
           /\ Drawer(pl) \in Seq(STRING) /\ Len(Drawer(pl)) = Len(pl.parent) + 1
           /\ \A i \in 1 .. Len(pl.parent) : Drawer(pl)[i] = pl.parent[i]
           /\ Drawer(pl)[Len(pl.parent) + 1] = pl.prefix[Len(pl.prefix)]
  <1>1. /\ pl.prefix \in Seq(STRING) /\ pl.parent \in Seq(STRING) /\ pl.prefix # <<>>
        /\ ~ IsPrefix(Root, pl.parent) /\ ~ IsPrefix(Drawer(pl), Root)
    BY DEF Places
  <1>2. Len(pl.prefix) \in Nat \ {0}
    BY <1>1, EmptySeq
  <1>3. pl.prefix[Len(pl.prefix)] \in STRING
    BY <1>1, <1>2, PathIs
  <1>4. Drawer(pl) = Append(pl.parent, pl.prefix[Len(pl.prefix)])
    BY DEF Drawer, Last
  <1>5. /\ Drawer(pl) \in Seq(STRING) /\ Len(Drawer(pl)) = Len(pl.parent) + 1
        /\ \A i \in 1 .. Len(pl.parent) : Drawer(pl)[i] = pl.parent[i]
        /\ Drawer(pl)[Len(pl.parent) + 1] = pl.prefix[Len(pl.prefix)]
    BY <1>1, <1>3, <1>4, AppendProperties
  <1> QED BY <1>1, <1>2, <1>5

LEMMA PlacedIs ==
    ASSUME NEW pl \in Places, NEW f \in Seq(STRING), IsPrefix(pl.prefix, f)
    PROVE  PlacedAt(pl, f) \in Seq(STRING) /\ IsPrefix(Drawer(pl), PlacedAt(pl, f))
  <1> PICK n \in Nat \ {0} : n = Len(pl.prefix)
    BY PlaceIs
  <1> PICK l \in Nat : l = Len(f)
    BY PathIs
  <1> PICK rest : rest = SubSeq(f, n, l)
    OBVIOUS
  <1>1. n <= l /\ f[n] = pl.prefix[n]
    BY PlaceIs, PrefixIs
  <1>2. /\ rest \in Seq(STRING) /\ Len(rest) = l - n + 1
        /\ \A i \in 1 .. l - n + 1 : rest[i] = f[n + i - 1]
    <2>1. l <= Len(f)
      OBVIOUS
    <2>2. /\ SubSeq(f, n, l) \in Seq(STRING)
          /\ Len(SubSeq(f, n, l)) = IF n <= l THEN l - n + 1 ELSE 0
          /\ \A i \in 1 .. l - n + 1 : SubSeq(f, n, l)[i] = f[n + i - 1]
      BY <2>1, PartIs
    <2> QED BY <1>1, <2>2
  <1>3. rest[1] = f[n] /\ 1 \in 1 .. Len(rest)
    BY <1>1, <1>2
  <1> PICK a \in Seq(STRING) : a = pl.parent
    BY PlaceIs
  <1> PICK m \in Nat : m = Len(a)
    BY PathIs
  <1> PICK x : x = a \o rest
    OBVIOUS
  <1>4. /\ x \in Seq(STRING) /\ Len(x) = m + Len(rest)
        /\ \A i \in 1 .. m : x[i] = a[i]
        /\ \A i \in 1 .. Len(rest) : x[m + i] = rest[i]
    <2>1. rest \in Seq(STRING)
      BY <1>2
    <2>2. /\ a \o rest \in Seq(STRING) /\ Len(a \o rest) = Len(a) + Len(rest)
          /\ \A i \in 1 .. Len(a) : (a \o rest)[i] = a[i]
          /\ \A i \in 1 .. Len(rest) : (a \o rest)[Len(a) + i] = rest[i]
      BY <2>1, JoinIs, ZenonT(60)
    <2> QED BY <2>2
  <1>5. x[m + 1] = pl.prefix[n]
    BY <1>1, <1>3, <1>4
  <1> PICK d \in Seq(STRING) : d = Drawer(pl)
    BY PlaceIs
  <1>6. /\ Len(d) = m + 1 /\ \A i \in 1 .. m : d[i] = a[i]
        /\ d[m + 1] = pl.prefix[n]
    BY PlaceIs
  <1>7. Len(d) <= Len(x) /\ \A i \in 1 .. Len(d) : d[i] = x[i]
    <2>1. Len(rest) \in Nat /\ Len(rest) >= 1
      BY <1>1, <1>2
    <2>2. Len(d) <= Len(x)
      BY <1>4, <1>6, <2>1
    <2>3. ASSUME NEW i \in 1 .. m + 1
          PROVE  d[i] = x[i]
      <3>1. CASE i = m + 1
        BY <1>5, <1>6, <3>1
      <3>2. CASE i # m + 1
        <4>1. i \in 1 .. m
          BY <3>2
        <4> QED BY <1>4, <1>6, <4>1
      <3> QED BY <3>1, <3>2
    <2> QED BY <1>6, <2>2, <2>3
  <1>8. IsPrefix(d, x)
    BY <1>4, <1>7, PrefixIs
  <1> QED BY <1>4, <1>8 DEF PlacedAt

(* A placed file is not in the root, and so no alias moves it. *)
LEMMA PlacedStays ==
    ASSUME NEW pl \in Places, NEW x \in Seq(STRING), IsPrefix(Drawer(pl), x)
    PROVE  ~ IsPrefix(Root, x) /\ Resolve(x) = x
  <1> PICK a \in Seq(STRING) : a = pl.parent
    BY PlaceIs
  <1> PICK d \in Seq(STRING) : d = Drawer(pl)
    BY PlaceIs
  <1>1. /\ Len(a) \in Nat /\ Len(d) = Len(a) + 1 /\ \A i \in 1 .. Len(a) : d[i] = a[i]
        /\ ~ IsPrefix(Root, a) /\ ~ IsPrefix(d, Root)
    BY PlaceIs, PathIs
  <1>2. ASSUME IsPrefix(Root, x)
        PROVE  FALSE
    <2>1. IsPrefix(Root, d)
      BY <1>1, <1>2, ConstantPaths, PrefixesMeet DEF Meet
    <2>2. Len(Root) \in Nat /\ Len(Root) <= Len(d) /\ \A i \in 1 .. Len(Root) : Root[i] = d[i]
      BY <2>1, ConstantPaths, PathIs, PrefixIs
    <2>3. CASE Len(Root) <= Len(a)
      <3>1. \A i \in 1 .. Len(Root) : Root[i] = a[i]
        BY <1>1, <2>2, <2>3
      <3> QED BY <1>1, <2>3, <3>1, ConstantPaths, PrefixIs
    <2>4. CASE Len(Root) = Len(d)
      <3>1. \A i \in 1 .. Len(d) : d[i] = Root[i]
        BY <2>2, <2>4
      <3> QED BY <1>1, <2>4, <3>1, ConstantPaths, PrefixIs
    <2> QED BY <1>1, <2>2, <2>3, <2>4
  <1>3. ~ IsPrefix(Alias, x)
    BY <1>2, ConstantPaths, PrefixThrough
  <1> QED BY <1>2, <1>3 DEF Resolve

(* A record puts two paths of its drawer at two places. *)
LEMMA PlacedTells ==
    ASSUME NEW pl \in Places, NEW f \in Seq(STRING), NEW g \in Seq(STRING),
           IsPrefix(pl.prefix, f), IsPrefix(pl.prefix, g), PlacedAt(pl, f) = PlacedAt(pl, g)
    PROVE  f = g
  <1> PICK n \in Nat \ {0} : n = Len(pl.prefix)
    BY PlaceIs
  <1>1. n <= Len(f) /\ n <= Len(g)
    BY PlaceIs, PrefixIs
  <1>2. SubSeq(f, n, Len(f)) \in Seq(STRING) /\ SubSeq(g, n, Len(g)) \in Seq(STRING)
    BY <1>1, PathIs, PartIs
  <1>3. SubSeq(f, n, Len(f)) = SubSeq(g, n, Len(g))
    BY <1>2, PlaceIs, JoinTells DEF PlacedAt
  <1>4. n <= Len(pl.prefix) + 1
    OBVIOUS
  <1> QED BY <1>3, <1>4, PlaceIs, RestTells

(* The root puts two paths at two places, through the alias or not. *)
LEMMA RootTells ==
    ASSUME NEW f \in Seq(STRING), NEW g \in Seq(STRING), Resolve(Root \o f) = Resolve(Root \o g)
    PROVE  f = g
  <1> PICK x \in Seq(STRING) : x = Root \o f
    BY ConstantPaths, JoinIs
  <1> PICK y \in Seq(STRING) : y = Root \o g
    BY ConstantPaths, JoinIs
  <1> PICK n \in Nat \ {0} : n = Len(Alias) + 1
    BY ConstantPaths, PathIs
  <1>0. n <= Len(Alias) + 1
    OBVIOUS
  <1> PICK u : u = SubSeq(x, n, Len(x))
    OBVIOUS
  <1> PICK v : v = SubSeq(y, n, Len(y))
    OBVIOUS
  <1>1. IsPrefix(Root, x) /\ IsPrefix(Root, y)
    BY ConstantPaths, PrefixOfJoin
  <1>2. u \in Seq(STRING) /\ v \in Seq(STRING)
    BY PathIs, PartIs, SMTT(60)
  <1>3. IsPrefix(Elsewhere, Elsewhere \o u) /\ IsPrefix(Elsewhere, Elsewhere \o v)
    BY <1>2, ConstantPaths, PrefixOfJoin
  <1>4. /\ Resolve(x) = IF linked /\ IsPrefix(Alias, x) THEN Elsewhere \o u ELSE x
        /\ Resolve(y) = IF linked /\ IsPrefix(Alias, y) THEN Elsewhere \o v ELSE y
    BY DEF Resolve
  <1>5. Elsewhere \o u # y /\ Elsewhere \o v # x
    BY <1>1, <1>3, ConstantPaths, PrefixesMeet DEF Meet
  <1>6. CASE (linked /\ IsPrefix(Alias, x)) /\ (linked /\ IsPrefix(Alias, y))
    <2>1. Elsewhere \o u = Elsewhere \o v
      BY <1>4, <1>6
    <2>2. u = v
      BY <1>2, <2>1, ConstantPaths, JoinTells
    <2>3. SubSeq(x, n, Len(x)) = SubSeq(y, n, Len(y)) /\ n <= Len(Alias) + 1
      BY <1>0, <2>2, Zenon
    <2>4. x = y
      <3>1. IsPrefix(Alias, x) /\ IsPrefix(Alias, y) /\ Alias \in Seq(STRING)
        BY <1>6, ConstantPaths
      <3> QED BY <2>3, <3>1, RestTells, ZenonT(60)
    <2> QED
      <3>1. Root \o f = Root \o g
        BY <2>4
      <3> QED BY <3>1, ConstantPaths, JoinTells
  <1>7. CASE ~ (linked /\ IsPrefix(Alias, x)) /\ ~ (linked /\ IsPrefix(Alias, y))
    BY <1>4, <1>7, ConstantPaths, JoinTells
  <1> QED BY <1>4, <1>5, <1>6, <1>7

----------------------------------------------------------------------------
(* The records, and where they put the paths of a version. *)
LEMMA RecordsAre ==
    ASSUME NEW known \in Records
    PROVE  /\ DOMAIN known \subseteq Package
           /\ \A q \in DOMAIN known : known[q] \in Places
  BY DEF Records

LEMMA PathsAre ==
    ASSUME NEW p \in Package, NEW v \in Version \cup {0}
    PROVE  Paths(p, v) \subseteq Seq(STRING)
  BY PlacementAssumption DEF Paths

LEMMA InRoot ==
    ASSUME NEW known \in Records, NEW f,
           \A q \in DOMAIN known : ~ IsPrefix(known[q].prefix, f)
    PROVE  Physical(known, f) = Resolve(Root \o f)
  BY DEF Physical, Installed

LEMMA InDrawer ==
    ASSUME NEW known \in Records, NEW f \in Seq(STRING), NEW p \in DOMAIN known,
           IsPrefix(known[p].prefix, f)
    PROVE  \E q \in DOMAIN known :
              /\ IsPrefix(known[q].prefix, f)
              /\ Physical(known, f) = PlacedAt(known[q], f)
              /\ IsPrefix(Drawer(known[q]), Physical(known, f))
  <1> PICK at : at = {q \in DOMAIN known : IsPrefix(known[q].prefix, f)}
    OBVIOUS
  <1> PICK q : q = CHOOSE s \in at : TRUE
    OBVIOUS
  <1>1. q \in DOMAIN known /\ IsPrefix(known[q].prefix, f)
    <2>1. p \in at
      OBVIOUS
    <2> QED BY <2>1
  <1>2. Installed(known, f) = PlacedAt(known[q], f)
    <2>1. at # {}
      BY <1>1
    <2> QED BY <2>1 DEF Installed, PlacedAt
  <1>3. known[q] \in Places
    BY <1>1, RecordsAre
  <1>4. PlacedAt(known[q], f) \in Seq(STRING) /\ IsPrefix(Drawer(known[q]), PlacedAt(known[q], f))
    BY <1>1, <1>3, PlacedIs
  <1>5. Resolve(PlacedAt(known[q], f)) = PlacedAt(known[q], f)
    BY <1>3, <1>4, PlacedStays
  <1> QED BY <1>1, <1>2, <1>4, <1>5 DEF Physical

(* No path of a version that fits shares its place with another path the   *)
(* package had: neither through a record nor through the alias.            *)
LEMMA PlacesDiffer ==
    ASSUME NEW known \in Records, NEW p \in Package,
           NEW v \in Version \cup {0}, NEW w \in Version \cup {0},
           Fitting(known, p, v), p \in DOMAIN known => Fitting(known, p, w),
           NEW f \in Paths(p, w), NEW g \in Paths(p, v), f # g
    PROVE  Physical(known, f) # Physical(known, g)
  <1>1. f \in Seq(STRING) /\ g \in Seq(STRING)
    BY PathsAre
  <1>2. \A q \in DOMAIN known \ {p} :
           ~ IsPrefix(known[q].prefix, g) /\ ~ Meet(Drawer(known[q]), Physical(known, g))
    BY DEF Fitting
  <1>3. CASE p \in DOMAIN known
    <2> PICK pl \in Places : pl = known[p]
      BY <1>3, RecordsAre
    <2>1. IsPrefix(pl.prefix, f) /\ IsPrefix(pl.prefix, g)
      BY <1>3 DEF Fitting, Layout
    <2>2. \A q \in DOMAIN known \ {p} : ~ IsPrefix(known[q].prefix, f)
      BY <1>3 DEF Fitting
    <2>3. Physical(known, f) = PlacedAt(pl, f)
      BY <1>1, <1>3, <2>1, <2>2, InDrawer
    <2>4. Physical(known, g) = PlacedAt(pl, g)
      BY <1>1, <1>2, <1>3, <2>1, InDrawer
    <2> QED BY <1>1, <2>1, <2>3, <2>4, PlacedTells
  <1>4. CASE p \notin DOMAIN known
    <2>1. Physical(known, g) = Resolve(Root \o g)
      BY <1>2, <1>4, InRoot
    <2>2. CASE \A q \in DOMAIN known : ~ IsPrefix(known[q].prefix, f)
      <3>1. Physical(known, f) = Resolve(Root \o f)
        BY <2>2, InRoot
      <3> QED BY <1>1, <2>1, <3>1, RootTells
    <2>3. CASE \E q \in DOMAIN known : IsPrefix(known[q].prefix, f)
      <3>1. PICK q \in DOMAIN known : IsPrefix(Drawer(known[q]), Physical(known, f))
        BY <1>1, <2>3, InDrawer
      <3> QED BY <1>2, <1>4, <3>1 DEF Meet
    <2> QED BY <2>2, <2>3
  <1> QED BY <1>3, <1>4

(* The least of some numbers, and with it the longest common drawer. *)
Less == {x \in Nat \X Nat : x[1] < x[2]}

LEMMA LeastOf ==
    ASSUME NEW N \in SUBSET Nat, N # {}
    PROVE  \E n \in N : \A m \in N : n <= m
  <1>1. Less = OpToRel(<, Nat)
    BY DEF Less, OpToRel
  <1>2. PICK n \in N : \A m \in N : <<m, n>> \notin Less
    BY <1>1, NatLessThanWellFounded, WFMin
  <1>3. ASSUME NEW m \in N
        PROVE  n <= m
    <2>1. m \in Nat /\ n \in Nat
      OBVIOUS
    <2>2. ~ (m < n)
      BY <1>2, <2>1 DEF Less
    <2> QED BY <2>1, <2>2
  <1> QED BY <1>3

LEMMA CommonIs ==
    ASSUME NEW p \in Package, NEW v \in Version, Paths(p, v) # {}
    PROVE  Common(p, v) \in Seq(STRING)
  <1> DEFINE drawers == {Front(f) : f \in Paths(p, v)}
             shared == {d \in UNION {{SubSeq(e, 1, n) : n \in 0 .. Len(e)} : e \in drawers} :
                           \A e \in drawers : IsPrefix(d, e)}
  <1>1. drawers \subseteq Seq(STRING) /\ drawers # {}
    <2>1. ASSUME NEW f \in Paths(p, v)
          PROVE  Front(f) \in Seq(STRING)
      <3>1. f \in Seq(STRING)
        BY PathsAre
      <3>2. CASE Len(f) = 0
        <4>1. SubSeq(f, 1, Len(f) - 1) = <<>>
          BY <3>2, SubSeqEmpty
        <4> QED BY <4>1, EmptySeq DEF Front
      <3>3. CASE Len(f) # 0
        <4>1. Len(f) - 1 \in Nat /\ Len(f) - 1 <= Len(f)
          BY <3>1, <3>3, PathIs
        <4> QED BY <3>1, <4>1, PartIs DEF Front
      <3> QED BY <3>2, <3>3
    <2> QED BY <2>1
  <1>2. shared \subseteq Seq(STRING)
    <2>1. ASSUME NEW e \in drawers, NEW n \in 0 .. Len(e)
          PROVE  SubSeq(e, 1, n) \in Seq(STRING)
      <3>1. e \in Seq(STRING)
        BY <1>1
      <3>2. Len(e) \in Nat
        BY <3>1, PathIs
      <3>3. n \in Nat /\ n <= Len(e) /\ 1 \in Nat \ {0}
        BY <3>2
      <3> QED BY <3>1, <3>3, PartIs
    <2> QED BY <2>1
  <1>3. PICK e \in Seq(STRING) : e \in drawers
    BY <1>1
  <1>4. <<>> \in shared
    <2>1. SubSeq(e, 1, 0) = <<>> /\ 0 \in 0 .. Len(e)
      BY <1>3, PathIs, SubSeqEmpty
    <2>2. PICK z : z = <<>>
      OBVIOUS
    <2>3. z \in Seq(STRING) /\ Len(z) = 0
      BY <2>2, EmptySeq
    <2>4. ASSUME NEW d \in drawers
          PROVE  IsPrefix(z, d)
      <3>1. d \in Seq(STRING) /\ Len(d) \in Nat
        BY <1>1, PathIs
      <3>2. Len(z) <= Len(d) /\ \A i \in 1 .. Len(z) : z[i] = d[i]
        BY <2>3, <3>1
      <3> QED BY <2>3, <3>1, <3>2, PrefixIs
    <2> QED BY <1>3, <2>1, <2>2, <2>4
  <1>5. \A d \in shared : Len(d) \in Nat /\ Len(d) <= Len(e)
    BY <1>2, <1>3, PathIs, PrefixIs
  <1> HIDE DEF shared
  <1>6. PICK d \in shared : \A x \in shared : Len(x) <= Len(d)
    <2> DEFINE rest == {Len(e) - Len(x) : x \in shared}
    <2>1. Len(e) \in Nat
      BY PathIs
    <2>2. rest \in SUBSET Nat /\ rest # {}
      BY <1>4, <1>5, <2>1
    <2>3. PICK n \in rest : \A m \in rest : n <= m
      BY <2>2, LeastOf
    <2>4. PICK d \in shared : n = Len(e) - Len(d)
      BY <2>3
    <2>5. ASSUME NEW x \in shared
          PROVE  Len(x) <= Len(d)
      <3>1. n <= Len(e) - Len(x)
        BY <2>3
      <3> QED BY <1>5, <2>1, <2>4, <3>1
    <2> QED BY <2>5
  <1>7. Common(p, v) = CHOOSE z \in shared : \A x \in shared : Len(x) <= Len(z)
    BY DEF Common, shared
  <1> QED BY <1>2, <1>6, <1>7

----------------------------------------------------------------------------
(* A step of one command. *)
LEMMA IdleIs == Idle \in Orders /\ Idle.pc = "idle"
  <1> PICK z : z = <<>>
    OBVIOUS
  <1>1. z \in Seq(Places) /\ Len(z) = 0
    BY EmptySeq
  <1>2. z \in [1 .. 0 -> Places] /\ 1 .. 0 = {}
    BY <1>1, LenProperties
  <1>3. z \in Records
    BY <1>2 DEF Records
  <1> QED BY <1>3 DEF Idle, Orders

(* Nothing is asked of a command before the lock. *)
LEMMA Waits ==
    ASSUME NEW c, c.pc \in {"idle", "lock", "remove", "delete", "forget"}
    PROVE  Working(c)
  BY DEF Working, Knows, Fits, Puts

LEMMA Unmoved ==
    ASSUME NEW c, UNCHANGED <<disk, linked, db, record>>, Working(c)
    PROVE  Working(c)'
  BY ZenonT(60) DEF Working, Knows, Grown, Fits, Fitting, Layout, SafeFile, Resolve, Physical, Installed,
         Puts, Its, Paths

LEMMA StepKeeps ==
    ASSUME PlacementInv, NEW r \in Run, NEW c \in Orders, Becomes(r, c),
           lock = r \/ UNCHANGED <<disk, linked, db, record>>,
           lock = r \/ lock' = lock \/ (lock = Nothing /\ lock' = r),
           db' \in [Package -> Version \cup {0}], record' \in Records,
           lock' \in Run \cup {Nothing}, Given(r, c)', Working(c)'
    PROVE  PlacementInv'
  <1>1. cmd \in [Run -> Orders] /\ lock \in Run \cup {Nothing}
    BY DEF PlacementInv, PlacementTyped
  <1>2. cmd' \in [Run -> Orders] /\ cmd'[r] = c /\ \A s \in Run \ {r} : cmd'[s] = cmd[s]
    BY <1>1 DEF Becomes
  <1>3. PlacementTyped'
    BY <1>2 DEF PlacementTyped
  <1>4. ASSUME NEW s \in Run \ {r}
        PROVE  Given(s, cmd[s])' /\ Working(cmd[s])'
    <2> PICK d : d = cmd[s]
      OBVIOUS
    <2>1. Given(s, d) /\ Working(d) /\ cmd'[s] = d
      BY <1>2 DEF PlacementInv
    <2>2. CASE d.pc \in {"idle", "lock"}
      <3>1. Working(d)'
        BY <2>2, Waits DEF Working, Knows, Fits, Puts
      <3>2. Given(s, d)'
        BY <2>1, <2>2 DEF Given, Paths
      <3> QED BY <2>1, <3>1, <3>2
    <2>3. CASE d.pc \notin {"idle", "lock"}
      <3>1. lock = s /\ lock # r /\ lock # Nothing
        BY <2>1, <2>3, PlacementAssumption DEF Given
      <3>2. lock' = lock /\ UNCHANGED <<disk, linked, db, record>>
        BY <3>1
      <3>3. Working(d)'
        BY <2>1, <3>2, Unmoved
      <3>4. Given(s, d)'
        BY <2>1, <3>2 DEF Given, Paths
      <3> QED BY <2>1, <3>3, <3>4
    <2> QED BY <2>2, <2>3
  <1>5. ASSUME NEW s \in Run
        PROVE  Given(s, cmd[s])' /\ Working(cmd[s])'
    <2>1. CASE s = r
      BY <1>2, <2>1
    <2>2. CASE s # r
      BY <1>4, <2>2
    <2> QED BY <2>1, <2>2
  <1> QED BY <1>3, <1>5 DEF PlacementInv

LEMMA CommandIs ==
    ASSUME PlacementInv, NEW r \in Run
    PROVE  /\ cmd[r] \in Orders /\ Given(r, cmd[r]) /\ Working(cmd[r])
           /\ db \in [Package -> Version \cup {0}] /\ record \in Records
           /\ lock \in Run \cup {Nothing}
  BY DEF PlacementInv, PlacementTyped

LEMMA EndsKeeps ==
    ASSUME PlacementInv, NEW r \in Run, Ends(r),
           lock = r \/ UNCHANGED <<disk, linked, db, record>>,
           db' \in [Package -> Version \cup {0}], record' \in Records
    PROVE  PlacementInv'
  <1>1. Becomes(r, Idle)
    BY DEF Ends
  <1>2. lock' \in Run \cup {Nothing} /\ (lock = r \/ lock' = lock)
    BY CommandIs DEF Ends
  <1>3. Working(Idle)'
    BY IdleIs DEF Working, Knows, Fits, Puts
  <1>4. Given(r, Idle)'
    BY IdleIs DEF Given
  <1> QED BY <1>1, <1>2, <1>3, <1>4, IdleIs, StepKeeps

LEMMA LoadKeeps ==
    ASSUME PlacementInv, NEW r \in Run, NEW verb \in {"install", "upgrade", "remove"},
           NEW p \in Package, NEW v \in Version, NEW at \in Targets \cup {Nothing},
           Load(r, verb, p, v, at)
    PROVE  PlacementInv'
  <1> PICK c : c = [pc |-> "lock", verb |-> verb, pkg |-> p, ver |-> v, at |-> at,
                    known |-> record, fresh |-> Fresh, todo |-> {}, stale |-> FALSE]
    OBVIOUS
  <1>1. Fresh \in SUBSET Package
    BY CommandIs, RecordsAre DEF Fresh
  <1>2. c \in Orders /\ c.pc = "lock" /\ c.verb = verb /\ c.pkg = p /\ c.ver = v
    BY <1>1, CommandIs DEF Orders
  <1>3. Becomes(r, c) /\ UNCHANGED <<disk, linked, db, record, lock>> /\ Paths(p, v) # {}
    BY DEF Load
  <1>4. Given(r, c)'
    BY <1>2, <1>3 DEF Given, Paths
  <1>5. Working(c)'
    BY <1>2 DEF Working, Knows, Fits, Puts
  <1> QED BY <1>2, <1>3, <1>4, <1>5, CommandIs, StepKeeps

LEMMA LockKeeps ==
    ASSUME PlacementInv, NEW r \in Run, Lock(r)
    PROVE  PlacementInv'
  <1> PICK c \in Orders : c = cmd[r]
    BY CommandIs
  <1>1. c.pc = "lock" /\ UNCHANGED <<disk, linked, db, record>>
    BY DEF Lock
  <1>2. CASE lock # Nothing
    BY <1>1, <1>2, CommandIs, EndsKeeps DEF Lock
  <1>3. CASE lock = Nothing
    <2> PICK stale : stale = (c.stale \/ ~ StillSo(c))
      OBVIOUS
    <2> PICK d : d = [c EXCEPT !.pc = c.verb, !.stale = stale]
      OBVIOUS
    <2>1. Becomes(r, d) /\ lock' = r
      BY <1>3 DEF Lock
    <2>2. c.verb \in {"install", "upgrade", "remove"} /\ stale \in BOOLEAN
      BY <1>1, CommandIs DEF Given
    <2>3. /\ d \in Orders /\ d.pc = c.verb /\ d.verb = c.verb /\ d.pkg = c.pkg /\ d.ver = c.ver
          /\ d.known = c.known /\ d.stale = stale
      BY <2>2 DEF Orders
    <2>4. Given(r, d)'
      BY <1>1, <2>1, <2>2, <2>3, CommandIs DEF Given, Paths
    <2>5. ASSUME ~ stale
          PROVE  Working(d)
      <3>1. c.known = record /\ Stands(c.pkg)
        BY <2>5 DEF StillSo
      <3>2. c.pkg \in DOMAIN record /\ db[c.pkg] # 0 => Fitting(record, c.pkg, db[c.pkg])
        BY <3>1 DEF Stands, PlacementCheck, Fitting
      <3> QED BY <2>2, <2>3, <3>1, <3>2 DEF Working, Knows, Fits, Puts
    <2>6. Working(d)'
      <3>1. Working(d)
        BY <2>3, <2>5 DEF Working
      <3> QED BY <1>1, <3>1, Unmoved
    <2> QED BY <1>1, <1>3, <2>1, <2>3, <2>4, <2>6, CommandIs, StepKeeps
  <1> QED BY <1>2, <1>3

(* What a command that works has of the lock. *)
LEMMA HasLock ==
    ASSUME PlacementInv, NEW r \in Run, cmd[r].pc \notin {"idle", "lock"}
    PROVE  lock = r
  BY CommandIs DEF Given

LEMMA ApplyKeeps ==
    ASSUME PlacementInv, NEW r \in Run, cmd[r].pc \in {"install", "upgrade"},
           NEW known \in Records, Apply(r, known), UNCHANGED <<disk, linked, db, record>>,
           cmd[r].pc = "install" => db[cmd[r].pkg] = 0,
           ~ cmd[r].stale =>
              \/ known = record
              \/ /\ cmd[r].known = record /\ cmd[r].pc = "install"
                 /\ cmd[r].pkg \notin DOMAIN record
                 /\ DOMAIN known = DOMAIN record \cup {cmd[r].pkg}
                 /\ \A q \in DOMAIN record : known[q] = record[q]
    PROVE  PlacementInv'
  <1> PICK c \in Orders : c = cmd[r]
    BY CommandIs
  <1> PICK fresh : fresh = c.fresh \cup (DOMAIN known \ DOMAIN c.known)
    OBVIOUS
  <1> PICK missing : missing = {f \in Paths(c.pkg, c.ver) : Physical(known, f) \notin DOMAIN disk}
    OBVIOUS
  <1>1. CASE ~ /\ PlacementCheck(known, fresh, c.pkg, c.ver)
               /\ \A f \in Paths(c.pkg, c.ver) : ~ InTheWay(c, known, f)
    <2>1. Ends(r)
      BY <1>1 DEF Apply
    <2> QED BY <2>1, CommandIs, EndsKeeps
  <1>2. CASE /\ PlacementCheck(known, fresh, c.pkg, c.ver)
             /\ \A f \in Paths(c.pkg, c.ver) : ~ InTheWay(c, known, f)
    <2> PICK d : d = [c EXCEPT !.pc = "save", !.known = known, !.fresh = fresh, !.todo = missing]
      OBVIOUS
    <2>1. Becomes(r, d) /\ lock' = lock
      BY <1>2 DEF Apply
    <2>2. /\ c.verb \in {"install", "upgrade", "remove"} /\ c.pkg \in Package
          /\ c.ver \in Version /\ Paths(c.pkg, c.ver) # {} /\ lock = r
      BY CommandIs DEF Given
    <2>3. fresh \in SUBSET Package /\ missing \in SUBSET Seq(STRING)
      BY <2>2, PathsAre, RecordsAre DEF Orders
    <2>4. /\ d \in Orders /\ d.pc = "save" /\ d.verb = c.verb /\ d.pkg = c.pkg /\ d.ver = c.ver
          /\ d.known = known /\ d.fresh = fresh /\ d.todo = missing /\ d.stale = c.stale
      BY <2>3 DEF Orders
    <2>5. Given(r, d)'
      BY <2>1, <2>2, <2>4 DEF Given, Paths
    <2>6. ASSUME ~ c.stale
          PROVE  Knows(d) /\ Fits(d) /\ Puts(d)
      <3>1. Knows(d)
        BY <2>2, <2>4, <2>6 DEF Knows, Grown
      <3>2. Fitting(known, c.pkg, c.ver)
        BY <1>2 DEF PlacementCheck, Fitting
      <3>3. c.pkg \in DOMAIN known /\ db[c.pkg] # 0 => Fitting(known, c.pkg, db[c.pkg])
        <4>1. ASSUME db[c.pkg] # 0
              PROVE  c.pc = "upgrade" /\ known = record /\ c.known = record
          BY <2>6, <4>1, CommandIs DEF Working, Knows
        <4> QED BY <2>6, <4>1, CommandIs DEF Working, Fits
      <3>4. Fits(d)
        BY <2>4, <3>2, <3>3 DEF Fits
      <3>5. ASSUME NEW f \in Paths(c.pkg, c.ver) \ missing
            PROVE  Its(d, f)
        BY <1>2, <2>4 DEF InTheWay, Its
      <3>6. Puts(d)
        BY <2>4, <3>5 DEF Puts
      <3> QED BY <3>1, <3>4, <3>6
    <2>7. Working(d)'
      <3>1. Working(d)
        BY <2>4, <2>6 DEF Working
      <3> QED BY <3>1, Unmoved
    <2> QED BY <2>1, <2>2, <2>4, <2>5, <2>7, CommandIs, StepKeeps
  <1> QED BY <1>1, <1>2

(* A destination asked for is no place of the root. *)
LEMMA PlacedFits ==
    ASSUME NEW c \in Orders, c.pkg \in Package, c.ver \in Version, Paths(c.pkg, c.ver) # {},
           c.at \in Targets, Prepare(c)
    PROVE  Placed(c) \in Places
  <1> PICK at \in Seq(STRING) : at = c.at
    BY PlacementAssumption
  <1> PICK canonical : canonical = Resolve(at)
    OBVIOUS
  <1> PICK prefix \in Seq(STRING) : prefix = Common(c.pkg, c.ver)
    BY CommonIs
  <1> PICK pl : pl = [prefix |-> prefix, parent |-> canonical]
    OBVIOUS
  <1>1. canonical \in Seq(STRING)
    <2>1. CASE linked /\ IsPrefix(Alias, at)
      <3>1. Len(Alias) \in Nat /\ Len(at) \in Nat
        BY ConstantPaths, PathIs
      <3>2. PICK rest : rest = SubSeq(at, Len(Alias) + 1, Len(at))
        OBVIOUS
      <3>3. rest \in Seq(STRING)
        BY <3>1, <3>2, PartIs
      <3>4. canonical = Elsewhere \o rest
        BY <2>1, <3>2 DEF Resolve
      <3> QED BY <3>3, <3>4, ConstantPaths, JoinIs
    <2>2. CASE ~ (linked /\ IsPrefix(Alias, at))
      BY <2>2 DEF Resolve
    <2> QED BY <2>1, <2>2
  <1>2. /\ ~ IsPrefix(Root, canonical) /\ prefix # <<>> /\ ~ Exists(Drawer(pl))
    BY DEF Prepare
  <1>3. ~ IsPrefix(Drawer(pl), Root)
    BY <1>2 DEF Exists
  <1>4. pl \in Places
    BY <1>1, <1>2, <1>3 DEF Places
  <1>5. Placed(c) = pl
    BY DEF Placed
  <1> QED BY <1>4, <1>5

LEMMA InstallKeeps ==
    ASSUME PlacementInv, NEW r \in Run, Install(r)
    PROVE  PlacementInv'
  <1> PICK c \in Orders : c = cmd[r]
    BY CommandIs
  <1>1. /\ c.pc = "install" /\ UNCHANGED <<disk, linked, db, record>> /\ lock = r
        /\ c.pkg \in Package /\ c.ver \in Version /\ Paths(c.pkg, c.ver) # {}
    BY CommandIs DEF Install, Given
  <1>2. ~ c.stale => c.known = record
    BY <1>1, CommandIs DEF Working, Knows
  <1>3. CASE Ends(r)
    BY <1>1, <1>3, CommandIs, EndsKeeps
  <1>4. CASE db[c.pkg] = 0 /\ Apply(r, c.known)
    BY <1>1, <1>2, <1>4, ApplyKeeps DEF Orders
  <1>5. CASE /\ db[c.pkg] = 0 /\ c.pkg \notin DOMAIN c.known /\ c.at # Nothing /\ Prepare(c)
             /\ Apply(r, [q \in DOMAIN c.known \cup {c.pkg} |->
                            IF q = c.pkg THEN Placed(c) ELSE c.known[q]])
    <2> PICK known : known = [q \in DOMAIN c.known \cup {c.pkg} |->
                                IF q = c.pkg THEN Placed(c) ELSE c.known[q]]
      OBVIOUS
    <2>1. Placed(c) \in Places
      BY <1>1, <1>5, PlacedFits DEF Orders
    <2>2. known \in Records
      <3>1. DOMAIN c.known \subseteq Package /\ \A q \in DOMAIN c.known : c.known[q] \in Places
        BY RecordsAre DEF Orders
      <3>2. known \in [DOMAIN c.known \cup {c.pkg} -> Places]
        BY <2>1, <3>1
      <3>3. DOMAIN c.known \cup {c.pkg} \in SUBSET Package
        BY <1>1, <3>1
      <3> QED BY <3>2, <3>3 DEF Records
    <2>3. Apply(r, known)
      BY <1>5
    <2>4. ~ c.stale =>
             /\ c.known = record /\ c.pkg \notin DOMAIN record
             /\ DOMAIN known = DOMAIN record \cup {c.pkg}
             /\ \A q \in DOMAIN record : known[q] = record[q]
      BY <1>2, <1>5
    <2> QED BY <1>1, <1>5, <2>2, <2>3, <2>4, ApplyKeeps
  <1> QED BY <1>1, <1>3, <1>4, <1>5 DEF Install

LEMMA UpgradeKeeps ==
    ASSUME PlacementInv, NEW r \in Run, Upgrade(r)
    PROVE  PlacementInv'
  <1>1. /\ cmd[r].pc = "upgrade" /\ UNCHANGED <<disk, linked, db, record>> /\ lock = r
    BY CommandIs DEF Upgrade, Given
  <1>2. ~ cmd[r].stale => cmd[r].known = record
    BY <1>1, CommandIs DEF Working, Knows
  <1>3. CASE Ends(r)
    BY <1>1, <1>3, CommandIs, EndsKeeps
  <1>4. CASE Apply(r, cmd[r].known)
    BY <1>1, <1>2, <1>4, CommandIs, ApplyKeeps DEF Orders
  <1> QED BY <1>3, <1>4 DEF Upgrade

(* While no link moves, a path stays where it is, and a version that fits. *)
LEMMA PhysicalSame ==
    ASSUME NEW known, NEW f, UNCHANGED linked
    PROVE  Physical(known, f)' = Physical(known, f)
  BY DEF Physical, Installed, Resolve

LEMMA FittingSame ==
    ASSUME NEW known, NEW p, NEW v, UNCHANGED linked
    PROVE  Fitting(known, p, v)' <=> Fitting(known, p, v)
  BY DEF Fitting, Layout, SafeFile, Paths, Physical, Installed, Resolve

LEMMA FitsOn ==
    ASSUME NEW c, NEW d, UNCHANGED <<linked, db>>, Fits(c),
           c.pc \in {"save", "place", "drop"}, d.pc \in {"place", "drop"},
           d.known = c.known, d.pkg = c.pkg, d.ver = c.ver
    PROVE  Fits(d)'
  <1> PICK known : known = c.known
    OBVIOUS
  <1> PICK p : p = c.pkg
    OBVIOUS
  <1> PICK v : v = c.ver
    OBVIOUS
  <1> PICK w : w = db[p]
    OBVIOUS
  <1>1. Fitting(known, p, v) /\ (p \in DOMAIN known /\ w # 0 => Fitting(known, p, w))
    BY DEF Fits
  <1>2. Fitting(known, p, v)' /\ (p \in DOMAIN known /\ w # 0 => Fitting(known, p, w)')
    BY <1>1, FittingSame
  <1>3. db' = db
    OBVIOUS
  <1> QED BY <1>2, <1>3 DEF Fits

(* A command under the lock goes on to another of its steps. *)
LEMMA GoesOn ==
    ASSUME PlacementInv, NEW r \in Run, cmd[r].pc \notin {"idle", "lock"},
           NEW d \in Orders, d.pc \notin {"idle", "lock"}, d.verb = cmd[r].verb,
           d.pkg = cmd[r].pkg, d.ver = cmd[r].ver, Becomes(r, d), lock' = lock,
           db' \in [Package -> Version \cup {0}], record' \in Records, Working(d)'
    PROVE  PlacementInv'
  <1>1. lock = r /\ lock' = r
    BY HasLock
  <1>2. Given(r, d)'
    BY <1>1, CommandIs DEF Given, Paths
  <1> QED BY <1>1, <1>2, StepKeeps

LEMMA SaveKeeps ==
    ASSUME PlacementInv, NEW r \in Run, Save(r)
    PROVE  PlacementInv'
  <1> PICK c \in Orders : c = cmd[r]
    BY CommandIs
  <1> PICK d : d = [c EXCEPT !.pc = "place"]
    OBVIOUS
  <1>1. /\ c.pc = "save" /\ Becomes(r, d) /\ UNCHANGED <<disk, linked, db, lock>>
        /\ record' = IF c.pkg \in DOMAIN c.known /\ c.pkg \in c.fresh
                     THEN [q \in DOMAIN record \cup {c.pkg} |->
                             IF q = c.pkg THEN c.known[q] ELSE record[q]]
                     ELSE record
    BY DEF Save
  <1>2. /\ d \in Orders /\ d.pc = "place" /\ d.verb = c.verb /\ d.pkg = c.pkg /\ d.ver = c.ver
        /\ d.known = c.known /\ d.todo = c.todo /\ d.stale = c.stale
    BY DEF Orders
  <1>3. c.known \in Records /\ record \in Records /\ c.pkg \in Package
    BY <1>1, CommandIs DEF Orders, Given
  <1>4. record' \in Records
    <2>1. CASE c.pkg \in DOMAIN c.known /\ c.pkg \in c.fresh
      <3>1. c.known[c.pkg] \in Places /\ \A q \in DOMAIN record : record[q] \in Places
        BY <1>3, <2>1, RecordsAre
      <3>2. record' \in [DOMAIN record \cup {c.pkg} -> Places]
        BY <1>1, <2>1, <3>1
      <3>3. DOMAIN record \cup {c.pkg} \in SUBSET Package
        BY <1>3, RecordsAre
      <3> QED BY <3>2, <3>3 DEF Records
    <2>2. CASE ~ (c.pkg \in DOMAIN c.known /\ c.pkg \in c.fresh)
      BY <1>1, <1>3, <2>2
    <2> QED BY <2>1, <2>2
  <1>5. ASSUME ~ c.stale
        PROVE  c.known = record'
    <2>1. c.known = record \/ Grown(c)
      BY <1>1, <1>5, CommandIs DEF Working, Knows
    <2>2. /\ c.known \in [DOMAIN c.known -> Places] /\ record \in [DOMAIN record -> Places]
      BY <1>3 DEF Records
    <2>3. CASE c.known = record
      <3>1. CASE c.pkg \in DOMAIN c.known /\ c.pkg \in c.fresh
        <4>1. record' = [q \in DOMAIN record |-> record[q]]
          <5>1. DOMAIN record \cup {c.pkg} = DOMAIN record
            BY <2>3, <3>1
          <5> QED BY <1>1, <2>3, <3>1, <5>1
        <4> QED BY <2>2, <2>3, <4>1
      <3>2. CASE ~ (c.pkg \in DOMAIN c.known /\ c.pkg \in c.fresh)
        BY <1>1, <2>3, <3>2
      <3> QED BY <3>1, <3>2
    <2>4. CASE Grown(c)
      <3>1. /\ c.pkg \in DOMAIN c.known /\ c.pkg \in c.fresh
            /\ DOMAIN c.known = DOMAIN record \cup {c.pkg}
            /\ \A q \in DOMAIN record : c.known[q] = record[q]
        BY <2>4 DEF Grown
      <3>2. record' = [q \in DOMAIN c.known |-> c.known[q]]
        BY <1>1, <3>1
      <3> QED BY <2>2, <3>2
    <2> QED BY <2>1, <2>3, <2>4
  <1>6. Working(d)'
    <2>1. CASE c.stale
      BY <1>2, <2>1 DEF Working
    <2>2. CASE ~ c.stale
      <3>1. Fits(c) /\ Puts(c)
        BY <2>2, CommandIs DEF Working
      <3>2. Knows(d)'
        BY <1>2, <1>5, <2>2 DEF Knows
      <3>3. Fits(d)'
        BY <1>1, <1>2, <3>1, FitsOn
      <3>4. Puts(d)'
        <4>1. /\ c.todo \subseteq Paths(c.pkg, c.ver)
              /\ \A g \in Paths(c.pkg, c.ver) \ c.todo : Its(c, g)
          BY <1>1, <3>1 DEF Puts
        <4>2. \A g : Physical(c.known, g)' = Physical(c.known, g)
          BY <1>1, PhysicalSame
        <4>3. Paths(c.pkg, c.ver)' = Paths(c.pkg, c.ver)
          BY DEF Paths
        <4> QED BY <1>1, <1>2, <4>1, <4>2, <4>3 DEF Puts, Its
      <3> QED BY <3>2, <3>3, <3>4 DEF Working
    <2> QED BY <2>1, <2>2
  <1> QED BY <1>1, <1>2, <1>4, <1>6, CommandIs, GoesOn

(* What is placed is its command's, and what was its stays. *)
LEMMA PlaceKeeps ==
    ASSUME PlacementInv, NEW r \in Run, Place(r)
    PROVE  PlacementInv'
  <1> PICK c \in Orders : c = cmd[r]
    BY CommandIs
  <1> PICK f : f = First(c.todo)
    OBVIOUS
  <1> PICK x : x = Physical(c.known, f)
    OBVIOUS
  <1> PICK d : d = [c EXCEPT !.todo = c.todo \ {f}]
    OBVIOUS
  <1>1. /\ c.pc = "place" /\ c.todo # {} /\ Becomes(r, d)
        /\ UNCHANGED <<linked, db, record, lock>>
        /\ disk' = [y \in DOMAIN disk \cup {x} |-> IF y = x THEN c.pkg ELSE disk[y]]
    BY DEF Place
  <1>2. /\ d \in Orders /\ d.pc = "place" /\ d.verb = c.verb /\ d.pkg = c.pkg /\ d.ver = c.ver
        /\ d.known = c.known /\ d.todo = c.todo \ {f} /\ d.stale = c.stale
    BY <1>1 DEF Orders
  <1>3. Working(d)'
    <2>1. CASE c.stale
      BY <1>2, <2>1 DEF Working
    <2>2. CASE ~ c.stale
      <3>1. Knows(c) /\ Fits(c) /\ Puts(c)
        BY <2>2, CommandIs DEF Working
      <3>2. Knows(d)'
        BY <1>1, <1>2, <3>1 DEF Knows
      <3>3. Fits(d)'
        BY <1>1, <1>2, <3>1, FitsOn
      <3>4. /\ c.todo \subseteq Paths(c.pkg, c.ver)
            /\ \A g \in Paths(c.pkg, c.ver) \ c.todo : Its(c, g)
        BY <1>1, <3>1 DEF Puts
      <3>5. ASSUME NEW g \in Paths(c.pkg, c.ver) \ (c.todo \ {f})
            PROVE  /\ Physical(c.known, g) \in DOMAIN disk'
                   /\ disk'[Physical(c.known, g)] = c.pkg
        <4>1. CASE g = f
          BY <1>1, <4>1
        <4>2. CASE g # f
          <5>1. Its(c, g)
            BY <3>4, <4>2
          <5> QED BY <1>1, <5>1 DEF Its
        <4> QED BY <4>1, <4>2
      <3>6. Puts(d)'
        <4>1. \A g : Physical(c.known, g)' = Physical(c.known, g)
          BY <1>1, PhysicalSame
        <4>2. Paths(c.pkg, c.ver)' = Paths(c.pkg, c.ver)
          BY DEF Paths
        <4> QED BY <1>2, <3>4, <3>5, <4>1, <4>2 DEF Puts, Its
      <3> QED BY <3>2, <3>3, <3>6 DEF Working
    <2> QED BY <2>1, <2>2
  <1> QED BY <1>1, <1>2, <1>3, CommandIs, GoesOn

LEMMA EndPlaceKeeps ==
    ASSUME PlacementInv, NEW r \in Run, EndPlace(r)
    PROVE  PlacementInv'
  <1> PICK c \in Orders : c = cmd[r]
    BY CommandIs
  <1> PICK todo : todo = Deleting(c.known, c.pkg, Paths(c.pkg, db[c.pkg]) \ Paths(c.pkg, c.ver))
    OBVIOUS
  <1> PICK d : d = [c EXCEPT !.pc = "drop", !.todo = todo]
    OBVIOUS
  <1>1. /\ c.pc = "place" /\ c.todo = {} /\ Becomes(r, d)
        /\ UNCHANGED <<disk, linked, db, record, lock>>
    BY DEF EndPlace
  <1>2. c.pkg \in Package /\ db[c.pkg] \in Version \cup {0}
    BY <1>1, CommandIs DEF Given
  <1>3. todo \subseteq Paths(c.pkg, db[c.pkg]) \ Paths(c.pkg, c.ver) /\ todo \in SUBSET Seq(STRING)
    BY <1>2, PathsAre DEF Deleting
  <1>4. /\ d \in Orders /\ d.pc = "drop" /\ d.verb = c.verb /\ d.pkg = c.pkg /\ d.ver = c.ver
        /\ d.known = c.known /\ d.todo = todo /\ d.stale = c.stale
    BY <1>3 DEF Orders
  <1>5. ASSUME ~ c.stale
        PROVE  Knows(d) /\ Fits(d) /\ Puts(d)
    <2>1. Knows(c) /\ Fits(c) /\ Puts(c)
      BY <1>5, CommandIs DEF Working
    <2>2. Knows(d)
      BY <1>1, <1>4, <2>1 DEF Knows
    <2>3. Fits(d)
      BY <1>1, <1>4, <2>1 DEF Fits
    <2>4. \A g \in Paths(c.pkg, c.ver) : Its(c, g)
      BY <1>1, <2>1 DEF Puts
    <2>5. Puts(d)
      BY <1>3, <1>4, <2>4 DEF Puts, Its
    <2> QED BY <2>2, <2>3, <2>5
  <1>6. Working(d)'
    <2>1. Working(d)
      BY <1>4, <1>5 DEF Working
    <2> QED BY <1>1, <2>1, Unmoved
  <1> QED BY <1>1, <1>4, <1>6, CommandIs, GoesOn

(* What an upgrade deletes is nowhere a file of the new version is. *)
LEMMA DeleteKeeps ==
    ASSUME PlacementInv, NEW r \in Run, Delete(r)
    PROVE  PlacementInv'
  <1> PICK c \in Orders : c = cmd[r]
    BY CommandIs
  <1> PICK f : f = First(c.todo)
    OBVIOUS
  <1> PICK x : x = Physical(c.known, f)
    OBVIOUS
  <1> PICK d : d = [c EXCEPT !.todo = c.todo \ {f}]
    OBVIOUS
  <1>1. /\ c.pc \in {"drop", "delete"} /\ c.todo # {} /\ Becomes(r, d)
        /\ UNCHANGED <<linked, db, record, lock>>
        /\ disk' = IF x \in DOMAIN disk /\ disk[x] = c.pkg
                   THEN [y \in DOMAIN disk \ {x} |-> disk[y]] ELSE disk
    BY DEF Delete
  <1>2. /\ d \in Orders /\ d.pc = c.pc /\ d.verb = c.verb /\ d.pkg = c.pkg /\ d.ver = c.ver
        /\ d.known = c.known /\ d.todo = c.todo \ {f} /\ d.stale = c.stale
    BY <1>1 DEF Orders
  <1>3. c.pkg \in Package /\ c.ver \in Version /\ db[c.pkg] \in Version \cup {0}
    BY <1>1, CommandIs DEF Given
  <1>4. f \in c.todo
    BY <1>1 DEF First
  <1>5. ASSUME ~ c.stale, c.pc = "drop"
        PROVE  Working(d)'
    <2>1. Knows(c) /\ Fits(c) /\ Puts(c)
      BY <1>5, CommandIs DEF Working
    <2>2. Knows(d)'
      BY <1>1, <1>2, <1>5, <2>1 DEF Knows
    <2>3. Fits(d)'
      BY <1>1, <1>2, <1>5, <2>1, FitsOn
    <2>4. /\ c.todo \subseteq Paths(c.pkg, db[c.pkg]) \ Paths(c.pkg, c.ver)
          /\ \A g \in Paths(c.pkg, c.ver) : Its(c, g)
      BY <1>5, <2>1 DEF Puts
    <2>5. /\ Fitting(c.known, c.pkg, c.ver)
          /\ c.pkg \in DOMAIN c.known /\ db[c.pkg] # 0 => Fitting(c.known, c.pkg, db[c.pkg])
      BY <1>5, <2>1 DEF Fits
    <2>6. db[c.pkg] # 0
      BY <1>4, <2>4 DEF Paths
    <2>7. ASSUME NEW g \in Paths(c.pkg, c.ver)
          PROVE  Physical(c.known, g) \in DOMAIN disk' /\ disk'[Physical(c.known, g)] = c.pkg
      <3>1. f \in Paths(c.pkg, db[c.pkg]) /\ f # g
        BY <1>4, <2>4
      <3>2. Physical(c.known, f) # Physical(c.known, g)
        BY <1>3, <2>5, <2>6, <3>1, PlacesDiffer DEF Orders
      <3>3. Physical(c.known, g) \in DOMAIN disk /\ disk[Physical(c.known, g)] = c.pkg
        BY <2>4 DEF Its
      <3> QED BY <1>1, <3>2, <3>3
    <2>8. Puts(d)'
      <3>1. \A g : Physical(c.known, g)' = Physical(c.known, g)
        BY <1>1, PhysicalSame
      <3>2. db' = db /\ \A p, v : Paths(p, v)' = Paths(p, v)
        BY <1>1 DEF Paths
      <3>3. \A g \in Paths(c.pkg, c.ver) : Its(d, g)'
        BY <1>2, <2>7, <3>1 DEF Its
      <3>4. Paths(c.pkg, c.ver)' = Paths(c.pkg, c.ver)
            /\ Paths(c.pkg, db[c.pkg])' = Paths(c.pkg, db[c.pkg])
        BY <3>2 DEF Paths
      <3> QED BY <1>2, <1>5, <2>4, <3>3, <3>4 DEF Puts
    <2> QED BY <2>2, <2>3, <2>8 DEF Working
  <1>6. Working(d)'
    <2>1. CASE c.pc = "delete"
      BY <1>2, <2>1 DEF Working, Knows, Fits, Puts
    <2>2. CASE c.stale
      BY <1>2, <2>2 DEF Working
    <2> QED BY <1>1, <1>5, <2>1, <2>2
  <1>7. db' \in [Package -> Version \cup {0}] /\ record' \in Records
    BY <1>1, CommandIs
  <1> QED BY <1>1, <1>2, <1>6, <1>7, GoesOn

LEMMA CommitKeeps ==
    ASSUME PlacementInv, NEW r \in Run, Commit(r)
    PROVE  PlacementInv'
  <1> PICK c \in Orders : c = cmd[r]
    BY CommandIs
  <1>1. c.pc = "drop" /\ Ends(r) /\ record' = record /\ db' = [db EXCEPT ![c.pkg] = c.ver]
    BY DEF Commit
  <1>2. lock = r
    BY <1>1, HasLock
  <1>3. db' \in [Package -> Version \cup {0}]
    BY <1>1, CommandIs DEF Orders
  <1> QED BY <1>1, <1>2, <1>3, CommandIs, EndsKeeps

LEMMA RemovePackageKeeps ==
    ASSUME PlacementInv, NEW r \in Run, RemovePackage(r)
    PROVE  PlacementInv'
  <1> PICK c \in Orders : c = cmd[r]
    BY CommandIs
  <1>1. c.pc = "remove" /\ UNCHANGED <<disk, linked, db, record>>
    BY DEF RemovePackage
  <1>2. CASE Ends(r)
    BY <1>1, <1>2, CommandIs, EndsKeeps
  <1>3. CASE ~ Ends(r)
    <2> PICK todo : todo = Deleting(c.known, c.pkg, Paths(c.pkg, db[c.pkg]))
      OBVIOUS
    <2> PICK d : d = [c EXCEPT !.pc = "delete", !.todo = todo]
      OBVIOUS
    <2>1. Becomes(r, d) /\ lock' = lock
      BY <1>3 DEF RemovePackage
    <2>2. c.pkg \in Package /\ db[c.pkg] \in Version \cup {0}
      BY <1>1, CommandIs DEF Given
    <2>3. todo \in SUBSET Seq(STRING)
      BY <2>2, PathsAre DEF Deleting
    <2>4. /\ d \in Orders /\ d.pc = "delete" /\ d.verb = c.verb /\ d.pkg = c.pkg /\ d.ver = c.ver
      BY <2>3 DEF Orders
    <2>5. Working(d)'
      BY <2>4 DEF Working, Knows, Fits, Puts
    <2>6. db' \in [Package -> Version \cup {0}] /\ record' \in Records
      BY <1>1, CommandIs
    <2> QED BY <1>1, <2>1, <2>4, <2>5, <2>6, GoesOn
  <1> QED BY <1>2, <1>3

LEMMA UnlistKeeps ==
    ASSUME PlacementInv, NEW r \in Run, Unlist(r)
    PROVE  PlacementInv'
  <1> PICK c \in Orders : c = cmd[r]
    BY CommandIs
  <1> PICK d : d = [c EXCEPT !.pc = "forget"]
    OBVIOUS
  <1>1. /\ c.pc = "delete" /\ Becomes(r, d) /\ lock' = lock /\ record' = record
        /\ db' = [db EXCEPT ![c.pkg] = 0]
    BY DEF Unlist
  <1>2. /\ d \in Orders /\ d.pc = "forget" /\ d.verb = c.verb /\ d.pkg = c.pkg /\ d.ver = c.ver
    BY DEF Orders
  <1>3. db' \in [Package -> Version \cup {0}] /\ record' \in Records
    BY <1>1, CommandIs
  <1>4. Working(d)'
    BY <1>2 DEF Working, Knows, Fits, Puts
  <1> QED BY <1>1, <1>2, <1>3, <1>4, GoesOn

LEMMA ForgetKeeps ==
    ASSUME PlacementInv, NEW r \in Run, Forget(r)
    PROVE  PlacementInv'
  <1> PICK p : p = cmd[r].pkg
    OBVIOUS
  <1>1. /\ cmd[r].pc = "forget" /\ Ends(r) /\ UNCHANGED <<disk, linked, db>>
        /\ record' = [q \in DOMAIN record \ {p} |-> record[q]]
    BY DEF Forget
  <1>2. lock = r
    BY <1>1, HasLock
  <1>3. record' \in Records
    <2>1. DOMAIN record \subseteq Package /\ \A q \in DOMAIN record : record[q] \in Places
      BY CommandIs, RecordsAre
    <2>2. DOMAIN record \ {p} \in SUBSET Package /\ record' \in [DOMAIN record \ {p} -> Places]
      BY <1>1, <2>1
    <2> QED BY <2>2 DEF Records
  <1> QED BY <1>1, <1>2, <1>3, CommandIs, EndsKeeps

LEMMA CutKeeps ==
    ASSUME PlacementInv, NEW r \in Run, Cut(r)
    PROVE  PlacementInv'
  <1>1. Ends(r) /\ UNCHANGED <<disk, linked, db, record>>
    BY DEF Cut
  <1> QED BY <1>1, CommandIs, EndsKeeps

(* A command another's link surprised is asked nothing any more. *)
LEMMA RelinkKeeps ==
    ASSUME PlacementInv, Relink
    PROVE  PlacementInv'
  <1>1. /\ UNCHANGED <<disk, db, record, lock>>
        /\ cmd' = [r \in Run |-> IF cmd[r].pc = "idle" THEN Idle ELSE [cmd[r] EXCEPT !.stale = TRUE]]
    BY DEF Relink
  <1>2. ASSUME NEW r \in Run
        PROVE  cmd'[r] \in Orders /\ Given(r, cmd[r])' /\ Working(cmd[r])'
    <2> PICK c \in Orders : c = cmd[r]
      BY CommandIs
    <2>1. CASE c.pc = "idle"
      <3>1. cmd'[r] = Idle
        BY <1>1, <2>1
      <3>2. Given(r, Idle)' /\ Working(Idle)'
        BY IdleIs DEF Given, Working, Knows, Fits, Puts
      <3> QED BY <3>1, <3>2, IdleIs
    <2>2. CASE c.pc # "idle"
      <3> PICK d : d = [c EXCEPT !.stale = TRUE]
        OBVIOUS
      <3>1. cmd'[r] = d
        BY <1>1, <2>2
      <3>2. /\ d \in Orders /\ d.pc = c.pc /\ d.verb = c.verb /\ d.pkg = c.pkg /\ d.ver = c.ver
            /\ d.stale
        BY DEF Orders
      <3>3. Working(d)'
        BY <3>2 DEF Working
      <3>4. Given(r, d)'
        BY <1>1, <3>2, CommandIs DEF Given, Paths
      <3> QED BY <3>1, <3>2, <3>3, <3>4
    <2> QED BY <2>1, <2>2
  <1>3. PlacementTyped'
    <2>1. cmd' \in [Run -> Orders]
      BY <1>1, <1>2
    <2> QED BY <1>1, <2>1 DEF PlacementInv, PlacementTyped
  <1> QED BY <1>2, <1>3 DEF PlacementInv

LEMMA PlacementStarts == PlacementInit => PlacementInv
  <1> SUFFICES ASSUME PlacementInit
               PROVE  PlacementInv
    OBVIOUS
  <1>1. record \in Records
    BY IdleIs DEF PlacementInit, Idle, Orders
  <1>2. PlacementTyped
    BY <1>1, IdleIs DEF PlacementInit, PlacementTyped
  <1>3. ASSUME NEW r \in Run
        PROVE  Given(r, cmd[r]) /\ Working(cmd[r])
    <2>1. cmd[r] = Idle
      BY DEF PlacementInit
    <2> QED BY <2>1, IdleIs, Waits DEF Given
  <1> QED BY <1>2, <1>3 DEF PlacementInv

LEMMA PlacementStays == PlacementInv /\ [PlacementNext]_placementVars => PlacementInv'
  <1> SUFFICES ASSUME PlacementInv, [PlacementNext]_placementVars
               PROVE  PlacementInv'
    OBVIOUS
  <1>1. ASSUME NEW r \in Run, NEW verb \in {"install", "upgrade", "remove"}, NEW p \in Package,
               NEW v \in Version, NEW at \in Targets \cup {Nothing}, Load(r, verb, p, v, at)
        PROVE  PlacementInv'
    BY <1>1, LoadKeeps
  <1>2. ASSUME NEW r \in Run,
               \/ Lock(r) \/ Install(r) \/ Upgrade(r) \/ Save(r) \/ Place(r) \/ EndPlace(r)
               \/ Delete(r) \/ Commit(r) \/ RemovePackage(r) \/ Unlist(r) \/ Forget(r) \/ Cut(r)
        PROVE  PlacementInv'
    BY <1>2, LockKeeps, InstallKeeps, UpgradeKeeps, SaveKeeps, PlaceKeeps, EndPlaceKeeps,
       DeleteKeeps, CommitKeeps, RemovePackageKeeps, UnlistKeeps, ForgetKeeps, CutKeeps
  <1>3. CASE Relink
    BY <1>3, RelinkKeeps
  <1>4. CASE UNCHANGED placementVars
    <2>1. UNCHANGED <<disk, linked, db, record, lock, cmd>>
      BY <1>4 DEF placementVars
    <2>2. PlacementTyped'
      BY <2>1 DEF PlacementInv, PlacementTyped
    <2>3. ASSUME NEW r \in Run
          PROVE  Given(r, cmd[r])' /\ Working(cmd[r])'
      <3> PICK c : c = cmd[r]
        OBVIOUS
      <3>1. Given(r, c) /\ Working(c) /\ cmd'[r] = c
        BY <2>1, CommandIs
      <3>2. Working(c)'
        BY <2>1, <3>1, Unmoved
      <3>3. Given(r, c)'
        BY <2>1, <3>1 DEF Given, Paths
      <3> QED BY <3>1, <3>2, <3>3
    <2> QED BY <2>2, <2>3 DEF PlacementInv
  <1> QED BY <1>1, <1>2, <1>3, <1>4 DEF PlacementNext

(* Places recorded for others are kept clear, and what is recorded as      *)
(* installed is where it should be, at every step.                         *)
LEMMA ApartStep ==
    ASSUME PlacementInv, [PlacementNext]_placementVars, NEW r \in Run, lock = r, ~ cmd[r].stale
    PROVE  Apart(r)
  <1>1. \A s \in Run : Place(s) \/ Commit(s) => s = r
    BY HasLock DEF Place, Commit
  <1>2. CASE Place(r)
    <2> PICK c \in Orders : c = cmd[r]
      BY CommandIs
    <2> PICK f : f = First(c.todo)
      OBVIOUS
    <2> PICK x : x = Physical(c.known, f)
      OBVIOUS
    <2>1. /\ c.pc = "place" /\ c.todo # {} /\ db' = db
          /\ disk' = [y \in DOMAIN disk \cup {x} |-> IF y = x THEN c.pkg ELSE disk[y]]
      BY <1>2 DEF Place
    <2>2. Knows(c) /\ Fits(c) /\ Puts(c)
      BY CommandIs DEF Working
    <2>3. /\ c.known = record /\ Fitting(c.known, c.pkg, c.ver)
          /\ c.todo \subseteq Paths(c.pkg, c.ver)
      BY <2>1, <2>2 DEF Knows, Fits, Puts
    <2>4. f \in Paths(c.pkg, c.ver)
      BY <2>1, <2>3 DEF First
    <2>5. \A q \in DOMAIN record \ {c.pkg} : ~ IsPrefix(Drawer(record[q]), x)
      BY <2>3, <2>4 DEF Fitting, Meet
    <2>6. DOMAIN disk' \ DOMAIN disk \subseteq {x}
      BY <2>1
    <2> QED BY <2>1, <2>5, <2>6 DEF Apart
  <1>3. CASE Commit(r)
    <2> PICK c \in Orders : c = cmd[r]
      BY CommandIs
    <2>1. /\ c.pc = "drop" /\ c.todo = {} /\ db' = [db EXCEPT ![c.pkg] = c.ver]
          /\ disk' = disk
      BY <1>3 DEF Commit
    <2>2. Knows(c) /\ Fits(c) /\ Puts(c)
      BY CommandIs DEF Working
    <2>3. /\ c.known = record /\ Fitting(c.known, c.pkg, c.ver)
          /\ \A f \in Paths(c.pkg, c.ver) : Its(c, f)
      BY <2>1, <2>2 DEF Knows, Fits, Puts
    <2>4. ASSUME NEW p \in Package, db'[p] \notin {0, db[p]}
          PROVE  p = c.pkg /\ db'[p] = c.ver
      BY <2>1, <2>4, CommandIs
    <2>5. ASSUME NEW f \in Paths(c.pkg, c.ver)
          PROVE  /\ Physical(record, f) \in DOMAIN disk /\ disk[Physical(record, f)] = c.pkg
                 /\ \A q \in DOMAIN record \ {c.pkg} : ~ IsPrefix(record[q].prefix, f)
      BY <2>3 DEF Its, Fitting
    <2>6. ASSUME NEW p \in Package, db'[p] \notin {0, db[p]}, NEW f \in Paths(p, db'[p])
          PROVE  /\ Physical(record, f) \in DOMAIN disk /\ disk[Physical(record, f)] = p
                 /\ \A q \in DOMAIN record \ {p} : ~ IsPrefix(record[q].prefix, f)
      BY <2>4, <2>5, <2>6
    <2>7. \A x \in DOMAIN disk' \ DOMAIN disk : FALSE
      BY <2>1
    <2> QED BY <2>6, <2>7 DEF Apart
  <1>4. CASE ~ (Place(r) \/ Commit(r))
    <2>1. DOMAIN disk' \subseteq DOMAIN disk /\ \A p \in Package : db'[p] \in {0, db[p]}
      <3>1. ASSUME NEW s \in Run, NEW verb \in {"install", "upgrade", "remove"}, NEW p \in Package,
                   NEW v \in Version, NEW at \in Targets \cup {Nothing}, Load(s, verb, p, v, at)
            PROVE  disk' = disk /\ db' = db
        BY <3>1 DEF Load
      <3>2. ASSUME NEW s \in Run,
                   \/ Lock(s) \/ Install(s) \/ Upgrade(s) \/ Save(s) \/ EndPlace(s)
                   \/ RemovePackage(s) \/ Forget(s) \/ Cut(s)
            PROVE  disk' = disk /\ db' = db
        BY <3>2 DEF Lock, Install, Upgrade, Save, EndPlace, RemovePackage, Forget, Cut
      <3>3. ASSUME NEW s \in Run, Delete(s)
            PROVE  DOMAIN disk' \subseteq DOMAIN disk /\ db' = db
        BY <3>3 DEF Delete
      <3>4. ASSUME NEW s \in Run, Unlist(s)
            PROVE  disk' = disk /\ \A p \in Package : db'[p] \in {0, db[p]}
        BY <3>4, CommandIs DEF Unlist
      <3>5. CASE Relink \/ UNCHANGED placementVars
        BY <3>5 DEF Relink, placementVars
      <3>6. ASSUME NEW s \in Run, Place(s) \/ Commit(s)
            PROVE  FALSE
        BY <1>1, <1>4, <3>6
      <3> QED BY <3>1, <3>2, <3>3, <3>4, <3>5, <3>6 DEF PlacementNext
    <2> QED BY <2>1 DEF Apart
  <1> QED BY <1>2, <1>3, <1>4

(* Only the holder of the lock has a step to take; while nothing it read   *)
(* has changed, it knows the records, its version fits them, and each of   *)
(* its files is there or still to be placed.                               *)
THEOREM PlacesKept == PlacementSpec => []PlacementInv
  BY PlacementStarts, PlacementStays, PTL DEF PlacementSpec

(* "Every logical prefix remains exclusive in this root": while what a     *)
(* command read and looked at before the lock is so under it, and no       *)
(* person moved the link since, what it places is in no drawer recorded    *)
(* for another package, and a package it records as installed is where the *)
(* records say, whatever its paths, the placements and the commands.       *)
THEOREM PlacedApartAlways == PlacementSpec => PlacedApart
  <1>1. PlacementInv /\ [PlacementNext]_placementVars =>
          [\A r \in Run : lock = r /\ ~ cmd[r].stale => Apart(r)]_placementVars
    BY ApartStep
  <1> QED BY <1>1, PlacesKept, PTL DEF PlacementSpec, PlacedApart
=============================================================================
