------------------------------ MODULE RootLock ------------------------------
(***************************************************************************)
(* The lock of a root where it is a file: call() of pkg_lib_api.c around   *)
(* pkg_fs_lock_root and pkg_fs_unlock_root of pkg_fs_posix.c, one system   *)
(* call a step.  .pkg/lock is removed while still held, and .pkg with it   *)
(* when nothing else is in it, so a run that opened the file may hold the  *)
(* lock of one that is no longer in the root: it compares the two inodes   *)
(* and tries again.  A killed run drops its lock and leaves the file.      *)
(* What a command does under the lock is the subject of RootChange; here   *)
(* it only leaves records in .pkg or takes the last of them away.          *)
(***************************************************************************)
EXTENDS Naturals

CONSTANTS
    Process,    \* the runs of pkg on one root
    Inode,      \* inode numbers, used again when their file is gone
    None,       \* no inode; no process
    Tries       \* how often the lock is tried: 8 in the source

ASSUME NoneAssumption == None \notin Inode \cup Process
ASSUME TriesAssumption == Tries \in Nat \ {0}

VARIABLES
    root,       \* the root is a directory
    dir,        \* .pkg is there
    kept,       \* .pkg holds records, and so is not removed
    link,       \* the inode of .pkg/lock
    owner,      \* the process whose flock is on an inode
    pc,         \* each process's next call, "idle" between commands
    fd,         \* the inode its descriptor is open on
    tries,      \* the attempts before this one
    said,       \* how its last command ended
    killed      \* observer: some process was killed

files == <<root, dir, kept, link>>
process == <<pc, fd, tries, said>>
vars == <<files, owner, process, killed>>

Calls == {"idle", "isdir", "mkdir", "isdir2", "open", "flock", "check", "work",
          "unlink", "unlock", "rmdir"}

TypeOK ==
    /\ root \in BOOLEAN /\ dir \in BOOLEAN /\ kept \in BOOLEAN
    /\ link \in Inode \cup {None}
    /\ owner \in [Inode -> Process \cup {None}]
    /\ pc \in [Process -> Calls]
    /\ fd \in [Process -> Inode \cup {None}]
    /\ tries \in [Process -> 0 .. Tries - 1]
    /\ said \in [Process -> {"nothing", "done", "busy", "refused"}]
    /\ killed \in BOOLEAN

Init ==
    /\ root \in BOOLEAN
    /\ dir \in BOOLEAN /\ (dir => root)
    /\ kept = dir
    /\ link = None
    /\ owner = [i \in Inode |-> None]
    /\ pc = [p \in Process |-> "idle"]
    /\ fd = [p \in Process |-> None]
    /\ tries = [p \in Process |-> 0]
    /\ said = [p \in Process |-> "nothing"]
    /\ killed = FALSE

(* p may change the root under its lock. *)
Holds(p) == pc[p] \in {"work", "unlink"} /\ fd[p] # None

-----------------------------------------------------------------------------
Go(p, from, to) ==
    /\ pc[p] = from
    /\ pc' = [pc EXCEPT ![p] = to]
    /\ UNCHANGED killed

(* p's descriptor is closed, and its flock goes with it. *)
Close(p) ==
    /\ fd' = [fd EXCEPT ![p] = None]
    /\ owner' = [i \in Inode |-> IF owner[i] = p THEN None ELSE owner[i]]

End(p, how) ==
    /\ said' = [said EXCEPT ![p] = how]
    /\ tries' = [tries EXCEPT ![p] = 0]

(* call(): a command on a root that is no directory yet takes no lock. *)
Begin(p) ==
    /\ Go(p, "idle", IF root THEN "isdir" ELSE "work")
    /\ said' = [said EXCEPT ![p] = "nothing"]
    /\ UNCHANGED <<files, owner, fd, tries>>

(* mkdir_one: the directory is looked for, made, and looked for again when *)
(* it could not be made.                                                   *)
IsDir(p) ==
    /\ Go(p, "isdir", IF dir THEN "open" ELSE "mkdir")
    /\ UNCHANGED <<files, owner, fd, tries, said>>

MakeDir(p) ==
    /\ Go(p, "mkdir", IF dir THEN "isdir2" ELSE "open")
    /\ dir' = TRUE
    /\ UNCHANGED <<root, kept, link, owner, fd, tries, said>>

IsDirNow(p) ==
    /\ \/ dir /\ Go(p, "isdir2", "open") /\ UNCHANGED <<tries, said>>
       \/ ~dir /\ Go(p, "isdir2", "idle") /\ End(p, "refused")
    /\ UNCHANGED <<files, owner, fd>>

(* open(O_CREAT): the file in the root, or a new one. *)
Open(p) ==
    \/ /\ dir
       /\ Go(p, "open", "flock")
       /\ \E i \in Inode :
             /\ \/ i = link
                \/ link = None /\ \A q \in Process : fd[q] # i
             /\ link' = i
             /\ fd' = [fd EXCEPT ![p] = i]
       /\ UNCHANGED <<root, dir, kept, owner, tries, said>>
    \/ /\ ~dir
       /\ Go(p, "open", "idle") /\ End(p, "refused")
       /\ UNCHANGED <<files, owner, fd>>

(* flock(LOCK_EX | LOCK_NB). *)
Flock(p) ==
    \/ /\ Go(p, "flock", "check")
       /\ owner[fd[p]] = None
       /\ owner' = [owner EXCEPT ![fd[p]] = p]
       /\ UNCHANGED <<files, fd, tries, said>>
    \/ /\ Go(p, "flock", "idle")
       /\ owner[fd[p]] # None
       /\ End(p, "busy") /\ Close(p)
       /\ UNCHANGED files

(* fstat and stat: the file locked is the one in the root. *)
SameFile(p) == link = fd[p]

LastTry(p) == tries[p] + 1 = Tries

(* Mutant: an attempt is not counted. *)
MutAgain(p) ==
    /\ Go(p, "check", "open") /\ Close(p)
    /\ UNCHANGED <<tries, said>>

(* "The holder before removed it: again." *)
Again(p) ==
    \/ /\ ~LastTry(p)
       /\ Go(p, "check", "open") /\ Close(p)
       /\ tries' = [tries EXCEPT ![p] = @ + 1]
       /\ UNCHANGED said
    \/ /\ LastTry(p)
       /\ Go(p, "check", "idle") /\ Close(p) /\ End(p, "refused")

Check(p) ==
    /\ \/ SameFile(p) /\ Go(p, "check", "work") /\ UNCHANGED <<owner, fd, tries, said>>
       \/ ~SameFile(p) /\ Again(p)
    /\ UNCHANGED files

(* The command, whatever it does to the records. *)
Work(p) ==
    /\ fd[p] # None
    /\ Go(p, "work", "unlink")
    /\ kept' \in BOOLEAN
    /\ UNCHANGED <<root, dir, link, owner, fd, tries, said>>

(* Without the lock it is an INSTALL that makes the root, and goes on ...  *)
MakeRoot(p) ==
    /\ fd[p] = None /\ ~root
    /\ Go(p, "work", "work")
    /\ root' = TRUE /\ dir' = TRUE /\ kept' = TRUE
    /\ UNCHANGED <<link, owner, fd, tries, said>>

(* ... until it ends, or fails. *)
WorkUnlocked(p) ==
    /\ fd[p] = None
    /\ Go(p, "work", "idle") /\ End(p, "done")
    /\ UNCHANGED <<files, owner, fd>>

(* Mutant: the lock is let go, and only then is its file removed. *)
MutUnlink(p) ==
    \/ /\ Go(p, "unlink", "unlink")
       /\ owner[fd[p]] = p
       /\ owner' = [owner EXCEPT ![fd[p]] = None]
       /\ UNCHANGED <<files, fd, tries, said>>
    \/ /\ Go(p, "unlink", "unlock")
       /\ owner[fd[p]] # p
       /\ link' = None
       /\ UNCHANGED <<root, dir, kept, owner, fd, tries, said>>

(* pkg_fs_unlock_root: unlink, flock(LOCK_UN), close, rmdir of .pkg. *)
Unlink(p) ==
    /\ Go(p, "unlink", "unlock")
    /\ link' = None
    /\ UNCHANGED <<root, dir, kept, owner, fd, tries, said>>

Unlock(p) ==
    /\ Go(p, "unlock", "rmdir") /\ Close(p)
    /\ UNCHANGED <<files, tries, said>>

(* Mutant: .pkg is not removed. *)
MutRmdir(p) ==
    /\ Go(p, "rmdir", "idle") /\ End(p, "done")
    /\ UNCHANGED <<files, owner, fd>>

Rmdir(p) ==
    /\ Go(p, "rmdir", "idle") /\ End(p, "done")
    /\ dir' = (dir /\ (kept \/ link # None))
    /\ UNCHANGED <<root, kept, link, owner, fd>>

(* The process is killed: its descriptor closes, the file stays. *)
Kill(p) ==
    /\ pc[p] # "idle"
    /\ pc' = [pc EXCEPT ![p] = "idle"]
    /\ Close(p) /\ End(p, "nothing")
    /\ killed' = TRUE
    /\ UNCHANGED files

Step(p) ==
    \/ IsDir(p) \/ MakeDir(p) \/ IsDirNow(p) \/ Open(p) \/ Flock(p) \/ Check(p)
    \/ Work(p) \/ MakeRoot(p) \/ WorkUnlocked(p) \/ Unlink(p) \/ Unlock(p) \/ Rmdir(p)

Next == \E p \in Process : Begin(p) \/ Step(p) \/ Kill(p)

Spec == Init /\ [][Next]_vars

(* A command once begun takes its next call, and what it does ends. *)
FairSpec == Spec /\ \A p \in Process : WF_vars(Step(p))

-----------------------------------------------------------------------------
(* "One change of a root at a time": what the lock's file, the flock and   *)
(* the inodes do together is a mutual exclusion, through a file removed    *)
(* and made again, inodes used again, and kills.  A command that finds no  *)
(* root and takes no lock is not of it.                                    *)
Excludes == INSTANCE Mutex WITH holders <- {p \in Process : Holds(p)}
IsMutex == Excludes!Spec

(* "A root keeps nothing of it": when every command has ended and none was *)
(* killed, .pkg/lock is gone, and .pkg too unless there are records in it. *)
NothingLeft ==
    (\A p \in Process : pc[p] = "idle") /\ ~killed => link = None /\ (dir <=> kept)

(* pkg_fs_lock_root does not wait: every command ends, however many others *)
(* come and go.                                                            *)
Returns == \A p \in Process : pc[p] # "idle" ~> pc[p] = "idle"

=============================================================================
