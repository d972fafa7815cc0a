----------------------------- MODULE RecordFile -----------------------------
(***************************************************************************)
(* How pkg keeps one small record: pkg_fs_write_atomic, pkg_fs_unlink and  *)
(* pkg_fs_read of pkg_fs_posix.c, system call by system call.  The root's  *)
(* lock lets one process write; readers (LIST, SHOW, STATUS, VERIFY) take  *)
(* no lock.  A write or a removal may be cut before any of its calls.      *)
(*                                                                         *)
(* Where rename() replaces a file at one instant, a write is one rename of *)
(* a complete temporary file.  Where it does not (AROS), the old file is   *)
(* first renamed aside, and a path with no file but a backup beside it     *)
(* reads as the backup.  Left out: the temporary file's own bytes, which   *)
(* no reader looks at, and the parents of the path.                        *)
(***************************************************************************)
CONSTANTS
    Value,      \* what a record may hold
    Absent,     \* no file
    NoChange    \* no call under way

ASSUME AbsentAssumption == Absent \notin Value
ASSUME NoChangeAssumption == NoChange \notin Value \cup {Absent}

VARIABLES
    build,      \* "backup": built with PKG_BACKUP_RECORDS
    file,       \* the file at the path
    bak,        \* the file at .<name>.pkgbak beside it
    pc,         \* the writer's next call, "idle" between changes
    arg,        \* what it writes; Absent when it removes
    rpc,        \* the reader's next call, "idle" between reads
    seen,       \* what the last read returned
    possible    \* observer: what the record held since the read began

writer == <<pc, arg>>
reader == <<rpc, seen>>
vars == <<build, file, bak, writer, reader, possible>>

Held == Value \cup {Absent}
Backup == build = "backup"

TypeOK ==
    /\ build \in {"rename", "backup"}
    /\ file \in Held
    /\ bak \in Held
    /\ pc \in {"idle", "temporary", "stale", "aside", "replace", "putback",
               "clean", "unlink", "unlinkbackup"}
    /\ arg \in Held \cup {NoChange}
    /\ rpc \in {"idle", "look", "backup", "open"}
    /\ seen \in Held
    /\ possible \subseteq Held

(* What a reader undisturbed finds. *)
Stored == IF file # Absent THEN file ELSE IF Backup THEN bak ELSE Absent

Init ==
    /\ build \in {"rename", "backup"}
    /\ file \in Held
    /\ bak = Absent
    /\ pc = "idle"
    /\ arg = NoChange
    /\ rpc = "idle"
    /\ seen = Absent
    /\ possible = {}

-----------------------------------------------------------------------------
(* The writer. *)

Goto(from, to) ==
    /\ pc = from
    /\ pc' = to
    /\ arg' = IF to = "idle" THEN NoChange ELSE arg
    /\ UNCHANGED <<build, reader>>

(* What a read under way may return grows with what the record holds. *)
Watched == possible' = IF rpc = "idle" THEN {} ELSE possible \cup {Stored'}

Call(step, next) ==
    /\ pc = "idle"
    /\ pc' = step
    /\ arg' = next
    /\ UNCHANGED <<build, file, bak, reader, possible>>

BeginWrite(v) == Call("temporary", v)
BeginUnlink == Call("unlink", Absent)

(* The temporary file is complete and synced. *)
WriteTemporary ==
    /\ Goto("temporary", IF Backup THEN "stale" ELSE "replace")
    /\ UNCHANGED <<file, bak>> /\ Watched

(* A file that is there makes its backup a stale one; whether it could be  *)
(* deleted is not asked.                                                   *)
DropStale ==
    /\ Goto("stale", IF file # Absent THEN "aside" ELSE "replace")
    /\ bak' \in IF file # Absent THEN {bak, Absent} ELSE {bak}
    /\ UNCHANGED file /\ Watched

(* Mutant: the old file is deleted instead of renamed aside. *)
MutSetAside ==
    /\ Goto("aside", "replace")
    /\ file' = Absent
    /\ UNCHANGED bak /\ Watched

SetAside ==
    /\ Goto("aside", "replace")
    /\ bak' = file
    /\ file' = Absent
    /\ Watched

(* The rename into place, or its failure. *)
Replace ==
    \/ /\ Goto("replace", IF Backup THEN "clean" ELSE "idle")
       /\ file' = arg
       /\ UNCHANGED bak /\ Watched
    \/ /\ Goto("replace", IF Backup THEN "putback" ELSE "idle")
       /\ UNCHANGED <<file, bak>> /\ Watched

(* The backup is renamed back, when there is one and the call works. *)
PutBack ==
    /\ Goto("putback", "idle")
    /\ \/ bak # Absent /\ file' = bak /\ bak' = Absent
       \/ UNCHANGED <<file, bak>>
    /\ Watched

(* The backup is deleted; whether it could be is not asked. *)
Clean ==
    /\ Goto("clean", "idle")
    /\ bak' \in {bak, Absent}
    /\ UNCHANGED file /\ Watched

(* pkg_fs_unlink: the path, then the backup. *)
UnlinkFile ==
    /\ Goto("unlink", IF Backup THEN "unlinkbackup" ELSE "idle")
    /\ file' \in {file, Absent}
    /\ UNCHANGED bak /\ Watched

UnlinkBackup ==
    /\ Goto("unlinkbackup", "idle")
    /\ bak' \in {bak, Absent}
    /\ UNCHANGED file /\ Watched

(* A crash or a kill, or an error the call returns with. *)
Cut ==
    /\ pc # "idle"
    /\ Goto(pc, "idle")
    /\ UNCHANGED <<file, bak>> /\ Watched

-----------------------------------------------------------------------------
(* The reader: fopen, and where that finds nothing, cut_write's two looks  *)
(* and the backup's fopen.                                                 *)

Return(v) ==
    /\ rpc' = "idle"
    /\ seen' = v
    /\ possible' = {}
    /\ UNCHANGED <<build, file, bak, writer>>

ReadOn(next) ==
    /\ rpc' = next
    /\ UNCHANGED <<build, file, bak, writer, seen>>

(* Mutant: a backup, where there is one, is what is read. *)
MutOpen ==
    /\ rpc = "idle"
    /\ \/ Backup /\ bak # Absent /\ Return(bak)
       \/ bak = Absent /\ file # Absent /\ Return(file)
       \/ file = Absent /\ Backup /\ ReadOn("look") /\ possible' = {Stored}
       \/ file = Absent /\ ~Backup /\ Return(Absent)

Open ==
    /\ rpc = "idle"
    /\ \/ file # Absent /\ Return(file)
       \/ file = Absent /\ Backup /\ ReadOn("look") /\ possible' = {Stored}
       \/ file = Absent /\ ~Backup /\ Return(Absent)

Look ==
    /\ rpc = "look"
    /\ \/ file # Absent /\ Return(Absent)
       \/ file = Absent /\ ReadOn("backup") /\ UNCHANGED possible

LookForBackup ==
    /\ rpc = "backup"
    /\ \/ bak = Absent /\ Return(Absent)
       \/ bak # Absent /\ ReadOn("open") /\ UNCHANGED possible

OpenBackup == rpc = "open" /\ Return(bak)

Write == \/ \E v \in Value : BeginWrite(v)
         \/ WriteTemporary \/ DropStale \/ SetAside \/ Replace \/ PutBack \/ Clean
Unlink == BeginUnlink \/ UnlinkFile \/ UnlinkBackup
Read == Open \/ Look \/ LookForBackup \/ OpenBackup

Next == Write \/ Unlink \/ Cut \/ Read

Spec == Init /\ [][Next]_vars

-----------------------------------------------------------------------------
(* pkg_fs_read beside a writer: what it returns, when it returns a value,  *)
(* the record held at some instant of the read, never a left-over older    *)
(* backup.                                                                 *)
ReadsWhatWasThere ==
    [][(rpc # "idle" /\ rpc' = "idle") \/ seen' # seen =>
          \/ seen' = Absent
          \/ seen' \in possible
          \/ rpc = "idle" /\ seen' = Stored]_vars

(* pkg_fs_write_atomic and pkg_fs_unlink, in both builds: whatever call of *)
(* a write fails or is cut, and however many were cut before it, the       *)
(* record holds the old value or the new one; a removal leaves it, removes *)
(* it, or uncovers a backup an earlier write left.                         *)
Reg == INSTANCE Register
         WITH value <- Stored, pending <- arg, old <- IF Backup THEN bak ELSE Absent
IsRegister == Reg!Spec

=============================================================================
