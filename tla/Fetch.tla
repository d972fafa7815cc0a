------------------------------- MODULE Fetch -------------------------------
(***************************************************************************)
(* Where the files of a Source package come from: a drawer unpacked by     *)
(* hand, the channel's own copy of the archive, a copy kept in the cache,  *)
(* or a download from its publisher; and the block map beside the archive  *)
(* that lets the next read take a few blocks.  The cache is shared: two    *)
(* commands use it at once, and one may be killed.                         *)
(*                                                                         *)
(* An archive is what it holds, and the size and time its map is tied to.  *)
(* Left out: out of memory, a volume that refuses a write, the progress    *)
(* told.                                                                   *)
(***************************************************************************)
EXTENDS Naturals

CONSTANTS
    Fetchers,    \* commands
    Absent,      \* no file
    MaxFetches,  \* bound: commands given
    MaxMoves,    \* bound: times the publisher's answer changes
    MaxLosses    \* bound: commands killed

VARIABLES
    disk,        \* the archive in the cache and in the channel: [is, stamp]
    map,         \* the map beside each: what it was made [of], and [stamp]
    world,       \* the publisher's answer, the channel and the drawer unpacked
    job,         \* the commands
    used         \* what the bounds count

fetchVars == <<disk, map, world, job, used>>

(* The bytes signed; an older archive, which holds what package p wants    *)
(* and other bytes for q; and one that cannot be read.                     *)
Content == {"signed", "older", "broken"}

ASSUME FetchAssumption ==
    /\ MaxFetches \in Nat /\ MaxMoves \in Nat /\ MaxLosses \in Nat
    /\ Absent \notin Content \cup [is : Content, stamp : {1, 2}]
Wanted == {"p", "q"}
Holds(c, p) ==
    IF c = "broken" THEN "unreadable" ELSE IF c = "older" /\ p = "q" THEN "wrong" ELSE "right"

Kept(c, stamp) == [is |-> c, stamp |-> stamp]
Given(pc, p, at, got, seen, rc) ==
    [pc |-> pc, pkg |-> p, at |-> at, map |-> Absent, got |-> got, seen |-> seen, rc |-> rc]
Resting == Given("idle", "p", "cache", "unreadable", Absent, 0)

FetchInit ==
    /\ \E c \in {Absent, Kept("signed", 1), Kept("older", 1)} :
         disk = [cache |-> Absent, channel |-> c]
    /\ map = [cache |-> Absent, channel |-> Absent]
    /\ world \in [upstream : {"signed", "older", "gone"}, remote : BOOLEAN,
                  drawer : {Absent, "signed", "older"}]
    /\ job = [r \in Fetchers |-> Resting]
    /\ used = [fetches |-> 0, moves |-> 0, losses |-> 0]

Ends(r, rc) == job' = [job EXCEPT ![r].pc = "done", ![r].rc = rc]
Goes(r, pc) == job' = [job EXCEPT ![r].pc = pc]

----------------------------------------------------------------------------
(* The drawer unpacked comes first: every file weighed and hashed.         *)
FromDrawer(r, p) ==
    /\ world.drawer # Absent
    /\ LET got == Holds(world.drawer, p) IN
       job' = [job EXCEPT ![r] = Given("done", p, "cache", got, world.drawer,
                                         IF got = "right" THEN 0 ELSE 12)]

(* Then a local channel's copy, then the cache's as it is, then a download. *)
Locate(r, p) ==
    LET local == ~ world.remote /\ disk.channel # Absent
    IN
    /\ world.drawer = Absent
    /\ job' = [job EXCEPT ![r] =
                 Given(IF local \/ disk.cache # Absent THEN "open" ELSE "get", p,
                         IF local THEN "channel" ELSE "cache", "unreadable", Absent, 0)]

Fetch(r) ==
    /\ job[r].pc \in {"idle", "done"} /\ used.fetches < MaxFetches
    /\ used' = [used EXCEPT !.fetches = @ + 1]
    /\ \E p \in Wanted : FromDrawer(r, p) \/ Locate(r, p)
    /\ UNCHANGED <<disk, map, world>>

(* The download is renamed into its place, in any second, and weighed and  *)
(* hashed there; one that is not as signed is deleted.                     *)
Get(r) ==
    /\ job[r].pc = "get"
    /\ IF world.upstream \in Content
       THEN /\ \E s \in {1, 2} : disk' = [disk EXCEPT !.cache = Kept(world.upstream, s)]
            /\ Goes(r, "weigh")
       ELSE Goes(r, "without") /\ UNCHANGED disk
    /\ UNCHANGED <<map, world, used>>

Weigh(r) ==
    LET c == IF disk.cache = Absent THEN Absent ELSE disk.cache.is IN
    /\ job[r].pc = "weigh"
    /\ job' = [job EXCEPT ![r].seen = c,
                          ![r].pc = IF c = "signed" THEN "open" ELSE "delete"]
    /\ UNCHANGED <<disk, map, world, used>>

Delete(r) ==
    /\ job[r].pc = "delete"
    /\ disk' = [disk EXCEPT !.cache = Absent]
    /\ Ends(r, 12)
    /\ UNCHANGED <<map, world, used>>

(* No download: what is in its place is deleted, and a remote channel may  *)
(* carry a copy.                                                           *)
Without(r) ==
    /\ job[r].pc = "without"
    /\ disk' = [disk EXCEPT !.cache = Absent]
    /\ IF world.remote /\ disk.channel # Absent
       THEN job' = [job EXCEPT ![r].at = "channel", ![r].pc = "open"]
       ELSE Ends(r, 11)
    /\ UNCHANGED <<map, world, used>>

----------------------------------------------------------------------------
(* A map that answers to the archive's size and time is used, and what it  *)
(* gives must be as signed; else it is thrown away and the archive read    *)
(* whole.  A map made of other bytes gives anything.                       *)
MapRead(at) ==
    IF disk[at] # Absent /\ map[at] # Absent
    THEN IF map[at].stamp = disk[at].stamp THEN map[at].of ELSE Absent
    ELSE Absent

Open(r) ==
    /\ job[r].pc = "open"
    /\ LET of == MapRead(job[r].at) IN
       job' = [job EXCEPT ![r].map = of, ![r].pc = IF of = Absent THEN "whole" ELSE "mapped"]
    /\ UNCHANGED <<disk, map, world, used>>

Mapped(r) ==
    LET a == disk[job[r].at] IN
    CASE a = Absent -> {"unreadable"}
      [] a # Absent /\ a.is = job[r].map -> {Holds(a.is, job[r].pkg), "unreadable"}
      [] OTHER -> {"wrong", "unreadable"}

UsableAny(got) == got # "unreadable"
AsSigned(got) == got = "right"

ReadMapped(r) ==
    /\ job[r].pc = "mapped"
    /\ \E got \in Mapped(r) :
         IF AsSigned(got)
         THEN /\ job' = [job EXCEPT ![r].got = got, ![r].seen = disk[job[r].at].is,
                                    ![r].pc = "check"]
              /\ UNCHANGED map
         ELSE map' = [map EXCEPT ![job[r].at] = Absent] /\ Goes(r, "whole")
    /\ UNCHANGED <<disk, world, used>>

ReadWhole(r) ==
    LET a == disk[job[r].at]
        c == IF a = Absent THEN Absent ELSE a.is
        got == IF a = Absent THEN "unreadable" ELSE Holds(c, job[r].pkg)
    IN
    /\ job[r].pc = "whole"
    /\ job' = [job EXCEPT ![r].seen = c, ![r].got = got,
                          ![r].pc = IF got = "unreadable" THEN "done" ELSE "map",
                          ![r].rc = IF got = "unreadable" THEN 12 ELSE 0]
    /\ UNCHANGED <<disk, map, world, used>>

(* The map made is tied to the archive that is there when it is written.   *)
MapWrite(r) ==
    LET at == job[r].at IN
    /\ job[r].pc = "map"
    /\ map' = IF disk[at] = Absent THEN map
              ELSE [map EXCEPT ![at] = [of |-> job[r].seen, stamp |-> disk[at].stamp]]
    /\ Goes(r, "check")
    /\ UNCHANGED <<disk, world, used>>

(* Every file against the signed manifest, before anything is placed.      *)
Check(r) ==
    /\ job[r].pc = "check"
    /\ Ends(r, IF job[r].got = "right" THEN 0 ELSE 12)
    /\ UNCHANGED <<disk, map, world, used>>

----------------------------------------------------------------------------
(* Outside: the publisher's answer changes, a command is killed.           *)
Move ==
    /\ used.moves < MaxMoves
    /\ \E u \in Content \cup {"gone"} : u # world.upstream /\ world' = [world EXCEPT !.upstream = u]
    /\ used' = [used EXCEPT !.moves = @ + 1]
    /\ UNCHANGED <<disk, map, job>>

Lose(r) ==
    /\ job[r].pc \notin {"idle", "done"} /\ used.losses < MaxLosses
    /\ used' = [used EXCEPT !.losses = @ + 1]
    /\ job' = [job EXCEPT ![r] = Resting]
    /\ UNCHANGED <<disk, map, world>>

FetchNext ==
    \/ \E r \in Fetchers :
         \/ Fetch(r) \/ Get(r) \/ Weigh(r) \/ Delete(r) \/ Without(r)
         \/ Open(r) \/ ReadMapped(r) \/ ReadWhole(r) \/ MapWrite(r) \/ Check(r) \/ Lose(r)
    \/ Move

FetchSpec == FetchInit /\ [][FetchNext]_fetchVars

----------------------------------------------------------------------------
(* "The map is wrong, not the archive": a command is refused for what it   *)
(* was given only when the archive it weighed or read whole was not the    *)
(* one signed, or another command had deleted it.                          *)
RefusedForCause ==
    \A r \in Fetchers : job[r].pc = "done" /\ job[r].rc = 12 => job[r].seen # "signed"

(* "Kept only when its size and SHA-256 are the ones signed": but for a    *)
(* command killed first, one that is not is about to be deleted.           *)
KeptAsSigned ==
    disk.cache # Absent /\ disk.cache.is # "signed" =>
        used.losses > 0 \/ \E r \in Fetchers : job[r].pc \in {"weigh", "delete"}

Fetched == RefusedForCause /\ KeptAsSigned
=============================================================================
