----------------------------- MODULE SelfUpdate -----------------------------
(***************************************************************************)
(* pkg replacing, or removing, its own executable where no package record  *)
(* owns it: the signed list of digests, its signature and the build are    *)
(* fetched one after another from a channel that moves meanwhile, checked  *)
(* in a drawer of the run's own, and put in the executable's place, by one *)
(* rename or, on Windows, by moving the running one away first.  Several   *)
(* runs may be under way, and each may be killed at any point.             *)
(***************************************************************************)
EXTENDS Naturals, FiniteSets

CONSTANTS
    Runs,         \* the commands
    MaxVersion,   \* bound: versions the channel comes to
    MaxSpoils,    \* bound: files of the channel changed by no publisher
    MaxKills,     \* bound: runs killed
    MaxRefusals   \* bound: moves, fetches and stages the system refuses

ASSUME SelfUpdateAssumption ==
    /\ MaxVersion \in Nat \ {0}
    /\ MaxSpoils \in Nat /\ MaxKills \in Nat /\ MaxRefusals \in Nat

VARIABLES
    target,       \* the executable's place
    chan,         \* the channel's three files
    run,          \* the commands
    stage,        \* their drawers
    su            \* the system, files told apart so far, what the bounds count

suVars == <<target, chan, run, stage, su>>

(* Windows moves a running executable and cannot replace it; macOS knows   *)
(* the path of the executable and not the file, Linux both.                *)
Windows == su.windows
ByPath == su.windows \/ su.macos

(* A build: its version, whether it is as signed, and which file it is.    *)
Build(v, good, file) == [v |-> v, good |-> good, file |-> file]
Nothing == Build(0, FALSE, 0)
NoStage == [made |-> FALSE, new |-> Nothing, prev |-> Nothing]
NoRun == [pc |-> "idle", own |-> Nothing, seen |-> 0, sums |-> Nothing, sig |-> 0]

SUInit ==
    /\ target = Build(1, TRUE, 1)
    /\ chan = [sums |-> Build(1, TRUE, 0), sig |-> 1, bin |-> Build(1, TRUE, 0)]
    /\ run = [r \in Runs |-> NoRun]
    /\ stage = [r \in Runs |-> NoStage]
    /\ \E w, m \in BOOLEAN :
         su = [windows |-> w, macos |-> m, files |-> 1, removing |-> FALSE,
               spoils |-> 0, kills |-> 0, refusals |-> 0]

----------------------------------------------------------------------------
(* The channel: its publisher moves the files one at a time to the next    *)
(* version, and something else may change one.                             *)
Publish ==
    /\ \/ /\ chan.bin.v < MaxVersion /\ chan.bin.v = chan.sums.v
          /\ chan' = [chan EXCEPT !.bin = Build(@.v + 1, TRUE, 0)]
       \/ /\ chan.sums.v < chan.bin.v
          /\ chan' = [chan EXCEPT !.sums = Build(@.v + 1, TRUE, 0)]
       \/ /\ chan.sig < chan.sums.v
          /\ chan' = [chan EXCEPT !.sig = @ + 1]
    /\ UNCHANGED <<target, run, stage, su>>

Spoil ==
    /\ su.spoils < MaxSpoils
    /\ su' = [su EXCEPT !.spoils = @ + 1]
    /\ \E f \in {"sums", "bin"} : chan' = [chan EXCEPT ![f].good = FALSE]
    /\ UNCHANGED <<target, run, stage>>

----------------------------------------------------------------------------
Go(r, pc) == run' = [run EXCEPT ![r].pc = pc]

(* done: the drawer goes, unless what was there before is kept in it.      *)
LeaveNone(r, kept) == stage' = [stage EXCEPT ![r] = NoStage]

Leave(r, kept) ==
    stage' = IF kept THEN stage ELSE [stage EXCEPT ![r] = NoStage]

Stop(r) == run' = [run EXCEPT ![r] = [NoRun EXCEPT !.pc = "over"]]
Fails(r) == Stop(r) /\ Leave(r, FALSE)

Refused == su.refusals < MaxRefusals /\ su' = [su EXCEPT !.refusals = @ + 1]

(* A run is the build that was there when it began. *)
Start(r, what) ==
    /\ run[r].pc = "idle" /\ target # Nothing
    /\ run' = [run EXCEPT ![r] = [NoRun EXCEPT !.pc = what, !.own = target]]
    /\ su' = [su EXCEPT !.removing = @ \/ what = "remove"]
    /\ UNCHANGED <<target, chan, stage>>

(* The file that is there is remembered, and a drawer is made beside it.   *)
(* Where the file is known, the run's own must still be there.             *)
Inspect(r) ==
    /\ run[r].pc = "update"
    /\ IF target = Nothing \/ (~ ByPath /\ target # run[r].own) THEN Fails(r)
       ELSE /\ run' = [run EXCEPT ![r].pc = "sums", ![r].seen = target.file]
            /\ stage' = [stage EXCEPT ![r].made = TRUE]
    /\ UNCHANGED <<target, chan, su>>

(* Replacing it needs an administrator who is not there, or DRYRUN, or the *)
(* caller's cancel; or a fetch fails or the drawer cannot be written.      *)
GiveUp(r) ==
    /\ run[r].pc \in {"update", "sums", "sig", "bin", "compare", "recheck"} /\ Refused
    /\ Fails(r)
    /\ UNCHANGED <<target, chan>>

FetchSums(r) ==
    /\ run[r].pc = "sums"
    /\ run' = [run EXCEPT ![r].pc = "sig", ![r].sums = chan.sums]
    /\ UNCHANGED <<target, chan, stage, su>>

(* The list is the one that was signed. *)
FetchSig(r) ==
    /\ run[r].pc = "sig"
    /\ IF run[r].sums.good /\ chan.sig = run[r].sums.v
       THEN Go(r, "bin") /\ UNCHANGED stage
       ELSE Fails(r)
    /\ UNCHANGED <<target, chan, su>>

FetchBin(r) ==
    /\ run[r].pc = "bin"
    /\ stage' = [stage EXCEPT ![r].new = Build(chan.bin.v, chan.bin.good, su.files + 1)]
    /\ su' = [su EXCEPT !.files = @ + 1]
    /\ Go(r, "compare")
    /\ UNCHANGED <<target, chan>>

(* The build is the one the list names, and newer than the run itself.     *)
AsListed(r) == stage[r].new.good /\ stage[r].new.v = run[r].sums.v

Compare(r) ==
    /\ run[r].pc = "compare"
    /\ IF AsListed(r) /\ stage[r].new.v > run[r].own.v
       THEN Go(r, IF Windows THEN "away" ELSE "recheck") /\ UNCHANGED stage
       ELSE Fails(r)
    /\ UNCHANGED <<target, chan, su>>

----------------------------------------------------------------------------
(* The file is still the one remembered; then it is replaced. *)
Recheck(r) ==
    /\ run[r].pc = "recheck"
    /\ IF target # Nothing /\ target.file = run[r].seen
       THEN Go(r, "rename") /\ UNCHANGED stage
       ELSE Fails(r)
    /\ UNCHANGED <<target, chan, su>>

Rename(r) ==
    /\ run[r].pc = "rename"
    /\ \/ target' = stage[r].new /\ UNCHANGED su
       \/ Refused /\ UNCHANGED target
    /\ Fails(r)
    /\ UNCHANGED chan

(* Windows: the running executable goes to the drawer, the new one to its  *)
(* place, and when that fails the former comes back; a move is refused     *)
(* where a file is in the way, and where the system does not let it.       *)
MoveAway(r) ==
    /\ run[r].pc = "away"
    /\ IF target = Nothing THEN Fails(r) /\ UNCHANGED <<target, su>>
       ELSE \/ /\ target' = Nothing
               /\ stage' = [stage EXCEPT ![r].prev = target]
               /\ Go(r, "in")
               /\ UNCHANGED su
            \/ Refused /\ Fails(r) /\ UNCHANGED target
    /\ UNCHANGED chan

MoveIn(r) ==
    /\ run[r].pc = "in"
    /\ \/ /\ target = Nothing
          /\ target' = stage[r].new
          /\ Stop(r) /\ Leave(r, TRUE)
          /\ UNCHANGED su
       \/ target # Nothing /\ Go(r, "back") /\ UNCHANGED <<target, stage, su>>
       \/ Refused /\ Go(r, "back") /\ UNCHANGED <<target, stage>>
    /\ UNCHANGED chan

MoveBack(r) ==
    /\ run[r].pc = "back"
    /\ Stop(r)
    /\ \/ target = Nothing /\ target' = stage[r].prev /\ Leave(r, FALSE) /\ UNCHANGED su
       \/ target # Nothing /\ Leave(r, TRUE) /\ UNCHANGED <<target, su>>
       \/ Refused /\ Leave(r, TRUE) /\ UNCHANGED target
    /\ UNCHANGED chan

----------------------------------------------------------------------------
(* REMOVE of pkg itself: the file of this path is remembered, and deleted  *)
(* if it is still that one (looking again and deleting are one step here); *)
(* on Windows it is retired under another name.                            *)
RemoveLook(r) ==
    /\ run[r].pc = "remove"
    /\ IF target = Nothing THEN Stop(r)
       ELSE run' = [run EXCEPT ![r].pc = "unlink", ![r].seen = target.file]
    /\ UNCHANGED <<target, chan, stage, su>>

Remove(r) ==
    /\ run[r].pc = "unlink"
    /\ target' = IF Windows \/ target.file = run[r].seen THEN Nothing ELSE target
    /\ Stop(r)
    /\ UNCHANGED <<chan, stage, su>>

(* A run is killed, and its drawer stays. *)
Kill(r) ==
    /\ run[r].pc \notin {"idle", "over"}
    /\ su.kills < MaxKills
    /\ su' = [su EXCEPT !.kills = @ + 1]
    /\ Stop(r)
    /\ UNCHANGED <<target, chan, stage>>

SUNext ==
    \/ Publish \/ Spoil
    \/ \E r \in Runs :
         \/ Start(r, "update") \/ Start(r, "remove") \/ Inspect(r) \/ GiveUp(r)
         \/ FetchSums(r) \/ FetchSig(r) \/ FetchBin(r) \/ Compare(r)
         \/ Recheck(r) \/ Rename(r) \/ MoveAway(r) \/ MoveIn(r) \/ MoveBack(r)
         \/ RemoveLook(r) \/ Remove(r) \/ Kill(r)

SUSpec == SUInit /\ [][SUNext]_suVars

----------------------------------------------------------------------------
(* However runs of it meet, a channel moves or is spoiled under them, and  *)
(* they are killed: what is in pkg's place is a build as it was signed,    *)
(* and unless someone removes it, it is there or kept in a run's drawer.   *)
Survives ==
    /\ target # Nothing => target.good
    /\ ~ su.removing => \/ target # Nothing
                       \/ \E r \in Runs : stage[r].prev.good
=============================================================================
