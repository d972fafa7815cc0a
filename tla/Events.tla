------------------------------- MODULE Events -------------------------------
(***************************************************************************)
(* The progress events of an operation: call() begins and ends it, the     *)
(* verb opens, counts and ends steps on a stack of fixed depth, the        *)
(* network and the archive reader report bytes and waits to the step on    *)
(* top, and the caller may cancel.  The verb is any sequence of these      *)
(* calls.  heard is what a listener can tell from the events it is sent,   *)
(* and whether each kept the rules the callers are promised.               *)
(***************************************************************************)
EXTENDS Integers, Sequences

CONSTANTS
    Transfers,    \* what is counted in bytes: a phase and an object
    Tasks,        \* what is counted in something else, or in nothing
    Peers,        \* the hosts that may be waited for
    Takings,      \* how taking back may go
    Depth,        \* EV_DEPTH: the steps that may be open
    MaxSteps,     \* bound: the steps of an operation that are announced
    MaxCount,     \* bound: what a counter reaches
    MaxCancels,   \* bound: times the caller's cancel says yes
    MaxOps        \* bound: operations of the process

ASSUME EventsAssumption ==
    /\ Depth \in Nat \ {0} /\ MaxSteps \in Nat /\ MaxCount \in Nat
    /\ Takings \subseteq {"done", "incomplete", "failed"}
    /\ MaxCancels \in Nat /\ MaxOps \in Nat

VARIABLES
    op,           \* the operation: where call() is, its number and its code, and
                  \* while steps are ended for it, down to where, how, and what then
    stack,        \* the open steps, the innermost last
    ev,           \* steps not announced for depth, the counters, what is remembered
    heard         \* the listener

evVars == <<op, stack, ev, heard>>

Counts == 0..MaxCount
Unknown == -1
NoWork == [work |-> "", attempt |-> 0]

(* How taking back a change goes: there was nothing to take back, done, a  *)
(* part left that a repeat finishes, tried and failed.                     *)
RestoreRank == [none |-> 0, done |-> 1, incomplete |-> 2, failed |-> 3]

Silent == [on |-> FALSE, op |-> 0, steps |-> 0, open |-> <<>>, retried |-> NoWork, past |-> {},
           cancels |-> 0, restored |-> {}, kept |-> TRUE]
Fresh == [over |-> 0, steps |-> 0, cancels |-> 0, retried |-> NoWork, restore |-> "none"]

EvInit ==
    /\ op = [pc |-> "idle", id |-> 0, ok |-> TRUE, to |-> 0, as |-> "ok", next |-> "verb"]
    /\ stack = <<>>
    /\ ev = Fresh
    /\ heard = Silent

Last(steps) == steps[Len(steps)]
Under(steps) == SubSeq(steps, 1, Len(steps) - 1)
OnTop(steps, s) == [steps EXCEPT ![Len(steps)] = s]

----------------------------------------------------------------------------
(* The listener l: an event fits what was heard before it, or breaks a     *)
(* rule; s is the step an event carries.                                   *)

(* A step is numbered, nests and starts from nothing.  It is the next      *)
(* attempt of the work whose step ended retried just before, and a later   *)
(* attempt only of one that ended so.                                      *)
BeginFits(l, s) ==
    /\ l.on /\ s.id = l.steps + 1 /\ s.done = 0
    /\ s.parent = IF l.open = <<>> THEN 0 ELSE Last(l.open).id
    /\ IF l.retried.attempt > 0 /\ l.retried.work = s.work
       THEN s.attempt = l.retried.attempt + 1
       ELSE s.attempt = 1 \/ [work |-> s.work, attempt |-> s.attempt - 1] \in l.past

(* Its counter never goes back nor passes a known total, and a total once  *)
(* wrong stays unknown.                                                    *)
CountFits(l, s) ==
    /\ l.open # <<>> /\ s.id = Last(l.open).id
    /\ s.done >= Last(l.open).done
    /\ s.total # Unknown => /\ s.done <= s.total /\ ~ Last(l.open).spoiled
                            /\ Last(l.open).total \in {Unknown, s.total}

(* A wait is said once each way. *)
WaitFits(l, s) ==
    /\ CountFits(l, s)
    /\ s.wait # Last(l.open).wait

(* A failure the caller's cancel brought is said as such, no other is. *)
EndFits(l, s, outcome) ==
    /\ CountFits(l, s)
    /\ outcome = "cancelled" => l.cancels > Last(l.open).cancels
    /\ outcome = "failed" => l.cancels = Last(l.open).cancels

OpEndFits(l, id, ok, outcome, restore) ==
    /\ l.on /\ id = l.op /\ l.open = <<>>
    /\ outcome = "ok" <=> ok
    /\ outcome = "cancelled" <=> (~ ok /\ l.cancels > 0)
    /\ l.restored = {} <=> restore = "none"
    /\ restore = "done" => l.restored = {"done"}
    /\ "failed" \in l.restored => restore = "failed"

Broken(l) == [l EXCEPT !.kept = FALSE]

Shown(s, cancels, spoiled) ==
    [id |-> s.id, done |-> s.done, total |-> s.total, wait |-> s.wait, cancels |-> cancels,
     spoiled |-> spoiled]
Counted(l, s) ==
    [l EXCEPT !.open = OnTop(l.open, Shown(s, Last(l.open).cancels,
         Last(l.open).spoiled \/ (Last(l.open).total # Unknown /\ s.total = Unknown)))]

HearOpBegin(l, id) ==
    IF ~ l.on /\ l.open = <<>> /\ id > l.op
    THEN [Silent EXCEPT !.on = TRUE, !.op = id, !.kept = l.kept] ELSE Broken(l)
HearOpEnd(l, id, ok, outcome, restore) ==
    IF OpEndFits(l, id, ok, outcome, restore)
    THEN [Silent EXCEPT !.op = l.op, !.kept = l.kept] ELSE Broken(l)
HearBegin(l, s) ==
    IF BeginFits(l, s)
    THEN [l EXCEPT !.steps = s.id, !.open = Append(l.open, Shown(s, l.cancels, FALSE)),
                   !.retried = NoWork]
    ELSE Broken(l)
HearCount(l, s) == IF CountFits(l, s) THEN Counted(l, s) ELSE Broken(l)
HearWait(l, s) == IF WaitFits(l, s) THEN Counted(l, s) ELSE Broken(l)
HearEnd(l, s, outcome) ==
    IF ~ EndFits(l, s, outcome) THEN Broken(l)
    ELSE IF outcome # "retried" THEN [l EXCEPT !.open = Under(l.open)]
    ELSE LET over == [work |-> s.work, attempt |-> s.attempt]
         IN [l EXCEPT !.open = Under(l.open), !.retried = over, !.past = l.past \cup {over}]

----------------------------------------------------------------------------
(* The stack: the step on top is the one counted, unless steps too deep    *)
(* for it are open above it.                                               *)
Running == op.pc = "verb"
Top == Last(stack)
Heeded == Running /\ stack # <<>> /\ ev.over = 0
SetTop(s) == stack' = OnTop(stack, s)

Opened(work, attempt, total, parent) ==
    [id |-> ev.steps + 1, parent |-> parent, work |-> work, attempt |-> attempt, done |-> 0,
     total |-> total, invalid |-> FALSE, wait |-> "none", cancels |-> ev.cancels]

(* ev_begin *)
BeginStep(work, total) ==
    IF ev.over > 0 \/ Len(stack) = Depth
    THEN ev' = [ev EXCEPT !.over = @ + 1] /\ UNCHANGED <<stack, heard>>
    ELSE LET again == ev.retried.attempt > 0 /\ ev.retried.work = work
             s == Opened(work, IF again THEN ev.retried.attempt + 1 ELSE 1, total,
                         IF stack = <<>> THEN 0 ELSE Top.id)
         IN /\ stack' = Append(stack, s)
            /\ ev' = [ev EXCEPT !.steps = @ + 1, !.retried = NoWork]
            /\ heard' = HearBegin(heard, s)

(* ev_end: a failure is the caller's when it cancelled since the step      *)
(* began.                                                                  *)
Quiet(s) == [s EXCEPT !.wait = "none"]
EndStep(outcome) ==
    IF ev.over > 0
    THEN ev' = [ev EXCEPT !.over = @ - 1] /\ UNCHANGED <<stack, heard>>
    ELSE /\ stack' = Under(stack)
         /\ ev' = IF outcome = "retried"
                  THEN [ev EXCEPT !.retried = [work |-> Top.work, attempt |-> Top.attempt]]
                  ELSE ev
         /\ heard' = HearEnd(heard, Quiet(Top),
                             IF outcome = "failed" /\ ev.cancels > Top.cancels
                             THEN "cancelled" ELSE outcome)

Begin(work, total) ==
    /\ Running /\ ev.steps < MaxSteps /\ ev.over < MaxSteps
    /\ BeginStep(work, total)
    /\ UNCHANGED op

End(outcome) ==
    /\ Running /\ (stack # <<>> \/ ev.over > 0)
    /\ EndStep(outcome)
    /\ UNCHANGED op

(* What is open above the first n steps ends, one after the other, and     *)
(* then call() or the verb goes on.                                        *)
Closes(n, outcome, next, ok) ==
    op' = [op EXCEPT !.pc = "close", !.to = n, !.as = outcome, !.next = next, !.ok = ok]

(* A verb's failure ends what it left open, back to where it began. *)
Unwind(n, outcome) ==
    /\ Running /\ n < Len(stack) + ev.over
    /\ Closes(n, outcome, "verb", op.ok)
    /\ UNCHANGED <<stack, ev, heard>>

Close ==
    /\ op.pc = "close" /\ op.to < Len(stack) + ev.over
    /\ EndStep(op.as)
    /\ UNCHANGED op

Closed ==
    /\ op.pc = "close" /\ op.to >= Len(stack) + ev.over
    /\ op' = [op EXCEPT !.pc = op.next, !.to = 0, !.as = "ok", !.next = "verb"]
    /\ UNCHANGED <<stack, ev, heard>>

(* The counters moved: sent at once when a total changed, else when enough *)
(* time has passed since the step last spoke.                              *)
Moved(l, s, now) ==
    \/ heard' = HearCount(l, s)
    \/ ~ now /\ heard' = l

Disbelieved(s) == [s EXCEPT !.total = Unknown, !.invalid = TRUE]
Passed(s) == s.total # Unknown /\ s.done > s.total

Count(done) ==
    /\ Heeded /\ done > Top.done
    /\ LET s == [Top EXCEPT !.done = done]
           t == IF Passed(s) THEN Disbelieved(s) ELSE s
       IN SetTop(t) /\ Moved(heard, t, Passed(s))
    /\ UNCHANGED <<op, ev>>

(* A whole made known: a second, different one is not believed, nor is the *)
(* first any more.                                                         *)
WholeToldLatest(s, total) ==
    IF s.done > total THEN Disbelieved(s) ELSE [s EXCEPT !.total = total]

WholeTold(s, total) ==
    IF s.total # Unknown \/ s.done > total THEN Disbelieved(s) ELSE [s EXCEPT !.total = total]

Total(total) ==
    /\ Heeded /\ ~ Top.invalid /\ Top.total # total
    /\ LET s == WholeTold(Top, total) IN SetTop(s) /\ Moved(heard, s, TRUE)
    /\ UNCHANGED <<op, ev>>

(* Bytes, counted from the start and of a whole, or of none known: they    *)
(* end a wait, and a count that goes back ends the step retried and begins *)
(* it anew.                                                                *)
NowCounts(s, done, total) ==
    LET told == total # Unknown /\ ~ s.invalid /\ s.total # total
        t == IF ~ told THEN s
             ELSE IF s.total = Unknown THEN [s EXCEPT !.total = total] ELSE Disbelieved(s)
        u == [t EXCEPT !.done = done]
    IN [step |-> IF Passed(u) THEN Disbelieved(u) ELSE u, now |-> told \/ Passed(u)]

Bytes(done, total) ==
    /\ Heeded /\ Top.work \in Transfers
    /\ LET quiet == Quiet(Top)
           l == IF Top.wait = "none" THEN heard ELSE HearWait(heard, quiet)
           again == Opened(Top.work, Top.attempt + 1, Unknown, Top.parent)
           k == HearBegin(HearEnd(l, quiet, "retried"), again)
       IN IF done < Top.done
          THEN /\ ev.steps < MaxSteps
               /\ ev' = [ev EXCEPT !.steps = @ + 1]
               /\ LET c == NowCounts(again, done, total)
                  IN SetTop(c.step) /\ Moved(k, c.step, c.now)
          ELSE /\ UNCHANGED ev
               /\ LET c == NowCounts(quiet, done, total)
                  IN /\ SetTop(c.step)
                     /\ IF c.now \/ done # Top.done THEN Moved(l, c.step, c.now) ELSE heard' = l
    /\ UNCHANGED op

(* The network waits for a host, or not any more; it says so at each pass. *)
Wait(host) ==
    /\ Heeded /\ Top.wait # host
    /\ LET s == [Top EXCEPT !.wait = host]
       IN SetTop(s) /\ heard' = HearWait(heard, s)
    /\ UNCHANGED <<op, ev>>

(* The caller's cancel said yes. *)
Cancel ==
    /\ Running /\ ev.cancels < MaxCancels
    /\ ev' = [ev EXCEPT !.cancels = @ + 1]
    /\ heard' = [heard EXCEPT !.cancels = @ + 1]
    /\ UNCHANGED <<op, stack>>

(* How taking back what was placed went; an operation may do it for        *)
(* several packages, and the worst is what it says.                        *)
Restored(r) ==
    /\ Running
    /\ ev' = IF RestoreRank[r] > RestoreRank[ev.restore] THEN [ev EXCEPT !.restore = r] ELSE ev
    /\ heard' = [heard EXCEPT !.restored = @ \cup {r}]
    /\ UNCHANGED <<op, stack>>

----------------------------------------------------------------------------
(* call(): the operation begins before anything is checked, so a request   *)
(* refused at once is heard too.                                           *)
OpBegin(refused) ==
    /\ op.pc = "idle" /\ op.id < MaxOps
    /\ op' = [op EXCEPT !.pc = IF refused THEN "end" ELSE "verb", !.id = @ + 1, !.ok = ~ refused]
    /\ stack' = <<>>
    /\ ev' = Fresh
    /\ heard' = HearOpBegin(heard, op.id + 1)

(* The verb returns, of a root it had locked or without; what it left open *)
(* ends with it.                                                           *)
VerbReturns(ok, locked) ==
    /\ Running
    /\ Closes(0, IF ok THEN "abandoned" ELSE "failed", IF locked THEN "flush" ELSE "end", ok)
    /\ UNCHANGED <<stack, ev, heard>>

(* The root was locked: what was written to it goes to its medium. *)
Flush ==
    /\ op.pc = "flush"
    /\ BeginStep("flush", Unknown)
    /\ op' = [op EXCEPT !.pc = "flushing"]

Flushed(done) ==
    /\ op.pc = "flushing"
    /\ EndStep(IF done THEN "ok" ELSE "failed")
    /\ op' = [op EXCEPT !.pc = "end"]

OpEnd ==
    /\ op.pc = "end"
    /\ op' = [op EXCEPT !.pc = "idle"]
    /\ heard' = HearOpEnd(heard, op.id, op.ok,
                          IF op.ok THEN "ok" ELSE IF ev.cancels > 0 THEN "cancelled" ELSE "failed",
                          ev.restore)
    /\ UNCHANGED <<stack, ev>>

EvNext ==
    \/ Flush \/ OpEnd \/ Cancel \/ Close \/ Closed
    \/ \E b \in BOOLEAN : OpBegin(b) \/ Flushed(b)
    \/ \E ok, locked \in BOOLEAN : VerbReturns(ok, locked)
    \/ \E w \in Transfers \cup Tasks, t \in Counts \cup {Unknown} : Begin(w, t)
    \/ \E o \in {"ok", "failed", "retried", "absent"} : End(o)
    \/ \E n \in 0..Depth, o \in {"ok", "failed"} : Unwind(n, o)
    \/ \E c \in Counts : Count(c) \/ Total(c)
    \/ \E c \in Counts, t \in Counts \cup {Unknown} : Bytes(c, t)
    \/ \E h \in Peers \cup {"none"} : Wait(h)
    \/ \E r \in Takings : Restored(r)

EvSpec == EvInit /\ [][EvNext]_evVars

----------------------------------------------------------------------------
(* Whatever a verb does, its caller is told by the rules: one begin and    *)
(* one end of the operation, steps numbered and nested and each ended, a   *)
(* later attempt only of work that ended retried, a counter that never     *)
(* goes back within a step nor passes a known total, a wrong total not     *)
(* shown again, a wait said once each way, a cancel told from a failure,   *)
(* and the worst of what was taken back.                                   *)
RulesKept == heard.kept
=============================================================================
