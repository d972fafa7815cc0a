-------------------------- MODULE RecordFileProofs --------------------------
(***************************************************************************)
(* Proofs about two layers under every command, each by itself: the files  *)
(* a record is kept in, for every set of values and both builds, and the   *)
(* events a listener is sent, for any depth, works, hosts and bounds.      *)
(***************************************************************************)
EXTENDS RecordFile, Events, SequenceTheorems, TLAPS

Writing == {"temporary", "stale", "aside", "replace", "putback", "clean"}
Removing == {"unlink", "unlinkbackup"}

(* What the change under way knows of the two files. *)
WriterInv ==
    /\ pc = "idle" => arg = NoChange
    /\ pc \in Writing => arg \in Value
    /\ pc \in Removing => arg = Absent
    /\ pc \in {"stale", "aside", "putback", "clean", "unlinkbackup"} => Backup
    /\ pc \in {"aside", "clean"} => file # Absent
    /\ pc \in {"replace", "putback"} /\ Backup => file = Absent

(* A read that found no file: whatever is stored, or set aside, from then  *)
(* on was stored at some instant of it.                                    *)
ReaderInv ==
    rpc # "idle" => Stored \in possible /\ bak \in possible \cup {Absent}

Inv == TypeOK /\ WriterInv /\ ReaderInv

-----------------------------------------------------------------------------
(* What the writer's steps leave alone. *)
LEMMA WriterSteps ==
    ASSUME NEW from, NEW to, Goto(from, to)
    PROVE  pc = from /\ pc' = to /\ build' = build /\ rpc' = rpc /\ seen' = seen
           /\ arg' = IF to = "idle" THEN NoChange ELSE arg
  BY DEF Goto, reader

(* No step of a write but the rename into place changes what is stored,    *)
(* and that one stores the new value.                                      *)
LEMMA WriteStep ==
    ASSUME Inv, [Next]_vars, pc # "idle", arg # Absent
    PROVE  Stored' \in {Stored, arg}
  <1> USE DEF Inv, WriterInv, Stored, Backup, Writing, Removing
  <1>1. CASE \E v \in Value : BeginWrite(v)
    BY <1>1 DEF BeginWrite, Call
  <1>2. CASE WriteTemporary
    BY <1>2, WriterSteps DEF WriteTemporary
  <1>3. CASE DropStale
    BY <1>3, WriterSteps DEF DropStale
  <1>4. CASE SetAside
    BY <1>4, WriterSteps DEF SetAside
  <1>5. CASE Replace
    BY <1>5, WriterSteps, AbsentAssumption DEF Replace
  <1>6. CASE PutBack
    BY <1>6, WriterSteps DEF PutBack
  <1>7. CASE Clean
    BY <1>7, WriterSteps DEF Clean
  <1>8. CASE Unlink
    BY <1>8 DEF Unlink, BeginUnlink, Call, UnlinkFile, UnlinkBackup, Goto
  <1>9. CASE Cut
    BY <1>9 DEF Goto, Cut
  <1>10. CASE Read
    BY <1>10 DEF Read, Open, Look, LookForBackup, OpenBackup, Return, ReadOn
  <1>11. CASE UNCHANGED vars
    BY <1>11 DEF vars
  <1> QED BY <1>1, <1>2, <1>3, <1>4, <1>5, <1>6, <1>7, <1>8, <1>9, <1>10, <1>11
          DEF Next, Write

-----------------------------------------------------------------------------
LEMMA TypeStep ==
    ASSUME Inv, [Next]_vars
    PROVE  TypeOK'
  <1> USE DEF TypeOK, Inv, Held, Backup
  <1>1. Stored' \in Held \/ UNCHANGED possible \/ possible' = {}
    <2>1. (file' \in Held /\ bak' \in Held) => Stored' \in Held
      BY AbsentAssumption DEF Stored
    <2>2. file' \in Held /\ bak' \in Held
      <3>1. CASE Write
        BY <3>1 DEF Write, BeginWrite, Call, WriteTemporary, DropStale, SetAside, Replace,
                    PutBack, Clean, Goto, WriterInv, Writing
      <3>2. CASE Unlink
        BY <3>2 DEF Unlink, BeginUnlink, Call, UnlinkFile, UnlinkBackup
      <3>3. CASE Cut \/ UNCHANGED vars
        BY <3>3 DEF Cut, vars
      <3>4. CASE Read
        BY <3>4 DEF Read, Open, Look, LookForBackup, OpenBackup, Return, ReadOn
      <3> QED BY <3>1, <3>2, <3>3, <3>4 DEF Next
    <2> QED BY <2>1, <2>2
  <1>2. Stored \in Held
    BY DEF Stored
  <1>3. CASE \E v \in Value : BeginWrite(v)
    BY <1>2, <1>3 DEF BeginWrite, Call, reader
  <1>4. CASE BeginUnlink
    BY <1>2, <1>4 DEF BeginUnlink, Call, reader
  <1>5. CASE WriteTemporary \/ DropStale \/ SetAside \/ PutBack \/ Clean
    BY <1>1, <1>5, NoChangeAssumption
    DEF WriteTemporary, DropStale, SetAside, PutBack, Clean, Goto, reader, Watched
  <1>6. CASE Replace
    BY <1>1, <1>6 DEF Replace, Goto, reader, Watched, WriterInv, Writing
  <1>7. CASE UnlinkFile \/ UnlinkBackup
    BY <1>1, <1>7 DEF UnlinkFile, UnlinkBackup, Goto, reader, Watched
  <1>8. CASE Cut
    BY <1>1, <1>8 DEF Cut, Goto, reader, Watched
  <1>9. CASE Read
    BY <1>2, <1>9 DEF Read, Open, Look, LookForBackup, OpenBackup, Return, ReadOn, writer
  <1>10. CASE UNCHANGED vars
    BY <1>10 DEF vars, writer, reader
  <1> QED BY <1>3, <1>4, <1>5, <1>6, <1>7, <1>8, <1>9, <1>10 DEF Next, Write, Unlink

LEMMA WriterStep ==
    ASSUME Inv, [Next]_vars
    PROVE  WriterInv'
  <1> USE DEF Inv, WriterInv, Backup, Writing, Removing
  <1>1. CASE \E v \in Value : BeginWrite(v)
    BY <1>1 DEF BeginWrite, Call
  <1>2. CASE BeginUnlink
    BY <1>2 DEF BeginUnlink, Call
  <1>3. CASE WriteTemporary
    BY <1>3 DEF WriteTemporary, Goto
  <1>4. CASE DropStale
    BY <1>4 DEF DropStale, Goto
  <1>5. CASE SetAside
    BY <1>5 DEF SetAside, Goto
  <1>6. CASE Replace
    BY <1>6, AbsentAssumption DEF Replace, Goto
  <1>7. CASE PutBack \/ Clean \/ UnlinkBackup \/ Cut
    BY <1>7 DEF PutBack, Clean, UnlinkBackup, Cut, Goto
  <1>8. CASE UnlinkFile
    BY <1>8 DEF UnlinkFile, Goto
  <1>9. CASE Read
    BY <1>9 DEF Read, Open, Look, LookForBackup, OpenBackup, Return, ReadOn, writer
  <1>10. CASE UNCHANGED vars
    BY <1>10 DEF vars, writer
  <1> QED BY <1>1, <1>2, <1>3, <1>4, <1>5, <1>6, <1>7, <1>8, <1>9, <1>10
          DEF Next, Write, Unlink

LEMMA ReaderStep ==
    ASSUME Inv, [Next]_vars
    PROVE  ReaderInv'
  <1> USE DEF Inv, ReaderInv, Backup, Stored
  <1>1. CASE (\E v \in Value : BeginWrite(v)) \/ BeginUnlink
    BY <1>1 DEF BeginWrite, BeginUnlink, Call, reader
  <1>2. CASE WriteTemporary \/ Cut
    BY <1>2 DEF WriteTemporary, Cut, Goto, reader, Watched
  <1>3. CASE DropStale
    BY <1>3 DEF DropStale, Goto, reader, Watched
  <1>4. CASE SetAside
    <2>1. file # Absent /\ bak' = file /\ rpc' = rpc
          /\ (rpc # "idle" => possible' = possible \cup {Stored'})
      BY <1>4 DEF SetAside, Goto, reader, Watched, WriterInv
    <2> QED BY <2>1
  <1>5. CASE Replace
    BY <1>5 DEF Replace, Goto, reader, Watched
  <1>6. CASE PutBack \/ Clean \/ UnlinkFile \/ UnlinkBackup
    BY <1>6 DEF PutBack, Clean, UnlinkFile, UnlinkBackup, Goto, reader, Watched
  <1>7. CASE Read
    BY <1>7 DEF Read, Open, Look, LookForBackup, OpenBackup, Return, ReadOn, writer
  <1>8. CASE UNCHANGED vars
    BY <1>8 DEF vars, reader
  <1> QED BY <1>1, <1>2, <1>3, <1>4, <1>5, <1>6, <1>7, <1>8 DEF Next, Write, Unlink

(* The inductive invariant. *)
THEOREM RecordInvariant == Spec => []Inv
  <1>1. Init => Inv
    BY DEF Init, Inv, TypeOK, WriterInv, ReaderInv, Held, Writing, Removing
  <1>2. Inv /\ [Next]_vars => Inv'
    BY TypeStep, WriterStep, ReaderStep DEF Inv
  <1> QED BY <1>1, <1>2, PTL DEF Spec

-----------------------------------------------------------------------------
(* A lock-free read returns nothing, or what was stored while it ran.      *)
THEOREM ReadsAreRecent == Spec => ReadsWhatWasThere
  <1>1. Inv /\ [Next]_vars =>
          ((rpc # "idle" /\ rpc' = "idle") \/ seen' # seen =>
              \/ seen' = Absent
              \/ seen' \in possible
              \/ rpc = "idle" /\ seen' = Stored)
    <2> SUFFICES ASSUME Inv, [Next]_vars,
                        (rpc # "idle" /\ rpc' = "idle") \/ seen' # seen
                 PROVE  \/ seen' = Absent
                        \/ seen' \in possible
                        \/ rpc = "idle" /\ seen' = Stored
      OBVIOUS
    <2>1. CASE Read
      BY <2>1 DEF Read, Open, Look, LookForBackup, OpenBackup, Return, ReadOn, Inv,
                  ReaderInv, Stored, Backup
    <2>2. ~Write /\ ~Unlink /\ ~Cut /\ ~UNCHANGED vars
      BY DEF Write, BeginWrite, WriteTemporary, DropStale, SetAside, Replace, PutBack,
             Clean, Unlink, BeginUnlink, UnlinkFile, UnlinkBackup, Cut, Call, Goto,
             reader, vars
    <2> QED BY <2>1, <2>2 DEF Next
  <1> QED BY <1>1, RecordInvariant, PTL DEF Spec, ReadsWhatWasThere

(* In both builds the two files and the calls between them are one         *)
(* register: a write happens at one instant or not at all, and a removal   *)
(* brings back no value but one that was left behind.                      *)
THEOREM RecordIsARegister == Spec => IsRegister
  <1> DEFINE old == IF Backup THEN bak ELSE Absent
  <1>1. Init => Reg!Init
    BY DEF Init, Reg!Init, Stored, Held
  <1>2. Inv /\ [Next]_vars => [Reg!Next]_(Reg!vars)
    <2> SUFFICES ASSUME Inv, [Next]_vars
                 PROVE  Reg!Next \/ UNCHANGED <<Stored, old, arg>>
      BY DEF Reg!vars
    <2> USE DEF Stored, Backup, Inv, WriterInv, Writing, Removing
    <2>1. CASE (\E v \in Value : BeginWrite(v)) \/ BeginUnlink
      BY <2>1 DEF BeginWrite, BeginUnlink, Call, Reg!Next, Reg!Begin
    <2>2. CASE WriteTemporary
      BY <2>2 DEF WriteTemporary, Goto
    <2>3. ASSUME pc # "idle", arg' \in {arg, NoChange}, old' \in {old, Stored, Absent},
                 \/ Stored' \in {Stored, arg}
                 \/ arg = Absent /\ Stored' = old
          PROVE  Reg!Next
      <3>1. arg # NoChange
        BY <2>3, NoChangeAssumption DEF TypeOK
      <3> QED BY <2>3, <3>1 DEF Reg!Next, Reg!Change, Reg!Outcome
    <2>4. CASE DropStale \/ SetAside \/ Replace \/ PutBack \/ Clean \/ Cut
      <3>1. pc # "idle" /\ arg' \in {arg, NoChange}
        BY <2>4 DEF DropStale, SetAside, Replace, PutBack, Clean, Cut, Goto
      <3>2. Stored' \in {Stored, arg}
        <4>1. CASE arg = Absent
          BY <2>4, <4>1, AbsentAssumption
          DEF DropStale, SetAside, Replace, PutBack, Clean, Cut, Goto
        <4> QED BY <3>1, <4>1, WriteStep
      <3>3. old' \in {old, Stored, Absent}
        BY <2>4 DEF DropStale, SetAside, Replace, PutBack, Clean, Cut, Goto
      <3> QED BY <2>3, <3>1, <3>2, <3>3
    <2>5. CASE UnlinkFile \/ UnlinkBackup
      <3>1. pc # "idle" /\ arg' \in {arg, NoChange} /\ arg = Absent
        BY <2>5 DEF UnlinkFile, UnlinkBackup, Goto
      <3>2. old' \in {old, Stored, Absent}
        BY <2>5 DEF UnlinkFile, UnlinkBackup, Goto
      <3>3. Stored' \in {Stored, arg, old}
        BY <2>5, <3>1 DEF UnlinkFile, UnlinkBackup, Goto
      <3> QED BY <2>3, <3>1, <3>2, <3>3
    <2>6. CASE Read
      BY <2>6 DEF Read, Open, Look, LookForBackup, OpenBackup, Return, ReadOn, writer
    <2>7. CASE UNCHANGED vars
      BY <2>7 DEF vars, writer
    <2> QED BY <2>1, <2>2, <2>4, <2>5, <2>6, <2>7 DEF Next, Write, Unlink
  <1> QED BY <1>1, <1>2, RecordInvariant, PTL DEF Spec, IsRegister, Reg!Spec

-----------------------------------------------------------------------------
(* The types: what may be counted or not, steps as the stack and as the    *)
(* listener has them, the operation, the counters and the listener.        *)
EvDoings == Transfers \cup Tasks \cup {"flush"}
EvTotals == Nat \cup {Unknown}
EvAttempts == [work : EvDoings, attempt : Nat \ {0}]
EvSteps == [id : Nat, parent : Nat, work : EvDoings, attempt : Nat \ {0}, done : Nat,
            total : EvTotals, invalid : BOOLEAN, wait : Peers \cup {"none"}, cancels : Nat]
EvShown == [id : Nat, done : Nat, total : EvTotals, wait : Peers \cup {"none"}, cancels : Nat,
            spoiled : BOOLEAN]
EvOps == [pc : {"idle", "verb", "close", "flush", "flushing", "end"}, id : Nat, ok : BOOLEAN,
          to : Nat, as : {"ok", "failed", "abandoned"}, next : {"verb", "flush", "end"}]
EvStates == [over : Nat, steps : Nat, cancels : Nat, retried : EvAttempts \cup {NoWork},
             restore : Takings \cup {"none"}]
EvListeners == [on : BOOLEAN, op : Nat, steps : Nat, open : Seq(EvShown),
                retried : EvAttempts \cup {NoWork}, past : SUBSET EvAttempts, cancels : Nat,
                restored : SUBSET Takings, kept : BOOLEAN]
EvTypes ==
    /\ op \in EvOps
    /\ stack \in Seq(EvSteps)
    /\ ev \in EvStates
    /\ heard \in EvListeners

(* A step by itself: a total once wrong is unknown, a known one bounds the *)
(* counter, and it began no later than now.                                *)
Sound(s, cancels) ==
    /\ s.invalid => s.total = Unknown
    /\ s.total # Unknown => s.done <= s.total
    /\ s.cancels <= cancels

(* A step s and what was heard of it: the counter may be ahead, the total  *)
(* never is.                                                               *)
Alike(s, h) ==
    /\ h.id = s.id /\ h.total = s.total /\ h.wait = s.wait /\ h.cancels = s.cancels
    /\ h.done <= s.done
    /\ h.spoiled => s.invalid

Parent(st, i) == IF i = 1 THEN 0 ELSE st[i - 1].id

(* The listener has heard of each open step, in their order, and of every  *)
(* attempt the library still remembers.                                    *)
Follows(st, e, l) ==
    /\ l.kept /\ l.on
    /\ l.steps = e.steps /\ l.cancels = e.cancels
    /\ e.retried.attempt > 0 => e.retried \in l.past
    /\ l.retried.attempt > 0 => l.retried = e.retried
    /\ Len(l.open) = Len(st)
    /\ \A i \in 1..Len(st) :
          /\ Sound(st[i], e.cancels)
          /\ Alike(st[i], l.open[i])
          /\ st[i].parent = Parent(st, i)

(* What is remembered of taking back is the worst that was heard of.       *)
Worst(e, l) ==
    /\ l.restored = {} <=> e.restore = "none"
    /\ e.restore # "none" => e.restore \in l.restored
    /\ \A r \in l.restored : RestoreRank[r] <= RestoreRank[e.restore]

(* Where call() is says what may be open.                                  *)
Places(o, st, e) ==
    /\ o.pc \in {"flush", "end"} => st = <<>>
    /\ o.pc \in {"flush", "flushing", "end"} => e.over = 0
    /\ o.pc = "flushing" => Len(st) = 1
    /\ o.pc = "close" /\ o.next # "verb" => o.to = 0

EvInv ==
    /\ EvTypes
    /\ heard.op = op.id
    /\ op.pc = "idle" => ~ heard.on /\ heard.kept /\ heard.open = <<>>
    /\ op.pc # "idle" => /\ Follows(stack, ev, heard) /\ Worst(ev, heard)
                         /\ Places(op, stack, ev)

EvFollows(st, e, l) ==
    /\ st \in Seq(EvSteps) /\ e \in EvStates /\ l \in EvListeners
    /\ Follows(st, e, l)

(* s is what the step t may become while it is open. *)
Goes(t, s) ==
    /\ s.id = t.id /\ s.parent = t.parent /\ s.cancels = t.cancels
    /\ s.done >= t.done
    /\ t.invalid => s.invalid
    /\ s.invalid => s.total = Unknown
    /\ s.total # Unknown => s.done <= s.total /\ t.total \in {Unknown, s.total}
    /\ t.total # Unknown /\ s.total = Unknown => s.invalid

(* What changing, dropping and adding the last element leave.              *)
LEMMA OnTopIs ==
    ASSUME NEW S, NEW q \in Seq(S), q # <<>>, NEW x \in S
    PROVE  /\ OnTop(q, x) \in Seq(S) /\ Len(OnTop(q, x)) = Len(q)
           /\ \A i \in 1..Len(q) : OnTop(q, x)[i] = IF i = Len(q) THEN x ELSE q[i]
  <1>1. Len(q) \in Nat \ {0}
    BY EmptySeq, LenProperties
  <1>2. Len(q) \in 1..Len(q)
    BY <1>1
  <1>3. /\ OnTop(q, x) \in Seq(S) /\ Len(OnTop(q, x)) = Len(q)
        /\ \A i \in 1..Len(q) : OnTop(q, x)[i] = IF i = Len(q) THEN x ELSE q[i]
    BY <1>2, ExceptSeq DEF OnTop
  <1> QED BY <1>3

LEMMA ShownOnTop ==
    ASSUME NEW q \in Seq(EvShown), q # <<>>, NEW x \in EvShown
    PROVE  /\ OnTop(q, x) \in Seq(EvShown) /\ Len(OnTop(q, x)) = Len(q)
           /\ \A i \in 1..Len(q) : OnTop(q, x)[i] = IF i = Len(q) THEN x ELSE q[i]
  BY OnTopIs

LEMMA ShownAppended ==
    ASSUME NEW q \in Seq(EvShown), NEW x \in EvShown
    PROVE  /\ Append(q, x) \in Seq(EvShown) /\ Len(Append(q, x)) = Len(q) + 1
           /\ Append(q, x)[Len(q) + 1] = x
           /\ \A i \in 1..Len(q) : Append(q, x)[i] = q[i]
  BY AppendProperties

LEMMA UnderIs ==
    ASSUME NEW S, NEW q \in Seq(S), q # <<>>
    PROVE  /\ Under(q) \in Seq(S) /\ Len(Under(q)) = Len(q) - 1
           /\ \A i \in 1..(Len(q) - 1) : Under(q)[i] = q[i]
  <1>1. Len(q) \in Nat \ {0}
    BY EmptySeq, LenProperties
  <1>2. \A i \in 1..(Len(q) - 1) : q[i] \in S
    BY <1>1, ElementOfSeq
  <1> DEFINE n == Len(q) - 1
  <1>3. n \in Nat /\ \A i \in 1..n : q[i] \in S
    BY <1>1, <1>2
  <1>4. Under(q) = SubSeq(q, 1, n)
    BY DEF Under
  <1> HIDE DEF n
  <1>5. /\ SubSeq(q, 1, n) \in Seq(S)
        /\ Len(SubSeq(q, 1, n)) = IF 1 <= n THEN n - 1 + 1 ELSE 0
        /\ \A i \in 1..(n - 1 + 1) : SubSeq(q, 1, n)[i] = q[1 + i - 1]
    BY <1>3, SubSeqProperties
  <1>6. Len(SubSeq(q, 1, n)) = n
    BY <1>3, <1>5
  <1>7. \A i \in 1..n : SubSeq(q, 1, n)[i] = q[i]
    <2> TAKE i \in 1..n
    <2>1. i \in Int /\ i \in 1..(n - 1 + 1) /\ 1 + i - 1 = i
      BY <1>3
    <2>2. SubSeq(q, 1, n)[i] = q[1 + i - 1]
      BY <2>1, <1>5
    <2> QED BY <2>1, <2>2
  <1>8. /\ Under(q) \in Seq(S) /\ Len(Under(q)) = n
        /\ \A i \in 1..n : Under(q)[i] = q[i]
    BY <1>4, <1>5, <1>6, <1>7
  <1> QED BY <1>8 DEF n

(* The step on top and what was heard of it.                               *)
LEMMA EvTop ==
    ASSUME NEW st, NEW e, NEW l, EvFollows(st, e, l), st # <<>>
    PROVE  /\ Last(st) \in EvSteps /\ Last(l.open) \in EvShown /\ l.open # <<>>
           /\ Sound(Last(st), e.cancels) /\ Alike(Last(st), Last(l.open))
           /\ Len(st) \in Nat \ {0} /\ Len(l.open) = Len(st)
           /\ l.open \in Seq(EvShown)
  <1>1. Len(st) \in Nat \ {0}
    BY EmptySeq, LenProperties DEF EvFollows
  <1>2. l.open \in Seq(EvShown) /\ Len(l.open) = Len(st)
    BY DEF EvFollows, EvListeners, Follows
  <1>3. Len(st) \in 1..Len(st)
    BY <1>1
  <1>4. Sound(st[Len(st)], e.cancels) /\ Alike(st[Len(st)], l.open[Len(st)])
    BY <1>3 DEF EvFollows, Follows
  <1>5. st[Len(st)] \in EvSteps /\ l.open[Len(st)] \in EvShown
    BY <1>2, <1>3, ElementOfSeq DEF EvFollows
  <1> QED BY <1>1, <1>2, <1>4, <1>5 DEF Last

(* The step on top moves on, and the listener is told. *)
LEMMA EvCounted ==
    ASSUME NEW st, NEW e, NEW l, EvFollows(st, e, l), st # <<>>,
           NEW s \in EvSteps, Goes(Last(st), s)
    PROVE  CountFits(l, s) /\ EvFollows(OnTop(st, s), e, Counted(l, s))
  <1> PICK t : t = Last(st)
    OBVIOUS
  <1> PICK h : h = Last(l.open)
    OBVIOUS
  <1> PICK x : x = Shown(s, h.cancels, h.spoiled \/ (h.total # Unknown /\ s.total = Unknown))
    OBVIOUS
  <1>1. /\ t \in EvSteps /\ h \in EvShown /\ Sound(t, e.cancels) /\ Alike(t, h)
        /\ l.open # <<>> /\ l.open \in Seq(EvShown) /\ Len(l.open) = Len(st)
    BY EvTop
  <1>2. CountFits(l, s)
    BY <1>1, SMTT(60) DEF CountFits, Goes, Alike, Sound, EvSteps, EvShown, EvTotals, Unknown
  <1>3. x \in EvShown /\ Alike(s, x) /\ Sound(s, e.cancels)
    BY <1>1, SMTT(60) DEF Shown, Goes, Alike, Sound, EvSteps, EvShown, EvTotals, Unknown
  <1>4. Counted(l, s) = [l EXCEPT !.open = OnTop(l.open, x)]
    BY DEF Counted
  <1> PICK o : o = OnTop(l.open, x)
    OBVIOUS
  <1> PICK k : k = [l EXCEPT !.open = o]
    OBVIOUS
  <1> PICK q : q = l.open
    OBVIOUS
  <1>5. /\ o \in Seq(EvShown) /\ Len(o) = Len(st)
        /\ \A i \in 1..Len(st) : o[i] = IF i = Len(st) THEN x ELSE l.open[i]
    <2>1. q \in Seq(EvShown) /\ q # <<>> /\ x \in EvShown
      BY <1>1, <1>3
    <2>2. /\ OnTop(q, x) \in Seq(EvShown) /\ Len(OnTop(q, x)) = Len(q)
          /\ \A i \in 1..Len(q) : OnTop(q, x)[i] = IF i = Len(q) THEN x ELSE q[i]
      BY <2>1, ShownOnTop, ZenonT(60)
    <2>3. Len(q) = Len(st) /\ o = OnTop(q, x)
      BY <1>1
    <2> QED BY <2>2, <2>3
  <1>6. /\ k \in EvListeners /\ k.open = o /\ k.kept = l.kept /\ k.on = l.on
        /\ k.steps = l.steps /\ k.cancels = l.cancels /\ k.past = l.past
        /\ k.retried = l.retried
    BY <1>5 DEF EvFollows, EvListeners
  <1> PICK u : u = OnTop(st, s)
    OBVIOUS
  <1>7. /\ Len(st) \in Nat \ {0} /\ u \in Seq(EvSteps) /\ Len(u) = Len(st)
        /\ \A i \in 1..Len(st) : u[i] = IF i = Len(st) THEN s ELSE st[i]
    <2>1. st \in Seq(EvSteps)
      BY DEF EvFollows
    <2>2. Len(st) \in Nat \ {0}
      BY EvTop
    <2>3. /\ OnTop(st, s) \in Seq(EvSteps) /\ Len(OnTop(st, s)) = Len(st)
          /\ \A i \in 1..Len(st) : OnTop(st, s)[i] = IF i = Len(st) THEN s ELSE st[i]
      BY <2>1, OnTopIs, ZenonT(60)
    <2> QED BY <2>2, <2>3
  <1>8. s.id = t.id /\ s.parent = t.parent
    BY DEF Goes
  <1>9. ASSUME NEW i \in 1..Len(st)
        PROVE  u[i].id = st[i].id /\ u[i].parent = st[i].parent
    BY <1>7, <1>8 DEF Last
  <1>10. ASSUME NEW i \in 1..Len(st)
         PROVE  Sound(u[i], e.cancels) /\ Alike(u[i], o[i]) /\ u[i].parent = Parent(u, i)
    <2>1. Sound(st[i], e.cancels) /\ Alike(st[i], l.open[i]) /\ st[i].parent = Parent(st, i)
      BY DEF EvFollows, Follows
    <2>2. Parent(u, i) = Parent(st, i)
      <3>1. CASE i = 1
        BY <3>1 DEF Parent
      <3>2. CASE i # 1
        <4>1. i - 1 \in 1..Len(st)
          BY <3>2, <1>7
        <4> QED BY <3>2, <4>1, <1>9 DEF Parent
      <3> QED BY <3>1, <3>2
    <2> QED BY <2>1, <2>2, <1>3, <1>5, <1>7, <1>9
  <1>11. Follows(u, e, k)
    BY <1>5, <1>6, <1>7, <1>10 DEF EvFollows, Follows
  <1>12. EvFollows(u, e, k)
    BY <1>6, <1>7, <1>11 DEF EvFollows
  <1> QED BY <1>2, <1>4, <1>12

(* The step on top moves on, and the listener is not told yet. *)
LEMMA EvSilent ==
    ASSUME NEW st, NEW e, NEW l, EvFollows(st, e, l), st # <<>>,
           NEW s \in EvSteps, Goes(Last(st), s), s.wait = Last(st).wait, s.total = Last(st).total
    PROVE  EvFollows(OnTop(st, s), e, l)
  <1> PICK t : t = Last(st)
    OBVIOUS
  <1> PICK h : h = Last(l.open)
    OBVIOUS
  <1>1. /\ t \in EvSteps /\ h \in EvShown /\ Sound(t, e.cancels) /\ Alike(t, h)
        /\ l.open # <<>> /\ l.open \in Seq(EvShown) /\ Len(l.open) = Len(st)
    BY EvTop
  <1>3. Alike(s, h) /\ Sound(s, e.cancels)
    BY <1>1, SMTT(60) DEF Goes, Alike, Sound, EvSteps, EvShown, EvTotals, Unknown
  <1> PICK u : u = OnTop(st, s)
    OBVIOUS
  <1>7. /\ Len(st) \in Nat \ {0} /\ u \in Seq(EvSteps) /\ Len(u) = Len(st)
        /\ \A i \in 1..Len(st) : u[i] = IF i = Len(st) THEN s ELSE st[i]
    <2>1. st \in Seq(EvSteps)
      BY DEF EvFollows
    <2>2. Len(st) \in Nat \ {0}
      BY EvTop
    <2>3. /\ OnTop(st, s) \in Seq(EvSteps) /\ Len(OnTop(st, s)) = Len(st)
          /\ \A i \in 1..Len(st) : OnTop(st, s)[i] = IF i = Len(st) THEN s ELSE st[i]
      BY <2>1, OnTopIs, ZenonT(60)
    <2> QED BY <2>2, <2>3
  <1>8. s.id = t.id /\ s.parent = t.parent
    BY DEF Goes
  <1>9. ASSUME NEW i \in 1..Len(st)
        PROVE  u[i].id = st[i].id /\ u[i].parent = st[i].parent
    BY <1>7, <1>8 DEF Last
  <1>10. ASSUME NEW i \in 1..Len(st)
         PROVE  Sound(u[i], e.cancels) /\ Alike(u[i], l.open[i]) /\ u[i].parent = Parent(u, i)
    <2>1. Sound(st[i], e.cancels) /\ Alike(st[i], l.open[i]) /\ st[i].parent = Parent(st, i)
      BY DEF EvFollows, Follows
    <2>2. Parent(u, i) = Parent(st, i)
      <3>1. CASE i = 1
        BY <3>1 DEF Parent
      <3>2. CASE i # 1
        <4>1. i - 1 \in 1..Len(st)
          BY <3>2, <1>7
        <4> QED BY <3>2, <4>1, <1>9 DEF Parent
      <3> QED BY <3>1, <3>2
    <2> QED BY <2>1, <2>2, <1>1, <1>3, <1>7, <1>9 DEF Last
  <1>11. Follows(u, e, l)
    BY <1>7, <1>10 DEF EvFollows, Follows
  <1> QED BY <1>7, <1>11 DEF EvFollows
(* A step is opened on top of the others: a first attempt, or the next of  *)
(* one that ended so.                                                      *)
NextAttempt(s, e) ==
    IF e.retried.attempt > 0 /\ e.retried.work = s.work
    THEN s.attempt = e.retried.attempt + 1
    ELSE s.attempt = 1

LEMMA EvBegun ==
    ASSUME NEW st, NEW e, NEW l, EvFollows(st, e, l), NEW s \in EvSteps,
           s.id = e.steps + 1, s.done = 0, ~ s.invalid, s.cancels = e.cancels,
           s.parent = IF st = <<>> THEN 0 ELSE Last(st).id,
           NextAttempt(s, e),
           NEW f \in EvStates, f.steps = e.steps + 1, f.cancels = e.cancels,
           f.retried.attempt > 0 => f.retried \in l.past
    PROVE  EvFollows(Append(st, s), f, HearBegin(l, s))
  <1> PICK q : q = l.open
    OBVIOUS
  <1>1. st \in Seq(EvSteps) /\ q \in Seq(EvShown) /\ Len(q) = Len(st) /\ Len(st) \in Nat
    BY LenProperties DEF EvFollows, Follows, EvListeners
  <1>2. l.on /\ l.kept /\ l.steps = e.steps /\ l.cancels = e.cancels /\ l \in EvListeners
    BY DEF EvFollows, Follows
  <1>3. s.parent = IF l.open = <<>> THEN 0 ELSE Last(l.open).id
    <2>1. CASE st = <<>>
      <3>1. q = <<>>
        BY <2>1, <1>1, EmptySeq
      <3> QED BY <3>1, <2>1
    <2>2. CASE st # <<>>
      <3>1. l.open # <<>> /\ Last(l.open).id = Last(st).id
        BY <2>2, EvTop DEF Alike
      <3> QED BY <3>1, <2>2
    <2> QED BY <2>1, <2>2
  <1>4. IF l.retried.attempt > 0 /\ l.retried.work = s.work
        THEN s.attempt = l.retried.attempt + 1
        ELSE s.attempt = 1 \/ [work |-> s.work, attempt |-> s.attempt - 1] \in l.past
    <2>1. /\ l.retried.attempt > 0 => l.retried = e.retried
          /\ e.retried.attempt > 0 => e.retried \in l.past
      BY DEF EvFollows, Follows
    <2>2. e.retried \in EvAttempts \cup {NoWork}
      BY DEF EvFollows, EvStates
    <2>3. CASE e.retried.attempt > 0 /\ e.retried.work = s.work
      <3> PICK r : r = e.retried
        OBVIOUS
      <3>1. s.attempt = r.attempt + 1
        BY <2>3 DEF NextAttempt
      <3>2. r \in EvAttempts
        <4>1. r.attempt > 0
          BY <2>3
        <4>2. NoWork.attempt = 0
          BY DEF NoWork
        <4>3. r # NoWork
          BY <4>1, <4>2
        <4> QED BY <2>2, <4>3
      <3>3. r = [work |-> s.work, attempt |-> s.attempt - 1]
        BY <2>3, <3>1, <3>2 DEF EvAttempts
      <3> QED BY <2>1, <2>3, <3>1, <3>3
    <2>4. CASE ~ (e.retried.attempt > 0 /\ e.retried.work = s.work)
      BY <2>1, <2>4 DEF NextAttempt
    <2> QED BY <2>3, <2>4
  <1>5. BeginFits(l, s)
    BY <1>2, <1>3, <1>4 DEF BeginFits
  <1> PICK x : x = Shown(s, l.cancels, FALSE)
    OBVIOUS
  <1>6. x \in EvShown /\ Alike(s, x) /\ Sound(s, f.cancels)
    BY <1>2 DEF Shown, Alike, Sound, EvSteps, EvShown, EvTotals, Unknown, EvListeners
  <1> PICK o : o = Append(q, x)
    OBVIOUS
  <1> PICK u : u = Append(st, s)
    OBVIOUS
  <1> PICK k : k = [l EXCEPT !.steps = s.id, !.open = o, !.retried = NoWork]
    OBVIOUS
  <1>7. HearBegin(l, s) = k
    BY <1>5 DEF HearBegin
  <1>8. /\ o \in Seq(EvShown) /\ Len(o) = Len(st) + 1 /\ o[Len(st) + 1] = x
        /\ \A i \in 1..Len(st) : o[i] = l.open[i]
    <2>1. /\ o \in Seq(EvShown) /\ Len(o) = Len(q) + 1 /\ o[Len(q) + 1] = x
          /\ \A i \in 1..Len(q) : o[i] = q[i]
      BY <1>1, <1>6, ShownAppended
    <2> QED BY <1>1, <2>1
  <1>9. /\ u \in Seq(EvSteps) /\ Len(u) = Len(st) + 1 /\ u[Len(st) + 1] = s
        /\ \A i \in 1..Len(st) : u[i] = st[i]
    BY <1>1, AppendProperties
  <1>10. /\ k \in EvListeners /\ k.open = o /\ k.kept /\ k.on
         /\ k.steps = f.steps /\ k.cancels = f.cancels /\ k.past = l.past
         /\ k.retried.attempt = 0
    BY <1>2, <1>8 DEF EvListeners, EvSteps, NoWork
  <1>11. ASSUME NEW i \in 1..Len(u)
         PROVE  Sound(u[i], f.cancels) /\ Alike(u[i], o[i]) /\ u[i].parent = Parent(u, i)
    <2>1. CASE i = Len(st) + 1
      <3>1. CASE st = <<>>
        <4>1. Len(st) = 0 /\ i = 1
          BY <3>1, <2>1
        <4>2. s.parent = 0 /\ Parent(u, i) = 0
          BY <3>1, <4>1 DEF Parent
        <4>3. u[i] = s /\ o[i] = x
          BY <2>1, <1>8, <1>9
        <4> QED BY <4>2, <4>3, <1>6
      <3>2. CASE st # <<>>
        <4>1. Len(st) \in 1..Len(st) /\ i # 1 /\ i - 1 = Len(st)
          BY <3>2, <2>1, <1>1, EmptySeq
        <4>2. Parent(u, i) = st[Len(st)].id
          BY <4>1, <1>9 DEF Parent
        <4> QED BY <2>1, <3>2, <4>2, <1>6, <1>8, <1>9 DEF Last
      <3> QED BY <3>1, <3>2
    <2>2. CASE i # Len(st) + 1
      <3>1. i \in 1..Len(st)
        BY <2>2, <1>1, <1>9
      <3>2. Sound(st[i], e.cancels) /\ Alike(st[i], l.open[i]) /\ st[i].parent = Parent(st, i)
        BY <3>1 DEF EvFollows, Follows
      <3>3. Parent(u, i) = Parent(st, i)
        <4>1. CASE i = 1
          BY <4>1 DEF Parent
        <4>2. CASE i # 1
          <5>1. i - 1 \in 1..Len(st)
            BY <4>2, <3>1, <1>1
          <5> QED BY <4>2, <5>1, <1>9 DEF Parent
        <4> QED BY <4>1, <4>2
      <3> QED BY <3>1, <3>2, <3>3, <1>8, <1>9
    <2> QED BY <2>1, <2>2
  <1>12. Follows(u, f, k)
    <2>1. Len(k.open) = Len(u)
      BY <1>8, <1>9, <1>10
    <2>2. \A i \in 1..Len(u) : /\ Sound(u[i], f.cancels) /\ Alike(u[i], k.open[i])
                               /\ u[i].parent = Parent(u, i)
      BY <1>10, <1>11
    <2>3. /\ f.retried.attempt > 0 => f.retried \in k.past
          /\ ~ (k.retried.attempt > 0)
      BY <1>10
    <2> QED BY <2>1, <2>2, <2>3, <1>10 DEF Follows
  <1> QED BY <1>7, <1>9, <1>10, <1>12 DEF EvFollows

(* The step t, as it waits for w. *)
Awaits(t, s, w) == s = [t EXCEPT !.wait = w]

(* The step on top ends. *)
LEMMA EvEnded ==
    ASSUME NEW st, NEW e, NEW l, EvFollows(st, e, l), st # <<>>, NEW outcome,
           outcome = "cancelled" => e.cancels > Last(st).cancels,
           outcome = "failed" => e.cancels <= Last(st).cancels,
           NEW f \in EvStates, f.steps = e.steps, f.cancels = e.cancels,
           f.retried = IF outcome = "retried"
                       THEN [work |-> Last(st).work, attempt |-> Last(st).attempt]
                       ELSE e.retried
    PROVE  /\ EvFollows(Under(st), f, HearEnd(l, Quiet(Last(st)), outcome))
           /\ l.past \subseteq HearEnd(l, Quiet(Last(st)), outcome).past
  <1> PICK t : t = Last(st)
    OBVIOUS
  <1> PICK s : s = Quiet(t)
    OBVIOUS
  <1> PICK q : q = l.open
    OBVIOUS
  <1> PICK h : h = Last(q)
    OBVIOUS
  <1>1. /\ t \in EvSteps /\ h \in EvShown /\ Sound(t, e.cancels) /\ Alike(t, h)
        /\ q # <<>> /\ q \in Seq(EvShown) /\ Len(q) = Len(st) /\ Len(st) \in Nat \ {0}
    BY EvTop
  <1>2. /\ s.id = t.id /\ s.done = t.done /\ s.total = t.total
        /\ s.work = t.work /\ s.attempt = t.attempt
    BY <1>1 DEF EvSteps, Quiet
  <1>3. l.cancels = e.cancels /\ l.kept /\ l.on /\ l.steps = e.steps /\ l \in EvListeners
    BY DEF EvFollows, Follows
  <1>4. CountFits(l, s)
    BY <1>1, <1>2 DEF CountFits, Alike, Sound, EvSteps, EvShown, EvTotals, Unknown
  <1>5. EndFits(l, s, outcome)
    BY <1>1, <1>3, <1>4 DEF EndFits, Alike, Sound, EvSteps, EvListeners
  <1> PICK o : o = Under(q)
    OBVIOUS
  <1> PICK u : u = Under(st)
    OBVIOUS
  <1> PICK a : a = [work |-> t.work, attempt |-> t.attempt]
    OBVIOUS
  <1>6. a \in EvAttempts
    BY <1>1 DEF EvAttempts, EvSteps
  <1> PICK k : k = HearEnd(l, s, outcome)
    OBVIOUS
  <1>7. k = IF outcome # "retried" THEN [l EXCEPT !.open = o]
            ELSE [l EXCEPT !.open = o, !.retried = a, !.past = l.past \cup {a}]
    BY <1>2, <1>5 DEF HearEnd
  <1>8. /\ o \in Seq(EvShown) /\ Len(o) = Len(st) - 1
        /\ \A i \in 1..(Len(st) - 1) : o[i] = l.open[i]
    BY <1>1, UnderIs
  <1>9. /\ u \in Seq(EvSteps) /\ Len(u) = Len(st) - 1
        /\ \A i \in 1..(Len(st) - 1) : u[i] = st[i]
    BY UnderIs DEF EvFollows
  <1>10. /\ k \in EvListeners /\ k.open = o /\ k.kept = l.kept /\ k.on = l.on
         /\ k.steps = l.steps /\ k.cancels = l.cancels /\ l.past \subseteq k.past
         /\ outcome = "retried" => k.retried = a /\ a \in k.past
         /\ outcome # "retried" => k.retried = l.retried
    <2>1. CASE outcome = "retried"
      <3>1. k = [l EXCEPT !.open = o, !.retried = a, !.past = l.past \cup {a}]
        BY <2>1, <1>7
      <3> PICK p : p = l.past \cup {a}
        OBVIOUS
      <3>2. p \in SUBSET EvAttempts /\ l.past \subseteq p /\ a \in p
        BY <1>3, <1>6 DEF EvListeners
      <3>3. k = [l EXCEPT !.open = o, !.retried = a, !.past = p]
        BY <3>1
      <3> QED BY <2>1, <3>2, <3>3, <1>3, <1>6, <1>8 DEF EvListeners
    <2>2. CASE outcome # "retried"
      <3>1. k = [l EXCEPT !.open = o]
        BY <2>2, <1>7
      <3> QED BY <2>2, <3>1, <1>3, <1>8 DEF EvListeners
    <2> QED BY <2>1, <2>2
  <1>11. /\ f.retried.attempt > 0 => f.retried \in k.past
         /\ k.retried.attempt > 0 => k.retried = f.retried
    BY <1>10 DEF EvFollows, Follows
  <1>12. ASSUME NEW i \in 1..Len(u)
         PROVE  Sound(u[i], f.cancels) /\ Alike(u[i], o[i]) /\ u[i].parent = Parent(u, i)
    <2>1. i \in 1..(Len(st) - 1) /\ i \in 1..Len(st)
      BY <1>1, <1>9
    <2>2. Sound(st[i], e.cancels) /\ Alike(st[i], l.open[i]) /\ st[i].parent = Parent(st, i)
      BY <2>1 DEF EvFollows, Follows
    <2>3. Parent(u, i) = Parent(st, i)
      <3>1. CASE i = 1
        BY <3>1 DEF Parent
      <3>2. CASE i # 1
        <4>1. i - 1 \in 1..(Len(st) - 1)
          BY <3>2, <2>1, <1>1
        <4> QED BY <3>2, <4>1, <1>9 DEF Parent
      <3> QED BY <3>1, <3>2
    <2> QED BY <2>1, <2>2, <2>3, <1>8, <1>9
  <1>13. Follows(u, f, k)
    BY <1>3, <1>8, <1>9, <1>10, <1>11, <1>12 DEF Follows
  <1> QED BY <1>9, <1>10, <1>13 DEF EvFollows

(* Nothing of taking back, nor the operation, changes. *)
Same(e, l, f, k) == f.restore = e.restore /\ k.restored = l.restored /\ k.op = l.op

(* No event of a step tells of taking back.                                *)
LEMMA HearsBegin ==
    ASSUME NEW l \in EvListeners, NEW s
    PROVE  HearBegin(l, s).restored = l.restored /\ HearBegin(l, s).op = l.op
  BY DEF HearBegin, Broken, EvListeners

LEMMA HearsEnd ==
    ASSUME NEW l \in EvListeners, NEW s, NEW outcome
    PROVE  HearEnd(l, s, outcome).restored = l.restored /\ HearEnd(l, s, outcome).op = l.op
  BY DEF HearEnd, Broken, EvListeners

LEMMA HearsCount ==
    ASSUME NEW l \in EvListeners, NEW s
    PROVE  /\ HearCount(l, s).restored = l.restored /\ HearCount(l, s).op = l.op
           /\ HearWait(l, s).restored = l.restored /\ HearWait(l, s).op = l.op
  BY DEF HearCount, HearWait, Counted, Broken, EvListeners

LEMMA EvTyped ==
    ASSUME NEW st, NEW e, NEW l, EvFollows(st, e, l)
    PROVE  /\ st \in Seq(EvSteps) /\ e \in EvStates /\ l \in EvListeners
           /\ e.over \in Nat /\ e.steps \in Nat /\ e.cancels \in Nat
           /\ e.retried.attempt \in Nat /\ Len(st) \in Nat
           /\ st # <<>> => Len(st) # 0
           /\ st = <<>> => Len(st) = 0
  <1>1. st \in Seq(EvSteps) /\ e \in EvStates /\ l \in EvListeners
    BY DEF EvFollows
  <1> PICK r : r = e.retried
    OBVIOUS
  <1>2. /\ r \in EvAttempts \cup {NoWork}
        /\ e.over \in Nat /\ e.steps \in Nat /\ e.cancels \in Nat
    BY <1>1 DEF EvStates
  <1>3. r.attempt \in Nat
    <2>1. NoWork.attempt = 0
      BY DEF NoWork
    <2>2. r = NoWork => r.attempt \in Nat
      BY <2>1
    <2>3. r \in EvAttempts => r.attempt \in Nat
      BY DEF EvAttempts
    <2> QED BY <1>2, <2>2, <2>3
  <1>4. Len(st) \in Nat /\ (st # <<>> => Len(st) # 0) /\ (st = <<>> => Len(st) = 0)
    BY <1>1, LenProperties, EmptySeq
  <1> QED BY <1>1, <1>2, <1>3, <1>4

(* ev_begin and ev_end keep what the listener knows.                       *)
LEMMA EvBeginStep ==
    ASSUME EventsAssumption, EvFollows(stack, ev, heard), NEW w \in EvDoings, NEW t \in EvTotals,
           BeginStep(w, t)
    PROVE  /\ EvFollows(stack', ev', heard') /\ Same(ev, heard, ev', heard')
           /\ ev.over = 0 /\ stack = <<>> => ev'.over = 0 /\ Len(stack') = 1
  <1> PICK r : r = ev.retried
    OBVIOUS
  <1>1. /\ stack \in Seq(EvSteps) /\ ev \in EvStates /\ heard \in EvListeners
        /\ ev.over \in Nat /\ ev.steps \in Nat /\ ev.cancels \in Nat
        /\ r.attempt \in Nat /\ Len(stack) \in Nat
        /\ stack = <<>> => Len(stack) = 0
    BY EvTyped
  <1>2. CASE ev.over > 0 \/ Len(stack) = Depth
    <2>1. ev' = [ev EXCEPT !.over = @ + 1] /\ stack' = stack /\ heard' = heard
      BY <1>2 DEF BeginStep
    <2>2. /\ ev' \in EvStates /\ ev'.steps = ev.steps /\ ev'.cancels = ev.cancels
          /\ ev'.retried = ev.retried /\ ev'.restore = ev.restore
      BY <2>1, <1>1 DEF EvStates
    <2>3. EvFollows(stack', ev', heard')
      BY <2>1, <2>2 DEF EvFollows, Follows
    <2>4. ~ (ev.over = 0 /\ stack = <<>>)
      BY <1>1, <1>2 DEF EventsAssumption
    <2> QED BY <2>1, <2>2, <2>3, <2>4 DEF Same
  <1>3. CASE ~ (ev.over > 0 \/ Len(stack) = Depth)
    <2> PICK a : a = IF r.attempt > 0 /\ r.work = w THEN r.attempt + 1 ELSE 1
      OBVIOUS
    <2> PICK p : p = IF stack = <<>> THEN 0 ELSE Last(stack).id
      OBVIOUS
    <2> PICK s : s = Opened(w, a, t, p)
      OBVIOUS
    <2>1. /\ stack' = Append(stack, s)
          /\ ev' = [ev EXCEPT !.steps = @ + 1, !.retried = NoWork]
          /\ heard' = HearBegin(heard, s)
      BY <1>3 DEF BeginStep, Top
    <2>2. a \in Nat \ {0}
      BY <1>1
    <2>3. p \in Nat
      <3>1. CASE stack = <<>>
        BY <3>1
      <3>2. CASE stack # <<>>
        <4>1. Last(stack) \in EvSteps
          BY <3>2, EvTop
        <4> QED BY <3>2, <4>1 DEF EvSteps
      <3> QED BY <3>1, <3>2
    <2>4. /\ s \in EvSteps /\ s.id = ev.steps + 1 /\ s.done = 0 /\ ~ s.invalid
          /\ s.cancels = ev.cancels /\ s.parent = p /\ s.work = w /\ s.attempt = a
      BY <1>1, <2>2, <2>3 DEF Opened, EvSteps
    <2>5. NextAttempt(s, ev)
      BY <2>4 DEF NextAttempt
    <2>6. /\ ev' \in EvStates /\ ev'.steps = ev.steps + 1 /\ ev'.cancels = ev.cancels
          /\ ev'.retried = NoWork /\ ev'.restore = ev.restore /\ ev'.over = ev.over
      <3> PICK n : n = NoWork
        OBVIOUS
      <3> PICK k : k = ev.steps + 1
        OBVIOUS
      <3>1. ev' = [ev EXCEPT !.steps = k, !.retried = n]
        BY <2>1
      <3>2. n \in EvAttempts \cup {NoWork} /\ k \in Nat
        BY <1>1
      <3>3. ev' \in EvStates
        BY <3>1, <3>2, <1>1 DEF EvStates
      <3>4. /\ ev'.steps = k /\ ev'.cancels = ev.cancels
            /\ ev'.retried = n /\ ev'.restore = ev.restore /\ ev'.over = ev.over
        BY <3>1, <1>1 DEF EvStates
      <3> QED BY <3>3, <3>4
    <2>7. ~ (ev'.retried.attempt > 0)
      <3>1. NoWork.attempt = 0
        BY DEF NoWork
      <3> QED BY <3>1, <2>6
    <2> PICK f : f = ev'
      OBVIOUS
    <2>8. EvFollows(Append(stack, s), f, HearBegin(heard, s))
      BY <2>4, <2>5, <2>6, <2>7, EvBegun
    <2>9. HearBegin(heard, s).restored = heard.restored /\ HearBegin(heard, s).op = heard.op
      BY <1>1, HearsBegin
    <2>10. Len(stack') = Len(stack) + 1
      BY <2>1, <2>4, <1>1, AppendProperties
    <2> QED BY <2>1, <2>6, <2>8, <2>9, <2>10, <1>1 DEF Same
  <1> QED BY <1>2, <1>3

LEMMA EvEndStep ==
    ASSUME EvFollows(stack, ev, heard), stack # <<>> \/ ev.over > 0,
           NEW outcome, outcome # "cancelled", EndStep(outcome)
    PROVE  /\ EvFollows(stack', ev', heard') /\ Same(ev, heard, ev', heard')
           /\ ev.over = 0 => ev'.over = 0 /\ Len(stack') = Len(stack) - 1
  <1>1. /\ stack \in Seq(EvSteps) /\ ev \in EvStates /\ heard \in EvListeners
        /\ ev.over \in Nat /\ ev.steps \in Nat /\ ev.cancels \in Nat
    BY EvTyped
  <1>2. CASE ev.over > 0
    <2>1. ev' = [ev EXCEPT !.over = @ - 1] /\ stack' = stack /\ heard' = heard
      BY <1>2 DEF EndStep
    <2>2. /\ ev' \in EvStates /\ ev'.steps = ev.steps /\ ev'.cancels = ev.cancels
          /\ ev'.retried = ev.retried /\ ev'.restore = ev.restore
      BY <2>1, <1>1, <1>2 DEF EvStates
    <2>3. EvFollows(stack', ev', heard')
      BY <2>1, <2>2 DEF EvFollows, Follows
    <2> QED BY <1>2, <2>1, <2>2, <2>3 DEF Same
  <1>3. CASE ~ (ev.over > 0)
    <2> PICK t : t = Last(stack)
      OBVIOUS
    <2> PICK s : s = Quiet(t)
      OBVIOUS
    <2> PICK o : o = IF outcome = "failed" /\ ev.cancels > t.cancels THEN "cancelled" ELSE outcome
      OBVIOUS
    <2> PICK a : a = [work |-> t.work, attempt |-> t.attempt]
      OBVIOUS
    <2>1. /\ stack' = Under(stack)
          /\ ev' = IF outcome = "retried" THEN [ev EXCEPT !.retried = a] ELSE ev
          /\ heard' = HearEnd(heard, s, o)
      BY <1>3 DEF EndStep, Top
    <2>2. stack # <<>> /\ t \in EvSteps
      BY <1>3, EvTop
    <2>4. a \in EvAttempts
      BY <2>2 DEF EvAttempts, EvSteps
    <2>5. /\ ev' \in EvStates /\ ev'.steps = ev.steps /\ ev'.cancels = ev.cancels
          /\ ev'.restore = ev.restore /\ ev'.over = ev.over
          /\ ev'.retried = IF outcome = "retried" THEN a ELSE ev.retried
      <3>1. CASE outcome = "retried"
        BY <3>1, <2>1, <2>4, <1>1 DEF EvStates
      <3>2. CASE outcome # "retried"
        BY <3>2, <2>1, <1>1
      <3> QED BY <3>1, <3>2
    <2>6. /\ o = "cancelled" => ev.cancels > t.cancels
          /\ o = "failed" => ev.cancels <= t.cancels
          /\ o = "retried" <=> outcome = "retried"
      BY <1>1, <2>2, SMTT(60) DEF EvSteps
    <2> PICK f : f = ev'
      OBVIOUS
    <2>7. EvFollows(Under(stack), f, HearEnd(heard, s, o))
      BY <2>2, <2>5, <2>6, EvEnded
    <2>8. HearEnd(heard, s, o).restored = heard.restored /\ HearEnd(heard, s, o).op = heard.op
      BY <1>1, HearsEnd
    <2>9. Len(stack') = Len(stack) - 1
      BY <2>1, <2>2, <1>1, UnderIs
    <2> QED BY <2>1, <2>5, <2>7, <2>8, <2>9 DEF Same
  <1> QED BY <1>2, <1>3

LEMMA StepOnTop ==
    ASSUME NEW q \in Seq(EvSteps), q # <<>>, NEW x \in EvSteps
    PROVE  /\ OnTop(q, x) \in Seq(EvSteps) /\ Len(OnTop(q, x)) = Len(q)
           /\ \A i \in 1..Len(q) : OnTop(q, x)[i] = IF i = Len(q) THEN x ELSE q[i]
  BY OnTopIs

(* A step changed twice, or dropped and another put in its place.          *)
LEMMA StepsOnTop ==
    ASSUME NEW q \in Seq(EvSteps), q # <<>>, NEW x \in EvSteps, NEW y \in EvSteps
    PROVE  /\ OnTop(q, x) \in Seq(EvSteps) /\ OnTop(q, x) # <<>> /\ Last(OnTop(q, x)) = x
           /\ OnTop(OnTop(q, x), y) = OnTop(q, y)
           /\ Under(OnTop(q, x)) \in Seq(EvSteps)
           /\ Append(Under(OnTop(q, x)), y) = OnTop(q, y)
  <1>1. Len(q) \in Nat \ {0}
    BY EmptySeq, LenProperties
  <1> PICK u : u = OnTop(q, x)
    OBVIOUS
  <1> PICK v : v = OnTop(q, y)
    OBVIOUS
  <1> PICK w : w = OnTop(u, y)
    OBVIOUS
  <1>2. /\ u \in Seq(EvSteps) /\ Len(u) = Len(q)
        /\ \A i \in 1..Len(q) : u[i] = IF i = Len(q) THEN x ELSE q[i]
    BY StepOnTop
  <1>3. /\ v \in Seq(EvSteps) /\ Len(v) = Len(q)
        /\ \A i \in 1..Len(q) : v[i] = IF i = Len(q) THEN y ELSE q[i]
    BY StepOnTop
  <1>4. u # <<>> /\ Last(u) = x
    BY <1>1, <1>2, EmptySeq DEF Last
  <1>5. /\ w \in Seq(EvSteps) /\ Len(w) = Len(u)
        /\ \A i \in 1..Len(u) : w[i] = IF i = Len(u) THEN y ELSE u[i]
    BY <1>2, <1>4, StepOnTop
  <1>6. w = v
    <2>1. \A i \in 1..Len(w) : w[i] = v[i]
      BY <1>1, <1>2, <1>3, <1>5
    <2>2. Len(w) = Len(v)
      BY <1>2, <1>3, <1>5
    <2> QED BY <2>1, <2>2, <1>3, <1>5, SeqEqual
  <1> PICK r : r = Under(u)
    OBVIOUS
  <1>7. /\ r \in Seq(EvSteps) /\ Len(r) = Len(u) - 1
        /\ \A i \in 1..(Len(u) - 1) : r[i] = u[i]
    BY <1>2, <1>4, UnderIs
  <1> PICK z : z = Append(r, y)
    OBVIOUS
  <1>8. /\ z \in Seq(EvSteps) /\ Len(z) = Len(r) + 1 /\ z[Len(r) + 1] = y
        /\ \A i \in 1..Len(r) : z[i] = r[i]
    BY <1>7, AppendProperties
  <1>9. z = v
    <2>1. Len(z) = Len(v) /\ Len(z) = Len(q) /\ Len(r) = Len(q) - 1
      BY <1>1, <1>2, <1>3, <1>7, <1>8
    <2>2. ASSUME NEW i \in 1..Len(z)
          PROVE  z[i] = v[i]
      <3>1. CASE i = Len(q)
        <4>1. i = Len(r) + 1
          BY <3>1, <2>1, <1>1
        <4>2. z[i] = y
          BY <4>1, <1>8
        <4>3. v[i] = y
          BY <3>1, <1>1, <1>3
        <4> QED BY <4>2, <4>3
      <3>2. CASE i # Len(q)
        <4>1. i \in 1..Len(r) /\ i \in 1..(Len(u) - 1) /\ i \in 1..Len(q)
          BY <3>2, <2>1, <1>1, <1>2
        <4> QED BY <3>2, <4>1, <1>2, <1>3, <1>7, <1>8
      <3> QED BY <3>1, <3>2
    <2> QED BY <2>1, <2>2, <1>3, <1>8, SeqEqual
  <1> QED BY <1>2, <1>4, <1>6, <1>7, <1>9

(* The step on top moves on, and the listener is told at once or later.    *)
LEMMA EvMoved ==
    ASSUME NEW st, NEW e, NEW l, EvFollows(st, e, l), st # <<>>,
           NEW s \in EvSteps, Goes(Last(st), s), s.wait = Last(st).wait,
           NEW now, ~ now => s.total = Last(st).total, Moved(l, s, now)
    PROVE  /\ EvFollows(OnTop(st, s), e, heard')
           /\ heard'.restored = l.restored /\ heard'.op = l.op
  <1>1. l \in EvListeners
    BY EvTyped
  <1>2. CASE heard' = HearCount(l, s)
    <2>1. CountFits(l, s) /\ EvFollows(OnTop(st, s), e, Counted(l, s))
      BY EvCounted
    <2>2. heard' = Counted(l, s)
      BY <1>2, <2>1 DEF HearCount
    <2>3. HearCount(l, s).restored = l.restored /\ HearCount(l, s).op = l.op
      BY <1>1, HearsCount
    <2> QED BY <1>2, <2>1, <2>2, <2>3
  <1>3. CASE ~ now /\ heard' = l
    BY <1>3, EvSilent
  <1> QED BY <1>2, <1>3 DEF Moved

(* The step on top begins to wait, or waits no more.                       *)
LEMMA EvWaited ==
    ASSUME NEW st, NEW e, NEW l, EvFollows(st, e, l), st # <<>>,
           NEW s \in EvSteps, Goes(Last(st), s), s.wait # Last(st).wait
    PROVE  /\ EvFollows(OnTop(st, s), e, HearWait(l, s))
           /\ HearWait(l, s).restored = l.restored /\ HearWait(l, s).op = l.op
  <1>1. Alike(Last(st), Last(l.open))
    BY EvTop
  <1>2. CountFits(l, s) /\ EvFollows(OnTop(st, s), e, Counted(l, s))
    BY EvCounted
  <1>3. WaitFits(l, s)
    BY <1>1, <1>2 DEF WaitFits, Alike
  <1>4. HearWait(l, s) = Counted(l, s)
    BY <1>3 DEF HearWait
  <1>5. HearWait(l, s).restored = l.restored /\ HearWait(l, s).op = l.op
    BY HearsCount, EvTyped
  <1> QED BY <1>2, <1>4, <1>5

LEMMA WaitGoes ==
    ASSUME NEW t \in EvSteps, NEW c, Sound(t, c), NEW w \in Peers \cup {"none"}, NEW s,
           Awaits(t, s, w)
    PROVE  /\ s \in EvSteps /\ s.wait = w /\ Goes(t, s)
           /\ s.total = t.total /\ s.done = t.done /\ s.work = t.work /\ s.attempt = t.attempt
           /\ s.parent = t.parent /\ s.cancels = t.cancels /\ s.invalid = t.invalid
  <1>1. /\ s \in EvSteps /\ s.wait = w /\ s.work = t.work /\ s.attempt = t.attempt
        /\ s.id = t.id /\ s.parent = t.parent /\ s.cancels = t.cancels
        /\ s.done = t.done /\ s.total = t.total /\ s.invalid = t.invalid
    BY DEF EvSteps, Awaits
  <1>2. Goes(t, s)
    BY <1>1 DEF Goes, Sound, EvSteps, EvTotals
  <1> QED BY <1>1, <1>2

(* What bytes make of a step is what it may become.                        *)
LEMMA NowCountsIs ==
    ASSUME NEW t \in EvSteps, t.invalid => t.total = Unknown,
           t.total # Unknown => t.done <= t.total,
           NEW done \in Nat, done >= t.done, NEW total \in EvTotals
    PROVE  /\ NowCounts(t, done, total).step \in EvSteps
           /\ Goes(t, NowCounts(t, done, total).step)
           /\ NowCounts(t, done, total).step.wait = t.wait
           /\ ~ NowCounts(t, done, total).now => NowCounts(t, done, total).step.total = t.total
  <1> PICK told : told = (total # Unknown /\ ~ t.invalid /\ t.total # total)
    OBVIOUS
  <1> PICK a : a = IF ~ told THEN t
                   ELSE IF t.total = Unknown THEN [t EXCEPT !.total = total] ELSE Disbelieved(t)
    OBVIOUS
  <1> PICK u : u = [a EXCEPT !.done = done]
    OBVIOUS
  <1> PICK s : s = IF Passed(u) THEN Disbelieved(u) ELSE u
    OBVIOUS
  <1> PICK c : c = NowCounts(t, done, total)
    OBVIOUS
  <1>1. c.step = s /\ (c.now <=> told \/ Passed(u))
    BY DEF NowCounts
  <1>2. /\ a \in EvSteps /\ a.wait = t.wait /\ a.done = t.done
        /\ a.id = t.id /\ a.parent = t.parent /\ a.cancels = t.cancels
        /\ a.invalid => a.total = Unknown
        /\ t.invalid => a.invalid
        /\ a.total # Unknown => t.total \in {Unknown, a.total}
        /\ t.total # Unknown /\ a.total = Unknown => a.invalid
        /\ ~ told => a.total = t.total
    <2>1. CASE ~ told
      BY <2>1
    <2>2. CASE told /\ t.total = Unknown
      <3>1. a = [t EXCEPT !.total = total]
        BY <2>2
      <3> QED BY <2>2, <3>1 DEF EvSteps, EvTotals, Unknown
    <2>3. CASE told /\ t.total # Unknown
      <3>1. a = [t EXCEPT !.total = Unknown, !.invalid = TRUE]
        BY <2>3 DEF Disbelieved
      <3> QED BY <2>3, <3>1 DEF EvSteps, EvTotals, Unknown
    <2> QED BY <2>1, <2>2, <2>3
  <1>3. /\ u \in EvSteps /\ u.wait = t.wait /\ u.done = done
        /\ u.id = t.id /\ u.parent = t.parent /\ u.cancels = t.cancels
        /\ u.total = a.total /\ u.invalid = a.invalid
    BY <1>2 DEF EvSteps
  <1>4. CASE Passed(u)
    <2>1. s = [u EXCEPT !.total = Unknown, !.invalid = TRUE]
      BY <1>4 DEF Disbelieved
    <2>2. /\ s \in EvSteps /\ s.wait = t.wait /\ s.done = done
          /\ s.id = t.id /\ s.parent = t.parent /\ s.cancels = t.cancels
          /\ s.total = Unknown /\ s.invalid
      BY <1>3, <2>1, ZenonT(60) DEF EvSteps, EvTotals, Unknown
    <2>3. Goes(t, s)
      BY <2>2 DEF Goes
    <2> QED BY <1>1, <1>4, <2>2, <2>3
  <1>5. CASE ~ Passed(u)
    <2>1. s = u
      BY <1>5
    <2>2. u.total # Unknown => u.done <= u.total
      BY <1>3, <1>5 DEF Passed, EvSteps, EvTotals, Unknown
    <2>3. Goes(t, u)
      BY <1>2, <1>3, <2>2 DEF Goes
    <2> QED BY <1>1, <1>2, <1>3, <1>5, <2>1, <2>3
  <1> QED BY <1>4, <1>5

(* The invariant, taken apart and put together while an operation runs.    *)
LEMMA EvAt ==
    ASSUME EvInv, op.pc # "idle"
    PROVE  /\ EvFollows(stack, ev, heard) /\ Worst(ev, heard) /\ Places(op, stack, ev)
           /\ op \in EvOps /\ heard.op = op.id
  BY DEF EvInv, EvTypes, EvFollows

LEMMA EvKeeps ==
    ASSUME op' \in EvOps, op'.pc # "idle", EvFollows(stack', ev', heard'),
           Worst(ev', heard'), Places(op', stack', ev'), heard'.op = op'.id
    PROVE  EvInv'
  <1>1. EvTypes'
    BY DEF EvTypes, EvFollows
  <1> QED BY <1>1 DEF EvInv, EvFollows

LEMMA SameWorst ==
    ASSUME NEW e, NEW l, NEW f, NEW k, Worst(e, l), Same(e, l, f, k)
    PROVE  Worst(f, k)
  BY DEF Worst, Same

(* What the verb does leaves the operation where it is. *)
LEMMA EvWorks ==
    ASSUME EvInv, op.pc = "verb", op' = op, EvFollows(stack', ev', heard'),
           Same(ev, heard, ev', heard')
    PROVE  EvInv'
  <1>1. Worst(ev, heard) /\ op \in EvOps /\ heard.op = op.id
    BY EvAt
  <1>2. Worst(ev', heard')
    BY <1>1, SameWorst
  <1>3. Places(op', stack', ev') /\ heard'.op = op'.id /\ op'.pc # "idle" /\ op' \in EvOps
    BY <1>1 DEF Places, Same
  <1> QED BY <1>2, <1>3, EvKeeps

(* What the verb does, one call after the other.                           *)
LEMMA EvBeginKeeps ==
    ASSUME EventsAssumption, EvInv, NEW w \in Transfers \cup Tasks,
           NEW t \in Counts \cup {Unknown}, Begin(w, t)
    PROVE  EvInv'
  <1>1. op.pc = "verb" /\ op' = op /\ BeginStep(w, t)
    BY DEF Begin, Running
  <1>2. w \in EvDoings /\ t \in EvTotals
    BY DEF EvDoings, EvTotals, Counts, EventsAssumption
  <1>3. EvFollows(stack, ev, heard)
    BY <1>1, EvAt
  <1>4. EvFollows(stack', ev', heard') /\ Same(ev, heard, ev', heard')
    BY <1>1, <1>2, <1>3, EvBeginStep
  <1> QED BY <1>1, <1>4, EvWorks

LEMMA EvEndKeeps ==
    ASSUME EvInv, NEW o \in {"ok", "failed", "retried", "absent"}, End(o)
    PROVE  EvInv'
  <1>1. op.pc = "verb" /\ op' = op /\ EndStep(o) /\ (stack # <<>> \/ ev.over > 0)
    BY DEF End, Running
  <1>2. EvFollows(stack, ev, heard)
    BY <1>1, EvAt
  <1>3. EvFollows(stack', ev', heard') /\ Same(ev, heard, ev', heard')
    BY <1>1, <1>2, EvEndStep
  <1> QED BY <1>1, <1>3, EvWorks

LEMMA EvCountKeeps ==
    ASSUME EventsAssumption, EvInv, NEW done \in Counts, Count(done)
    PROVE  EvInv'
  <1> PICK t : t = Top
    OBVIOUS
  <1> PICK u : u = [t EXCEPT !.done = done]
    OBVIOUS
  <1> PICK s : s = IF Passed(u) THEN Disbelieved(u) ELSE u
    OBVIOUS
  <1>1. /\ op.pc = "verb" /\ op' = op /\ ev' = ev /\ stack # <<>> /\ done > t.done
        /\ stack' = OnTop(stack, s) /\ Moved(heard, s, Passed(u))
    BY DEF Count, Heeded, Running, SetTop
  <1>2. EvFollows(stack, ev, heard)
    BY <1>1, EvAt
  <1>3. t = Last(stack) /\ t \in EvSteps /\ Sound(t, ev.cancels) /\ done \in Nat
    BY <1>1, <1>2, EvTop DEF Top, Counts
  <1>4. /\ u \in EvSteps /\ u.done = done /\ u.wait = t.wait /\ u.total = t.total
        /\ u.id = t.id /\ u.parent = t.parent /\ u.cancels = t.cancels /\ u.invalid = t.invalid
    BY <1>3 DEF EvSteps
  <1>5. /\ s \in EvSteps /\ Goes(t, s) /\ s.wait = t.wait
        /\ ~ Passed(u) => s.total = t.total
    <2>1. CASE Passed(u)
      <3>1. s = [u EXCEPT !.total = Unknown, !.invalid = TRUE]
        BY <2>1 DEF Disbelieved
      <3>2. /\ s \in EvSteps /\ s.wait = t.wait /\ s.done = done
            /\ s.id = t.id /\ s.parent = t.parent /\ s.cancels = t.cancels
            /\ s.total = Unknown /\ s.invalid
        BY <1>4, <3>1, ZenonT(60) DEF EvSteps, EvTotals, Unknown
      <3> QED BY <1>1, <1>3, <2>1, <3>2, SMTT(60) DEF Goes, EvSteps
    <2>2. CASE ~ Passed(u)
      <3>1. s = u
        BY <2>2
      <3>2. u.total # Unknown => u.done <= u.total
        BY <1>4, <2>2 DEF Passed, EvSteps, EvTotals, Unknown
      <3>3. Goes(t, u)
        BY <1>1, <1>3, <1>4, <3>2 DEF Goes, Sound, EvSteps
      <3> QED BY <1>4, <3>1, <3>3
    <2> QED BY <2>1, <2>2
  <1> PICK now : now = Passed(u)
    OBVIOUS
  <1>6. /\ EvFollows(stack', ev', heard')
        /\ heard'.restored = heard.restored /\ heard'.op = heard.op
    BY <1>1, <1>2, <1>3, <1>5, EvMoved
  <1> QED BY <1>1, <1>6, EvWorks DEF Same

LEMMA EvTotalKeeps ==
    ASSUME EventsAssumption, EvInv, NEW total \in Counts, Total(total)
    PROVE  EvInv'
  <1> PICK t : t = Top
    OBVIOUS
  <1> PICK s : s = WholeTold(t, total)
    OBVIOUS
  <1>1. /\ op.pc = "verb" /\ op' = op /\ ev' = ev /\ stack # <<>> /\ ~ t.invalid /\ t.total # total
        /\ stack' = OnTop(stack, s) /\ Moved(heard, s, TRUE)
    BY DEF Total, Heeded, Running, SetTop
  <1>2. EvFollows(stack, ev, heard)
    BY <1>1, EvAt
  <1>3. t = Last(stack) /\ t \in EvSteps /\ Sound(t, ev.cancels) /\ total \in Nat
    BY <1>1, <1>2, EvTop DEF Top, Counts
  <1>5. s \in EvSteps /\ Goes(t, s) /\ s.wait = t.wait
    <2>1. CASE t.total # Unknown \/ t.done > total
      <3>1. s = [t EXCEPT !.total = Unknown, !.invalid = TRUE]
        BY <2>1 DEF Disbelieved, WholeTold
      <3>2. /\ s \in EvSteps /\ s.wait = t.wait /\ s.done = t.done
            /\ s.id = t.id /\ s.parent = t.parent /\ s.cancels = t.cancels
            /\ s.total = Unknown /\ s.invalid
        BY <1>3, <3>1 DEF EvSteps, EvTotals, Unknown
      <3> QED BY <1>3, <3>2 DEF Goes, EvSteps
    <2>2. CASE ~ (t.total # Unknown \/ t.done > total)
      <3>1. s = [t EXCEPT !.total = total]
        BY <2>2 DEF WholeTold
      <3>2. /\ s \in EvSteps /\ s.wait = t.wait /\ s.done = t.done
            /\ s.id = t.id /\ s.parent = t.parent /\ s.cancels = t.cancels
            /\ s.total = total /\ s.invalid = t.invalid
        BY <1>3, <3>1 DEF EvSteps, EvTotals, Unknown
      <3> QED BY <1>1, <1>3, <2>2, <3>2 DEF Goes, EvSteps, EvTotals, Unknown
    <2> QED BY <2>1, <2>2
  <1>6. /\ EvFollows(stack', ev', heard')
        /\ heard'.restored = heard.restored /\ heard'.op = heard.op
    BY <1>1, <1>2, <1>3, <1>5, EvMoved
  <1> QED BY <1>1, <1>6, EvWorks DEF Same

LEMMA EvWaitKeeps ==
    ASSUME EvInv, NEW host \in Peers \cup {"none"}, Wait(host)
    PROVE  EvInv'
  <1> PICK s : s = [Top EXCEPT !.wait = host]
    OBVIOUS
  <1>1. /\ op.pc = "verb" /\ op' = op /\ ev' = ev /\ stack # <<>> /\ host # Last(stack).wait
        /\ stack' = OnTop(stack, s) /\ heard' = HearWait(heard, s)
        /\ Awaits(Last(stack), s, host)
    BY DEF Wait, Heeded, Running, SetTop, Top, Awaits
  <1>2. EvFollows(stack, ev, heard)
    BY <1>1, EvAt
  <1>3. Last(stack) \in EvSteps /\ Sound(Last(stack), ev.cancels)
    BY <1>1, <1>2, EvTop
  <1>4. s \in EvSteps /\ Goes(Last(stack), s) /\ s.wait # Last(stack).wait
    BY <1>1, <1>3, WaitGoes
  <1>5. /\ EvFollows(OnTop(stack, s), ev, HearWait(heard, s))
        /\ HearWait(heard, s).restored = heard.restored
        /\ HearWait(heard, s).op = heard.op
    BY <1>1, <1>2, <1>4, EvWaited, ZenonT(60)
  <1>6. EvFollows(stack', ev', heard') /\ Same(ev, heard, ev', heard')
    BY <1>1, <1>5 DEF Same
  <1> QED BY <1>1, <1>6, EvWorks

(* Bytes are heard as a wait that ends, an end and a beginning, and a count. *)
LEMMA EvBytesOn ==
    ASSUME EvInv, NEW done \in Nat, NEW total \in EvTotals, Bytes(done, total)
    PROVE  EvInv'
  <1> PICK t : t = Top
    OBVIOUS
  <1> PICK quiet : quiet = Quiet(t)
    OBVIOUS
  <1> PICK l : l = IF t.wait = "none" THEN heard ELSE HearWait(heard, quiet)
    OBVIOUS
  <1>1. op.pc = "verb" /\ op' = op /\ stack # <<>> /\ t = Last(stack)
    BY DEF Bytes, Heeded, Running, Top
  <1>2. EvFollows(stack, ev, heard)
    BY <1>1, EvAt
  <1>3. /\ t \in EvSteps /\ Sound(t, ev.cancels)
        /\ stack \in Seq(EvSteps) /\ ev \in EvStates /\ heard \in EvListeners
        /\ Len(stack) \in Nat \ {0} /\ ev.steps \in Nat
    BY <1>1, <1>2, EvTop, EvTyped
  <1>4. /\ quiet \in EvSteps /\ Goes(t, quiet) /\ quiet.wait = "none"
        /\ quiet.total = t.total /\ quiet.done = t.done /\ quiet.invalid = t.invalid
        /\ quiet.work = t.work /\ quiet.attempt = t.attempt
        /\ quiet.parent = t.parent /\ quiet.cancels = t.cancels
    <2> PICK w : w = "none"
      OBVIOUS
    <2>1. Awaits(t, quiet, w) /\ w \in Peers \cup {"none"}
      BY DEF Quiet, Awaits
    <2> PICK n : n = ev.cancels
      OBVIOUS
    <2>2. Sound(t, n)
      BY <1>3
    <2>3. /\ quiet \in EvSteps /\ quiet.wait = w /\ Goes(t, quiet)
          /\ quiet.total = t.total /\ quiet.done = t.done /\ quiet.work = t.work
          /\ quiet.attempt = t.attempt /\ quiet.parent = t.parent
          /\ quiet.cancels = t.cancels /\ quiet.invalid = t.invalid
      BY <1>3, <2>1, <2>2, WaitGoes
    <2> QED BY <2>3
  <1> PICK st : st = OnTop(stack, quiet)
    OBVIOUS
  <1>5. EvFollows(st, ev, l) /\ l.restored = heard.restored /\ l.op = heard.op
    <2>1. CASE t.wait = "none"
      <3>1. l = heard
        BY <2>1
      <3> QED BY <3>1, <2>1, <1>1, <1>2, <1>4, EvSilent
    <2>2. CASE t.wait # "none"
      <3>1. l = HearWait(heard, quiet)
        BY <2>2
      <3> QED BY <3>1, <2>2, <1>1, <1>2, <1>4, EvWaited
    <2> QED BY <2>1, <2>2
  <1>6. st # <<>> /\ Last(st) = quiet
    BY <1>1, <1>3, <1>4, StepsOnTop
  <1>7. CASE ~ (done < t.done)
    <2> PICK c : c = NowCounts(quiet, done, total)
      OBVIOUS
    <2>1. /\ ev' = ev /\ stack' = OnTop(stack, c.step)
          /\ IF c.now \/ done # t.done THEN Moved(l, c.step, c.now) ELSE heard' = l
      BY <1>7 DEF Bytes, SetTop
    <2>2. done >= quiet.done
      BY <1>3, <1>4, <1>7 DEF EvSteps
    <2>3. /\ c.step \in EvSteps /\ Goes(quiet, c.step) /\ c.step.wait = quiet.wait
          /\ ~ c.now => c.step.total = quiet.total
      BY <2>2, <1>3, <1>4, NowCountsIs DEF Sound
    <2> PICK s : s = c.step
      OBVIOUS
    <2> PICK now : now = c.now
      OBVIOUS
    <2>4. OnTop(st, s) = stack'
      BY <2>1, <2>3, <1>1, <1>3, <1>4, StepsOnTop
    <2>5. CASE c.now \/ done # t.done
      <3>1. Moved(l, s, now)
        BY <2>1, <2>5
      <3>2. /\ EvFollows(OnTop(st, s), ev, heard')
            /\ heard'.restored = l.restored /\ heard'.op = l.op
        BY <3>1, <2>3, <1>5, <1>6, EvMoved
      <3> QED BY <3>2, <2>1, <2>4, <1>1, <1>5, EvWorks DEF Same
    <2>6. CASE ~ (c.now \/ done # t.done)
      <3>1. heard' = l
        BY <2>1, <2>6
      <3>2. EvFollows(OnTop(st, s), ev, l)
        BY <2>3, <2>6, <1>5, <1>6, EvSilent
      <3> QED BY <3>1, <3>2, <2>1, <2>4, <1>1, <1>5, EvWorks DEF Same
    <2> QED BY <2>5, <2>6
  <1>8. CASE done < t.done
    <2> PICK again : again = Opened(t.work, t.attempt + 1, Unknown, t.parent)
      OBVIOUS
    <2> PICK h : h = HearEnd(l, quiet, "retried")
      OBVIOUS
    <2> PICK k : k = HearBegin(h, again)
      OBVIOUS
    <2> PICK c : c = NowCounts(again, done, total)
      OBVIOUS
    <2>1. /\ ev' = [ev EXCEPT !.steps = @ + 1] /\ stack' = OnTop(stack, c.step)
          /\ Moved(k, c.step, c.now)
      BY <1>8 DEF Bytes, SetTop
    <2> PICK a : a = [work |-> t.work, attempt |-> t.attempt]
      OBVIOUS
    <2> PICK f : f = [ev EXCEPT !.retried = a]
      OBVIOUS
    <2>2. a \in EvAttempts
      BY <1>3 DEF EvAttempts, EvSteps
    <2>3. f \in EvStates /\ f.steps = ev.steps /\ f.cancels = ev.cancels /\ f.retried = a
      BY <2>2, <1>3 DEF EvStates
    <2>4. /\ EvFollows(Under(st), f, h) /\ l.past \subseteq h.past
          /\ h.restored = l.restored /\ h.op = l.op
      <3>1. Quiet(Last(st)) = quiet
        BY <1>4, <1>6 DEF EvSteps, Quiet
      <3> PICK o : o = "retried"
        OBVIOUS
      <3>2. f.retried = IF o = "retried"
                        THEN [work |-> Last(st).work, attempt |-> Last(st).attempt]
                        ELSE ev.retried
        BY <2>3, <1>4, <1>6
      <3>3. /\ o = "cancelled" => ev.cancels > Last(st).cancels
            /\ o = "failed" => ev.cancels <= Last(st).cancels
        OBVIOUS
      <3>6. f \in EvStates /\ f.steps = ev.steps /\ f.cancels = ev.cancels
        BY <2>3
      <3>7. EvFollows(st, ev, l) /\ st # <<>>
        BY <1>5, <1>6
      <3>4. /\ EvFollows(Under(st), f, HearEnd(l, Quiet(Last(st)), o))
            /\ l.past \subseteq HearEnd(l, Quiet(Last(st)), o).past
        BY ONLY <3>2, <3>3, <3>6, <3>7, EvEnded
      <3>5. h.restored = l.restored /\ h.op = l.op
        BY <1>5, EvTyped, HearsEnd
      <3> QED BY <3>1, <3>4, <3>5
    <2> PICK b : b = t.attempt + 1
      OBVIOUS
    <2>40. b \in Nat \ {0} /\ b = a.attempt + 1 /\ a.work = t.work /\ a.attempt > 0
      BY <1>3, SMTT(60) DEF EvSteps
    <2>5. /\ again \in EvSteps /\ again.id = f.steps + 1 /\ again.done = 0 /\ ~ again.invalid
          /\ again.cancels = f.cancels /\ again.parent = t.parent /\ again.total = Unknown
          /\ again.work = t.work /\ again.attempt = b /\ again.wait = "none"
      <3>1. /\ ev.steps + 1 \in Nat /\ ev.cancels \in Nat /\ t.work \in EvDoings
            /\ t.parent \in Nat /\ Unknown \in EvTotals
        BY <1>3, SMTT(60) DEF EvSteps, EvStates, EvTotals
      <3> PICK x : x = Unknown
        OBVIOUS
      <3>2. again = Opened(t.work, b, x, t.parent)
        OBVIOUS
      <3>3. /\ again \in EvSteps /\ again.id = ev.steps + 1 /\ again.done = 0
            /\ ~ again.invalid /\ again.cancels = ev.cancels /\ again.parent = t.parent
            /\ again.total = x /\ again.work = t.work /\ again.attempt = b
            /\ again.wait = "none"
        BY <2>40, <3>1, <3>2 DEF Opened, EvSteps
      <3> QED BY <2>3, <3>3
    <2> PICK r : r = Under(st)
      OBVIOUS
    <2>6. t.parent = IF r = <<>> THEN 0 ELSE Last(r).id
      <3>1. /\ st \in Seq(EvSteps) /\ Len(st) = Len(stack)
            /\ \A i \in 1..Len(stack) : st[i] = IF i = Len(stack) THEN quiet ELSE stack[i]
        BY <1>1, <1>3, <1>4, StepOnTop
      <3>2. /\ r \in Seq(EvSteps) /\ Len(r) = Len(st) - 1
            /\ \A i \in 1..(Len(st) - 1) : r[i] = st[i]
        BY <3>1, <1>6, UnderIs
      <3>3. t.parent = Parent(stack, Len(stack))
        <4>1. Len(stack) \in 1..Len(stack)
          BY <1>3
        <4>2. stack[Len(stack)].parent = Parent(stack, Len(stack))
          BY <4>1, <1>2 DEF EvFollows, Follows
        <4> QED BY <4>2, <1>1 DEF Last
      <3>4. CASE Len(stack) = 1
        <4>1. Len(r) = 0
          BY <3>1, <3>2, <3>4
        <4>2. r = <<>>
          BY <4>1, <3>2, EmptySeq
        <4> QED BY <4>2, <3>3, <3>4 DEF Parent
      <3>5. CASE Len(stack) # 1
        <4>1. Len(r) = Len(stack) - 1 /\ Len(r) \in 1..(Len(st) - 1) /\ Len(r) \in 1..Len(stack)
          BY <1>3, <3>1, <3>2, <3>5
        <4>2. r # <<>>
          BY <4>1
        <4>3. Last(r) = stack[Len(stack) - 1]
          <5>1. r[Len(r)] = st[Len(r)] /\ st[Len(r)] = stack[Len(r)]
            BY <4>1, <3>1, <3>2, <1>3
          <5> QED BY <4>1, <5>1 DEF Last
        <4> QED BY <4>2, <4>3, <3>3, <3>5 DEF Parent
      <3> QED BY <3>4, <3>5
    <2>7. NextAttempt(again, f)
      BY <2>3, <2>5, <2>40 DEF NextAttempt
    <2>8. /\ ev' \in EvStates /\ ev'.steps = f.steps + 1 /\ ev'.cancels = f.cancels
          /\ ev'.retried = ev.retried /\ ev'.restore = ev.restore
      BY <2>1, <2>3, <1>3, SMTT(60) DEF EvStates
    <2>9. ev'.retried.attempt > 0 => ev'.retried \in h.past
      <3>1. ev.retried.attempt > 0 => ev.retried \in l.past
        BY <1>5 DEF EvFollows, Follows
      <3> QED BY <3>1, <2>4, <2>8
    <2> PICK g : g = ev'
      OBVIOUS
    <2>10. EvFollows(Append(r, again), g, k)
      <3>1. /\ g \in EvStates /\ g.steps = f.steps + 1 /\ g.cancels = f.cancels
            /\ g.retried.attempt > 0 => g.retried \in h.past
        BY <2>8, <2>9
      <3>2. again.parent = IF r = <<>> THEN 0 ELSE Last(r).id
        BY <2>5, <2>6
      <3>3. EvFollows(r, f, h)
        BY <2>4
      <3>4. EvFollows(Append(r, again), g, HearBegin(h, again))
        BY <3>1, <3>2, <3>3, <2>5, <2>7, EvBegun, ZenonT(60)
      <3> QED BY <3>4
    <2>11. k.restored = heard.restored /\ k.op = heard.op
      BY <2>4, <1>5, EvTyped, HearsBegin
    <2> PICK s : s = c.step
      OBVIOUS
    <2> PICK now : now = c.now
      OBVIOUS
    <2>12. /\ s \in EvSteps /\ Goes(again, s) /\ s.wait = again.wait
           /\ ~ now => s.total = again.total
      BY <2>5, NowCountsIs
    <2> PICK u : u = OnTop(stack, again)
      OBVIOUS
    <2>13. Append(r, again) = u /\ u # <<>> /\ Last(u) = again /\ OnTop(u, s) = stack'
      BY <2>1, <2>5, <2>12, <1>1, <1>3, <1>4, StepsOnTop
    <2>14. /\ EvFollows(OnTop(u, s), g, heard')
           /\ heard'.restored = k.restored /\ heard'.op = k.op
      <3>1. Moved(k, s, now) /\ EvFollows(u, g, k)
        BY <2>1, <2>10, <2>13
      <3>2. /\ Goes(Last(u), s) /\ s.wait = Last(u).wait
            /\ ~ now => s.total = Last(u).total
        BY <2>12, <2>13
      <3> QED BY <3>1, <3>2, <2>12, <2>13, EvMoved
    <2> QED BY <2>8, <2>11, <2>13, <2>14, <1>1, EvWorks DEF Same
  <1> QED BY <1>7, <1>8

LEMMA EvCancelKeeps ==
    ASSUME EvInv, Cancel
    PROVE  EvInv'
  <1>1. /\ op.pc = "verb" /\ op' = op /\ stack' = stack
        /\ ev' = [ev EXCEPT !.cancels = @ + 1] /\ heard' = [heard EXCEPT !.cancels = @ + 1]
    BY DEF Cancel, Running
  <1>2. EvFollows(stack, ev, heard)
    BY <1>1, EvAt
  <1>3. /\ stack \in Seq(EvSteps) /\ ev \in EvStates /\ heard \in EvListeners
        /\ ev.cancels \in Nat /\ heard.cancels = ev.cancels
    BY <1>2, EvTyped DEF EvFollows, Follows
  <1>4. /\ ev' \in EvStates /\ ev'.cancels = ev.cancels + 1 /\ ev'.steps = ev.steps
        /\ ev'.retried = ev.retried /\ ev'.restore = ev.restore
    BY <1>1, <1>3 DEF EvStates
  <1>5. /\ heard' \in EvListeners /\ heard'.cancels = ev.cancels + 1
        /\ heard'.on = heard.on /\ heard'.op = heard.op /\ heard'.steps = heard.steps
        /\ heard'.open = heard.open /\ heard'.retried = heard.retried
        /\ heard'.past = heard.past /\ heard'.restored = heard.restored
        /\ heard'.kept = heard.kept
    <2> PICK c : c = ev.cancels + 1
      OBVIOUS
    <2>1. heard' = [heard EXCEPT !.cancels = c] /\ c \in Nat
      BY <1>1, <1>3
    <2> QED BY <2>1, <1>3 DEF EvListeners
  <1>6. ASSUME NEW i \in 1..Len(stack)
        PROVE  Sound(stack[i], ev'.cancels)
    <2>1. stack[i] \in EvSteps /\ Sound(stack[i], ev.cancels)
      BY <1>2, <1>3, ElementOfSeq DEF EvFollows, Follows
    <2> QED BY <2>1, <1>3, <1>4, SMTT(60) DEF Sound, EvSteps
  <1>7. Follows(stack', ev', heard')
    BY <1>1, <1>2, <1>4, <1>5, <1>6 DEF EvFollows, Follows
  <1>8. EvFollows(stack', ev', heard') /\ Same(ev, heard, ev', heard')
    BY <1>1, <1>3, <1>4, <1>5, <1>7 DEF EvFollows, Same
  <1> QED BY <1>1, <1>8, EvWorks

LEMMA Ranks ==
    ASSUME EventsAssumption, NEW r \in Takings \cup {"none"}
    PROVE  RestoreRank[r] \in Nat /\ (RestoreRank[r] = 0 <=> r = "none")
  BY DEF RestoreRank, EventsAssumption

LEMMA EvRestoredKeeps ==
    ASSUME EventsAssumption, EvInv, NEW r \in Takings, Restored(r)
    PROVE  EvInv'
  <1>1. /\ op.pc = "verb" /\ op' = op /\ stack' = stack
        /\ ev' = IF RestoreRank[r] > RestoreRank[ev.restore] THEN [ev EXCEPT !.restore = r] ELSE ev
        /\ heard' = [heard EXCEPT !.restored = @ \cup {r}]
    BY DEF Restored, Running
  <1>2. /\ EvFollows(stack, ev, heard) /\ Worst(ev, heard) /\ Places(op, stack, ev)
        /\ op \in EvOps /\ heard.op = op.id
    BY <1>1, EvAt
  <1>3. stack \in Seq(EvSteps) /\ ev \in EvStates /\ heard \in EvListeners
    BY <1>2, EvTyped
  <1>4. ev.restore \in Takings \cup {"none"} /\ heard.restored \in SUBSET Takings
    BY <1>3 DEF EvStates, EvListeners
  <1> PICK n : n = IF RestoreRank[r] > RestoreRank[ev.restore] THEN r ELSE ev.restore
    OBVIOUS
  <1>5. /\ ev' \in EvStates /\ ev'.cancels = ev.cancels /\ ev'.steps = ev.steps
        /\ ev'.retried = ev.retried /\ ev'.over = ev.over /\ ev'.restore = n
    <2>1. CASE RestoreRank[r] > RestoreRank[ev.restore]
      BY <2>1, <1>1, <1>3 DEF EvStates
    <2>2. CASE ~ (RestoreRank[r] > RestoreRank[ev.restore])
      BY <2>2, <1>1, <1>3
    <2> QED BY <2>1, <2>2
  <1> PICK k : k = heard.restored \cup {r}
    OBVIOUS
  <1>6. /\ heard' \in EvListeners /\ heard'.cancels = heard.cancels
        /\ heard'.on = heard.on /\ heard'.op = heard.op /\ heard'.steps = heard.steps
        /\ heard'.open = heard.open /\ heard'.retried = heard.retried
        /\ heard'.past = heard.past /\ heard'.restored = k
        /\ heard'.kept = heard.kept
    <2>1. heard' = [heard EXCEPT !.restored = k] /\ k \in SUBSET Takings
      BY <1>1, <1>4
    <2> QED BY <2>1, <1>3 DEF EvListeners
  <1>7. Follows(stack', ev', heard')
    BY <1>1, <1>2, <1>5, <1>6 DEF EvFollows, Follows
  <1>8. EvFollows(stack', ev', heard')
    BY <1>1, <1>3, <1>5, <1>6, <1>7 DEF EvFollows
  <1>9. Worst(ev', heard')
    <2>1. /\ RestoreRank[r] \in Nat \ {0} /\ r # "none"
          /\ RestoreRank[ev.restore] \in Nat
          /\ RestoreRank[ev.restore] = 0 <=> ev.restore = "none"
          /\ \A s \in k : RestoreRank[s] \in Nat
      <3>1. r \in Takings \cup {"none"} /\ r # "none"
        BY DEF EventsAssumption
      <3>2. k \subseteq Takings \cup {"none"}
        BY <1>4
      <3> QED BY <3>1, <3>2, <1>4, Ranks
    <2>2. RestoreRank[n] \in Nat /\ n # "none" /\ n \in k
          /\ \A s \in k : RestoreRank[s] <= RestoreRank[n]
      <3>1. CASE RestoreRank[r] > RestoreRank[ev.restore]
        BY <3>1, <2>1, <1>2 DEF Worst
      <3>2. CASE ~ (RestoreRank[r] > RestoreRank[ev.restore])
        BY <3>2, <2>1, <1>2 DEF Worst
      <3> QED BY <3>1, <3>2
    <2>3. ev'.restore = n /\ heard'.restored = k /\ k # {}
      BY <1>5, <1>6
    <2> QED BY <2>2, <2>3 DEF Worst
  <1>10. Places(op', stack', ev') /\ heard'.op = op'.id /\ op' \in EvOps /\ op'.pc # "idle"
    BY <1>1, <1>2, <1>5, <1>6 DEF Places
  <1> QED BY <1>8, <1>9, <1>10, EvKeeps

(* What is left open ends, and call() goes on.                             *)
LEMMA EvUnwindKeeps ==
    ASSUME EvInv, op.pc = "verb", NEW n \in Nat, NEW o \in {"ok", "failed", "abandoned"},
           NEW next \in {"verb", "flush", "end"}, NEW ok \in BOOLEAN,
           next # "verb" => n = 0,
           Closes(n, o, next, ok), UNCHANGED <<stack, ev, heard>>
    PROVE  EvInv'
  <1>1. /\ EvFollows(stack, ev, heard) /\ Worst(ev, heard)
        /\ op \in EvOps /\ heard.op = op.id
    BY EvAt
  <1>2. op' \in EvOps /\ op'.pc = "close" /\ op'.id = op.id /\ op'.to = n /\ op'.next = next
    BY <1>1 DEF Closes, EvOps
  <1>3. stack' = stack /\ ev' = ev /\ heard' = heard
    OBVIOUS
  <1>4. Places(op', stack', ev')
    BY <1>2 DEF Places
  <1>5. EvFollows(stack', ev', heard') /\ Worst(ev', heard')
    BY <1>1, <1>3
  <1> QED BY <1>1, <1>2, <1>3, <1>4, <1>5, EvKeeps

LEMMA EvCloseKeeps ==
    ASSUME EvInv, Close
    PROVE  EvInv'
  <1>1. /\ op.pc = "close" /\ op' = op /\ EndStep(op.as) /\ op.to < Len(stack) + ev.over
    BY DEF Close
  <1>2. /\ EvFollows(stack, ev, heard) /\ Worst(ev, heard) /\ Places(op, stack, ev)
        /\ op \in EvOps /\ heard.op = op.id
    BY <1>1, EvAt
  <1>3. stack # <<>> \/ ev.over > 0
    <2>1. op.to \in Nat
      BY <1>2 DEF EvOps
    <2>2. ev.over \in Nat /\ (stack = <<>> => Len(stack) = 0)
      BY <1>2, EvTyped
    <2> QED BY <2>1, <2>2, <1>1
  <1>4. op.as # "cancelled"
    BY <1>2 DEF EvOps
  <1>5. EvFollows(stack', ev', heard') /\ Same(ev, heard, ev', heard')
    BY <1>1, <1>2, <1>3, <1>4, EvEndStep
  <1>6. Worst(ev', heard')
    BY <1>2, <1>5, SameWorst
  <1>7. Places(op', stack', ev') /\ heard'.op = op'.id /\ op' \in EvOps /\ op'.pc # "idle"
    BY <1>1, <1>2, <1>5 DEF Places, Same
  <1> QED BY <1>5, <1>6, <1>7, EvKeeps

LEMMA EvClosedKeeps ==
    ASSUME EvInv, Closed
    PROVE  EvInv'
  <1>1. /\ op.pc = "close" /\ op.to >= Len(stack) + ev.over
        /\ op' = [op EXCEPT !.pc = op.next, !.to = 0, !.as = "ok", !.next = "verb"]
        /\ stack' = stack /\ ev' = ev /\ heard' = heard
    BY DEF Closed
  <1>2. /\ EvFollows(stack, ev, heard) /\ Worst(ev, heard) /\ Places(op, stack, ev)
        /\ op \in EvOps /\ heard.op = op.id
    BY <1>1, EvAt
  <1>3. op.next # "verb" => stack = <<>> /\ ev.over = 0
    <2>1. ev.over \in Nat /\ Len(stack) \in Nat /\ (stack # <<>> => Len(stack) # 0)
      BY <1>2, EvTyped
    <2>2. op.next # "verb" => op.to = 0
      BY <1>1, <1>2 DEF Places
    <2> QED BY <2>1, <2>2, <1>1
  <1>4. op' \in EvOps /\ op'.pc = op.next /\ op'.id = op.id /\ op'.next = "verb"
        /\ op.next \in {"verb", "flush", "end"}
    BY <1>1, <1>2 DEF EvOps
  <1>5. Places(op', stack', ev') /\ op'.pc # "idle"
    BY <1>1, <1>3, <1>4 DEF Places
  <1>6. EvFollows(stack', ev', heard') /\ Worst(ev', heard')
    BY <1>1, <1>2
  <1> QED BY <1>1, <1>2, <1>4, <1>5, <1>6, EvKeeps

LEMMA EvFlushKeeps ==
    ASSUME EventsAssumption, EvInv, Flush
    PROVE  EvInv'
  <1> PICK w : w = "flush"
    OBVIOUS
  <1>1. /\ op.pc = "flush" /\ BeginStep(w, Unknown) /\ op' = [op EXCEPT !.pc = "flushing"]
    BY DEF Flush
  <1>2. /\ EvFollows(stack, ev, heard) /\ Worst(ev, heard) /\ Places(op, stack, ev)
        /\ op \in EvOps /\ heard.op = op.id
    BY <1>1, EvAt
  <1>3. w \in EvDoings /\ Unknown \in EvTotals
    BY DEF EvDoings, EvTotals
  <1>4. stack = <<>> /\ ev.over = 0
    BY <1>1, <1>2 DEF Places
  <1>5. /\ EvFollows(stack', ev', heard') /\ Same(ev, heard, ev', heard')
        /\ ev.over = 0 /\ stack = <<>> => ev'.over = 0 /\ Len(stack') = 1
    BY <1>1, <1>2, <1>3, EvBeginStep
  <1>6. Worst(ev', heard')
    BY <1>2, <1>5, SameWorst
  <1>7. op' \in EvOps /\ op'.pc = "flushing" /\ op'.id = op.id
    BY <1>1, <1>2 DEF EvOps
  <1>8. Places(op', stack', ev') /\ heard'.op = op'.id /\ op'.pc # "idle"
    BY <1>2, <1>4, <1>5, <1>7 DEF Places, Same
  <1> QED BY <1>5, <1>6, <1>7, <1>8, EvKeeps

LEMMA EvFlushedKeeps ==
    ASSUME EvInv, NEW done, Flushed(done)
    PROVE  EvInv'
  <1> PICK o : o = IF done THEN "ok" ELSE "failed"
    OBVIOUS
  <1>1. /\ op.pc = "flushing" /\ EndStep(o) /\ op' = [op EXCEPT !.pc = "end"]
        /\ o # "cancelled"
    BY DEF Flushed
  <1>2. /\ EvFollows(stack, ev, heard) /\ Worst(ev, heard) /\ Places(op, stack, ev)
        /\ op \in EvOps /\ heard.op = op.id
    BY <1>1, EvAt
  <1>3. Len(stack) = 1 /\ ev.over = 0
    BY <1>1, <1>2 DEF Places
  <1>4. stack # <<>>
    <2>1. stack = <<>> => Len(stack) = 0
      BY <1>2, EvTyped
    <2> QED BY <2>1, <1>3
  <1>5. /\ EvFollows(stack', ev', heard') /\ Same(ev, heard, ev', heard')
        /\ ev.over = 0 => ev'.over = 0 /\ Len(stack') = Len(stack) - 1
    BY <1>1, <1>2, <1>4, EvEndStep
  <1>6. stack' = <<>> /\ ev'.over = 0
    <2>1. stack' # <<>> => Len(stack') # 0
      BY <1>5, EvTyped
    <2> QED BY <2>1, <1>3, <1>5
  <1>7. Worst(ev', heard')
    BY <1>2, <1>5, SameWorst
  <1>8. op' \in EvOps /\ op'.pc = "end" /\ op'.id = op.id
    BY <1>1, <1>2 DEF EvOps
  <1>9. Places(op', stack', ev') /\ heard'.op = op'.id /\ op'.pc # "idle"
    BY <1>2, <1>5, <1>6, <1>8 DEF Places, Same
  <1> QED BY <1>5, <1>7, <1>8, <1>9, EvKeeps

(* What is heard of no operation, and of one that has just begun. *)
LEMMA SilentIs ==
    /\ Silent.on = FALSE /\ Silent.op = 0 /\ Silent.steps = 0 /\ Silent.open = <<>>
    /\ Silent.retried = NoWork /\ Silent.past = {} /\ Silent.cancels = 0
    /\ Silent.restored = {} /\ Silent.kept = TRUE
    /\ Silent \in EvListeners
    /\ Fresh.over = 0 /\ Fresh.steps = 0 /\ Fresh.cancels = 0 /\ Fresh.retried = NoWork
    /\ Fresh.restore = "none" /\ Fresh \in EvStates
  <1> PICK n : n = NoWork
    OBVIOUS
  <1> PICK e : e = <<>>
    OBVIOUS
  <1>1. e \in Seq(EvShown)
    BY EmptySeq
  <1>2. n \in EvAttempts \cup {NoWork}
    OBVIOUS
  <1>3. Silent = [on |-> FALSE, op |-> 0, steps |-> 0, open |-> e, retried |-> n, past |-> {},
                  cancels |-> 0, restored |-> {}, kept |-> TRUE]
    BY DEF Silent
  <1>4. Fresh = [over |-> 0, steps |-> 0, cancels |-> 0, retried |-> n, restore |-> "none"]
    BY DEF Fresh
  <1>5. Silent \in EvListeners
    BY <1>1, <1>2, <1>3 DEF EvListeners
  <1>6. Fresh \in EvStates
    BY <1>2, <1>4 DEF EvStates
  <1>7. /\ Silent.on = FALSE /\ Silent.op = 0 /\ Silent.steps = 0 /\ Silent.open = e
        /\ Silent.retried = n /\ Silent.past = {} /\ Silent.cancels = 0
        /\ Silent.restored = {} /\ Silent.kept = TRUE
    BY <1>3
  <1>8. /\ Fresh.over = 0 /\ Fresh.steps = 0 /\ Fresh.cancels = 0 /\ Fresh.retried = n
        /\ Fresh.restore = "none"
    BY <1>4
  <1> QED BY <1>5, <1>6, <1>7, <1>8

(* The operation begins, and ends.                                         *)
LEMMA EvOpBeginKeeps ==
    ASSUME EvInv, NEW refused \in BOOLEAN, OpBegin(refused)
    PROVE  EvInv'
  <1> PICK n : n = op.id + 1
    OBVIOUS
  <1> PICK at : at = IF refused THEN "end" ELSE "verb"
    OBVIOUS
  <1>1. /\ op.pc = "idle" /\ op' = [op EXCEPT !.pc = at, !.id = n, !.ok = ~ refused]
        /\ stack' = <<>> /\ ev' = Fresh /\ heard' = HearOpBegin(heard, n)
    BY DEF OpBegin
  <1>2. /\ op \in EvOps /\ heard \in EvListeners
        /\ ~ heard.on /\ heard.kept /\ heard.open = <<>> /\ heard.op = op.id
    BY <1>1 DEF EvInv, EvTypes
  <1>3. n \in Nat /\ n > heard.op
    BY <1>2 DEF EvOps
  <1>4. op' \in EvOps /\ op'.pc = at /\ op'.id = n
    BY <1>1, <1>2, <1>3 DEF EvOps
  <1> PICK s : s = Silent
    OBVIOUS
  <1>5. heard' = [s EXCEPT !.on = TRUE, !.op = n, !.kept = heard.kept]
    BY <1>1, <1>2, <1>3 DEF HearOpBegin
  <1>6. /\ heard' \in EvListeners /\ heard'.on /\ heard'.op = n /\ heard'.kept
        /\ heard'.steps = 0 /\ heard'.open = <<>> /\ heard'.retried = NoWork
        /\ heard'.cancels = 0 /\ heard'.restored = {}
    <2>1. /\ s \in EvListeners /\ s.steps = 0 /\ s.open = <<>> /\ s.retried = NoWork
          /\ s.cancels = 0 /\ s.restored = {}
      BY SilentIs
    <2>2. heard' \in EvListeners
      BY <2>1, <1>2, <1>3, <1>5 DEF EvListeners
    <2>3. /\ heard'.on = TRUE /\ heard'.op = n /\ heard'.kept = heard.kept
          /\ heard'.steps = s.steps /\ heard'.open = s.open /\ heard'.retried = s.retried
          /\ heard'.cancels = s.cancels /\ heard'.restored = s.restored
      BY <2>1, <1>5 DEF EvListeners
    <2> QED BY <2>1, <2>2, <2>3, <1>2
  <1>7. /\ ev'.steps = 0 /\ ev'.cancels = 0 /\ ev'.retried = NoWork /\ ev'.restore = "none"
        /\ ev'.over = 0 /\ ev' \in EvStates
    BY <1>1, SilentIs
  <1>8. Len(stack') = 0 /\ Len(heard'.open) = 0 /\ stack' \in Seq(EvSteps)
    BY <1>1, <1>6, EmptySeq
  <1>9. Follows(stack', ev', heard')
    <2>1. NoWork.attempt = 0
      BY DEF NoWork
    <2>2. ~ (ev'.retried.attempt > 0) /\ ~ (heard'.retried.attempt > 0)
      BY <2>1, <1>6, <1>7
    <2>3. \A i \in 1..Len(stack') : FALSE
      BY <1>8
    <2> QED BY <2>2, <2>3, <1>6, <1>7, <1>8 DEF Follows
  <1>10. EvFollows(stack', ev', heard')
    BY <1>6, <1>7, <1>8, <1>9 DEF EvFollows
  <1>11. Worst(ev', heard')
    BY <1>6, <1>7 DEF Worst
  <1>12. Places(op', stack', ev') /\ op'.pc # "idle"
    BY <1>1, <1>4, <1>7 DEF Places
  <1> QED BY <1>4, <1>6, <1>10, <1>11, <1>12, EvKeeps

LEMMA EvOpEndKeeps ==
    ASSUME EventsAssumption, EvInv, OpEnd
    PROVE  EvInv'
  <1> PICK o : o = IF op.ok THEN "ok" ELSE IF ev.cancels > 0 THEN "cancelled" ELSE "failed"
    OBVIOUS
  <1>1. /\ op.pc = "end" /\ op' = [op EXCEPT !.pc = "idle"] /\ stack' = stack /\ ev' = ev
        /\ heard' = HearOpEnd(heard, op.id, op.ok, o, ev.restore)
    BY DEF OpEnd
  <1>2. /\ EvFollows(stack, ev, heard) /\ Worst(ev, heard) /\ Places(op, stack, ev)
        /\ op \in EvOps /\ heard.op = op.id
    BY <1>1, EvAt
  <1>3. stack = <<>>
    BY <1>1, <1>2 DEF Places
  <1>4. /\ stack \in Seq(EvSteps) /\ ev \in EvStates /\ heard \in EvListeners
    BY <1>2, EvTyped
  <1>5. /\ heard.on /\ heard.kept /\ heard.cancels = ev.cancels /\ heard.open = <<>>
    <2>1. Len(heard.open) = Len(stack) /\ heard.open \in Seq(EvShown)
      BY <1>2, <1>4 DEF EvFollows, Follows, EvListeners
    <2> PICK q : q = heard.open
      OBVIOUS
    <2>2. Len(q) = 0 /\ q \in Seq(EvShown)
      BY <2>1, <1>3
    <2>3. q = <<>>
      BY <2>2, EmptySeq
    <2> QED BY <2>3, <1>2 DEF EvFollows, Follows
  <1>6. OpEndFits(heard, op.id, op.ok, o, ev.restore)
    <2>1. /\ o = "ok" <=> op.ok
          /\ o = "cancelled" <=> (~ op.ok /\ heard.cancels > 0)
      BY <1>2, <1>5 DEF EvOps
    <2>2. ev.restore \in Takings \cup {"none"} /\ heard.restored \in SUBSET Takings
      BY <1>4 DEF EvStates, EvListeners
    <2>3. ASSUME NEW r \in heard.restored
          PROVE  /\ ev.restore = "done" => r = "done"
                 /\ r = "failed" => ev.restore = "failed"
      <3>1. /\ r \in {"done", "incomplete", "failed"}
            /\ ev.restore \in {"none", "done", "incomplete", "failed"}
        BY <2>2 DEF EventsAssumption
      <3>2. RestoreRank[r] <= RestoreRank[ev.restore]
        BY <1>2 DEF Worst
      <3>3. /\ RestoreRank["none"] = 0 /\ RestoreRank["done"] = 1
            /\ RestoreRank["incomplete"] = 2 /\ RestoreRank["failed"] = 3
        BY DEF RestoreRank
      <3> QED BY <3>1, <3>2, <3>3
    <2>4. /\ heard.restored = {} <=> ev.restore = "none"
          /\ ev.restore # "none" => ev.restore \in heard.restored
      BY <1>2 DEF Worst
    <2>5. ev.restore = "done" => heard.restored = {"done"}
      BY <2>3, <2>4
    <2>6. "failed" \in heard.restored => ev.restore = "failed"
      BY <2>3
    <2> QED BY <2>1, <2>4, <2>5, <2>6, <1>2, <1>5 DEF OpEndFits
  <1> PICK s : s = Silent
    OBVIOUS
  <1>7. heard' = [s EXCEPT !.op = heard.op, !.kept = heard.kept]
    BY <1>1, <1>6 DEF HearOpEnd
  <1>8. /\ heard' \in EvListeners /\ ~ heard'.on /\ heard'.op = heard.op /\ heard'.kept
        /\ heard'.open = <<>>
    <2>1. s \in EvListeners /\ s.on = FALSE /\ s.open = <<>>
      BY SilentIs
    <2>2. heard' \in EvListeners
      BY <2>1, <1>4, <1>7 DEF EvListeners
    <2>3. /\ heard'.on = s.on /\ heard'.op = heard.op /\ heard'.kept = heard.kept
          /\ heard'.open = s.open
      BY <2>1, <1>7 DEF EvListeners
    <2> QED BY <2>1, <2>2, <2>3, <1>5
  <1>9. op' \in EvOps /\ op'.pc = "idle" /\ op'.id = op.id
    BY <1>1, <1>2 DEF EvOps
  <1>10. EvTypes'
    BY <1>1, <1>4, <1>8, <1>9 DEF EvTypes
  <1> QED BY <1>2, <1>8, <1>9, <1>10 DEF EvInv

LEMMA EvInitHolds ==
    ASSUME EvInit
    PROVE  EvInv
  <1>1. op = [pc |-> "idle", id |-> 0, ok |-> TRUE, to |-> 0, as |-> "ok", next |-> "verb"]
    BY DEF EvInit
  <1>2. stack = <<>> /\ ev = Fresh /\ heard = Silent
    BY DEF EvInit
  <1>3. op \in EvOps /\ op.pc = "idle" /\ op.id = 0
    BY <1>1 DEF EvOps
  <1>4. stack \in Seq(EvSteps)
    BY <1>2, EmptySeq
  <1>5. ev \in EvStates /\ heard \in EvListeners /\ heard.op = 0 /\ ~ heard.on /\ heard.kept
        /\ heard.open = <<>>
    BY <1>2, SilentIs
  <1> QED BY <1>2, <1>3, <1>4, <1>5 DEF EvInv, EvTypes

LEMMA EvStep ==
    ASSUME EventsAssumption, EvInv, EvNext
    PROVE  EvInv'
  <1>1. CASE Flush
    BY <1>1, EvFlushKeeps
  <1>2. CASE OpEnd
    BY <1>2, EvOpEndKeeps
  <1>3. CASE Cancel
    BY <1>3, EvCancelKeeps
  <1>4. CASE Close
    BY <1>4, EvCloseKeeps
  <1>5. CASE Closed
    BY <1>5, EvClosedKeeps
  <1>6. ASSUME NEW b \in BOOLEAN, OpBegin(b) \/ Flushed(b)
        PROVE  EvInv'
    BY <1>6, EvOpBeginKeeps, EvFlushedKeeps
  <1>7. ASSUME NEW ok \in BOOLEAN, NEW locked \in BOOLEAN, VerbReturns(ok, locked)
        PROVE  EvInv'
    <2> PICK o : o = IF ok THEN "abandoned" ELSE "failed"
      OBVIOUS
    <2> PICK next : next = IF locked THEN "flush" ELSE "end"
      OBVIOUS
    <2>1. /\ op.pc = "verb" /\ Closes(0, o, next, ok) /\ UNCHANGED <<stack, ev, heard>>
      BY <1>7 DEF VerbReturns, Running
    <2>2. o \in {"ok", "failed", "abandoned"} /\ next \in {"verb", "flush", "end"} /\ 0 \in Nat
      OBVIOUS
    <2> QED BY <2>1, <2>2, EvUnwindKeeps
  <1>8. ASSUME NEW w \in Transfers \cup Tasks, NEW t \in Counts \cup {Unknown}, Begin(w, t)
        PROVE  EvInv'
    BY <1>8, EvBeginKeeps
  <1>9. ASSUME NEW o \in {"ok", "failed", "retried", "absent"}, End(o)
        PROVE  EvInv'
    BY <1>9, EvEndKeeps
  <1>10. ASSUME NEW n \in 0..Depth, NEW o \in {"ok", "failed"}, Unwind(n, o)
         PROVE  EvInv'
    <2> PICK next : next = "verb"
      OBVIOUS
    <2> PICK ok : ok = op.ok
      OBVIOUS
    <2>1. /\ op.pc = "verb" /\ Closes(n, o, next, ok) /\ UNCHANGED <<stack, ev, heard>>
      BY <1>10 DEF Unwind, Running
    <2>2. op \in EvOps
      BY DEF EvInv, EvTypes
    <2>3. /\ o \in {"ok", "failed", "abandoned"} /\ next \in {"verb", "flush", "end"}
          /\ n \in Nat /\ ok \in BOOLEAN
      BY <2>2 DEF EventsAssumption, EvOps
    <2> QED BY <2>1, <2>3, EvUnwindKeeps
  <1>11. ASSUME NEW c \in Counts, Count(c) \/ Total(c)
         PROVE  EvInv'
    BY <1>11, EvCountKeeps, EvTotalKeeps
  <1>12. ASSUME NEW c \in Counts, NEW t \in Counts \cup {Unknown}, Bytes(c, t)
         PROVE  EvInv'
    <2>1. c \in Nat /\ t \in EvTotals
      BY DEF EvTotals, Counts, EventsAssumption
    <2> QED BY <1>12, <2>1, EvBytesOn
  <1>13. ASSUME NEW h \in Peers \cup {"none"}, Wait(h)
         PROVE  EvInv'
    BY <1>13, EvWaitKeeps
  <1>14. ASSUME NEW r \in Takings, Restored(r)
         PROVE  EvInv'
    BY <1>14, EvRestoredKeeps
  <1> QED BY <1>1, <1>2, <1>3, <1>4, <1>5, <1>6, <1>7, <1>8, <1>9, <1>10, <1>11, <1>12,
             <1>13, <1>14 DEF EvNext

(* RulesKept, of every operation of a process: whatever its verb does, and *)
(* however it is refused, fails or is cancelled, what the sink is sent     *)
(* follows the order, the numbering and the counting docs/events.md and    *)
(* pkg.h promise.                                                          *)
THEOREM RulesKeptAlways == EvSpec => []RulesKept
  <1>1. EvInit => EvInv
    BY EvInitHolds
  <1>2. EvInv /\ [EvNext]_evVars => EvInv'
    <2>1. CASE EvInv /\ EvNext
      BY <2>1, EvStep, EventsAssumption
    <2>2. CASE EvInv /\ UNCHANGED evVars
      BY <2>2 DEF EvInv, EvTypes, evVars
    <2> QED BY <2>1, <2>2
  <1>3. EvInv => RulesKept
    BY DEF EvInv, Follows, RulesKept
  <1> QED BY <1>1, <1>2, <1>3, PTL DEF EvSpec
=============================================================================
