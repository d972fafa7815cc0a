--------------------------- MODULE PlanRunProofs ----------------------------
(***************************************************************************)
(* Proofs about PlanRun, for every set of packages, versions and keys and  *)
(* every Needs: what is installed stays closed under Depends, a need is    *)
(* met at its minimum, what a root trusts changes for a reason alone, and  *)
(* what is said to be taken back out is.                                   *)
(***************************************************************************)
EXTENDS PlanRun, SequenceTheorems, TLAPS

Forward == {"place", "pin", "db", "mark"}
Undo == {"file", "unlink", "unmark", "unpin"}

(* Met by what was there before the plan, or by one of its first entries.  *)
MetOutside(d) == db[d.name] # None /\ db[d.name] >= d.min
MetBefore(d, k) ==
    \E j \in 1 .. Len(plan) : j < k /\ plan[j].pkg = d.name /\ plan[j].version >= d.min

(* The packages a plan brings for another's sake. *)
Brought == {plan[i].pkg : i \in 1 .. Len(plan) - 1}

(* The entries run_plan has placed and not taken back out. *)
Placed(i) == i < at \/ (i = at /\ pc \in {"mark", "file", "unlink"})

Distinct == \A i, j \in 1 .. Len(plan) : plan[i].pkg = plan[j].pkg => i = j

(* Where each step of a command finds the plan. *)
Phase ==
    /\ pc = "idle" => queue = {}
    /\ pc \in {"idle", "pass", "next"} => plan = <<>>
    /\ pc \in Forward => at \in 1 .. Len(plan)
    /\ pc = "mark" => at < Len(plan)
    /\ pc = "unpin" => plan # <<>>
    /\ pc \in Undo => victim \in Package
    /\ pc \in Undo /\ plan # <<>> =>
          at \in 1 .. Len(plan) /\ at < Len(plan) /\ victim = plan[at].pkg
    /\ pc \in {"pass", "next"} => cmd.verb = "orphans"
    /\ pc \in {"resolve"} \cup Forward \/ plan # <<>> =>
          cmd.verb \in {"install", "upgrade"} /\ queue = {}

(* REMOVE and REMOVE ORPHANS take out what nothing needs. *)
Unneeded ==
    /\ plan = <<>> /\ pc \in {"file", "unlink"} => ~NeededBy(victim)
    /\ \A p \in queue : ~NeededBy(p)

(* plan_one: what is on the stack or in the plan is new, each once ...     *)
Fresh ==
    /\ Distinct
    /\ \A i \in 1 .. Len(plan) :
          db[plan[i].pkg] = None /\ \A k \in 1 .. Len(stack) : stack[k].pkg # plan[i].pkg
    /\ \A k, l \in 1 .. Len(stack) : stack[k].pkg = stack[l].pkg => k = l
    /\ \A k \in 1 .. Len(stack) : k > 1 => db[stack[k].pkg] = None

(* ... an entry's needs are installed or before it ...                     *)
EntriesReady ==
    \A i \in 1 .. Len(plan) : \A d \in Needs[plan[i].pkg][plan[i].version] :
        MetOutside(d) \/ MetBefore(d, i)

(* ... and a frame's too, but those left and the one being planned.        *)
FramesReady ==
    \A k \in 1 .. Len(stack) :
        \A d \in Needs[stack[k].pkg][stack[k].version] \ stack[k].left :
            \/ MetOutside(d)
            \/ MetBefore(d, Len(plan) + 1)
            \/ /\ k < Len(stack)
               /\ stack[k + 1].pkg = d.name /\ stack[k + 1].version >= d.min

Resolving == pc = "resolve" => Fresh /\ EntriesReady /\ FramesReady

(* run_plan, forward and back: an entry's needs are before it or outside;  *)
(* what is placed is recorded; nothing outside needs what the plan brings. *)
Earlier ==
    \A i \in 1 .. Len(plan) : \A d \in Needs[plan[i].pkg][plan[i].version] :
        MetBefore(d, i) \/ (MetOutside(d) /\ d.name \notin Brought)
Progress ==
    \A i \in 1 .. Len(plan) - 1 :
        IF Placed(i) THEN db[plan[i].pkg] = plan[i].version
                     ELSE db[plan[i].pkg] = None \/ plan[i].pkg \in torn
Apart ==
    \A q \in Installed \ torn : q \notin Brought => Names(Needs[q][db[q]]) \cap Brought = {}
Running == pc # "resolve" /\ plan # <<>> => Distinct /\ Earlier /\ Progress /\ Apart

(* plan_one asked about the key of all that a plan is to bring. *)
Allowed(e) ==
    /\ pin[e.pkg] = NoKey =>
          /\ Signer[e.pkg][e.version] \in
                {Signer[e.pkg][w] : w \in Lowest(e.pkg)} \cup {cmd.accept, cmd.key}
          /\ cmd.key # NoKey => e.pkg = cmd.pkg
    /\ pin[e.pkg] # NoKey => Signer[e.pkg][e.version] \in {pin[e.pkg], cmd.accept}
KeysAsked ==
    /\ pc = "resolve" => \A k \in 1 .. Len(stack) : Allowed(stack[k])
    /\ pc \in {"resolve"} \cup Forward => \A i \in 1 .. Len(plan) : Allowed(plan[i])

Kept == Phase /\ Unneeded /\ Resolving /\ Running /\ KeysAsked

Inv == TypeOK /\ Kept /\ Closed

-----------------------------------------------------------------------------
(* Sequences: what the frames and the plan are, one by one.                *)

LEMMA StackFacts ==
    ASSUME TypeOK
    PROVE  /\ Len(stack) \in Nat /\ Len(plan) \in Nat
           /\ stack # <<>> => Len(stack) >= 1
           /\ plan # <<>> <=> Len(plan) >= 1
           /\ \A k \in 1 .. Len(stack) : stack[k] \in Frame
           /\ \A i \in 1 .. Len(plan) : plan[i] \in Entry
  <1>1. stack \in Seq(Frame) /\ plan \in Seq(Entry)
    BY DEF TypeOK
  <1>2. Len(stack) \in Nat /\ Len(plan) \in Nat
    BY <1>1, LenProperties
  <1>3. (stack # <<>> => Len(stack) >= 1) /\ (plan # <<>> => Len(plan) >= 1)
    BY <1>1, <1>2, EmptySeq
  <1>4. Len(plan) >= 1 => plan # <<>>
    BY EmptySeq
  <1>5. \A k \in 1 .. Len(stack) : stack[k] \in Frame
    BY <1>1, ElementOfSeq
  <1>6. \A i \in 1 .. Len(plan) : plan[i] \in Entry
    BY <1>1, ElementOfSeq
  <1> QED BY <1>2, <1>3, <1>4, <1>5, <1>6

LEMMA WithoutFacts ==
    ASSUME TypeOK, stack # <<>>, NEW d
    PROVE  /\ Without(d) \in Seq(Frame)
           /\ Len(Without(d)) = Len(stack)
           /\ \A k \in 1 .. Len(stack) :
                 /\ Without(d)[k].pkg = stack[k].pkg
                 /\ Without(d)[k].version = stack[k].version
                 /\ Without(d)[k].left =
                       IF k = Len(stack) THEN stack[k].left \ {d} ELSE stack[k].left
  <1> DEFINE n == Len(stack)
             e == [stack[n] EXCEPT !.left = @ \ {d}]
  <1>1. stack \in Seq(Frame) /\ n \in 1 .. Len(stack) /\ n \in Nat
    BY StackFacts DEF TypeOK
  <1>2. stack[n] \in Frame
    BY StackFacts, <1>1
  <1>3. e \in Frame /\ e.pkg = stack[n].pkg /\ e.version = stack[n].version
        /\ e.left = stack[n].left \ {d}
    BY <1>2 DEF Frame
  <1>4. Without(d) = [stack EXCEPT ![n] = e]
    BY DEF Without
  <1> HIDE DEF e
  <1>5. /\ [stack EXCEPT ![n] = e] \in Seq(Frame)
        /\ Len([stack EXCEPT ![n] = e]) = Len(stack)
        /\ \A k \in 1 .. Len(stack) :
              [stack EXCEPT ![n] = e][k] = IF k = n THEN e ELSE stack[k]
    BY <1>1, <1>3, ExceptSeq
  <1> QED BY <1>3, <1>4, <1>5

(* The stack after Descend. *)
LEMMA PushFacts ==
    ASSUME TypeOK, stack # <<>>, NEW d, NEW e \in Frame
    PROVE  /\ Append(Without(d), e) \in Seq(Frame)
           /\ Len(Append(Without(d), e)) = Len(stack) + 1
           /\ Append(Without(d), e)[Len(stack) + 1] = e
           /\ \A k \in 1 .. Len(stack) : Append(Without(d), e)[k] = Without(d)[k]
  <1>1. Without(d) \in Seq(Frame) /\ Len(Without(d)) = Len(stack)
    BY WithoutFacts
  <1>2. /\ Append(Without(d), e) \in Seq(Frame)
        /\ Len(Append(Without(d), e)) = Len(Without(d)) + 1
        /\ \A k \in 1 .. Len(Without(d)) : Append(Without(d), e)[k] = Without(d)[k]
        /\ Append(Without(d), e)[Len(Without(d)) + 1] = e
    BY <1>1, AppendProperties
  <1> QED BY <1>1, <1>2

(* The stack and the plan after Return. *)
LEMMA PopFacts ==
    ASSUME TypeOK, stack # <<>>
    PROVE  LET s == SubSeq(stack, 1, Len(stack) - 1) IN
           /\ s \in Seq(Frame)
           /\ Len(s) = Len(stack) - 1
           /\ \A k \in 1 .. Len(stack) - 1 : s[k] = stack[k]
  <1>1. Len(stack) \in Nat /\ Len(stack) >= 1
    BY StackFacts
  <1>2. \A k \in 1 .. Len(stack) - 1 : stack[k] \in Frame
    BY StackFacts, <1>1
  <1>3. 1 \in Int /\ Len(stack) - 1 \in Int
    BY <1>1
  <1>4. /\ SubSeq(stack, 1, Len(stack) - 1) \in Seq(Frame)
        /\ Len(SubSeq(stack, 1, Len(stack) - 1)) =
              IF 1 <= Len(stack) - 1 THEN Len(stack) - 1 - 1 + 1 ELSE 0
        /\ \A k \in 1 .. Len(stack) - 1 - 1 + 1 :
              SubSeq(stack, 1, Len(stack) - 1)[k] = stack[1 + k - 1]
    BY <1>2, <1>3, SubSeqProperties
  <1>5. Len(SubSeq(stack, 1, Len(stack) - 1)) = Len(stack) - 1
    <2> DEFINE n == Len(stack)
               l == Len(SubSeq(stack, 1, Len(stack) - 1))
    <2>1. l = IF 1 <= n - 1 THEN n - 1 - 1 + 1 ELSE 0
      BY <1>4
    <2>2. n \in Nat /\ n >= 1
      BY <1>1
    <2> HIDE DEF n, l
    <2>3. l = n - 1
      BY <2>1, <2>2
    <2> QED BY <2>3 DEF n, l
  <1>6. ASSUME NEW k \in 1 .. Len(stack) - 1
        PROVE  SubSeq(stack, 1, Len(stack) - 1)[k] = stack[k]
    <2>1. k \in 1 .. Len(stack) - 1 - 1 + 1 /\ 1 + k - 1 = k
      BY <1>1
    <2> QED BY <1>4, <2>1, Zenon
  <1> QED BY <1>4, <1>5, <1>6, Zenon

LEMMA PlanFacts ==
    ASSUME TypeOK, NEW e \in Entry
    PROVE  /\ Append(plan, e) \in Seq(Entry)
           /\ Append(plan, e) # <<>>
           /\ Len(Append(plan, e)) = Len(plan) + 1
           /\ \A i \in 1 .. Len(plan) : Append(plan, e)[i] = plan[i]
           /\ Append(plan, e)[Len(plan) + 1] = e
  BY AppendProperties DEF TypeOK

-----------------------------------------------------------------------------
(* Types. *)

LEMMA BlankType == Blank \in Root /\ NoCommand \in Command
  BY DEF Blank, Root, NoCommand, Command

(* The command is over. *)
LEMMA EndType ==
    ASSUME NEW how \in {"done", "refused", "cut"}, End(how)
    PROVE  /\ pc' \in Steps /\ said' \in {"nothing", "done", "refused", "cut"}
           /\ cmd' \in Command /\ start' \in Root
           /\ stack' \in Seq(Frame) /\ plan' \in Seq(Entry) /\ at' \in 0 .. Len(plan')
           /\ had' \in SUBSET Package /\ touched' \in BOOLEAN
           /\ victim' \in Package \cup {None}
           /\ queue' \in SUBSET Package /\ failed' \in SUBSET Package
           /\ couldnot' \in SUBSET Package
           /\ offered' = offered
  <1>1. <<>> \in Seq(Frame) /\ <<>> \in Seq(Entry) /\ Len(<<>>) = 0
    BY EmptySeq
  <1>2. stack' = <<>> /\ plan' = <<>> /\ at' = 0 /\ cmd' = NoCommand /\ start' = Blank
    BY DEF End
  <1>3. stack' \in Seq(Frame) /\ plan' \in Seq(Entry) /\ at' \in 0 .. Len(plan')
    BY <1>1, <1>2
  <1>4. cmd' \in Command /\ start' \in Root
    BY <1>2, BlankType
  <1>5. /\ pc' \in Steps /\ said' \in {"nothing", "done", "refused", "cut"}
        /\ had' \in SUBSET Package /\ touched' \in BOOLEAN
        /\ victim' \in Package \cup {None}
        /\ queue' \in SUBSET Package /\ failed' \in SUBSET Package
        /\ couldnot' \in SUBSET Package
        /\ offered' = offered
    BY DEF End, Steps
  <1> QED BY <1>3, <1>4, <1>5

-----------------------------------------------------------------------------
(* Types. *)

LEMMA RootParts ==
    Snapshot \in Root <=>
        /\ disk \in [Package -> Version \cup {None, Foreign}]
        /\ db \in [Package -> Version \cup {None}]
        /\ pin \in [Package -> Key \cup {NoKey}]
        /\ auto \in SUBSET Package
  BY DEF Snapshot, Root

LEMMA RootPartsNext ==
    (Snapshot \in Root)' <=>
        /\ disk' \in [Package -> Version \cup {None, Foreign}]
        /\ db' \in [Package -> Version \cup {None}]
        /\ pin' \in [Package -> Key \cup {NoKey}]
        /\ auto' \in SUBSET Package
  BY DEF Snapshot, Root

(* The entry run_plan is at. *)
LEMMA NowType ==
    ASSUME TypeOK, Phase, pc \in Forward
    PROVE  /\ at \in 1 .. Len(plan) /\ Now \in Entry
           /\ Now.pkg \in Package /\ Now.version \in Version
           /\ Signer[Now.pkg][Now.version] \in Key
  <1>1. at \in 1 .. Len(plan)
    BY DEF Phase
  <1>2. Now \in Entry
    BY <1>1, StackFacts DEF Now
  <1> QED BY <1>1, <1>2, KeyAssumption DEF Entry

LEMMA TakeBackType ==
    ASSUME TypeOK, at \in 1 .. Len(plan),
           NEW told \in {"none", "done", "incomplete", "failed"},
           TakeBack(at - 1, told), (Snapshot \in Root)', torn' \in SUBSET Package
    PROVE  TypeOK'
  <1>1. restore' \in {"none", "done", "incomplete", "failed"}
    BY DEF TakeBack
  <1>2. CASE at - 1 = 0
    <2>1. End("refused")
      BY <1>2 DEF TakeBack
    <2> QED BY <1>1, <2>1, EndType DEF TypeOK
  <1>3. CASE at - 1 # 0
    <2>1. at - 1 \in 1 .. Len(plan) /\ at - 1 \in 0 .. Len(plan)
      BY <1>3, StackFacts
    <2>2. plan[at - 1].pkg \in Package
      BY <2>1, StackFacts DEF Entry
    <2>3. /\ pc' = "file" /\ at' = at - 1 /\ victim' = plan[at - 1].pkg
          /\ UNCHANGED <<offered, cmd, stack, plan, had, touched, queue, failed,
                         couldnot, said, start>>
      BY <1>3 DEF TakeBack, planning
    <2> QED BY <1>1, <2>1, <2>2, <2>3 DEF TypeOK, Steps
  <1> QED BY <1>2, <1>3

LEMMA AskType ==
    ASSUME TypeOK, NEW c \in Command, c.pkg \in Package, Ask(c)
    PROVE  TypeOK'
  <1>1. c.version \in Version /\ offered' = offered
    BY DEF TypeOK, Ask, Begin
  <1> DEFINE f == [pkg |-> c.pkg, version |-> c.version, left |-> Needs[c.pkg][c.version]]
  <1>2. f \in Frame
    BY <1>1, NeedsAssumption DEF Frame
  <1> HIDE DEF f
  <1>3. stack' = <<f>> /\ <<f>> \in Seq(Frame)
    BY <1>2 DEF Ask, f
  <1>4. plan' = <<>> /\ <<>> \in Seq(Entry) /\ at' = 0 /\ Len(<<>>) = 0
    BY EmptySeq DEF Ask, Begin
  <1>5. (Snapshot \in Root)' /\ start' \in Root
    BY BlankType, RootParts, RootPartsNext DEF Ask, Begin, TypeOK
  <1>6. /\ pc' = "resolve" /\ cmd' = c /\ said' = "nothing" /\ restore' = "none"
        /\ had' = {} /\ touched' = FALSE /\ queue' = {} /\ failed' = {} /\ couldnot' = {}
        /\ victim' = victim /\ torn' = torn
    BY DEF Ask, Begin
  <1>7. stack' \in Seq(Frame) /\ plan' \in Seq(Entry) /\ at' \in 0 .. Len(plan')
    BY <1>3, <1>4
  <1> QED BY <1>1, <1>5, <1>6, <1>7 DEF TypeOK, Steps

(* REMOVE and REMOVE ORPHANS start. *)
LEMMA BeginType ==
    ASSUME TypeOK, NEW step \in {"file", "pass"}, NEW c \in Command, Begin(step, c),
           stack' = stack, auto' = auto, victim' \in Package \cup {None}
    PROVE  TypeOK'
  <1>1. <<>> \in Seq(Entry) /\ Len(<<>>) = 0
    BY EmptySeq
  <1>2. (Snapshot \in Root)' /\ start' \in Root
    BY BlankType, RootParts, RootPartsNext DEF Begin, TypeOK
  <1>3. plan' \in Seq(Entry) /\ at' \in 0 .. Len(plan')
    BY <1>1 DEF Begin
  <1> QED BY <1>2, <1>3 DEF Begin, TypeOK, Steps

LEMMA ResolveType ==
    ASSUME TypeOK, Phase, Resolve
    PROVE  TypeOK'
  <1>1. CASE RefusePlan
    BY <1>1, EndType, RootParts, RootPartsNext DEF RefusePlan, TypeOK, root
  <1> DEFINE Others == /\ UNCHANGED <<disk, db, pin, auto, offered, cmd, restore, victim,
                                      queue, failed, couldnot, said, start, torn>>
                       /\ UNCHANGED <<had, touched>>
  <1>2. Others /\ pc' \in Steps /\ stack' \in Seq(Frame) /\ plan' \in Seq(Entry)
        /\ at' \in 0 .. Len(plan') => TypeOK'
    BY RootParts, RootPartsNext DEF TypeOK
  <1>3. CASE Meet
    <2>1. PICK d \in Top.left : Leave(Without(d))
      BY <1>3 DEF Meet
    <2>2. stack' \in Seq(Frame)
      BY <1>3, <2>1, WithoutFacts DEF Meet, Leave
    <2>3. Others /\ pc' = pc /\ plan' = plan /\ at' = at
      BY <1>3, <2>1 DEF Meet, Leave, root, removing, running
    <2> QED BY <1>2, <2>2, <2>3 DEF TypeOK
  <1>4. CASE Descend
    <2>1. PICK d \in Top.left : \E v \in Highest(d.name) :
              Leave(Append(Without(d), [pkg |-> d.name, version |-> v,
                                        left |-> Needs[d.name][v]]))
      BY <1>4 DEF Descend
    <2>2. PICK v \in Highest(d.name) :
              Leave(Append(Without(d), [pkg |-> d.name, version |-> v,
                                        left |-> Needs[d.name][v]]))
      BY <2>1
    <2> DEFINE f == [pkg |-> d.name, version |-> v, left |-> Needs[d.name][v]]
    <2>3. stack # <<>> /\ Top \in Frame
      BY <1>4, StackFacts DEF Descend, Top
    <2>4. d.name \in Package /\ v \in Version
      BY <2>2, <2>3 DEF Frame, Need, Highest, TypeOK
    <2>5. f \in Frame
      BY <2>4, NeedsAssumption DEF Frame
    <2> HIDE DEF f
    <2>6. Append(Without(d), f) \in Seq(Frame)
      BY <2>3, <2>5, PushFacts
    <2>7. stack' \in Seq(Frame)
      BY <2>2, <2>6 DEF Leave, f
    <2>8. Others /\ pc' = pc /\ plan' = plan /\ at' = at
      BY <1>4, <2>2 DEF Descend, Leave, root, removing, running
    <2> QED BY <1>2, <2>7, <2>8 DEF TypeOK
  <1>5. CASE Return
    <2>1. stack # <<>> /\ Len(stack) >= 1 /\ Top \in Frame
      BY <1>5, StackFacts DEF Return, Top
    <2> DEFINE e == [pkg |-> Top.pkg, version |-> Top.version]
    <2>2. e \in Entry
      BY <2>1 DEF Frame, Entry
    <2> HIDE DEF e
    <2>3. plan' = Append(plan, e) /\ stack' = SubSeq(stack, 1, Len(stack) - 1)
      BY <1>5 DEF Return, Leave, e
    <2>4. plan' \in Seq(Entry) /\ stack' \in Seq(Frame) /\ Len(plan') = Len(plan) + 1
      BY <2>1, <2>2, <2>3, PlanFacts, PopFacts
    <2>5. pc' \in Steps /\ at' \in {0, 1} /\ Others
      BY <1>5 DEF Return, Leave, Steps, root, removing
    <2>6. at' \in 0 .. Len(plan')
      BY <2>4, <2>5, StackFacts
    <2> QED BY <1>2, <2>4, <2>5, <2>6
  <1> QED BY <1>1, <1>3, <1>4, <1>5 DEF Resolve

LEMMA RunType ==
    ASSUME TypeOK, Phase, Run
    PROVE  TypeOK'
  <1>0. pc \in Forward
    BY DEF Run, Place, WritePin, WriteDb, Mark, Fail, Forward
  <1>1. /\ at \in 1 .. Len(plan) /\ Now.pkg \in Package /\ Now.version \in Version
        /\ Signer[Now.pkg][Now.version] \in Key
    BY <1>0, NowType
  <1>2. (Snapshot \in Root)' /\ torn' \in SUBSET Package
    <2>1. CASE Place
      BY <1>1, <2>1, RootParts, RootPartsNext DEF Place, TypeOK
    <2>2. CASE WritePin
      BY <1>1, <2>2, RootParts, RootPartsNext DEF WritePin, TypeOK
    <2>3. CASE WriteDb
      BY <1>1, <2>3, RootParts, RootPartsNext DEF WriteDb, TypeOK
    <2>4. CASE Mark
      BY <1>1, <2>4, RootParts, RootPartsNext DEF Mark, TypeOK
    <2>5. CASE Fail
      BY <1>1, <2>5, RootParts, RootPartsNext DEF Fail, TypeOK, root
    <2> QED BY <2>1, <2>2, <2>3, <2>4, <2>5 DEF Run
  <1>3. CASE Place
    BY <1>1, <1>2, <1>3 DEF Place, Continue, planning, removing, TypeOK, Steps
  <1>4. CASE WritePin
    BY <1>2, <1>4 DEF WritePin, Continue, planning, removing, TypeOK, Steps
  <1>5. CASE WriteDb
    <2>1. CASE Last
      BY <1>2, <1>5, <2>1, EndType DEF WriteDb, TypeOK
    <2>2. CASE ~Last
      BY <1>2, <1>5, <2>2 DEF WriteDb, Continue, planning, removing, TypeOK, Steps
    <2> QED BY <2>1, <2>2
  <1>6. CASE Mark
    <2>1. at < Len(plan)
      BY <1>6 DEF Mark, Phase
    <2>2. at + 1 \in 0 .. Len(plan)
      BY <1>1, <2>1, StackFacts
    <2> QED BY <1>2, <1>6, <2>2 DEF Mark, planning, removing, TypeOK, Steps
  <1>7. CASE Fail
    BY <1>1, <1>2, <1>7, TakeBackType DEF Fail
  <1> QED BY <1>3, <1>4, <1>5, <1>6, <1>7 DEF Run

LEMMA TakeOutType ==
    ASSUME TypeOK, Phase, TakeOut
    PROVE  TypeOK'
  <1>1. pc \in Undo /\ victim \in Package
    BY DEF TakeOut, DeleteFile, UnlinkDb, Unmark, CannotRemove, Unpin, CannotUnpin, Undo,
           Phase
  <1>2. (Snapshot \in Root)' /\ torn' \in SUBSET Package
    <2>1. CASE DeleteFile
      BY <1>1, <2>1, RootParts, RootPartsNext DEF DeleteFile, TypeOK
    <2>2. CASE UnlinkDb
      BY <1>1, <2>2, RootParts, RootPartsNext DEF UnlinkDb, TypeOK
    <2>3. CASE Unmark
      BY <1>1, <2>3, RootParts, RootPartsNext DEF Unmark, TypeOK
    <2>4. CASE CannotRemove
      BY <1>1, <2>4, RootParts, RootPartsNext DEF CannotRemove, TornNow, TypeOK, root
    <2>5. CASE Unpin
      BY <1>1, <2>5, RootParts, RootPartsNext DEF Unpin, TypeOK
    <2>6. CASE CannotUnpin
      BY <1>1, <2>6, RootParts, RootPartsNext DEF CannotUnpin, TypeOK, root
    <2> QED BY <2>1, <2>2, <2>3, <2>4, <2>5, <2>6 DEF TakeOut
  <1>3. ASSUME NEW step \in Steps, Removing(step)
        PROVE  TypeOK'
    BY <1>2, <1>3 DEF Removing, planning, running, removing, TypeOK
  <1>4. CASE DeleteFile
    BY <1>3, <1>4 DEF DeleteFile, Steps
  <1>5. CASE UnlinkDb
    BY <1>3, <1>5 DEF UnlinkDb, Steps
  <1>6. CASE Unmark
    <2>1. CASE Removing("unpin") \/ Removing("next")
      BY <1>3, <2>1 DEF Steps
    <2>2. CASE End("done") /\ UNCHANGED restore
      BY <1>2, <2>2, EndType DEF TypeOK
    <2> QED BY <1>6, <2>1, <2>2 DEF Unmark
  <1>7. CASE CannotRemove
    <2>1. CASE Undoing /\ TakeBack(at - 1, "failed")
      BY <1>1, <1>2, <2>1, TakeBackType DEF Undoing, Phase
    <2>2. CASE /\ Remember(victim) /\ couldnot' = couldnot \cup {victim}
               /\ pc' = "next"
               /\ UNCHANGED <<offered, cmd, planning, running, restore, victim, queue, said,
                              start, torn>>
      BY <1>1, <1>2, <2>2 DEF Remember, planning, running, TypeOK, Steps
    <2>3. CASE End("refused") /\ UNCHANGED <<restore, torn>>
      BY <1>2, <2>3, EndType DEF TypeOK
    <2> QED BY <1>7, <2>1, <2>2, <2>3 DEF CannotRemove
  <1>8. CASE Unpin
    BY <1>1, <1>2, <1>8, TakeBackType DEF Unpin, Phase, TypeOK
  <1>9. CASE CannotUnpin
    BY <1>1, <1>2, <1>9, TakeBackType DEF CannotUnpin, Phase, TypeOK
  <1> QED BY <1>4, <1>5, <1>6, <1>7, <1>8, <1>9 DEF TakeOut

LEMMA CommandsType ==
    ASSUME TypeOK, Phase, Commands
    PROVE  TypeOK'
  <1>1. ASSUME NEW p \in Package, NEW v \in Version, NEW g \in Given,
               Install(p, v, g[1], g[2]) \/ Upgrade(p, v, g[1], g[2])
        PROVE  TypeOK'
    <2>1. g[1] \in Key \cup {NoKey} /\ g[2] \in Key \cup {NoKey}
      BY GivenAssumption
    <2>2. db[p] \in Version \cup {None}
      BY RootParts DEF TypeOK
    <2> DEFINE c(verb, old) == [verb |-> verb, pkg |-> p, version |-> v, old |-> old,
                                key |-> g[1], accept |-> g[2]]
    <2>3. c("install", None) \in Command /\ c("upgrade", db[p]) \in Command
      BY <2>1, <2>2 DEF Command
    <2>4. c("install", None).pkg = p /\ c("upgrade", db[p]).pkg = p
      OBVIOUS
    <2>5. Ask(c("install", None)) \/ Ask(c("upgrade", db[p]))
      BY <1>1 DEF Install, Upgrade
    <2> HIDE DEF c
    <2> QED BY <2>3, <2>4, <2>5, AskType
  <1>2. ASSUME NEW p \in Package, Remove(p)
        PROVE  TypeOK'
    <2>1. [NoCommand EXCEPT !.verb = "remove", !.pkg = p] \in Command
      BY DEF NoCommand, Command
    <2> QED BY <1>2, <2>1, BeginType DEF Remove
  <1>3. CASE RemoveOrphans
    <2>1. [NoCommand EXCEPT !.verb = "orphans"] \in Command
      BY DEF NoCommand, Command
    <2> QED BY <1>3, <2>1, BeginType DEF RemoveOrphans, TypeOK
  <1> QED BY <1>1, <1>2, <1>3 DEF Commands

LEMMA TypeStep ==
    ASSUME TypeOK, Phase, [Next]_vars
    PROVE  TypeOK'
  <1>1. CASE Sweep
    <2>1. CASE Pass
      <3>1. CASE End("done") \/ End("refused")
        BY <2>1, <3>1, EndType, RootParts, RootPartsNext DEF Pass, TypeOK, root
      <3>2. CASE /\ queue' = Orphans \ failed /\ pc' = "next"
                 /\ UNCHANGED <<offered, cmd, planning, running, victim, failed, couldnot,
                                said, start>>
        <4>1. queue' \in SUBSET Package
          BY <3>2 DEF Orphans, Installed
        <4> QED BY <2>1, <3>2, <4>1, RootParts, RootPartsNext
                DEF Pass, TypeOK, root, planning, running, Steps
      <3> QED BY <2>1, <3>1, <3>2 DEF Pass
    <2>2. CASE NextOrphan
      BY <2>2, RootParts, RootPartsNext DEF NextOrphan, TypeOK, root, planning, running, Steps
    <2> QED BY <1>1, <2>1, <2>2 DEF Sweep
  <1>2. CASE Cut
    BY <1>2, EndType, RootParts, RootPartsNext DEF Cut, TypeOK, root
  <1>3. ASSUME NEW p \in Package, NEW v \in Version, Publish(p, v)
        PROVE  TypeOK'
    <2>1. offered' \in [Package -> SUBSET Version]
      BY <1>3 DEF Publish, TypeOK
    <2> QED BY <1>3, <2>1, RootParts, RootPartsNext
            DEF Publish, TypeOK, root, planning, running, removing
  <1>4. ASSUME NEW p \in Package, Keep(p)
        PROVE  TypeOK'
    <2>1. (Snapshot \in Root)'
      BY <1>4, RootParts, RootPartsNext DEF Keep, TypeOK
    <2> QED BY <1>4, <2>1 DEF Keep, TypeOK, planning, running, removing
  <1>5. CASE UNCHANGED vars
    BY <1>5, RootParts, RootPartsNext
       DEF vars, TypeOK, root, planning, running, removing
  <1> QED BY <1>1, <1>2, <1>3, <1>4, <1>5, ResolveType, RunType, TakeOutType, CommandsType
          DEF Next, Changes

-----------------------------------------------------------------------------
(* The plan's invariant, step by step. *)

(* Between commands there is no plan and nothing is queued. *)
LEMMA IdleStep ==
    ASSUME pc' = "idle", plan' = <<>>, queue' = {}
    PROVE  Kept'
  <1>1. Phase'
    BY DEF Phase, Forward, Undo
  <1>2. Unneeded' /\ Resolving' /\ Running'
    BY DEF Unneeded, Resolving, Running
  <1>3. KeysAsked'
    BY DEF KeysAsked, Forward
  <1> QED BY <1>1, <1>2, <1>3 DEF Kept

LEMMA ClosedKept ==
    ASSUME Closed, db' = db, torn \subseteq torn'
    PROVE  Closed'
  BY DEF Closed, Installed

(* What the plan and the database tell is told by them alone. *)
LEMMA SamePlan ==
    ASSUME plan' = plan, db' = db
    PROVE  /\ Distinct' = Distinct /\ Earlier' = Earlier /\ Brought' = Brought
           /\ EntriesReady' = EntriesReady
  <1>1. ASSUME NEW d PROVE MetOutside(d)' = MetOutside(d)
    BY DEF MetOutside
  <1>2. ASSUME NEW d, NEW k PROVE MetBefore(d, k)' = MetBefore(d, k)
    BY DEF MetBefore
  <1>3. Distinct' = Distinct /\ Brought' = Brought
    BY DEF Distinct, Brought
  <1>4. Earlier' = Earlier
    BY <1>1, <1>2, <1>3 DEF Earlier
  <1>5. EntriesReady' = EntriesReady
    BY <1>1, <1>2 DEF EntriesReady
  <1> QED BY <1>3, <1>4, <1>5

(* run_plan goes on, or back, and records nothing. *)
LEMMA RunningKept ==
    ASSUME Running, pc # "resolve", plan # <<>>, plan' = plan, db' = db,
           torn \subseteq torn',
           \A i \in 1 .. Len(plan) - 1 :
               Placed(i)' = Placed(i) \/ (~Placed(i)' /\ plan[i].pkg \in torn')
    PROVE  Running'
  <1>1. Distinct' /\ Earlier'
    BY SamePlan DEF Running
  <1>2. Apart'
    BY SamePlan DEF Running, Apart, Installed
  <1>3. Progress'
    BY DEF Running, Progress
  <1> QED BY <1>1, <1>2, <1>3 DEF Running

LEMMA UnneededKept ==
    ASSUME Unneeded, db' = db, queue' \subseteq queue,
           plan' = <<>> /\ pc' \in {"file", "unlink"} =>
               plan = <<>> /\ pc \in {"file", "unlink"} /\ victim' = victim
    PROVE  Unneeded'
  <1>1. ASSUME NEW p PROVE NeededBy(p)' = NeededBy(p)
    BY DEF NeededBy, Installed
  <1> QED BY <1>1 DEF Unneeded

LEMMA AllowedKept ==
    ASSUME NEW e, Allowed(e), pin' = pin, offered' = offered, cmd' = cmd
    PROVE  Allowed(e)'
  BY DEF Allowed, Lowest

LEMMA KeysKept ==
    ASSUME KeysAsked, pin' = pin, offered' = offered, cmd' = cmd, plan' = plan,
           pc \in Forward, pc' # "resolve"
    PROVE  KeysAsked'
  <1>1. \A i \in 1 .. Len(plan) : Allowed(plan[i])'
    BY AllowedKept DEF KeysAsked
  <1> QED BY <1>1 DEF KeysAsked

(* run_plan turns back to the entry before. *)
LEMMA TakeBackStep ==
    ASSUME TypeOK, Kept, at \in 1 .. Len(plan), pc \in Forward \cup Undo,
           NEW told, TakeBack(at - 1, told), db' = db, torn \subseteq torn',
           pc \in {"mark", "file", "unlink"} => plan[at].pkg \in torn'
    PROVE  Kept'
  <1>1. plan # <<>> /\ pc # "resolve"
    BY StackFacts DEF Forward, Undo
  <1>2. queue = {} /\ cmd.verb \in {"install", "upgrade"}
    BY <1>1 DEF Kept, Phase
  <1>3. CASE at - 1 = 0
    <2>1. End("refused")
      BY <1>3 DEF TakeBack
    <2> QED BY <2>1, IdleStep DEF End
  <1>4. CASE at - 1 # 0
    <2>1. /\ pc' = "file" /\ at' = at - 1 /\ victim' = plan[at - 1].pkg
          /\ UNCHANGED <<cmd, plan, queue>>
      BY <1>4 DEF TakeBack, planning
    <2>2. at' \in 1 .. Len(plan) /\ at' < Len(plan)
      BY <1>4, <2>1, StackFacts
    <2>3. plan[at'].pkg \in Package
      BY <2>2, StackFacts DEF Entry
    <2>4. Phase'
      BY <1>1, <1>2, <2>1, <2>2, <2>3 DEF Phase, Forward, Undo
    <2>5. Unneeded' /\ Resolving' /\ KeysAsked'
      BY <1>1, <1>2, <2>1 DEF Unneeded, Resolving, KeysAsked, Forward
    <2>6. ASSUME NEW i \in 1 .. Len(plan) - 1
          PROVE  Placed(i)' = Placed(i) \/ (~Placed(i)' /\ plan[i].pkg \in torn')
      <3>1. i \in Int /\ at \in Int
        BY StackFacts
      <3>2. CASE i = at
        BY <2>1, <3>1, <3>2 DEF Placed, Forward, Undo
      <3>3. CASE i # at
        BY <2>1, <3>1, <3>3 DEF Placed
      <3> QED BY <3>2, <3>3
    <2>7. Running'
      BY <1>1, <2>1, <2>6, RunningKept DEF Kept
    <2> QED BY <2>4, <2>5, <2>7 DEF Kept
  <1> QED BY <1>3, <1>4

-----------------------------------------------------------------------------
(* plan_one. *)

LEMMA AskStep ==
    ASSUME TypeOK, Kept, Closed, NEW c \in Command, c.verb \in {"install", "upgrade"}, Ask(c)
    PROVE  Kept' /\ Closed'
  <1>1. /\ pc' = "resolve" /\ cmd' = c /\ plan' = <<>> /\ queue' = {}
        /\ UNCHANGED <<offered, db, pin, torn>>
    BY DEF Ask, Begin
  <1> DEFINE f == [pkg |-> c.pkg, version |-> c.version, left |-> Needs[c.pkg][c.version]]
  <1>2. /\ stack' = <<f>>
        /\ f.pkg = c.pkg /\ f.version = c.version /\ f.left = Needs[c.pkg][c.version]
    BY DEF Ask
  <1> HIDE DEF f
  <1>3. Len(stack') = 1 /\ stack'[1] = f /\ Len(plan') = 0
    BY <1>1, <1>2
  <1>4. Phase'
    BY <1>1 DEF Phase, Forward, Undo
  <1>5. Unneeded' /\ Running'
    BY <1>1 DEF Unneeded, Running
  <1>6. Resolving'
    <2>1. Fresh'
      BY <1>1, <1>3 DEF Fresh, Distinct
    <2>2. EntriesReady'
      BY <1>3 DEF EntriesReady
    <2>3. FramesReady'
      BY <1>2, <1>3 DEF FramesReady
    <2> QED BY <2>1, <2>2, <2>3 DEF Resolving
  <1>7. Allowed(f)'
    <2>1. Trusts(c, c.pkg, c.version)
      BY DEF Ask
    <2> QED BY <1>1, <1>2, <2>1 DEF Allowed, Trusts, FirstSigner, KeyAllows, PinAllows, Lowest
  <1>8. KeysAsked'
    BY <1>1, <1>3, <1>7 DEF KeysAsked
  <1> QED BY <1>1, <1>4, <1>5, <1>6, <1>8, ClosedKept DEF Kept

LEMMA MeetStep ==
    ASSUME TypeOK, Kept, Meet
    PROVE  Kept'
  <1>1. PICK d \in Top.left : Satisfied(d) /\ Leave(Without(d))
    BY DEF Meet
  <1>2. /\ pc = "resolve" /\ stack # <<>> /\ stack' = Without(d)
        /\ UNCHANGED <<pc, plan, at, db, pin, offered, cmd, queue, torn>>
    BY <1>1 DEF Meet, Leave, running, root, removing
  <1>3. /\ Len(stack') = Len(stack) /\ Len(stack) \in Nat /\ Len(stack) >= 1
        /\ \A k \in 1 .. Len(stack) :
              /\ stack'[k].pkg = stack[k].pkg /\ stack'[k].version = stack[k].version
              /\ stack'[k].left = IF k = Len(stack) THEN stack[k].left \ {d}
                                                    ELSE stack[k].left
    BY <1>2, StackFacts, WithoutFacts
  <1>a. \A k \in 1 .. Len(stack) :
            stack'[k].pkg = stack[k].pkg /\ stack'[k].version = stack[k].version
    BY <1>3
  <1>4. Phase'
    BY <1>2 DEF Kept, Phase, Forward, Undo
  <1>5. Unneeded' /\ Running'
    BY <1>2, UnneededKept DEF Kept, Running
  <1>6. Fresh' /\ EntriesReady'
    <2>1. Fresh /\ EntriesReady /\ Len(stack') = Len(stack)
      BY <1>2, <1>3 DEF Kept, Resolving
    <2>2. Distinct' /\ EntriesReady'
      BY <1>2, <2>1, SamePlan DEF Fresh
    <2>3. \A i \in 1 .. Len(plan) :
              db[plan[i].pkg] = None /\ \A k \in 1 .. Len(stack) : stack'[k].pkg # plan[i].pkg
      BY <1>a, <2>1 DEF Fresh
    <2>4. \A k, l \in 1 .. Len(stack) : stack'[k].pkg = stack'[l].pkg => k = l
      BY <1>a, <2>1 DEF Fresh
    <2>5. \A k \in 1 .. Len(stack) : k > 1 => db[stack'[k].pkg] = None
      BY <1>a, <2>1 DEF Fresh
    <2> QED BY <1>2, <2>1, <2>2, <2>3, <2>4, <2>5 DEF Fresh
  <1>7. MetOutside(d) \/ MetBefore(d, Len(plan) + 1)
    <2>1. CASE db[d.name] # None
      BY <1>1, <2>1 DEF Satisfied, MetOutside
    <2>2. CASE db[d.name] = None
      <3>1. PICK v \in Planned(d.name) : v >= d.min
        BY <1>1, <2>2 DEF Satisfied
      <3>2. PICK j \in 1 .. Len(plan) : plan[j].pkg = d.name /\ plan[j].version = v
        BY <3>1 DEF Planned
      <3>3. j < Len(plan) + 1
        BY StackFacts
      <3> QED BY <3>1, <3>2, <3>3 DEF MetBefore
    <2> QED BY <2>1, <2>2
  <1>8. FramesReady'
    <2>1. ASSUME NEW m PROVE MetOutside(m)' = MetOutside(m)
      BY <1>2 DEF MetOutside
    <2>2. ASSUME NEW m PROVE MetBefore(m, Len(plan) + 1)' = MetBefore(m, Len(plan) + 1)
      BY <1>2 DEF MetBefore
    <2> SUFFICES ASSUME NEW k \in 1 .. Len(stack),
                        NEW m \in Needs[stack'[k].pkg][stack'[k].version],
                        m \notin stack'[k].left
                 PROVE  \/ MetOutside(m)
                        \/ MetBefore(m, Len(plan) + 1)
                        \/ /\ k < Len(stack)
                           /\ stack'[k + 1].pkg = m.name /\ stack'[k + 1].version >= m.min
      BY <1>2, <1>3, <2>1, <2>2 DEF FramesReady
    <2>3. CASE m = d
      BY <1>7, <2>3
    <2>4. CASE m # d
      <3>1. m \in Needs[stack[k].pkg][stack[k].version] /\ m \notin stack[k].left
        BY <1>3, <2>4
      <3>2. k < Len(stack) => stack'[k + 1].pkg = stack[k + 1].pkg
                              /\ stack'[k + 1].version = stack[k + 1].version
        <4>1. k < Len(stack) => k + 1 \in 1 .. Len(stack)
          BY <1>3
        <4> QED BY <1>a, <4>1
      <3> QED BY <1>2, <3>1, <3>2 DEF Kept, Resolving, FramesReady
    <2> QED BY <2>3, <2>4
  <1>9. KeysAsked'
    <2>1. ASSUME NEW k \in 1 .. Len(stack) PROVE Allowed(stack[k])'
      <3>1. Allowed(stack[k])
        BY <1>2 DEF Kept, KeysAsked
      <3>2. stack'[k].pkg = stack[k].pkg /\ stack'[k].version = stack[k].version
        BY <1>a
      <3> QED BY <1>2, <3>1, <3>2 DEF Allowed, Lowest
    <2>2. ASSUME NEW i \in 1 .. Len(plan) PROVE Allowed(plan[i])'
      <3>1. Allowed(plan[i])
        BY <1>2 DEF Kept, KeysAsked
      <3> QED BY <1>2, <3>1 DEF Allowed, Lowest
    <2> QED BY <1>2, <1>3, <2>1, <2>2 DEF KeysAsked
  <1> QED BY <1>2, <1>4, <1>5, <1>6, <1>8, <1>9 DEF Kept, Resolving

LEMMA DescendStep ==
    ASSUME TypeOK, Kept, Descend
    PROVE  Kept'
  <1>1. PICK d \in Top.left : \E v \in Highest(d.name) :
              /\ ~OnStack(d.name) /\ db[d.name] = None /\ Planned(d.name) = {}
              /\ v >= d.min /\ Trusts(cmd, d.name, v)
              /\ Leave(Append(Without(d), [pkg |-> d.name, version |-> v,
                                           left |-> Needs[d.name][v]]))
    BY DEF Descend
  <1>2. PICK v \in Highest(d.name) :
              /\ v >= d.min /\ Trusts(cmd, d.name, v)
              /\ Leave(Append(Without(d), [pkg |-> d.name, version |-> v,
                                           left |-> Needs[d.name][v]]))
    BY <1>1
  <1> DEFINE f == [pkg |-> d.name, version |-> v, left |-> Needs[d.name][v]]
             n == Len(stack) + 1
  <1>3. f.pkg = d.name /\ f.version = v /\ f.left = Needs[d.name][v]
    OBVIOUS
  <1>4. /\ pc = "resolve" /\ stack # <<>> /\ stack' = Append(Without(d), f)
        /\ UNCHANGED <<pc, plan, at, db, pin, offered, cmd, queue, torn>>
    BY <1>2 DEF Descend, Leave, running, root, removing
  <1>5. f \in Frame
    <2>1. Top \in Frame
      BY <1>4, StackFacts DEF Top
    <2>2. d.name \in Package /\ v \in Version
      BY <1>2, <2>1 DEF Frame, Need, Highest, TypeOK
    <2> QED BY <2>2, NeedsAssumption DEF Frame
  <1> HIDE DEF f
  <1>6. /\ Len(stack') = n /\ Len(stack) \in Nat /\ Len(stack) >= 1 /\ stack'[n] = f
        /\ \A k \in 1 .. Len(stack) :
              /\ stack'[k].pkg = stack[k].pkg /\ stack'[k].version = stack[k].version
              /\ stack'[k].left = IF k = Len(stack) THEN stack[k].left \ {d}
                                                    ELSE stack[k].left
    <2>1. Len(stack) \in Nat /\ Len(stack) >= 1 /\ stack # <<>>
      BY <1>4, StackFacts
    <2>2. Len(Append(Without(d), f)) = Len(stack) + 1
      BY <1>5, <2>1, PushFacts
    <2>3. Append(Without(d), f)[Len(stack) + 1] = f
      BY <1>5, <2>1, PushFacts
    <2>4. ASSUME NEW k \in 1 .. Len(stack)
          PROVE  /\ Append(Without(d), f)[k].pkg = stack[k].pkg
                 /\ Append(Without(d), f)[k].version = stack[k].version
                 /\ Append(Without(d), f)[k].left =
                       IF k = Len(stack) THEN stack[k].left \ {d} ELSE stack[k].left
      <3>1. Append(Without(d), f)[k] = Without(d)[k]
        BY <1>5, <2>1, PushFacts
      <3>2. /\ Without(d)[k].pkg = stack[k].pkg /\ Without(d)[k].version = stack[k].version
            /\ Without(d)[k].left =
                  IF k = Len(stack) THEN stack[k].left \ {d} ELSE stack[k].left
        BY <2>1, WithoutFacts
      <3> QED BY <3>1, <3>2, Zenon
    <2> QED BY <1>4, <2>1, <2>2, <2>3, <2>4, Zenon
  <1>a. /\ stack'[n].pkg = d.name /\ stack'[n].version = v
        /\ \A k \in 1 .. Len(stack) :
              stack'[k].pkg = stack[k].pkg /\ stack'[k].version = stack[k].version
    BY <1>3, <1>6
  <1>7. \A k \in 1 .. n : k \in 1 .. Len(stack) \/ k = n
    BY <1>6
  <1>8. /\ \A k \in 1 .. Len(stack) : stack[k].pkg # d.name
        /\ \A i \in 1 .. Len(plan) : plan[i].pkg # d.name
    BY <1>1 DEF OnStack, Planned
  <1>9. Phase'
    BY <1>4 DEF Kept, Phase, Forward, Undo
  <1>10. Unneeded' /\ Running'
    BY <1>4, UnneededKept DEF Kept, Running
  <1>11. Fresh'
    <2>0. Fresh
      BY <1>4 DEF Kept, Resolving
    <2>1. Distinct'
      BY <1>4, <2>0, SamePlan DEF Fresh
    <2>2. \A i \in 1 .. Len(plan) :
              db[plan[i].pkg] = None /\ \A k \in 1 .. n : stack'[k].pkg # plan[i].pkg
      BY <1>a, <1>7, <1>8, <2>0 DEF Fresh
    <2>3. \A k, l \in 1 .. n : stack'[k].pkg = stack'[l].pkg => k = l
      BY <1>a, <1>7, <1>8, <2>0 DEF Fresh
    <2>4. \A k \in 1 .. n : k > 1 => db[stack'[k].pkg] = None
      BY <1>1, <1>a, <1>7, <2>0 DEF Fresh
    <2> QED BY <1>4, <1>6, <2>1, <2>2, <2>3, <2>4 DEF Fresh
  <1>12. EntriesReady'
    BY <1>4, SamePlan DEF Kept, Resolving
  <1>13. FramesReady'
    <2>1. ASSUME NEW m PROVE MetOutside(m)' = MetOutside(m)
      BY <1>4 DEF MetOutside
    <2>2. ASSUME NEW m PROVE MetBefore(m, Len(plan) + 1)' = MetBefore(m, Len(plan) + 1)
      BY <1>4 DEF MetBefore
    <2> SUFFICES ASSUME NEW k \in 1 .. n,
                        NEW m \in Needs[stack'[k].pkg][stack'[k].version],
                        m \notin stack'[k].left
                 PROVE  \/ MetOutside(m)
                        \/ MetBefore(m, Len(plan) + 1)
                        \/ /\ k < n
                           /\ stack'[k + 1].pkg = m.name /\ stack'[k + 1].version >= m.min
      BY <1>4, <1>6, <2>1, <2>2 DEF FramesReady
    <2>3. CASE k = n
      BY <1>3, <1>6, <2>3
    <2>4. CASE k = Len(stack) /\ m = d
      BY <1>2, <1>3, <1>6, <2>4
    <2>5. CASE k \in 1 .. Len(stack) /\ ~(k = Len(stack) /\ m = d)
      <3>1. m \in Needs[stack[k].pkg][stack[k].version] /\ m \notin stack[k].left
        BY <1>6, <2>5
      <3>2. k < Len(stack) => stack'[k + 1].pkg = stack[k + 1].pkg
                              /\ stack'[k + 1].version = stack[k + 1].version
        <4>1. k < Len(stack) => k + 1 \in 1 .. Len(stack)
          BY <1>6, <2>5
        <4> QED BY <1>a, <4>1
      <3>3. k < Len(stack) => k < n
        BY <1>6, <2>5
      <3> QED BY <1>4, <2>5, <3>1, <3>2, <3>3 DEF Kept, Resolving, FramesReady
    <2> QED BY <1>7, <2>3, <2>4, <2>5
  <1>14. KeysAsked'
    <2>1. Allowed(f)'
      BY <1>2, <1>3, <1>4 DEF Allowed, Trusts, FirstSigner, KeyAllows, PinAllows, Lowest
    <2>2. ASSUME NEW k \in 1 .. n PROVE Allowed(stack[k])'
      <3>1. CASE k = n
        BY <1>6, <2>1, <3>1
      <3>2. CASE k \in 1 .. Len(stack)
        <4>1. Allowed(stack[k])
          BY <1>4, <3>2 DEF Kept, KeysAsked
        <4>2. stack'[k].pkg = stack[k].pkg /\ stack'[k].version = stack[k].version
          BY <1>a, <3>2
        <4> QED BY <1>4, <4>1, <4>2 DEF Allowed, Lowest
      <3> QED BY <1>7, <3>1, <3>2
    <2>3. ASSUME NEW i \in 1 .. Len(plan) PROVE Allowed(plan[i])'
      <3>1. Allowed(plan[i])
        BY <1>4 DEF Kept, KeysAsked
      <3> QED BY <1>4, <3>1 DEF Allowed, Lowest
    <2> QED BY <1>4, <1>6, <2>2, <2>3 DEF KeysAsked
  <1> QED BY <1>4, <1>9, <1>10, <1>11, <1>12, <1>13, <1>14 DEF Kept, Resolving

LEMMA ReturnStep ==
    ASSUME TypeOK, Kept, Closed, Return
    PROVE  Kept'
  <1> DEFINE n == Len(stack)
             m == Len(plan)
             e == [pkg |-> Top.pkg, version |-> Top.version]
  <1>1. /\ pc = "resolve" /\ stack # <<>> /\ Top.left = {}
        /\ plan' = Append(plan, e) /\ stack' = SubSeq(stack, 1, Len(stack) - 1)
        /\ pc' = (IF n = 1 THEN "place" ELSE "resolve")
        /\ at' = (IF n = 1 THEN 1 ELSE 0)
    BY DEF Return, Leave
  <1>a. pc = "resolve" /\ UNCHANGED <<db, pin, offered, cmd, queue, torn>>
    BY DEF Return, Leave, root, removing
  <1>2. m \in Nat /\ n \in Nat /\ n >= 1 /\ Top = stack[n] /\ Top \in Frame
    BY <1>1, StackFacts DEF Top
  <1>3. e \in Entry /\ e.pkg = stack[n].pkg /\ e.version = stack[n].version
    BY <1>2 DEF Entry, Frame
  <1> HIDE DEF e
  <1>4. /\ Len(plan') = m + 1 /\ plan' # <<>> /\ plan'[m + 1] = e
        /\ \A i \in 1 .. m : plan'[i] = plan[i]
    BY <1>1, <1>3, PlanFacts
  <1>5. Len(stack') = n - 1 /\ \A k \in 1 .. n - 1 : stack'[k] = stack[k]
    BY <1>1, PopFacts
  <1> HIDE DEF n, m
  <1>6. \A i \in 1 .. m + 1 : i \in 1 .. m \/ i = m + 1
    BY <1>2
  <1>7. Fresh /\ EntriesReady /\ FramesReady
    BY <1>a DEF Kept, Resolving
  <1>8. /\ cmd.verb \in {"install", "upgrade"} /\ queue = {}
    BY <1>a DEF Kept, Phase
  <1>9. ASSUME NEW d PROVE MetOutside(d)' = MetOutside(d)
    BY <1>a DEF MetOutside
  <1>10. ASSUME NEW d, NEW k, MetBefore(d, k) PROVE MetBefore(d, k)'
    <2>1. PICK j \in 1 .. m : j < k /\ plan[j].pkg = d.name /\ plan[j].version >= d.min
      BY <1>10 DEF MetBefore, m
    <2>2. j \in 1 .. Len(plan') /\ plan'[j] = plan[j]
      BY <1>2, <1>4
    <2> QED BY <2>1, <2>2 DEF MetBefore
  <1>11. ASSUME NEW d \in Needs[e.pkg][e.version]
         PROVE  MetOutside(d) \/ MetBefore(d, m + 1)
    <2>1. d \in Needs[stack[n].pkg][stack[n].version] \ stack[n].left
      BY <1>1, <1>2, <1>3
    <2>2. n \in 1 .. Len(stack) /\ ~(n < Len(stack))
      BY <1>2 DEF n
    <2> QED BY <1>7, <2>1, <2>2 DEF FramesReady, m
  <1>12. Distinct'
    <2>1. \A i \in 1 .. m : plan[i].pkg # e.pkg
      BY <1>2, <1>3, <1>7 DEF Fresh, n, m
    <2>2. \A i, j \in 1 .. m : plan[i].pkg = plan[j].pkg => i = j
      BY <1>7 DEF Fresh, Distinct, m
    <2>3. \A i, j \in 1 .. m + 1 : plan'[i].pkg = plan'[j].pkg => i = j
      BY <1>4, <1>6, <2>1, <2>2
    <2> QED BY <1>4, <2>3 DEF Distinct
  <1>13. ASSUME NEW i \in 1 .. m + 1, NEW d \in Needs[plan'[i].pkg][plan'[i].version]
         PROVE  MetOutside(d) \/ MetBefore(d, i)'
    <2>1. CASE i = m + 1
      BY <1>4, <1>10, <1>11, <2>1
    <2>2. CASE i \in 1 .. m
      <3>1. MetOutside(d) \/ MetBefore(d, i)
        BY <1>4, <1>7, <2>2 DEF EntriesReady, m
      <3> QED BY <1>10, <3>1
    <2> QED BY <1>6, <2>1, <2>2
  <1>14. ASSUME NEW i \in 1 .. m + 1 PROVE Allowed(plan[i])'
    <2>1. CASE i = m + 1
      <3>1. Allowed(stack[n])
        BY <1>a, <1>2 DEF Kept, KeysAsked, n
      <3>2. plan'[i].pkg = stack[n].pkg /\ plan'[i].version = stack[n].version
        BY <1>3, <1>4, <2>1
      <3> QED BY <1>a, <3>1, <3>2 DEF Allowed, Lowest
    <2>2. CASE i \in 1 .. m
      <3>1. Allowed(plan[i])
        BY <1>a, <2>2 DEF Kept, KeysAsked, m
      <3>2. plan'[i] = plan[i]
        BY <1>4, <2>2
      <3> QED BY <1>a, <3>1, <3>2 DEF Allowed, Lowest
    <2> QED BY <1>6, <2>1, <2>2
  <1>15. Unneeded'
    BY <1>a, <1>4, <1>8 DEF Unneeded
  <1>16. CASE n = 1
    <2>1. pc' = "place" /\ at' = 1
      BY <1>1, <1>16
    <2>2. Phase'
      BY <1>a, <1>2, <1>4, <1>8, <2>1 DEF Phase, Forward, Undo
    <2>3. Resolving' /\ KeysAsked'
      BY <1>4, <1>14, <2>1 DEF Resolving, KeysAsked
    <2>4. Brought' = {plan[i].pkg : i \in 1 .. m}
      BY <1>2, <1>4 DEF Brought
    <2>5. \A i \in 1 .. m : db[plan[i].pkg] = None
      BY <1>7 DEF Fresh, m
    <2>6. Earlier'
      <3> SUFFICES ASSUME NEW i \in 1 .. m + 1,
                          NEW d \in Needs[plan'[i].pkg][plan'[i].version]
                   PROVE  MetBefore(d, i)' \/ (MetOutside(d)' /\ d.name \notin Brought')
        BY <1>4 DEF Earlier
      <3>1. MetOutside(d) => d.name \notin Brought'
        BY <2>4, <2>5 DEF MetOutside
      <3> QED BY <1>9, <1>13, <3>1
    <2>7. Progress'
      <3> SUFFICES ASSUME NEW i \in 1 .. m
                   PROVE  ~Placed(i)' /\ db'[plan'[i].pkg] = None
        BY <1>2, <1>4 DEF Progress
      <3> QED BY <1>a, <1>2, <1>4, <2>1, <2>5 DEF Placed
    <2>8. Apart'
      <3> SUFFICES ASSUME NEW q \in Installed \ torn
                   PROVE  Names(Needs[q][db[q]]) \cap Brought' = {}
        BY <1>a DEF Apart, Installed
      <3>1. Names(Needs[q][db[q]]) \subseteq Installed
        BY DEF Closed
      <3> QED BY <2>4, <2>5, <3>1 DEF Installed
    <2>9. Running'
      BY <1>12, <2>6, <2>7, <2>8 DEF Running
    <2> QED BY <1>15, <2>2, <2>3, <2>9 DEF Kept
  <1>17. CASE n # 1
    <2>1. pc' = "resolve" /\ n - 1 \in 1 .. Len(stack) /\ n \in 1 .. Len(stack)
      <3>1. pc' = "resolve"
        BY <1>1, <1>17
      <3>2. n - 1 \in 1 .. n /\ n \in 1 .. n
        BY <1>2, <1>17
      <3> QED BY <3>1, <3>2 DEF n
    <2>2. Phase'
      BY <1>a, <1>8, <2>1 DEF Phase, Forward, Undo
    <2>3. Running'
      BY <2>1 DEF Running
    <2>4. \A k \in 1 .. n - 1 : k \in 1 .. Len(stack) /\ k # n
      BY <1>2, <2>1 DEF n
    <2>5. KeysAsked'
      <3>1. ASSUME NEW k \in 1 .. n - 1 PROVE Allowed(stack[k])'
        <4>1. Allowed(stack[k])
          BY <1>a, <2>4 DEF Kept, KeysAsked
        <4> QED BY <1>a, <1>5, <4>1 DEF Allowed, Lowest
      <3> QED BY <1>4, <1>5, <1>14, <3>1 DEF KeysAsked
    <2>6. Fresh'
      <3>1. ASSUME NEW i \in 1 .. m + 1
            PROVE  db[plan'[i].pkg] = None /\ \A k \in 1 .. n - 1 : stack[k].pkg # plan'[i].pkg
        <4>1. CASE i = m + 1
          <5>1. db[stack[n].pkg] = None
            BY <1>2, <1>7, <1>17, <2>1 DEF Fresh
          <5>2. \A k \in 1 .. n - 1 : stack[k].pkg # stack[n].pkg
            BY <1>7, <2>1, <2>4 DEF Fresh
          <5> QED BY <1>3, <1>4, <4>1, <5>1, <5>2
        <4>2. CASE i \in 1 .. m
          BY <1>4, <1>7, <2>4, <4>2 DEF Fresh, m
        <4> QED BY <1>6, <4>1, <4>2
      <3>2. \A k, l \in 1 .. n - 1 : stack[k].pkg = stack[l].pkg => k = l
        BY <1>7, <2>4 DEF Fresh
      <3>3. \A k \in 1 .. n - 1 : k > 1 => db[stack[k].pkg] = None
        BY <1>7, <2>4 DEF Fresh
      <3>4. \A i \in 1 .. m + 1 :
                db'[plan'[i].pkg] = None
                /\ \A k \in 1 .. n - 1 : stack'[k].pkg # plan'[i].pkg
        BY <1>a, <1>5, <3>1
      <3>5. \A k, l \in 1 .. n - 1 : stack'[k].pkg = stack'[l].pkg => k = l
        BY <1>5, <3>2
      <3>6. \A k \in 1 .. n - 1 : k > 1 => db'[stack'[k].pkg] = None
        BY <1>a, <1>5, <3>3
      <3> QED BY <1>4, <1>5, <1>12, <3>4, <3>5, <3>6 DEF Fresh
    <2>7. EntriesReady'
      BY <1>4, <1>9, <1>13 DEF EntriesReady
    <2>8. FramesReady'
      <3> SUFFICES ASSUME NEW k \in 1 .. n - 1,
                          NEW d \in Needs[stack[k].pkg][stack[k].version], d \notin stack[k].left
                   PROVE  \/ MetOutside(d)
                          \/ MetBefore(d, Len(plan) + 1)'
                          \/ /\ k < n - 1
                             /\ stack'[k + 1].pkg = d.name /\ stack'[k + 1].version >= d.min
        <4>1. ASSUME NEW k \in 1 .. n - 1, NEW d,
                     k < n - 1 /\ stack'[k + 1].pkg = d.name /\ stack'[k + 1].version >= d.min
              PROVE  k < Len(stack')
          BY <1>5, <4>1
        <4> QED BY <1>5, <1>9, <4>1 DEF FramesReady
      <3>1. \/ MetOutside(d)
            \/ MetBefore(d, m + 1)
            \/ stack[k + 1].pkg = d.name /\ stack[k + 1].version >= d.min
        BY <1>7, <2>4 DEF FramesReady, m
      <3>2. ASSUME MetBefore(d, m + 1) PROVE MetBefore(d, Len(plan) + 1)'
        <4>1. PICK j \in 1 .. Len(plan') :
                  j < m + 1 /\ plan'[j].pkg = d.name /\ plan'[j].version >= d.min
          BY <1>10, <3>2 DEF MetBefore
        <4>2. j < Len(plan') + 1
          BY <1>2, <1>4, <4>1
        <4> QED BY <4>1, <4>2 DEF MetBefore
      <3>3. CASE k = n - 1
        <4>1. k + 1 = n
          BY <1>2, <3>3
        <4>2. ASSUME stack[n].pkg = d.name, stack[n].version >= d.min
              PROVE  MetBefore(d, Len(plan) + 1)'
          <5>1. m + 1 \in 1 .. Len(plan') /\ m + 1 < Len(plan') + 1
            BY <1>2, <1>4
          <5>2. plan'[m + 1].pkg = d.name /\ plan'[m + 1].version >= d.min
            BY <1>3, <1>4, <4>2
          <5> QED BY <5>1, <5>2 DEF MetBefore
        <4> QED BY <3>1, <3>2, <4>1, <4>2
      <3>4. CASE k # n - 1
        <4>1. k < n - 1 /\ k + 1 \in 1 .. n - 1
          BY <1>2, <3>4
        <4>2. stack'[k + 1] = stack[k + 1]
          BY <1>5, <4>1
        <4> QED BY <3>1, <3>2, <4>1, <4>2
      <3> QED BY <3>3, <3>4
    <2> QED BY <1>15, <2>2, <2>3, <2>5, <2>6, <2>7, <2>8 DEF Kept, Resolving
  <1> QED BY <1>16, <1>17

-----------------------------------------------------------------------------
(* run_plan. *)

LEMMA PlaceStep ==
    ASSUME TypeOK, Kept, Closed, Place
    PROVE  Kept' /\ Closed'
  <1>1. /\ pc = "place" /\ pc' = "pin"
        /\ UNCHANGED <<cmd, plan, at, queue, db, pin, torn, offered>>
    BY DEF Place, Continue, planning, removing
  <1>2. plan # <<>> /\ at \in 1 .. Len(plan)
    BY <1>1, StackFacts DEF Kept, Phase, Forward
  <1>3. Phase'
    BY <1>1 DEF Kept, Phase, Forward, Undo
  <1>4. Running'
    BY <1>1, <1>2, RunningKept DEF Kept, Placed
  <1>5. Unneeded' /\ Resolving' /\ KeysAsked'
    BY <1>1, UnneededKept, KeysKept DEF Kept, Resolving, Forward
  <1> QED BY <1>1, <1>3, <1>4, <1>5, ClosedKept DEF Kept

LEMMA WritePinStep ==
    ASSUME TypeOK, Kept, Closed, WritePin
    PROVE  Kept' /\ Closed'
  <1>1. /\ pc = "pin" /\ pc' = "db"
        /\ UNCHANGED <<cmd, plan, at, queue, db, torn, offered>>
    BY DEF WritePin, Continue, planning, removing
  <1>2. plan # <<>> /\ at \in 1 .. Len(plan)
    BY <1>1, StackFacts DEF Kept, Phase, Forward
  <1>3. Phase'
    BY <1>1 DEF Kept, Phase, Forward, Undo
  <1>4. Running'
    BY <1>1, <1>2, RunningKept DEF Kept, Placed
  <1>5. Unneeded' /\ Resolving'
    BY <1>1, UnneededKept DEF Kept, Resolving
  <1>6. Signer[Now.pkg][Now.version] # NoKey
    BY <1>1, NowType, KeyAssumption DEF Kept, Forward
  <1>7. ASSUME NEW i \in 1 .. Len(plan) PROVE Allowed(plan[i])'
    <2>1. Allowed(plan[i])
      BY <1>1 DEF Kept, KeysAsked, Forward
    <2>2. CASE plan[i].pkg = Now.pkg
      <3>1. plan[i] = Now
        BY <1>1, <1>2, <2>2 DEF Kept, Running, Distinct, Now
      <3>2. plan[i].pkg \in Package
        BY StackFacts DEF Entry
      <3>3. pin'[plan[i].pkg] = Signer[plan[i].pkg][plan[i].version]
        BY <3>1, <3>2 DEF WritePin, TypeOK, Snapshot, Root
      <3> QED BY <1>1, <1>6, <3>1, <3>3 DEF Allowed
    <2>3. CASE plan[i].pkg # Now.pkg
      <3>1. pin'[plan[i].pkg] = pin[plan[i].pkg]
        BY <2>3 DEF WritePin, TypeOK, Snapshot, Root
      <3> QED BY <1>1, <2>1, <3>1 DEF Allowed, Lowest
    <2> QED BY <2>2, <2>3
  <1>8. KeysAsked'
    BY <1>1, <1>7 DEF KeysAsked
  <1> QED BY <1>1, <1>3, <1>4, <1>5, <1>8, ClosedKept DEF Kept

(* The entry that is recorded has what it needs. *)
LEMMA NowMet ==
    ASSUME TypeOK, Kept, pc \in Forward, pc # "mark",
           NEW d \in Needs[Now.pkg][Now.version]
    PROVE  db[d.name] # None /\ db[d.name] >= d.min
  <1>1. /\ pc # "resolve" /\ at \in 1 .. Len(plan) /\ plan # <<>>
    BY StackFacts DEF Kept, Phase, Forward
  <1>2. MetBefore(d, at) \/ MetOutside(d)
    BY <1>1 DEF Kept, Running, Earlier, Now
  <1>3. ASSUME MetBefore(d, at)
        PROVE  db[d.name] # None /\ db[d.name] >= d.min
    <2>1. PICK j \in 1 .. Len(plan) :
              j < at /\ plan[j].pkg = d.name /\ plan[j].version >= d.min
      BY <1>3 DEF MetBefore
    <2>2. j \in 1 .. Len(plan) - 1 /\ plan[j].version # None
      BY <1>1, <2>1, StackFacts, NoneAssumption DEF Entry
    <2>3. db[plan[j].pkg] = plan[j].version
      BY <1>1, <2>1, <2>2 DEF Kept, Running, Progress, Placed
    <2> QED BY <2>1, <2>2, <2>3
  <1> QED BY <1>2, <1>3 DEF MetOutside

LEMMA WriteDbStep ==
    ASSUME TypeOK, Kept, Closed, WriteDb
    PROVE  Kept' /\ Closed'
  <1>1. /\ pc = "db" /\ db' = [db EXCEPT ![Now.pkg] = Now.version]
        /\ torn' = torn \ {Now.pkg} /\ pin' = pin
    BY DEF WriteDb
  <1>2. /\ at \in 1 .. Len(plan) /\ plan # <<>> /\ Now = plan[at]
        /\ Now.pkg \in Package /\ Now.version \in Version /\ Now.version # None
        /\ db \in [Package -> Version \cup {None}]
    BY <1>1, NowType, StackFacts, RootParts, NoneAssumption DEF Kept, Forward, Now, TypeOK
  <1>3. db'[Now.pkg] = Now.version /\ \A p : p # Now.pkg => db'[p] = db[p]
    BY <1>1, <1>2
  <1>4. Installed' = Installed \cup {Now.pkg}
    BY <1>2, <1>3 DEF Installed
  <1>5. \A d \in Needs[Now.pkg][Now.version] : d.name \in Installed
    <2> SUFFICES ASSUME NEW d \in Needs[Now.pkg][Now.version] PROVE d.name \in Installed
      OBVIOUS
    <2>1. d.name \in Package
      BY <1>2, NeedsAssumption DEF Need
    <2>2. db[d.name] # None
      BY <1>1, NowMet DEF Forward
    <2> QED BY <2>1, <2>2 DEF Installed
  <1>6. Closed'
    BY <1>1, <1>3, <1>4, <1>5 DEF Closed, Names
  <1>7. CASE Last
    BY <1>6, <1>7, IdleStep DEF WriteDb, End
  <1>8. CASE ~Last
    <2>1. /\ pc' = "mark" /\ UNCHANGED <<cmd, plan, at, queue, offered>>
      BY <1>8 DEF WriteDb, Continue, planning, removing
    <2>2. at \in 1 .. Len(plan) - 1 /\ at < Len(plan)
      BY <1>2, <1>8, StackFacts DEF Last
    <2>3. Phase'
      BY <1>1, <2>1, <2>2 DEF Kept, Phase, Forward, Undo
    <2>4. queue = {}
      BY <1>1 DEF Kept, Phase, Forward
    <2>5. Unneeded' /\ Resolving'
      BY <2>1, <2>4 DEF Unneeded, Resolving
    <2>6. KeysAsked'
      BY <1>1, <2>1, KeysKept DEF Kept, Forward
    <2>7. Running'
      <3>1. Distinct /\ Earlier /\ Progress /\ Apart
        BY <1>1, <1>2 DEF Kept, Running
      <3>2. Now.pkg \in Brought /\ Brought' = Brought /\ Distinct'
        BY <1>2, <2>1, <2>2, <3>1 DEF Brought, Distinct
      <3>3. ASSUME NEW i \in 1 .. Len(plan) - 1
            PROVE  (IF Placed(i) THEN db[plan[i].pkg] = plan[i].version
                     ELSE db[plan[i].pkg] = None \/ plan[i].pkg \in torn)'
        <4>1. CASE i = at
          BY <1>2, <1>3, <2>1, <4>1 DEF Placed
        <4>2. CASE i # at
          <5>1. plan[i].pkg # Now.pkg
            BY <1>2, <3>1, <4>2, StackFacts DEF Distinct
          <5>2. Placed(i)' = Placed(i)
            BY <2>1, <4>2 DEF Placed
          <5>3. IF Placed(i) THEN db[plan[i].pkg] = plan[i].version
                             ELSE db[plan[i].pkg] = None \/ plan[i].pkg \in torn
            BY <3>1 DEF Progress
          <5> QED BY <1>1, <1>3, <2>1, <5>1, <5>2, <5>3
        <4> QED BY <4>1, <4>2
      <3>4. Progress'
        BY <2>1, <3>3 DEF Progress
      <3>5. Earlier'
        <4>1. ASSUME NEW d, NEW k PROVE MetBefore(d, k)' = MetBefore(d, k)
          BY <2>1 DEF MetBefore
        <4>2. ASSUME NEW d, MetOutside(d), d.name \notin Brought PROVE MetOutside(d)'
          BY <1>3, <3>2, <4>2 DEF MetOutside
        <4> QED BY <2>1, <3>1, <3>2, <4>1, <4>2 DEF Earlier
      <3>6. Apart'
        BY <1>1, <1>3, <1>4, <3>1, <3>2 DEF Apart
      <3> QED BY <3>2, <3>4, <3>5, <3>6 DEF Running
    <2> QED BY <1>6, <2>3, <2>5, <2>6, <2>7 DEF Kept
  <1> QED BY <1>7, <1>8

LEMMA MarkStep ==
    ASSUME TypeOK, Kept, Closed, Mark
    PROVE  Kept' /\ Closed'
  <1>1. /\ pc = "mark" /\ pc' = "place" /\ at' = at + 1
        /\ UNCHANGED <<cmd, plan, queue, db, pin, torn, offered>>
    BY DEF Mark, planning, removing
  <1>2. plan # <<>> /\ at \in 1 .. Len(plan) /\ at + 1 \in 1 .. Len(plan)
    BY <1>1, StackFacts DEF Kept, Phase, Forward
  <1>3. Phase'
    BY <1>1, <1>2 DEF Kept, Phase, Forward, Undo
  <1>4. ASSUME NEW i \in 1 .. Len(plan) - 1 PROVE Placed(i)' = Placed(i)
    BY <1>1, <1>2, StackFacts DEF Placed
  <1>5. Running'
    BY <1>1, <1>2, <1>4, RunningKept DEF Kept
  <1>6. Unneeded' /\ Resolving' /\ KeysAsked'
    BY <1>1, UnneededKept, KeysKept DEF Kept, Resolving, Forward
  <1> QED BY <1>1, <1>3, <1>5, <1>6, ClosedKept DEF Kept

LEMMA FailStep ==
    ASSUME TypeOK, Kept, Closed, Fail
    PROVE  Kept' /\ Closed'
  <1>1. pc \in {"place", "pin", "db"} /\ db' = db /\ torn' = torn
    BY DEF Fail, root
  <1>2. at \in 1 .. Len(plan)
    BY <1>1 DEF Kept, Phase, Forward
  <1>3. Kept'
    BY <1>1, <1>2, TakeBackStep DEF Fail, Forward
  <1> QED BY <1>1, <1>3, ClosedKept

-----------------------------------------------------------------------------
(* remove_files. *)

LEMMA DeleteFileStep ==
    ASSUME TypeOK, Kept, Closed, DeleteFile
    PROVE  Kept' /\ Closed'
  <1>1. /\ pc = "file" /\ pc' = "unlink"
        /\ UNCHANGED <<cmd, plan, at, victim, queue, db, pin, torn, offered>>
    BY DEF DeleteFile, Removing, planning, running, removing
  <1>2. Phase'
    BY <1>1 DEF Kept, Phase, Forward, Undo
  <1>3. Unneeded' /\ Resolving' /\ KeysAsked'
    BY <1>1, UnneededKept DEF Kept, Resolving, KeysAsked, Forward
  <1>4. Running'
    <2>1. CASE plan = <<>>
      BY <1>1, <2>1 DEF Running
    <2>2. CASE plan # <<>>
      BY <1>1, <2>2, RunningKept DEF Kept, Placed
    <2> QED BY <2>1, <2>2
  <1> QED BY <1>1, <1>2, <1>3, <1>4, ClosedKept DEF Kept

LEMMA UnlinkDbStep ==
    ASSUME TypeOK, Kept, Closed, UnlinkDb
    PROVE  Kept' /\ Closed'
  <1>1. /\ pc = "unlink" /\ pc' = "unmark" /\ db' = [db EXCEPT ![victim] = None]
        /\ torn' = torn \ {victim}
        /\ UNCHANGED <<cmd, plan, at, victim, queue, offered>>
    BY DEF UnlinkDb, Removing, planning, running, removing
  <1>2. victim \in Package /\ db \in [Package -> Version \cup {None}]
    BY <1>1, RootParts DEF Kept, Phase, Undo, TypeOK
  <1>3. db'[victim] = None /\ \A p : p # victim => db'[p] = db[p]
    BY <1>1, <1>2
  <1>4. Installed' = Installed \ {victim}
    BY <1>2, <1>3 DEF Installed
  <1>5. Phase'
    BY <1>1 DEF Kept, Phase, Forward, Undo
  <1>6. Unneeded'
    <2>1. \A p : NeededBy(p)' => NeededBy(p)
      BY <1>3, <1>4 DEF NeededBy
    <2> QED BY <1>1, <2>1 DEF Kept, Unneeded
  <1>7. Resolving' /\ KeysAsked'
    BY <1>1 DEF Resolving, KeysAsked, Forward
  <1>8. CASE plan = <<>>
    <2>1. ~NeededBy(victim)
      BY <1>1, <1>8 DEF Kept, Unneeded
    <2>2. Closed'
      BY <1>1, <1>3, <1>4, <2>1 DEF Closed, NeededBy
    <2> QED BY <1>1, <1>5, <1>6, <1>7, <1>8, <2>2 DEF Kept, Running
  <1>9. CASE plan # <<>>
    <2>1. Distinct /\ Earlier /\ Progress /\ Apart
      BY <1>1, <1>9 DEF Kept, Running
    <2>2. at \in 1 .. Len(plan) /\ at \in 1 .. Len(plan) - 1 /\ victim = plan[at].pkg
      BY <1>1, <1>9, StackFacts DEF Kept, Phase, Undo
    <2>3. victim \in Brought /\ Brought' = Brought /\ Distinct'
      BY <1>1, <2>1, <2>2 DEF Brought, Distinct
    <2>4. ASSUME NEW p \in Installed \ torn, p # victim
          PROVE  victim \notin Names(Needs[p][db[p]])
      <3>1. CASE p \notin Brought
        BY <2>1, <2>3, <2>4, <3>1 DEF Apart
      <3>2. CASE p \in Brought
        <4>1. PICK i \in 1 .. Len(plan) - 1 : plan[i].pkg = p
          BY <3>2 DEF Brought
        <4>2. i # at
          BY <2>2, <2>4, <4>1
        <4>3. Placed(i) /\ db[p] = plan[i].version
          BY <2>1, <2>4, <4>1 DEF Progress, Installed
        <4>4. i < at /\ i \in 1 .. Len(plan)
          BY <4>2, <4>3, StackFacts DEF Placed
        <4> SUFFICES ASSUME NEW d \in Needs[plan[i].pkg][plan[i].version]
                     PROVE  d.name # victim
          BY <4>1, <4>3 DEF Names
        <4>5. CASE MetBefore(d, i)
          <5>1. PICK j \in 1 .. Len(plan) : j < i /\ plan[j].pkg = d.name
            BY <4>5 DEF MetBefore
          <5>2. j # at
            BY <2>2, <4>4, <5>1
          <5> QED BY <2>1, <2>2, <5>1, <5>2 DEF Distinct
        <4>6. CASE d.name \notin Brought
          BY <2>3, <4>6
        <4> QED BY <2>1, <4>4, <4>5, <4>6 DEF Earlier
      <3> QED BY <3>1, <3>2
    <2>5. Closed'
      BY <1>1, <1>3, <1>4, <2>4 DEF Closed
    <2>6. ASSUME NEW i \in 1 .. Len(plan) - 1
          PROVE  (IF Placed(i) THEN db[plan[i].pkg] = plan[i].version
                   ELSE db[plan[i].pkg] = None \/ plan[i].pkg \in torn)'
      <3>1. CASE i = at
        BY <1>1, <1>3, <2>2, <3>1 DEF Placed
      <3>2. CASE i # at
        <4>1. plan[i].pkg # victim
          BY <2>1, <2>2, <3>2, StackFacts DEF Distinct
        <4>2. Placed(i)' = Placed(i)
          BY <1>1, <3>2 DEF Placed
        <4>3. IF Placed(i) THEN db[plan[i].pkg] = plan[i].version
                           ELSE db[plan[i].pkg] = None \/ plan[i].pkg \in torn
          BY <2>1 DEF Progress
        <4> QED BY <1>1, <1>3, <4>1, <4>2, <4>3
      <3> QED BY <3>1, <3>2
    <2>7. Progress'
      BY <1>1, <2>6 DEF Progress
    <2>8. Earlier'
      <3>1. ASSUME NEW d, NEW k PROVE MetBefore(d, k)' = MetBefore(d, k)
        BY <1>1 DEF MetBefore
      <3>2. ASSUME NEW d, MetOutside(d), d.name \notin Brought PROVE MetOutside(d)'
        BY <1>3, <2>3, <3>2 DEF MetOutside
      <3> QED BY <1>1, <2>1, <2>3, <3>1, <3>2 DEF Earlier
    <2>9. Apart'
      BY <1>1, <1>3, <1>4, <2>1, <2>3 DEF Apart
    <2> QED BY <1>5, <1>6, <1>7, <2>3, <2>5, <2>7, <2>8, <2>9 DEF Kept, Running
  <1> QED BY <1>8, <1>9

LEMMA UnmarkStep ==
    ASSUME TypeOK, Kept, Closed, Unmark
    PROVE  Kept' /\ Closed'
  <1>1. pc = "unmark" /\ db' = db /\ pin' = pin /\ torn' = torn
    BY DEF Unmark
  <1>2. Closed'
    BY <1>1, ClosedKept
  <1>3. CASE End("done")
    BY <1>2, <1>3, IdleStep DEF End
  <1>4. CASE Undoing /\ Removing("unpin")
    <2>1. /\ plan # <<>> /\ pc' = "unpin"
          /\ UNCHANGED <<cmd, plan, at, victim, queue, offered>>
      BY <1>4 DEF Undoing, Removing, planning, running, removing
    <2>2. Phase'
      BY <1>1, <2>1 DEF Kept, Phase, Forward, Undo
    <2>3. Running'
      BY <1>1, <2>1, RunningKept DEF Kept, Placed
    <2>4. Unneeded' /\ Resolving' /\ KeysAsked'
      BY <1>1, <2>1, UnneededKept DEF Kept, Resolving, KeysAsked, Forward
    <2> QED BY <1>2, <2>2, <2>3, <2>4 DEF Kept
  <1>5. CASE cmd.verb = "orphans" /\ Removing("next")
    <2>1. pc' = "next" /\ UNCHANGED <<cmd, plan, at, victim, queue, offered>>
      BY <1>5 DEF Removing, planning, running, removing
    <2>2. plan = <<>>
      BY <1>5 DEF Kept, Phase
    <2>3. Phase' /\ Running' /\ Resolving' /\ KeysAsked'
      BY <1>5, <2>1, <2>2 DEF Phase, Running, Resolving, KeysAsked, Forward, Undo
    <2>4. Unneeded'
      BY <1>1, <2>1, UnneededKept DEF Kept
    <2> QED BY <1>2, <2>3, <2>4 DEF Kept
  <1> QED BY <1>3, <1>4, <1>5 DEF Unmark

LEMMA CannotRemoveStep ==
    ASSUME TypeOK, Kept, Closed, CannotRemove
    PROVE  Kept' /\ Closed'
  <1>1. pc \in {"file", "unlink"} /\ db' = db /\ pin' = pin
    BY DEF CannotRemove, root
  <1>2. CASE Undoing /\ TakeBack(at - 1, "failed") /\ TornNow
    <2>1. at \in 1 .. Len(plan) /\ victim = plan[at].pkg
      BY <1>1, <1>2 DEF Kept, Phase, Undo, Undoing
    <2>2. torn \subseteq torn' /\ plan[at].pkg \in torn'
      BY <1>2, <2>1 DEF TornNow
    <2>3. Kept'
      BY <1>1, <1>2, <2>1, <2>2, TakeBackStep DEF Undo
    <2> QED BY <1>1, <2>2, <2>3, ClosedKept
  <1>3. CASE End("refused") /\ UNCHANGED <<restore, torn>>
    BY <1>1, <1>3, IdleStep, ClosedKept DEF End
  <1>4. CASE /\ cmd.verb = "orphans" /\ pc' = "next"
             /\ UNCHANGED <<offered, cmd, planning, running, restore, victim, queue, said,
                            start, torn>>
    <2>1. UNCHANGED <<cmd, plan, at, victim, queue, torn>> /\ plan = <<>> /\ pc' = "next"
      BY <1>4 DEF Kept, Phase, planning, running
    <2>2. Phase' /\ Running' /\ Resolving' /\ KeysAsked'
      BY <1>4, <2>1 DEF Phase, Running, Resolving, KeysAsked, Forward, Undo
    <2>3. Unneeded'
      BY <1>1, <2>1, UnneededKept DEF Kept
    <2> QED BY <1>1, <2>1, <2>2, <2>3, ClosedKept DEF Kept
  <1> QED BY <1>2, <1>3, <1>4 DEF CannotRemove

LEMMA UnpinStep ==
    ASSUME TypeOK, Kept, Closed, Unpin \/ CannotUnpin
    PROVE  Kept' /\ Closed'
  <1>1. pc = "unpin" /\ db' = db /\ torn' = torn
    BY DEF Unpin, CannotUnpin, root
  <1>2. at \in 1 .. Len(plan)
    BY <1>1 DEF Kept, Phase, Undo
  <1>3. \E told : TakeBack(at - 1, told)
    BY DEF Unpin, CannotUnpin
  <1>4. Kept'
    BY <1>1, <1>2, <1>3, TakeBackStep DEF Undo
  <1> QED BY <1>1, <1>4, ClosedKept

-----------------------------------------------------------------------------
(* REMOVE, REMOVE ORPHANS, and between commands. *)

LEMMA BeginStep ==
    ASSUME TypeOK, Kept, Closed, NEW c,
           \/ Begin("file", c) /\ victim' \in Package /\ ~NeededBy(victim')
           \/ Begin("pass", c) /\ c.verb = "orphans"
    PROVE  Kept' /\ Closed'
  <1>1. /\ pc' \in {"file", "pass"} /\ cmd' = c /\ plan' = <<>> /\ queue' = {}
        /\ db' = db /\ torn' = torn
    BY DEF Begin
  <1>2. Phase'
    BY <1>1 DEF Begin, Phase, Forward, Undo
  <1>3. pc' = "file" => ~NeededBy(victim')
    BY DEF Begin
  <1>4. Unneeded'
    BY <1>1, <1>3 DEF Unneeded, NeededBy, Installed
  <1>5. Running' /\ Resolving' /\ KeysAsked'
    BY <1>1 DEF Running, Resolving, KeysAsked, Forward
  <1> QED BY <1>1, <1>2, <1>4, <1>5, ClosedKept DEF Kept

LEMMA SweepStep ==
    ASSUME TypeOK, Kept, Closed, Sweep
    PROVE  Kept' /\ Closed'
  <1>1. db' = db /\ torn' = torn
    BY DEF Sweep, Pass, NextOrphan, root
  <1>2. Closed'
    BY <1>1, ClosedKept
  <1>3. plan = <<>> /\ cmd.verb = "orphans"
    BY DEF Sweep, Pass, NextOrphan, Kept, Phase
  <1>4. CASE End("done") \/ End("refused")
    BY <1>2, <1>4, IdleStep DEF End
  <1>5. ASSUME pc' \in {"pass", "next", "file"}, plan' = plan, cmd' = cmd,
               pc' = "file" => victim' \in Package /\ ~NeededBy(victim'),
               \A p \in queue' : ~NeededBy(p)
        PROVE  Kept' /\ Closed'
    <2>1. Phase'
      BY <1>3, <1>5 DEF Phase, Forward, Undo
    <2>2. Unneeded'
      BY <1>1, <1>5 DEF Unneeded, NeededBy, Installed
    <2>3. Running' /\ Resolving' /\ KeysAsked'
      BY <1>3, <1>5 DEF Running, Resolving, KeysAsked, Forward
    <2> QED BY <1>2, <2>1, <2>2, <2>3 DEF Kept
  <1>6. CASE Pass
    <2>1. CASE /\ queue' = Orphans \ failed /\ pc' = "next"
               /\ UNCHANGED <<offered, cmd, planning, running, victim, failed, couldnot,
                              said, start>>
      BY <1>5, <2>1 DEF Orphans, planning
    <2> QED BY <1>4, <1>6, <2>1 DEF Pass
  <1>7. CASE NextOrphan
    <2>1. plan' = plan /\ cmd' = cmd
      BY <1>7 DEF NextOrphan, planning
    <2>2. \A p \in queue : p \in Package /\ ~NeededBy(p)
      BY DEF Kept, Unneeded, TypeOK
    <2>3. /\ pc' \in {"pass", "file"} /\ queue' \subseteq queue
          /\ pc' = "file" => victim' \in queue
      BY <1>7 DEF NextOrphan
    <2> QED BY <1>5, <2>1, <2>2, <2>3
  <1> QED BY <1>6, <1>7 DEF Sweep

LEMMA CommandsStep ==
    ASSUME TypeOK, Kept, Closed, Commands
    PROVE  Kept' /\ Closed'
  <1>1. ASSUME NEW p \in Package, NEW v \in Version, NEW g \in Given,
               Install(p, v, g[1], g[2]) \/ Upgrade(p, v, g[1], g[2])
        PROVE  Kept' /\ Closed'
    <2>1. g[1] \in Key \cup {NoKey} /\ g[2] \in Key \cup {NoKey}
      BY GivenAssumption
    <2>2. db[p] \in Version \cup {None}
      BY RootParts DEF TypeOK
    <2> DEFINE c(verb, old) == [verb |-> verb, pkg |-> p, version |-> v, old |-> old,
                                key |-> g[1], accept |-> g[2]]
    <2>3. /\ c("install", None) \in Command /\ c("install", None).verb = "install"
          /\ c("upgrade", db[p]) \in Command /\ c("upgrade", db[p]).verb = "upgrade"
      BY <2>1, <2>2 DEF Command
    <2>4. Ask(c("install", None)) \/ Ask(c("upgrade", db[p]))
      BY <1>1 DEF Install, Upgrade
    <2> HIDE DEF c
    <2>5. ASSUME NEW a \in Command, a.verb \in {"install", "upgrade"}, Ask(a)
          PROVE  Kept' /\ Closed'
      BY <2>5, AskStep
    <2> QED BY <2>3, <2>4, <2>5
  <1>2. ASSUME NEW p \in Package, Remove(p)
        PROVE  Kept' /\ Closed'
    BY <1>2, BeginStep DEF Remove
  <1>3. CASE RemoveOrphans
    <2>1. [NoCommand EXCEPT !.verb = "orphans"].verb = "orphans"
      BY DEF NoCommand
    <2> QED BY <1>3, <2>1, BeginStep DEF RemoveOrphans
  <1> QED BY <1>1, <1>2, <1>3 DEF Commands

(* What changes nothing between commands, or ends one. *)
LEMMA IdleSteps ==
    ASSUME TypeOK, Kept, Closed,
           \/ RefusePlan \/ Cut
           \/ \E p \in Package, v \in Version : Publish(p, v)
           \/ \E p \in Package : Keep(p)
    PROVE  Kept' /\ Closed'
  <1>1. db' = db /\ torn' = torn
    BY DEF RefusePlan, Cut, Publish, Keep, root
  <1>2. pc' = "idle" /\ plan' = <<>> /\ queue' = {}
    BY DEF RefusePlan, Cut, Publish, Keep, End, Kept, Phase, planning, removing
  <1> QED BY <1>1, <1>2, IdleStep, ClosedKept

LEMMA StillKept ==
    ASSUME TypeOK, Kept, Closed, UNCHANGED vars
    PROVE  Kept' /\ Closed'
  <1>1. /\ UNCHANGED <<pc, cmd, stack, plan, at, victim, queue, db, pin, offered, torn>>
    BY DEF vars, root, planning, running, removing
  <1>2. Phase'
    BY <1>1 DEF Kept, Phase
  <1>3. Unneeded'
    BY <1>1, UnneededKept DEF Kept
  <1>4. Fresh' = Fresh /\ FramesReady' = FramesReady /\ EntriesReady' = EntriesReady
    BY <1>1 DEF Fresh, Distinct, FramesReady, EntriesReady, MetOutside, MetBefore
  <1>5. Resolving'
    BY <1>1, <1>4 DEF Kept, Resolving
  <1>6. Running'
    BY <1>1, RunningKept DEF Kept, Running, Placed
  <1>7. KeysAsked'
    <2>1. ASSUME NEW e PROVE Allowed(e)' = Allowed(e)
      BY <1>1 DEF Allowed, Lowest
    <2> QED BY <1>1, <2>1 DEF Kept, KeysAsked
  <1> QED BY <1>1, <1>2, <1>3, <1>5, <1>6, <1>7, ClosedKept DEF Kept

LEMMA ResolveKeepsClosed ==
    ASSUME Closed, Resolve
    PROVE  Closed'
  BY ClosedKept DEF Resolve, RefusePlan, Meet, Descend, Return, Leave, root

-----------------------------------------------------------------------------
(* The theorems. *)

LEMMA InvInit == Init => Inv
  <1> SUFFICES ASSUME Init PROVE Inv
    OBVIOUS
  <1>1. <<>> \in Seq(Frame) /\ <<>> \in Seq(Entry) /\ Len(<<>>) = 0
    BY EmptySeq
  <1>2. Snapshot \in Root
    BY InitAssumption, RootParts DEF Init
  <1>3. stack \in Seq(Frame) /\ plan \in Seq(Entry) /\ at \in 0 .. Len(plan)
    BY <1>1 DEF Init
  <1>4. TypeOK
    BY <1>2, <1>3, BlankType, InitAssumption DEF Init, TypeOK, Steps
  <1>5. Kept
    BY DEF Init, Kept, Phase, Unneeded, Resolving, Running, KeysAsked, Forward, Undo
  <1>6. Closed
    BY DEF Init, Closed, Installed
  <1> QED BY <1>4, <1>5, <1>6 DEF Inv

LEMMA InvStep == Inv /\ [Next]_vars => Inv'
  <1> SUFFICES ASSUME Inv, [Next]_vars PROVE Inv'
    OBVIOUS
  <1>1. TypeOK /\ Kept /\ Closed /\ Phase
    BY DEF Inv, Kept
  <1>2. TypeOK'
    BY <1>1, TypeStep
  <1>3. Kept' /\ Closed'
    <2>1. CASE Resolve
      BY <1>1, <2>1, IdleSteps, MeetStep, DescendStep, ReturnStep, ResolveKeepsClosed
         DEF Resolve
    <2>2. CASE Run
      BY <1>1, <2>2, PlaceStep, WritePinStep, WriteDbStep, MarkStep, FailStep DEF Run
    <2>3. CASE TakeOut
      BY <1>1, <2>3, DeleteFileStep, UnlinkDbStep, UnmarkStep, CannotRemoveStep, UnpinStep
         DEF TakeOut
    <2>4. CASE Sweep
      BY <1>1, <2>4, SweepStep
    <2>5. CASE Commands
      BY <1>1, <2>5, CommandsStep
    <2>6. CASE \/ Cut
               \/ \E p \in Package, v \in Version : Publish(p, v)
               \/ \E p \in Package : Keep(p)
      BY <1>1, <2>6, IdleSteps
    <2>7. CASE UNCHANGED vars
      BY <1>1, <2>7, StillKept
    <2> QED BY <2>1, <2>2, <2>3, <2>4, <2>5, <2>6, <2>7 DEF Next, Changes
  <1> QED BY <1>2, <1>3 DEF Inv

(* The invariant of run_plan, plan_one and remove_files, for every set of  *)
(* packages, versions and dependencies.                                    *)
THEOREM PlanInvariant == Spec => []Inv
  BY InvInit, InvStep, PTL DEF Spec

(* plan_one, run_plan and remove_files keep every variable's type.         *)
THEOREM PlanTypes == Spec => []TypeOK
  <1>1. Inv => TypeOK
    BY DEF Inv
  <1> QED BY <1>1, PlanInvariant, PTL

(* Through cuts, failures and what is taken back out, an installed package *)
(* has what it needs, but one pkg said it could not take back out.         *)
THEOREM RootStaysClosed == Spec => []Closed
  <1>1. Inv => Closed
    BY DEF Inv
  <1> QED BY <1>1, PlanInvariant, PTL

(* A command changes neither before its first step, and has no plan yet. *)
LEMMA CommandsKeep ==
    ASSUME Commands
    PROVE  UNCHANGED <<db, pin>> /\ plan' = <<>>
  <1>1. ASSUME NEW step, NEW c, Begin(step, c)
        PROVE  UNCHANGED <<db, pin>> /\ plan' = <<>>
    BY <1>1 DEF Begin
  <1>2. ASSUME NEW c, Ask(c)
        PROVE  UNCHANGED <<db, pin>> /\ plan' = <<>>
    BY <1>1, <1>2 DEF Ask
  <1>3. ASSUME NEW p, NEW v, NEW k, NEW a, Install(p, v, k, a) \/ Upgrade(p, v, k, a)
        PROVE  UNCHANGED <<db, pin>> /\ plan' = <<>>
    BY <1>2, <1>3 DEF Install, Upgrade
  <1>4. ASSUME NEW p, Remove(p)
        PROVE  UNCHANGED <<db, pin>> /\ plan' = <<>>
    BY <1>1, <1>4 DEF Remove
  <1>5. CASE RemoveOrphans
    BY <1>1, <1>5 DEF RemoveOrphans
  <1> QED BY <1>3, <1>4, <1>5 DEF Commands

(* Only the two steps that write or delete .pkg/db change what is          *)
(* installed.                                                              *)
LEMMA DbSteps ==
    ASSUME [Next]_vars
    PROVE  db' = db \/ WriteDb \/ UnlinkDb
  <1>1. CASE Resolve
    BY <1>1 DEF Resolve, RefusePlan, Meet, Descend, Return, Leave, root
  <1>2. CASE Run \/ TakeOut \/ Sweep
    BY <1>2 DEF Run, Place, WritePin, Mark, Fail, TakeOut, DeleteFile, Unmark,
                CannotRemove, Unpin, CannotUnpin, Sweep, Pass, NextOrphan, root
  <1>3. CASE Commands
    BY <1>3, CommandsKeep
  <1>4. CASE \/ Cut
             \/ \E p \in Package, v \in Version : Publish(p, v)
             \/ \E p \in Package : Keep(p)
             \/ UNCHANGED vars
    BY <1>4 DEF Cut, Publish, Keep, vars, root
  <1> QED BY <1>1, <1>2, <1>3, <1>4 DEF Next, Changes

(* plan_one plans a package only after what it needs, at the minimum, and  *)
(* run_plan records it when that is installed.                             *)
THEOREM NeedsAreMet == Spec => NeedsMet
  <1> DEFINE Met == \A p \in Package : db'[p] \notin {None, db[p]} =>
                        \A d \in Needs[p][db'[p]] : db[d.name] # None /\ db[d.name] >= d.min
  <1>1. ASSUME Inv, [Next]_vars
        PROVE  Met
    <2>1. TypeOK /\ Kept
      BY <1>1 DEF Inv
    <2>2. db \in [Package -> Version \cup {None}]
      BY <2>1, RootParts DEF TypeOK
    <2>3. CASE WriteDb
      <3>1. pc = "db" /\ db' = [db EXCEPT ![Now.pkg] = Now.version]
        BY <2>3 DEF WriteDb
      <3>2. \A d \in Needs[Now.pkg][Now.version] : db[d.name] # None /\ db[d.name] >= d.min
        BY <2>1, <3>1, NowMet DEF Forward
      <3> QED BY <2>2, <3>1, <3>2
    <2>4. CASE UnlinkDb
      BY <2>2, <2>4 DEF UnlinkDb
    <2> QED BY <1>1, <2>3, <2>4, DbSteps
  <1> HIDE DEF Met
  <1>2. Spec => [][Met]_vars
    BY <1>1, PlanInvariant, PTL DEF Spec
  <1> QED BY <1>2 DEF NeedsMet, Met

(* Only the two steps that write or delete .pkg/keys change what is        *)
(* trusted.                                                                *)
LEMMA PinSteps ==
    ASSUME [Next]_vars
    PROVE  pin' = pin \/ WritePin \/ Unpin
  <1>1. CASE Resolve
    BY <1>1 DEF Resolve, RefusePlan, Meet, Descend, Return, Leave, root
  <1>2. CASE Run \/ TakeOut \/ Sweep
    BY <1>2 DEF Run, Place, WriteDb, Mark, Fail, TakeOut, DeleteFile, UnlinkDb, Unmark,
                CannotRemove, CannotUnpin, Sweep, Pass, NextOrphan, root
  <1>3. CASE Commands
    BY <1>3, CommandsKeep
  <1>4. CASE \/ Cut
             \/ \E p \in Package, v \in Version : Publish(p, v)
             \/ \E p \in Package : Keep(p)
             \/ UNCHANGED vars
    BY <1>4 DEF Cut, Publish, Keep, vars, root
  <1> QED BY <1>1, <1>2, <1>3, <1>4 DEF Next, Changes

-----------------------------------------------------------------------------
(* What is told of an undo.  What the root was when the plan began, the    *)
(* entries placed excepted, it still is, ...                               *)
Untouched(p) == disk[p] = start.disk[p] /\ pin[p] = start.pin[p]

(* ... or, once the undo has passed it, is again as far as that is told.   *)
TakenOut(p) ==
    \/ disk[p] = start.disk[p] /\ start.disk[p] # None
    \/ disk[p] = None /\ (pin[p] = start.pin[p] \/ start.pin[p] # NoKey)

(* The packages run_plan has not come to, or its undo has passed.          *)
Beyond(p) ==
    \A i \in 1 .. Len(plan) : plan[i].pkg = p => i > at \/ (i = at /\ pc = "place")

(* The files of the entries run_plan has come to: those placed have the    *)
(* plan's bytes, and the one that is being placed too, which were there    *)
(* already when apply touched nothing.                                     *)
FilesTracked ==
    /\ \A i \in 1 .. Len(plan) : i < at => disk[plan[i].pkg] = plan[i].version
    /\ pc \in {"pin", "db", "mark", "file"} => disk[plan[at].pkg] = plan[at].version
    /\ pc \in {"pin", "db"} /\ ~touched => disk[plan[at].pkg] = start.disk[plan[at].pkg]
    /\ pc = "place" => ~touched
    /\ pc \in {"unlink", "unmark", "unpin"} => disk[plan[at].pkg] = None

(* The records: an entry placed was not installed before, and had_pin says *)
(* whether it had a key.                                                   *)
RecordsTracked ==
    /\ \A i \in 1 .. Len(plan) - 1 : start.db[plan[i].pkg] = None
    /\ \A p \in Package :
          (\A i \in 1 .. Len(plan) : Placed(i) => plan[i].pkg # p) => db[p] = start.db[p]
    /\ \A p \in had : start.pin[p] # NoKey
    /\ \A i \in 1 .. Len(plan) :
          i < at \/ (i = at /\ pc # "place") =>
             plan[i].pkg \in had \/ start.pin[plan[i].pkg] = NoKey

Track ==
    /\ FilesTracked /\ RecordsTracked
    /\ \A p \in Package : Beyond(p) =>
          IF pc \in Forward THEN Untouched(p) ELSE TakenOut(p)

Tracked ==
    /\ pc # "idle" => restore # "done"
    /\ pc \in {"resolve"} \cup Forward => restore = "none"
    /\ pc = "resolve" => start = Snapshot /\ had = {} /\ ~touched
    /\ pc # "resolve" /\ plan # <<>> /\ restore = "none" => Track

LEMMA IdleTracked ==
    ASSUME pc' = "idle", plan' = <<>>
    PROVE  Tracked'
  BY DEF Tracked, Forward

(* REMOVE and REMOVE ORPHANS have no plan. *)
LEMMA NoPlanTracked ==
    ASSUME plan' = <<>>, restore' # "done", pc' \notin {"resolve"} \cup Forward
    PROVE  Tracked'
  BY DEF Tracked

(* Of a plan that is run, forward or back. *)
LEMMA RunFacts ==
    ASSUME TypeOK, Kept, pc \in Forward \cup Undo, plan # <<>>
    PROVE  /\ at \in 1 .. Len(plan) /\ Len(plan) \in Nat /\ pc # "resolve"
           /\ \A i \in 1 .. Len(plan) :
                 plan[i].pkg \in Package /\ plan[i].version \in Version /\ plan[i].version # None
           /\ Distinct /\ Progress
           /\ disk \in [Package -> Version \cup {None, Foreign}]
           /\ db \in [Package -> Version \cup {None}]
           /\ pin \in [Package -> Key \cup {NoKey}]
           /\ pc \in Undo => at < Len(plan) /\ victim = plan[at].pkg
  <1>1. /\ at \in 1 .. Len(plan) /\ pc # "resolve"
        /\ pc \in Undo => at < Len(plan) /\ victim = plan[at].pkg
    BY DEF Kept, Phase, Forward, Undo
  <1>2. Len(plan) \in Nat /\ \A i \in 1 .. Len(plan) :
                 plan[i].pkg \in Package /\ plan[i].version \in Version /\ plan[i].version # None
    BY StackFacts, NoneAssumption DEF Entry
  <1>3. Distinct /\ Progress
    BY <1>1 DEF Kept, Running
  <1>4. /\ disk \in [Package -> Version \cup {None, Foreign}]
        /\ db \in [Package -> Version \cup {None}]
        /\ pin \in [Package -> Key \cup {NoKey}]
    BY RootParts DEF TypeOK
  <1> QED BY <1>1, <1>2, <1>3, <1>4

LEMMA PlaceTracked ==
    ASSUME TypeOK, Kept, Tracked, Place
    PROVE  Tracked'
  <1>1. /\ pc = "place" /\ pc' = "pin"
        /\ disk' = [disk EXCEPT ![plan[at].pkg] = plan[at].version]
        /\ touched' = (disk' # disk)
        /\ had' = IF pin[plan[at].pkg] # NoKey THEN had \cup {plan[at].pkg} ELSE had
        /\ UNCHANGED <<db, pin, plan, at, start, restore>>
    BY DEF Place, Continue, planning, Now
  <1>2. plan # <<>> /\ pc \in Forward
    BY <1>1, StackFacts DEF Kept, Phase, Forward
  <1>3. SUFFICES Track'
    BY <1>1, <1>2 DEF Tracked, Forward
  <1>4. Track
    BY <1>2 DEF Tracked, Forward
  <1>5. /\ at \in 1 .. Len(plan) /\ Len(plan) \in Nat
        /\ \A i \in 1 .. Len(plan) : plan[i].pkg \in Package
        /\ Distinct /\ disk \in [Package -> Version \cup {None, Foreign}]
    BY <1>2, RunFacts
  <1>6. /\ disk'[plan[at].pkg] = plan[at].version
        /\ \A p \in Package : p # plan[at].pkg => disk'[p] = disk[p]
        /\ \A i \in 1 .. Len(plan) : i # at => plan[i].pkg # plan[at].pkg
    BY <1>1, <1>5 DEF Distinct
  <1>7. Beyond(plan[at].pkg) /\ Untouched(plan[at].pkg)
    <2>1. Beyond(plan[at].pkg)
      BY <1>1, <1>5 DEF Beyond, Distinct
    <2> QED BY <1>2, <1>4, <1>5, <2>1 DEF Track
  <1>8. FilesTracked'
    BY <1>1, <1>4, <1>5, <1>6, <1>7 DEF Track, FilesTracked, Untouched
  <1>9. RecordsTracked'
    <2>1. \A i \in 1 .. Len(plan) : Placed(i)' = Placed(i)
      BY <1>1, <1>5 DEF Placed
    <2>2. \A p \in had' : start.pin[p] # NoKey
      BY <1>1, <1>4, <1>7 DEF Track, RecordsTracked, Untouched
    <2>3. \A i \in 1 .. Len(plan) : i < at \/ i = at =>
              plan[i].pkg \in had' \/ start.pin[plan[i].pkg] = NoKey
      BY <1>1, <1>4, <1>5, <1>7 DEF Track, RecordsTracked, Untouched
    <2>4. \A p \in Package :
              (\A i \in 1 .. Len(plan) : Placed(i)' => plan[i].pkg # p) => db[p] = start.db[p]
      BY <1>4, <2>1 DEF Track, RecordsTracked
    <2> QED BY <1>1, <1>4, <2>2, <2>3, <2>4 DEF Track, RecordsTracked
  <1>10. ASSUME NEW p \in Package, Beyond(p)'
         PROVE  Untouched(p)'
    <2>1. p # plan[at].pkg
      BY <1>1, <1>5, <1>10 DEF Beyond
    <2>2. Beyond(p)
      BY <1>1, <1>5, <1>10 DEF Beyond
    <2>3. Untouched(p)
      BY <1>2, <1>4, <2>2 DEF Track
    <2> QED BY <1>1, <1>6, <2>1, <2>3 DEF Untouched
  <1> QED BY <1>1, <1>8, <1>9, <1>10 DEF Track, Forward

LEMMA WritePinTracked ==
    ASSUME TypeOK, Kept, Tracked, WritePin
    PROVE  Tracked'
  <1>1. /\ pc = "pin" /\ pc' = "db"
        /\ pin' = [pin EXCEPT ![plan[at].pkg] = Signer[plan[at].pkg][plan[at].version]]
        /\ UNCHANGED <<disk, db, plan, at, had, touched, start, restore>>
    BY DEF WritePin, Continue, planning, Now
  <1>2. plan # <<>> /\ pc \in Forward
    BY <1>1, StackFacts DEF Kept, Phase, Forward
  <1>3. SUFFICES Track'
    BY <1>1, <1>2 DEF Tracked, Forward
  <1>4. Track
    BY <1>2 DEF Tracked, Forward
  <1>5. at \in 1 .. Len(plan) /\ Len(plan) \in Nat /\ pin \in [Package -> Key \cup {NoKey}]
    BY <1>2, RunFacts
  <1>6. FilesTracked'
    BY <1>1, <1>4 DEF Track, FilesTracked
  <1>7. RecordsTracked'
    <2>1. \A i \in 1 .. Len(plan) : Placed(i)' = Placed(i)
      BY <1>1, <1>5 DEF Placed
    <2> QED BY <1>1, <1>4, <2>1 DEF Track, RecordsTracked
  <1>8. ASSUME NEW p \in Package, Beyond(p)'
        PROVE  Untouched(p)'
    <2>1. p # plan[at].pkg
      BY <1>1, <1>5, <1>8 DEF Beyond
    <2>2. Beyond(p)
      BY <1>1, <1>5, <1>8 DEF Beyond
    <2>3. Untouched(p)
      BY <1>2, <1>4, <2>2 DEF Track
    <2> QED BY <1>1, <1>5, <2>1, <2>3 DEF Untouched
  <1> QED BY <1>1, <1>6, <1>7, <1>8 DEF Track, Forward


LEMMA WriteDbTracked ==
    ASSUME TypeOK, Kept, Tracked, WriteDb
    PROVE  Tracked'
  <1>1. CASE Last
    BY <1>1, IdleTracked DEF WriteDb, End
  <1>2. CASE ~Last
    <2>1. /\ pc = "db" /\ pc' = "mark"
          /\ db' = [db EXCEPT ![plan[at].pkg] = plan[at].version]
          /\ UNCHANGED <<disk, pin, plan, at, had, touched, start, restore>>
      BY <1>2 DEF WriteDb, Continue, planning, Now
    <2>2. plan # <<>> /\ pc \in Forward
      BY <2>1, StackFacts DEF Kept, Phase, Forward
    <2>3. SUFFICES Track'
      BY <2>1, <2>2 DEF Tracked, Forward
    <2>4. Track
      BY <2>2 DEF Tracked, Forward
    <2>5. /\ at \in 1 .. Len(plan) /\ Len(plan) \in Nat
          /\ db \in [Package -> Version \cup {None}]
      BY <2>2, RunFacts
    <2>6. FilesTracked'
      BY <2>1, <2>4 DEF Track, FilesTracked
    <2>7. RecordsTracked'
      <3>1. \A i \in 1 .. Len(plan) : Placed(i)' <=> Placed(i) \/ i = at
        BY <2>1, <2>5 DEF Placed
      <3>2. ASSUME NEW p \in Package, \A i \in 1 .. Len(plan) : Placed(i)' => plan[i].pkg # p
            PROVE  db'[p] = start.db[p]
        <4>1. p # plan[at].pkg
          BY <2>5, <3>1, <3>2
        <4>2. db[p] = start.db[p]
          BY <2>4, <3>1, <3>2 DEF Track, RecordsTracked
        <4> QED BY <2>1, <2>5, <4>1, <4>2
      <3> QED BY <2>1, <2>4, <3>2 DEF Track, RecordsTracked
    <2>8. ASSUME NEW p \in Package, Beyond(p)'
          PROVE  Untouched(p)'
      <3>1. Beyond(p)
        BY <2>1, <2>8 DEF Beyond
      <3> QED BY <2>1, <2>2, <2>4, <3>1 DEF Track, Untouched
    <2> QED BY <2>1, <2>6, <2>7, <2>8 DEF Track, Forward
  <1> QED BY <1>1, <1>2

LEMMA MarkTracked ==
    ASSUME TypeOK, Kept, Tracked, Mark
    PROVE  Tracked'
  <1>1. /\ pc = "mark" /\ pc' = "place" /\ at' = at + 1 /\ touched' = FALSE
        /\ UNCHANGED <<disk, db, pin, plan, had, start, restore>>
    BY DEF Mark, planning
  <1>2. plan # <<>> /\ pc \in Forward
    BY <1>1, StackFacts DEF Kept, Phase, Forward
  <1>3. SUFFICES Track'
    BY <1>1, <1>2 DEF Tracked, Forward
  <1>4. Track
    BY <1>2 DEF Tracked, Forward
  <1>5. at \in 1 .. Len(plan) /\ Len(plan) \in Nat
    BY <1>2, RunFacts
  <1>6. FilesTracked'
    BY <1>1, <1>4, <1>5 DEF Track, FilesTracked
  <1>7. RecordsTracked'
    <2>1. \A i \in 1 .. Len(plan) : Placed(i)' = Placed(i)
      BY <1>1, <1>5 DEF Placed
    <2> QED BY <1>1, <1>4, <1>5, <2>1 DEF Track, RecordsTracked
  <1>8. ASSUME NEW p \in Package, Beyond(p)'
        PROVE  Untouched(p)'
    <2>1. Beyond(p)
      BY <1>1, <1>5, <1>8 DEF Beyond
    <2> QED BY <1>1, <1>2, <1>4, <2>1 DEF Track, Untouched
  <1> QED BY <1>1, <1>6, <1>7, <1>8 DEF Track, Forward

(* The undo comes to the entry before. *)
LEMMA PassedTracked ==
    ASSUME TypeOK, Kept, Track, plan # <<>>, pc \in {"place", "pin", "db", "unpin"},
           at - 1 # 0, pc' = "file", at' = at - 1,
           UNCHANGED <<plan, had, start, disk, db>>,
           NEW q, q = plan[at].pkg, TakenOut(q)',
           \A p \in Package : p # q => pin'[p] = pin[p]
    PROVE  Track'
  <1>1. /\ at \in 1 .. Len(plan) /\ Len(plan) \in Nat
        /\ \A i \in 1 .. Len(plan) : plan[i].pkg \in Package
    BY RunFacts DEF Forward, Undo
  <1>2. FilesTracked'
    BY <1>1 DEF Track, FilesTracked
  <1>3. RecordsTracked'
    <2>1. \A i \in 1 .. Len(plan) : Placed(i)' = Placed(i)
      BY <1>1 DEF Placed
    <2> QED BY <1>1, <2>1 DEF Track, RecordsTracked
  <1>4. ASSUME NEW p \in Package, Beyond(p)'
        PROVE  TakenOut(p)'
    <2>1. CASE p = q
      BY <2>1
    <2>2. CASE p # q
      <3>1. Beyond(p)
        BY <1>1, <1>4, <2>2 DEF Beyond
      <3>2. Untouched(p) \/ TakenOut(p)
        BY <3>1 DEF Track
      <3> QED BY <2>2, <3>2 DEF Untouched, TakenOut
    <2> QED BY <2>1, <2>2
  <1> QED BY <1>2, <1>3, <1>4 DEF Track, Forward

(* It begins with what is before the entry that failed, when apply had     *)
(* touched nothing of that one.                                            *)
LEMMA FailTracked ==
    ASSUME TypeOK, Kept, Tracked, Fail
    PROVE  Tracked'
  <1>1. /\ pc \in {"place", "pin", "db"} /\ UNCHANGED <<disk, db, pin>>
        /\ TakeBack(at - 1, IF touched THEN "incomplete" ELSE "none")
    BY DEF Fail, root
  <1>2. plan # <<>> /\ pc \in Forward
    BY <1>1, StackFacts DEF Kept, Phase, Forward
  <1>3. /\ at \in 1 .. Len(plan) /\ Len(plan) \in Nat /\ Distinct
        /\ \A i \in 1 .. Len(plan) : plan[i].pkg \in Package /\ plan[i].version # None
    BY <1>2, RunFacts
  <1>4. CASE at - 1 = 0
    BY <1>1, <1>4, IdleTracked DEF TakeBack, End
  <1>5. CASE at - 1 # 0
    <2>1. /\ pc' = "file" /\ at' = at - 1 /\ UNCHANGED <<plan, had, start>>
          /\ restore' = IF touched THEN "incomplete" ELSE "none"
      BY <1>1, <1>5 DEF TakeBack, planning
    <2>2. SUFFICES ASSUME ~touched
                   PROVE  Track'
      BY <2>1 DEF Tracked, Forward
    <2>3. Track
      BY <1>2 DEF Tracked, Forward
    <2>4. TakenOut(plan[at].pkg)
      <3>1. CASE pc = "place"
        <4>1. Beyond(plan[at].pkg)
          BY <1>3, <3>1 DEF Beyond, Distinct
        <4> QED BY <1>2, <1>3, <2>3, <4>1 DEF Track, Untouched, TakenOut
      <3>2. CASE pc \in {"pin", "db"}
        BY <1>3, <2>2, <2>3, <3>2 DEF Track, FilesTracked, TakenOut
      <3> QED BY <1>1, <3>1, <3>2
    <2>5. PICK q : q = plan[at].pkg
      OBVIOUS
    <2>6. TakenOut(q)' /\ \A p \in Package : p # q => pin'[p] = pin[p]
      BY <1>1, <2>1, <2>4, <2>5 DEF TakenOut
    <2>7. UNCHANGED <<plan, had, start, disk, db>>
      BY <1>1, <2>1
    <2> QED BY <1>1, <1>2, <1>5, <2>1, <2>3, <2>5, <2>6, <2>7, PassedTracked
  <1> QED BY <1>4, <1>5

(* What is taken out has the plan's bytes, and its entry names them. *)
LEMMA DeleteFileTracked ==
    ASSUME TypeOK, Kept, Tracked, DeleteFile
    PROVE  Tracked'
  <1>1. /\ pc = "file" /\ pc' = "unlink"
        /\ disk' = [disk EXCEPT ![victim] = IF @ = db[victim] THEN None ELSE @]
        /\ UNCHANGED <<db, pin, plan, at, had, start, restore>>
    BY DEF DeleteFile, Removing, planning, running
  <1>2. CASE plan = <<>>
    BY <1>1, <1>2, NoPlanTracked DEF Tracked, Forward
  <1>3. CASE plan # <<>> /\ restore = "none"
    <2>1. Track
      BY <1>1, <1>3 DEF Tracked
    <2>2. /\ at \in 1 .. Len(plan) /\ Len(plan) \in Nat /\ Distinct /\ Progress
          /\ at < Len(plan) /\ victim = plan[at].pkg
          /\ \A i \in 1 .. Len(plan) : plan[i].pkg \in Package
          /\ disk \in [Package -> Version \cup {None, Foreign}]
      BY <1>1, <1>3, RunFacts DEF Undo
    <2>3. disk[victim] = plan[at].version /\ db[victim] = plan[at].version
      BY <1>1, <2>1, <2>2 DEF Track, FilesTracked, Progress, Placed
    <2>4. /\ disk'[plan[at].pkg] = None
          /\ \A p \in Package : p # plan[at].pkg => disk'[p] = disk[p]
          /\ \A i \in 1 .. Len(plan) : i # at => plan[i].pkg # plan[at].pkg
      BY <1>1, <2>2, <2>3 DEF Distinct
    <2>5. FilesTracked'
      BY <1>1, <2>1, <2>2, <2>4 DEF Track, FilesTracked
    <2>6. RecordsTracked'
      <3>1. \A i \in 1 .. Len(plan) : Placed(i)' = Placed(i)
        BY <1>1, <2>2 DEF Placed
      <3> QED BY <1>1, <2>1, <3>1 DEF Track, RecordsTracked
    <2>7. ASSUME NEW p \in Package, Beyond(p)'
          PROVE  TakenOut(p)'
      <3>1. p # plan[at].pkg /\ Beyond(p)
        BY <1>1, <2>2, <2>7 DEF Beyond
      <3>2. TakenOut(p)
        BY <1>1, <2>1, <3>1 DEF Track, Forward
      <3> QED BY <1>1, <2>4, <3>1, <3>2 DEF TakenOut
    <2>8. Track'
      BY <1>1, <2>5, <2>6, <2>7 DEF Track, Forward
    <2> QED BY <1>1, <1>3, <2>8 DEF Tracked, Forward
  <1>4. CASE restore # "none"
    BY <1>1, <1>4 DEF Tracked, Forward
  <1> QED BY <1>2, <1>3, <1>4

LEMMA UnlinkDbTracked ==
    ASSUME TypeOK, Kept, Tracked, UnlinkDb
    PROVE  Tracked'
  <1>1. /\ pc = "unlink" /\ pc' = "unmark"
        /\ db' = [db EXCEPT ![victim] = None]
        /\ UNCHANGED <<disk, pin, plan, at, had, start, restore>>
    BY DEF UnlinkDb, Removing, planning, running
  <1>2. CASE plan = <<>>
    BY <1>1, <1>2, NoPlanTracked DEF Tracked, Forward
  <1>3. CASE plan # <<>> /\ restore = "none"
    <2>1. Track
      BY <1>1, <1>3 DEF Tracked
    <2>2. /\ at \in 1 .. Len(plan) /\ Len(plan) \in Nat
          /\ at < Len(plan) /\ victim = plan[at].pkg
          /\ db \in [Package -> Version \cup {None}]
      BY <1>1, <1>3, RunFacts DEF Undo
    <2>3. FilesTracked'
      BY <1>1, <2>1 DEF Track, FilesTracked
    <2>4. RecordsTracked'
      <3>1. \A i \in 1 .. Len(plan) : Placed(i) => Placed(i)' \/ i = at
        BY <1>1, <2>2 DEF Placed
      <3>2. ASSUME NEW p \in Package, \A i \in 1 .. Len(plan) : Placed(i)' => plan[i].pkg # p
            PROVE  db'[p] = start.db[p]
        <4>1. CASE p = plan[at].pkg
          BY <1>1, <2>1, <2>2, <4>1 DEF Track, RecordsTracked
        <4>2. CASE p # plan[at].pkg
          <5>1. db[p] = start.db[p]
            BY <2>1, <3>1, <3>2, <4>2 DEF Track, RecordsTracked
          <5> QED BY <1>1, <2>2, <4>2, <5>1
        <4> QED BY <4>1, <4>2
      <3> QED BY <1>1, <2>1, <3>2 DEF Track, RecordsTracked
    <2>5. ASSUME NEW p \in Package, Beyond(p)'
          PROVE  TakenOut(p)'
      <3>1. Beyond(p)
        BY <1>1, <2>5 DEF Beyond
      <3> QED BY <1>1, <2>1, <3>1 DEF Track, TakenOut, Forward
    <2>6. Track'
      BY <1>1, <2>3, <2>4, <2>5 DEF Track, Forward
    <2> QED BY <1>1, <1>3, <2>6 DEF Tracked, Forward
  <1>4. CASE restore # "none"
    BY <1>1, <1>4 DEF Tracked, Forward
  <1> QED BY <1>2, <1>3, <1>4

LEMMA UnmarkTracked ==
    ASSUME TypeOK, Kept, Tracked, Unmark
    PROVE  Tracked'
  <1>1. pc = "unmark" /\ UNCHANGED <<disk, db, pin>> /\ restore # "done"
    BY DEF Unmark, Tracked
  <1>2. CASE Undoing /\ Removing("unpin")
    <2>1. pc' = "unpin" /\ UNCHANGED <<plan, at, had, start, restore>>
      BY <1>2 DEF Removing, planning, running
    <2>2. plan # <<>>
      BY <1>2 DEF Undoing
    <2>3. CASE restore = "none"
      <3>1. Track
        BY <1>1, <2>2, <2>3 DEF Tracked
      <3>2. FilesTracked'
        BY <1>1, <2>1, <3>1 DEF Track, FilesTracked
      <3>3. RecordsTracked'
        <4>1. \A i \in 1 .. Len(plan) : Placed(i)' = Placed(i)
          BY <1>1, <2>1 DEF Placed
        <4> QED BY <1>1, <2>1, <3>1, <4>1 DEF Track, RecordsTracked
      <3>4. ASSUME NEW p \in Package, Beyond(p)'
            PROVE  TakenOut(p)'
        <4>1. Beyond(p)
          BY <1>1, <2>1, <3>4 DEF Beyond
        <4> QED BY <1>1, <2>1, <3>1, <4>1 DEF Track, TakenOut, Forward
      <3>5. Track'
        BY <2>1, <3>2, <3>3, <3>4 DEF Track, Forward
      <3> QED BY <2>1, <2>3, <3>5 DEF Tracked, Forward
    <2>4. CASE restore # "none"
      BY <1>1, <2>1, <2>4 DEF Tracked, Forward
    <2> QED BY <2>3, <2>4
  <1>3. CASE cmd.verb = "orphans" /\ Removing("next")
    <2>1. plan = <<>>
      BY <1>3 DEF Kept, Phase
    <2> QED BY <1>1, <1>3, <2>1, NoPlanTracked DEF Removing, planning, Forward
  <1>4. CASE End("done")
    BY <1>4, IdleTracked DEF End
  <1> QED BY <1>2, <1>3, <1>4 DEF Unmark

LEMMA FailedTracked ==
    ASSUME TakeBack(at - 1, "failed")
    PROVE  Tracked'
  <1>1. CASE at - 1 = 0
    BY <1>1, IdleTracked DEF TakeBack, End
  <1>2. CASE at - 1 # 0
    BY <1>2 DEF TakeBack, Tracked, Forward
  <1> QED BY <1>1, <1>2

LEMMA CannotRemoveTracked ==
    ASSUME TypeOK, Kept, Tracked, CannotRemove
    PROVE  Tracked'
  <1>1. CASE TakeBack(at - 1, "failed")
    BY <1>1, FailedTracked
  <1>2. CASE /\ cmd.verb = "orphans" /\ pc' = "next"
             /\ UNCHANGED <<offered, cmd, planning, running, restore, victim, queue, said,
                            start, torn>>
    <2>1. plan = <<>> /\ plan' = plan /\ restore' = restore /\ pc # "idle"
      BY <1>2 DEF CannotRemove, Kept, Phase, planning
    <2> QED BY <1>2, <2>1, NoPlanTracked DEF Tracked, Forward
  <1>3. CASE End("refused")
    BY <1>3, IdleTracked DEF End
  <1> QED BY <1>1, <1>2, <1>3 DEF CannotRemove

(* The pin goes when the operation wrote the first one. *)
LEMMA UnpinFacts ==
    ASSUME TypeOK, Kept, Track, Unpin
    PROVE  /\ pc = "unpin" /\ plan # <<>> /\ UNCHANGED <<disk, db>>
           /\ disk[plan[at].pkg] = None
           /\ pin'[plan[at].pkg] = start.pin[plan[at].pkg] \/ start.pin[plan[at].pkg] # NoKey
           /\ \A p \in Package : p # plan[at].pkg => pin'[p] = pin[p]
  <1>1. /\ pc = "unpin" /\ UNCHANGED <<disk, db>>
        /\ pin' = IF victim \in had THEN pin ELSE [pin EXCEPT ![victim] = NoKey]
    BY DEF Unpin
  <1>2. plan # <<>>
    BY <1>1 DEF Kept, Phase
  <1>3. /\ at \in 1 .. Len(plan) /\ victim = plan[at].pkg /\ victim \in Package
        /\ pin \in [Package -> Key \cup {NoKey}]
    BY <1>1, <1>2, RunFacts DEF Undo
  <1>4. disk[plan[at].pkg] = None
    BY <1>1 DEF Track, FilesTracked
  <1>5. CASE victim \in had
    <2>1. start.pin[victim] # NoKey
      BY <1>5 DEF Track, RecordsTracked
    <2> QED BY <1>1, <1>2, <1>3, <1>4, <1>5, <2>1
  <1>6. CASE victim \notin had
    <2>1. start.pin[victim] = NoKey
      BY <1>1, <1>3, <1>6 DEF Track, RecordsTracked
    <2> QED BY <1>1, <1>2, <1>3, <1>4, <1>6, <2>1
  <1> QED BY <1>5, <1>6

LEMMA UnpinTracked ==
    ASSUME TypeOK, Kept, Tracked, Unpin
    PROVE  Tracked'
  <1> DEFINE told == IF restore = "none" /\ at = 1 THEN "done" ELSE restore
  <1>1. TakeBack(at - 1, told) /\ pc = "unpin" /\ UNCHANGED <<disk, db>>
    BY DEF Unpin
  <1>2. plan # <<>> /\ at \in 1 .. Len(plan) /\ Len(plan) \in Nat
    BY <1>1, RunFacts DEF Kept, Phase, Undo
  <1>3. CASE at - 1 = 0
    BY <1>1, <1>3, IdleTracked DEF TakeBack, End
  <1>4. CASE at - 1 # 0
    <2>1. at # 1
      BY <1>2, <1>4
    <2>2. /\ pc' = "file" /\ at' = at - 1 /\ UNCHANGED <<plan, had, start, restore>>
      BY <1>1, <1>4, <2>1 DEF TakeBack, planning
    <2>3. CASE restore # "none"
      BY <1>1, <2>2, <2>3 DEF Tracked, Forward
    <2>4. CASE restore = "none"
      <3>1. Track
        BY <1>1, <1>2, <2>4 DEF Tracked
      <3>2. PICK q : q = plan[at].pkg
        OBVIOUS
      <3>3. TakenOut(q)' /\ \A p \in Package : p # q => pin'[p] = pin[p]
        <4>1. /\ disk[plan[at].pkg] = None
              /\ \/ pin'[plan[at].pkg] = start.pin[plan[at].pkg]
                 \/ start.pin[plan[at].pkg] # NoKey
              /\ \A p \in Package : p # plan[at].pkg => pin'[p] = pin[p]
          BY <3>1, UnpinFacts
        <4> QED BY <1>1, <2>2, <3>2, <4>1 DEF TakenOut
      <3>4. UNCHANGED <<plan, had, start, disk, db>>
        BY <1>1, <2>2
      <3>5. Track'
        BY <1>1, <1>2, <1>4, <2>2, <3>1, <3>2, <3>3, <3>4, PassedTracked
      <3> QED BY <2>2, <2>4, <3>5 DEF Tracked, Forward
    <2> QED BY <2>3, <2>4
  <1> QED BY <1>3, <1>4

(* The plan is settled, and nothing has been placed. *)
LEMMA ResolveTracked ==
    ASSUME TypeOK, Kept, Tracked, Resolve
    PROVE  Tracked'
  <1>1. CASE RefusePlan
    BY <1>1, IdleTracked DEF RefusePlan, End
  <1>2. ASSUME pc = "resolve", pc' = "resolve",
               UNCHANGED <<disk, db, pin, auto, had, touched, restore, start>>
        PROVE  Tracked'
    BY <1>2 DEF Tracked, Snapshot, Forward
  <1>3. CASE Meet \/ Descend
    BY <1>2, <1>3 DEF Meet, Descend, Leave, root, running
  <1>4. CASE Return
    <2>1. /\ pc = "resolve" /\ stack # <<>>
          /\ UNCHANGED <<disk, db, pin, auto, had, touched, restore, start>>
      BY <1>4 DEF Return, Leave, root
    <2>2. CASE Len(stack) # 1
      BY <1>2, <1>4, <2>1, <2>2 DEF Return
    <2>3. CASE Len(stack) = 1
      <3>1. /\ pc' = "place" /\ at' = 1
            /\ start = Snapshot /\ had = {} /\ ~touched /\ restore = "none"
        BY <1>4, <2>1, <2>3 DEF Return, Tracked
      <3>2. PICK e \in Entry : plan' = Append(plan, e)
        <4>1. Top \in Frame
          BY <2>1, StackFacts DEF Top
        <4> QED BY <1>4, <4>1 DEF Return, Frame, Entry
      <3>3. /\ Len(plan) \in Nat /\ Len(plan') = Len(plan) + 1
            /\ \A i \in 1 .. Len(plan) : plan'[i] = plan[i] /\ plan[i].pkg \in Package
        BY <3>2, PlanFacts, StackFacts DEF Entry
      <3>4. start.disk = disk /\ start.db = db /\ start.pin = pin
        BY <3>1 DEF Snapshot
      <3>5. FilesTracked'
        BY <2>1, <3>1, <3>3 DEF FilesTracked
      <3>6. RecordsTracked'
        <4>1. \A i \in 1 .. Len(plan) : db[plan[i].pkg] = None
          BY <2>1 DEF Kept, Resolving, Fresh
        <4>2. \A i \in 1 .. Len(plan') - 1 : start.db[plan'[i].pkg] = None
          BY <3>3, <3>4, <4>1
        <4> QED BY <2>1, <3>1, <3>3, <3>4, <4>2 DEF RecordsTracked
      <3>7. \A p \in Package : Untouched(p)'
        BY <2>1, <3>4 DEF Untouched
      <3>8. Track'
        BY <3>1, <3>5, <3>6, <3>7 DEF Track, Forward
      <3> QED BY <2>1, <3>1, <3>8 DEF Tracked
    <2> QED BY <2>2, <2>3
  <1> QED BY <1>1, <1>3, <1>4 DEF Resolve

(* A plan is compared with the root it began with. *)
LEMMA CommandsTracked ==
    ASSUME Commands
    PROVE  Tracked'
  <1>1. ASSUME NEW c, Ask(c)
        PROVE  Tracked'
    <2>1. /\ pc' = "resolve" /\ start' = Snapshot /\ had' = {} /\ ~touched'
          /\ restore' = "none" /\ UNCHANGED <<disk, db, pin, auto>>
      BY <1>1 DEF Ask, Begin
    <2> QED BY <2>1 DEF Tracked, Snapshot
  <1>2. ASSUME NEW step \in {"file", "pass"}, NEW c, Begin(step, c)
        PROVE  Tracked'
    BY <1>2, NoPlanTracked DEF Begin, Forward
  <1>3. ASSUME NEW p, NEW v, NEW k, NEW a, Install(p, v, k, a) \/ Upgrade(p, v, k, a)
        PROVE  Tracked'
    BY <1>1, <1>3 DEF Install, Upgrade
  <1>4. ASSUME NEW p, Remove(p)
        PROVE  Tracked'
    BY <1>2, <1>4 DEF Remove
  <1>5. CASE RemoveOrphans
    BY <1>2, <1>5 DEF RemoveOrphans
  <1> QED BY <1>3, <1>4, <1>5 DEF Commands

LEMMA SweepTracked ==
    ASSUME TypeOK, Kept, Tracked, Sweep
    PROVE  Tracked'
  <1>1. plan = <<>> /\ restore' = restore /\ restore # "done"
    BY DEF Sweep, Pass, NextOrphan, Kept, Phase, Tracked
  <1>2. CASE pc' = "idle" /\ plan' = <<>>
    BY <1>2, IdleTracked
  <1>3. CASE pc' \in {"next", "pass", "file"} /\ plan' = plan
    BY <1>1, <1>3, NoPlanTracked DEF Forward
  <1> QED BY <1>2, <1>3 DEF Sweep, Pass, NextOrphan, End, planning

LEMMA BetweenTracked ==
    ASSUME TypeOK, Kept,
           \/ Cut
           \/ \E p \in Package, v \in Version : Publish(p, v)
           \/ \E p \in Package : Keep(p)
    PROVE  Tracked'
  <1>1. pc' = "idle" /\ plan' = <<>>
    BY DEF Cut, Publish, Keep, End, Kept, Phase, planning
  <1> QED BY <1>1, IdleTracked

LEMMA StillTracked ==
    ASSUME Tracked, UNCHANGED vars
    PROVE  Tracked'
  <1>1. /\ UNCHANGED <<pc, plan, at, had, touched, restore, start>>
        /\ UNCHANGED <<disk, db, pin, auto>>
    BY DEF vars, root, planning, running
  <1>2. FilesTracked' = FilesTracked
    BY <1>1 DEF FilesTracked
  <1>3. RecordsTracked' = RecordsTracked
    BY <1>1 DEF RecordsTracked, Placed
  <1>4. ASSUME NEW p
        PROVE  /\ Beyond(p)' = Beyond(p) /\ Untouched(p)' = Untouched(p)
               /\ TakenOut(p)' = TakenOut(p)
    BY <1>1 DEF Beyond, Untouched, TakenOut
  <1>5. Track => Track'
    BY <1>1, <1>2, <1>3, <1>4 DEF Track
  <1>6. Snapshot' = Snapshot
    BY <1>1 DEF Snapshot
  <1> QED BY <1>1, <1>5, <1>6 DEF Tracked

LEMMA TrackedAlways == Spec => [](Inv /\ Tracked)
  <1>1. Init => Tracked
    BY DEF Init, Tracked, Forward
  <1>2. ASSUME Inv, Tracked, [Next]_vars
        PROVE  Tracked'
    <2>1. TypeOK /\ Kept
      BY <1>2 DEF Inv
    <2>2. CASE Resolve
      BY <1>2, <2>1, <2>2, ResolveTracked
    <2>3. CASE Run
      BY <1>2, <2>1, <2>3, PlaceTracked, WritePinTracked, WriteDbTracked, MarkTracked,
         FailTracked DEF Run
    <2>4. CASE TakeOut
      <3>1. CASE CannotUnpin
        BY <3>1, FailedTracked DEF CannotUnpin
      <3> QED BY <1>2, <2>1, <2>4, <3>1, DeleteFileTracked, UnlinkDbTracked, UnmarkTracked,
                 CannotRemoveTracked, UnpinTracked DEF TakeOut
    <2>5. CASE Sweep
      BY <1>2, <2>1, <2>5, SweepTracked
    <2>6. CASE Commands
      BY <2>6, CommandsTracked
    <2>7. CASE \/ Cut
               \/ \E p \in Package, v \in Version : Publish(p, v)
               \/ \E p \in Package : Keep(p)
      BY <2>1, <2>7, BetweenTracked
    <2>8. CASE UNCHANGED vars
      BY <1>2, <2>8, StillTracked
    <2> QED BY <1>2, <2>2, <2>3, <2>4, <2>5, <2>6, <2>7, <2>8 DEF Next, Changes
  <1>3. Inv /\ Tracked /\ [Next]_vars => Tracked'
    BY <1>2
  <1> QED BY <1>1, <1>3, InvInit, InvStep, PTL DEF Spec

(* Only the undo's last step says that all was taken back out. *)
LEMMA DoneSteps ==
    ASSUME [Next]_vars, pc # "idle", restore # "done", restore' = "done"
    PROVE  Unpin /\ restore = "none" /\ at = 1
  <1>1. ASSUME NEW told, TakeBack(at - 1, told)
        PROVE  restore' = told
    BY <1>1 DEF TakeBack
  <1>2. ~Resolve
    BY DEF Resolve, RefusePlan, Meet, Descend, Return, Leave
  <1>3. ~Run
    <2>1. ~Fail
      BY <1>1 DEF Fail
    <2> QED BY <2>1 DEF Run, Place, WritePin, WriteDb, Mark, Continue
  <1>4. ~Sweep
    BY DEF Sweep, Pass, NextOrphan
  <1>5. ~Commands
    BY DEF Commands, Install, Upgrade, Ask, Remove, RemoveOrphans, Begin
  <1>6. /\ ~Cut
        /\ ~\E p \in Package, v \in Version : Publish(p, v)
        /\ ~\E p \in Package : Keep(p)
        /\ restore' # restore
    BY DEF Cut, Publish, Keep
  <1>7. TakeOut
    BY <1>2, <1>3, <1>4, <1>5, <1>6 DEF Next, Changes, vars
  <1>8. ~DeleteFile /\ ~UnlinkDb /\ ~Unmark
    BY DEF DeleteFile, UnlinkDb, Unmark, Removing
  <1>9. ~CannotRemove /\ ~CannotUnpin
    BY <1>1 DEF CannotRemove, CannotUnpin
  <1>10. Unpin
    BY <1>7, <1>8, <1>9 DEF TakeOut
  <1>11. restore' = IF restore = "none" /\ at = 1 THEN "done" ELSE restore
    BY <1>1, <1>10 DEF Unpin
  <1> QED BY <1>10, <1>11

(* PKG_RESTORE_DONE: when pkg says that all it placed was taken back out,  *)
(* the records are as before, and each path is as before or empty, without *)
(* a key that was not trusted before.                                      *)
THEOREM WhatIsTakenBack == Spec => RestoreTold
  <1> DEFINE Back == pc # "idle" /\ pc' = "idle" /\ said' = "refused" /\ restore' = "done" =>
          /\ db' = start.db
          /\ \A p \in Package :
                \/ disk'[p] = start.disk[p] /\ start.disk[p] # None
                \/ disk'[p] = None /\ (pin'[p] = start.pin[p] \/ start.pin[p] # NoKey)
  <1>1. ASSUME Inv, Tracked, [Next]_vars
        PROVE  Back
    <2>1. SUFFICES ASSUME pc # "idle", restore' = "done"
                   PROVE  /\ db' = start.db
                          /\ \A p \in Package :
                                \/ disk'[p] = start.disk[p] /\ start.disk[p] # None
                                \/ /\ disk'[p] = None
                                   /\ pin'[p] = start.pin[p] \/ start.pin[p] # NoKey
      OBVIOUS
    <2>2. Unpin /\ restore = "none" /\ at = 1
      BY <1>1, <2>1, DoneSteps DEF Tracked
    <2>3. TypeOK /\ Kept /\ pc = "unpin" /\ plan # <<>>
      BY <1>1, <2>2 DEF Inv, Unpin, Kept, Phase
    <2>4. Track
      BY <1>1, <2>2, <2>3 DEF Tracked
    <2>5. /\ UNCHANGED <<disk, db>>
          /\ disk[plan[at].pkg] = None
          /\ pin'[plan[at].pkg] = start.pin[plan[at].pkg] \/ start.pin[plan[at].pkg] # NoKey
          /\ \A p \in Package : p # plan[at].pkg => pin'[p] = pin[p]
      BY <2>2, <2>3, <2>4, UnpinFacts
    <2>6. db' = start.db
      <3>1. Len(plan) \in Nat /\ \A i \in 1 .. Len(plan) : ~Placed(i)
        BY <2>2, <2>3, StackFacts DEF Placed
      <3>2. \A p \in Package : db[p] = start.db[p]
        BY <2>4, <3>1 DEF Track, RecordsTracked
      <3>3. db \in [Package -> Version \cup {None}] /\ start.db \in [Package -> Version \cup {None}]
        BY <2>3, RootParts DEF TypeOK, Root
      <3> QED BY <2>5, <3>2, <3>3
    <2>7. ASSUME NEW p \in Package, p # plan[at].pkg
          PROVE  TakenOut(p)
      <3>1. Len(plan) \in Nat
        BY <2>3, StackFacts
      <3>2. Beyond(p)
        BY <2>2, <2>7, <3>1 DEF Beyond
      <3> QED BY <2>3, <2>4, <3>2 DEF Track, Forward
    <2> QED BY <2>5, <2>6, <2>7 DEF TakenOut
  <1> HIDE DEF Back
  <1>2. Spec => [][Back]_vars
    BY <1>1, TrackedAlways, PTL DEF Spec
  <1> QED BY <1>2 DEF RestoreTold, Back

-----------------------------------------------------------------------------
(* What the root trusts.  run_plan has come to an entry, and remembers     *)
(* whether its package had a key, whatever is told of the undo.            *)
Come(i) == i < at \/ (i = at /\ pc # "place")

Remembered ==
    pc # "resolve" =>
        \A i \in 1 .. Len(plan) :
            Come(i) => plan[i].pkg \in had \/ start.pin[plan[i].pkg] = NoKey

LEMMA RememberedForward ==
    ASSUME Tracked', restore' = "none"
    PROVE  Remembered'
  BY DEF Tracked, Track, RecordsTracked, Remembered, Come

LEMMA RememberedKept ==
    ASSUME Remembered, pc # "resolve", UNCHANGED <<plan, had, start>>,
           \A i \in 1 .. Len(plan) : Come(i)' => Come(i)
    PROVE  Remembered'
  BY DEF Remembered

LEMMA RememberedEmpty ==
    ASSUME plan' = <<>>
    PROVE  Remembered'
  BY DEF Remembered

LEMMA RememberedBack ==
    ASSUME TypeOK, Kept, Remembered, pc \in {"place", "pin", "db"} \cup Undo, plan # <<>>,
           NEW told, TakeBack(at - 1, told)
    PROVE  Remembered'
  <1>1. at \in 1 .. Len(plan) /\ Len(plan) \in Nat /\ pc # "resolve"
    BY RunFacts DEF Forward, Undo
  <1>2. CASE at - 1 = 0
    BY <1>2, RememberedEmpty DEF TakeBack, End
  <1>3. CASE at - 1 # 0
    <2>1. pc' = "file" /\ at' = at - 1 /\ UNCHANGED <<plan, had, start>>
      BY <1>3 DEF TakeBack, planning
    <2>2. \A i \in 1 .. Len(plan) : Come(i)' => Come(i)
      BY <1>1, <2>1 DEF Come
    <2> QED BY <1>1, <2>1, <2>2, RememberedKept
  <1> QED BY <1>2, <1>3

(* The steps of remove_files, with the plan they take back. *)
LEMMA RememberedTakeOut ==
    ASSUME TypeOK, Kept, Remembered, plan # <<>>, TakeOut
    PROVE  Remembered'
  <1>1. CASE DeleteFile \/ UnlinkDb
    <2>1. /\ pc \in {"file", "unlink"} /\ pc' \in {"unlink", "unmark"}
          /\ UNCHANGED <<plan, at, had, start>>
      BY <1>1 DEF DeleteFile, UnlinkDb, Removing, planning, running
    <2>2. \A i \in 1 .. Len(plan) : Come(i)' => Come(i)
      BY <2>1 DEF Come
    <2> QED BY <2>1, <2>2, RememberedKept
  <1>2. CASE Unmark
    <2>1. pc = "unmark" /\ cmd.verb \in {"install", "upgrade"}
      BY <1>2 DEF Unmark, Kept, Phase
    <2>2. pc' = "unpin" /\ UNCHANGED <<plan, at, had, start>>
      BY <1>2, <2>1 DEF Unmark, Removing, planning, running
    <2>3. \A i \in 1 .. Len(plan) : Come(i)' => Come(i)
      BY <2>1, <2>2 DEF Come
    <2> QED BY <2>1, <2>2, <2>3, RememberedKept
  <1>3. CASE CannotRemove
    <2>1. pc \in Undo /\ cmd.verb \in {"install", "upgrade"}
      BY <1>3 DEF CannotRemove, Undo, Kept, Phase
    <2>2. TakeBack(at - 1, "failed")
      BY <1>3, <2>1 DEF CannotRemove
    <2> QED BY <2>1, <2>2, RememberedBack
  <1>4. CASE Unpin
    <2>1. pc \in Undo /\ TakeBack(at - 1, IF restore = "none" /\ at = 1 THEN "done" ELSE restore)
      BY <1>4 DEF Unpin, Undo
    <2> QED BY <2>1, RememberedBack
  <1>5. CASE CannotUnpin
    <2>1. pc \in Undo /\ TakeBack(at - 1, "failed")
      BY <1>5 DEF CannotUnpin, Undo
    <2> QED BY <2>1, RememberedBack
  <1> QED BY <1>1, <1>2, <1>3, <1>4, <1>5 DEF TakeOut

LEMMA RememberedStep ==
    ASSUME Inv, Tracked, Remembered, [Next]_vars, Tracked'
    PROVE  Remembered'
  <1>1. TypeOK /\ Kept
    BY DEF Inv
  <1>2. CASE Resolve
    <2>1. plan' = <<>> \/ restore' = "none"
      BY <1>2 DEF Resolve, RefusePlan, End, Meet, Descend, Return, Leave, Tracked
    <2> QED BY <2>1, RememberedEmpty, RememberedForward
  <1>3. CASE Run
    <2>1. pc \in Forward /\ plan # <<>>
      BY <1>1, <1>3, StackFacts DEF Run, Place, WritePin, WriteDb, Mark, Fail, Kept, Phase, Forward
    <2>2. restore = "none"
      BY <2>1 DEF Tracked
    <2>3. CASE Fail
      <3>1. /\ pc \in {"place", "pin", "db"} \cup Undo
            /\ TakeBack(at - 1, IF touched THEN "incomplete" ELSE "none")
        BY <2>3 DEF Fail
      <3> QED BY <1>1, <2>1, <3>1, RememberedBack
    <2>4. CASE Place \/ WritePin \/ WriteDb \/ Mark
      <3>1. restore' = "none"
        BY <2>2, <2>4 DEF Place, WritePin, WriteDb, Mark, Continue
      <3> QED BY <3>1, RememberedForward
    <2> QED BY <1>3, <2>3, <2>4 DEF Run
  <1>4. CASE TakeOut
    <2>1. CASE plan = <<>>
      <3>1. plan' = <<>>
        BY <1>4, <2>1 DEF TakeOut, DeleteFile, UnlinkDb, Unmark, CannotRemove, Unpin, CannotUnpin,
                          Removing, TakeBack, End, planning
      <3> QED BY <3>1, RememberedEmpty
    <2> QED BY <1>1, <1>4, <2>1, RememberedTakeOut
  <1>5. CASE Sweep
    <2>1. plan' = <<>>
      BY <1>1, <1>5 DEF Sweep, Pass, NextOrphan, End, planning, Kept, Phase
    <2> QED BY <2>1, RememberedEmpty
  <1>6. CASE Commands
    <2> QED BY <1>6, CommandsKeep, RememberedEmpty
  <1>7. CASE \/ Cut
             \/ \E p \in Package, v \in Version : Publish(p, v)
             \/ \E p \in Package : Keep(p)
    <2>1. plan' = <<>>
      BY <1>1, <1>7 DEF Cut, End, Publish, Keep, planning, Kept, Phase
    <2> QED BY <2>1, RememberedEmpty
  <1>8. CASE UNCHANGED vars
    <2>1. UNCHANGED <<pc, plan, at, had, start>>
      BY <1>8 DEF vars, planning, running
    <2> QED BY <2>1 DEF Remembered, Come
  <1> QED BY <1>2, <1>3, <1>4, <1>5, <1>6, <1>7, <1>8 DEF Next, Changes

LEMMA RememberedAlways == Spec => [](Inv /\ Remembered)
  <1>1. Init => Remembered
    BY DEF Init, Remembered
  <1>2. Inv /\ Tracked /\ Remembered /\ [Next]_vars /\ Tracked' => Remembered'
    BY RememberedStep
  <1> QED BY <1>1, <1>2, TrackedAlways, PTL DEF Spec

(* What a root trusts changes for a reason alone: a first key is that of   *)
(* the oldest version offered, or the one the person named, under KEY for  *)
(* that package only; another takes its place when the person accepts it;  *)
(* and an undo forgets the keys that its own plan brought, whichever of    *)
(* its steps fail.                                                         *)
THEOREM TrustIsExplained == Spec => TrustChanges
  <1> DEFINE Explained == \A p \in Package : pin'[p] # pin[p] =>
                 TrustBegins(p) \/ TrustMoves(p) \/ TrustEnds(p)
  <1>1. ASSUME Inv, Remembered, [Next]_vars
        PROVE  Explained
    <2>1. TypeOK /\ Kept
      BY <1>1 DEF Inv
    <2>2. pin \in [Package -> Key \cup {NoKey}]
      BY <2>1, RootParts DEF TypeOK
    <2>3. CASE WritePin
      <3>1. pc = "pin" /\ pin' = [pin EXCEPT ![Now.pkg] = Signer[Now.pkg][Now.version]]
        BY <2>3 DEF WritePin
      <3>2. Allowed(Now)
        BY <2>1, <3>1 DEF Kept, KeysAsked, Phase, Forward, Now
      <3>3. Signer[Now.pkg][Now.version] # NoKey
        BY <2>1, <3>1, NowType, KeyAssumption DEF Kept, Forward
      <3> QED BY <2>2, <3>1, <3>2, <3>3 DEF Allowed, TrustBegins, TrustMoves
    <2>4. CASE Unpin
      <3>1. /\ pc = "unpin"
            /\ pin' = IF victim \in had THEN pin ELSE [pin EXCEPT ![victim] = NoKey]
        BY <2>4 DEF Unpin
      <3>2. plan # <<>> /\ at \in 1 .. Len(plan) /\ victim = plan[at].pkg
        BY <2>1, <3>1 DEF Kept, Phase, Undo
      <3>3. victim \in had \/ start.pin[victim] = NoKey
        BY <1>1, <3>1, <3>2 DEF Remembered, Come
      <3> QED BY <2>2, <3>1, <3>2, <3>3 DEF TrustEnds, Undoing
    <2> QED BY <1>1, <2>3, <2>4, PinSteps
  <1> HIDE DEF Explained
  <1>2. Spec => [][Explained]_vars
    BY <1>1, RememberedAlways, PTL DEF Spec
  <1> QED BY <1>2, PTL DEF TrustChanges, Explained

=============================================================================
