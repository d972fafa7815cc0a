---------------------------- MODULE ReaderProofs ----------------------------
(***************************************************************************)
(* Proofs about a channel in a directory and a root that reads it, for any *)
(* publishers, keys, versions, contents and bounds; and, at the end, about *)
(* the three walks over its index, for any index.                          *)
(***************************************************************************)
EXTENDS Reader, Standing, FiniteSetTheorems, SequenceTheorems, NaturalsInduction, WellFoundedInduction, TLAPS

(* Of numbers there is a least, and of those under a bound a greatest.     *)
Less == {x \in Nat \X Nat : x[1] < x[2]}

LEMMA Least ==
    ASSUME NEW N \in SUBSET Nat, N # {}
    PROVE  \E n \in N : \A m \in N : n <= m
  <1>1. Less = OpToRel(<, Nat)
    BY DEF Less, OpToRel
  <1>2. PICK n \in N : \A m \in N : <<m, n>> \notin Less
    BY <1>1, NatLessThanWellFounded, WFMin
  <1>3. ASSUME NEW m \in N
        PROVE  n <= m
    <2>1. m \in Nat /\ n \in Nat
      OBVIOUS
    <2>2. ~(m < n)
      BY <1>2, <2>1 DEF Less
    <2> QED BY <2>1, <2>2
  <1> QED BY <1>3

LEMMA Greatest ==
    ASSUME NEW N \in SUBSET Nat, N # {}, NEW b \in Nat, \A m \in N : m <= b
    PROVE  \E n \in N : \A m \in N : m <= n
  <1> DEFINE gaps == {b - m : m \in N}
  <1>1. gaps \in SUBSET Nat /\ gaps # {}
    <2>1. ASSUME NEW m \in N
          PROVE  b - m \in Nat
      <3>1. m \in Nat /\ m <= b
        OBVIOUS
      <3> QED BY <3>1
    <2> QED BY <2>1
  <1>2. PICK g \in gaps : \A h \in gaps : g <= h
    BY <1>1, Least
  <1>3. PICK n \in N : g = b - n
    OBVIOUS
  <1>4. ASSUME NEW m \in N
        PROVE  m <= n
    <2>1. b - m \in gaps /\ m \in Nat /\ n \in Nat
      OBVIOUS
    <2>2. b - n <= b - m
      BY <1>2, <1>3, <2>1
    <2> QED BY <2>1, <2>2
  <1> QED BY <1>4

-----------------------------------------------------------------------------
(* What a command has still to write, in its order.                        *)
Publishing == {<<"payload", "manifest", "sig", "index">>, <<"manifest", "sig", "index">>,
               <<"sig", "index">>, <<"index">>}
Repairing == {<<"manifest", "payload", "sig">>, <<"manifest", "payload">>, <<"manifest", "sig">>,
              <<"payload", "sig">>, <<"manifest">>, <<"payload">>, <<"sig">>}
Withdrawing == {<<"withdrawn", "withdrawn.sig">>, <<"withdrawn.sig">>}
Todos == Publishing \cup Repairing \cup Withdrawing

Objects == {"payload", "manifest", "sig", "withdrawn", "withdrawn.sig"}

LEMMA Tails ==
    ASSUME NEW a, NEW b, NEW c, NEW d
    PROVE  /\ Tail(<<a, b, c, d>>) = <<b, c, d>> /\ Tail(<<b, c, d>>) = <<c, d>> /\ Tail(<<c, d>>) = <<d>>
           /\ Len(<<a, b, c, d>>) = 4 /\ Len(<<b, c, d>>) = 3 /\ Len(<<c, d>>) = 2 /\ Len(<<d>>) = 1
           /\ Head(<<a, b, c, d>>) = a /\ Head(<<b, c, d>>) = b /\ Head(<<c, d>>) = c /\ Head(<<d>>) = d
  OBVIOUS

LEMMA Joins ==
    ASSUME NEW a, NEW b, NEW c
    PROVE  /\ <<a>> \o <<b>> = <<a, b>> /\ <<a, b>> \o <<c>> = <<a, b, c>>
           /\ <<>> \o <<>> = <<>> /\ <<>> \o <<a>> = <<a>>
           /\ <<a>> \o <<>> = <<a>> /\ <<a, b>> \o <<>> = <<a, b>>
  <1> DEFINE T == {a, b, c}
  <1>1. /\ <<>> \in Seq(T) /\ <<a>> \in Seq(T) /\ <<b>> \in Seq(T) /\ <<c>> \in Seq(T)
        /\ <<a, b>> \in Seq(T) /\ <<a, b, c>> \in Seq(T)
    OBVIOUS
  <1> HIDE DEF T
  <1>2. \A s \in Seq(T) : s \o <<>> = s /\ <<>> \o s = s
    BY ConcatEmptySeq
  <1>3. <<a>> \o <<b>> = <<a, b>>
    <2>1. /\ <<a>> \o <<b>> \in Seq(T) /\ Len(<<a>> \o <<b>>) = 2
          /\ (<<a>> \o <<b>>)[1] = a /\ (<<a>> \o <<b>>)[2] = b
      BY <1>1, ConcatProperties
    <2>2. PICK s : s = <<a>> \o <<b>>
      OBVIOUS
    <2>3. PICK t : t = <<a, b>>
      OBVIOUS
    <2>4. s \in Seq(T) /\ t \in Seq(T) /\ Len(s) = Len(t) /\ 1 .. Len(s) = {1, 2}
          /\ s[1] = t[1] /\ s[2] = t[2]
      BY <1>1, <2>1, <2>2, <2>3
    <2>5. s = t
      BY <2>4, SeqEqual
    <2> QED BY <2>2, <2>3, <2>5
  <1>4. <<a, b>> \o <<c>> = <<a, b, c>>
    <2>1. /\ <<a, b>> \o <<c>> \in Seq(T) /\ Len(<<a, b>> \o <<c>>) = 3
          /\ (<<a, b>> \o <<c>>)[1] = a /\ (<<a, b>> \o <<c>>)[2] = b
          /\ (<<a, b>> \o <<c>>)[3] = c
      BY <1>1, ConcatProperties
    <2>2. PICK s : s = <<a, b>> \o <<c>>
      OBVIOUS
    <2>3. PICK t : t = <<a, b, c>>
      OBVIOUS
    <2>4. s \in Seq(T) /\ t \in Seq(T) /\ Len(s) = Len(t) /\ 1 .. Len(s) = {1, 2, 3}
          /\ s[1] = t[1] /\ s[2] = t[2] /\ s[3] = t[3]
      BY <1>1, <2>1, <2>2, <2>3
    <2>5. s = t
      BY <2>4, SeqEqual
    <2> QED BY <2>2, <2>3, <2>5
  <1> QED BY <1>1, <1>2, <1>3, <1>4

LEMMA PublishingStep ==
    ASSUME NEW t \in Publishing
    PROVE  \/ /\ t = <<"payload", "manifest", "sig", "index">> /\ Len(t) = 4 /\ Head(t) = "payload"
              /\ Tail(t) = <<"manifest", "sig", "index">>
           \/ /\ t = <<"manifest", "sig", "index">> /\ Len(t) = 3 /\ Head(t) = "manifest"
              /\ Tail(t) = <<"sig", "index">>
           \/ t = <<"sig", "index">> /\ Len(t) = 2 /\ Head(t) = "sig" /\ Tail(t) = <<"index">>
           \/ t = <<"index">> /\ Len(t) = 1 /\ Head(t) = "index"
  <1>1. CASE t = <<"payload", "manifest", "sig", "index">>
    BY <1>1, Tails
  <1>2. CASE t = <<"manifest", "sig", "index">>
    BY <1>2, Tails
  <1>3. CASE t = <<"sig", "index">>
    BY <1>3, Tails
  <1>4. CASE t = <<"index">>
    BY <1>4, Tails
  <1> QED BY <1>1, <1>2, <1>3, <1>4 DEF Publishing

LEMMA RepairingStep ==
    ASSUME NEW t \in Repairing
    PROVE  /\ Head(t) \in {"manifest", "payload", "sig"}
           /\ Len(t) # 1 => Tail(t) \in Repairing
  <1>1. CASE t = <<"manifest", "payload", "sig">>
    <2>1. Head(t) = "manifest" /\ Tail(t) = <<"payload", "sig">>
      BY <1>1, Tails
    <2> QED BY <2>1 DEF Repairing
  <1>2. CASE t \in {<<"manifest", "payload">>, <<"manifest", "sig">>, <<"payload", "sig">>}
    <2>1. Head(t) \in {"manifest", "payload"} /\ Tail(t) \in {<<"payload">>, <<"sig">>}
      <3>1. CASE t = <<"manifest", "payload">>
        BY <3>1, Tails
      <3>2. CASE t = <<"manifest", "sig">>
        BY <3>2, Tails
      <3>3. CASE t = <<"payload", "sig">>
        BY <3>3, Tails
      <3> QED BY <1>2, <3>1, <3>2, <3>3
    <2> QED BY <2>1 DEF Repairing
  <1>3. CASE t \in {<<"manifest">>, <<"payload">>, <<"sig">>}
    BY <1>3, Tails
  <1> QED BY <1>1, <1>2, <1>3 DEF Repairing

LEMMA WithdrawingStep ==
    ASSUME NEW t \in Withdrawing
    PROVE  /\ Head(t) \in {"withdrawn", "withdrawn.sig"}
           /\ Len(t) # 1 => Tail(t) \in Withdrawing
  <1>1. CASE t = <<"withdrawn", "withdrawn.sig">>
    BY <1>1, Tails DEF Withdrawing
  <1>2. CASE t = <<"withdrawn.sig">>
    BY <1>2, Tails
  <1> QED BY <1>1, <1>2 DEF Withdrawing

LEMMA TodoStep ==
    ASSUME NEW t \in Todos
    PROVE  /\ Len(t) # 1 => Tail(t) \in Todos
           /\ t # <<>>
           /\ Head(t) \in Objects \cup {"index"}
           /\ Head(t) = "index" => t = <<"index">> /\ Len(t) = 1
           /\ t \in Publishing /\ Len(t) # 1 => Tail(t) \in Publishing
           /\ t \in Publishing /\ Len(t) = 1 => t = <<"index">>
           /\ t \in Repairing /\ Len(t) # 1 => Tail(t) \in Repairing
           /\ t \in Withdrawing /\ Len(t) # 1 => Tail(t) \in Withdrawing
  <1>1. CASE t \in Publishing
    <2>1. t \notin Repairing /\ t \notin Withdrawing
      BY <1>1 DEF Publishing, Repairing, Withdrawing
    <2>2. t # <<>>
      BY <1>1 DEF Publishing
    <2>3. Len(t) # 1 => Tail(t) \in Publishing
      BY <1>1, PublishingStep DEF Publishing
    <2>4. /\ Head(t) \in Objects \cup {"index"}
          /\ Head(t) = "index" => t = <<"index">> /\ Len(t) = 1
          /\ Len(t) = 1 => t = <<"index">>
      BY <1>1, PublishingStep DEF Objects
    <2> QED BY <2>1, <2>2, <2>3, <2>4 DEF Todos
  <1>2. CASE t \in Repairing
    <2>1. t \notin Publishing /\ t \notin Withdrawing /\ t # <<>>
      BY <1>2 DEF Publishing, Repairing, Withdrawing
    <2>2. Head(t) \in {"manifest", "payload", "sig"} /\ (Len(t) # 1 => Tail(t) \in Repairing)
      BY <1>2, RepairingStep
    <2> QED BY <1>2, <2>1, <2>2 DEF Todos, Objects
  <1>3. CASE t \in Withdrawing
    <2>1. t \notin Publishing /\ t \notin Repairing /\ t # <<>>
      BY <1>3 DEF Publishing, Repairing, Withdrawing
    <2>2. Head(t) \in {"withdrawn", "withdrawn.sig"} /\ (Len(t) # 1 => Tail(t) \in Withdrawing)
      BY <1>3, WithdrawingStep
    <2> QED BY <1>3, <2>1, <2>2 DEF Todos, Objects
  <1> QED BY <1>1, <1>2, <1>3 DEF Todos

LEMMA TodosApart ==
    ASSUME NEW t \in Repairing \cup Withdrawing
    PROVE  t \notin Publishing
  BY DEF Publishing, Repairing, Withdrawing

LEMMA LackingIs ==
    ASSUME NEW m, Lacking(m) # <<>>
    PROVE  Lacking(m) \in Repairing
  <1> DEFINE a == IF manifests[m] # Good THEN <<"manifest">> ELSE <<>>
             b == IF payloads[m.files] # Good THEN <<"payload">> ELSE <<>>
             c == IF sigs[m] \notin Keys THEN <<"sig">> ELSE <<>>
  <1>1. Lacking(m) = (a \o b) \o c
    BY DEF Lacking
  <1>2. a \in {<<"manifest">>, <<>>} /\ b \in {<<"payload">>, <<>>} /\ c \in {<<"sig">>, <<>>}
    OBVIOUS
  <1> HIDE DEF a, b, c
  <1> DEFINE ab == a \o b
  <1>3. ab \in {<<"manifest", "payload">>, <<"manifest">>, <<"payload">>, <<>>}
    <2>1. CASE a = <<"manifest">> /\ b = <<"payload">>
      BY <2>1, Joins
    <2>2. CASE a = <<>> \/ b = <<>>
      BY <1>2, <2>2, Joins
    <2> QED BY <1>2, <2>1, <2>2
  <1> HIDE DEF ab
  <1>4. ab \o c \in Repairing \cup {<<>>}
    <2>1. CASE c = <<>>
      <3>1. ab \o c = ab
        BY <1>3, <2>1, Joins
      <3> QED BY <1>3, <3>1 DEF Repairing
    <2>2. CASE c = <<"sig">>
      <3>1. CASE ab = <<"manifest", "payload">>
        BY <2>2, <3>1, Joins DEF Repairing
      <3>2. CASE ab \in {<<"manifest">>, <<"payload">>}
        BY <2>2, <3>2, Joins DEF Repairing
      <3>3. CASE ab = <<>>
        BY <2>2, <3>3, Joins DEF Repairing
      <3> QED BY <1>3, <3>1, <3>2, <3>3
    <2> QED BY <1>2, <2>1, <2>2
  <1>5. Lacking(m) = ab \o c
    BY <1>1 DEF ab
  <1> QED BY <1>4, <1>5
-----------------------------------------------------------------------------
(* Versions, keys and what a file may hold.                                *)
States == {Good, Bad, Missing}

LEMMA Constants ==
    /\ Nothing \notin Keys \cup States \cup Kinds
    /\ OtherKey \notin {Nothing} \cup States
    /\ Keys \cap States = {} /\ Good # Bad /\ Good # Missing /\ Bad # Missing
    /\ \A p \in Publishers : KeyOf[p] \in Keys
    /\ \A m \in Manifest : m.ver \in Versions /\ m.ver \in Nat /\ m.files \in Drawers /\ m.kind \in Kinds
    /\ IsFiniteSet(Other)
  <1>1. \A k \in Keys : \E p \in Publishers : k = KeyOf[p]
    BY DEF Keys
  <1>2. \A p \in Publishers : KeyOf[p] \in Keys
    BY DEF Keys
  <1>3. \A m \in Manifest : m.ver \in Versions /\ m.files \in Drawers /\ m.kind \in Kinds
    BY DEF Manifest
  <1>4. \A v \in Versions : v \in Nat
    BY LocalChannelAssumption
  <1> QED BY <1>1, <1>2, <1>3, <1>4, LocalChannelAssumption, ReaderAssumption DEF States, Good, Bad, Missing

Bounded(S) == \E b \in Nat : \A m \in S : m.ver <= b

LEMMA LowestIn ==
    ASSUME NEW S \in SUBSET Manifest, S # {}
    PROVE  Lowest(S) \in S /\ \A n \in S : Lowest(S).ver <= n.ver
  <1> DEFINE vers == {m.ver : m \in S}
  <1>1. vers \in SUBSET Nat /\ vers # {}
    BY Constants
  <1>2. PICK v \in vers : \A w \in vers : v <= w
    BY <1>1, Least
  <1>3. PICK m \in S : m.ver = v
    OBVIOUS
  <1>4. \A n \in S : m.ver <= n.ver
    BY <1>2, <1>3
  <1> QED BY <1>4 DEF Lowest

LEMMA HighestIn ==
    ASSUME NEW S \in SUBSET Manifest, S # {}, Bounded(S)
    PROVE  Highest(S) \in S
  <1> DEFINE vers == {m.ver : m \in S}
  <1>1. vers \in SUBSET Nat /\ vers # {}
    BY Constants
  <1>2. PICK b \in Nat : \A v \in vers : v <= b
    BY DEF Bounded
  <1>3. PICK v \in vers : \A w \in vers : w <= v
    BY <1>1, <1>2, Greatest
  <1>4. PICK m \in S : m.ver = v
    OBVIOUS
  <1>5. \A n \in S : n.ver <= m.ver
    BY <1>3, <1>4
  <1> QED BY <1>5 DEF Highest

LEMMA BoundedMore ==
    ASSUME NEW S \in SUBSET Manifest, Bounded(S), NEW m \in Manifest
    PROVE  Bounded(S \cup {m})
  <1>1. PICK b \in Nat : \A n \in S : n.ver <= b
    BY DEF Bounded
  <1>2. m.ver \in Nat /\ \A n \in S : n.ver \in Nat
    BY Constants
  <1>3. b + m.ver \in Nat /\ \A n \in S \cup {m} : n.ver <= b + m.ver
    BY <1>1, <1>2
  <1> QED BY <1>3 DEF Bounded

-----------------------------------------------------------------------------
(* What the variables of a channel hold.                                   *)
Writing(p) ==
    /\ running[p].todo \in Todos /\ running[p].m \in Manifest
    /\ running[p].ix \subseteq Manifest /\ IsFiniteSet(running[p].ix) /\ Bounded(running[p].ix)

ChannelTypes ==
    /\ index \subseteq Manifest /\ IsFiniteSet(index) /\ Bounded(index)
    /\ manifests \in [Manifest -> States] /\ payloads \in [Drawers -> States]
    /\ sigs \in [Manifest -> Keys \cup States]
    /\ withdrawn \subseteq Manifest /\ withdrawnSigs \in [Manifest -> Keys \cup States]
    /\ running \in [Publishers -> [todo : Todos \cup {<<>>}, m : Manifest \cup {Nothing}, ix : SUBSET Manifest]]
    /\ \A p \in Publishers : running[p] = Idle \/ Writing(p)
    /\ unheld \in BOOLEAN

LEMMA IdleOrWriting ==
    ASSUME ChannelTypes, NEW p \in Publishers
    PROVE  /\ running[p] = Idle => running[p].todo = <<>> /\ running[p].ix = {}
           /\ running[p] # Idle <=> running[p].todo # <<>>
           /\ running[p] # Idle => Writing(p)
  <1>1. running[p] = Idle => running[p].todo = <<>> /\ running[p].ix = {}
    BY DEF Idle
  <1>2. Writing(p) => running[p].todo # <<>>
    BY TodoStep DEF Writing
  <1> QED BY <1>1, <1>2 DEF ChannelTypes

LEMMA BuiltIs ==
    ASSUME ChannelTypes, NEW a \in Arguments, BuiltKind(a) # Nothing
    PROVE  Built(a) \in Manifest
  <1>1. a.ver \in Versions /\ a.files \in Drawers /\ a.kind \in Kinds \cup {Nothing}
    BY DEF Arguments
  <1>2. BuiltKind(a) \in Kinds
    <2>1. CASE a.kind # Nothing
      BY <1>1, <2>1 DEF BuiltKind
    <2>2. CASE a.kind = Nothing
      <3>1. Inherited(index) # Nothing /\ BuiltKind(a) = Inherited(index)
        BY <2>2 DEF BuiltKind
      <3>2. index # {} /\ Inherited(index) = Highest(index).kind
        BY <3>1 DEF Inherited
      <3>3. Highest(index) \in Manifest
        BY <3>2, HighestIn DEF ChannelTypes
      <3> QED BY <3>1, <3>2, <3>3, Constants
    <2> QED BY <2>1, <2>2
  <1> QED BY <1>1, <1>2 DEF Built, Manifest

(* A command begins, goes on or ends; what it leaves to be written.        *)
LEMMA Began ==
    ASSUME ChannelTypes, NEW p \in Publishers, NEW t \in Todos, NEW m \in Manifest,
           running' = [running EXCEPT ![p] = [todo |-> t, m |-> m, ix |-> index]]
    PROVE  /\ running' \in [Publishers -> [todo : Todos \cup {<<>>}, m : Manifest \cup {Nothing}, ix : SUBSET Manifest]]
           /\ running'[p].todo = t /\ running'[p].m = m /\ running'[p].ix = index
           /\ Writing(p)'
           /\ \A q \in Publishers \ {p} : running'[q] = running[q]
  <1> DEFINE c == [todo |-> t, m |-> m, ix |-> index]
  <1>1. c \in [todo : Todos \cup {<<>>}, m : Manifest \cup {Nothing}, ix : SUBSET Manifest]
    BY DEF ChannelTypes
  <1>2. c.todo = t /\ c.m = m /\ c.ix = index
    OBVIOUS
  <1> HIDE DEF c
  <1>3. running'[p] = c /\ \A q \in Publishers \ {p} : running'[q] = running[q]
    BY DEF ChannelTypes, c
  <1>4. running' \in [Publishers -> [todo : Todos \cup {<<>>}, m : Manifest \cup {Nothing}, ix : SUBSET Manifest]]
    BY <1>1 DEF ChannelTypes, c
  <1> QED BY <1>2, <1>3, <1>4 DEF ChannelTypes, Writing

LEMMA WentOn ==
    ASSUME ChannelTypes, NEW p \in Publishers, running[p] # Idle, Done(p)
    PROVE  /\ running' \in [Publishers -> [todo : Todos \cup {<<>>}, m : Manifest \cup {Nothing}, ix : SUBSET Manifest]]
           /\ \A q \in Publishers \ {p} : running'[q] = running[q]
           /\ Len(running[p].todo) = 1 => running'[p] = Idle
           /\ Len(running[p].todo) # 1 =>
                /\ running'[p].todo = Tail(running[p].todo) /\ running'[p].todo \in Todos
                /\ running'[p].m = running[p].m /\ running'[p].ix = running[p].ix /\ Writing(p)'
  <1> DEFINE T == [todo : Todos \cup {<<>>}, m : Manifest \cup {Nothing}, ix : SUBSET Manifest]
             c == IF Len(running[p].todo) = 1 THEN Idle ELSE [running[p] EXCEPT !.todo = Tail(@)]
  <1>1. Writing(p) /\ running[p] \in T
    BY IdleOrWriting DEF ChannelTypes
  <1>2. Len(running[p].todo) # 1 => Tail(running[p].todo) \in Todos
    BY <1>1, TodoStep DEF Writing
  <1>3. Idle \in T
    BY DEF Idle
  <1>4. Len(running[p].todo) # 1 =>
          /\ c \in T /\ c.todo = Tail(running[p].todo) /\ c.m = running[p].m /\ c.ix = running[p].ix
    BY <1>1, <1>2
  <1>5. c \in T /\ (Len(running[p].todo) = 1 => c = Idle)
    BY <1>3, <1>4
  <1> HIDE DEF c
  <1>6. /\ running' = [q \in Publishers |-> IF q = p THEN running'[p] ELSE running[q]]
        /\ running'[p] = c
    <2>1. CASE Len(running[p].todo) = 1
      BY <2>1 DEF Done, c, ChannelTypes
    <2>2. CASE Len(running[p].todo) # 1
      <3>1. running' = [running EXCEPT ![p].todo = Tail(@)]
        BY <2>2 DEF Done
      <3>2. running'[p] = [running[p] EXCEPT !.todo = Tail(running[p].todo)]
        BY <3>1 DEF ChannelTypes
      <3> QED BY <2>2, <3>1, <3>2 DEF ChannelTypes, c
    <2> QED BY <2>1, <2>2
  <1>7. running' \in [Publishers -> T] /\ \A q \in Publishers \ {p} : running'[q] = running[q]
    BY <1>5, <1>6 DEF ChannelTypes
  <1>8. Len(running[p].todo) # 1 => Writing(p)'
    BY <1>1, <1>2, <1>4, <1>6 DEF Writing
  <1> QED BY <1>1, <1>2, <1>4, <1>5, <1>6, <1>7, <1>8
(* What a step of a channel does, for all the invariants below.            *)
Sets == [Publishers -> [todo : Todos \cup {<<>>}, m : Manifest \cup {Nothing}, ix : SUBSET Manifest]]

BeginsWith(p, t, m) ==
    /\ running[p] = Idle /\ (~Overlap => \A q \in Publishers : running[q] = Idle)
    /\ running' \in Sets /\ Writing(p)'
    /\ running'[p].todo = t /\ running'[p].m = m /\ running'[p].ix = index
    /\ \A q \in Publishers \ {p} : running'[q] = running[q]
    /\ UNCHANGED <<index, manifests, payloads, sigs, withdrawn, withdrawnSigs, damaged>>

LEMMA PublishIs ==
    ASSUME ChannelTypes, NEW p \in Publishers, NEW a \in Arguments, Publish(p, a)
    PROVE  /\ BeginsWith(p, Writes, Built(a)) /\ Built(a) \in Manifest
           /\ SameVersion(Built(a)) = {} /\ FirstKey(p, a)
           /\ unheld' = (unheld \/ Unheld(p, a)) /\ unheld' \in BOOLEAN
  <1>1. Built(a) \in Manifest
    BY BuiltIs DEF Publish
  <1>2. Writes \in Todos
    BY DEF Writes, Todos, Publishing
  <1>3. /\ running[p] = Idle /\ (Overlap \/ \A q \in Publishers : running[q] = Idle)
        /\ running' = [running EXCEPT ![p] = [todo |-> Writes, m |-> Built(a), ix |-> index]]
        /\ unheld' = (unheld \/ Unheld(p, a))
    BY DEF Publish, MayBegin
  <1>4. UNCHANGED <<index, manifests, payloads, sigs, withdrawn, withdrawnSigs, damaged>>
    BY DEF Publish, disk
  <1>5. SameVersion(Built(a)) = {} /\ FirstKey(p, a)
    BY DEF Publish
  <1>6. unheld' \in BOOLEAN
    BY <1>3 DEF ChannelTypes, Unheld
  <1>7. /\ running' \in Sets /\ Writing(p)'
        /\ running'[p].todo = Writes /\ running'[p].m = Built(a) /\ running'[p].ix = index
        /\ \A q \in Publishers \ {p} : running'[q] = running[q]
    BY <1>1, <1>2, <1>3, Began DEF Sets
  <1> QED BY <1>1, <1>3, <1>4, <1>5, <1>6, <1>7 DEF BeginsWith

LEMMA RepublishIs ==
    ASSUME ChannelTypes, NEW p \in Publishers, NEW a \in Arguments, Republish(p, a)
    PROVE  /\ \E t \in Repairing : BeginsWith(p, t, Built(a))
           /\ Built(a) \in index
           /\ Claimed(Lowest(index)) = KeyOf[p] /\ unheld' = unheld
  <1>1. Built(a) \in Manifest
    BY BuiltIs DEF Republish
  <1>2. PICK t \in Repairing : t = Lacking(Built(a))
    BY LackingIs DEF Republish
  <1>3. /\ running[p] = Idle /\ (Overlap \/ \A q \in Publishers : running[q] = Idle)
        /\ running' = [running EXCEPT ![p] = [todo |-> t, m |-> Built(a), ix |-> index]]
    BY <1>2 DEF Republish, MayBegin
  <1>4. UNCHANGED <<index, manifests, payloads, sigs, withdrawn, withdrawnSigs, damaged, unheld>>
    BY DEF Republish, disk, history
  <1>5. Built(a) \in index /\ Claimed(Lowest(index)) = KeyOf[p]
    BY DEF Republish
  <1>6. t \in Todos
    BY DEF Todos
  <1>7. /\ running' \in Sets /\ Writing(p)'
        /\ running'[p].todo = t /\ running'[p].m = Built(a) /\ running'[p].ix = index
        /\ \A q \in Publishers \ {p} : running'[q] = running[q]
    BY <1>1, <1>3, <1>6, Began DEF Sets
  <1>8. BeginsWith(p, t, Built(a))
    BY <1>3, <1>4, <1>7 DEF BeginsWith
  <1> QED BY <1>4, <1>5, <1>8

LEMMA WithdrawIs ==
    ASSUME ChannelTypes, NEW p \in Publishers, NEW m \in index, Withdraw(p, m)
    PROVE  /\ \E t \in Withdrawing : BeginsWith(p, t, m)
           /\ m \in Manifest
           /\ Claimed(m) = KeyOf[p] /\ unheld' = unheld
  <1>1. m \in Manifest
    BY DEF ChannelTypes
  <1>2. PICK t \in Withdrawing : t = <<"withdrawn", "withdrawn.sig">>
    BY DEF Withdrawing
  <1>3. /\ running[p] = Idle /\ (Overlap \/ \A q \in Publishers : running[q] = Idle)
        /\ running' = [running EXCEPT ![p] = [todo |-> t, m |-> m, ix |-> index]]
    BY <1>2 DEF Withdraw, MayBegin
  <1>4. UNCHANGED <<index, manifests, payloads, sigs, withdrawn, withdrawnSigs, damaged, unheld>>
    BY DEF Withdraw, disk, history
  <1>5. Claimed(m) = KeyOf[p]
    BY DEF Withdraw
  <1>6. t \in Todos
    BY DEF Todos
  <1>7. /\ running' \in Sets /\ Writing(p)'
        /\ running'[p].todo = t /\ running'[p].m = m /\ running'[p].ix = index
        /\ \A q \in Publishers \ {p} : running'[q] = running[q]
    BY <1>1, <1>3, <1>6, Began DEF Sets
  <1>8. BeginsWith(p, t, m)
    BY <1>3, <1>4, <1>7 DEF BeginsWith
  <1> QED BY <1>1, <1>4, <1>5, <1>8

(* A command that writes: the object first in its list, or the index; then *)
(* it is idle, or has the rest of its list.                                *)
GoesOn(p) ==
    /\ running[p] # Idle /\ Writing(p) /\ running' \in Sets
    /\ \A q \in Publishers \ {p} : running'[q] = running[q]
    /\ Len(running[p].todo) = 1 => running'[p] = Idle
    /\ Len(running[p].todo) # 1 =>
         /\ running'[p] # Idle
         /\ running'[p].todo = Tail(running[p].todo) /\ running'[p].todo \in Todos
         /\ running'[p].m = running[p].m /\ running'[p].ix = running[p].ix /\ Writing(p)'

LEMMA GoesOnIs ==
    ASSUME ChannelTypes, NEW p \in Publishers, running[p].todo # <<>>, Done(p)
    PROVE  GoesOn(p)
  <1>1. running[p] # Idle /\ Writing(p)
    BY IdleOrWriting
  <1>2. Writing(p)' => running'[p] # Idle
    <2>1. Writing(p)' => running'[p].todo # <<>>
      BY TodoStep DEF Writing
    <2> QED BY <2>1 DEF Idle
  <1> QED BY <1>1, <1>2, WentOn DEF GoesOn, Sets

LEMMA WriteObjectIs ==
    ASSUME ChannelTypes, NEW p \in Publishers, WriteObject(p)
    PROVE  /\ GoesOn(p)
           /\ \E o \in Objects : Put(p, o) /\ damaged' = damaged \ {Name(o, running[p].m)}
           /\ UNCHANGED <<index, unheld>>
  <1>1. PICK o \in Objects : /\ Put(p, o) /\ Done(p) /\ damaged' = damaged \ {Name(o, running[p].m)}
                             /\ UNCHANGED <<index, spent, unheld>>
    BY DEF WriteObject, Objects
  <1>2. running[p].todo # <<>>
    BY <1>1 DEF Put
  <1>3. GoesOn(p)
    BY <1>1, <1>2, GoesOnIs
  <1> QED BY <1>1, <1>3

LEMMA WriteIndexIs ==
    ASSUME ChannelTypes, NEW p \in Publishers, WriteIndex(p)
    PROVE  /\ running[p] # Idle /\ Writing(p)
           /\ running[p].todo = <<"index">>
           /\ index' = running[p].ix \cup {running[p].m}
           /\ running' \in Sets /\ running'[p] = Idle
           /\ \A q \in Publishers \ {p} : running'[q] = running[q]
           /\ UNCHANGED <<manifests, payloads, sigs, withdrawn, withdrawnSigs, damaged, unheld>>
  <1>1. running[p].todo # <<>> /\ Head(running[p].todo) = "index" /\ Done(p)
    BY DEF WriteIndex
  <1>2. GoesOn(p)
    BY <1>1, GoesOnIs
  <1>3. running[p].todo = <<"index">> /\ Len(running[p].todo) = 1
    BY <1>1, <1>2, TodoStep DEF GoesOn, Writing
  <1>4. index' = running[p].ix \cup {running[p].m}
    BY DEF WriteIndex, NewIndex
  <1>5. UNCHANGED <<manifests, payloads, sigs, withdrawn, withdrawnSigs, damaged, unheld>>
    BY DEF WriteIndex
  <1> QED BY <1>2, <1>3, <1>4, <1>5 DEF GoesOn

LEMMA StopIs ==
    ASSUME ChannelTypes, NEW p \in Publishers, Stop(p)
    PROVE  /\ running' \in Sets /\ running'[p] = Idle
           /\ \A q \in Publishers \ {p} : running'[q] = running[q]
           /\ UNCHANGED <<index, manifests, payloads, sigs, withdrawn, withdrawnSigs, damaged, unheld>>
  <1>1. running' = [running EXCEPT ![p] = Idle]
    BY DEF Stop
  <1>2. Idle \in [todo : Todos \cup {<<>>}, m : Manifest \cup {Nothing}, ix : SUBSET Manifest]
    BY DEF Idle
  <1>3. UNCHANGED <<index, manifests, payloads, sigs, withdrawn, withdrawnSigs, damaged, unheld>>
    BY DEF Stop, disk, history
  <1>4. running' \in Sets /\ running'[p] = Idle /\ \A q \in Publishers \ {p} : running'[q] = running[q]
    BY <1>1, <1>2 DEF ChannelTypes, Sets
  <1> QED BY <1>3, <1>4
-----------------------------------------------------------------------------
(* The variables of the channel hold what they should after each step.     *)
Disk ==
    /\ index \subseteq Manifest /\ IsFiniteSet(index) /\ Bounded(index)
    /\ manifests \in [Manifest -> States] /\ payloads \in [Drawers -> States]
    /\ sigs \in [Manifest -> Keys \cup States]
    /\ withdrawn \subseteq Manifest /\ withdrawnSigs \in [Manifest -> Keys \cup States]

LEMMA DiskSame ==
    ASSUME Disk, UNCHANGED <<index, manifests, payloads, sigs, withdrawn, withdrawnSigs>>
    PROVE  Disk'
  BY DEF Disk, Bounded

LEMMA OthersSame ==
    ASSUME ChannelTypes, running' \in Sets, NEW p \in Publishers, running'[p] = Idle \/ Writing(p)',
           \A q \in Publishers \ {p} : running'[q] = running[q]
    PROVE  \A q \in Publishers : running'[q] = Idle \/ Writing(q)'
  <1>1. \A q \in Publishers \ {p} : Writing(q) => Writing(q)'
    BY DEF Writing, Bounded
  <1> QED BY <1>1 DEF ChannelTypes

LEMMA TypesFrom ==
    ASSUME Disk', running' \in Sets, \A q \in Publishers : running'[q] = Idle \/ Writing(q)', unheld' \in BOOLEAN
    PROVE  ChannelTypes'
  BY DEF Disk, Sets, ChannelTypes, Writing, Bounded

LEMMA PutTypes ==
    ASSUME ChannelTypes, NEW p \in Publishers, Writing(p), NEW o \in Objects, Put(p, o), index' = index
    PROVE  Disk'
  <1>1. PICK m \in Manifest : m = running[p].m
    BY DEF Writing
  <1>2. KeyOf[p] \in Keys /\ m.files \in Drawers /\ Good \in States
    BY Constants DEF States
  <1>3. /\ manifests' = IF o = "manifest" THEN [manifests EXCEPT ![m] = Good] ELSE manifests
        /\ payloads' = IF o = "payload" THEN [payloads EXCEPT ![m.files] = Good] ELSE payloads
        /\ sigs' = IF o = "sig" THEN [sigs EXCEPT ![m] = KeyOf[p]] ELSE sigs
        /\ withdrawn' = IF o = "withdrawn" THEN withdrawn \cup {m} ELSE withdrawn
        /\ withdrawnSigs' = IF o = "withdrawn.sig"
                            THEN [withdrawnSigs EXCEPT ![m] = KeyOf[p]] ELSE withdrawnSigs
    BY <1>1 DEF Put
  <1>4. manifests' \in [Manifest -> States] /\ payloads' \in [Drawers -> States]
    BY <1>2, <1>3 DEF ChannelTypes
  <1>5. sigs' \in [Manifest -> Keys \cup States] /\ withdrawnSigs' \in [Manifest -> Keys \cup States]
    BY <1>2, <1>3 DEF ChannelTypes
  <1>6. withdrawn' \subseteq Manifest
    BY <1>3 DEF ChannelTypes
  <1> QED BY <1>4, <1>5, <1>6 DEF Disk, ChannelTypes, Bounded

LEMMA ChannelTypesKept ==
    ASSUME ChannelTypes, ChannelNext
    PROVE  ChannelTypes'
  <1>d. Disk
    BY DEF ChannelTypes, Disk
  <1>b. ASSUME NEW p \in Publishers, NEW t, NEW m, BeginsWith(p, t, m), unheld' \in BOOLEAN
        PROVE  ChannelTypes'
    <2>1. Disk'
      BY <1>d, <1>b, DiskSame DEF BeginsWith
    <2>2. \A q \in Publishers : running'[q] = Idle \/ Writing(q)'
      BY <1>b, OthersSame DEF BeginsWith
    <2> QED BY <2>1, <2>2, <1>b, TypesFrom DEF BeginsWith
  <1>1. ASSUME NEW p \in Publishers, NEW a \in Arguments, Publish(p, a)
        PROVE  ChannelTypes'
    BY <1>1, <1>b, PublishIs
  <1>2. ASSUME NEW p \in Publishers, NEW a \in Arguments, Republish(p, a)
        PROVE  ChannelTypes'
    <2>1. unheld' \in BOOLEAN
      BY <1>2, RepublishIs DEF ChannelTypes
    <2> QED BY <2>1, <1>2, <1>b, RepublishIs
  <1>3. ASSUME NEW p \in Publishers, NEW m \in index, Withdraw(p, m)
        PROVE  ChannelTypes'
    <2>1. unheld' \in BOOLEAN
      BY <1>3, WithdrawIs DEF ChannelTypes
    <2> QED BY <2>1, <1>3, <1>b, WithdrawIs
  <1>4. ASSUME NEW p \in Publishers, WriteObject(p)
        PROVE  ChannelTypes'
    <2>1. GoesOn(p) /\ index' = index /\ unheld' = unheld
      BY <1>4, WriteObjectIs
    <2>2. Disk'
      <3>1. PICK o \in Objects : Put(p, o)
        BY <1>4, WriteObjectIs
      <3> QED BY <2>1, <3>1, PutTypes DEF GoesOn
    <2>3. running'[p] = Idle \/ Writing(p)'
      BY <2>1 DEF GoesOn
    <2>4. \A q \in Publishers : running'[q] = Idle \/ Writing(q)'
      BY <2>1, <2>3, OthersSame DEF GoesOn
    <2>5. unheld' \in BOOLEAN
      BY <2>1 DEF ChannelTypes
    <2> QED BY <2>1, <2>2, <2>4, <2>5, TypesFrom DEF GoesOn
  <1>5. ASSUME NEW p \in Publishers, WriteIndex(p)
        PROVE  ChannelTypes'
    <2>1. /\ Writing(p) /\ index' = running[p].ix \cup {running[p].m} /\ running' \in Sets /\ running'[p] = Idle
          /\ \A q \in Publishers \ {p} : running'[q] = running[q]
          /\ UNCHANGED <<manifests, payloads, sigs, withdrawn, withdrawnSigs, unheld>>
      BY <1>5, WriteIndexIs
    <2>2. index' \subseteq Manifest /\ IsFiniteSet(index')
      BY <2>1, FS_AddElement DEF Writing
    <2>3. PICK S : S = running[p].ix \cup {running[p].m}
      OBVIOUS
    <2>4. Bounded(S)
      BY <2>1, <2>3, BoundedMore DEF Writing
    <2>5. Disk'
      BY <1>d, <2>1, <2>2, <2>3, <2>4 DEF Disk, Bounded
    <2>6. \A q \in Publishers : running'[q] = Idle \/ Writing(q)'
      BY <2>1, OthersSame
    <2>7. unheld' \in BOOLEAN
      BY <2>1 DEF ChannelTypes
    <2> QED BY <2>1, <2>5, <2>6, <2>7, TypesFrom
  <1>6. ASSUME NEW p \in Publishers, Stop(p)
        PROVE  ChannelTypes'
    <2>1. /\ running' \in Sets /\ running'[p] = Idle
          /\ \A q \in Publishers \ {p} : running'[q] = running[q]
          /\ UNCHANGED <<index, manifests, payloads, sigs, withdrawn, withdrawnSigs, unheld>>
      BY <1>6, StopIs
    <2>2. Disk'
      BY <1>d, <2>1, DiskSame
    <2>3. \A q \in Publishers : running'[q] = Idle \/ Writing(q)'
      BY <2>1, OthersSame
    <2>4. unheld' \in BOOLEAN
      BY <2>1 DEF ChannelTypes
    <2> QED BY <2>1, <2>2, <2>3, <2>4, TypesFrom
  <1>7. ASSUME NEW m \in index, NEW o \in {"manifest", "payload", "sig"}, Damage(o, m)
        PROVE  ChannelTypes'
    <2>1. m \in Manifest /\ m.files \in Drawers /\ Bad \in States
      BY Constants DEF ChannelTypes, States
    <2>2. /\ manifests' = IF o = "manifest" THEN [manifests EXCEPT ![m] = Bad] ELSE manifests
          /\ payloads' = IF o = "payload" THEN [payloads EXCEPT ![m.files] = Bad] ELSE payloads
          /\ sigs' = IF o = "sig" THEN [sigs EXCEPT ![m] = Bad] ELSE sigs
          /\ UNCHANGED <<index, withdrawn, withdrawnSigs, running, unheld>>
      BY <1>7 DEF Damage
    <2>3. manifests' \in [Manifest -> States] /\ payloads' \in [Drawers -> States]
      BY <2>1, <2>2 DEF ChannelTypes
    <2>4. sigs' \in [Manifest -> Keys \cup States]
      BY <2>1, <2>2 DEF ChannelTypes
    <2>5. Disk'
      BY <1>d, <2>2, <2>3, <2>4 DEF Disk, Bounded
    <2>6. \A q \in Publishers : running'[q] = Idle \/ Writing(q)'
      BY <2>2 DEF ChannelTypes, Writing, Bounded
    <2>7. running' \in Sets /\ unheld' \in BOOLEAN
      BY <2>2 DEF ChannelTypes, Sets
    <2> QED BY <2>5, <2>6, <2>7, TypesFrom
  <1> QED BY <1>1, <1>2, <1>3, <1>4, <1>5, <1>6, <1>7 DEF ChannelNext

LEMMA ChannelTypesSame ==
    ASSUME ChannelTypes, UNCHANGED channelVars
    PROVE  ChannelTypes'
  <1>1. UNCHANGED <<index, manifests, payloads, sigs, withdrawn, withdrawnSigs, running, unheld>>
    BY DEF channelVars, disk, history
  <1> QED BY <1>1 DEF ChannelTypes, Writing, Bounded

LEMMA ChannelTypesInit ==
    ASSUME ChannelInit
    PROVE  ChannelTypes
  <1>1. Missing \in States /\ Missing \in Keys \cup States
    BY DEF States
  <1>2. Idle \in [todo : Todos \cup {<<>>}, m : Manifest \cup {Nothing}, ix : SUBSET Manifest]
    BY DEF Idle
  <1>3. IsFiniteSet({}) /\ Bounded({})
    BY FS_EmptySet DEF Bounded
  <1> QED BY <1>1, <1>2, <1>3 DEF ChannelInit, ChannelTypes
-----------------------------------------------------------------------------
(* What is there of a version, and of the one a command publishes: what    *)
(* comes before, in the order of its writes, than what it has still to     *)
(* write.                                                                  *)
There(m) ==
    /\ manifests[m] = Good \/ Name("manifest", m) \in damaged
    /\ payloads[m.files] = Good \/ Name("payload", m) \in damaged
    /\ sigs[m] \in Keys \/ Name("sig", m) \in damaged

Written(p) ==
    LET t == running[p].todo  m == running[p].m
    IN /\ t \in {<<"manifest", "sig", "index">>, <<"sig", "index">>, <<"index">>} =>
            payloads[m.files] = Good
       /\ t \in {<<"sig", "index">>, <<"index">>} => manifests[m] = Good
       /\ t = <<"index">> => sigs[m] \in Keys

Serving ==
    /\ \A m \in index : There(m)
    /\ \A p \in Publishers : \A m \in running[p].ix : There(m)
    /\ \A p \in Publishers : Written(p)

(* The names of objects are apart, but for the payload of the same files.  *)
LEMMA NamesApart ==
    ASSUME NEW o \in Objects, NEW n \in Manifest, NEW m \in Manifest
    PROVE  /\ Name(o, n) = Name("manifest", m) => o = "manifest" /\ n = m
           /\ Name(o, n) = Name("sig", m) => o = "sig" /\ n = m
           /\ Name(o, n) = Name("payload", m) => o = "payload" /\ n.files = m.files
  <1>1. \A x, y : [files |-> x] = [files |-> y] => x = y
    <2>1. ASSUME NEW x, NEW y, [files |-> x] = [files |-> y]
          PROVE  x = y
      <3>1. [files |-> x].files = x /\ [files |-> y].files = y
        OBVIOUS
      <3> QED BY <2>1, <3>1
    <2> QED BY <2>1
  <1>2. \A a, b, c, d : <<a, b>> = <<c, d>> => a = c /\ b = d
    OBVIOUS
  <1> QED BY <1>1, <1>2 DEF Name, Objects

LEMMA ServingSame ==
    ASSUME Serving, UNCHANGED <<index, manifests, payloads, sigs, damaged>>,
           \A q \in Publishers : \A m \in running'[q].ix : There(m),
           \A q \in Publishers : \/ running'[q] = running[q]
                                 \/ running'[q].todo \notin {<<"manifest", "sig", "index">>, <<"sig", "index">>, <<"index">>}
    PROVE  Serving'
  <1>1. \A m : There(m) => There(m)'
    BY DEF There
  <1>2. \A q \in Publishers : Written(q)'
    BY DEF Serving, Written
  <1> QED BY <1>1, <1>2 DEF Serving

LEMMA PutServes ==
    ASSUME ChannelTypes, NEW p \in Publishers, Writing(p), NEW o \in Objects, Put(p, o),
           damaged' = damaged \ {Name(o, running[p].m)}
    PROVE  /\ \A n \in Manifest : There(n) => There(n)'
           /\ \A n \in Manifest : /\ manifests[n] = Good => manifests'[n] = Good
                                  /\ sigs[n] \in Keys => sigs'[n] \in Keys
           /\ \A d \in Drawers : payloads[d] = Good => payloads'[d] = Good
           /\ o = "manifest" => manifests'[running[p].m] = Good
           /\ o = "payload" => payloads'[running[p].m.files] = Good
           /\ o = "sig" => sigs'[running[p].m] \in Keys
  <1>1. PICK m \in Manifest : m = running[p].m
    BY DEF Writing
  <1>2. KeyOf[p] \in Keys /\ m.files \in Drawers
    BY Constants
  <1>3. /\ manifests' = IF o = "manifest" THEN [manifests EXCEPT ![m] = Good] ELSE manifests
        /\ payloads' = IF o = "payload" THEN [payloads EXCEPT ![m.files] = Good] ELSE payloads
        /\ sigs' = IF o = "sig" THEN [sigs EXCEPT ![m] = KeyOf[p]] ELSE sigs
    BY <1>1 DEF Put
  <1>4. /\ \A n \in Manifest : manifests[n] = Good => manifests'[n] = Good
        /\ o = "manifest" => manifests'[m] = Good
    BY <1>3 DEF ChannelTypes
  <1>5. /\ \A d \in Drawers : payloads[d] = Good => payloads'[d] = Good
        /\ o = "payload" => payloads'[m.files] = Good
    BY <1>2, <1>3 DEF ChannelTypes
  <1>6. /\ \A n \in Manifest : sigs[n] \in Keys => sigs'[n] \in Keys
        /\ o = "sig" => sigs'[m] \in Keys
    BY <1>2, <1>3 DEF ChannelTypes
  <1>7. ASSUME NEW n \in Manifest, There(n)
        PROVE  There(n)'
    <2>1. n.files \in Drawers
      BY Constants
    <2>2. damaged' = damaged \ {Name(o, m)}
      BY <1>1
    <2>3. (manifests[n] = Good \/ Name("manifest", n) \in damaged)'
      <3>1. CASE Name(o, m) = Name("manifest", n)
        BY <1>4, <3>1, NamesApart
      <3>2. CASE Name(o, m) # Name("manifest", n)
        BY <1>4, <1>7, <2>2, <3>2 DEF There, Name
      <3> QED BY <3>1, <3>2
    <2>4. (payloads[n.files] = Good \/ Name("payload", n) \in damaged)'
      <3>1. CASE Name(o, m) = Name("payload", n)
        BY <1>5, <3>1, NamesApart
      <3>2. CASE Name(o, m) # Name("payload", n)
        BY <1>5, <1>7, <2>1, <2>2, <3>2 DEF There, Name
      <3> QED BY <3>1, <3>2
    <2>5. (sigs[n] \in Keys \/ Name("sig", n) \in damaged)'
      <3>1. CASE Name(o, m) = Name("sig", n)
        BY <1>6, <3>1, NamesApart
      <3>2. CASE Name(o, m) # Name("sig", n)
        BY <1>6, <1>7, <2>2, <3>2 DEF There, Name, Keys
      <3> QED BY <3>1, <3>2
    <2> QED BY <2>3, <2>4, <2>5 DEF There
  <1> QED BY <1>1, <1>4, <1>5, <1>6, <1>7

LEMMA ServingKept ==
    ASSUME ChannelTypes, Serving, ChannelNext
    PROVE  Serving'
  <1>b. ASSUME NEW p \in Publishers, NEW t \in {Writes} \cup Repairing \cup Withdrawing, NEW m,
               BeginsWith(p, t, m)
        PROVE  Serving'
    <2>1. t \notin {<<"manifest", "sig", "index">>, <<"sig", "index">>, <<"index">>}
      BY DEF Writes, Repairing, Withdrawing
    <2>2. \A q \in Publishers : \A n \in running'[q].ix : There(n)
      BY <1>b DEF BeginsWith, Serving
    <2>3. \A q \in Publishers : \/ running'[q] = running[q]
                                \/ running'[q].todo = t
      BY <1>b DEF BeginsWith
    <2>4. UNCHANGED <<index, manifests, payloads, sigs, damaged>>
      BY <1>b DEF BeginsWith
    <2> QED BY <2>1, <2>2, <2>3, <2>4, ServingSame
  <1>1. ASSUME NEW p \in Publishers, NEW a \in Arguments, Publish(p, a)
        PROVE  Serving'
    BY <1>1, <1>b, PublishIs
  <1>2. ASSUME NEW p \in Publishers, NEW a \in Arguments, Republish(p, a)
        PROVE  Serving'
    BY <1>2, <1>b, RepublishIs
  <1>3. ASSUME NEW p \in Publishers, NEW m \in index, Withdraw(p, m)
        PROVE  Serving'
    BY <1>3, <1>b, WithdrawIs
  <1>4. ASSUME NEW p \in Publishers, WriteObject(p)
        PROVE  Serving'
    <2>1. GoesOn(p) /\ index' = index
      BY <1>4, WriteObjectIs
    <2>2. PICK o \in Objects : Put(p, o) /\ damaged' = damaged \ {Name(o, running[p].m)}
      BY <1>4, WriteObjectIs
    <2>3. /\ \A n \in Manifest : There(n) => There(n)'
          /\ \A n \in Manifest : /\ manifests[n] = Good => manifests'[n] = Good
                                 /\ sigs[n] \in Keys => sigs'[n] \in Keys
          /\ \A d \in Drawers : payloads[d] = Good => payloads'[d] = Good
          /\ o = "manifest" => manifests'[running[p].m] = Good
          /\ o = "payload" => payloads'[running[p].m.files] = Good
          /\ o = "sig" => sigs'[running[p].m] \in Keys
      BY <2>1, <2>2, PutServes DEF GoesOn
    <2>4. (\A m \in index : There(m))'
      BY <2>1, <2>3 DEF Serving, ChannelTypes
    <2>5. \A q \in Publishers : running'[q].ix \subseteq running[q].ix /\ running[q].ix \subseteq Manifest
      <3>1. \A q \in Publishers : running[q].ix \subseteq Manifest
        BY IdleOrWriting DEF Writing
      <3>2. running'[p].ix \subseteq running[p].ix
        BY <2>1 DEF GoesOn, Idle
      <3> QED BY <2>1, <3>1, <3>2 DEF GoesOn
    <2>6. (\A q \in Publishers : \A m \in running[q].ix : There(m))'
      BY <2>3, <2>5 DEF Serving
    <2>7. ASSUME NEW q \in Publishers
          PROVE  Written(q)'
      <3>1. CASE q # p
        <4>1. running'[q] = running[q]
          BY <2>1, <3>1 DEF GoesOn
        <4>2. CASE running[q] = Idle
          BY <4>1, <4>2 DEF Idle, Written
        <4>3. CASE Writing(q)
          <5>1. running[q].m \in Manifest /\ running[q].m.files \in Drawers
            BY <4>3, Constants DEF Writing
          <5> QED BY <2>3, <4>1, <5>1 DEF Written, Serving
        <4> QED BY <4>2, <4>3 DEF ChannelTypes
      <3>2. CASE q = p
        <4>1. CASE running'[p] = Idle
          BY <3>2, <4>1 DEF Idle, Written
        <4>2. CASE running'[p] # Idle
          <5>1. /\ running[p].m \in Manifest /\ running[p].m.files \in Drawers /\ running[p].todo \in Todos
                /\ Len(running[p].todo) # 1
                /\ running'[p].todo = Tail(running[p].todo) /\ running'[p].m = running[p].m
            BY <2>1, <4>2, Constants DEF GoesOn, Writing
          <5>2. o = Head(running[p].todo)
            BY <2>2 DEF Put
          <5>3. CASE running[p].todo \in Publishing
            <6>1. \/ /\ running[p].todo = <<"payload", "manifest", "sig", "index">>
                     /\ o = "payload" /\ running'[p].todo = <<"manifest", "sig", "index">>
                  \/ /\ running[p].todo = <<"manifest", "sig", "index">>
                     /\ o = "manifest" /\ running'[p].todo = <<"sig", "index">>
                  \/ /\ running[p].todo = <<"sig", "index">>
                     /\ o = "sig" /\ running'[p].todo = <<"index">>
              BY <5>1, <5>2, <5>3, PublishingStep
            <6>2. Written(p)
              BY DEF Serving
            <6>3. CASE running[p].todo = <<"payload", "manifest", "sig", "index">>
              BY <2>3, <5>1, <6>1, <6>3, <3>2 DEF Written
            <6>4. CASE running[p].todo = <<"manifest", "sig", "index">>
              BY <2>3, <5>1, <6>1, <6>2, <6>4, <3>2 DEF Written
            <6>5. CASE running[p].todo = <<"sig", "index">>
              BY <2>3, <5>1, <6>1, <6>2, <6>5, <3>2 DEF Written
            <6> QED BY <6>1, <6>3, <6>4, <6>5
          <5>4. CASE running[p].todo \in Repairing \cup Withdrawing
            <6>1. running'[p].todo \in Repairing \cup Withdrawing
              BY <5>1, <5>4, RepairingStep, WithdrawingStep
            <6>2. running'[p].todo \notin {<<"manifest", "sig", "index">>, <<"sig", "index">>, <<"index">>}
              BY <6>1 DEF Repairing, Withdrawing
            <6> QED BY <3>2, <6>2 DEF Written
          <5> QED BY <5>1, <5>3, <5>4 DEF Todos
        <4> QED BY <4>1, <4>2
      <3> QED BY <3>1, <3>2
    <2> QED BY <2>4, <2>6, <2>7 DEF Serving
  <1>5. ASSUME NEW p \in Publishers, WriteIndex(p)
        PROVE  Serving'
    <2>1. /\ running[p].todo = <<"index">> /\ index' = running[p].ix \cup {running[p].m}
          /\ running'[p] = Idle /\ \A q \in Publishers \ {p} : running'[q] = running[q]
          /\ UNCHANGED <<manifests, payloads, sigs, damaged>>
      BY <1>5, WriteIndexIs
    <2>2. Written(p) /\ \A m \in running[p].ix : There(m)
      BY DEF Serving
    <2>3. There(running[p].m)
      BY <2>1, <2>2 DEF Written, There
    <2>4. \A m : There(m) => There(m)'
      BY <2>1 DEF There
    <2>5. \A q \in Publishers : running'[q] = Idle \/ running'[q] = running[q]
      BY <2>1
    <2>6. Idle.ix = {} /\ Idle.todo = <<>>
      BY DEF Idle
    <2>7. \A q \in Publishers : Written(q)'
      BY <2>1, <2>5, <2>6 DEF Serving, Written
    <2> QED BY <2>1, <2>2, <2>3, <2>4, <2>5, <2>6, <2>7 DEF Serving
  <1>6. ASSUME NEW p \in Publishers, Stop(p)
        PROVE  Serving'
    <2>1. /\ running'[p] = Idle /\ \A q \in Publishers \ {p} : running'[q] = running[q]
          /\ UNCHANGED <<index, manifests, payloads, sigs, damaged>>
      BY <1>6, StopIs
    <2>2. Idle.ix = {} /\ Idle.todo = <<>>
      BY DEF Idle
    <2>3. \A q \in Publishers : \A m \in running'[q].ix : There(m)
      BY <2>1, <2>2 DEF Serving
    <2>4. \A q \in Publishers : \/ running'[q] = running[q]
                                \/ running'[q].todo \notin {<<"manifest", "sig", "index">>, <<"sig", "index">>, <<"index">>}
      BY <2>1, <2>2
    <2> QED BY <2>1, <2>3, <2>4, ServingSame
  <1>7. ASSUME NEW m \in index, NEW o \in {"manifest", "payload", "sig"}, Damage(o, m)
        PROVE  Serving'
    <2>1. m \in Manifest /\ m.files \in Drawers
      BY Constants DEF ChannelTypes
    <2>2. /\ manifests' = IF o = "manifest" THEN [manifests EXCEPT ![m] = Bad] ELSE manifests
          /\ payloads' = IF o = "payload" THEN [payloads EXCEPT ![m.files] = Bad] ELSE payloads
          /\ sigs' = IF o = "sig" THEN [sigs EXCEPT ![m] = Bad] ELSE sigs
          /\ damaged' = damaged \cup {Name(o, m)}
          /\ index' = index /\ running' = running
          /\ \A q \in Publishers : running[q] = Idle
      BY <1>7 DEF Damage
    <2>3. ASSUME NEW n \in index
          PROVE  There(n)'
      <3>1. n \in Manifest /\ n.files \in Drawers /\ There(n)
        BY Constants DEF ChannelTypes, Serving
      <3>2. (manifests[n] = Good \/ Name("manifest", n) \in damaged)'
        BY <2>1, <2>2, <3>1 DEF There, ChannelTypes, Name
      <3>3. (payloads[n.files] = Good \/ Name("payload", n) \in damaged)'
        <4>1. CASE o = "payload" /\ m.files = n.files
          BY <2>2, <4>1 DEF Name
        <4>2. CASE o # "payload" \/ m.files # n.files
          BY <2>1, <2>2, <3>1, <4>2 DEF There, ChannelTypes, Name
        <4> QED BY <4>1, <4>2
      <3>4. (sigs[n] \in Keys \/ Name("sig", n) \in damaged)'
        BY <2>1, <2>2, <3>1 DEF There, ChannelTypes, Name, Keys
      <3> QED BY <3>2, <3>3, <3>4 DEF There
    <2>4. Idle.ix = {} /\ Idle.todo = <<>>
      BY DEF Idle
    <2>5. \A q \in Publishers : running'[q].ix = {} /\ Written(q)'
      BY <2>2, <2>4 DEF Written
    <2> QED BY <2>2, <2>3, <2>5 DEF Serving
  <1> QED BY <1>1, <1>2, <1>3, <1>4, <1>5, <1>6, <1>7 DEF ChannelNext
LEMMA ReadsLeaveChannel ==
    ASSUME Read \/ WriteList
    PROVE  UNCHANGED channelVars
  BY DEF Read, WriteList, Open, Ask, Choose, Refuse, Take

LEMMA StepsOfChannel ==
    ASSUME [Next]_vars
    PROVE  ChannelNext \/ UNCHANGED channelVars
  <1>1. CASE Change
    BY <1>1 DEF Change
  <1>2. CASE Read \/ WriteList
    BY <1>2, ReadsLeaveChannel
  <1>3. CASE UNCHANGED vars
    BY <1>3 DEF vars
  <1> QED BY <1>1, <1>2, <1>3 DEF Next

(* What the variables of the channel hold, whoever runs what.              *)
LEMMA ChannelTypesAlways == Spec => []ChannelTypes
  <1>1. Init => ChannelTypes
    BY ChannelTypesInit DEF Init
  <1>2. ChannelTypes /\ [Next]_vars => ChannelTypes'
    BY StepsOfChannel, ChannelTypesKept, ChannelTypesSame
  <1> QED BY <1>1, <1>2, PTL DEF Spec

(* A reader that sees a line of the index finds the manifest, the payload  *)
(* and a signature of every version of it, unless the disk lost them since:*)
(* a version's files are written before its line (pkg_lib_verbs.c,         *)
(* cmd_publish), however many commands run and wherever each is cut.       *)
THEOREM ServedWholeAlways == Spec => []ServedWhole
  <1>1. Init => Serving
    <2>1. ChannelInit => index = {} /\ \A p \in Publishers : running[p].todo = <<>> /\ running[p].ix = {}
      BY DEF ChannelInit, Idle
    <2> QED BY <2>1 DEF Init, Serving, Written
  <1>2. ChannelTypes /\ Serving /\ [Next]_vars => Serving'
    <2>1. ASSUME Serving, UNCHANGED channelVars
          PROVE  Serving'
      <3>1. UNCHANGED <<index, manifests, payloads, sigs, damaged, running>>
        BY <2>1 DEF channelVars, disk, history
      <3>2. \A q \in Publishers : \A m \in running'[q].ix : There(m)
        BY <2>1, <3>1 DEF Serving
      <3> QED BY <2>1, <3>1, <3>2, ServingSame
    <2> QED BY <2>1, StepsOfChannel, ServingKept
  <1>3. Serving => ServedWhole
    BY DEF Serving, ServedWhole, There
  <1> QED BY <1>1, <1>2, <1>3, ChannelTypesAlways, PTL DEF Spec

-----------------------------------------------------------------------------
(* A channel only one command at a time works on.                          *)
Sole ==
    /\ \A p, q \in Publishers : running[p] # Idle /\ running[q] # Idle => p = q
    /\ \A p \in Publishers : running[p] # Idle =>
          /\ running[p].ix = index
          /\ running[p].todo \in Publishing => \A n \in index : n.ver # running[p].m.ver
          /\ running[p].todo \notin Publishing => running[p].m \in index
    /\ \A m, n \in index : m.ver = n.ver => m = n
    /\ withdrawn \subseteq index
    /\ \A m \in Manifest : withdrawnSigs[m] \in Keys => m \in index

LEMMA SoleKept ==
    ASSUME ChannelTypes, ~Overlap, Sole, ChannelNext
    PROVE  /\ Sole'
           /\ \A m \in index : {n \in index' : n.ver = m.ver} = {m}
  <1>i. index' = index => \A m \in index : {n \in index' : n.ver = m.ver} = {m}
    BY DEF Sole
  <1>b. ASSUME NEW p \in Publishers, NEW t \in Todos, NEW m, BeginsWith(p, t, m),
               t \in Publishing => \A n \in index : n.ver # m.ver, t \notin Publishing => m \in index
        PROVE  Sole' /\ \A n \in index : {k \in index' : k.ver = n.ver} = {n}
    <2>1. /\ \A q \in Publishers \ {p} : running'[q] = Idle
          /\ running'[p].todo = t /\ running'[p].m = m /\ running'[p].ix = index
          /\ UNCHANGED <<index, withdrawn, withdrawnSigs>>
      BY <1>b DEF BeginsWith
    <2>2. Sole'
      BY <1>b, <2>1 DEF Sole
    <2> QED BY <1>i, <2>1, <2>2
  <1>1. ASSUME NEW p \in Publishers, NEW a \in Arguments, Publish(p, a)
        PROVE  Sole' /\ \A n \in index : {k \in index' : k.ver = n.ver} = {n}
    <2>1. BeginsWith(p, Writes, Built(a)) /\ SameVersion(Built(a)) = {}
      BY <1>1, PublishIs
    <2>2. Writes \in Todos /\ Writes \in Publishing
      BY DEF Writes, Todos, Publishing
    <2>3. \A n \in index : n.ver # Built(a).ver
      BY <2>1 DEF SameVersion
    <2> QED BY <2>1, <2>2, <2>3, <1>b
  <1>2. ASSUME NEW p \in Publishers, NEW a \in Arguments, Republish(p, a)
        PROVE  Sole' /\ \A n \in index : {k \in index' : k.ver = n.ver} = {n}
    <2>1. PICK t \in Repairing : BeginsWith(p, t, Built(a))
      BY <1>2, RepublishIs
    <2>2. Built(a) \in index
      BY <1>2, RepublishIs
    <2>3. t \in Todos /\ t \notin Publishing
      BY DEF Todos, Publishing, Repairing
    <2> QED BY <2>1, <2>2, <2>3, <1>b
  <1>3. ASSUME NEW p \in Publishers, NEW m \in index, Withdraw(p, m)
        PROVE  Sole' /\ \A n \in index : {k \in index' : k.ver = n.ver} = {n}
    <2>1. PICK t \in Withdrawing : BeginsWith(p, t, m)
      BY <1>3, WithdrawIs
    <2>2. t \in Todos /\ t \notin Publishing
      BY DEF Todos, Publishing, Withdrawing
    <2> QED BY <2>1, <2>2, <1>b
  <1>4. ASSUME NEW p \in Publishers, WriteObject(p)
        PROVE  Sole' /\ \A n \in index : {k \in index' : k.ver = n.ver} = {n}
    <2>1. GoesOn(p) /\ index' = index
      BY <1>4, WriteObjectIs
    <2>2. PICK o \in Objects : Put(p, o)
      BY <1>4, WriteObjectIs
    <2>3. /\ running[p] # Idle /\ running[p].todo \in Todos /\ running[p].m \in Manifest
          /\ o = Head(running[p].todo)
      BY <2>1, <2>2 DEF GoesOn, Writing, Put
    <2>4. \A q \in Publishers \ {p} : running[q] = Idle /\ running'[q] = Idle
      BY <2>1, <2>3 DEF Sole, GoesOn
    <2>5. running'[p] # Idle =>
            /\ running'[p].ix = running[p].ix /\ running'[p].m = running[p].m
            /\ running'[p].todo \in Publishing <=> running[p].todo \in Publishing
      <3>1. ASSUME running'[p] # Idle
            PROVE  /\ running'[p].ix = running[p].ix /\ running'[p].m = running[p].m
                   /\ running'[p].todo \in Publishing <=> running[p].todo \in Publishing
        <4>1. /\ running'[p].ix = running[p].ix /\ running'[p].m = running[p].m
              /\ running'[p].todo = Tail(running[p].todo) /\ Len(running[p].todo) # 1
          BY <2>1, <3>1 DEF GoesOn
        <4>2. CASE running[p].todo \in Publishing
          BY <4>1, <4>2, <2>3, TodoStep
        <4>3. CASE running[p].todo \in Repairing
          <5>1. running'[p].todo \in Repairing
            BY <4>1, <4>3, <2>3, TodoStep
          <5> QED BY <4>1, <4>3, <5>1, TodosApart
        <4>4. CASE running[p].todo \in Withdrawing
          <5>1. running'[p].todo \in Withdrawing
            BY <4>1, <4>4, <2>3, TodoStep
          <5> QED BY <4>1, <4>4, <5>1, TodosApart
        <4> QED BY <2>3, <4>2, <4>3, <4>4 DEF Todos
      <3> QED BY <3>1
    <2>6. o \in {"withdrawn", "withdrawn.sig"} => running[p].m \in index
      <3>1. o \in {"withdrawn", "withdrawn.sig"} => running[p].todo \notin Publishing
        BY <2>3, PublishingStep
      <3> QED BY <2>3, <3>1 DEF Sole
    <2>7. /\ withdrawn' \subseteq withdrawn \cup {running[p].m}
          /\ o # "withdrawn" => withdrawn' = withdrawn
          /\ o # "withdrawn.sig" => withdrawnSigs' = withdrawnSigs
          /\ \A m \in Manifest : m # running[p].m => withdrawnSigs'[m] = withdrawnSigs[m]
      BY <2>2, <2>3 DEF Put, ChannelTypes
    <2>8. withdrawn' \subseteq index' /\ (\A m \in Manifest : withdrawnSigs[m] \in Keys => m \in index)'
      BY <2>1, <2>6, <2>7 DEF Sole, Keys
    <2>9. (\A q \in Publishers : running[q] # Idle =>
              /\ running[q].ix = index
              /\ running[q].todo \in Publishing => \A n \in index : n.ver # running[q].m.ver
              /\ running[q].todo \notin Publishing => running[q].m \in index)'
      BY <2>1, <2>3, <2>4, <2>5 DEF Sole
    <2>10. Sole'
      BY <2>1, <2>4, <2>8, <2>9 DEF Sole
    <2> QED BY <1>i, <2>1, <2>10
  <1>5. ASSUME NEW p \in Publishers, WriteIndex(p)
        PROVE  Sole' /\ \A n \in index : {k \in index' : k.ver = n.ver} = {n}
    <2>1. /\ running[p] # Idle /\ running[p].todo = <<"index">>
          /\ index' = running[p].ix \cup {running[p].m}
          /\ running'[p] = Idle /\ \A q \in Publishers \ {p} : running'[q] = running[q]
          /\ UNCHANGED <<withdrawn, withdrawnSigs>>
      BY <1>5, WriteIndexIs
    <2>2. running[p].todo \in Publishing
      BY <2>1 DEF Publishing
    <2>3. running[p].ix = index /\ \A n \in index : n.ver # running[p].m.ver
      BY <2>1, <2>2 DEF Sole
    <2>4. index' = index \cup {running[p].m}
      BY <2>1, <2>3
    <2>5. \A q \in Publishers : running'[q] = Idle
      BY <2>1 DEF Sole
    <2>6. \A m, n \in index' : m.ver = n.ver => m = n
      BY <2>3, <2>4 DEF Sole
    <2>7. Sole'
      BY <2>1, <2>4, <2>5, <2>6 DEF Sole, Keys
    <2> QED BY <2>3, <2>4, <2>7 DEF Sole
  <1>6. ASSUME NEW p \in Publishers, Stop(p)
        PROVE  Sole' /\ \A n \in index : {k \in index' : k.ver = n.ver} = {n}
    <2>1. /\ running'[p] = Idle /\ \A q \in Publishers \ {p} : running'[q] = running[q]
          /\ UNCHANGED <<index, withdrawn, withdrawnSigs>>
      BY <1>6, StopIs
    <2>2. Sole'
      BY <2>1 DEF Sole
    <2> QED BY <1>i, <2>1, <2>2
  <1>7. ASSUME NEW m \in index, NEW o \in {"manifest", "payload", "sig"}, Damage(o, m)
        PROVE  Sole' /\ \A n \in index : {k \in index' : k.ver = n.ver} = {n}
    <2>1. UNCHANGED <<index, withdrawn, withdrawnSigs, running>>
      BY <1>7 DEF Damage
    <2>2. Sole'
      BY <2>1 DEF Sole
    <2> QED BY <1>i, <2>1, <2>2
  <1> QED BY <1>1, <1>2, <1>3, <1>4, <1>5, <1>6, <1>7 DEF ChannelNext

LEMMA SoleAlways == ~Overlap /\ Spec => []Sole
  <1>1. ~Overlap /\ Init => Sole
    <2>1. ASSUME Init
          PROVE  Sole
      <3>1. /\ index = {} /\ withdrawn = {} /\ \A p \in Publishers : running[p] = Idle
            /\ \A m \in Manifest : withdrawnSigs[m] = Missing
        BY <2>1 DEF Init, ChannelInit
      <3> QED BY <3>1, Constants DEF Sole, States
    <2> QED BY <2>1
  <1>2. ~Overlap /\ ChannelTypes /\ Sole /\ [Next]_vars => Sole'
    <2>1. Sole /\ UNCHANGED channelVars => Sole'
      BY DEF Sole, channelVars, disk, history
    <2> QED BY <2>1, StepsOfChannel, SoleKept
  <1>3. ~Overlap => []~Overlap
    <2>1. ~Overlap => (~Overlap)'
      OBVIOUS
    <2> QED BY <2>1, PTL
  <1> QED BY <1>1, <1>2, <1>3, ChannelTypesAlways, PTL DEF Spec

(* Where one command at a time runs on a directory, what was published     *)
(* stays in its index and is one thing: the new line is added to the index *)
(* as the command read it, and only for a version that has no line         *)
(* (pkg_lib_verbs.c, cmd_publish).                                         *)
THEOREM PublishedStaysAlways == ~Overlap /\ Spec => PublishedStays
  <1>1. ~Overlap /\ ChannelTypes /\ Sole /\ [Next]_vars
            => [\A m \in index : {n \in index' : n.ver = m.ver} = {m}]_vars
    <2>1. CASE Change
      BY <2>1, SoleKept DEF Change
    <2>2. Sole /\ UNCHANGED index => \A m \in index : {n \in index' : n.ver = m.ver} = {m}
      BY DEF Sole
    <2>3. CASE Read \/ WriteList
      BY <2>2, <2>3, ReadsLeaveChannel DEF channelVars, disk
    <2>4. CASE UNCHANGED vars
      BY <2>4
    <2> QED BY <2>1, <2>3, <2>4 DEF Next
  <1>2. ~Overlap => []~Overlap
    <2>1. ~Overlap => (~Overlap)'
      OBVIOUS
    <2> QED BY <2>1, PTL
  <1> QED BY <1>1, <1>2, ChannelTypesAlways, SoleAlways, PTL DEF Spec, PublishedStays
-----------------------------------------------------------------------------
(* One key: the signatures that can be read of the versions in the index   *)
(* and of their withdrawals are K's, whoever works on the channel has K,   *)
(* and has signed the version whose line it is about to write.             *)
KeyedBy(K) ==
    /\ \A m \in index : sigs[m] \in Keys => sigs[m] = K
    /\ \A m \in index : withdrawnSigs[m] \in Keys => withdrawnSigs[m] = K
    /\ \A p \in Publishers : running[p] # Idle /\ index # {} => KeyOf[p] = K
    /\ \A p \in Publishers : running[p].todo = <<"index">> => sigs[running[p].m] = KeyOf[p]

LEMMA ClaimedIs ==
    ASSUME ChannelTypes, NEW p \in Publishers, NEW m \in index, Claimed(m) = KeyOf[p],
           NEW K, KeyedBy(K)
    PROVE  KeyOf[p] = K
  <1>1. KeyOf[p] # Nothing
    BY Constants
  <1>2. sigs[m] \in Keys /\ sigs[m] = KeyOf[p]
    BY <1>1 DEF Claimed
  <1> QED BY <1>2 DEF KeyedBy

LEMMA HeldToFirst ==
    ASSUME ChannelTypes, NEW p \in Publishers, NEW a \in Arguments, FirstKey(p, a), ~ Unheld(p, a),
           index # {}
    PROVE  Claimed(Lowest(index)) = KeyOf[p] /\ Lowest(index) \in index
  <1>1. Lowest(index) \in index
    BY LowestIn DEF ChannelTypes
  <1>2. a.accept \in BOOLEAN
    BY DEF Arguments
  <1> QED BY <1>1, <1>2 DEF FirstKey, Unheld

LEMMA KeyedKept ==
    ASSUME ChannelTypes, ~Overlap, Sole, NEW K, KeyedBy(K), ~ unheld', ChannelNext
    PROVE  \E L : KeyedBy(L)' /\ (index # {} => L = K)
  <1>b. ASSUME NEW p \in Publishers, NEW t \in {Writes} \cup Repairing \cup Withdrawing, NEW m,
               BeginsWith(p, t, m), index # {} => KeyOf[p] = K
        PROVE  KeyedBy(K)'
    <2>1. t # <<"index">>
      BY DEF Writes, Repairing, Withdrawing
    <2>2. /\ \A q \in Publishers \ {p} : running'[q] = Idle
          /\ running'[p].todo = t /\ UNCHANGED <<index, sigs, withdrawnSigs>>
      BY <1>b DEF BeginsWith
    <2>3. Idle.todo # <<"index">>
      BY DEF Idle
    <2>4. \A q \in Publishers : running'[q].todo # <<"index">>
      BY <2>1, <2>2, <2>3
    <2>5. \A q \in Publishers : running'[q] # Idle => q = p
      BY <2>2
    <2> QED BY <1>b, <2>2, <2>4, <2>5 DEF KeyedBy
  <1>1. ASSUME NEW p \in Publishers, NEW a \in Arguments, Publish(p, a)
        PROVE  KeyedBy(K)'
    <2>1. BeginsWith(p, Writes, Built(a)) /\ FirstKey(p, a) /\ unheld' = (unheld \/ Unheld(p, a))
      BY <1>1, PublishIs
    <2>2. index # {} => KeyOf[p] = K
      BY <2>1, HeldToFirst, ClaimedIs
    <2> QED BY <2>1, <2>2, <1>b
  <1>2. ASSUME NEW p \in Publishers, NEW a \in Arguments, Republish(p, a)
        PROVE  KeyedBy(K)'
    <2>1. PICK t \in Repairing : BeginsWith(p, t, Built(a))
      BY <1>2, RepublishIs
    <2>2. Claimed(Lowest(index)) = KeyOf[p] /\ index # {}
      BY <1>2, RepublishIs
    <2>3. Lowest(index) \in index
      BY <2>2, LowestIn DEF ChannelTypes
    <2>4. KeyOf[p] = K
      BY <2>2, <2>3, ClaimedIs
    <2> QED BY <2>1, <2>4, <1>b
  <1>3. ASSUME NEW p \in Publishers, NEW m \in index, Withdraw(p, m)
        PROVE  KeyedBy(K)'
    <2>1. PICK t \in Withdrawing : BeginsWith(p, t, m)
      BY <1>3, WithdrawIs
    <2>2. KeyOf[p] = K
      BY <1>3, WithdrawIs, ClaimedIs
    <2> QED BY <2>1, <2>2, <1>b
  <1>4. ASSUME NEW p \in Publishers, WriteObject(p)
        PROVE  KeyedBy(K)'
    <2>1. GoesOn(p) /\ index' = index
      BY <1>4, WriteObjectIs
    <2>2. PICK o \in Objects : Put(p, o)
      BY <1>4, WriteObjectIs
    <2>3. /\ running[p] # Idle /\ running[p].todo \in Todos /\ running[p].m \in Manifest
          /\ o = Head(running[p].todo)
      BY <2>1, <2>2 DEF GoesOn, Writing, Put
    <2>4. \A q \in Publishers \ {p} : running[q] = Idle /\ running'[q] = Idle
      BY <2>1, <2>3 DEF Sole, GoesOn
    <2>5. /\ o # "sig" => sigs' = sigs
          /\ o = "sig" => sigs'[running[p].m] = KeyOf[p]
          /\ \A m \in Manifest : m # running[p].m => sigs'[m] = sigs[m]
      BY <2>2, <2>3 DEF Put, ChannelTypes
    <2>6. /\ o # "withdrawn.sig" => withdrawnSigs' = withdrawnSigs
          /\ o = "withdrawn.sig" => withdrawnSigs'[running[p].m] = KeyOf[p]
          /\ \A m \in Manifest : m # running[p].m => withdrawnSigs'[m] = withdrawnSigs[m]
      BY <2>2, <2>3 DEF Put, ChannelTypes
    <2>7. index # {} => KeyOf[p] = K
      BY <2>3 DEF KeyedBy
    <2>8. /\ (\A m \in index : sigs[m] \in Keys => sigs[m] = K)'
          /\ (\A m \in index : withdrawnSigs[m] \in Keys => withdrawnSigs[m] = K)'
      BY <2>1, <2>5, <2>6, <2>7 DEF KeyedBy, ChannelTypes, Keys
    <2>9. Idle.todo # <<"index">>
      BY DEF Idle
    <2>10. running'[p].todo = <<"index">> => o = "sig" /\ running'[p].m = running[p].m
      <3>1. ASSUME running'[p].todo = <<"index">>
            PROVE  o = "sig" /\ running'[p].m = running[p].m
        <4>1. running'[p] # Idle
          BY <3>1, <2>9
        <4>2. /\ running'[p].m = running[p].m /\ Len(running[p].todo) # 1
              /\ Tail(running[p].todo) = <<"index">>
          BY <4>1, <3>1, <2>1 DEF GoesOn
        <4>3. CASE running[p].todo \in Publishing
          BY <4>2, <4>3, <2>3, PublishingStep
        <4>4. CASE running[p].todo \in Repairing \cup Withdrawing
          <5>1. Tail(running[p].todo) \in Repairing \cup Withdrawing
            BY <4>2, <4>4, RepairingStep, WithdrawingStep
          <5> QED BY <4>2, <5>1 DEF Repairing, Withdrawing
        <4> QED BY <4>3, <4>4, <2>3 DEF Todos
      <3> QED BY <3>1
    <2>11. (\A q \in Publishers : running[q].todo = <<"index">> => sigs[running[q].m] = KeyOf[q])'
      BY <2>4, <2>5, <2>9, <2>10
    <2>12. (\A q \in Publishers : running[q] # Idle /\ index # {} => KeyOf[q] = K)'
      BY <2>1, <2>4, <2>7 DEF Idle
    <2> QED BY <2>8, <2>11, <2>12 DEF KeyedBy
  <1>5. ASSUME NEW p \in Publishers, WriteIndex(p)
        PROVE  \E L : KeyedBy(L)' /\ (index # {} => L = K)
    <2>1. /\ running[p] # Idle /\ running[p].todo = <<"index">> /\ running[p].m \in Manifest
          /\ index' = running[p].ix \cup {running[p].m}
          /\ running'[p] = Idle /\ \A q \in Publishers \ {p} : running'[q] = running[q]
          /\ UNCHANGED <<sigs, withdrawn, withdrawnSigs>>
      BY <1>5, WriteIndexIs DEF Writing
    <2>2. running[p].todo \in Publishing
      BY <2>1 DEF Publishing
    <2>3. index' = index \cup {running[p].m} /\ running[p].m \notin index
      BY <2>1, <2>2 DEF Sole
    <2>4. \A q \in Publishers : running'[q] = Idle
      BY <2>1 DEF Sole
    <2>5. withdrawnSigs[running[p].m] \notin Keys /\ sigs[running[p].m] = KeyOf[p]
      BY <2>1, <2>3 DEF Sole, KeyedBy
    <2>6. Idle.todo # <<"index">>
      BY DEF Idle
    <2>7. index # {} => KeyOf[p] = K
      BY <2>1 DEF KeyedBy
    <2>8. PICK L : L = KeyOf[p]
      OBVIOUS
    <2>9. \A m \in index : /\ sigs[m] \in Keys => sigs[m] = L
                           /\ withdrawnSigs[m] \in Keys => withdrawnSigs[m] = L
      BY <2>7, <2>8 DEF KeyedBy
    <2>10. /\ (\A m \in index : sigs[m] \in Keys => sigs[m] = L)'
           /\ (\A m \in index : withdrawnSigs[m] \in Keys => withdrawnSigs[m] = L)'
      BY <2>1, <2>3, <2>5, <2>8, <2>9 DEF Keys
    <2>11. \A q \in Publishers : running'[q].todo # <<"index">>
      BY <2>4, <2>6
    <2>12. (\A q \in Publishers : running[q] # Idle /\ index # {} => KeyOf[q] = L)'
      BY <2>4 DEF Idle
    <2>13. KeyedBy(L)'
      BY <2>10, <2>11, <2>12 DEF KeyedBy
    <2> QED BY <2>7, <2>8, <2>13
  <1>6. ASSUME NEW p \in Publishers, Stop(p)
        PROVE  KeyedBy(K)'
    <2>1. /\ running'[p] = Idle /\ \A q \in Publishers \ {p} : running'[q] = running[q]
          /\ UNCHANGED <<index, sigs, withdrawnSigs>>
      BY <1>6, StopIs
    <2>2. Idle.todo # <<"index">>
      BY DEF Idle
    <2>3. \A q \in Publishers : running'[q] = Idle \/ running'[q] = running[q]
      BY <2>1
    <2> QED BY <2>1, <2>2, <2>3 DEF KeyedBy, Idle
  <1>7. ASSUME NEW m \in index, NEW o \in {"manifest", "payload", "sig"}, Damage(o, m)
        PROVE  KeyedBy(K)'
    <2>1. m \in Manifest /\ Bad \notin Keys
      BY Constants DEF ChannelTypes, States
    <2>2. /\ sigs' = IF o = "sig" THEN [sigs EXCEPT ![m] = Bad] ELSE sigs
          /\ UNCHANGED <<index, withdrawnSigs, running>>
          /\ \A q \in Publishers : running[q] = Idle
      BY <1>7 DEF Damage
    <2>3. \A n \in Manifest : sigs'[n] = sigs[n] \/ sigs'[n] = Bad
      BY <2>1, <2>2 DEF ChannelTypes
    <2>4. Idle.todo # <<"index">>
      BY DEF Idle
    <2>5. (\A n \in index : sigs[n] \in Keys => sigs[n] = K)'
      BY <2>1, <2>2, <2>3 DEF KeyedBy, ChannelTypes, Keys
    <2> QED BY <2>2, <2>4, <2>5 DEF KeyedBy, Keys, Idle
  <1> QED BY <1>1, <1>2, <1>3, <1>4, <1>5, <1>6, <1>7 DEF ChannelNext

LEMMA UnheldStays ==
    ASSUME ChannelTypes, ChannelNext
    PROVE  unheld => unheld'
  <1>1. \A p \in Publishers, a \in Arguments : Publish(p, a) => (unheld => unheld')
    BY PublishIs
  <1>2. \A p \in Publishers : WriteObject(p) => (unheld => unheld')
    BY DEF WriteObject
  <1>3. \A p \in Publishers : WriteIndex(p) \/ Stop(p) => (unheld => unheld')
    BY DEF WriteIndex, Stop, history
  <1>4. \A p \in Publishers, a \in Arguments : Republish(p, a) => (unheld => unheld')
    BY DEF Republish, history
  <1>5. \A p \in Publishers, m \in index : Withdraw(p, m) => (unheld => unheld')
    BY DEF Withdraw, history
  <1>6. \A m \in index, o \in {"manifest", "payload", "sig"} : Damage(o, m) => (unheld => unheld')
    BY DEF Damage
  <1> QED BY <1>1, <1>2, <1>3, <1>4, <1>5, <1>6 DEF ChannelNext
-----------------------------------------------------------------------------
(* The reader: the entries it chooses from, and what a request brings.     *)
LEMMA BestIn ==
    ASSUME NEW ix, NEW n \in Nat, DOMAIN ix = 1 .. n, \A i \in DOMAIN ix : ix[i].ver \in Nat,
           \A i, j \in DOMAIN ix : i < j /\ ix[i].ch = ix[j].ch => ix[i].ver <= ix[j].ver,
           NEW c, NEW asked, NEW gone
    PROVE  LET b == Best(ix, c, asked, gone, Nothing)
           IN b = 0 \/ (b \in DOMAIN ix /\ ix[b].ch = c)
  <1> DEFINE offered == Offered(ix, c, asked, gone, Nothing)
             top == {i \in offered : \A j \in offered : ix[j].ver <= ix[i].ver}
  <1>1. offered \in SUBSET Nat /\ offered \subseteq DOMAIN ix /\ \A i \in offered : i <= n /\ ix[i].ch = c
    BY DEF Offered
  <1>2. CASE offered = {}
    BY <1>2 DEF Best
  <1>3. CASE offered # {} /\ asked # Nothing
    <2>1. \E i \in offered : \A j \in offered : j <= i
      BY <1>1, <1>3, Greatest
    <2> DEFINE b == CHOOSE i \in offered : \A j \in offered : j <= i
    <2>2. b \in offered
      BY <2>1
    <2>3. Best(ix, c, asked, gone, Nothing) = b
      BY <1>3 DEF Best
    <2> QED BY <1>1, <2>2, <2>3
  <1>4. CASE offered # {} /\ asked = Nothing
    <2>1. PICK i \in offered : \A j \in offered : j <= i
      BY <1>1, <1>4, Greatest
    <2>2. ASSUME NEW j \in offered
          PROVE  ix[j].ver <= ix[i].ver
      <3>1. j = i \/ j < i
        BY <1>1, <2>1
      <3>2. ix[j].ver \in Nat
        BY <1>1
      <3> QED BY <1>1, <3>1, <3>2
    <2>3. i \in top
      BY <2>2
    <2>4. top \in SUBSET Nat /\ top # {} /\ top \subseteq offered
      BY <1>1, <2>3
    <2> HIDE DEF top
    <2>5. \E k \in top : \A j \in top : k <= j
      BY <2>4, Least
    <2> DEFINE b == CHOOSE k \in top : \A j \in top : k <= j
    <2>6. b \in top
      BY <2>5
    <2>7. Best(ix, c, asked, gone, Nothing) = b
      BY <1>4 DEF Best, top
    <2> QED BY <1>1, <2>4, <2>6, <2>7
  <1> QED BY <1>2, <1>3, <1>4

LEMMA PickIn ==
    ASSUME NEW ix, NEW best \in [1 .. 2 -> DOMAIN ix \cup {0}], \A i \in DOMAIN ix : ix[i].ver \in Nat,
           NEW claims, NEW pin
    PROVE  Pick(ix, best, claims, pin) \in DOMAIN ix \cup {0}
  <1> DEFINE some == Candidates(best, claims, pin)
  <1>1. some \subseteq {1, 2} /\ \A c \in some : best[c] \in DOMAIN ix /\ ix[best[c]].ver \in Nat
    BY DEF Candidates
  <1> HIDE DEF some
  <1>2. CASE some = {}
    BY <1>2 DEF Pick, Winner, some
  <1>3. CASE some # {}
    <2> DEFINE Wins(c) == \A d \in some : \/ ix[best[d]].ver < ix[best[c]].ver
                                          \/ ix[best[d]].ver = ix[best[c]].ver /\ c <= d
    <2>1. \E c \in some : Wins(c)
      <3>1. CASE some = {1}
        BY <1>1, <3>1
      <3>2. CASE some = {2}
        BY <1>1, <3>2
      <3>3. CASE some = {1, 2}
        <4>1. CASE ix[best[1]].ver < ix[best[2]].ver
          BY <1>1, <3>3, <4>1
        <4>2. CASE ~ (ix[best[1]].ver < ix[best[2]].ver)
          BY <1>1, <3>3, <4>2
        <4> QED BY <4>1, <4>2
      <3> QED BY <1>1, <1>3, <3>1, <3>2, <3>3
    <2> DEFINE w == CHOOSE c \in some : Wins(c)
    <2>2. w \in some
      BY <2>1
    <2>3. Winner(ix, best, some) = best[w]
      BY <1>3 DEF Winner
    <2> QED BY <1>1, <2>2, <2>3 DEF Pick, some
  <1> QED BY <1>2, <1>3

LEMMA AnswerIs ==
    ASSUME NEW v, NEW r \in Answers(v)
    PROVE  \/ r.got = v /\ r.fault = 0
           \/ r.got = Missing /\ r.fault = 1 /\ via # "directory"
  BY DEF Answers

LEMMA ObjectIs ==
    ASSUME NEW v, NEW copy, NEW r \in Object(v, copy)
    PROVE  \/ via # "directory" /\ copy # Missing /\ r.got = copy /\ r.fault = 0
           \/ (via = "directory" \/ copy = Missing) /\ r.got = v /\ r.fault = 0
           \/ via # "directory" /\ copy = Missing /\ r.got = Missing /\ r.fault = 1
  <1>1. CASE via # "directory" /\ copy # Missing
    BY <1>1 DEF Object
  <1>2. CASE via = "directory" \/ copy = Missing
    <2>1. r \in Answers(v)
      BY <1>2 DEF Object
    <2> QED BY <1>2, <2>1, AnswerIs
  <1> QED BY <1>1, <1>2

(* What is kept of an answer: the copy there was, or what the channel has. *)
LEMMA KeptIs ==
    ASSUME NEW v, NEW copy, NEW r \in Object(v, copy), via \in {"directory", "portal"}
    PROVE  \/ Kept(copy, r) = copy
           \/ via # "directory" /\ copy = Missing /\ Kept(copy, r) = v
  BY ObjectIs DEF Kept

LEMMA VerdictIs ==
    ASSUME ChannelTypes, NEW e, NEW r \in Verdicts(e), e.m \in Manifest, via \in {"directory", "portal"}
    PROVE  LET copy == cache.sig[e.m]
           IN /\ \/ r.copy = copy
                 \/ via # "directory" /\ copy = Missing /\ r.copy = sigs[e.m]
              /\ IsWithdrawn(e.m) /\ r.fault # 1 =>
                    r.gone \/ (via # "directory" /\ copy # Missing /\ copy # withdrawnSigs[e.m])
              /\ r.gone \in BOOLEAN
  <1> DEFINE m == e.m
             copy == cache.sig[m]
             texts == Answers(IF m \in withdrawn THEN Good ELSE Missing)
             signers == Answers(withdrawnSigs[m])
             No(R) == {[gone |-> FALSE, fault |-> s.fault, copy |-> copy] : s \in R}
             noText == No({s \in texts : s.got # Good})
             noSigner == No({s \in signers : ~ IsKey(s.got)})
             told == {[gone |-> s.got = withdrawnSigs[m], fault |-> s.fault,
                       copy |-> Kept(copy, s)] : s \in Object(sigs[m], copy)}
  <1>1. \/ r \in noText
        \/ m \in withdrawn /\ r \in noSigner
        \/ m \in withdrawn /\ IsKey(withdrawnSigs[m]) /\ r \in told
    BY DEF Verdicts
  <1>2. CASE r \in noText
    <2>1. PICK s \in texts : s.got # Good /\ r = [gone |-> FALSE, fault |-> s.fault, copy |-> copy]
      BY <1>2
    <2>2. IsWithdrawn(m) => m \in withdrawn
      BY DEF IsWithdrawn
    <2>3. IsWithdrawn(m) => s.fault = 1
      BY <2>1, <2>2, AnswerIs
    <2> QED BY <2>1, <2>3
  <1>3. CASE r \in noSigner
    <2>1. PICK s \in signers : ~ IsKey(s.got) /\ r = [gone |-> FALSE, fault |-> s.fault, copy |-> copy]
      BY <1>3
    <2>2. IsWithdrawn(m) => IsKey(withdrawnSigs[m])
      BY DEF IsWithdrawn, IsKey
    <2>3. IsWithdrawn(m) => s.fault = 1
      BY <2>1, <2>2, AnswerIs
    <2> QED BY <2>1, <2>3
  <1>4. CASE r \in told
    <2>1. PICK s \in Object(sigs[m], copy) :
             r = [gone |-> s.got = withdrawnSigs[m], fault |-> s.fault, copy |-> Kept(copy, s)]
      BY <1>4
    <2> HIDE DEF copy, m
    <2>2. r.copy = copy \/ (via # "directory" /\ copy = Missing /\ r.copy = sigs[m])
      BY <2>1, KeptIs
    <2>3. IsWithdrawn(m) => sigs[m] = withdrawnSigs[m]
      <3>1. IsWithdrawn(m) => withdrawnSigs[m] \in Keys /\ withdrawnSigs[m] = Claimed(m)
        BY DEF IsWithdrawn
      <3>2. Claimed(m) = sigs[m] \/ Claimed(m) = Nothing
        BY DEF Claimed
      <3> QED BY <3>1, <3>2, Constants
    <2>4. r.gone = (s.got = withdrawnSigs[m]) /\ r.fault = s.fault
      BY <2>1
    <2>5. IsWithdrawn(m) /\ r.fault # 1 =>
             r.gone \/ (via # "directory" /\ copy # Missing /\ copy # withdrawnSigs[m])
      BY <2>1, <2>3, <2>4, ObjectIs
    <2>6. r.gone \in BOOLEAN
      BY <2>4
    <2> QED BY <2>2, <2>5, <2>6 DEF copy, m
  <1> QED BY <1>1, <1>2, <1>3, <1>4
-----------------------------------------------------------------------------
(* What the variables of the reader hold.                                  *)
Lines == [ch : {1, 2}, ver : Nat, arch : {Generic}, m : Manifest \cup Other]

Commands == [pc : {"idle", "choose", "check"}, asked : Asked \cup {Nothing}, ix : Seq(Lines),
             list : (SUBSET Manifest) \cup {Nothing}, known : SUBSET Lines, gone : SUBSET Lines,
             e : Lines \cup {Nothing}, failed : BOOLEAN, before : SUBSET Manifest]

Caches == [manifest : [Manifest -> States], sig : [Manifest -> Keys \cup States],
           payload : [Drawers -> States]]

Sorted(ix) == \A i, j \in DOMAIN ix : i < j /\ ix[i].ch = ix[j].ch => ix[i].ver <= ix[j].ver

ReaderTypes ==
    /\ via \in {"directory", "portal"} /\ list \subseteq Manifest
    /\ cache \in Caches /\ cmd \in Commands
    /\ Sorted(cmd.ix)
    /\ \A i \in DOMAIN cmd.ix : cmd.ix[i].ch = 1 => cmd.ix[i].m \in index
    /\ cmd.pc = "check" => cmd.e \in Lines /\ (cmd.e.ch = 1 => cmd.e.m \in index)

LEMMA ListingIs ==
    ASSUME NEW M \in SUBSET (Manifest \cup Other), IsFiniteSet(M), NEW ch \in {1, 2},
           NEW s \in Listings(ch, M)
    PROVE  /\ s \in Seq(Lines)
           /\ \A i \in DOMAIN s : s[i].ch = ch /\ s[i].m \in M
           /\ \A i, j \in DOMAIN s : i < j => s[i].ver <= s[j].ver
  <1>1. Cardinality(M) \in Nat
    BY FS_CardinalityType
  <1>2. s \in [1 .. Cardinality(M) -> {Entry(ch, m) : m \in M}]
    BY DEF Listings
  <1>3. \A i, j \in DOMAIN s : i < j => s[i].ver <= s[j].ver
    BY DEF Listings
  <1>4. ASSUME NEW i \in DOMAIN s
        PROVE  s[i] \in Lines /\ s[i].ch = ch /\ s[i].m \in M
    <2>1. PICK m \in M : s[i] = Entry(ch, m)
      BY <1>2
    <2>2. m.ver \in Nat
      <3>1. m \in Manifest => m.ver \in Nat
        BY Constants
      <3>2. m \in Other => m.ver \in Nat
        BY LocalChannelAssumption, ReaderAssumption
      <3> QED BY <3>1, <3>2
    <2> QED BY <2>1, <2>2 DEF Entry, Lines
  <1>5. s \in [1 .. Cardinality(M) -> Lines]
    BY <1>2, <1>4
  <1> QED BY <1>1, <1>3, <1>4, <1>5

LEMMA JoinedIs ==
    ASSUME ChannelTypes, NEW own \in Listings(1, index), NEW others \in {<<>>} \cup Listings(2, Other)
    PROVE  /\ own \o others \in Seq(Lines) /\ Sorted(own \o others)
           /\ \A i \in DOMAIN (own \o others) :
                 (own \o others)[i].ch = 1 => (own \o others)[i].m \in index
  <1>1. /\ own \in Seq(Lines)
        /\ \A i \in DOMAIN own : own[i].ch = 1 /\ own[i].m \in index
        /\ \A i, j \in DOMAIN own : i < j => own[i].ver <= own[j].ver
    BY ListingIs DEF ChannelTypes
  <1>2. /\ others \in Seq(Lines)
        /\ \A i \in DOMAIN others : others[i].ch = 2
        /\ \A i, j \in DOMAIN others : i < j => others[i].ver <= others[j].ver
    <2>1. CASE others = <<>>
      BY <2>1
    <2>2. CASE others \in Listings(2, Other)
      BY <2>2, ListingIs, Constants
    <2> QED BY <2>1, <2>2
  <1>3. PICK ix : ix = own \o others
    OBVIOUS
  <1>4. /\ ix \in Seq(Lines) /\ Len(ix) = Len(own) + Len(others)
        /\ \A i \in 1 .. Len(ix) : ix[i] = IF i <= Len(own) THEN own[i] ELSE others[i - Len(own)]
    BY <1>1, <1>2, <1>3, ConcatProperties
  <1>5. Len(own) \in Nat /\ Len(others) \in Nat /\ DOMAIN own = 1 .. Len(own)
        /\ DOMAIN others = 1 .. Len(others) /\ DOMAIN ix = 1 .. Len(ix)
    BY <1>1, <1>2, <1>4
  <1>6. ASSUME NEW i \in DOMAIN ix
        PROVE  /\ i <= Len(own) => i \in DOMAIN own /\ ix[i] = own[i]
               /\ ~(i <= Len(own)) => i - Len(own) \in DOMAIN others /\ ix[i] = others[i - Len(own)]
    BY <1>4, <1>5
  <1>7. \A i \in DOMAIN ix : ix[i].ch = 1 => ix[i].m \in index
    BY <1>1, <1>2, <1>6
  <1>8. ASSUME NEW i \in DOMAIN ix, NEW j \in DOMAIN ix, i < j, ix[i].ch = ix[j].ch
        PROVE  ix[i].ver <= ix[j].ver
    <2>1. i \in Nat /\ j \in Nat
      BY <1>5
    <2>2. CASE j <= Len(own)
      <3>1. i <= Len(own)
        BY <1>5, <1>8, <2>1, <2>2
      <3>2. i \in DOMAIN own /\ j \in DOMAIN own /\ ix[i] = own[i] /\ ix[j] = own[j]
        BY <1>6, <2>2, <3>1
      <3> QED BY <1>1, <1>8, <3>2
    <2>3. CASE ~(i <= Len(own))
      <3>1. ~(j <= Len(own))
        BY <1>5, <1>8, <2>1, <2>3
      <3>2. /\ i - Len(own) \in DOMAIN others /\ j - Len(own) \in DOMAIN others
            /\ ix[i] = others[i - Len(own)] /\ ix[j] = others[j - Len(own)]
        BY <1>6, <2>3, <3>1
      <3>3. i - Len(own) < j - Len(own)
        BY <1>5, <1>8, <2>1
      <3>4. PICK a, b : a = i - Len(own) /\ b = j - Len(own)
        OBVIOUS
      <3>5. a \in DOMAIN others /\ b \in DOMAIN others /\ a < b /\ ix[i] = others[a] /\ ix[j] = others[b]
        BY <3>2, <3>3, <3>4
      <3>6. others[a].ver <= others[b].ver
        BY <1>2, <3>5
      <3> QED BY <3>5, <3>6
    <2>4. CASE i <= Len(own) /\ ~(j <= Len(own))
      <3>1. ix[i].ch = 1 /\ ix[j].ch = 2
        BY <1>1, <1>2, <1>6, <2>4
      <3>2. ix[i].ch # ix[j].ch
        BY <3>1
      <3> QED BY <1>8, <3>2
    <2> QED BY <2>2, <2>3, <2>4
  <1> QED BY <1>3, <1>4, <1>7, <1>8 DEF Sorted

LEMMA NoCommandTypes ==
    NoCommand \in Commands /\ NoCommand.pc = "idle" /\ NoCommand.ix = <<>> /\ NoCommand.known = {}
    /\ NoCommand.before = {}
  <1>1. <<>> \in Seq(Lines)
    OBVIOUS
  <1> QED BY <1>1 DEF NoCommand, Commands

(* A reader's step fills the cache with what the channel has, and replaces *)
(* nothing there is.                                                       *)
Filled ==
    /\ cache' \in Caches
    /\ \A m \in Manifest :
          \/ cache'.sig[m] = cache.sig[m]
          \/ /\ m \in index /\ via # "directory" /\ cache.sig[m] = Missing
             /\ cache'.sig[m] = sigs[m]

LEMMA FilledOne ==
    ASSUME ChannelTypes, ReaderTypes, NEW m \in index, NEW k,
           \/ k = cache.sig[m]
           \/ (via # "directory" /\ cache.sig[m] = Missing /\ k = sigs[m]),
           cache' = [cache EXCEPT !.sig[m] = k]
    PROVE  Filled
  <1>1. m \in Manifest /\ cache \in Caches /\ sigs[m] \in Keys \cup States
    BY DEF ChannelTypes, ReaderTypes
  <1>2. k \in Keys \cup States
    BY <1>1 DEF Caches
  <1>3. cache' \in Caches /\ \A n \in Manifest : cache'.sig[n] = IF n = m THEN k ELSE cache.sig[n]
    BY <1>1, <1>2 DEF Caches
  <1> QED BY <1>3 DEF Filled
LEMMA NothingFilled ==
    ASSUME ReaderTypes, cache' = cache
    PROVE  Filled
  BY DEF ReaderTypes, Filled

LEMMA WantedIs ==
    ASSUME ReaderTypes, NEW e \in Wanted
    PROVE  e \in Lines /\ e.ch = 1 /\ e.m \in index /\ e \notin cmd.known
  <1>1. /\ e \in (CASE cmd.pc = "check" -> {cmd.e}
                    [] cmd.pc = "choose" /\ cmd.asked = Nothing -> {cmd.ix[i] : i \in DOMAIN cmd.ix}
                    [] OTHER -> {})
        /\ e.ch = 1 /\ e \notin cmd.known
    BY DEF Wanted
  <1>2. cmd.ix \in Seq(Lines)
    BY DEF ReaderTypes, Commands
  <1>3. CASE cmd.pc = "check"
    BY <1>1, <1>3 DEF ReaderTypes
  <1>4. CASE cmd.pc # "check"
    <2>1. \E i \in DOMAIN cmd.ix : e = cmd.ix[i]
      BY <1>1, <1>4
    <2> QED BY <1>1, <1>2, <2>1 DEF ReaderTypes
  <1> QED BY <1>3, <1>4

LEMMA OpenTypes ==
    ASSUME ChannelTypes, ReaderTypes, NEW asked \in Asked \cup {Nothing}, NEW alone \in BOOLEAN,
           Open(asked, alone)
    PROVE  /\ ReaderTypes' /\ Filled
           /\ cmd'.known = {} /\ cmd'.before = Visible /\ cmd'.pc = "choose"
           /\ cmd'.list = Nothing \/ (via = "portal" /\ cmd'.list = list)
           /\ UNCHANGED <<via, list, cache, root>>
  <1>1. PICK r \in Answers(Good), own \in Listings(1, index),
             others \in (IF alone THEN {<<>>} ELSE Listings(2, Other)) :
         /\ used' = [reads |-> used.reads + 1, faults |-> used.faults + r.fault]
         /\ cmd' = [NoCommand EXCEPT
                !.pc = "choose", !.asked = asked, !.failed = r.fault = 1,
                !.ix = own \o others,
                !.list = IF via = "portal" /\ r.got = Good THEN list ELSE Nothing,
                !.before = Visible]
    BY DEF Open
  <1>2. UNCHANGED <<via, list, cache, root, index>>
    BY DEF Open, channelVars, disk
  <1>3. PICK ix : ix = own \o others
    OBVIOUS
  <1>4. ix \in Seq(Lines) /\ Sorted(ix) /\ \A i \in DOMAIN ix : ix[i].ch = 1 => ix[i].m \in index
    BY <1>1, <1>3, JoinedIs
  <1>5. PICK l : l = IF via = "portal" /\ r.got = Good THEN list ELSE Nothing
    OBVIOUS
  <1>6. l = Nothing \/ (via = "portal" /\ l = list)
    BY <1>5
  <1>7. Visible \in SUBSET Manifest
    BY DEF Visible, ChannelTypes
  <1>8. /\ cmd' = [pc |-> "choose", asked |-> asked, ix |-> ix, list |-> l, known |-> {}, gone |-> {},
                   e |-> Nothing, failed |-> (r.fault = 1), before |-> Visible]
    BY <1>1, <1>3, <1>5 DEF NoCommand
  <1>9. cmd' \in Commands
    BY <1>4, <1>6, <1>7, <1>8 DEF Commands, ReaderTypes
  <1>10. /\ cmd'.known = {} /\ cmd'.before = Visible /\ cmd'.pc = "choose" /\ cmd'.ix = ix
         /\ cmd'.list = l
    BY <1>8
  <1>11. Sorted(cmd.ix)'
    BY <1>4, <1>10 DEF Sorted
  <1>12. ReaderTypes'
    BY <1>2, <1>4, <1>9, <1>10, <1>11 DEF ReaderTypes
  <1> QED BY <1>2, <1>6, <1>10, <1>12, NothingFilled

LEMMA AskTypes ==
    ASSUME ChannelTypes, ReaderTypes, Ask
    PROVE  /\ ReaderTypes' /\ Filled
           /\ UNCHANGED <<via, list, root>>
           /\ \E e \in Wanted :
                 /\ cmd'.known = cmd.known \cup {e} /\ cmd.gone \subseteq cmd'.gone
                 /\ cmd'.before = cmd.before /\ cmd'.list = cmd.list /\ cmd'.pc = cmd.pc
                 /\ cmd.failed => cmd'.failed
                 /\ \/ Unlisted(e)
                    \/ \E r \in Verdicts(e) : /\ r.gone => e \in cmd'.gone
                                              /\ r.fault = 1 => cmd'.failed
                                              /\ cache' = [cache EXCEPT !.sig[e.m] = r.copy]
  <1>1. PICK e \in Wanted :
           IF Unlisted(e)
           THEN cmd' = [cmd EXCEPT !.known = @ \cup {e}] /\ UNCHANGED <<cache, used>>
           ELSE \E r \in Verdicts(e) :
                    /\ cmd' = [cmd EXCEPT !.known = @ \cup {e},
                                   !.gone = IF r.gone THEN @ \cup {e} ELSE @,
                                   !.failed = @ \/ r.fault = 1]
                    /\ cache' = [cache EXCEPT !.sig[e.m] = r.copy]
                    /\ Charge(r)
    BY DEF Ask
  <1>2. UNCHANGED <<via, list, root, index>>
    BY DEF Ask, channelVars, disk
  <1>3. e \in Lines /\ e.ch = 1 /\ e.m \in index /\ e.m \in Manifest
    BY WantedIs DEF ChannelTypes
  <1>4. /\ cmd \in Commands /\ cmd.known \in SUBSET Lines /\ cmd.gone \in SUBSET Lines /\ cmd.failed \in BOOLEAN
    BY DEF ReaderTypes, Commands
  <1>5. /\ cmd' \in Commands
        /\ cmd'.known = cmd.known \cup {e} /\ cmd.gone \subseteq cmd'.gone
        /\ cmd'.before = cmd.before /\ cmd'.list = cmd.list /\ cmd'.pc = cmd.pc
        /\ cmd.failed => cmd'.failed
        /\ cmd'.ix = cmd.ix /\ cmd'.e = cmd.e
        /\ \/ Unlisted(e) /\ cache' = cache
           \/ \E r \in Verdicts(e) : /\ r.gone => e \in cmd'.gone
                                     /\ r.fault = 1 => cmd'.failed
                                     /\ cache' = [cache EXCEPT !.sig[e.m] = r.copy]
    <2>1. CASE Unlisted(e)
      <3>1. cmd' = [cmd EXCEPT !.known = cmd.known \cup {e}] /\ cache' = cache
        BY <1>1, <2>1
      <3> QED BY <1>3, <1>4, <2>1, <3>1 DEF Commands
    <2>2. CASE ~ Unlisted(e)
      <3>1. PICK r \in Verdicts(e) :
                    /\ cmd' = [cmd EXCEPT !.known = cmd.known \cup {e},
                                   !.gone = IF r.gone THEN cmd.gone \cup {e} ELSE cmd.gone,
                                   !.failed = cmd.failed \/ r.fault = 1]
                    /\ cache' = [cache EXCEPT !.sig[e.m] = r.copy]
        BY <1>1, <2>2
      <3>2. PICK g : g = IF r.gone THEN cmd.gone \cup {e} ELSE cmd.gone
        OBVIOUS
      <3>3. PICK f \in BOOLEAN : f = (cmd.failed \/ r.fault = 1)
        OBVIOUS
      <3>4. g \in SUBSET Lines /\ cmd.known \cup {e} \in SUBSET Lines /\ cmd.gone \subseteq g
        BY <1>3, <1>4, <3>2
      <3>5. cmd' = [cmd EXCEPT !.known = cmd.known \cup {e}, !.gone = g, !.failed = f]
        BY <3>1, <3>2, <3>3
      <3>6. /\ cmd' \in Commands /\ cmd'.gone = g /\ cmd'.failed = f
            /\ cmd'.known = cmd.known \cup {e}
            /\ cmd'.before = cmd.before /\ cmd'.list = cmd.list /\ cmd'.pc = cmd.pc
            /\ cmd'.ix = cmd.ix /\ cmd'.e = cmd.e
        BY <1>4, <3>4, <3>5 DEF Commands
      <3> QED BY <3>1, <3>2, <3>3, <3>4, <3>6
    <2> QED BY <2>1, <2>2
  <1>6. Filled
    <2>1. CASE cache' = cache
      BY <2>1, NothingFilled
    <2>2. CASE cache' # cache
      <3>1. PICK r \in Verdicts(e) : cache' = [cache EXCEPT !.sig[e.m] = r.copy]
        BY <1>5, <2>2
      <3>2. \/ r.copy = cache.sig[e.m]
            \/ (via # "directory" /\ cache.sig[e.m] = Missing /\ r.copy = sigs[e.m])
        BY <1>3, VerdictIs DEF ReaderTypes
      <3> QED BY <1>3, <3>1, <3>2, FilledOne
    <2> QED BY <2>1, <2>2
  <1>7. Sorted(cmd.ix)'
    BY <1>5 DEF Sorted, ReaderTypes
  <1>8. ReaderTypes'
    BY <1>2, <1>5, <1>6, <1>7 DEF ReaderTypes, Filled
  <1> QED BY <1>2, <1>5, <1>6, <1>8
LEMMA ChooseTypes ==
    ASSUME ChannelTypes, ReaderTypes, Choose
    PROVE  /\ ReaderTypes' /\ Filled
           /\ UNCHANGED <<via, list, root>>
           /\ \/ cmd' = NoCommand
              \/ /\ cmd'.known = cmd.known /\ cmd'.gone = cmd.gone
                 /\ cmd'.before = cmd.before /\ cmd'.list = cmd.list /\ cmd'.pc = "check"
                 /\ cmd.failed => cmd'.failed
  <1> DEFINE best == [c \in 1 .. 2 |-> Best(cmd.ix, c, cmd.asked, cmd.gone, Nothing)]
  <1>1. PICK r \in Claims(best) :
           LET claims == <<IF IsKey(r.got) THEN r.got ELSE Nothing, OtherKey>>
               i == Pick(cmd.ix, best, claims, root.pin)
           IN /\ cmd' = IF i = 0 \/ (root.m # Nothing /\ cmd.ix[i].ver <= root.m.ver)
                        THEN NoCommand
                        ELSE [cmd EXCEPT !.pc = "check", !.e = cmd.ix[i], !.failed = @ \/ r.fault = 1]
              /\ cache' = IF r.got = Nothing THEN cache
                          ELSE [cache EXCEPT !.sig[cmd.ix[best[1]].m] = Kept(@, r)]
              /\ Charge(r)
    BY DEF Choose
  <1>2. UNCHANGED <<via, list, root, index>>
    BY DEF Choose, channelVars, disk
  <1>3. /\ cmd.ix \in Seq(Lines) /\ DOMAIN cmd.ix = 1 .. Len(cmd.ix) /\ Len(cmd.ix) \in Nat
        /\ \A i \in DOMAIN cmd.ix : cmd.ix[i] \in Lines /\ cmd.ix[i].ver \in Nat
        /\ \A i, j \in DOMAIN cmd.ix : i < j /\ cmd.ix[i].ch = cmd.ix[j].ch => cmd.ix[i].ver <= cmd.ix[j].ver
    <2>1. cmd.ix \in Seq(Lines) /\ Sorted(cmd.ix)
      BY DEF ReaderTypes, Commands
    <2>2. DOMAIN cmd.ix = 1 .. Len(cmd.ix) /\ Len(cmd.ix) \in Nat /\ \A i \in DOMAIN cmd.ix : cmd.ix[i] \in Lines
      BY <2>1
    <2>3. \A e \in Lines : e.ver \in Nat
      BY DEF Lines
    <2> QED BY <2>1, <2>2, <2>3 DEF Sorted
  <1>4. ASSUME NEW c \in 1 .. 2
        PROVE  best[c] = 0 \/ (best[c] \in DOMAIN cmd.ix /\ cmd.ix[best[c]].ch = c)
    <2>1. LET b == Best(cmd.ix, c, cmd.asked, cmd.gone, Nothing)
          IN b = 0 \/ (b \in DOMAIN cmd.ix /\ cmd.ix[b].ch = c)
      BY <1>3, BestIn
    <2> QED BY <2>1
  <1>5. best \in [1 .. 2 -> DOMAIN cmd.ix \cup {0}]
    BY <1>4
  <1>6. best[1] # 0 => cmd.ix[best[1]].m \in index
    <2>1. best[1] = 0 \/ (best[1] \in DOMAIN cmd.ix /\ cmd.ix[best[1]].ch = 1)
      BY <1>4
    <2> QED BY <2>1 DEF ReaderTypes
  <1> HIDE DEF best
  <1> DEFINE claims == <<IF IsKey(r.got) THEN r.got ELSE Nothing, OtherKey>>
             i == Pick(cmd.ix, best, claims, root.pin)
  <1>7. i \in DOMAIN cmd.ix \cup {0}
    BY <1>3, <1>5, PickIn
  <1>8. /\ cmd' = IF i = 0 \/ (root.m # Nothing /\ cmd.ix[i].ver <= root.m.ver)
                  THEN NoCommand
                  ELSE [cmd EXCEPT !.pc = "check", !.e = cmd.ix[i], !.failed = @ \/ r.fault = 1]
        /\ cache' = IF r.got = Nothing THEN cache
                    ELSE [cache EXCEPT !.sig[cmd.ix[best[1]].m] = Kept(@, r)]
    BY <1>1
  <1> HIDE DEF i
  <1>9. Filled
    <2>1. CASE r.got = Nothing
      BY <1>8, <2>1, NothingFilled
    <2>2. CASE r.got # Nothing
      <3>1. best[1] # 0 /\ r \in Object(sigs[cmd.ix[best[1]].m], cache.sig[cmd.ix[best[1]].m])
        BY <2>2 DEF Claims
      <3>2. PICK m \in index : m = cmd.ix[best[1]].m
        BY <1>6, <3>1
      <3>3. r \in Object(sigs[m], cache.sig[m])
        BY <3>1, <3>2
      <3>4. cache' = [cache EXCEPT !.sig[m] = Kept(cache.sig[m], r)]
        <4>1. cache' = [cache EXCEPT !.sig[m] = Kept(@, r)]
          BY <1>8, <2>2, <3>2
        <4>2. cache \in Caches /\ m \in Manifest
          BY DEF ReaderTypes, ChannelTypes
        <4> QED BY <4>1, <4>2 DEF Caches
      <3>5. \/ Kept(cache.sig[m], r) = cache.sig[m]
            \/ (via # "directory" /\ cache.sig[m] = Missing /\ Kept(cache.sig[m], r) = sigs[m])
        BY <3>3, KeptIs DEF ReaderTypes
      <3> QED BY <3>4, <3>5, FilledOne
    <2> QED BY <2>1, <2>2
  <1>10. CASE cmd' = NoCommand
    <2>1. Sorted(<<>>)
      BY DEF Sorted
    <2>2. Sorted(cmd.ix)'
      BY <1>10, <2>1, NoCommandTypes DEF Sorted
    <2>3. ReaderTypes'
      BY <1>2, <1>9, <1>10, <2>2, NoCommandTypes DEF ReaderTypes, Filled
    <2> QED BY <1>2, <1>9, <1>10, <2>3
  <1>11. CASE cmd' # NoCommand
    <2>1. i \in DOMAIN cmd.ix /\ cmd.ix[i] \in Lines /\ (cmd.ix[i].ch = 1 => cmd.ix[i].m \in index)
      BY <1>3, <1>7, <1>8, <1>11 DEF ReaderTypes
    <2>2. PICK e : e = cmd.ix[i]
      OBVIOUS
    <2>3. PICK f \in BOOLEAN : f = (cmd.failed \/ r.fault = 1)
      OBVIOUS
    <2>4. cmd' = [cmd EXCEPT !.pc = "check", !.e = e, !.failed = f]
      BY <1>8, <1>11, <2>2, <2>3
    <2>5. cmd \in Commands /\ e \in Lines
      BY <2>1, <2>2 DEF ReaderTypes
    <2>6. /\ cmd' \in Commands /\ cmd'.known = cmd.known /\ cmd'.gone = cmd.gone
          /\ cmd'.before = cmd.before /\ cmd'.list = cmd.list /\ cmd'.pc = "check"
          /\ cmd'.ix = cmd.ix /\ cmd'.e = e /\ cmd'.failed = f
      BY <2>4, <2>5 DEF Commands
    <2>7. Sorted(cmd.ix)'
      BY <2>6 DEF Sorted, ReaderTypes
    <2>8. ReaderTypes'
      BY <1>2, <1>9, <2>1, <2>2, <2>5, <2>6, <2>7 DEF ReaderTypes, Filled
    <2> QED BY <1>2, <1>9, <2>3, <2>6, <2>8
  <1> QED BY <1>10, <1>11

(* The command ends. *)
LEMMA EndTypes ==
    ASSUME ReaderTypes, cmd' = NoCommand, Filled, via' = via, list' \subseteq Manifest
    PROVE  ReaderTypes'
  <1>1. Sorted(<<>>)
    BY DEF Sorted
  <1>2. Sorted(cmd.ix)'
    BY <1>1, NoCommandTypes DEF Sorted
  <1> QED BY <1>2, NoCommandTypes DEF ReaderTypes, Filled

(* The version whose key is presumed the publisher's has a line. *)
LEMMA FirstIs ==
    ASSUME ReaderTypes, cmd.pc = "check", cmd.e.ch = 1
    PROVE  First \in index
  <1> DEFINE own == {i \in DOMAIN cmd.ix : cmd.ix[i].ch = 1}
             low == {i \in own : \A j \in own : j < i => cmd.ix[i].ver < cmd.ix[j].ver}
             oldest == {i \in low : \A j \in own : cmd.ix[i].ver <= cmd.ix[j].ver}
  <1>1. cmd.e.m \in index /\ \A i \in oldest : cmd.ix[i].m \in index
    BY DEF ReaderTypes
  <1>2. First = IF root.pin # Nothing \/ oldest = {} THEN cmd.e.m
                ELSE cmd.ix[CHOOSE i \in oldest : TRUE].m
    BY DEF First
  <1> HIDE DEF oldest
  <1>3. oldest # {} => (CHOOSE i \in oldest : TRUE) \in oldest
    OBVIOUS
  <1> QED BY <1>1, <1>2, <1>3

LEMMA PresumedIs ==
    ASSUME ReaderTypes, NEW m, m = cmd.e.m, NEW first, first # m, NEW o \in Presumed(first)
    PROVE  \/ Kept(cache.sig[first], o) = cache.sig[first]
           \/ /\ via # "directory" /\ cache.sig[first] = Missing
              /\ Kept(cache.sig[first], o) = sigs[first]
  <1>1. o \in Object(sigs[first], cache.sig[first])
    BY DEF Presumed
  <1> QED BY <1>1, KeptIs DEF ReaderTypes

(* What a version of the first channel that is taken, or refused, leaves.  *)
TakeLeaves(m, a, b, c, first, o) ==
    /\ cache' = [manifest |-> [cache.manifest EXCEPT ![m] = Kept(@, a)],
                 sig |-> [n \in Manifest |->
                             IF n = m THEN Kept(cache.sig[n], b)
                             ELSE IF n = first THEN Kept(cache.sig[n], o)
                             ELSE cache.sig[n]],
                 payload |-> IF a.got = Good /\ IsKey(b.got)
                             THEN [cache.payload EXCEPT ![m.files] = Kept(@, c)]
                             ELSE cache.payload]
    /\ root' = root \/ (IsKey(b.got) /\ root' = Placed(m, b.got))

LEMMA TakeIs ==
    ASSUME Take, cmd.e.ch # 2, NEW m, m = cmd.e.m
    PROVE  \E a \in Object(manifests[m], cache.manifest[m]),
              b \in Object(sigs[m], cache.sig[m]),
              c \in Object(payloads[m.files], cache.payload[m.files]),
              first \in {m, First} : \E o \in Presumed(first) : TakeLeaves(m, a, b, c, first, o)
  <1>1. PICK a \in Object(manifests[m], cache.manifest[m]),
             b \in Object(sigs[m], cache.sig[m]),
             c \in Object(payloads[m.files], cache.payload[m.files]) :
             LET signed == a.got = Good /\ IsKey(b.got)
                 whole == signed /\ c.got = Good
                 first == IF whole THEN First ELSE m
             IN \E o \in Presumed(first) :
                 /\ cache' = [manifest |-> [cache.manifest EXCEPT ![m] = Kept(@, a)],
                              sig |-> [n \in Manifest |->
                                          IF n = m THEN Kept(cache.sig[n], b)
                                          ELSE IF n = first THEN Kept(cache.sig[n], o)
                                          ELSE cache.sig[n]],
                              payload |-> IF signed THEN [cache.payload EXCEPT ![m.files] = Kept(@, c)]
                                          ELSE cache.payload]
                 /\ root' = IF whole /\ (IsKey(o.got) => o.got = b.got)
                            THEN Placed(m, b.got) ELSE root
    BY DEF Take
  <1>2. PICK first \in {m, First} :
             first = IF a.got = Good /\ IsKey(b.got) /\ c.got = Good THEN First ELSE m
    OBVIOUS
  <1>3. PICK o \in Presumed(first) : TakeLeaves(m, a, b, c, first, o)
    BY <1>1, <1>2 DEF TakeLeaves
  <1> QED BY <1>3

LEMMA TakeTypes ==
    ASSUME ChannelTypes, ReaderTypes, Take
    PROVE  /\ ReaderTypes' /\ Filled /\ cmd' = NoCommand
           /\ UNCHANGED <<via, list>>
           /\ \/ root' = root
              \/ cmd.e.ch # 1 /\ \E k : root' = Placed(cmd.e.m, k)
              \/ \E b \in Object(sigs[cmd.e.m], cache.sig[cmd.e.m]) :
                    IsKey(b.got) /\ root' = Placed(cmd.e.m, b.got)
  <1>1. /\ cmd.pc = "check" /\ cmd' = NoCommand /\ UNCHANGED <<via, list, index>>
        /\ cmd.e.ch = 2 => root' = Placed(cmd.e.m, OtherKey) /\ cache' = cache
    BY DEF Take, channelVars, disk
  <1>2. cmd.e \in Lines /\ (cmd.e.ch = 1 => cmd.e.m \in index)
    BY <1>1 DEF ReaderTypes
  <1>3. CASE cmd.e.ch = 2
    <2>1. cache' = cache /\ root' = Placed(cmd.e.m, OtherKey)
      BY <1>1, <1>3
    <2>2. Filled
      BY <2>1, NothingFilled
    <2>3. ReaderTypes'
      BY <1>1, <2>2, EndTypes DEF ReaderTypes
    <2>4. cmd.e.ch # 1
      BY <1>3
    <2> QED BY <1>1, <2>1, <2>2, <2>3, <2>4
  <1>4. CASE cmd.e.ch = 1
    <2>1. PICK m \in index : m = cmd.e.m
      BY <1>2, <1>4
    <2>2. m \in Manifest /\ m.files \in Drawers /\ index \subseteq Manifest
      BY Constants DEF ChannelTypes
    <2>3. PICK a \in Object(manifests[m], cache.manifest[m]),
               b \in Object(sigs[m], cache.sig[m]),
               c \in Object(payloads[m.files], cache.payload[m.files]),
               first \in {m, First} : \E o \in Presumed(first) : TakeLeaves(m, a, b, c, first, o)
      <3>1. cmd.e.ch # 2
        BY <1>4
      <3> QED BY <2>1, <3>1, TakeIs
    <2>a. first \in index
      BY <1>1, <1>4, <2>3, FirstIs
    <2>b. PICK o \in Presumed(first) : TakeLeaves(m, a, b, c, first, o)
      BY <2>3
    <2>4. PICK ka, kb, kc, ko : /\ ka = Kept(cache.manifest[m], a) /\ kb = Kept(cache.sig[m], b)
                                /\ kc = Kept(cache.payload[m.files], c)
                                /\ ko = Kept(cache.sig[first], o)
      OBVIOUS
    <2>5. /\ cache \in Caches /\ cache.manifest \in [Manifest -> States] /\ cache.sig \in [Manifest -> Keys \cup States]
          /\ cache.payload \in [Drawers -> States]
      BY DEF ReaderTypes, Caches
    <2>6. /\ ka \in States /\ kc \in States
          /\ \/ kb = cache.sig[m]
             \/ (via # "directory" /\ cache.sig[m] = Missing /\ kb = sigs[m])
      BY <2>2, <2>3, <2>4, <2>5, KeptIs DEF ReaderTypes, ChannelTypes
    <2>c. first # m =>
             \/ ko = cache.sig[first]
             \/ (via # "directory" /\ cache.sig[first] = Missing /\ ko = sigs[first])
      BY <2>1, <2>b, <2>4, PresumedIs
    <2>7. kb \in Keys \cup States /\ (first # m => ko \in Keys \cup States)
      BY <2>2, <2>5, <2>6, <2>a, <2>c DEF ChannelTypes
    <2>8. /\ cache'.sig = [n \in Manifest |-> IF n = m THEN kb
                                             ELSE IF n = first THEN ko ELSE cache.sig[n]]
          /\ cache' = [manifest |-> cache'.manifest, sig |-> cache'.sig, payload |-> cache'.payload]
          /\ cache'.manifest = [cache.manifest EXCEPT ![m] = ka]
          /\ \/ cache'.payload = cache.payload
             \/ cache'.payload = [cache.payload EXCEPT ![m.files] = kc]
      BY <2>b, <2>4 DEF TakeLeaves
    <2>12. \A n \in Manifest : cache'.sig[n] = IF n = m THEN kb
                                              ELSE IF n = first THEN ko ELSE cache.sig[n]
      BY <2>8
    <2>9. cache'.sig \in [Manifest -> Keys \cup States] /\ cache'.manifest \in [Manifest -> States]
      <3>1. \A n \in Manifest : (IF n = m THEN kb ELSE IF n = first THEN ko ELSE cache.sig[n])
                                   \in Keys \cup States
        BY <2>5, <2>7
      <3>2. cache'.sig \in [Manifest -> Keys \cup States]
        BY <2>8, <3>1
      <3>3. cache'.manifest \in [Manifest -> States]
        BY <2>5, <2>6, <2>8
      <3> QED BY <3>2, <3>3
    <2>10. cache'.payload \in [Drawers -> States]
      BY <2>5, <2>6, <2>8
    <2>11. cache' \in Caches
      BY <2>8, <2>9, <2>10 DEF Caches
    <2>13. Filled
      BY <2>6, <2>a, <2>c, <2>11, <2>12 DEF Filled
    <2>14. ReaderTypes'
      BY <1>1, <2>13, EndTypes DEF ReaderTypes
    <2>15. root' = root \/ (IsKey(b.got) /\ root' = Placed(m, b.got))
      BY <2>b DEF TakeLeaves
    <2>16. \/ root' = root
           \/ \E d \in Object(sigs[cmd.e.m], cache.sig[cmd.e.m]) :
                 IsKey(d.got) /\ root' = Placed(cmd.e.m, d.got)
      BY <2>1, <2>15, Zenon
    <2> QED BY <1>1, <2>13, <2>14, <2>16
  <1> QED BY <1>2, <1>3, <1>4 DEF Lines

LEMMA OtherSteps ==
    ASSUME ChannelTypes, ReaderTypes, Refuse \/ WriteList \/ UNCHANGED vars
    PROVE  /\ ReaderTypes' /\ Filled
           /\ UNCHANGED <<via, root>>
           /\ cmd' = NoCommand \/ cmd' = cmd
  <1>1. CASE Refuse
    <2>1. cmd' = NoCommand /\ UNCHANGED <<via, list, cache, root>>
      BY <1>1 DEF Refuse
    <2>2. Filled
      BY <2>1, NothingFilled
    <2> QED BY <2>1, <2>2, EndTypes DEF ReaderTypes
  <1>2. CASE WriteList \/ UNCHANGED vars
    <2>1. UNCHANGED <<index, via, cache, root, cmd>>
      BY <1>2 DEF WriteList, vars, channelVars, readerVars, disk
    <2>2. list' \subseteq Manifest
      BY <1>2 DEF WriteList, ChannelTypes, ReaderTypes, vars, readerVars
    <2>3. Filled
      BY <2>1, NothingFilled
    <2>4. ReaderTypes'
      BY <2>1, <2>2 DEF ReaderTypes, Sorted
    <2> QED BY <2>1, <2>3, <2>4
  <1> QED BY <1>1, <1>2

LEMMA ChangeTypes ==
    ASSUME ReaderTypes, UNCHANGED readerVars, \A m \in index : m \in index'
    PROVE  ReaderTypes'
  <1>1. UNCHANGED <<via, list, cache, cmd>>
    BY DEF readerVars
  <1> QED BY <1>1 DEF ReaderTypes, Sorted
-----------------------------------------------------------------------------
(* What stays on the disk: the texts of withdrawals and the signatures     *)
(* that can be read, but for damage, which is counted.                     *)
LEMMA FilesStay ==
    ASSUME ChannelTypes, spent.damage \in Nat, spent \in [commands : Nat, damage : Nat], ChannelNext
    PROVE  /\ withdrawn \subseteq withdrawn'
           /\ \A m \in Manifest : withdrawnSigs[m] \in Keys => withdrawnSigs'[m] \in Keys
           /\ \/ \A m \in Manifest : sigs[m] \in Keys => sigs'[m] \in Keys
              \/ spent'.damage > spent.damage
           /\ spent' \in [commands : Nat, damage : Nat]
  <1> DEFINE Stays == /\ withdrawn \subseteq withdrawn'
                      /\ \A m \in Manifest : withdrawnSigs[m] \in Keys => withdrawnSigs'[m] \in Keys
                      /\ \A m \in Manifest : sigs[m] \in Keys => sigs'[m] \in Keys
             Counted == spent' \in [commands : Nat, damage : Nat]
  <1>s. UNCHANGED <<sigs, withdrawn, withdrawnSigs>> => Stays
    BY DEF Keys
  <1>b. ASSUME NEW p \in Publishers, MayBegin(p)
        PROVE  Counted
    <2>1. spent' = [spent EXCEPT !.commands = spent.commands + 1]
      BY <1>b DEF MayBegin
    <2>2. spent.commands + 1 \in Nat
      OBVIOUS
    <2> QED BY <2>1, <2>2
  <1>1. ASSUME NEW p \in Publishers, NEW a \in Arguments, Publish(p, a) \/ Republish(p, a)
        PROVE  Stays /\ Counted
    <2>1. MayBegin(p) /\ UNCHANGED <<sigs, withdrawn, withdrawnSigs>>
      BY <1>1 DEF Publish, Republish, disk
    <2> QED BY <2>1, <1>b, <1>s
  <1>2. ASSUME NEW p \in Publishers, NEW m \in index, Withdraw(p, m)
        PROVE  Stays /\ Counted
    <2>1. MayBegin(p) /\ UNCHANGED <<sigs, withdrawn, withdrawnSigs>>
      BY <1>2 DEF Withdraw, disk
    <2> QED BY <2>1, <1>b, <1>s
  <1>3. ASSUME NEW p \in Publishers, WriteObject(p)
        PROVE  Stays /\ Counted
    <2>1. PICK o \in Objects : Put(p, o)
      BY <1>3, WriteObjectIs
    <2>2. PICK m \in Manifest : m = running[p].m
      BY <1>3, WriteObjectIs DEF GoesOn, Writing
    <2>3. /\ sigs' = IF o = "sig" THEN [sigs EXCEPT ![m] = KeyOf[p]] ELSE sigs
          /\ withdrawn' = IF o = "withdrawn" THEN withdrawn \cup {m} ELSE withdrawn
          /\ withdrawnSigs' = IF o = "withdrawn.sig"
                              THEN [withdrawnSigs EXCEPT ![m] = KeyOf[p]] ELSE withdrawnSigs
      BY <2>1, <2>2 DEF Put
    <2>4. \A n \in Manifest : sigs[n] \in Keys => sigs'[n] \in Keys
      BY <2>3, Constants DEF ChannelTypes
    <2>5. \A n \in Manifest : withdrawnSigs[n] \in Keys => withdrawnSigs'[n] \in Keys
      BY <2>3, Constants DEF ChannelTypes
    <2>6. spent' = spent
      BY <1>3 DEF WriteObject
    <2> QED BY <2>3, <2>4, <2>5, <2>6
  <1>4. ASSUME NEW p \in Publishers, WriteIndex(p) \/ Stop(p)
        PROVE  Stays /\ Counted
    <2>1. UNCHANGED <<sigs, withdrawn, withdrawnSigs, spent>>
      BY <1>4 DEF WriteIndex, Stop, disk
    <2> QED BY <2>1, <1>s
  <1>5. ASSUME NEW m \in index, NEW o \in {"manifest", "payload", "sig"}, Damage(o, m)
        PROVE  /\ UNCHANGED <<withdrawn, withdrawnSigs>> /\ spent'.damage > spent.damage /\ Counted
    <2>1. spent' = [spent EXCEPT !.damage = spent.damage + 1] /\ UNCHANGED <<withdrawn, withdrawnSigs>>
      BY <1>5 DEF Damage
    <2>2. spent.damage + 1 \in Nat /\ spent.damage + 1 > spent.damage
      OBVIOUS
    <2> QED BY <2>1, <2>2
  <1>6. (\E m \in index, o \in {"manifest", "payload", "sig"} : Damage(o, m)) \/ (Stays /\ Counted)
    BY <1>1, <1>2, <1>3, <1>4 DEF ChannelNext
  <1>7. CASE \E m \in index, o \in {"manifest", "payload", "sig"} : Damage(o, m)
    BY <1>5, <1>7 DEF Keys
  <1>8. CASE Stays /\ Counted
    BY <1>8
  <1> QED BY <1>6, <1>7, <1>8

(* All that holds where one command at a time runs on the directory.       *)
Sound ==
    /\ Sole /\ ReaderTypes
    /\ spent \in [commands : Nat, damage : Nat]

(* The copies of signatures that can be read are of versions in the index, *)
(* and K's too.                                                            *)
CopiesBy(K) == \A m \in Manifest : cache.sig[m] \in Keys => m \in index /\ cache.sig[m] = K

Keyed == unheld \/ \E K : KeyedBy(K) /\ CopiesBy(K)

LEMMA SoundKept ==
    ASSUME ~Overlap, ChannelTypes, Sound, [Next]_vars
    PROVE  /\ Sound'
           /\ \A m \in index : m \in index'
           /\ (Change /\ UNCHANGED readerVars) \/ (UNCHANGED channelVars /\ Filled)
  <1>1. CASE Change
    <2>1. ChannelNext /\ UNCHANGED readerVars
      BY <1>1 DEF Change
    <2>2. Sole' /\ \A m \in index : {n \in index' : n.ver = m.ver} = {m}
      BY <2>1, SoleKept DEF Sound
    <2>3. \A m \in index : m \in index'
      BY <2>2
    <2>4. spent' \in [commands : Nat, damage : Nat]
      BY <2>1, FilesStay DEF Sound
    <2>5. ReaderTypes'
      BY <2>1, <2>3, ChangeTypes DEF Sound
    <2> QED BY <1>1, <2>1, <2>2, <2>3, <2>4, <2>5 DEF Sound
  <1>2. CASE Read \/ WriteList \/ UNCHANGED vars
    <2>1. UNCHANGED channelVars
      BY <1>2, ReadsLeaveChannel DEF vars
    <2>2. Sole' /\ UNCHANGED <<index, spent>>
      BY <2>1 DEF channelVars, disk, history, Sole, Sound
    <2>3. ReaderTypes' /\ Filled
      BY <1>2, OpenTypes, AskTypes, ChooseTypes, TakeTypes, OtherSteps DEF Read, Sound
    <2> QED BY <2>1, <2>2, <2>3 DEF Sound
  <1> QED BY <1>1, <1>2 DEF Next

LEMMA KeyedStays ==
    ASSUME ~Overlap, ChannelTypes, Sound, Keyed, [Next]_vars
    PROVE  Keyed'
  <1>1. SUFFICES ASSUME ~ unheld'
                 PROVE  \E L : KeyedBy(L)' /\ CopiesBy(L)'
    BY DEF Keyed
  <1>2. CASE Change /\ UNCHANGED readerVars
    <2>1. ChannelNext /\ cache' = cache
      BY <1>2 DEF Change, readerVars
    <2>2. ~ unheld
      BY <1>1, <2>1, UnheldStays
    <2>3. PICK K : KeyedBy(K) /\ CopiesBy(K)
      BY <2>2 DEF Keyed
    <2>4. PICK L : KeyedBy(L)' /\ (index # {} => L = K)
      BY <1>1, <2>1, <2>3, KeyedKept DEF Sound
    <2>5. \A m \in index : m \in index'
      BY SoundKept
    <2>6. CopiesBy(L)'
      BY <2>1, <2>3, <2>4, <2>5 DEF CopiesBy, Keys
    <2> QED BY <2>4, <2>6
  <1>3. CASE UNCHANGED channelVars /\ Filled
    <2>1. UNCHANGED <<index, sigs, withdrawnSigs, running, unheld>>
      BY <1>3 DEF channelVars, disk, history
    <2>2. PICK K : KeyedBy(K) /\ CopiesBy(K)
      BY <1>1, <2>1 DEF Keyed
    <2>3. KeyedBy(K)'
      BY <2>1, <2>2 DEF KeyedBy, Keys
    <2>4. CopiesBy(K)'
      BY <1>3, <2>1, <2>2 DEF CopiesBy, KeyedBy, Filled, Keys
    <2> QED BY <2>3, <2>4
  <1> QED BY <1>2, <1>3, SoundKept

LEMMA SoleKeyedAlways == ~Overlap /\ Spec => [](~Overlap /\ ChannelTypes /\ Sound /\ Keyed)
  <1>1. ~Overlap /\ Init => Sound /\ Keyed
    <2>1. ASSUME Init
          PROVE  Sound /\ Keyed
      <3>1. /\ index = {} /\ withdrawn = {} /\ \A p \in Publishers : running[p] = Idle
            /\ \A m \in Manifest : withdrawnSigs[m] = Missing
            /\ spent = [commands |-> 0, damage |-> 0]
        BY <2>1 DEF Init, ChannelInit
      <3>2. Sole
        BY <3>1, Constants DEF Sole, States
      <3>3. via \in {"directory", "portal"} /\ list = {} /\ cache = NoCopies /\ cmd = NoCommand
        BY <2>1 DEF Init, ReaderInit
      <3>4. cache \in Caches /\ \A m \in Manifest : cache.sig[m] = Missing
        BY <3>3 DEF NoCopies, Caches, States
      <3>5. Sorted(cmd.ix)
        BY <3>3, NoCommandTypes DEF Sorted
      <3>6. ReaderTypes
        BY <3>3, <3>4, <3>5, NoCommandTypes DEF ReaderTypes
      <3>7. Idle.todo # <<"index">>
        BY DEF Idle
      <3>8. PICK K : K = Nothing
        OBVIOUS
      <3>9. KeyedBy(K)
        BY <3>1, <3>7 DEF KeyedBy
      <3>10. CopiesBy(K)
        BY <3>4, Constants DEF CopiesBy, States
      <3>11. spent \in [commands : Nat, damage : Nat]
        BY <3>1
      <3> QED BY <3>2, <3>6, <3>9, <3>10, <3>11 DEF Sound, Keyed
    <2> QED BY <2>1
  <1>2. ~Overlap /\ ChannelTypes /\ Sound /\ Keyed /\ [Next]_vars => Sound' /\ Keyed'
    BY SoundKept, KeyedStays
  <1>3. ~Overlap => []~Overlap
    <2>1. ~Overlap => (~Overlap)'
      OBVIOUS
    <2> QED BY <2>1, PTL
  <1> QED BY <1>1, <1>2, <1>3, ChannelTypesAlways, PTL DEF Spec

(* Where each publish was held to the key of the first version, the        *)
(* signatures that can be read are all of one key: PUBLISH, its repairs    *)
(* and WITHDRAW each compare with it (pkg_lib_verbs.c, cmd_publish).       *)
THEOREM OneKeyAlways == ~Overlap /\ Spec => []OneKey
  <1>1. Keyed => OneKey
    BY DEF Keyed, KeyedBy, OneKey
  <1> QED BY <1>1, SoleKeyedAlways, PTL

LEMMA WithdrawalKept ==
    ASSUME ~Overlap, ChannelTypes, Sound, [Next]_vars, NEW L, KeyedBy(L)',
           NEW m \in index, m \in withdrawn, withdrawnSigs[m] \in Keys
    PROVE  /\ m \in index' /\ m \in withdrawn' /\ withdrawnSigs'[m] \in Keys
           /\ sigs'[m] \in Keys => IsWithdrawn(m)'
           /\ (\A n \in Manifest : sigs[n] \in Keys => sigs'[n] \in Keys) \/ (Change /\ spent'.damage > spent.damage)
  <1>1. m \in index' /\ m \in Manifest
    BY SoundKept DEF ChannelTypes
  <1>2. /\ m \in withdrawn' /\ withdrawnSigs'[m] \in Keys
        /\ (\A n \in Manifest : sigs[n] \in Keys => sigs'[n] \in Keys) \/ (Change /\ spent'.damage > spent.damage)
    <2>1. CASE Change
      <3>1. ChannelNext
        BY <2>1 DEF Change
      <3> QED BY <1>1, <2>1, <3>1, FilesStay DEF Sound
    <2>2. CASE UNCHANGED channelVars
      <3>1. UNCHANGED <<withdrawn, withdrawnSigs, sigs>>
        BY <2>2 DEF channelVars, disk
      <3> QED BY <3>1 DEF Keys
    <2> QED BY <2>1, <2>2, SoundKept
  <1>3. ASSUME sigs'[m] \in Keys
        PROVE  IsWithdrawn(m)'
    <2>1. sigs'[m] = L /\ withdrawnSigs'[m] = L
      BY <1>1, <1>2, <1>3 DEF KeyedBy, Keys
    <2> QED BY <1>2, <1>3, <2>1 DEF IsWithdrawn, Claimed, Keys
  <1> QED BY <1>1, <1>2, <1>3

(* A withdrawal that was signed goes on counting, through publishing,      *)
(* damage and repair, where each publish was held to the first key: a      *)
(* repair signs with that key again, and nothing takes the text away       *)
(* (pkg_lib_verbs.c, cmd_withdraw and cmd_publish).                        *)
THEOREM WithdrawnStaysAlways == ~Overlap /\ Spec => WithdrawnStays
  <1>1. ~Overlap /\ ChannelTypes /\ Sound /\ Keyed /\ [Next]_vars /\ Keyed'
            => [\A m \in index : m \in withdrawn /\ withdrawnSigs[m] \in Keys =>
                   unheld' \/ sigs'[m] \notin Keys \/ IsWithdrawn(m)']_vars
    <2> SUFFICES ASSUME ~Overlap, ChannelTypes, Sound, [Next]_vars, Keyed', ~ unheld',
                        NEW m \in index, m \in withdrawn, withdrawnSigs[m] \in Keys
                 PROVE  sigs'[m] \notin Keys \/ IsWithdrawn(m)'
      OBVIOUS
    <2>1. PICK L : KeyedBy(L)'
      BY DEF Keyed
    <2> QED BY <2>1, WithdrawalKept
  <1> QED BY <1>1, SoleKeyedAlways, PTL DEF Spec, WithdrawnStays
-----------------------------------------------------------------------------
(* What a command knows of the versions withdrawn before it began: they    *)
(* still are, its list names them, and of each it has asked about it knows *)
(* that it is withdrawn, or keeps a copy of its signature that says        *)
(* nothing; unless a request failed.                                       *)
Told(e) ==
    e \in cmd.gone \/ (via # "directory" /\ cache.sig[e.m] \notin Keys \cup {Missing})

Barred ==
    /\ cmd.pc = "idle" => cmd.before = {} /\ cmd.known = {}
    /\ cmd.list # Nothing => cmd.before \subseteq cmd.list
    /\ ~ unheld => \A m \in cmd.before : m \in index /\ IsWithdrawn(m)
    /\ ~ unheld /\ ~ cmd.failed =>
          \A e \in cmd.known : e.ch = 1 /\ e.m \in cmd.before => Told(e)

(* A step that only fills the cache keeps what was told.                   *)
LEMMA ToldStays ==
    ASSUME ReaderTypes, Filled, via' = via, NEW e, e.m \in Manifest, e \in cmd.gone => e \in cmd'.gone, Told(e)
    PROVE  Told(e)'
  <1>1. CASE e \in cmd.gone
    BY <1>1 DEF Told
  <1>2. CASE via # "directory" /\ cache.sig[e.m] \notin Keys \cup {Missing}
    <2>1. cache'.sig[e.m] = cache.sig[e.m]
      BY <1>2 DEF Filled
    <2> QED BY <1>2, <2>1 DEF Told, Keys
  <1> QED BY <1>1, <1>2 DEF Told

LEMMA BarredStays ==
    ASSUME ~Overlap, ChannelTypes, Sound, Keyed, Keyed', Barred, [Next]_vars
    PROVE  Barred'
  <1>t. ReaderTypes /\ cmd \in Commands
    BY DEF Sound, ReaderTypes
  <1>n. ASSUME cmd' = NoCommand, cmd'.list # Nothing => cmd'.before \subseteq cmd'.list
        PROVE  Barred'
    BY <1>n, NoCommandTypes DEF Barred
  <1>e. cmd' = NoCommand => Barred'
    BY <1>n, NoCommandTypes
  <1>1. CASE Change
    <2>1. ChannelNext /\ UNCHANGED <<via, list, cache, cmd>>
      BY <1>1 DEF Change, readerVars
    <2>2. unheld => unheld'
      BY <2>1, UnheldStays
    <2>3. ASSUME ~ unheld', NEW m \in cmd.before
          PROVE  m \in index' /\ IsWithdrawn(m)'
      <3>1. m \in index /\ m \in withdrawn /\ withdrawnSigs[m] \in Keys /\ sigs[m] \in Keys
        <4>1. m \in index /\ IsWithdrawn(m)
          BY <2>2, <2>3 DEF Barred
        <4>2. withdrawnSigs[m] \in Keys /\ withdrawnSigs[m] = Claimed(m) /\ m \in withdrawn
          BY <4>1 DEF IsWithdrawn
        <4>3. sigs[m] \in Keys
          BY <4>2, Constants DEF Claimed
        <4> QED BY <4>1, <4>2, <4>3
      <3>2. PICK L : KeyedBy(L)'
        BY <2>3 DEF Keyed
      <3>3. cmd.pc # "idle"
        BY <2>3 DEF Barred
      <3>4. ~ (spent'.damage > spent.damage)
        BY <1>1, <3>3 DEF Change
      <3>5. m \in Manifest
        BY <3>1 DEF ChannelTypes
      <3> QED BY <3>1, <3>2, <3>4, <3>5, WithdrawalKept
    <2>4. ASSUME NEW e, Told(e)
          PROVE  Told(e)'
      BY <2>1, <2>4 DEF Told, Keys
    <2> QED BY <2>1, <2>2, <2>3, <2>4 DEF Barred
  <1>2. ASSUME NEW asked \in Asked \cup {Nothing}, NEW alone \in BOOLEAN, Open(asked, alone)
        PROVE  Barred'
    <2>1. /\ cmd'.known = {} /\ cmd'.before = Visible /\ cmd'.pc = "choose"
          /\ cmd'.list = Nothing \/ (via = "portal" /\ cmd'.list = list)
      BY <1>t, <1>2, OpenTypes
    <2>2. UNCHANGED <<index, sigs, withdrawn, withdrawnSigs>>
      BY <1>2 DEF Open, channelVars, disk
    <2>3. \A m \in Visible : m \in index /\ IsWithdrawn(m) /\ (via = "portal" => m \in list)
      BY DEF Visible
    <2>4. \A m \in Visible : m \in index' /\ IsWithdrawn(m)'
      BY <2>2, <2>3 DEF IsWithdrawn, Claimed, Keys
    <2>5. PICK V : V = Visible
      OBVIOUS
    <2> QED BY <2>1, <2>3, <2>4, <2>5 DEF Barred
  <1>3. ASSUME UNCHANGED channelVars, Filled, via' = via,
               cmd.gone \subseteq cmd'.gone, cmd'.before = cmd.before, cmd'.list = cmd.list,
               cmd'.pc = cmd.pc \/ cmd'.pc = "check", cmd.failed => cmd'.failed,
               cmd.pc # "idle" \/ cmd' = cmd,
               ~ unheld /\ ~ cmd'.failed =>
                  \A e \in cmd'.known \ cmd.known : e.ch = 1 /\ e.m \in cmd.before => Told(e)'
        PROVE  Barred'
    <2>1. UNCHANGED <<index, sigs, withdrawn, withdrawnSigs, unheld>>
      BY <1>3 DEF channelVars, disk, history
    <2>2. ~ unheld' => \A m \in cmd'.before : m \in index' /\ IsWithdrawn(m)'
      BY <1>3, <2>1 DEF Barred, IsWithdrawn, Claimed, Keys
    <2>3. cmd.before \subseteq Manifest
      BY <1>t DEF Commands
    <2>4. ASSUME ~ unheld', ~ cmd'.failed, NEW e \in cmd'.known, e.ch = 1, e.m \in cmd'.before
          PROVE  Told(e)'
      <3>1. CASE e \in cmd.known
        <4>1. Told(e) /\ e.m \in Manifest
          BY <1>3, <2>1, <2>3, <2>4, <3>1 DEF Barred
        <4> QED BY <1>t, <1>3, <4>1, ToldStays
      <3>2. CASE e \notin cmd.known
        BY <1>3, <2>1, <2>4, <3>2
      <3> QED BY <3>1, <3>2
    <2>5. cmd'.pc = "idle" => cmd'.before = {} /\ cmd'.known = {}
      BY <1>3 DEF Barred
    <2>6. cmd'.list # Nothing => cmd'.before \subseteq cmd'.list
      BY <1>3 DEF Barred
    <2> QED BY <2>2, <2>4, <2>5, <2>6 DEF Barred
  <1>4. CASE Ask
    <2>1. PICK e \in Wanted :
                 /\ cmd'.known = cmd.known \cup {e} /\ cmd.gone \subseteq cmd'.gone
                 /\ cmd'.before = cmd.before /\ cmd'.list = cmd.list /\ cmd'.pc = cmd.pc
                 /\ cmd.failed => cmd'.failed
                 /\ \/ Unlisted(e)
                    \/ \E r \in Verdicts(e) : /\ r.gone => e \in cmd'.gone
                                              /\ r.fault = 1 => cmd'.failed
                                              /\ cache' = [cache EXCEPT !.sig[e.m] = r.copy]
      BY <1>t, <1>4, AskTypes
    <2>2. UNCHANGED channelVars /\ Filled /\ via' = via
      BY <1>t, <1>4, AskTypes DEF Ask
    <2>3. e.m \in index /\ e.m \in Manifest
      BY <1>t, WantedIs DEF ChannelTypes
    <2>4. cmd.pc # "idle"
      BY DEF Wanted
    <2>5. ASSUME ~ unheld, ~ cmd'.failed, e.ch = 1, e.m \in cmd.before
          PROVE  Told(e)'
      <3>1. IsWithdrawn(e.m) /\ withdrawnSigs[e.m] \in Keys
        BY <2>5 DEF Barred, IsWithdrawn
      <3>2. ~ Unlisted(e)
        BY <2>5 DEF Barred, Unlisted
      <3>3. PICK r \in Verdicts(e) : /\ r.gone => e \in cmd'.gone
                                     /\ r.fault # 1
                                     /\ cache' = [cache EXCEPT !.sig[e.m] = r.copy]
        BY <2>1, <2>5, <3>2
      <3>4. r.gone \/ (via # "directory" /\ cache.sig[e.m] # Missing /\ cache.sig[e.m] # withdrawnSigs[e.m])
        BY <1>t, <2>3, <3>1, <3>3, VerdictIs DEF ReaderTypes
      <3>5. CASE r.gone
        BY <3>3, <3>5 DEF Told
      <3>6. CASE via # "directory" /\ cache.sig[e.m] # Missing /\ cache.sig[e.m] # withdrawnSigs[e.m]
        <4>1. PICK K : KeyedBy(K) /\ CopiesBy(K)
          BY <2>5 DEF Keyed
        <4>2. withdrawnSigs[e.m] = K
          BY <2>3, <3>1, <4>1 DEF KeyedBy
        <4>3. cache.sig[e.m] \notin Keys
          BY <2>3, <3>6, <4>1, <4>2 DEF CopiesBy
        <4>4. Told(e)
          BY <3>6, <4>3 DEF Told
        <4> QED BY <1>t, <2>1, <2>2, <2>3, <4>4, ToldStays
      <3> QED BY <3>4, <3>5, <3>6
    <2>6. \A d \in cmd'.known \ cmd.known : d = e
      BY <2>1
    <2> QED BY <2>1, <2>2, <2>4, <2>5, <2>6, <1>3
  <1>5. CASE Choose
    <2>1. UNCHANGED channelVars /\ cmd.pc # "idle"
      BY <1>5 DEF Choose
    <2>2. CASE cmd' = NoCommand
      BY <2>2, <1>e
    <2>3. CASE cmd' # NoCommand
      <3>1. /\ Filled /\ via' = via
            /\ cmd'.known = cmd.known /\ cmd'.gone = cmd.gone
            /\ cmd'.before = cmd.before /\ cmd'.list = cmd.list /\ cmd'.pc = "check"
            /\ cmd.failed => cmd'.failed
        BY <1>t, <1>5, <2>3, ChooseTypes
      <3> QED BY <2>1, <3>1, <1>3
    <2> QED BY <2>2, <2>3
  <1>6. CASE Take
    BY <1>t, <1>6, <1>e, TakeTypes
  <1>7. CASE Refuse \/ WriteList \/ UNCHANGED vars
    <2>1. UNCHANGED channelVars
      BY <1>7 DEF Refuse, WriteList, vars
    <2>2. Filled /\ via' = via /\ (cmd' = NoCommand \/ cmd' = cmd)
      BY <1>t, <1>7, OtherSteps
    <2>3. CASE cmd' = cmd
      BY <2>1, <2>2, <2>3, <1>3
    <2> QED BY <2>2, <2>3, <1>e
  <1> QED BY <1>1, <1>2, <1>4, <1>5, <1>6, <1>7 DEF Next, Read

(* A version withdrawn before a command began, where a reader can see it,  *)
(* is not installed by that command: UPGRADE passes over it and an INSTALL *)
(* that names it is refused (pkg_lib_verbs.c, pkg_lib_root.c), unless a    *)
(* request failed or a publish was not held to the first key.              *)
THEOREM WithdrawnSkippedAlways == ~Overlap /\ Spec => WithdrawnSkipped
  <1>1. ~Overlap /\ ChannelTypes /\ Sound /\ Keyed /\ Barred /\ [Next]_vars
            => [Installs /\ cmd.e.ch = 1 /\ cmd.e.m \in cmd.before => cmd.failed \/ unheld]_vars
    <2> SUFFICES ASSUME ~Overlap, ChannelTypes, Sound, Keyed, Barred, [Next]_vars, ~ cmd.failed, ~ unheld,
                        Installs, cmd.e.ch = 1, cmd.e.m \in cmd.before
                 PROVE  FALSE
      OBVIOUS
    <2>t. ReaderTypes
      BY DEF Sound
    <2>1. root' # root
      BY DEF Installs
    <2>2. Take
      <3>1. Change \/ Refuse \/ WriteList \/ UNCHANGED vars => root' = root
        BY DEF Change, Refuse, WriteList, vars, readerVars
      <3>2. Read => Take
        BY <2>1, <3>1 DEF Read, Open, Ask, Choose
      <3> QED BY <2>1, <3>1, <3>2 DEF Next
    <2>3. cmd.pc = "check" /\ Wanted = {} /\ cmd.e \notin cmd.gone
      BY <2>2 DEF Take
    <2>4. cmd.e \in cmd.known
      BY <2>3 DEF Wanted
    <2>5. via # "directory" /\ cache.sig[cmd.e.m] \notin Keys \cup {Missing}
      BY <2>3, <2>4 DEF Barred, Told
    <2>6. cmd.e.m \in Manifest /\ cache.sig[cmd.e.m] \in Keys \cup States
      BY <2>t, <2>3 DEF ReaderTypes, ChannelTypes, Caches
    <2>7. PICK b \in Object(sigs[cmd.e.m], cache.sig[cmd.e.m]) : IsKey(b.got)
      BY <2>t, <2>1, <2>2, TakeTypes
    <2>8. b.got = cache.sig[cmd.e.m]
      BY <2>5, ObjectIs
    <2>9. b.got \in States
      BY <2>5, <2>6, <2>8
    <2> QED BY <2>7, <2>9, Constants DEF IsKey
  <1>2. Init => Barred
    <2>1. ReaderInit => cmd = NoCommand
      BY DEF ReaderInit
    <2> QED BY <2>1, NoCommandTypes DEF Init, Barred, NoCommand
  <1>3. ~Overlap /\ ChannelTypes /\ Sound /\ Keyed /\ Keyed' /\ Barred /\ [Next]_vars => Barred'
    BY BarredStays
  <1> QED BY <1>1, <1>2, <1>3, SoleKeyedAlways, PTL DEF Spec, WithdrawnSkipped

-----------------------------------------------------------------------------
(* How a package stands: three walks over one index, of any length.        *)
Index(ix) ==
    \E n \in Nat :
       /\ DOMAIN ix = 1 .. n
       /\ \A i \in 1 .. n : ix[i].ch \in Nat /\ ix[i].ver \in Nat /\ ix[i].gone \in BOOLEAN

(* The first of the highest of some entries.                               *)
FirstHighest(ix, S) ==
    LET top == {i \in S : \A j \in S : ix[j].ver <= ix[i].ver}
    IN CHOOSE i \in top : \A j \in top : i <= j

(* Some entry is the highest of those up to a place.                       *)
HighUpTo(ix, S, k) == \E i \in S : \A j \in S : j <= k => ix[j].ver <= ix[i].ver

LEMMA OneMoreHighest ==
    ASSUME NEW ix, NEW S \in SUBSET Nat, \A j \in S : ix[j].ver \in Nat,
           NEW k \in Nat, k # 0, HighUpTo(ix, S, k - 1)
    PROVE  HighUpTo(ix, S, k)
  <1>1. PICK i \in S : \A j \in S : j <= k - 1 => ix[j].ver <= ix[i].ver
    BY DEF HighUpTo
  <1>2. \A j \in S : j \in Nat
    OBVIOUS
  <1>3. CASE k \in S /\ ix[k].ver > ix[i].ver
    <2>1. ASSUME NEW j \in S, j <= k
          PROVE  ix[j].ver <= ix[k].ver
      <3>1. CASE j = k
        BY <1>2, <1>3, <3>1
      <3>2. CASE j # k
        <4>1. j <= k - 1
          <5>1. j \in Nat
            BY <1>2
          <5> QED BY <2>1, <3>2, <5>1, SMTT(30)
        <4>2. ix[j].ver <= ix[i].ver
          BY <1>1, <4>1
        <4>3. ix[j].ver \in Nat /\ ix[i].ver \in Nat /\ ix[k].ver \in Nat
          BY <1>3
        <4> QED BY <1>3, <4>2, <4>3
      <3> QED BY <3>1, <3>2
    <2> QED BY <1>3, <2>1 DEF HighUpTo
  <1>4. CASE ~ (k \in S /\ ix[k].ver > ix[i].ver)
    <2>1. ASSUME NEW j \in S, j <= k
          PROVE  ix[j].ver <= ix[i].ver
      <3>1. CASE j = k
        <4>1. ix[j].ver \in Nat /\ ix[i].ver \in Nat
          OBVIOUS
        <4>2. ~ (ix[j].ver > ix[i].ver)
          BY <1>4, <3>1
        <4> QED BY <4>1, <4>2, SMTT(30)
      <3>2. CASE j # k
        <4>1. j <= k - 1
          <5>1. j \in Nat
            BY <1>2
          <5> QED BY <2>1, <3>2, <5>1, SMTT(30)
        <4> QED BY <1>1, <4>1
      <3> QED BY <3>1, <3>2
    <2> QED BY <2>1 DEF HighUpTo
  <1> QED BY <1>3, <1>4

LEMMA SomeHighest ==
    ASSUME NEW ix, Index(ix), NEW S \in SUBSET DOMAIN ix, S # {}
    PROVE  \E i \in S : \A j \in S : ix[j].ver <= ix[i].ver
  <1>1. PICK n \in Nat : /\ DOMAIN ix = 1 .. n
                         /\ \A i \in 1 .. n : ix[i].ver \in Nat
    BY DEF Index
  <1>2. S \in SUBSET Nat /\ \A j \in S : ix[j].ver \in Nat /\ 0 < j /\ j <= n
    BY <1>1
  <1> DEFINE bad == {k \in 0 .. n : ~ HighUpTo(ix, S, k)}
  <1>3. bad = {}
    <2> SUFFICES ASSUME bad # {}
                 PROVE  FALSE
      OBVIOUS
    <2>1. PICK k \in bad : \A l \in bad : k <= l
      <3>1. bad \in SUBSET Nat
        OBVIOUS
      <3> HIDE DEF bad
      <3> QED BY <3>1, Least
    <2>2. k \in Nat /\ k <= n /\ ~ HighUpTo(ix, S, k)
      OBVIOUS
    <2>3. k # 0
      <3>1. PICK i \in S : TRUE
        OBVIOUS
      <3>2. \A j \in S : ~ (j <= 0)
        BY <1>2
      <3>3. HighUpTo(ix, S, 0)
        BY <3>1, <3>2 DEF HighUpTo
      <3> QED BY <2>2, <3>3
    <2>4. k - 1 \in 0 .. n /\ ~ (k <= k - 1)
      BY <2>2, <2>3
    <2>5. HighUpTo(ix, S, k - 1)
      BY <2>1, <2>4
    <2> QED BY <1>2, <2>2, <2>3, <2>5, OneMoreHighest
  <1>4. HighUpTo(ix, S, n)
    <2>1. n \in 0 .. n
      OBVIOUS
    <2> QED BY <1>3, <2>1
  <1> QED BY <1>2, <1>4 DEF HighUpTo

LEMMA FirstHighestIs ==
    ASSUME NEW ix, Index(ix), NEW S \in SUBSET DOMAIN ix, S # {}
    PROVE  /\ FirstHighest(ix, S) \in S
           /\ \A j \in S : ix[j].ver <= ix[FirstHighest(ix, S)].ver
  <1> DEFINE top == {i \in S : \A j \in S : ix[j].ver <= ix[i].ver}
  <1>1. S \in SUBSET Nat
    BY DEF Index
  <1>2. top # {} /\ top \in SUBSET Nat
    BY <1>1, SomeHighest
  <1>3. PICK i \in top : \A j \in top : i <= j
    <2> HIDE DEF top
    <2> QED BY <1>2, Least
  <1>4. FirstHighest(ix, S) \in top
    BY <1>3 DEF FirstHighest
  <1> QED BY <1>4

(* What the channels offer a machine, not withdrawn.                       *)
Offering(ix, target) == {i \in DOMAIN ix : ArchMatches(ix[i], target) /\ ~ ix[i].gone}

ChannelsOf(ix) == {ix[i].ch : i \in DOMAIN ix}
BestsOf(ix, asked, target) == [c \in ChannelsOf(ix) |-> Best(ix, c, asked, Gone(ix), target)]
KeysOf(ix, best) == [c \in DOMAIN best |-> IF best[c] = 0 THEN Nothing ELSE ix[best[c]].key]
Answering(best) == {c \in DOMAIN best : best[c] # 0}

LEMMA GoneIs ==
    ASSUME NEW ix, Index(ix), NEW i \in DOMAIN ix
    PROVE  ix[i] \in Gone(ix) <=> ix[i].gone
  <1>1. ASSUME ix[i] \in Gone(ix)
        PROVE  ix[i].gone
    <2>1. PICK j \in DOMAIN ix : ix[j].gone /\ ix[j] = ix[i]
      BY <1>1 DEF Gone
    <2> QED BY <2>1
  <1>2. ASSUME ix[i].gone
        PROVE  ix[i] \in Gone(ix)
    BY <1>2 DEF Gone
  <1> QED BY <1>1, <1>2 DEF Index

(* A channel's answer where no version is named: its first highest offer.  *)
LEMMA BestOffer ==
    ASSUME NEW ix, Index(ix), NEW c, NEW target
    PROVE  LET some == {i \in Offering(ix, target) : ix[i].ch = c}
           IN Best(ix, c, Nothing, Gone(ix), target) =
                IF some = {} THEN 0 ELSE FirstHighest(ix, some)
  <1>1. Offered(ix, c, Nothing, Gone(ix), target) = {i \in Offering(ix, target) : ix[i].ch = c}
    BY GoneIs DEF Offered, Offering
  <1> QED BY <1>1 DEF Best, FirstHighest

LEMMA BestOfferIs ==
    ASSUME NEW ix, Index(ix), NEW c, NEW target, NEW b, b = Best(ix, c, Nothing, Gone(ix), target)
    PROVE  /\ b = 0 => \A i \in Offering(ix, target) : ix[i].ch # c
           /\ b # 0 => /\ b \in Offering(ix, target) /\ ix[b].ch = c
                       /\ \A i \in Offering(ix, target) : ix[i].ch = c => ix[i].ver <= ix[b].ver
  <1> PICK some \in SUBSET DOMAIN ix : some = {i \in Offering(ix, target) : ix[i].ch = c}
    BY DEF Offering
  <1>1. b = IF some = {} THEN 0 ELSE FirstHighest(ix, some)
    BY BestOffer
  <1>2. 0 \notin DOMAIN ix
    BY DEF Index
  <1>3. CASE some = {}
    BY <1>1, <1>3
  <1>4. CASE some # {}
    <2>1. b \in some /\ \A j \in some : ix[j].ver <= ix[b].ver
      BY <1>1, <1>4, FirstHighestIs
    <2> QED BY <1>2, <2>1
  <1> QED BY <1>3, <1>4

(* Its answer where one is: an entry of that version, withdrawn or not.    *)
LEMMA BestAskedIs ==
    ASSUME NEW ix, Index(ix), NEW c, NEW target, NEW v, v # Nothing,
           NEW b, b = Best(ix, c, v, Gone(ix), target)
    PROVE  /\ b = 0 => \A i \in DOMAIN ix : ArchMatches(ix[i], target) /\ ix[i].ver = v => ix[i].ch # c
           /\ b # 0 => /\ b \in DOMAIN ix /\ ix[b].ch = c /\ ix[b].ver = v
                       /\ ArchMatches(ix[b], target)
  <1> PICK some : some = {i \in DOMAIN ix : ix[i].ch = c /\ ArchMatches(ix[i], target) /\ ix[i].ver = v}
    OBVIOUS
  <1>1. Offered(ix, c, v, Gone(ix), target) = some
    BY DEF Offered
  <1>2. PICK n \in Nat : DOMAIN ix = 1 .. n
    BY DEF Index
  <1>3. CASE some = {}
    <2>1. b = 0
      BY <1>1, <1>3 DEF Best
    <2> QED BY <1>3, <2>1
  <1>4. CASE some # {}
    <2>1. some \in SUBSET Nat /\ \A i \in some : i <= n
      BY <1>2
    <2>2. \E i \in some : \A j \in some : j <= i
      BY <1>2, <1>4, <2>1, Greatest
    <2>3. b = CHOOSE i \in some : \A j \in some : j <= i
      BY <1>1, <1>4 DEF Best
    <2>4. b \in some
      BY <2>2, <2>3
    <2> QED BY <1>2, <2>4
  <1> QED BY <1>3, <1>4

(* The winner is the highest of the candidates.                            *)
LEMMA WinnerIs ==
    ASSUME NEW ix, Index(ix), NEW best, NEW C \in SUBSET Nat, \A c \in C : best[c] \in DOMAIN ix,
           NEW w, w = Winner(ix, best, C)
    PROVE  /\ C = {} => w = 0
           /\ C # {} => \E c \in C : w = best[c] /\ \A d \in C : ix[best[d]].ver <= ix[w].ver
  <1> DEFINE Wins(c) == \A d \in C : \/ ix[best[d]].ver < ix[best[c]].ver
                                     \/ ix[best[d]].ver = ix[best[c]].ver /\ c <= d
  <1>1. CASE C = {}
    BY <1>1 DEF Winner
  <1>2. CASE C # {}
    <2>1. \A c \in C : ix[best[c]].ver \in Nat
      BY DEF Index
    <2>2. PICK V \in SUBSET DOMAIN ix : V = {best[c] : c \in C}
      OBVIOUS
    <2>3. PICK i \in V : \A j \in V : ix[j].ver <= ix[i].ver
      <3>1. V # {}
        BY <1>2, <2>2
      <3> QED BY <3>1, SomeHighest
    <2>4. PICK T \in SUBSET C : T = {c \in C : ix[best[c]].ver = ix[i].ver}
      OBVIOUS
    <2>5. PICK c \in T : \A d \in T : c <= d
      <3>1. T # {} /\ T \in SUBSET Nat
        BY <2>2, <2>3, <2>4
      <3> QED BY <3>1, Least
    <2>6. c \in C /\ Wins(c)
      <3>1. ASSUME NEW d \in C
            PROVE  \/ ix[best[d]].ver < ix[best[c]].ver
                   \/ ix[best[d]].ver = ix[best[c]].ver /\ c <= d
        <4>1. best[d] \in V /\ ix[best[d]].ver <= ix[i].ver
          BY <2>2, <2>3
        <4>2. ix[best[c]].ver = ix[i].ver /\ c \in C
          BY <2>4
        <4>3. CASE d \in T
          BY <2>4, <2>5, <4>2, <4>3
        <4>4. CASE d \notin T
          <5>1. ix[best[d]].ver # ix[i].ver
            BY <2>4, <4>4
          <5> QED BY <2>1, <4>1, <4>2, <5>1
        <4> QED BY <4>3, <4>4
      <3> QED BY <3>1, <2>4
    <2>7. PICK e \in C : Wins(e) /\ w = best[e]
      <3>1. w = best[CHOOSE e \in C : Wins(e)]
        BY <1>2 DEF Winner
      <3>2. (CHOOSE e \in C : Wins(e)) \in C /\ Wins(CHOOSE e \in C : Wins(e))
        BY <2>6
      <3> QED BY <3>1, <3>2
    <2>8. \A d \in C : ix[best[d]].ver <= ix[w].ver
      <3>1. ASSUME NEW d \in C
            PROVE  ix[best[d]].ver <= ix[w].ver
        <4>1. ix[best[d]].ver \in Nat /\ ix[w].ver \in Nat
          BY <2>1, <2>7
        <4>2. ix[best[d]].ver < ix[w].ver \/ ix[best[d]].ver = ix[w].ver
          BY <2>7
        <4> QED BY <4>1, <4>2
      <3> QED BY <3>1
    <2> QED BY <1>2, <2>7, <2>8
  <1> QED BY <1>1, <1>2

(* There are finitely many channels.                                       *)
LEMMA FinitelyMany ==
    ASSUME NEW ix, Index(ix)
    PROVE  ChannelsOf(ix) \in SUBSET Nat /\ IsFiniteSet(ChannelsOf(ix))
  <1>1. PICK n \in Nat : DOMAIN ix = 1 .. n /\ \A i \in 1 .. n : ix[i].ch \in Nat
    BY DEF Index
  <1>2. IsFiniteSet(1 .. n)
    BY FS_Interval
  <1>3. [i \in 1 .. n |-> ix[i].ch] \in Surjection(1 .. n, ChannelsOf(ix))
    BY <1>1 DEF Surjection, ChannelsOf
  <1>4. IsFiniteSet(ChannelsOf(ix))
    BY <1>2, <1>3, FS_Surjection
  <1> QED BY <1>1, <1>4 DEF ChannelsOf

LEMMA MoreThanOne ==
    ASSUME NEW S, IsFiniteSet(S)
    PROVE  /\ \A x : S = {x} => ~ (Cardinality(S) > 1)
           /\ ~ (Cardinality(S) > 1) => \A x, y \in S : x = y
  <1>1. \A x : S = {x} => ~ (Cardinality(S) > 1)
    <2>1. ASSUME NEW x, S = {x}
          PROVE  Cardinality(S) = 1
      BY <2>1, FS_Singleton
    <2> QED BY <2>1
  <1>2. ASSUME NEW x \in S, NEW y \in S, x # y
        PROVE  Cardinality(S) > 1
    <2>1. IsFiniteSet({x}) /\ Cardinality({x}) = 1
      BY FS_Singleton
    <2>2. {x} \in SUBSET S /\ {x} # S
      BY <1>2
    <2>3. Cardinality({x}) <= Cardinality(S) /\ Cardinality({x}) # Cardinality(S)
      BY <2>2, FS_Subset
    <2>4. Cardinality(S) \in Nat
      BY FS_CardinalityType
    <2> QED BY <2>1, <2>3, <2>4
  <1> QED BY <1>1, <1>2

(* A choice of the key and of the highest, for any answers of the channels *)
(* that are entries of their own.                                          *)
OwnAnswers(ix, best) ==
    /\ DOMAIN best = ChannelsOf(ix)
    /\ \A c \in Answering(best) : best[c] \in DOMAIN ix /\ ix[best[c]].ch = c

LEMMA PickIs ==
    ASSUME NEW ix, Index(ix), NEW best, OwnAnswers(ix, best), NEW pin,
           NEW p, p = Pick(ix, best, KeysOf(ix, best), pin)
    PROVE  /\ p = 0 => \/ pin = Nothing /\ \E c, d \in Answering(best) :
                                              ix[best[c]].key # ix[best[d]].key
                       \/ Answering(best) = {}
                       \/ /\ pin # Nothing /\ \A c \in Answering(best) : ix[best[c]].key # pin
                          /\ \E c, d \in Answering(best) : c # d
           /\ p # 0 => \E c \in Answering(best) :
                          /\ p = best[c]
                          /\ pin = Nothing \/ ix[p].key = pin \/ \A d \in Answering(best) : d = c
           /\ \A c \in Answering(best) :
                 pin # Nothing /\ ix[best[c]].key = pin =>
                    p # 0 /\ ix[p].key = pin /\ ix[best[c]].ver <= ix[p].ver
  <1> PICK some : some = Answering(best)
    OBVIOUS
  <1> PICK C : C = Candidates(best, KeysOf(ix, best), pin)
    OBVIOUS
  <1>1. \A c \in some : KeysOf(ix, best)[c] = ix[best[c]].key /\ best[c] # 0
    BY DEF KeysOf, Answering
  <1>2. some \in SUBSET ChannelsOf(ix) /\ some \in SUBSET Nat /\ IsFiniteSet(some)
    <2>1. some \in SUBSET ChannelsOf(ix)
      BY DEF Answering, OwnAnswers
    <2> QED BY <2>1, FinitelyMany, FS_Subset
  <1>3. /\ Cardinality(some) > 1 /\ pin # Nothing => C = {c \in some : ix[best[c]].key = pin}
        /\ ~ (Cardinality(some) > 1 /\ pin # Nothing) => C = some
    BY <1>1 DEF Candidates, Answering
  <1>4. C \in SUBSET some
    BY <1>3
  <1>5. \A c \in C : best[c] \in DOMAIN ix
    BY <1>4 DEF OwnAnswers
  <1>6. TwoKeys(best, KeysOf(ix, best), pin) <=>
           pin = Nothing /\ \E c, d \in some : ix[best[c]].key # ix[best[d]].key
    <2>1. TwoKeys(best, KeysOf(ix, best), pin) <=>
             pin = Nothing /\ \E c, d \in some : KeysOf(ix, best)[c] # KeysOf(ix, best)[d]
      BY DEF TwoKeys, Answering
    <2> QED BY <1>1, <2>1
  <1>7. CASE TwoKeys(best, KeysOf(ix, best), pin)
    BY <1>6, <1>7 DEF Pick
  <1>8. CASE ~ TwoKeys(best, KeysOf(ix, best), pin)
    <2>1. p = Winner(ix, best, C)
      BY <1>8 DEF Pick
    <2>2. /\ C = {} => p = 0
          /\ C # {} => \E c \in C : p = best[c] /\ \A d \in C : ix[best[d]].ver <= ix[p].ver
      <3>1. C \in SUBSET Nat
        BY <1>2, <1>4
      <3> QED BY <1>5, <2>1, <3>1, WinnerIs
    <2>3. p = 0 => C = {}
      BY <1>1, <1>4, <2>2
    <2>4. p = 0 => \/ some = {}
                   \/ /\ pin # Nothing /\ \A c \in some : ix[best[c]].key # pin
                      /\ \E c, d \in some : c # d
      <3>1. CASE Cardinality(some) > 1 /\ pin # Nothing
        <4>1. \E c, d \in some : c # d
          <5> SUFFICES ASSUME \A c, d \in some : c = d, some # {}
                       PROVE  FALSE
            <6>1. some = {} => ~ (Cardinality(some) > 1)
              BY FS_EmptySet
            <6> QED BY <3>1, <6>1
          <5>1. PICK x \in some : some = {x}
            OBVIOUS
          <5> QED BY <1>2, <3>1, <5>1, MoreThanOne
        <4> QED BY <1>3, <2>3, <3>1, <4>1
      <3>2. CASE ~ (Cardinality(some) > 1 /\ pin # Nothing)
        BY <1>3, <2>3, <3>2
      <3> QED BY <3>1, <3>2
    <2>5. p # 0 => \E c \in some :
                      /\ p = best[c]
                      /\ pin = Nothing \/ ix[p].key = pin \/ \A d \in some : d = c
      <3> SUFFICES ASSUME p # 0
                   PROVE  \E c \in some :
                             /\ p = best[c]
                             /\ pin = Nothing \/ ix[p].key = pin \/ \A d \in some : d = c
        OBVIOUS
      <3>1. PICK c \in C : p = best[c]
        BY <2>2
      <3>2. CASE Cardinality(some) > 1 /\ pin # Nothing
        BY <1>3, <1>4, <3>1, <3>2
      <3>3. CASE pin = Nothing
        BY <1>4, <3>1, <3>3
      <3>4. CASE ~ (Cardinality(some) > 1)
        BY <1>2, <1>4, <3>1, <3>4, MoreThanOne
      <3> QED BY <3>2, <3>3, <3>4
    <2>6. ASSUME NEW c \in some, pin # Nothing, ix[best[c]].key = pin
          PROVE  p # 0 /\ ix[p].key = pin /\ ix[best[c]].ver <= ix[p].ver
      <3>1. c \in C
        BY <1>3, <2>6
      <3>2. PICK d \in C : p = best[d] /\ ix[best[c]].ver <= ix[p].ver
        BY <2>2, <3>1
      <3>3. ix[best[d]].key = pin
        <4>1. CASE Cardinality(some) > 1
          BY <1>3, <2>6, <4>1
        <4>2. CASE ~ (Cardinality(some) > 1)
          <5>1. c = d
            BY <1>2, <1>4, <4>2, MoreThanOne
          <5> QED BY <2>6, <5>1
        <4> QED BY <4>1, <4>2
      <3> QED BY <1>1, <1>4, <3>2, <3>3
    <2> QED BY <1>6, <1>8, <2>4, <2>5, <2>6
  <1> QED BY <1>7, <1>8

(* What STATUS offers and UPGRADE chooses: a highest offer of its channel, *)
(* with the pinned key or from the one channel that offers anything; and   *)
(* it is as high as any channel's best that has that key.                  *)
Choosing(ix, target, pin, p) ==
    /\ p # 0 => /\ p \in Offering(ix, target)
                /\ \A i \in Offering(ix, target) : ix[i].ch = ix[p].ch => ix[i].ver <= ix[p].ver
                /\ \/ pin = Nothing \/ ix[p].key = pin
                   \/ \A i \in Offering(ix, target) : ix[i].ch = ix[p].ch
    /\ \A i \in Offering(ix, target) :
          \E b \in Offering(ix, target) :
             /\ ix[b].ch = ix[i].ch /\ ix[i].ver <= ix[b].ver
             /\ pin # Nothing /\ ix[b].key = pin =>
                   p # 0 /\ ix[p].key = pin /\ ix[b].ver <= ix[p].ver

LEMMA Choosings ==
    ASSUME NEW ix, Index(ix), NEW target, NEW pin,
           NEW p, p = PickOf(ix, Nothing, target, pin).at
    PROVE  Choosing(ix, target, pin, p)
  <1> PICK best : best = BestsOf(ix, Nothing, target)
    OBVIOUS
  <1>1. p = Pick(ix, best, KeysOf(ix, best), pin)
    BY DEF PickOf, BestsOf, ChannelsOf, KeysOf
  <1>2. DOMAIN best = ChannelsOf(ix)
    BY DEF BestsOf
  <1>3. ASSUME NEW c \in ChannelsOf(ix)
        PROVE  /\ best[c] = 0 => \A i \in Offering(ix, target) : ix[i].ch # c
               /\ best[c] # 0 => /\ best[c] \in Offering(ix, target) /\ ix[best[c]].ch = c
                                 /\ \A i \in Offering(ix, target) :
                                       ix[i].ch = c => ix[i].ver <= ix[best[c]].ver
    <2>1. best[c] = Best(ix, c, Nothing, Gone(ix), target)
      BY DEF BestsOf
    <2> QED BY <2>1, BestOfferIs
  <1>4. \A i \in Offering(ix, target) : i \in DOMAIN ix /\ ix[i].ch \in ChannelsOf(ix)
    BY DEF Offering, ChannelsOf
  <1>5. \A c \in Answering(best) : c \in ChannelsOf(ix) /\ best[c] # 0
    BY <1>2 DEF Answering
  <1>6. \A i \in Offering(ix, target) : ix[i].ch \in Answering(best)
    BY <1>2, <1>3, <1>4 DEF Answering
  <1>7. OwnAnswers(ix, best)
    BY <1>2, <1>3, <1>4, <1>5 DEF OwnAnswers
  <1>8. /\ p # 0 => \E c \in Answering(best) :
                       /\ p = best[c]
                       /\ pin = Nothing \/ ix[p].key = pin \/ \A d \in Answering(best) : d = c
        /\ \A c \in Answering(best) :
              pin # Nothing /\ ix[best[c]].key = pin =>
                 p # 0 /\ ix[p].key = pin /\ ix[best[c]].ver <= ix[p].ver
    BY <1>1, <1>7, PickIs
  <1>9. ASSUME p # 0
        PROVE  /\ p \in Offering(ix, target)
               /\ \A i \in Offering(ix, target) : ix[i].ch = ix[p].ch => ix[i].ver <= ix[p].ver
               /\ \/ pin = Nothing \/ ix[p].key = pin
                  \/ \A i \in Offering(ix, target) : ix[i].ch = ix[p].ch
    <2>1. PICK c \in Answering(best) :
             /\ p = best[c]
             /\ pin = Nothing \/ ix[p].key = pin \/ \A d \in Answering(best) : d = c
      BY <1>8, <1>9
    <2>2. /\ p \in Offering(ix, target) /\ ix[p].ch = c
          /\ \A i \in Offering(ix, target) : ix[i].ch = c => ix[i].ver <= ix[p].ver
      BY <1>3, <1>5, <2>1
    <2> QED BY <1>6, <2>1, <2>2
  <1>10. ASSUME NEW i \in Offering(ix, target)
         PROVE  \E b \in Offering(ix, target) :
                   /\ ix[b].ch = ix[i].ch /\ ix[i].ver <= ix[b].ver
                   /\ pin # Nothing /\ ix[b].key = pin =>
                         p # 0 /\ ix[p].key = pin /\ ix[b].ver <= ix[p].ver
    <2>1. PICK c \in Answering(best) : c = ix[i].ch
      BY <1>6
    <2>2. PICK b : b = best[c]
      OBVIOUS
    <2>3. b \in Offering(ix, target) /\ ix[b].ch = c /\ ix[i].ver <= ix[b].ver
      BY <1>3, <1>5, <2>1, <2>2
    <2> QED BY <1>8, <2>1, <2>2, <2>3
  <1> QED BY <1>9, <1>10 DEF Choosing

(* Where no version is there twice, the second look, for the version of    *)
(* the first choice, finds it, not withdrawn and with the same key.        *)
LEMMA SecondLook ==
    ASSUME NEW ix, Index(ix), OneBuild(ix), Nothing \notin Nat, NEW target, NEW pin,
           NEW p, p = PickOf(ix, Nothing, target, pin).at, p # 0,
           NEW q, q = PickOf(ix, ix[p].ver, target, pin).at
    PROVE  /\ q \in DOMAIN ix /\ q # 0 /\ ix[q].ver = ix[p].ver
           /\ ~ ix[q].gone /\ ix[q].key = ix[p].key
  <1> PICK v : v = ix[p].ver
    OBVIOUS
  <1> PICK best : best = BestsOf(ix, v, target)
    OBVIOUS
  <1>1. q = Pick(ix, best, KeysOf(ix, best), pin)
    BY DEF PickOf, BestsOf, ChannelsOf, KeysOf
  <1>2. /\ p \in Offering(ix, target)
        /\ \/ pin = Nothing \/ ix[p].key = pin
           \/ \A i \in Offering(ix, target) : ix[i].ch = ix[p].ch
    BY Choosings DEF Choosing
  <1>3. p \in DOMAIN ix /\ ArchMatches(ix[p], target) /\ ~ ix[p].gone
    BY <1>2 DEF Offering
  <1>4. v # Nothing
    BY <1>3 DEF Index
  <1>5. ASSUME NEW c \in ChannelsOf(ix)
        PROVE  /\ best[c] = 0 =>
                     \A i \in DOMAIN ix : ArchMatches(ix[i], target) /\ ix[i].ver = v => ix[i].ch # c
               /\ best[c] # 0 => /\ best[c] \in DOMAIN ix /\ ix[best[c]].ch = c /\ ix[best[c]].ver = v
                                 /\ ArchMatches(ix[best[c]], target)
    <2>1. best[c] = Best(ix, c, v, Gone(ix), target)
      BY DEF BestsOf
    <2> QED BY <1>4, <2>1, BestAskedIs
  <1>6. DOMAIN best = ChannelsOf(ix)
    BY DEF BestsOf
  <1>7. \A c \in Answering(best) : c \in ChannelsOf(ix) /\ best[c] # 0
    BY <1>6 DEF Answering
  <1>8. ix[p].ch \in Answering(best)
    <2>1. ix[p].ch \in ChannelsOf(ix)
      BY <1>3 DEF ChannelsOf
    <2> QED BY <1>3, <1>5, <1>6, <2>1 DEF Answering
  <1>9. OwnAnswers(ix, best)
    BY <1>5, <1>6, <1>7 DEF OwnAnswers
  <1>10. \A i \in DOMAIN ix : ix[i].ver = v => ix[i].key = ix[p].key /\ ~ ix[i].gone
    BY <1>3 DEF OneBuild
  <1>11. ASSUME NEW c \in Answering(best)
         PROVE  /\ best[c] \in Offering(ix, target) /\ ix[best[c]].ch = c
                /\ ix[best[c]].key = ix[p].key /\ ix[best[c]].ver = v
    BY <1>5, <1>7, <1>10 DEF Offering
  <1>12. q # 0
    <2> SUFFICES ASSUME q = 0
                 PROVE  FALSE
      OBVIOUS
    <2>1. \/ pin = Nothing /\ \E c, d \in Answering(best) : ix[best[c]].key # ix[best[d]].key
          \/ Answering(best) = {}
          \/ /\ pin # Nothing /\ \A c \in Answering(best) : ix[best[c]].key # pin
             /\ \E c, d \in Answering(best) : c # d
      BY <1>1, <1>9, PickIs
    <2>2. /\ pin # Nothing /\ \A c \in Answering(best) : ix[best[c]].key # pin
          /\ \E c, d \in Answering(best) : c # d
      <3>1. ASSUME NEW c \in Answering(best), NEW d \in Answering(best)
            PROVE  ix[best[c]].key = ix[best[d]].key
        <4>1. ix[best[c]].key = ix[p].key
          BY <1>11
        <4>2. ix[best[d]].key = ix[p].key
          BY <1>11
        <4> QED BY <4>1, <4>2
      <3>2. Answering(best) # {}
        BY <1>8
      <3>3. ~ \E c, d \in Answering(best) : ix[best[c]].key # ix[best[d]].key
        BY <3>1
      <3> QED BY <2>1, <3>2, <3>3
    <2>3. ix[p].key # pin
      BY <1>8, <1>11, <2>2
    <2>4. \A c \in Answering(best) : c = ix[p].ch
      BY <1>2, <1>11, <2>2, <2>3
    <2> QED BY <2>2, <2>4
  <1>13. PICK c \in Answering(best) : q = best[c]
    BY <1>1, <1>9, <1>12, PickIs
  <1> QED BY <1>7, <1>10, <1>11, <1>12, <1>13 DEF Offering

(* The version whose key is presumed the publisher's.                      *)
LEMMA OldestIs ==
    ASSUME NEW ix, Index(ix), NEW q \in DOMAIN ix, NEW o, o = Oldest(ix, ix[q].ch)
    PROVE  o \in DOMAIN ix /\ ix[o].ch = ix[q].ch /\ ix[o].ver <= ix[q].ver
  <1> PICK own \in SUBSET DOMAIN ix : own = {i \in DOMAIN ix : ix[i].ch = ix[q].ch}
    OBVIOUS
  <1> PICK low \in SUBSET own : low = {i \in own : \A j \in own : ix[i].ver <= ix[j].ver}
    OBVIOUS
  <1>1. q \in own /\ own \in SUBSET Nat /\ \A i \in own : ix[i].ver \in Nat
    BY DEF Index
  <1>2. PICK V \in SUBSET Nat : V = {ix[i].ver : i \in own}
    BY <1>1
  <1>3. PICK v \in V : \A w \in V : v <= w
    <2>1. V # {}
      BY <1>1, <1>2
    <2> QED BY <2>1, Least
  <1>4. PICK i \in low : \A j \in low : i <= j
    <2>1. low # {}
      <3>1. PICK k \in own : v = ix[k].ver
        BY <1>2, <1>3
      <3>2. \A j \in own : ix[k].ver <= ix[j].ver
        BY <1>2, <1>3, <3>1
      <3> QED BY <3>1, <3>2
    <2>2. low \in SUBSET Nat
      BY <1>1
    <2> QED BY <2>1, <2>2, Least
  <1>5. o = CHOOSE k \in low : \A j \in low : k <= j
    BY DEF Oldest
  <1>6. o \in low
    BY <1>4, <1>5
  <1> QED BY <1>1, <1>6

(* What UPGRADE does with a newer choice.                                  *)
LEMMA UpgradeTakes ==
    ASSUME NEW ix, Index(ix), OneBuild(ix), Nothing \notin Nat, NEW base, NEW m, m.ver \in Nat, NEW pin,
           NEW p, p = PickOf(ix, Nothing, ArchFor(base, m), pin).at,
           p # 0, ix[p].ver > m.ver,
           NEW u, u = Upgrade(ix, base, m, pin)
    PROVE  /\ pin # Nothing /\ ix[p].key = pin => u.how = "taken" /\ ix[u.at].ver = ix[p].ver
           /\ pin # Nothing /\ ix[p].key # pin => u.how = "other-key"
           /\ pin = Nothing => \/ u.how = "taken" /\ ix[u.at].ver = ix[p].ver
                               \/ u.how = "first-key" /\ OlderSigner(ix, u.at)
  <1> PICK target : target = ArchFor(base, m)
    OBVIOUS
  <1> PICK q : q = PickOf(ix, ix[p].ver, target, pin).at
    OBVIOUS
  <1>1. /\ q \in DOMAIN ix /\ q # 0 /\ ix[q].ver = ix[p].ver
        /\ ~ ix[q].gone /\ ix[q].key = ix[p].key
    BY SecondLook
  <1>2. u = Planned(ix, ix[p].ver, target, pin)
    <2>1. p \in DOMAIN ix
      BY Choosings DEF Choosing, Offering
    <2>2. ix[p].ver \in Nat
      BY <2>1 DEF Index
    <2>3. ix[p].ver # m.ver /\ ~ (ix[p].ver < m.ver)
      BY <2>2
    <2> QED BY <2>3 DEF Upgrade
  <1>3. CASE pin # Nothing /\ ix[p].key = pin
    <2>1. u = [how |-> "taken", at |-> q]
      BY <1>1, <1>2, <1>3 DEF Planned
    <2> QED BY <1>1, <1>3, <2>1
  <1>4. CASE pin # Nothing /\ ix[p].key # pin
    <2>1. u = [how |-> "other-key", at |-> q]
      BY <1>1, <1>2, <1>4 DEF Planned
    <2> QED BY <1>4, <2>1
  <1>5. CASE pin = Nothing
    <2>1. PICK o : o = Oldest(ix, ix[q].ch)
      OBVIOUS
    <2>2. o \in DOMAIN ix /\ ix[o].ch = ix[q].ch /\ ix[o].ver <= ix[q].ver
      BY <1>1, <2>1, OldestIs
    <2>3. CASE ix[q].key = ix[o].key
      <3>1. u = [how |-> "taken", at |-> q]
        BY <1>1, <1>2, <1>5, <2>1, <2>3 DEF Planned
      <3> QED BY <1>1, <1>5, <3>1
    <2>4. CASE ix[q].key # ix[o].key
      <3>1. u = [how |-> "first-key", at |-> q]
        BY <1>1, <1>2, <1>5, <2>1, <2>4 DEF Planned
      <3>2. ix[o].ver # ix[q].ver
        BY <1>1, <2>2, <2>4 DEF OneBuild
      <3>3. ix[o].ver \in Nat /\ ix[q].ver \in Nat
        BY <1>1, <2>2 DEF Index
      <3>4. ix[o].ver < ix[q].ver
        BY <2>2, <3>2, <3>3
      <3>5. OlderSigner(ix, q)
        BY <2>2, <2>4, <3>4 DEF OlderSigner
      <3> QED BY <1>5, <3>1, <3>5
    <2> QED BY <2>3, <2>4
  <1> QED BY <1>3, <1>4, <1>5

LEMMA TakesNewer ==
    ASSUME NEW ix, Index(ix), NEW base, NEW m, m.ver \in Nat, NEW pin,
           NEW p, p = PickOf(ix, Nothing, ArchFor(base, m), pin).at,
           Upgrade(ix, base, m, pin).how = "taken"
    PROVE  p # 0 /\ ix[p].ver > m.ver
  <1>1. p # 0
    BY DEF Upgrade
  <1>2. p \in DOMAIN ix
    BY <1>1, Choosings DEF Choosing, Offering
  <1>3. ix[p].ver \in Nat
    BY <1>2 DEF Index
  <1>4. ix[p].ver # m.ver /\ ~ (ix[p].ver < m.ver)
    BY <1>1 DEF Upgrade
  <1> QED BY <1>1, <1>3, <1>4

(* What a program is told its channels offer: the highest of all.          *)
LEMMA CheckOfferIs ==
    ASSUME NEW ix, Index(ix), NEW target, NEW a, a = CheckOffer(ix, target)
    PROVE  /\ a = 0 => Offering(ix, target) = {}
           /\ a # 0 => /\ a \in Offering(ix, target)
                       /\ \A i \in Offering(ix, target) : ix[i].ver <= ix[a].ver
  <1> PICK some \in SUBSET DOMAIN ix : some = Offering(ix, target)
    BY DEF Offering
  <1>1. a = IF some = {} THEN 0 ELSE FirstHighest(ix, some)
    BY DEF CheckOffer, FirstHighest, Offering
  <1>2. 0 \notin DOMAIN ix
    BY DEF Index
  <1>3. CASE some = {}
    BY <1>1, <1>3
  <1>4. CASE some # {}
    <2>1. a \in some /\ \A j \in some : ix[j].ver <= ix[a].ver
      BY <1>1, <1>4, FirstHighestIs
    <2> QED BY <1>2, <2>1
  <1> QED BY <1>3, <1>4

(* For any index of any length, channels, versions, keys and machines: the *)
(* three walks over it agree as StandingsAgree says, which TLC checks for  *)
(* indexes of up to three entries.  Where no key is pinned, STATUS can     *)
(* offer what UPGRADE refuses, and then an older version of the channel    *)
(* has another key than the one offered (plan_one's first signer).         *)
THEOREM StandingsAlways ==
    ASSUME Nothing \notin Nat, NEW Arch, NEW Key,
           NEW ix \in Seq([ch : Nat, ver : Nat, arch : Arch, key : Key, gone : BOOLEAN]),
           NEW base, NEW m \in [ver : Nat, arch : Arch], NEW pin, NEW edited
    PROVE  Agree(ix, base, m, pin, edited)
  <1>1. Index(ix)
    <2>1. PICK n \in Nat : n = Len(ix) /\ DOMAIN ix = 1 .. n
      OBVIOUS
    <2>2. \A i \in 1 .. n : ix[i] \in [ch : Nat, ver : Nat, arch : Arch, key : Key, gone : BOOLEAN]
      <3> PICK E : E = [ch : Nat, ver : Nat, arch : Arch, key : Key, gone : BOOLEAN]
        OBVIOUS
      <3>1. ix \in Seq(E)
        OBVIOUS
      <3>2. \A i \in 1 .. Len(ix) : ix[i] \in E
        BY <3>1, ElementOfSeq
      <3> QED BY <2>1, <3>2
    <2>3. \A i \in 1 .. n : ix[i].ch \in Nat /\ ix[i].ver \in Nat /\ ix[i].gone \in BOOLEAN
      BY <2>2
    <2> QED BY <2>1, <2>3 DEF Index
  <1>2. m.ver \in Nat
    OBVIOUS
  <1> PICK s : s = Stand(ix, base, m, pin, edited)
    OBVIOUS
  <1> PICK u : u = Upgrade(ix, base, m, pin)
    OBVIOUS
  <1> PICK check : check = UpdateCheck(ix, base, m, pin)
    OBVIOUS
  <1> PICK target : target = ArchFor(base, m)
    OBVIOUS
  <1> PICK p : p = PickOf(ix, Nothing, target, pin).at
    OBVIOUS
  <1> PICK compared : compared = IF base = Nothing THEN m.arch ELSE base
    OBVIOUS
  <1> PICK a : a = CheckOffer(ix, compared)
    OBVIOUS
  <1>3. s.offer = p /\ (s.newer <=> p # 0 /\ ix[p].ver > m.ver)
    BY DEF Stand
  <1>4. Choosing(ix, target, pin, p)
    BY <1>1, Choosings
  <1>5. /\ a = 0 => Offering(ix, compared) = {}
        /\ a # 0 => /\ a \in Offering(ix, compared)
                    /\ \A i \in Offering(ix, compared) : ix[i].ver <= ix[a].ver
    BY <1>1, CheckOfferIs
  <1>6. /\ check = "key-changed" <=> pin # Nothing /\ a # 0 /\ ix[a].key # pin
        /\ check = "available" <=> /\ pin # Nothing /\ a # 0 /\ ix[a].key = pin
                                   /\ ix[a].ver > m.ver
    BY DEF UpdateCheck
  <1>7. base # Nothing \/ m.arch # Generic => compared = target
    BY DEF ArchFor
  <1>8. \A t : \A i \in Offering(ix, t) : i \in DOMAIN ix /\ ix[i].ver \in Nat
    BY <1>1 DEF Offering, Index
  <1> SUFFICES ASSUME OneBuild(ix)
               PROVE  /\ s.newer =>
                           \/ u.how = "taken" /\ ix[u.at].ver = ix[s.offer].ver
                           \/ u.how = "other-key" /\ (base # Nothing => check = "key-changed")
                           \/ u.how = "first-key" /\ pin = Nothing /\ OlderSigner(ix, u.at)
                      /\ u.how = "taken" => s.newer
                      /\ check = "available" =>
                           \/ u.how = "taken"
                           \/ base = Nothing /\ m.arch = Generic /\ ~ OneSigner(ix)
                      /\ u.how = "taken" /\ pin # Nothing /\ base # Nothing =>
                           \/ check = "available"
                           \/ check = "key-changed" /\ \E i, j \in DOMAIN ix : ix[i].ch # ix[j].ch
    BY DEF Agree
  <1>9. p # 0 /\ ix[p].ver > m.ver =>
           /\ pin # Nothing /\ ix[p].key = pin => u.how = "taken" /\ ix[u.at].ver = ix[p].ver
           /\ pin # Nothing /\ ix[p].key # pin => u.how = "other-key"
           /\ pin = Nothing => \/ u.how = "taken" /\ ix[u.at].ver = ix[p].ver
                               \/ u.how = "first-key" /\ OlderSigner(ix, u.at)
    BY <1>1, <1>2, UpgradeTakes
  <1>10. u.how = "taken" => s.newer
    BY <1>1, <1>2, <1>3, TakesNewer
  <1>11. ASSUME s.newer
         PROVE  \/ u.how = "taken" /\ ix[u.at].ver = ix[s.offer].ver
                \/ u.how = "other-key" /\ (base # Nothing => check = "key-changed")
                \/ u.how = "first-key" /\ pin = Nothing /\ OlderSigner(ix, u.at)
    <2>1. CASE pin = Nothing \/ ix[p].key = pin
      BY <1>3, <1>9, <1>11, <2>1
    <2>2. CASE pin # Nothing /\ ix[p].key # pin
      <3>1. ASSUME base # Nothing
            PROVE  check = "key-changed"
        <4>1. p \in Offering(ix, compared) /\ \A i \in Offering(ix, compared) : ix[i].ver <= ix[p].ver
          BY <1>3, <1>4, <1>7, <1>11, <2>2, <3>1 DEF Choosing
        <4>2. a \in Offering(ix, compared) /\ a # 0 /\ ix[p].ver <= ix[a].ver
          BY <1>5, <4>1
        <4>3. ix[a].ver <= ix[p].ver
          BY <4>1, <4>2
        <4>4. ix[a].ver = ix[p].ver
          BY <1>8, <4>1, <4>2, <4>3
        <4>5. ix[a].key = ix[p].key
          BY <1>8, <4>1, <4>2, <4>4 DEF OneBuild
        <4> QED BY <1>6, <2>2, <4>2, <4>5
      <3> QED BY <1>3, <1>9, <1>11, <2>2, <3>1
    <2> QED BY <2>1, <2>2
  <1>12. ASSUME check = "available", ~ (base = Nothing /\ m.arch = Generic /\ ~ OneSigner(ix))
         PROVE  u.how = "taken"
    <2>1. pin # Nothing /\ a # 0 /\ ix[a].key = pin /\ ix[a].ver > m.ver
      BY <1>6, <1>12
    <2>2. /\ a \in Offering(ix, compared)
          /\ \A i \in Offering(ix, compared) : ix[i].ver <= ix[a].ver
      BY <1>5, <2>1
    <2>3. a \in Offering(ix, target)
      <3>1. CASE base # Nothing \/ m.arch # Generic
        BY <1>7, <2>2, <3>1
      <3>2. CASE base = Nothing /\ m.arch = Generic
        BY <2>2, <3>2 DEF ArchFor, Offering, ArchMatches
      <3> QED BY <3>1, <3>2
    <2>4. PICK b \in Offering(ix, target) :
             /\ ix[b].ch = ix[a].ch /\ ix[a].ver <= ix[b].ver
             /\ pin # Nothing /\ ix[b].key = pin =>
                   p # 0 /\ ix[p].key = pin /\ ix[b].ver <= ix[p].ver
      BY <1>4, <2>3 DEF Choosing
    <2>5. ix[b].key = pin
      <3>1. CASE base # Nothing \/ m.arch # Generic
        <4>1. ix[b].ver <= ix[a].ver
          BY <1>7, <2>2, <2>4, <3>1
        <4>2. ix[b].ver = ix[a].ver
          BY <1>8, <2>3, <2>4, <4>1
        <4> QED BY <1>8, <2>1, <2>3, <2>4, <4>2 DEF OneBuild
      <3>2. CASE base = Nothing /\ m.arch = Generic
        <4>1. OneSigner(ix)
          BY <1>12, <3>2
        <4> QED BY <1>8, <2>1, <2>3, <2>4, <4>1 DEF OneSigner
      <3> QED BY <3>1, <3>2
    <2>6. p # 0 /\ ix[p].key = pin /\ ix[b].ver <= ix[p].ver
      BY <2>1, <2>4, <2>5
    <2>7. p \in Offering(ix, target)
      BY <1>4, <2>6 DEF Choosing
    <2>8. ix[p].ver > m.ver
      <3>1. ix[p].ver \in Nat /\ ix[b].ver \in Nat /\ ix[a].ver \in Nat
        BY <1>8, <2>3, <2>4, <2>7
      <3>2. ix[a].ver <= ix[b].ver /\ ix[b].ver <= ix[p].ver /\ ix[a].ver > m.ver
        BY <2>1, <2>4, <2>6
      <3> PICK x : x = ix[a].ver
        OBVIOUS
      <3> PICK y : y = ix[b].ver
        OBVIOUS
      <3> PICK z : z = ix[p].ver
        OBVIOUS
      <3> PICK v : v = m.ver
        OBVIOUS
      <3>3. x \in Nat /\ y \in Nat /\ z \in Nat /\ v \in Nat
        BY <1>2, <3>1, ZenonT(60)
      <3>4. x <= y /\ y <= z /\ x > v
        BY <3>2, ZenonT(60)
      <3>5. z > v
        BY ONLY <3>3, <3>4
      <3> QED BY <3>5, ZenonT(60)
    <2> QED BY <1>9, <2>1, <2>6, <2>8
  <1>13. ASSUME u.how = "taken", pin # Nothing, base # Nothing
         PROVE  \/ check = "available"
                \/ check = "key-changed" /\ \E i, j \in DOMAIN ix : ix[i].ch # ix[j].ch
    <2>1. p # 0 /\ ix[p].ver > m.ver
      BY <1>3, <1>10, <1>13
    <2>2. ix[p].key = pin
      <3> SUFFICES ASSUME ix[p].key # pin
                   PROVE  FALSE
        OBVIOUS
      <3>1. u.how = "other-key"
        BY <1>9, <1>13, <2>1
      <3> QED BY <1>13, <3>1
    <2>3. /\ p \in Offering(ix, compared)
          /\ \A i \in Offering(ix, compared) : ix[i].ch = ix[p].ch => ix[i].ver <= ix[p].ver
      BY <1>4, <1>7, <1>13, <2>1 DEF Choosing
    <2>4. a # 0 /\ a \in Offering(ix, compared) /\ ix[p].ver <= ix[a].ver
      BY <1>5, <2>3
    <2>5. ix[a].ver \in Nat /\ ix[p].ver \in Nat /\ a \in DOMAIN ix /\ p \in DOMAIN ix
      BY <1>8, <2>3, <2>4
    <2>6. CASE ix[a].key = pin
      BY <1>2, <1>6, <1>13, <2>1, <2>4, <2>5, <2>6
    <2>7. CASE ix[a].key # pin
      <3>1. ix[a].ch # ix[p].ch
        <4> SUFFICES ASSUME ix[a].ch = ix[p].ch
                     PROVE  FALSE
          OBVIOUS
        <4>1. ix[a].ver <= ix[p].ver
          BY <2>3, <2>4
        <4>2. ix[a].ver = ix[p].ver
          BY <2>4, <2>5, <4>1
        <4> QED BY <2>2, <2>5, <2>7, <4>2 DEF OneBuild
      <3> QED BY <1>6, <1>13, <2>4, <2>5, <2>7, <3>1
    <2> QED BY <2>6, <2>7
  <1> QED BY <1>10, <1>11, <1>12, <1>13
=============================================================================
