----------------------------- MODULE PushProofs -----------------------------
(***************************************************************************)
(* Proofs about PUSH and a portal's channel, for any publishers, lines,    *)
(* files, offers and bounds.                                               *)
(***************************************************************************)
EXTENDS Push, SequenceTheorems, NaturalsInduction, WellFoundedInduction, TLAPS

(* Induction over the numbers, said of a set of them.                      *)
Less == {p \in Nat \X Nat : p[1] < p[2]}

LEMMA LessWellFounded == IsWellFoundedOn(Less, Nat)
  <1>1. Less = OpToRel(<, Nat)
    BY DEF Less, OpToRel
  <1> QED BY <1>1, NatLessThanWellFounded

LEMMA Least ==
    ASSUME NEW N \in SUBSET Nat, N # {}
    PROVE  \E n \in N : \A m \in N : n <= m
  <1>1. PICK n \in N : \A m \in N : <<m, n>> \notin Less
    BY LessWellFounded, WFMin
  <1>2. ASSUME NEW m \in N
        PROVE  n <= m
    <2>1. m \in Nat /\ n \in Nat
      OBVIOUS
    <2>2. ~(m < n)
      BY <1>1, <2>1 DEF Less
    <2> QED BY <2>1, <2>2
  <1> QED BY <1>2

LEMMA Induction ==
    ASSUME NEW N, 0 \in N, \A n \in Nat : n \in N => n + 1 \in N
    PROVE  Nat \subseteq N
  <1> SUFFICES ASSUME Nat \ N # {}
               PROVE  FALSE
    OBVIOUS
  <1>1. PICK n \in Nat \ N : \A m \in Nat \ N : n <= m
    BY Least
  <1>2. n # 0 /\ n - 1 \in Nat /\ n - 1 \in N
    BY <1>1
  <1> QED BY <1>1, <1>2

-----------------------------------------------------------------------------
(* Sequences. *)
LEMMA RangeOf ==
    ASSUME NEW T, NEW s \in Seq(T)
    PROVE  /\ Len(s) \in Nat /\ DOMAIN s = 1 .. Len(s)
           /\ Range(s) \subseteq T /\ s \in Seq(Range(s))
           /\ \A i \in 1 .. Len(s) : s[i] \in T /\ s[i] \in Range(s)
           /\ \A x \in Range(s) : \E i \in 1 .. Len(s) : s[i] = x
  <1>1. Len(s) \in Nat /\ DOMAIN s = 1 .. Len(s) /\ s \in [1 .. Len(s) -> T]
    BY LenProperties
  <1>2. \A i \in 1 .. Len(s) : s[i] \in T /\ s[i] \in Range(s)
    BY <1>1 DEF Range
  <1>3. Range(s) \subseteq T /\ \A x \in Range(s) : \E i \in 1 .. Len(s) : s[i] = x
    BY <1>1 DEF Range
  <1>4. s \in [1 .. Len(s) -> Range(s)]
    BY <1>1, <1>2
  <1>5. s \in Seq(Range(s))
    BY <1>1, <1>4 DEF Seq
  <1> QED BY <1>1, <1>2, <1>3, <1>5

LEMMA RangeOfConcat ==
    ASSUME NEW T, NEW s \in Seq(T), NEW t \in Seq(T)
    PROVE  s \o t \in Seq(T) /\ Range(s \o t) = Range(s) \cup Range(t)
  <1>1. /\ s \o t \in Seq(T) /\ Len(s \o t) = Len(s) + Len(t)
        /\ \A i \in 1 .. Len(s) + Len(t) : (s \o t)[i] = IF i <= Len(s) THEN s[i] ELSE t[i - Len(s)]
    BY ConcatProperties
  <1>2. Len(s) \in Nat /\ Len(t) \in Nat
    BY LenProperties
  <1>3. \A i \in 1 .. Len(s) : i \in 1 .. Len(s) + Len(t) /\ (s \o t)[i] = s[i]
    BY <1>1, <1>2
  <1>4. \A i \in 1 .. Len(t) : Len(s) + i \in 1 .. Len(s) + Len(t) /\ (s \o t)[Len(s) + i] = t[i]
    BY <1>1, <1>2
  <1>5. \A i \in 1 .. Len(s) + Len(t) : i \in 1 .. Len(s) \/ i - Len(s) \in 1 .. Len(t)
    BY <1>2
  <1>6. Range(s) \cup Range(t) \subseteq Range(s \o t)
    <2>1. \A i \in 1 .. Len(s) + Len(t) : (s \o t)[i] \in Range(s \o t)
      BY <1>1, RangeOf
    <2>2. \A i \in 1 .. Len(s) : s[i] \in Range(s \o t)
      BY <1>3, <2>1
    <2>3. \A i \in 1 .. Len(t) : t[i] \in Range(s \o t)
      BY <1>4, <2>1
    <2>4. Range(s) = {s[i] : i \in 1 .. Len(s)} /\ Range(t) = {t[i] : i \in 1 .. Len(t)}
      BY LenProperties DEF Range
    <2> QED BY <2>2, <2>3, <2>4
  <1>7. Range(s \o t) \subseteq Range(s) \cup Range(t)
    <2> SUFFICES ASSUME NEW i \in 1 .. Len(s) + Len(t)
                 PROVE  (s \o t)[i] \in Range(s) \cup Range(t)
      <3>1. DOMAIN (s \o t) = 1 .. Len(s) + Len(t)
        BY <1>1, LenProperties
      <3> QED BY <3>1 DEF Range
    <2>1. CASE i \in 1 .. Len(s)
      BY <1>3, <2>1, RangeOf
    <2>2. CASE i - Len(s) \in 1 .. Len(t)
      BY <1>1, <1>2, <2>2, RangeOf
    <2> QED BY <1>5, <2>1, <2>2
  <1> QED BY <1>1, <1>6, <1>7

LEMMA RangeOfOne ==
    ASSUME NEW x
    PROVE  <<x>> \in Seq({x}) /\ Range(<<x>>) = {x} /\ Len(<<x>>) = 1 /\ <<x>>[1] = x
  BY DEF Range

LEMMA RangeOfNone == Range(<<>>) = {} /\ Len(<<>>) = 0
  BY DEF Range

LEMMA RangeOfTail ==
    ASSUME NEW T, NEW s \in Seq(T), s # <<>>
    PROVE  /\ Head(s) \in T /\ Head(s) = s[1] /\ 1 \in DOMAIN s /\ Head(s) \in Range(s)
           /\ Tail(s) \in Seq(T) /\ Len(Tail(s)) = Len(s) - 1
           /\ Range(s) = {Head(s)} \cup Range(Tail(s))
           /\ \A i \in 1 .. Len(Tail(s)) : i + 1 \in 1 .. Len(s) /\ Tail(s)[i] = s[i + 1]
  <1>1. /\ Head(s) \in T /\ Tail(s) \in Seq(T) /\ Len(Tail(s)) = Len(s) - 1
        /\ \A i \in 1 .. Len(Tail(s)) : Tail(s)[i] = s[i + 1]
    BY HeadTailProperties
  <1>2. Len(s) \in Nat \ {0} /\ DOMAIN s = 1 .. Len(s) /\ Head(s) = s[1]
    BY EmptySeq, LenProperties
  <1>3. \A i \in 1 .. Len(s) : i = 1 \/ (i - 1 \in 1 .. Len(s) - 1 /\ (i - 1) + 1 = i)
    BY <1>2
  <1>4. \A i \in 1 .. Len(s) - 1 : i + 1 \in 1 .. Len(s)
    BY <1>2
  <1>5. Range(s) \subseteq {Head(s)} \cup Range(Tail(s))
    <2> SUFFICES ASSUME NEW i \in 1 .. Len(s)
                 PROVE  s[i] = s[1] \/ s[i] \in Range(Tail(s))
      BY <1>2, RangeOf
    <2>1. CASE i # 1
      <3>1. i - 1 \in 1 .. Len(Tail(s)) /\ Tail(s)[i - 1] = s[i]
        BY <1>1, <1>3, <2>1
      <3> QED BY <1>1, <3>1, RangeOf
    <2> QED BY <2>1
  <1>6. {Head(s)} \cup Range(Tail(s)) \subseteq Range(s)
    <2>1. \A i \in 1 .. Len(Tail(s)) : Tail(s)[i] \in Range(s)
      BY <1>1, <1>4, RangeOf
    <2>2. Head(s) \in Range(s)
      BY <1>2, RangeOf
    <2>3. Range(Tail(s)) = {Tail(s)[i] : i \in 1 .. Len(Tail(s))}
      BY <1>1, LenProperties DEF Range
    <2> QED BY <2>1, <2>2, <2>3
  <1> QED BY <1>1, <1>2, <1>4, <1>5, <1>6, RangeOf

(* Concat is what its steps make: such a sequence of steps exists, and the *)
(* definition chooses one.                                                 *)
StepsOf(g, s, N, c) == c[0] = <<>> /\ \A n \in 1 .. N : c[n] = c[n - 1] \o g[s[n]]
HasSteps(T, g, s, N) == \E c \in [0 .. N -> Seq(T)] : StepsOf(g, s, N, c)

LEMMA OneStepMore ==
    ASSUME NEW D, NEW T, NEW g \in [D -> Seq(T)], NEW s \in Seq(D), NEW k \in Nat, k + 1 <= Len(s),
           HasSteps(T, g, s, k)
    PROVE  HasSteps(T, g, s, k + 1)
  <1>0. Len(s) \in Nat /\ k + 1 \in 1 .. Len(s) /\ k \in 0 .. k /\ 0 \in 0 .. k
    BY LenProperties
  <1>1. PICK c \in [0 .. k -> Seq(T)] : StepsOf(g, s, k, c)
    BY DEF HasSteps
  <1>2. g[s[k + 1]] \in Seq(T)
    BY <1>0, RangeOf
  <1> DEFINE d == [n \in 0 .. k + 1 |-> IF n = k + 1 THEN c[k] \o g[s[k + 1]] ELSE c[n]]
  <1>3. c[k] \in Seq(T) /\ c[k] \o g[s[k + 1]] \in Seq(T)
    BY <1>0, <1>1, <1>2, ConcatProperties
  <1>4. \A n \in 0 .. k + 1 : n = k + 1 \/ n \in 0 .. k
    OBVIOUS
  <1>5. d \in [0 .. k + 1 -> Seq(T)]
    BY <1>1, <1>3, <1>4
  <1>6. \A n \in 0 .. k : d[n] = c[n]
    BY <1>1
  <1>7. d[k + 1] = c[k] \o g[s[k + 1]] /\ (k + 1) - 1 = k
    OBVIOUS
  <1> HIDE DEF d
  <1>8. d[0] = <<>>
    BY <1>0, <1>1, <1>6 DEF StepsOf
  <1>9. ASSUME NEW n \in 1 .. k + 1
        PROVE  d[n] = d[n - 1] \o g[s[n]]
    <2>1. CASE n = k + 1
      <3>1. d[n - 1] = c[k]
        BY <1>0, <1>6, <1>7, <2>1
      <3> QED BY <1>7, <2>1, <3>1
    <2>2. CASE n # k + 1
      <3>1. n \in 1 .. k /\ n \in 0 .. k /\ n - 1 \in 0 .. k
        BY <2>2
      <3>2. c[n] = c[n - 1] \o g[s[n]]
        BY <1>1, <3>1 DEF StepsOf
      <3> QED BY <1>6, <3>1, <3>2
    <2> QED BY <2>1, <2>2
  <1> QED BY <1>5, <1>8, <1>9 DEF StepsOf, HasSteps

LEMMA ConcatExists ==
    ASSUME NEW D, NEW T, NEW g \in [D -> Seq(T)], NEW s \in Seq(D)
    PROVE  HasSteps(T, g, s, Len(s))
  <1> DEFINE K == {k \in Nat : k <= Len(s) => HasSteps(T, g, s, k)}
  <1>0. Len(s) \in Nat /\ Len(s) <= Len(s)
    BY LenProperties
  <1>1. 0 \in K
    <2> DEFINE c == [n \in 0 .. 0 |-> <<>>]
    <2>1. c \in [0 .. 0 -> Seq(T)] /\ c[0] = <<>>
      OBVIOUS
    <2>2. \A n \in 1 .. 0 : FALSE
      OBVIOUS
    <2> HIDE DEF c
    <2>3. StepsOf(g, s, 0, c)
      BY <2>1, <2>2 DEF StepsOf
    <2>4. HasSteps(T, g, s, 0)
      BY <2>1, <2>3 DEF HasSteps
    <2> QED BY <2>4
  <1>2. ASSUME NEW k \in Nat, k \in K
        PROVE  k + 1 \in K
    <2>1. ASSUME k + 1 <= Len(s)
          PROVE  HasSteps(T, g, s, k + 1)
      <3>1. k <= Len(s)
        BY <1>0, <2>1
      <3>2. HasSteps(T, g, s, k)
        BY <1>2, <3>1
      <3> QED BY <2>1, <3>2, OneStepMore
    <2> QED BY <2>1
  <1> HIDE DEF K
  <1>3. Len(s) \in K
    BY <1>0, <1>1, <1>2, Induction
  <1> QED BY <1>0, <1>3 DEF K

LEMMA ConcatSteps ==
    ASSUME NEW D, NEW T, NEW g \in [D -> Seq(T)], NEW s \in Seq(D)
    PROVE  \E c \in [0 .. Len(s) -> Seq(T)] : StepsOf(g, s, Len(s), c) /\ Concat(g, s) = c[Len(s)]
  <1> DEFINE Made1(c) == [n \in 0 .. Len(s) |-> IF n = 0 THEN <<>> ELSE c[n - 1] \o g[s[n]]]
             c == CHOOSE c : c = Made1(c)
  <1>0. Len(s) \in Nat
    BY LenProperties
  <1>1. PICK d \in [0 .. Len(s) -> Seq(T)] : StepsOf(g, s, Len(s), d)
    BY ConcatExists DEF HasSteps
  <1>2. d = Made1(d)
    <2>1. \A n \in 0 .. Len(s) : n = 0 \/ n \in 1 .. Len(s)
      BY <1>0
    <2>2. \A n \in 0 .. Len(s) : d[n] = IF n = 0 THEN <<>> ELSE d[n - 1] \o g[s[n]]
      BY <1>1, <2>1 DEF StepsOf
    <2> QED BY <1>1, <2>2
  <1>3. c = Made1(c)
    BY <1>2
  <1>4. Concat(g, s) = c[Len(s)]
    BY DEF Concat
  <1> HIDE DEF c
  <1>5. StepsOf(g, s, Len(s), c)
    <2>1. \A n \in 0 .. Len(s) : c[n] = IF n = 0 THEN <<>> ELSE c[n - 1] \o g[s[n]]
      BY <1>3
    <2>2. 0 \in 0 .. Len(s) /\ \A n \in 1 .. Len(s) : n \in 0 .. Len(s) /\ n # 0
      BY <1>0
    <2> QED BY <2>1, <2>2 DEF StepsOf
  <1> DEFINE K == {n \in Nat : n <= Len(s) => c[n] \in Seq(T)}
  <1>6. 0 \in K
    <2>1. c[0] = <<>>
      BY <1>5 DEF StepsOf
    <2>2. <<>> \in Seq(T)
      BY EmptySeq
    <2>3. c[0] \in Seq(T)
      BY <2>1, <2>2
    <2> QED BY <2>3
  <1>7. ASSUME NEW n \in Nat, n \in K
        PROVE  n + 1 \in K
    <2>1. ASSUME n + 1 <= Len(s)
          PROVE  c[n + 1] \in Seq(T)
      <3>1. n + 1 \in 1 .. Len(s) /\ c[n] \in Seq(T) /\ (n + 1) - 1 = n
        BY <1>0, <1>7, <2>1
      <3>2. g[s[n + 1]] \in Seq(T)
        BY <3>1, RangeOf
      <3>3. c[n + 1] = c[n] \o g[s[n + 1]]
        BY <1>5, <3>1 DEF StepsOf
      <3> QED BY <3>1, <3>2, <3>3, ConcatProperties
    <2> QED BY <2>1
  <1> HIDE DEF K
  <1>8. Nat \subseteq K
    BY <1>6, <1>7, Induction
  <1>9. c \in [0 .. Len(s) -> Seq(T)]
    <2>1. \A n \in 0 .. Len(s) : n \in Nat /\ n <= Len(s)
      BY <1>0
    <2>2. \A n \in 0 .. Len(s) : c[n] \in Seq(T)
      BY <1>8, <2>1 DEF K
    <2> QED BY <1>3, <2>2
  <1> QED BY <1>4, <1>5, <1>9

(* Concat gives what g gives for the elements; Keep the elements in the    *)
(* set, related as they were.                                              *)
LEMMA RangeOfAll ==
    ASSUME NEW D, NEW T, NEW g \in [D -> Seq(T)], NEW s \in Seq(D)
    PROVE  /\ Concat(g, s) \in Seq(T)
           /\ \A x \in Range(s) : Range(g[x]) \subseteq Range(Concat(g, s))
           /\ \A y \in Range(Concat(g, s)) : \E x \in Range(s) : y \in Range(g[x])
  <1>1. PICK c \in [0 .. Len(s) -> Seq(T)] : StepsOf(g, s, Len(s), c) /\ Concat(g, s) = c[Len(s)]
    BY ConcatSteps
  <1> DEFINE Is(k) == Range(c[k]) = UNION {Range(g[s[i]]) : i \in 1 .. k}
             K == {k \in Nat : k <= Len(s) => Is(k)}
  <1>0. Len(s) \in Nat /\ Len(s) <= Len(s)
    BY LenProperties
  <1>2. 0 \in K
    <2>1. c[0] = <<>>
      BY <1>1 DEF StepsOf
    <2>2. \A i \in 1 .. 0 : FALSE
      OBVIOUS
    <2>3. Is(0)
      BY <2>1, <2>2, RangeOfNone
    <2> QED BY <2>3
  <1>3. ASSUME NEW k \in Nat, k \in K
        PROVE  k + 1 \in K
    <2>1. ASSUME k + 1 <= Len(s)
          PROVE  Is(k + 1)
      <3>1. k + 1 \in 1 .. Len(s) /\ k \in 0 .. Len(s) /\ (k + 1) - 1 = k /\ k <= Len(s)
        BY <1>0, <2>1
      <3>2. g[s[k + 1]] \in Seq(T) /\ c[k] \in Seq(T)
        BY <3>1, RangeOf
      <3>3. c[k + 1] = c[k] \o g[s[k + 1]]
        BY <1>1, <3>1 DEF StepsOf
      <3>4. Range(c[k + 1]) = Range(c[k]) \cup Range(g[s[k + 1]])
        BY <3>2, <3>3, RangeOfConcat
      <3>5. \A i \in 1 .. k + 1 : i \in 1 .. k \/ i = k + 1
        OBVIOUS
      <3>6. \A i \in 1 .. k : i \in 1 .. k + 1
        OBVIOUS
      <3>7. k + 1 \in 1 .. k + 1
        OBVIOUS
      <3>8. Is(k)
        BY <1>3, <3>1
      <3>9. UNION {Range(g[s[i]]) : i \in 1 .. k + 1}
              = (UNION {Range(g[s[i]]) : i \in 1 .. k}) \cup Range(g[s[k + 1]])
        BY <3>5, <3>6, <3>7
      <3> QED BY <3>4, <3>8, <3>9
    <2> QED BY <2>1
  <1> HIDE DEF K
  <1>4. Len(s) \in K
    BY <1>0, <1>2, <1>3, Induction
  <1>5. Is(Len(s))
    BY <1>0, <1>4 DEF K
  <1>6. Range(s) = {s[i] : i \in 1 .. Len(s)}
    BY LenProperties DEF Range
  <1>7. /\ \A x \in Range(s) : Range(g[x]) \subseteq Range(c[Len(s)])
        /\ \A y \in Range(c[Len(s)]) : \E x \in Range(s) : y \in Range(g[x])
    BY <1>5, <1>6
  <1>8. Concat(g, s) \in Seq(T)
    BY <1>0, <1>1
  <1> QED BY <1>1, <1>7, <1>8

LEMMA Keeps ==
    ASSUME NEW T, NEW s \in Seq(T), NEW S
    PROVE  /\ Keep(s, S) \in Seq(T)
           /\ Range(Keep(s, S)) = Range(s) \cap S
  <1> DEFINE g == [x \in Range(s) |-> IF x \in S THEN <<x>> ELSE <<>>]
  <1>1. s \in Seq(Range(s)) /\ Range(s) \subseteq T
    BY RangeOf
  <1>2. ASSUME NEW x \in Range(s)
        PROVE  g[x] \in Seq(T) /\ Range(g[x]) = {x} \cap S
    <2>1. <<x>> \in Seq(T) /\ <<>> \in Seq(T)
      BY <1>1
    <2>2. Range(<<x>>) = {x} /\ Range(<<>>) = {}
      BY RangeOfOne, RangeOfNone
    <2> QED BY <2>1, <2>2
  <1>3. g \in [Range(s) -> Seq(T)]
    BY <1>2
  <1>4. Keep(s, S) = Concat(g, s)
    BY DEF Keep
  <1> HIDE DEF g
  <1>5. /\ Concat(g, s) \in Seq(T)
        /\ \A x \in Range(s) : Range(g[x]) \subseteq Range(Concat(g, s))
        /\ \A y \in Range(Concat(g, s)) : \E x \in Range(s) : y \in Range(g[x])
    BY <1>1, <1>3, RangeOfAll
  <1>6. Range(Concat(g, s)) = Range(s) \cap S
    BY <1>2, <1>5, ZenonT(60)
  <1> QED BY <1>4, <1>5, <1>6

(* Every two elements of a sequence, at different places, are related.     *)
Pairs(s, R) == \A i, j \in DOMAIN s : i # j => <<s[i], s[j]>> \in R

LEMMA PairsOfConcat ==
    ASSUME NEW T, NEW s \in Seq(T), NEW t \in Seq(T), NEW R, Pairs(s, R), Pairs(t, R),
           \A x \in Range(s), y \in Range(t) : <<x, y>> \in R /\ <<y, x>> \in R
    PROVE  Pairs(s \o t, R)
  <1>1. /\ s \o t \in Seq(T) /\ Len(s \o t) = Len(s) + Len(t)
        /\ \A i \in 1 .. Len(s) + Len(t) : (s \o t)[i] = IF i <= Len(s) THEN s[i] ELSE t[i - Len(s)]
    BY ConcatProperties
  <1>2. Len(s) \in Nat /\ Len(t) \in Nat /\ DOMAIN s = 1 .. Len(s) /\ DOMAIN t = 1 .. Len(t)
        /\ DOMAIN (s \o t) = 1 .. Len(s) + Len(t)
    BY <1>1, LenProperties
  <1>3. ASSUME NEW i \in 1 .. Len(s) + Len(t), i <= Len(s)
        PROVE  i \in DOMAIN s /\ (s \o t)[i] = s[i] /\ s[i] \in Range(s)
    <2>1. i \in DOMAIN s /\ (s \o t)[i] = s[i]
      BY <1>1, <1>2, <1>3
    <2> QED BY <1>2, <2>1, RangeOf
  <1>4. ASSUME NEW i \in 1 .. Len(s) + Len(t), ~(i <= Len(s))
        PROVE  /\ i - Len(s) \in DOMAIN t /\ (s \o t)[i] = t[i - Len(s)]
               /\ t[i - Len(s)] \in Range(t)
    <2>1. i - Len(s) \in DOMAIN t /\ (s \o t)[i] = t[i - Len(s)]
      BY <1>1, <1>2, <1>4
    <2> QED BY <1>2, <2>1, RangeOf
  <1>5. ASSUME NEW i \in 1 .. Len(s) + Len(t), NEW j \in 1 .. Len(s) + Len(t), i # j
        PROVE  <<(s \o t)[i], (s \o t)[j]>> \in R
    <2>1. CASE i <= Len(s) /\ j <= Len(s)
      BY <1>3, <1>5, <2>1 DEF Pairs
    <2>2. CASE i <= Len(s) /\ ~(j <= Len(s))
      BY <1>3, <1>4, <2>2
    <2>3. CASE ~(i <= Len(s)) /\ j <= Len(s)
      BY <1>3, <1>4, <2>3
    <2>4. CASE ~(i <= Len(s)) /\ ~(j <= Len(s))
      <3>1. i - Len(s) # j - Len(s)
        BY <1>2, <1>5
      <3>2. /\ i - Len(s) \in DOMAIN t /\ (s \o t)[i] = t[i - Len(s)]
            /\ j - Len(s) \in DOMAIN t /\ (s \o t)[j] = t[j - Len(s)]
        BY <1>4, <2>4
      <3> QED BY <3>1, <3>2 DEF Pairs
    <2> QED BY <2>1, <2>2, <2>3, <2>4
  <1> QED BY <1>2, <1>5 DEF Pairs

LEMMA KeepsPairs ==
    ASSUME NEW T, NEW s \in Seq(T), NEW S, NEW R, Pairs(s, R)
    PROVE  Pairs(Keep(s, S), R)
  <1> DEFINE g == [x \in Range(s) |-> IF x \in S THEN <<x>> ELSE <<>>]
  <1>1. Len(s) \in Nat /\ Len(s) <= Len(s) /\ DOMAIN s = 1 .. Len(s) /\ s \in Seq(Range(s))
        /\ \A i \in 1 .. Len(s) : s[i] \in Range(s)
    BY RangeOf
  <1>2. ASSUME NEW x \in Range(s)
        PROVE  g[x] \in Seq(T) /\ Pairs(g[x], R) /\ Range(g[x]) \subseteq {x}
    <2>1. <<x>> \in Seq(T) /\ <<>> \in Seq(T)
      BY RangeOf
    <2>2. Range(<<x>>) = {x} /\ Range(<<>>) = {}
      BY RangeOfOne, RangeOfNone
    <2>3. Pairs(<<x>>, R) /\ Pairs(<<>>, R)
      BY DEF Pairs
    <2> QED BY <2>1, <2>2, <2>3
  <1>3. g \in [Range(s) -> Seq(T)]
    BY <1>2
  <1>4. Keep(s, S) = Concat(g, s)
    BY DEF Keep
  <1> HIDE DEF g
  <1>5. PICK c \in [0 .. Len(s) -> Seq(T)] :
                StepsOf(g, s, Len(s), c) /\ Concat(g, s) = c[Len(s)]
    BY <1>1, <1>3, ConcatSteps
  <1> DEFINE Is(n) == Pairs(c[n], R) /\ Range(c[n]) \subseteq {s[i] : i \in 1 .. n}
             K == {n \in Nat : n <= Len(s) => Is(n)}
  <1>6. 0 \in K
    <2>1. c[0] = <<>>
      BY <1>5 DEF StepsOf
    <2>2. Pairs(<<>>, R)
      BY DEF Pairs
    <2>3. Is(0)
      BY <2>1, <2>2, RangeOfNone
    <2> QED BY <2>3
  <1>7. ASSUME NEW n \in Nat, n \in K
        PROVE  n + 1 \in K
    <2>1. ASSUME n + 1 <= Len(s)
          PROVE  Is(n + 1)
      <3>1. n + 1 \in 1 .. Len(s) /\ n \in 0 .. Len(s) /\ (n + 1) - 1 = n /\ n <= Len(s)
        BY <1>1, <2>1
      <3>2. c[n] \in Seq(T) /\ s[n + 1] \in Range(s)
        BY <1>1, <3>1
      <3> DEFINE x == s[n + 1]
      <3>3. g[x] \in Seq(T) /\ Pairs(g[x], R) /\ Range(g[x]) \subseteq {x}
        BY <1>2, <3>2
      <3>4. c[n + 1] = c[n] \o g[x]
        BY <1>5, <3>1 DEF StepsOf
      <3>5. Is(n)
        BY <1>7, <3>1
      <3>6. \A i \in 1 .. n : i \in DOMAIN s /\ i # n + 1 /\ i \in 1 .. n + 1
        BY <1>1, <3>1
      <3>7. \A i \in 1 .. n : <<s[i], x>> \in R /\ <<x, s[i]>> \in R
        BY <1>1, <3>1, <3>6 DEF Pairs
      <3>8. \A y \in Range(c[n]), z \in Range(g[x]) : <<y, z>> \in R /\ <<z, y>> \in R
        BY <3>3, <3>5, <3>7
      <3>9. Pairs(c[n] \o g[x], R)
        BY <3>2, <3>3, <3>5, <3>8, PairsOfConcat
      <3>10. Range(c[n] \o g[x]) = Range(c[n]) \cup Range(g[x])
        BY <3>2, <3>3, RangeOfConcat
      <3>11. {s[i] : i \in 1 .. n} \cup {x} \subseteq {s[i] : i \in 1 .. n + 1}
        BY <3>6
      <3> QED BY <3>3, <3>4, <3>5, <3>9, <3>10, <3>11
    <2> QED BY <2>1
  <1> HIDE DEF K
  <1>8. Len(s) \in K
    BY <1>1, <1>6, <1>7, Induction
  <1> QED BY <1>1, <1>4, <1>5, <1>8 DEF K

LEMMA Appends ==
    ASSUME NEW T, NEW s \in Seq(T), NEW x \in T
    PROVE  Append(s, x) = s \o <<x>> /\ Append(s, x) \in Seq(T) /\ Range(Append(s, x)) = Range(s) \cup {x}
  <1>1. <<x>> \in Seq(T) /\ Range(<<x>>) = {x}
    BY RangeOfOne
  <1>2. Append(s, x) = s \o <<x>>
    BY AppendIsConcat
  <1>3. s \o <<x>> \in Seq(T) /\ Range(s \o <<x>>) = Range(s) \cup Range(<<x>>)
    BY <1>1, RangeOfConcat, ZenonT(60)
  <1> QED BY <1>1, <1>2, <1>3

(* A sequence with an element in it is not empty, and the other way.       *)
LEMMA RangeEmpty ==
    ASSUME NEW T, NEW s \in Seq(T)
    PROVE  s = <<>> <=> Range(s) = {}
  <1>1. s # <<>> => Head(s) \in Range(s)
    BY RangeOfTail
  <1> QED BY <1>1, RangeOfNone
-----------------------------------------------------------------------------
(* What each variable holds.  A signature, wherever it is, is by its       *)
(* line's key; a channel offers no version twice.                          *)
FileMaps == {g \in [Paths -> Contents \cup {None}] : \A l \in Lines : g[Sig(l)] \in {KeyOf[l], None}}
Distinct == {s \in Seq(Lines) : \A i, j \in DOMAIN s : i # j => ~SameVersion(s[i], s[j])}
Locals == [lines : Distinct, withdrawn : SUBSET Digests, readme : Edition \cup {None}]
Steps == [do : {"settle", "place"}, file : Paths]
         \cup [do : {"digest"}, file : {Stored(a) : a \in Archive}]
         \cup [do : {"list", "mutable", "index"}, file : {None, ReadMe}]
Jobs == [at : {"idle", "settle", "gate", "place"}, heard : BOOLEAN, todo : Seq(Steps),
         seen : Seq(Lines), lines : Distinct, refused : BOOLEAN, done : BOOLEAN]

ChannelOK == /\ live \in FileMaps /\ url \subseteq Archive /\ digest \in [Archive -> Contents \cup {None}]
             /\ index \in Seq(Lines)
StagingOK == plan \in [Publisher -> FileMaps] /\ staged \in [Publisher -> FileMaps]
PortalOK == /\ job \in [Publisher -> Jobs]
            /\ gate \in Publisher \cup {Maintainer, None} /\ admin \in {None, "removing", "restoring"}
            /\ stash \in [line : Lines \cup {None}, files : FileMaps]
IsClient(c) == /\ DOMAIN c = {"pc", "body", "need", "off", "said"}
               /\ c.body \in FileMaps /\ c.need \in Seq(Paths)
               /\ c.pc = "put" => c.need # <<>>
Settling(p) == job[p].at = "settle" =>
                  /\ job[p].todo # <<>> /\ Head(job[p].todo).do = "settle"
                  /\ job[p].heard => client[p].pc = "put"
ClientOK == /\ DOMAIN client = Publisher /\ client = [p \in Publisher |-> client[p]]
            /\ \A p \in Publisher : IsClient(client[p]) /\ Settling(p)
TypeOK == /\ ChannelOK /\ StagingOK /\ PortalOK /\ ClientOK
          /\ local \in [Publisher -> Locals] /\ used \in [DOMAIN Bounds -> Nat] /\ back \subseteq Lines

-----------------------------------------------------------------------------
(* Who holds the channel's gate: the commit that places files, or a        *)
(* maintainer.                                                             *)
GateHeld == /\ \A p \in Publisher : gate = p <=> job[p].at = "place"
            /\ gate = Maintainer <=> admin # None

(* An archive's .sha256 is its own, and what it is written for stays to be *)
(* had.                                                                    *)
Copies == \A a \in Archive :
    /\ a \in url => digest[a] # None
    /\ digest[a] # None => Published(Stored(a)) /\ live[Stored(a)] \in {None, digest[a]}

Shown == \A l \in Range(index) : \A f \in FilesOfLine[l] : Published(f)

(* What a maintainer took off is in the stash or still there. *)
Stash ==
    /\ stash.line # None => \A f \in FilesOfLine[stash.line] :
          Published(f) \/ (f \in Stashed(stash.line) /\ stash.files[f] # None)
    /\ admin # None => stash.line # None
    /\ admin = "removing" => stash.line \notin Range(index)

(* What a commit still has to do can be done, and ends in an index whose   *)
(* lines have their files.                                                 *)
Swapping(p) == job[p].at = "place" /\ \E i \in DOMAIN job[p].todo : job[p].todo[i].do = "index"
Will(p, do, f) == \E i \in DOMAIN job[p].todo : job[p].todo[i].do = do /\ job[p].todo[i].file = f
Doable(p) == \A i \in DOMAIN job[p].todo :
    LET step == job[p].todo[i] IN
    /\ step.do # "settle"
    /\ step.do = "place" /\ step.file \in Lasting =>
          Published(step.file) \/ staged[p][step.file] # None
    /\ step.do = "digest" => i = 1 /\ live[step.file] # None /\ digest[step.file.of] = None
    /\ step.do = "index" => i = Len(job[p].todo)
Promised(p) ==
    /\ job[p].seen = index
    /\ \A l \in Range(job[p].lines) : \A f \in FilesOfLine[l] : Published(f) \/ Will(p, "place", f)
Doings == \A p \in Publisher : job[p].at = "place" => Doable(p) /\ (Swapping(p) => Promised(p))

Serving == TypeOK /\ GateHeld /\ Copies /\ Shown /\ Stash /\ Doings

-----------------------------------------------------------------------------
(* Two lines of a package are by one key, but for what a maintainer did.   *)
SameKey(l, m) == l.name = m.name =>
    \/ KeyOf[l] = KeyOf[m] \/ Transfer[l.name] \in {KeyOf[l], KeyOf[m]}
    \/ \E b \in back : b.name = l.name
Keys == \A l, m \in Range(index) : SameKey(l, m)

(* The lines a commit is about to show are of new versions, and by the key *)
(* of their package.                                                       *)
New(p) == /\ \A l \in Range(job[p].lines), m \in Range(index) : ~SameVersion(l, m)
          /\ \A l \in Range(job[p].lines), m \in Range(index) \cup Range(job[p].lines) :
                SameKey(l, m) /\ SameKey(m, l)
Agreed == OneVersion /\ Keys /\ \A p \in Publisher : Swapping(p) => New(p)

-----------------------------------------------------------------------------
(* Until a request is cut, the list is what there is or is about to be     *)
(* written, and after the withdrawals that are placed.                     *)
Listed == used.cuts = 0 =>
    /\ lister = None
    /\ gate = None => listed = Withdrawn
    /\ \A p \in Publisher : job[p].at = "place" =>
          /\ listed = Withdrawn \/ \E i \in DOMAIN job[p].todo : job[p].todo[i].do = "list"
          /\ \A i \in DOMAIN job[p].todo : job[p].todo[i].do = "place" =>
                \E k \in DOMAIN job[p].todo : i < k /\ job[p].todo[k].do = "list"

-----------------------------------------------------------------------------
(* Paths and what is at them. *)
LEMMA PathsAre ==
    /\ \A l \in Lines : {Object(l), Sig(l), Withdrawal(l)} \subseteq Paths
    /\ \A a \in Archive : Stored(a) \in Paths
    /\ ReadMe \in Paths
  BY DEF Paths

LEMMA PathIs ==
    ASSUME NEW f \in Paths
    PROVE  /\ \/ f.kind \in {"object", "sig", "withdrawn"} /\ f.of \in Digests
              \/ f.kind = "archive" /\ f.of \in Archive
              \/ f = ReadMe
           /\ f = F(f.kind, f.of)
  <1>1. CASE \E l \in Lines : f \in {Object(l), Sig(l), Withdrawal(l)}
    BY <1>1 DEF Object, Sig, Withdrawal, F, Digests
  <1>2. CASE \E a \in Archive : f = Stored(a)
    BY <1>2 DEF Stored, F
  <1>3. CASE f = ReadMe
    BY <1>3 DEF ReadMe, F
  <1> QED BY <1>1, <1>2, <1>3 DEF Paths

LEMMA OnePath ==
    ASSUME NEW l \in Lines, NEW m \in Lines
    PROVE  /\ Object(l) = Object(m) => l = m
           /\ Sig(l) = Sig(m) => l = m
           /\ Withdrawal(l) = Withdrawal(m) => l = m
           /\ Object(l).kind = "object" /\ Sig(l).kind = "sig" /\ Withdrawal(l).kind = "withdrawn"
           /\ Object(l).of = l.digest /\ Sig(l).of = l.digest /\ Withdrawal(l).of = l.digest
  BY PushAssumption DEF Object, Sig, Withdrawal, F

LEMMA Constants ==
    /\ None \notin Contents /\ None \notin Publisher /\ None \notin Lines /\ None # Maintainer
    /\ Maintainer \notin Publisher /\ None \notin {"removing", "restoring"}
    /\ Publisher \subseteq Contents /\ Digests \subseteq Contents /\ Edition \subseteq Contents
    /\ KeyOf \in [Lines -> Publisher] /\ ArchiveOf \in [Lines -> Archive \cup {None}]
  BY PushAssumption DEF Contents

LEMMA KeyIs ==
    /\ \A l \in Lines : Key(l.digest) = KeyOf[l]
    /\ \A d \in Digests : Key(d) \in Publisher
  <1>1. \A l \in Lines : Key(l.digest) = KeyOf[l]
    <2> SUFFICES ASSUME NEW l \in Lines
                 PROVE  (CHOOSE m \in Lines : m.digest = l.digest) = l
      BY DEF Key
    <2>1. \A m \in Lines : m.digest = l.digest => m = l
      BY PushAssumption
    <2> QED BY <2>1
  <1>2. \A d \in Digests : \E l \in Lines : d = l.digest
    BY DEF Digests
  <1> QED BY <1>1, <1>2, Constants

(* A map of files made of two others', or of nothing.                      *)
LEMMA FileMapsOf ==
    ASSUME NEW g \in FileMaps, NEW h \in FileMaps, NEW k, k = [f \in Paths |-> k[f]],
           \A f \in Paths : k[f] \in {g[f], h[f], None}
    PROVE  k \in FileMaps
  <1>1. \A f \in Paths : k[f] \in Contents \cup {None}
    BY DEF FileMaps
  <1>2. k \in [Paths -> Contents \cup {None}]
    BY <1>1
  <1>3. \A l \in Lines : Sig(l) \in Paths
    BY PathsAre
  <1>4. \A l \in Lines : k[Sig(l)] \in {KeyOf[l], None}
    BY <1>3 DEF FileMaps
  <1> QED BY <1>2, <1>4 DEF FileMaps

LEMMA NothingIs == Nothing \in FileMaps /\ \A f \in Paths : Nothing[f] = None
  <1>1. Nothing \in [Paths -> Contents \cup {None}]
    BY DEF Nothing
  <1>2. \A f \in Paths : Nothing[f] = None
    BY DEF Nothing
  <1> QED BY <1>1, <1>2, PathsAre DEF FileMaps

LEMMA FileMapsPut ==
    ASSUME NEW g \in FileMaps, NEW h \in FileMaps, NEW f \in Paths
    PROVE  [g EXCEPT ![f] = h[f]] \in FileMaps /\ [g EXCEPT ![f] = None] \in FileMaps
  <1>1. g \in [Paths -> Contents \cup {None}]
    BY DEF FileMaps
  <1> DEFINE k == [g EXCEPT ![f] = h[f]]
             n == [g EXCEPT ![f] = None]
  <1>2. k = [e \in Paths |-> k[e]] /\ \A e \in Paths : k[e] \in {g[e], h[e], None}
    BY <1>1
  <1>3. n = [e \in Paths |-> n[e]] /\ \A e \in Paths : n[e] \in {g[e], h[e], None}
    BY <1>1
  <1> HIDE DEF k, n
  <1>4. k \in FileMaps
    BY <1>2, FileMapsOf
  <1>5. n \in FileMaps
    BY <1>3, FileMapsOf
  <1> QED BY <1>4, <1>5 DEF k, n

(* The files of a publisher's own channel are of these kinds too.          *)
LEMMA LocalFiles ==
    ASSUME NEW p \in Publisher, local[p] \in Locals
    PROVE  [f \in Paths |-> LocalFile(p, f)] \in FileMaps
  <1>1. local[p].lines \in Seq(Lines) /\ local[p].readme \in Edition \cup {None}
    BY DEF Locals, Distinct
  <1>2. Range(local[p].lines) \subseteq Lines
    BY <1>1, RangeOf
  <1>3. \A l \in Range(local[p].lines) : l.digest \in Digests
    BY <1>2 DEF Digests
  <1>4. ASSUME NEW f \in Paths
        PROVE  LocalFile(p, f) \in Contents \cup {None}
    <2>1. CASE f.kind = "mutable"
      BY <1>1, <2>1, Constants DEF LocalFile
    <2>2. CASE f.kind = "object"
      BY <1>3, <2>2, Constants DEF LocalFile
    <2>3. CASE f.kind = "sig"
      BY <1>3, <2>3, Constants, KeyIs DEF LocalFile
    <2>4. CASE f.kind = "withdrawn"
      <3>1. f.of \in Digests
        BY <2>4, PathIs DEF ReadMe, F
      <3> QED BY <2>4, <3>1, Constants, KeyIs DEF LocalFile
    <2>5. CASE f.kind = "archive"
      BY <2>5, Constants DEF LocalFile
    <2> QED BY <2>1, <2>2, <2>3, <2>4, <2>5, PathIs DEF ReadMe, F
  <1>5. ASSUME NEW l \in Lines
        PROVE  LocalFile(p, Sig(l)) \in {KeyOf[l], None}
    <2>1. Sig(l).kind = "sig" /\ Sig(l).of = l.digest
      BY OnePath
    <2>2. LocalFile(p, Sig(l)) \in {Key(l.digest), None}
      BY <2>1 DEF LocalFile
    <2> QED BY <2>2, KeyIs
  <1> QED BY <1>4, <1>5, PathsAre DEF FileMaps

-----------------------------------------------------------------------------
(* What the portal makes of a commit. *)
Differ == {v \in Lines \X Lines : ~SameVersion(v[1], v[2])}

LEMMA DistinctIs ==
    \A s : s \in Distinct <=> s \in Seq(Lines) /\ Pairs(s, Differ)
  <1>1. ASSUME NEW s \in Seq(Lines), NEW i \in DOMAIN s, NEW j \in DOMAIN s
        PROVE  <<s[i], s[j]>> \in Differ <=> ~SameVersion(s[i], s[j])
    <2>1. s[i] \in Lines /\ s[j] \in Lines
      BY RangeOf
    <2> QED BY <2>1 DEF Differ
  <1> QED BY <1>1 DEF Distinct, Pairs

LEMMA DistinctKeep ==
    ASSUME NEW s \in Distinct, NEW S
    PROVE  /\ Keep(s, S) \in Distinct /\ Range(Keep(s, S)) = Range(s) \cap S
           /\ Range(s) \subseteq Lines /\ s \in Seq(Lines)
  <1>1. s \in Seq(Lines) /\ Pairs(s, Differ)
    BY DistinctIs
  <1>2. Keep(s, S) \in Seq(Lines) /\ Range(Keep(s, S)) = Range(s) \cap S
    BY <1>1, Keeps
  <1>3. Pairs(Keep(s, S), Differ)
    BY <1>1, KeepsPairs
  <1>4. Keep(s, S) \in Distinct
    BY <1>2, <1>3, DistinctIs
  <1> QED BY <1>1, <1>2, <1>4, RangeOf

LEMMA OwnedIs ==
    ASSUME NEW p \in Publisher, job[p].lines \in Distinct
    PROVE  /\ Owned(p) \in Distinct /\ Ready(p) \in Distinct
           /\ Range(Owned(p)) = {l \in Range(Ready(p)) : Found(p, Sig(l)) = Owner(p, l.name)}
           /\ \A l \in Range(Ready(p)) :
                 /\ l \in Range(job[p].lines) /\ l \in Lines
                 /\ \A x \in Range(index) : ~SameVersion(x, l)
                 /\ Found(p, Object(l)) = l.digest /\ Found(p, Sig(l)) # None
                 /\ ArchiveOf[l] # None /\ l \notin Upstream => Found(p, Stored(ArchiveOf[l])) # None
  <1>1. /\ Candidates(p) \in Distinct
        /\ Range(Candidates(p))
             = Range(job[p].lines) \cap {l \in Lines : \A x \in Range(index) : ~SameVersion(x, l)}
    BY DistinctKeep DEF Candidates
  <1> DEFINE S == {l \in Lines :
                /\ Found(p, Object(l)) = l.digest /\ Found(p, Sig(l)) # None
                /\ p \notin Filers => ArchiveOf[l] # None /\ l \in Upstream
                /\ ArchiveOf[l] # None /\ l \notin Upstream => Found(p, Stored(ArchiveOf[l])) # None}
  <1>2. Ready(p) = Keep(Candidates(p), S)
    BY DEF Ready
  <1>3. Ready(p) \in Distinct /\ Range(Ready(p)) = Range(Candidates(p)) \cap S
    BY <1>1, <1>2, DistinctKeep
  <1>4. /\ Owned(p) \in Distinct
        /\ Range(Owned(p)) = Range(Ready(p)) \cap {l \in Lines : Found(p, Sig(l)) = Owner(p, l.name)}
    BY <1>3, DistinctKeep DEF Owned
  <1>5. Range(Ready(p)) \subseteq Lines
    BY <1>3, DistinctKeep
  <1> QED BY <1>1, <1>3, <1>4, <1>5

LEMMA FilesAre ==
    /\ FilesOf \in [Lines -> Seq(Paths)]
    /\ \A l \in Lines : FilesOfLine[l] \subseteq Range(FilesOf[l]) /\ FilesOfLine[l] \subseteq Lasting
    /\ \A l \in Lines : {Object(l), Sig(l)} \subseteq FilesOfLine[l]
    /\ \A l \in Lines : \A f \in FilesOfLine[l] :
          \/ f = Object(l) \/ f = Sig(l)
          \/ ArchiveOf[l] # None /\ l \notin Upstream /\ f = Stored(ArchiveOf[l])
  <1>1. ASSUME NEW l \in Lines
        PROVE  /\ FilesOf[l] \in Seq(Paths)
               /\ Range(FilesOf[l]) = {Object(l), Sig(l)} \cup
                      (IF ArchiveOf[l] = None THEN {} ELSE {Stored(ArchiveOf[l])})
    <2>1. Object(l) \in Paths /\ Sig(l) \in Paths
      BY PathsAre
    <2>2. CASE ArchiveOf[l] = None
      <3>1. FilesOf[l] = <<Object(l), Sig(l)>>
        BY <2>2 DEF FilesOf
      <3>2. DOMAIN <<Object(l), Sig(l)>> = {1, 2}
        OBVIOUS
      <3>3. Range(<<Object(l), Sig(l)>>) = {Object(l), Sig(l)}
        BY <3>2 DEF Range
      <3> QED BY <2>1, <2>2, <3>1, <3>3
    <2>3. CASE ArchiveOf[l] # None
      <3>1. FilesOf[l] = <<Object(l), Sig(l), Stored(ArchiveOf[l])>>
        BY <2>3 DEF FilesOf
      <3>2. Stored(ArchiveOf[l]) \in Paths
        BY <2>3, Constants, PathsAre
      <3>3. DOMAIN <<Object(l), Sig(l), Stored(ArchiveOf[l])>> = {1, 2, 3}
        OBVIOUS
      <3>4. Range(<<Object(l), Sig(l), Stored(ArchiveOf[l])>>)
              = {Object(l), Sig(l), Stored(ArchiveOf[l])}
        BY <3>3 DEF Range
      <3> QED BY <2>1, <2>3, <3>1, <3>2, <3>4
    <2> QED BY <2>2, <2>3
  <1>2. FilesOf \in [Lines -> Seq(Paths)]
    BY <1>1 DEF FilesOf
  <1>3. ASSUME NEW l \in Lines
        PROVE  FilesOfLine[l] = {Object(l), Sig(l)} \cup
                   (IF ArchiveOf[l] # None /\ l \notin Upstream THEN {Stored(ArchiveOf[l])} ELSE {})
    BY DEF FilesOfLine
  <1>4. ASSUME NEW l \in Lines
        PROVE  FilesOfLine[l] \subseteq Lasting
    <2>1. Object(l) \in Lasting /\ Sig(l) \in Lasting
      BY PathsAre, OnePath DEF Lasting
    <2>2. ArchiveOf[l] # None => Stored(ArchiveOf[l]) \in Lasting
      BY Constants, PathsAre DEF Lasting, Stored, F
    <2> QED BY <1>3, <2>1, <2>2
  <1> QED BY <1>1, <1>2, <1>3, <1>4

LEMMA StepsAre ==
    /\ \A f \in Paths : Step("place", f) \in Steps /\ Step("settle", f) \in Steps
    /\ \A f \in Paths : f.kind = "archive" => Step("digest", f) \in Steps
    /\ Step("list", None) \in Steps /\ Step("mutable", ReadMe) \in Steps /\ Step("index", None) \in Steps
    /\ \A t \in Steps :
          /\ t.do \in {"settle", "place"} => t.file \in Paths
          /\ t.do = "digest" => t.file.of \in Archive /\ t.file = Stored(t.file.of) /\ t.file \in Paths
          /\ t.do \in {"settle", "place", "digest", "list", "mutable", "index"}
  <1>1. \A f \in Paths : f.kind = "archive" => \E a \in Archive : f = Stored(a)
    BY PathIs DEF ReadMe, Stored, F
  <1>2. \A f \in Paths : f.kind = "archive" => Step("digest", f) \in Steps
    BY <1>1 DEF Step, Steps
  <1>3. \A a \in Archive : Stored(a).of = a
    BY DEF Stored, F
  <1> QED BY <1>2, <1>3, PathsAre DEF Step, Steps

LEMMA MoveIs ==
    ASSUME NEW p \in Publisher, NEW files \in Seq(Paths)
    PROVE  /\ Move(p, files) \in Seq(Steps)
           /\ \A i \in DOMAIN Move(p, files) :
                 Move(p, files)[i].do = "place" /\ staged[p][Move(p, files)[i].file] # None
           /\ \A f \in Range(files) : staged[p][f] # None =>
                 \E i \in DOMAIN Move(p, files) : Move(p, files)[i] = Step("place", f)
  <1> DEFINE S == {f \in Paths : staged[p][f] # None}
             moved == Keep(files, S)
  <1>1. moved \in Seq(Paths) /\ Range(moved) = Range(files) \cap S
    BY Keeps
  <1>2. Move(p, files) = [i \in DOMAIN moved |-> Step("place", moved[i])]
    BY DEF Move
  <1>3. Range(files) \subseteq Paths
    BY RangeOf
  <1> HIDE DEF moved
  <1>4. /\ Len(moved) \in Nat /\ DOMAIN moved = 1 .. Len(moved)
        /\ \A i \in 1 .. Len(moved) : moved[i] \in Paths /\ moved[i] \in Range(moved)
        /\ \A f \in Range(moved) : \E i \in 1 .. Len(moved) : moved[i] = f
    BY <1>1, RangeOf
  <1>5. Move(p, files) \in [1 .. Len(moved) -> Steps]
    BY <1>2, <1>4, StepsAre
  <1>6. Move(p, files) \in Seq(Steps)
    BY <1>4, <1>5 DEF Seq
  <1>7. \A i \in 1 .. Len(moved) : Move(p, files)[i].do = "place" /\ Move(p, files)[i].file = moved[i]
    BY <1>2, <1>4 DEF Step
  <1>8. \A i \in 1 .. Len(moved) : staged[p][moved[i]] # None
    BY <1>1, <1>4
  <1>9. ASSUME NEW f \in Range(files), staged[p][f] # None
        PROVE  \E i \in 1 .. Len(moved) : Move(p, files)[i] = Step("place", f)
    <2>1. f \in Range(moved)
      BY <1>1, <1>3, <1>9
    <2>2. PICK i \in 1 .. Len(moved) : moved[i] = f
      BY <1>4, <2>1
    <2> QED BY <1>2, <1>4, <2>2
  <1> QED BY <1>2, <1>4, <1>6, <1>7, <1>8, <1>9

(* What a commit does in its order: the files, the list, the rest.         *)
LEMMA TodoIs ==
    ASSUME NEW m \in Seq(Steps),
           NEW loose \in {<<>>, <<Step("mutable", ReadMe)>>},
           NEW swap \in {<<>>, <<Step("index", None)>>}
    PROVE  LET todo == m \o <<Step("list", None)>> \o loose \o swap IN
           /\ todo \in Seq(Steps) /\ Len(m) \in Nat /\ Len(m) + 1 \in DOMAIN todo
           /\ \A i \in DOMAIN m : i \in DOMAIN todo /\ todo[i] = m[i]
           /\ todo[Len(m) + 1] = Step("list", None)
           /\ \A i \in DOMAIN todo :
                 \/ i \in DOMAIN m
                 \/ i = Len(m) + 1
                 \/ todo[i] = Step("mutable", ReadMe)
                 \/ todo[i] = Step("index", None) /\ i = Len(todo) /\ swap # <<>>
  <1> DEFINE lst == <<Step("list", None)>>
             todo == ((m \o lst) \o loose) \o swap
  <1>0. ASSUME NEW x \in Steps
        PROVE  <<x>> \in Seq(Steps) /\ Len(<<x>>) = 1 /\ <<x>>[1] = x /\ <<x>> # <<>>
    OBVIOUS
  <1>1. /\ lst \in Seq(Steps) /\ loose \in Seq(Steps) /\ swap \in Seq(Steps)
        /\ Len(lst) = 1 /\ lst[1] = Step("list", None)
    <2>1. <<>> \in Seq(Steps)
      OBVIOUS
    <2> QED BY <1>0, <2>1, StepsAre
  <1>2. /\ (loose = <<>> /\ Len(loose) = 0) \/ (Len(loose) = 1 /\ loose[1] = Step("mutable", ReadMe))
        /\ \/ swap = <<>> /\ Len(swap) = 0
           \/ Len(swap) = 1 /\ swap[1] = Step("index", None) /\ swap # <<>>
    BY <1>0, StepsAre, RangeOfNone
  <1>3. Len(m) \in Nat /\ DOMAIN m = 1 .. Len(m)
    BY LenProperties
  <1> HIDE DEF lst
  <1>4. /\ m \o lst \in Seq(Steps) /\ Len(m \o lst) = Len(m) + 1
        /\ \A i \in 1 .. Len(m) + 1 : (m \o lst)[i] = IF i <= Len(m) THEN m[i] ELSE lst[i - Len(m)]
    <2>1. /\ m \o lst \in Seq(Steps) /\ Len(m \o lst) = Len(m) + Len(lst)
          /\ \A i \in 1 .. Len(m) + Len(lst) :
                (m \o lst)[i] = IF i <= Len(m) THEN m[i] ELSE lst[i - Len(m)]
      BY <1>1, ConcatProperties
    <2> QED BY <1>1, <2>1
  <1> DEFINE a == m \o lst
             b == a \o loose
  <1>5. /\ b \in Seq(Steps) /\ Len(b) = Len(m) + 1 + Len(loose)
        /\ \A i \in 1 .. Len(b) : b[i] = IF i <= Len(m) + 1 THEN a[i] ELSE loose[i - (Len(m) + 1)]
    BY <1>1, <1>4, ConcatProperties
  <1> HIDE DEF a
  <1>6. /\ todo \in Seq(Steps) /\ Len(todo) = Len(b) + Len(swap)
        /\ \A i \in 1 .. Len(todo) : todo[i] = IF i <= Len(b) THEN b[i] ELSE swap[i - Len(b)]
    BY <1>1, <1>5, ConcatProperties DEF a
  <1>7. DOMAIN todo = 1 .. Len(todo)
    BY <1>6, LenProperties
  <1> HIDE DEF todo, b
  <1>8. Len(b) \in Nat /\ Len(todo) \in Nat /\ Len(loose) \in {0, 1} /\ Len(swap) \in {0, 1}
    BY <1>2, <1>3, <1>5, <1>6
  <1>9. ASSUME NEW i \in DOMAIN m
        PROVE  i \in DOMAIN todo /\ todo[i] = m[i]
    <2>1. /\ i \in 1 .. Len(m) /\ i \in 1 .. Len(m) + 1 /\ i <= Len(m)
          /\ i \in 1 .. Len(b) /\ i <= Len(b) /\ i \in 1 .. Len(todo)
      BY <1>3, <1>5, <1>6, <1>8
    <2>2. a[i] = m[i]
      BY <1>4, <2>1 DEF a
    <2>3. b[i] = a[i]
      BY <1>5, <2>1
    <2> QED BY <1>6, <1>7, <2>1, <2>2, <2>3
  <1>10. Len(m) + 1 \in DOMAIN todo /\ todo[Len(m) + 1] = Step("list", None)
    <2>1. /\ Len(m) + 1 \in 1 .. Len(m) + 1 /\ Len(m) + 1 \in 1 .. Len(b) /\ Len(m) + 1 <= Len(b)
          /\ Len(m) + 1 \in 1 .. Len(todo) /\ ~(Len(m) + 1 <= Len(m)) /\ (Len(m) + 1) - Len(m) = 1
      BY <1>3, <1>5, <1>6, <1>8
    <2>2. a[Len(m) + 1] = lst[1]
      BY <1>4, <2>1 DEF a
    <2>3. b[Len(m) + 1] = a[Len(m) + 1]
      BY <1>5, <2>1
    <2> QED BY <1>1, <1>6, <1>7, <2>1, <2>2, <2>3
  <1>11. ASSUME NEW i \in DOMAIN todo, i \notin DOMAIN m, i # Len(m) + 1
         PROVE  \/ todo[i] = Step("mutable", ReadMe)
                \/ todo[i] = Step("index", None) /\ i = Len(todo) /\ swap # <<>>
    <2>1. i \in 1 .. Len(todo) /\ ~(i <= Len(m) + 1)
      BY <1>3, <1>7, <1>11
    <2>2. CASE i <= Len(b)
      <3>1. i \in 1 .. Len(b) /\ i - (Len(m) + 1) = 1 /\ Len(loose) = 1
        BY <1>3, <1>5, <1>8, <2>1, <2>2
      <3>2. todo[i] = b[i] /\ b[i] = loose[1]
        BY <1>5, <1>6, <2>1, <2>2, <3>1
      <3> QED BY <1>2, <3>1, <3>2
    <2>3. CASE ~(i <= Len(b))
      <3>1. i - Len(b) = 1 /\ Len(swap) = 1 /\ i = Len(todo)
        BY <1>6, <1>8, <2>1, <2>3
      <3>2. todo[i] = swap[1]
        BY <1>6, <2>1, <2>3, <3>1
      <3> QED BY <1>2, <3>1, <3>2
    <2> QED BY <2>2, <2>3
  <1>12. todo = m \o <<Step("list", None)>> \o loose \o swap
    BY DEF todo, a, b, lst
  <1> QED BY <1>3, <1>6, <1>9, <1>10, <1>11, <1>12

(* What Check makes of a job: lines it accepts, what it does for them, the *)
(* list after it, and the index at last.                                   *)
Job(p, accepted, refused, done, todo) ==
    [job[p] EXCEPT !.at = "place", !.seen = index, !.lines = accepted,
                   !.refused = refused, !.done = done, !.todo = todo]

LEMMA CheckDoes ==
    ASSUME NEW p \in Publisher, TypeOK, Check(p)
    PROVE  \E accepted \in Distinct, refused \in BOOLEAN, done \in BOOLEAN, todo \in Seq(Steps) :
              /\ job' = [job EXCEPT ![p] = Job(p, accepted, refused, done, todo)]
              /\ Range(accepted) \subseteq Range(Owned(p))
              /\ \A l \in Range(accepted) : \A f \in FilesOfLine[l] : staged[p][f] # None =>
                    \E i \in DOMAIN todo : todo[i] = Step("place", f)
              /\ \E k \in DOMAIN todo :
                    /\ todo[k].do = "list"
                    /\ \A i \in DOMAIN todo : todo[i].do = "place" => i < k /\ staged[p][todo[i].file] # None
              /\ \A i \in DOMAIN todo :
                    /\ todo[i].do \in {"place", "list", "mutable", "index"}
                    /\ todo[i].do = "index" => i = Len(todo)
  <1>1. job[p].lines \in Distinct
    BY DEF TypeOK, PortalOK, Jobs
  <1>2. Owned(p) \in Distinct
    BY <1>1, OwnedIs
  <1>3. PICK checks \in BOOLEAN :
       LET accepted == IF checks THEN Owned(p) ELSE <<>>
           undone == {l \in Withdrawals(p) : checks /\ staged[p][Withdrawal(l)] = Found(p, Sig(l))}
           refused == \/ Range(job[p].lines) \ Range(index) # Range(accepted)
                      \/ undone # Withdrawals(p)
           withdrawn == Keep(InOrder, {Withdrawal(l) : l \in undone})
           loose == IF refused \/ staged[p][ReadMe] = None \/ Refuses(p, ReadMe)
                    THEN <<>> ELSE <<Step("mutable", ReadMe)>>
           swap == IF accepted = <<>> THEN <<>> ELSE <<Step("index", None)>>
       IN job' = [job EXCEPT ![p] = [job[p] EXCEPT !.at = "place", !.seen = index, !.lines = accepted,
                    !.refused = refused, !.done = accepted # <<>> \/ undone # {} \/ loose # <<>>,
                    !.todo = Move(p, Concat(FilesOf, accepted) \o withdrawn)
                             \o <<Step("list", None)>> \o loose \o swap]]
    BY DEF Check
  <1> DEFINE accepted == IF checks THEN Owned(p) ELSE <<>>
             undone == {l \in Withdrawals(p) : checks /\ staged[p][Withdrawal(l)] = Found(p, Sig(l))}
             refused == \/ Range(job[p].lines) \ Range(index) # Range(accepted)
                        \/ undone # Withdrawals(p)
             withdrawn == Keep(InOrder, {Withdrawal(l) : l \in undone})
             loose == IF refused \/ staged[p][ReadMe] = None \/ Refuses(p, ReadMe)
                      THEN <<>> ELSE <<Step("mutable", ReadMe)>>
             swap == IF accepted = <<>> THEN <<>> ELSE <<Step("index", None)>>
             done == accepted # <<>> \/ undone # {} \/ loose # <<>>
             files == Concat(FilesOf, accepted) \o withdrawn
             m == Move(p, files)
             todo == m \o <<Step("list", None)>> \o loose \o swap
  <1>4. job' = [job EXCEPT ![p] = Job(p, accepted, refused, done, todo)]
    BY <1>3 DEF Job
  <1>5. accepted \in Distinct /\ Range(accepted) \subseteq Range(Owned(p))
    <2>1. <<>> \in Distinct /\ Range(<<>>) = {}
      BY RangeOfNone DEF Distinct
    <2> QED BY <1>2, <2>1
  <1>6. refused \in BOOLEAN /\ done \in BOOLEAN
    OBVIOUS
  <1>7. loose \in {<<>>, <<Step("mutable", ReadMe)>>} /\ swap \in {<<>>, <<Step("index", None)>>}
    OBVIOUS
  <1>8. withdrawn \in Seq(Paths)
    BY PushAssumption, Keeps
  <1> HIDE DEF accepted, refused, done, loose, swap, withdrawn
  <1>9. accepted \in Seq(Lines) /\ Range(accepted) \subseteq Lines
    BY <1>5, DistinctKeep
  <1>10. /\ Concat(FilesOf, accepted) \in Seq(Paths)
         /\ \A l \in Range(accepted) : Range(FilesOf[l]) \subseteq Range(Concat(FilesOf, accepted))
    BY <1>9, FilesAre, RangeOfAll
  <1>11. files \in Seq(Paths) /\ Range(Concat(FilesOf, accepted)) \subseteq Range(files)
    BY <1>8, <1>10, RangeOfConcat
  <1> HIDE DEF files
  <1>12. /\ m \in Seq(Steps)
         /\ \A i \in DOMAIN m : m[i].do = "place" /\ staged[p][m[i].file] # None
         /\ \A f \in Range(files) : staged[p][f] # None => \E i \in DOMAIN m : m[i] = Step("place", f)
    BY <1>11, MoveIs
  <1> HIDE DEF m
  <1>13. /\ todo \in Seq(Steps) /\ Len(m) \in Nat /\ Len(m) + 1 \in DOMAIN todo
         /\ \A i \in DOMAIN m : i \in DOMAIN todo /\ todo[i] = m[i]
         /\ todo[Len(m) + 1] = Step("list", None)
         /\ \A i \in DOMAIN todo :
               \/ i \in DOMAIN m
               \/ i = Len(m) + 1
               \/ todo[i] = Step("mutable", ReadMe)
               \/ todo[i] = Step("index", None) /\ i = Len(todo) /\ swap # <<>>
    BY <1>7, <1>12, TodoIs, ZenonT(60)
  <1> HIDE DEF todo
  <1>14. \A f : Step("list", f).do = "list" /\ Step("mutable", f).do = "mutable" /\ Step("index", f).do = "index"
    BY DEF Step
  <1>15. \A l \in Range(accepted) : \A f \in FilesOfLine[l] : staged[p][f] # None =>
            \E i \in DOMAIN todo : todo[i] = Step("place", f)
    <2> SUFFICES ASSUME NEW l \in Range(accepted), NEW f \in FilesOfLine[l], staged[p][f] # None
                 PROVE  \E i \in DOMAIN todo : todo[i] = Step("place", f)
      OBVIOUS
    <2>1. f \in Range(FilesOf[l])
      BY <1>9, FilesAre
    <2>2. f \in Range(files)
      BY <1>10, <1>11, <2>1
    <2>3. PICK i \in DOMAIN m : m[i] = Step("place", f)
      BY <1>12, <2>2
    <2> QED BY <1>13, <2>3
  <1>16. ASSUME NEW i \in DOMAIN todo, todo[i].do = "place"
         PROVE  i < Len(m) + 1 /\ staged[p][todo[i].file] # None
    <2>1. i \in DOMAIN m /\ todo[i] = m[i]
      BY <1>13, <1>14, <1>16
    <2>2. DOMAIN m = 1 .. Len(m)
      BY <1>12, LenProperties
    <2> QED BY <1>12, <1>13, <2>1, <2>2
  <1>17. \A i \in DOMAIN todo :
            /\ todo[i].do \in {"place", "list", "mutable", "index"}
            /\ todo[i].do = "index" => i = Len(todo)
    BY <1>12, <1>13, <1>14
  <1>18. \E k \in DOMAIN todo :
            /\ todo[k].do = "list"
            /\ \A i \in DOMAIN todo : todo[i].do = "place" => i < k /\ staged[p][todo[i].file] # None
    BY <1>13, <1>14, <1>16
  <1> QED BY <1>4, <1>5, <1>6, <1>13, <1>15, <1>17, <1>18

-----------------------------------------------------------------------------
(* Every variable keeps what it holds. *)
LEMMA JobsAre ==
    /\ Idle \in Jobs
    /\ \A j \in Jobs, t \in Seq(Steps) : [j EXCEPT !.todo = t] \in Jobs
    /\ \A j \in Jobs : [j EXCEPT !.heard = FALSE] \in Jobs
    /\ \A j \in Jobs, t \in Seq(Steps) : [j EXCEPT !.at = "settle", !.todo = t] \in Jobs
    /\ \A j \in Jobs, s \in Distinct : [j EXCEPT !.at = "gate", !.lines = s] \in Jobs
  <1>1. <<>> \in Distinct /\ <<>> \in Seq(Lines) /\ <<>> \in Seq(Steps)
    BY DEF Distinct
  <1>2. Idle \in Jobs
    BY <1>1 DEF Idle, Jobs
  <1>3. \A j \in Jobs, t \in Seq(Steps) : [j EXCEPT !.todo = t] \in Jobs
    BY DEF Jobs
  <1>4. \A j \in Jobs : [j EXCEPT !.heard = FALSE] \in Jobs
    BY DEF Jobs
  <1>5. \A j \in Jobs, t \in Seq(Steps) : [j EXCEPT !.at = "settle", !.todo = t] \in Jobs
    BY DEF Jobs
  <1>6. \A j \in Jobs, s \in Distinct : [j EXCEPT !.at = "gate", !.lines = s] \in Jobs
    BY DEF Jobs
  <1> QED BY <1>2, <1>3, <1>4, <1>5, <1>6

LEMMA JobIs ==
    ASSUME NEW p \in Publisher, TypeOK, NEW accepted \in Distinct, NEW refused \in BOOLEAN,
           NEW done \in BOOLEAN, NEW todo \in Seq(Steps)
    PROVE  LET j == Job(p, accepted, refused, done, todo) IN
           j \in Jobs /\ j.at = "place" /\ j.seen = index /\ j.lines = accepted /\ j.todo = todo
  <1>1. job[p] \in Jobs /\ index \in Seq(Lines)
    BY DEF TypeOK, PortalOK, ChannelOK
  <1> QED BY <1>1 DEF Job, Jobs

LEMMA StopIs ==
    ASSUME NEW said
    PROVE  IsClient([pc |-> "idle", body |-> Nothing, need |-> <<>>, off |-> 0, said |-> said])
  BY NothingIs DEF IsClient

LEMMA SendIs ==
    ASSUME NEW c, IsClient(c), NEW n \in Seq(Paths)
    PROVE  IsClient([c EXCEPT !.need = n, !.off = 0, !.body = Nothing,
                              !.pc = IF n = <<>> THEN "commit" ELSE "put"])
  BY NothingIs DEF IsClient

LEMMA ClientSame ==
    ASSUME ClientOK, UNCHANGED client, \A q \in Publisher : job'[q] = job[q] \/ job'[q].at # "settle"
    PROVE  ClientOK'
  BY DEF ClientOK, Settling

LEMMA ClientPut ==
    ASSUME ClientOK, NEW p \in Publisher, NEW c, IsClient(c), client' = [client EXCEPT ![p] = c],
           \A q \in Publisher \ {p} : job'[q] = job[q] \/ job'[q].at # "settle",
           job'[p].at # "settle"
    PROVE  ClientOK'
  <1>1. /\ DOMAIN client' = Publisher /\ client' = [q \in Publisher |-> client'[q]]
        /\ client'[p] = c /\ \A q \in Publisher \ {p} : client'[q] = client[q]
    BY DEF ClientOK
  <1>2. IsClient(client[p])'
    BY <1>1 DEF IsClient
  <1>3. \A q \in Publisher \ {p} : IsClient(client[q])'
    BY <1>1 DEF IsClient, ClientOK
  <1>4. Settling(p)'
    BY DEF Settling
  <1>5. \A q \in Publisher \ {p} : Settling(q)'
    BY <1>1 DEF Settling, ClientOK
  <1> QED BY <1>1, <1>2, <1>3, <1>4, <1>5 DEF ClientOK

(* The answer to a job that ends, if anybody waits for it.                 *)
LEMMA StopKeeps ==
    ASSUME ClientOK, NEW p \in Publisher, NEW said, Stop(p, said),
           \A q \in Publisher \ {p} : job'[q] = job[q], job'[p].at # "settle"
    PROVE  ClientOK'
  BY StopIs, ClientPut DEF Stop

LEMMA SendKeeps ==
    ASSUME ClientOK, NEW p \in Publisher, NEW n \in Seq(Paths), Send(p, n),
           \A q \in Publisher \ {p} : job'[q] = job[q], job'[p].at # "settle"
    PROVE  ClientOK'
  <1> DEFINE c == [client[p] EXCEPT !.need = n, !.off = 0, !.body = Nothing,
                                    !.pc = IF n = <<>> THEN "commit" ELSE "put"]
  <1>1. IsClient(c)
    BY SendIs DEF ClientOK
  <1>2. client' = [client EXCEPT ![p] = c]
    BY DEF Send
  <1> HIDE DEF c
  <1> QED BY <1>1, <1>2, ClientPut

LEMMA AnswerKeeps ==
    ASSUME ClientOK, NEW p \in Publisher, NEW said, Answer(p, Stop(p, said)),
           \A q \in Publisher \ {p} : job'[q] = job[q], job'[p].at # "settle"
    PROVE  ClientOK'
  <1>1. CASE Stop(p, said)
    BY <1>1, StopKeeps
  <1>2. CASE UNCHANGED client
    BY <1>2, ClientSame
  <1> QED BY <1>1, <1>2 DEF Answer

LEMMA ResumeKeeps ==
    ASSUME ClientOK, NEW p \in Publisher, NEW f, NEW n, Resume(p, f, n), UNCHANGED job,
           job[p].at # "settle"
    PROVE  ClientOK'
  <1>1. CASE Stop(p, "untaken")
    BY <1>1, StopKeeps
  <1>2. CASE client' = [client EXCEPT ![p].off = n]
    <2> DEFINE c == [client[p] EXCEPT !.off = n]
    <2>1. IsClient(c)
      BY DEF IsClient, ClientOK
    <2>2. client' = [client EXCEPT ![p] = c]
      BY <1>2
    <2> HIDE DEF c
    <2> QED BY <2>1, <2>2, ClientPut
  <1> QED BY <1>1, <1>2 DEF Resume

LEMMA IdleAt == Idle.at = "idle" /\ Idle.todo = <<>>
  BY DEF Idle

(* What changes nothing of the channel, of a publisher's staging, or of    *)
(* who handles what.                                                       *)
LEMMA SameTypes ==
    /\ ChannelOK /\ UNCHANGED <<live, url, digest, index>> => ChannelOK'
    /\ StagingOK /\ UNCHANGED <<plan, staged>> => StagingOK'
    /\ PortalOK /\ UNCHANGED <<job, gate, admin, stash>> => PortalOK'
    /\ PortalOK /\ job' \in [Publisher -> Jobs] /\ UNCHANGED <<gate, admin, stash>> => PortalOK'
  BY DEF ChannelOK, StagingOK, PortalOK

LEMMA Uses ==
    ASSUME used \in [DOMAIN Bounds -> Nat], NEW what \in DOMAIN Bounds, Use(what)
    PROVE  /\ used' \in [DOMAIN Bounds -> Nat] /\ used'[what] = used[what] + 1
           /\ \A b \in DOMAIN Bounds \ {what} : used'[b] = used[b]
  BY DEF Use

LEMMA BoundsAre ==
    {"cuts", "expiries", "removals", "restorals", "withdrawals", "remakes", "moves"} = DOMAIN Bounds
  BY DEF Bounds

LEMMA MadeIs ==
    ASSUME NEW p \in Publisher, NEW i \in 1 .. Len(Offers[p]), NEW w \in SUBSET Digests
    PROVE  Made(Offers[p][i], w) \in Locals
  <1>1. Offers[p] \in Seq(Offer)
    BY PushAssumption
  <1>2. Offers[p][i] \in Offer /\ Offers[p][i] \in Range(Offers[p])
    BY <1>1, RangeOf
  <1>3. Offers[p][i].lines \in Seq(Lines) /\ Offers[p][i].readme \in Edition \cup {None}
    BY <1>2 DEF Offer
  <1>4. Offers[p][i].lines \in Distinct
    BY <1>2, <1>3, PushAssumption DEF Distinct
  <1> QED BY <1>3, <1>4 DEF Made, Locals

LEMMA PublishTypes ==
    ASSUME TypeOK, NEW p \in Publisher, Publish(p) \/ Remake(p) \/ Withdraw(p)
    PROVE  TypeOK'
  <1>1. local' \in [Publisher -> Locals]
    <2>0. local \in [Publisher -> Locals] /\ Offers[p] \in Seq(Offer) \ {<<>>}
      BY PushAssumption DEF TypeOK
    <2>1. CASE Publish(p)
      <3>1. 1 \in 1 .. Len(Offers[p]) /\ Head(Offers[p]) = Offers[p][1]
        BY <2>0, RangeOfTail, LenProperties
      <3>2. Made(Head(Offers[p]), {}) \in Locals
        BY <3>1, MadeIs
      <3> QED BY <2>0, <2>1, <3>2 DEF Publish
    <2>2. CASE Remake(p)
      <3>1. PICK i \in 2 .. Len(Offers[p]) : local' = [local EXCEPT ![p] = Made(Offers[p][i], {})]
        BY <2>2 DEF Remake
      <3>2. i \in 1 .. Len(Offers[p])
        BY <2>0, LenProperties
      <3>3. Made(Offers[p][i], {}) \in Locals
        BY <3>2, MadeIs
      <3> QED BY <2>0, <3>1, <3>3
    <2>3. CASE Withdraw(p)
      <3>1. PICK l \in Range(local[p].lines) : local' = [local EXCEPT ![p].withdrawn = @ \cup {l.digest}]
        BY <2>3 DEF Withdraw
      <3>2. local[p] \in Locals /\ local[p].lines \in Seq(Lines)
        BY <2>0 DEF Locals, Distinct
      <3>3. l \in Lines /\ l.digest \in Digests
        BY <3>2, RangeOf DEF Digests
      <3>4. [local[p] EXCEPT !.withdrawn = @ \cup {l.digest}] \in Locals
        BY <3>2, <3>3 DEF Locals
      <3> QED BY <2>0, <3>1, <3>4
    <2> QED BY <2>1, <2>2, <2>3
  <1>2. used' \in [DOMAIN Bounds -> Nat]
    BY Uses, BoundsAre DEF TypeOK, Publish, Remake, Withdraw
  <1>3. UNCHANGED <<channel, staging, portal, client, back>>
    BY DEF Publish, Remake, Withdraw
  <1>4. ChannelOK' /\ StagingOK' /\ PortalOK' /\ ClientOK'
    BY <1>3, SameTypes, ClientSame DEF TypeOK, channel, staging, portal
  <1> QED BY <1>1, <1>2, <1>3, <1>4 DEF TypeOK

LEMMA StartTypes ==
    ASSUME TypeOK, NEW p \in Publisher, Start(p)
    PROVE  TypeOK'
  <1>1. UNCHANGED <<channel, staging, portal, local, used, back>>
    BY DEF Start
  <1>2. ChannelOK' /\ StagingOK' /\ PortalOK'
    BY <1>1, SameTypes DEF TypeOK, channel, staging, portal
  <1> DEFINE body == [f \in Paths |-> LocalFile(p, f)]
             c == [client[p] EXCEPT !.pc = "plan", !.said = None, !.body = body]
  <1>3. body \in FileMaps
    BY LocalFiles DEF TypeOK
  <1>4. client' = [client EXCEPT ![p] = c]
    BY DEF Start
  <1> HIDE DEF body
  <1>5. IsClient(client[p])
    BY DEF TypeOK, ClientOK
  <1>6. IsClient(c)
    BY <1>3, <1>5 DEF IsClient
  <1>7. client[p].pc = "idle" /\ job' = job
    BY <1>1 DEF Start, At, portal
  <1>8. /\ DOMAIN client' = Publisher /\ client' = [q \in Publisher |-> client'[q]]
        /\ client'[p] = c /\ \A q \in Publisher \ {p} : client'[q] = client[q]
    BY <1>4 DEF TypeOK, ClientOK
  <1> HIDE DEF c
  <1>9. \A q \in Publisher : IsClient(client[q])'
    BY <1>6, <1>8 DEF IsClient, TypeOK, ClientOK
  <1>10. \A q \in Publisher : Settling(q)'
    <2>1. \A q \in Publisher : Settling(q)
      BY DEF TypeOK, ClientOK
    <2> QED BY <1>7, <1>8, <2>1 DEF Settling
  <1>11. ClientOK'
    BY <1>8, <1>9, <1>10 DEF ClientOK
  <1> QED BY <1>1, <1>2, <1>11 DEF TypeOK

LEMMA PlanTypes ==
    ASSUME TypeOK, NEW p \in Publisher, Plan(p)
    PROVE  TypeOK'
  <1>1. UNCHANGED <<channel, part, portal, local, used, back>>
    BY DEF Plan
  <1>2. ChannelOK' /\ PortalOK'
    BY <1>1, SameTypes DEF TypeOK, channel, portal
  <1> DEFINE body == client[p].body
             wanted == {f \in Paths :
                          /\ body[f] # None /\ ~Refuses(p, f)
                          /\ Published(f) => LiveSha(f) # body[f] /\ ~Immutable(f)}
             need == {f \in wanted : staged[p][f] = None \/ plan[p][f] # body[f]}
  <1>3. /\ plan' = [plan EXCEPT ![p] = [f \in Paths |-> IF f \in wanted THEN body[f] ELSE plan[p][f]]]
        /\ staged' = [staged EXCEPT ![p] = [f \in Paths |-> IF f \in need THEN None ELSE staged[p][f]]]
        /\ Send(p, Keep(InOrder, need))
    BY DEF Plan
  <1>4. body \in FileMaps /\ plan[p] \in FileMaps /\ staged[p] \in FileMaps
    BY DEF TypeOK, ClientOK, IsClient, StagingOK
  <1> HIDE DEF body, wanted, need
  <1>5. [f \in Paths |-> IF f \in wanted THEN body[f] ELSE plan[p][f]] \in FileMaps
    <2> DEFINE k == [f \in Paths |-> IF f \in wanted THEN body[f] ELSE plan[p][f]]
    <2>1. k = [f \in Paths |-> k[f]] /\ \A f \in Paths : k[f] \in {body[f], plan[p][f], None}
      OBVIOUS
    <2> HIDE DEF k
    <2>2. k \in FileMaps
      BY <1>4, <2>1, FileMapsOf
    <2> QED BY <2>2 DEF k
  <1>6. [f \in Paths |-> IF f \in need THEN None ELSE staged[p][f]] \in FileMaps
    <2> DEFINE k == [f \in Paths |-> IF f \in need THEN None ELSE staged[p][f]]
    <2>1. k = [f \in Paths |-> k[f]] /\ \A f \in Paths : k[f] \in {staged[p][f], staged[p][f], None}
      OBVIOUS
    <2> HIDE DEF k
    <2>2. k \in FileMaps
      BY <1>4, <2>1, FileMapsOf
    <2> QED BY <2>2 DEF k
  <1>7. StagingOK'
    BY <1>3, <1>5, <1>6 DEF TypeOK, StagingOK
  <1>8. Keep(InOrder, need) \in Seq(Paths)
    BY PushAssumption, Keeps
  <1>9. job[p].at # "settle" /\ job' = job
    BY <1>1, IdleAt DEF Plan, portal
  <1>10. ClientOK'
    BY <1>3, <1>8, <1>9, SendKeeps DEF TypeOK
  <1> QED BY <1>1, <1>2, <1>7, <1>10 DEF TypeOK

LEMMA SentKeeps ==
    ASSUME ClientOK, NEW p \in Publisher, Sent(p), client[p].pc = "put",
           \A q \in Publisher \ {p} : job'[q] = job[q], job'[p].at # "settle"
    PROVE  ClientOK'
  <1>1. client[p].need \in Seq(Paths) /\ client[p].need # <<>>
    BY DEF ClientOK, IsClient
  <1>2. Tail(client[p].need) \in Seq(Paths)
    BY <1>1, RangeOfTail
  <1> QED BY <1>2, SendKeeps DEF Sent

LEMMA PutAnsweredTypes ==
    ASSUME TypeOK, NEW p \in Publisher, PutAnswered(p)
    PROVE  TypeOK'
  <1>1. UNCHANGED <<channel, staging, portal, local, used, back>>
    BY DEF PutAnswered
  <1>2. ChannelOK' /\ StagingOK' /\ PortalOK'
    BY <1>1, SameTypes DEF TypeOK, channel, staging, portal
  <1>3. job[p].at # "settle" /\ job' = job /\ client[p].pc = "put"
    BY <1>1, IdleAt DEF PutAnswered, portal, At
  <1>4. \/ Sent(p) \/ Stop(p, "untaken")
        \/ Resume(p, Head(client[p].need), Len(part[p][Head(client[p].need)]))
    BY DEF PutAnswered
  <1>5. ClientOK'
    BY <1>3, <1>4, SentKeeps, StopKeeps, ResumeKeeps DEF TypeOK
  <1> QED BY <1>1, <1>2, <1>5 DEF TypeOK

LEMMA PutBodyTypes ==
    ASSUME TypeOK, NEW p \in Publisher, PutBody(p)
    PROVE  TypeOK'
  <1>1. UNCHANGED <<channel, plan, staged, gate, admin, stash, lister, local, used, back>>
    BY DEF PutBody
  <1>2. ChannelOK' /\ StagingOK'
    BY <1>1, SameTypes DEF TypeOK, channel
  <1> DEFINE f == Head(client[p].need)
             end == client[p].off + Chunk(p, f)
             t == <<Step("settle", f)>>
             j == [job[p] EXCEPT !.at = "settle", !.todo = t]
  <1>3. \/ Resume(p, f, end) /\ UNCHANGED job
        \/ job' = [job EXCEPT ![p] = j] /\ UNCHANGED client
    BY DEF PutBody
  <1>4. /\ client[p].pc = "put" /\ client[p].need \in Seq(Paths) /\ client[p].need # <<>>
        /\ job[p] = Idle
    BY DEF PutBody, At, TypeOK, ClientOK, IsClient
  <1>5. f \in Paths
    BY <1>4, RangeOfTail
  <1>6. t \in Seq(Steps) /\ t # <<>> /\ Head(t).do = "settle"
    <2>1. Step("settle", f) \in Steps /\ Step("settle", f).do = "settle"
      BY <1>5, StepsAre DEF Step
    <2> QED BY <2>1
  <1> HIDE DEF f, end, t
  <1>7. job[p] \in Jobs /\ j \in Jobs /\ j.at = "settle" /\ j.todo = t
    <2>1. job[p] \in Jobs
      BY DEF TypeOK, PortalOK
    <2>2. j \in Jobs
      BY <1>6, <2>1, JobsAre
    <2> QED BY <2>1, <2>2 DEF Jobs
  <1> HIDE DEF j
  <1>8. CASE Resume(p, f, end) /\ UNCHANGED job
    <2>1. PortalOK'
      BY <1>1, <1>8, SameTypes DEF TypeOK
    <2>2. ClientOK'
      BY <1>4, <1>8, IdleAt, ResumeKeeps DEF TypeOK
    <2> QED BY <1>1, <1>2, <2>1, <2>2 DEF TypeOK
  <1>9. CASE job' = [job EXCEPT ![p] = j] /\ UNCHANGED client
    <2>1. job \in [Publisher -> Jobs]
      BY DEF TypeOK, PortalOK
    <2>2. job' \in [Publisher -> Jobs] /\ job'[p] = j /\ \A q \in Publisher \ {p} : job'[q] = job[q]
      BY <1>7, <1>9, <2>1
    <2>3. PortalOK'
      BY <1>1, <2>2, SameTypes DEF TypeOK
    <2>4. Settling(p)'
      BY <1>4, <1>6, <1>7, <1>9, <2>2 DEF Settling
    <2>5. \A q \in Publisher \ {p} : Settling(q)'
      BY <1>9, <2>2 DEF TypeOK, ClientOK, Settling
    <2>6. \A q \in Publisher : IsClient(client[q])'
      BY <1>9 DEF TypeOK, ClientOK, IsClient
    <2>7. ClientOK'
      BY <1>9, <2>4, <2>5, <2>6 DEF TypeOK, ClientOK
    <2> QED BY <1>1, <1>2, <2>3, <2>7 DEF TypeOK
  <1> QED BY <1>3, <1>8, <1>9

LEMMA SettleTypes ==
    ASSUME TypeOK, NEW p \in Publisher, Settle(p)
    PROVE  TypeOK'
  <1>1. UNCHANGED <<channel, plan, gate, admin, stash, lister, local, used, back>>
    BY DEF Settle
  <1> DEFINE f == Head(job[p].todo).file
             good == Range(part[p][f]) = {plan[p][f]}
  <1>2. /\ job[p].at = "settle" /\ job' = [job EXCEPT ![p] = Idle]
        /\ staged' = IF good THEN [staged EXCEPT ![p][f] = plan[p][f]] ELSE staged
        /\ Answer(p, IF good THEN Sent(p) ELSE Stop(p, "untaken"))
    BY DEF Settle
  <1>3. job \in [Publisher -> Jobs]
    BY DEF TypeOK, PortalOK
  <1>4. job[p].todo \in Seq(Steps)
    BY <1>3 DEF Jobs
  <1>5. /\ job[p].todo # <<>> /\ Head(job[p].todo).do = "settle"
        /\ job[p].heard => client[p].pc = "put"
    BY <1>2 DEF TypeOK, ClientOK, Settling
  <1>6. f \in Paths
    <2>1. Head(job[p].todo) \in Steps
      BY <1>4, <1>5, RangeOfTail
    <2> QED BY <1>5, <2>1, StepsAre
  <1> HIDE DEF f, good
  <1>7. plan[p] \in FileMaps /\ staged[p] \in FileMaps
    BY DEF TypeOK, StagingOK
  <1>8. [staged[p] EXCEPT ![f] = plan[p][f]] \in FileMaps
    BY <1>6, <1>7, FileMapsPut
  <1>9. StagingOK'
    BY <1>1, <1>2, <1>8 DEF TypeOK, StagingOK
  <1>10. job' \in [Publisher -> Jobs] /\ job'[p] = Idle /\ \A q \in Publisher \ {p} : job'[q] = job[q]
    BY <1>2, <1>3, JobsAre
  <1>11. ChannelOK' /\ PortalOK'
    BY <1>1, <1>10, SameTypes DEF TypeOK, channel
  <1>12. \/ UNCHANGED client
         \/ Sent(p) /\ client[p].pc = "put"
         \/ Stop(p, "untaken")
    BY <1>2, <1>5 DEF Answer
  <1>13. ClientOK'
    BY <1>10, <1>12, IdleAt, ClientSame, SentKeeps, StopKeeps DEF TypeOK
  <1> QED BY <1>1, <1>9, <1>11, <1>13 DEF TypeOK

LEMMA TroubleTypes ==
    ASSUME TypeOK, NEW p \in Publisher, PutCut(p) \/ Lose(p)
    PROVE  TypeOK'
  <1>1. UNCHANGED <<channel, plan, staged, portal, local, back>>
    BY DEF PutCut, Lose, staging
  <1>2. ChannelOK' /\ StagingOK' /\ PortalOK'
    BY <1>1, SameTypes DEF TypeOK, channel, portal
  <1>3. job' = job /\ job[p].at # "settle" /\ Stop(p, "unreachable")
    BY <1>1, IdleAt DEF PutCut, Lose, portal
  <1>4. ClientOK'
    BY <1>3, StopKeeps DEF TypeOK
  <1>5. used' \in [DOMAIN Bounds -> Nat]
    BY Uses, BoundsAre DEF TypeOK, PutCut, Lose
  <1> QED BY <1>1, <1>2, <1>4, <1>5 DEF TypeOK

(* A job whose request ends, or is given up by its publisher.              *)
LEMMA EndTypes ==
    ASSUME TypeOK, NEW p \in Publisher, HangUp(p) \/ Fail(p)
    PROVE  TypeOK'
  <1>1. /\ UNCHANGED <<channel, staging, admin, stash, local, back>>
        /\ gate' \in {gate, None}
    BY DEF HangUp, Fail
  <1>2. job \in [Publisher -> Jobs]
    BY DEF TypeOK, PortalOK
  <1>3. used' \in [DOMAIN Bounds -> Nat]
    BY Uses, BoundsAre DEF TypeOK, HangUp, Fail
  <1>4. ChannelOK' /\ StagingOK'
    BY <1>1, SameTypes DEF TypeOK, channel, staging
  <1>5. CASE HangUp(p)
    <2> DEFINE j == [job[p] EXCEPT !.heard = FALSE]
    <2>1. job' = [job EXCEPT ![p] = j] /\ Stop(p, "unreachable") /\ gate' = gate
      BY <1>5 DEF HangUp
    <2>2. j \in Jobs /\ j.heard = FALSE /\ j.at = job[p].at /\ j.todo = job[p].todo
      <3>1. job[p] \in Jobs
        BY <1>2
      <3>2. j \in Jobs
        BY <3>1, JobsAre
      <3> QED BY <3>1, <3>2 DEF Jobs
    <2> HIDE DEF j
    <2>3. job' \in [Publisher -> Jobs] /\ job'[p] = j /\ \A q \in Publisher \ {p} : job'[q] = job[q]
      BY <1>2, <2>1, <2>2
    <2>4. PortalOK'
      BY <1>1, <2>1, <2>3 DEF TypeOK, PortalOK
    <2> DEFINE c == [pc |-> "idle", body |-> Nothing, need |-> <<>>, off |-> 0, said |-> "unreachable"]
    <2>5. IsClient(c) /\ client' = [client EXCEPT ![p] = c]
      BY <2>1, StopIs DEF Stop
    <2> HIDE DEF c
    <2>6. /\ DOMAIN client' = Publisher /\ client' = [q \in Publisher |-> client'[q]]
          /\ client'[p] = c /\ \A q \in Publisher \ {p} : client'[q] = client[q]
      BY <2>5 DEF TypeOK, ClientOK
    <2>7. \A q \in Publisher : IsClient(client[q])'
      BY <2>5, <2>6 DEF IsClient, TypeOK, ClientOK
    <2>8. \A q \in Publisher : Settling(q)'
      BY <2>2, <2>3, <2>6 DEF TypeOK, ClientOK, Settling
    <2>9. ClientOK'
      BY <2>6, <2>7, <2>8 DEF ClientOK
    <2> QED BY <1>1, <1>3, <1>4, <2>4, <2>9 DEF TypeOK
  <1>6. CASE Fail(p)
    <2>1. job' = [job EXCEPT ![p] = Idle] /\ Answer(p, Stop(p, "unreachable"))
      BY <1>6 DEF Fail
    <2>2. job' \in [Publisher -> Jobs] /\ job'[p] = Idle /\ \A q \in Publisher \ {p} : job'[q] = job[q]
      BY <1>2, <2>1, JobsAre
    <2>3. PortalOK'
      BY <1>1, <2>2 DEF TypeOK, PortalOK
    <2>4. ClientOK'
      BY <2>1, <2>2, IdleAt, AnswerKeeps DEF TypeOK
    <2> QED BY <1>1, <1>3, <1>4, <2>3, <2>4 DEF TypeOK
  <1> QED BY <1>5, <1>6

LEMMA SendIndexTypes ==
    ASSUME TypeOK, NEW p \in Publisher, SendIndex(p)
    PROVE  TypeOK'
  <1>1. UNCHANGED <<channel, staging, gate, admin, stash, lister, local, client, used, back>>
    BY DEF SendIndex
  <1> DEFINE j == [job[p] EXCEPT !.at = "gate", !.lines = local[p].lines]
  <1>2. job' = [job EXCEPT ![p] = j]
    BY DEF SendIndex
  <1>3. job \in [Publisher -> Jobs] /\ local[p].lines \in Distinct
    BY DEF TypeOK, PortalOK, Locals
  <1>4. j \in Jobs /\ j.at = "gate"
    <2>1. job[p] \in Jobs
      BY <1>3
    <2>2. j \in Jobs
      BY <1>3, <2>1, JobsAre
    <2> QED BY <2>1, <2>2 DEF Jobs
  <1> HIDE DEF j
  <1>5. job' \in [Publisher -> Jobs] /\ job'[p] = j /\ \A q \in Publisher \ {p} : job'[q] = job[q]
    BY <1>2, <1>3, <1>4
  <1>6. ChannelOK' /\ StagingOK' /\ PortalOK' /\ ClientOK'
    BY <1>1, <1>4, <1>5, SameTypes, ClientSame DEF TypeOK, channel, staging
  <1> QED BY <1>1, <1>6 DEF TypeOK

LEMMA CheckTypes ==
    ASSUME TypeOK, NEW p \in Publisher, Check(p)
    PROVE  TypeOK'
  <1>1. UNCHANGED <<channel, staging, admin, stash, lister, local, client, used, back>> /\ gate' = p
    BY DEF Check
  <1>2. PICK accepted \in Distinct, refused \in BOOLEAN, done \in BOOLEAN, todo \in Seq(Steps) :
            job' = [job EXCEPT ![p] = Job(p, accepted, refused, done, todo)]
    BY CheckDoes
  <1> DEFINE j == Job(p, accepted, refused, done, todo)
  <1>3. j \in Jobs /\ j.at = "place"
    BY JobIs
  <1> HIDE DEF j
  <1>4. job \in [Publisher -> Jobs]
    BY DEF TypeOK, PortalOK
  <1>5. job' \in [Publisher -> Jobs] /\ job'[p] = j /\ \A q \in Publisher \ {p} : job'[q] = job[q]
    BY <1>2, <1>3, <1>4 DEF j
  <1>6. PortalOK'
    BY <1>1, <1>5 DEF TypeOK, PortalOK
  <1>7. ChannelOK' /\ StagingOK' /\ ClientOK'
    BY <1>1, <1>3, <1>5, SameTypes, ClientSame DEF TypeOK, channel, staging
  <1> QED BY <1>1, <1>6, <1>7 DEF TypeOK

(* One step of what a commit has to do.                                    *)
LEMMA ThenIs ==
    ASSUME TypeOK, NEW p \in Publisher, NEW do, Doing(p, do), NEW more \in Seq(Steps), Then(p, more)
    PROVE  /\ job[p].todo \in Seq(Steps) /\ job[p].todo # <<>> /\ Head(job[p].todo) \in Steps
           /\ Head(job[p].todo).do = do /\ job[p].at = "place"
           /\ job'[p].todo = more \o Tail(job[p].todo)
           /\ job'[p].at = "place" /\ job'[p].seen = job[p].seen /\ job'[p].lines = job[p].lines
           /\ \A q \in Publisher \ {p} : job'[q] = job[q]
           /\ job' \in [Publisher -> Jobs]
  <1>1. job \in [Publisher -> Jobs] /\ job[p] \in Jobs
    BY DEF TypeOK, PortalOK
  <1>2. job[p].todo \in Seq(Steps) /\ job[p].todo # <<>> /\ Head(job[p].todo).do = do
        /\ job[p].at = "place"
    BY <1>1 DEF Jobs, Doing
  <1>3. Head(job[p].todo) \in Steps /\ Tail(job[p].todo) \in Seq(Steps)
    BY <1>2, RangeOfTail
  <1> DEFINE t == more \o Tail(job[p].todo)
             j == [job[p] EXCEPT !.todo = t]
  <1>4. t \in Seq(Steps)
    BY <1>3, ConcatProperties
  <1>5. job' = [job EXCEPT ![p] = j]
    BY DEF Then
  <1> HIDE DEF t
  <1>6. j \in Jobs /\ j.todo = t /\ j.at = job[p].at /\ j.seen = job[p].seen /\ j.lines = job[p].lines
    <2>1. j \in Jobs
      BY <1>1, <1>4, JobsAre
    <2> QED BY <1>1, <2>1 DEF Jobs
  <1> HIDE DEF j
  <1>7. job'[p] = j /\ \A q \in Publisher \ {p} : job'[q] = job[q]
    BY <1>1, <1>5
  <1>8. job' \in [Publisher -> Jobs]
    BY <1>1, <1>5, <1>6
  <1> QED BY <1>2, <1>3, <1>6, <1>7, <1>8 DEF t

LEMMA ThenTypes ==
    ASSUME TypeOK, NEW p \in Publisher, NEW do, Doing(p, do), NEW more \in Seq(Steps), Then(p, more),
           UNCHANGED <<gate, admin, stash, local, client, used, back>>
    PROVE  /\ PortalOK' /\ ClientOK'
           /\ local' \in [Publisher -> Locals] /\ used' \in [DOMAIN Bounds -> Nat] /\ back' \subseteq Lines
  <1>1. /\ job' \in [Publisher -> Jobs] /\ job'[p].at = "place"
        /\ \A q \in Publisher \ {p} : job'[q] = job[q]
    BY ThenIs
  <1>2. PortalOK'
    BY <1>1, SameTypes DEF TypeOK
  <1>3. ClientOK'
    BY <1>1, ClientSame DEF TypeOK
  <1> QED BY <1>2, <1>3 DEF TypeOK

(* What Place puts before the rest.                                        *)
More(f) == IF f.kind = "archive" /\ ~Published(f) THEN <<Step("digest", f)>> ELSE <<>>

LEMMA MoreIs ==
    ASSUME NEW f \in Paths
    PROVE  More(f) \in Seq(Steps)
  <1>1. f.kind = "archive" => Step("digest", f) \in Steps
    BY StepsAre
  <1>2. \A x \in Steps : <<x>> \in Seq(Steps)
    OBVIOUS
  <1>3. <<>> \in Seq(Steps)
    OBVIOUS
  <1> QED BY <1>1, <1>2, <1>3 DEF More

LEMMA PlaceIs ==
    ASSUME TypeOK, NEW p \in Publisher, Place(p)
    PROVE  LET f == Head(job[p].todo).file IN
           /\ f \in Paths /\ Doing(p, "place") /\ Then(p, More(f)) /\ More(f) \in Seq(Steps)
           /\ staged' = [staged EXCEPT ![p][f] = None]
           /\ live' = IF Published(f) THEN live ELSE [live EXCEPT ![f] = staged[p][f]]
           /\ UNCHANGED <<url, digest, index, listed, keeper, plan, part, gate, admin, stash, lister,
                          local, client, used, back>>
  <1>1. Doing(p, "place")
    BY DEF Place
  <1>2. job[p].todo \in Seq(Steps) /\ job[p].todo # <<>> /\ Head(job[p].todo).do = "place"
    BY <1>1 DEF TypeOK, PortalOK, Jobs, Doing
  <1>3. Head(job[p].todo) \in Steps
    BY <1>2, RangeOfTail
  <1>4. Head(job[p].todo).file \in Paths
    BY <1>2, <1>3, StepsAre
  <1> QED BY <1>1, <1>4, MoreIs DEF Place, More

LEMMA PlaceTypes ==
    ASSUME TypeOK, NEW p \in Publisher, Place(p)
    PROVE  TypeOK'
  <1> DEFINE f == Head(job[p].todo).file
  <1>1. /\ f \in Paths /\ Doing(p, "place") /\ Then(p, More(f)) /\ More(f) \in Seq(Steps)
        /\ staged' = [staged EXCEPT ![p][f] = None]
        /\ live' = IF Published(f) THEN live ELSE [live EXCEPT ![f] = staged[p][f]]
        /\ UNCHANGED <<url, digest, index, listed, keeper, plan, part, gate, admin, stash, lister,
                       local, client, used, back>>
    BY PlaceIs
  <1> HIDE DEF f
  <1>2. live \in FileMaps /\ staged[p] \in FileMaps /\ staged \in [Publisher -> FileMaps]
    BY DEF TypeOK, ChannelOK, StagingOK
  <1>3. [live EXCEPT ![f] = staged[p][f]] \in FileMaps /\ [staged[p] EXCEPT ![f] = None] \in FileMaps
    BY <1>1, <1>2, FileMapsPut
  <1>4. live' \in FileMaps /\ staged' \in [Publisher -> FileMaps]
    BY <1>1, <1>2, <1>3
  <1>5. ChannelOK' /\ StagingOK'
    BY <1>1, <1>4 DEF TypeOK, ChannelOK, StagingOK
  <1>6. /\ PortalOK' /\ ClientOK'
        /\ local' \in [Publisher -> Locals] /\ used' \in [DOMAIN Bounds -> Nat] /\ back' \subseteq Lines
    BY <1>1, ThenTypes
  <1> QED BY <1>5, <1>6 DEF TypeOK

LEMMA NoneMore == <<>> \in Seq(Steps) /\ \A s \in Seq(Steps) : <<>> \o s = s
  BY ConcatEmptySeq

LEMMA DigestTypes ==
    ASSUME TypeOK, NEW p \in Publisher, WriteDigest(p)
    PROVE  TypeOK'
  <1> DEFINE f == Head(job[p].todo).file
  <1>1. /\ Doing(p, "digest") /\ Then(p, <<>>) /\ digest' = [digest EXCEPT ![f.of] = live[f]]
        /\ UNCHANGED <<live, url, index, listed, keeper, staging, gate, admin, stash, lister,
                       local, client, used, back>>
    BY DEF WriteDigest
  <1>2. Head(job[p].todo) \in Steps /\ Head(job[p].todo).do = "digest"
    BY <1>1, NoneMore, ThenIs
  <1>3. f.of \in Archive /\ f \in Paths
    BY <1>2, StepsAre
  <1> HIDE DEF f
  <1>4. live[f] \in Contents \cup {None} /\ digest \in [Archive -> Contents \cup {None}]
    BY <1>3 DEF TypeOK, ChannelOK, FileMaps
  <1>5. ChannelOK' /\ StagingOK'
    BY <1>1, <1>3, <1>4, SameTypes DEF TypeOK, ChannelOK, staging
  <1>6. /\ PortalOK' /\ ClientOK'
        /\ local' \in [Publisher -> Locals] /\ used' \in [DOMAIN Bounds -> Nat] /\ back' \subseteq Lines
    BY <1>1, NoneMore, ThenTypes
  <1> QED BY <1>5, <1>6 DEF TypeOK

LEMMA ListTypes ==
    ASSUME TypeOK, NEW p \in Publisher, WriteList(p)
    PROVE  TypeOK'
  <1>1. /\ Doing(p, "list") /\ Then(p, <<>>)
        /\ UNCHANGED <<live, url, digest, index, keeper, staging, gate, admin, stash, lister,
                       local, client, used, back>>
    BY DEF WriteList
  <1>2. ChannelOK' /\ StagingOK'
    BY <1>1, SameTypes DEF TypeOK, staging
  <1>3. /\ PortalOK' /\ ClientOK'
        /\ local' \in [Publisher -> Locals] /\ used' \in [DOMAIN Bounds -> Nat] /\ back' \subseteq Lines
    BY <1>1, NoneMore, ThenTypes
  <1> QED BY <1>2, <1>3 DEF TypeOK

LEMMA ReplaceTypes ==
    ASSUME TypeOK, NEW p \in Publisher, Replace(p)
    PROVE  TypeOK'
  <1>1. /\ Doing(p, "mutable") /\ Then(p, <<>>)
        /\ live' = [live EXCEPT ![ReadMe] = staged[p][ReadMe]]
        /\ staged' = [staged EXCEPT ![p][ReadMe] = None]
        /\ UNCHANGED <<url, digest, index, listed, plan, part, gate, admin, stash, lister,
                       local, client, used, back>>
    BY DEF Replace
  <1>2. live \in FileMaps /\ staged[p] \in FileMaps /\ staged \in [Publisher -> FileMaps]
    BY DEF TypeOK, ChannelOK, StagingOK
  <1>3. /\ [live EXCEPT ![ReadMe] = staged[p][ReadMe]] \in FileMaps
        /\ [staged[p] EXCEPT ![ReadMe] = None] \in FileMaps
    BY <1>2, PathsAre, FileMapsPut
  <1>4. live' \in FileMaps /\ staged' \in [Publisher -> FileMaps]
    BY <1>1, <1>2, <1>3
  <1>5. ChannelOK' /\ StagingOK'
    BY <1>1, <1>4 DEF TypeOK, ChannelOK, StagingOK
  <1>6. /\ PortalOK' /\ ClientOK'
        /\ local' \in [Publisher -> Locals] /\ used' \in [DOMAIN Bounds -> Nat] /\ back' \subseteq Lines
    BY <1>1, NoneMore, ThenTypes
  <1> QED BY <1>5, <1>6 DEF TypeOK

LEMMA SwapTypes ==
    ASSUME TypeOK, NEW p \in Publisher, SwapIndex(p)
    PROVE  TypeOK'
  <1>1. /\ Doing(p, "index") /\ Then(p, <<>>) /\ index' = job[p].seen \o job[p].lines
        /\ UNCHANGED <<live, url, digest, listed, keeper, staging, gate, admin, stash, lister,
                       local, client, used, back>>
    BY DEF SwapIndex
  <1>2. job[p].seen \in Seq(Lines) /\ job[p].lines \in Seq(Lines)
    BY DEF TypeOK, PortalOK, Jobs, Distinct
  <1>3. index' \in Seq(Lines)
    BY <1>1, <1>2, ConcatProperties
  <1>4. ChannelOK' /\ StagingOK'
    BY <1>1, <1>3, SameTypes DEF TypeOK, ChannelOK, staging
  <1>5. /\ PortalOK' /\ ClientOK'
        /\ local' \in [Publisher -> Locals] /\ used' \in [DOMAIN Bounds -> Nat] /\ back' \subseteq Lines
    BY <1>1, NoneMore, ThenTypes
  <1> QED BY <1>4, <1>5 DEF TypeOK

LEMMA FinishTypes ==
    ASSUME TypeOK, NEW p \in Publisher, Finish(p)
    PROVE  TypeOK'
  <1> DEFINE k == [f \in Paths |->
                 IF Published(f) /\ staged[p][f] = None /\ part[p][f] = <<>> THEN None ELSE plan[p][f]]
  <1>1. /\ plan' = [plan EXCEPT ![p] = k]
        /\ job' = [job EXCEPT ![p] = Idle] /\ gate' = None
        /\ UNCHANGED <<channel, staged, part, admin, stash, lister, local, used, back>>
    BY DEF Finish
  <1>2. \E said : Answer(p, Stop(p, said))
    BY DEF Finish
  <1>3. plan \in [Publisher -> FileMaps] /\ job \in [Publisher -> Jobs]
    BY DEF TypeOK, StagingOK, PortalOK
  <1>4. k = [f \in Paths |-> k[f]] /\ \A f \in Paths : k[f] \in {plan[p][f], plan[p][f], None}
    OBVIOUS
  <1> HIDE DEF k
  <1>5. k \in FileMaps
    BY <1>3, <1>4, FileMapsOf
  <1>6. ChannelOK' /\ StagingOK'
    BY <1>1, <1>3, <1>5, SameTypes DEF TypeOK, StagingOK, channel
  <1>7. job' \in [Publisher -> Jobs] /\ job'[p] = Idle /\ \A q \in Publisher \ {p} : job'[q] = job[q]
    BY <1>1, <1>3, JobsAre
  <1>8. PortalOK'
    BY <1>1, <1>7 DEF TypeOK, PortalOK
  <1>9. ClientOK'
    BY <1>2, <1>7, IdleAt, AnswerKeeps DEF TypeOK
  <1> QED BY <1>1, <1>6, <1>8, <1>9 DEF TypeOK

LEMMA ExpireTypes ==
    ASSUME TypeOK, NEW p \in Publisher, Expire(p)
    PROVE  TypeOK'
  <1>1. /\ plan' = [plan EXCEPT ![p] = Nothing] /\ staged' = [staged EXCEPT ![p] = Nothing]
        /\ UNCHANGED <<channel, portal, local, client, back>>
    BY DEF Expire
  <1>2. StagingOK'
    BY <1>1, NothingIs DEF TypeOK, StagingOK
  <1>3. ChannelOK' /\ PortalOK' /\ ClientOK'
    BY <1>1, SameTypes, ClientSame DEF TypeOK, channel, portal
  <1>4. used' \in [DOMAIN Bounds -> Nat]
    BY Uses, BoundsAre DEF TypeOK, Expire
  <1> QED BY <1>1, <1>2, <1>3, <1>4 DEF TypeOK

LEMMA StashIs ==
    /\ \A l \in Lines : Stashed(l) \subseteq Paths
    /\ \A l \in Lines \cup {None}, g \in FileMaps : [line |-> l, files |-> g] \in [line : Lines \cup {None}, files : FileMaps]
  BY PathsAre DEF Stashed

LEMMA RemoveLineTypes ==
    ASSUME TypeOK, RemoveLine
    PROVE  TypeOK'
  <1>1. PICK l \in Range(index) :
            index' = Keep(index, Lines \ {l}) /\ stash' = [line |-> l, files |-> Nothing]
    BY DEF RemoveLine
  <1>2. /\ gate' = Maintainer /\ admin' = "removing"
        /\ UNCHANGED <<live, url, digest, listed, keeper, staging, job, lister, local, client, back>>
    BY DEF RemoveLine
  <1>3. index \in Seq(Lines)
    BY DEF TypeOK, ChannelOK
  <1>4. index' \in Seq(Lines) /\ l \in Lines
    BY <1>1, <1>3, Keeps, RangeOf
  <1>5. stash' \in [line : Lines \cup {None}, files : FileMaps]
    BY <1>1, <1>4, NothingIs, StashIs
  <1>6. ChannelOK' /\ StagingOK'
    BY <1>2, <1>4, SameTypes DEF TypeOK, ChannelOK, staging
  <1>7. PortalOK' /\ ClientOK'
    BY <1>2, <1>5, ClientSame DEF TypeOK, PortalOK
  <1>8. used' \in [DOMAIN Bounds -> Nat]
    BY Uses, BoundsAre DEF TypeOK, RemoveLine
  <1> QED BY <1>2, <1>6, <1>7, <1>8 DEF TypeOK

(* A file moves between the channel and what the last removal took.        *)
LEMMA TakeAwayTypes ==
    ASSUME TypeOK, stash.line \in Lines, TakeAway
    PROVE  TypeOK'
  <1>1. PICK f \in Stashed(stash.line) :
            /\ live' = [live EXCEPT ![f] = None]
            /\ stash' = [stash EXCEPT !.files[f] = live[f]]
    BY DEF TakeAway
  <1>2. UNCHANGED <<url, digest, index, listed, keeper, staging, job, gate, admin, lister,
                    local, client, used, back>>
    BY DEF TakeAway
  <1>3. f \in Paths /\ live \in FileMaps /\ stash \in [line : Lines \cup {None}, files : FileMaps]
    BY StashIs DEF TypeOK, ChannelOK, PortalOK
  <1> DEFINE g == [stash.files EXCEPT ![f] = live[f]]
  <1>4. g \in FileMaps /\ live' \in FileMaps
    BY <1>1, <1>3, FileMapsPut
  <1>5. stash' = [stash EXCEPT !.files = g]
    BY <1>1, <1>3
  <1> HIDE DEF g
  <1>6. stash' \in [line : Lines \cup {None}, files : FileMaps]
    BY <1>3, <1>4, <1>5
  <1>7. ChannelOK' /\ StagingOK'
    BY <1>2, <1>4, SameTypes DEF TypeOK, ChannelOK, staging
  <1>8. PortalOK' /\ ClientOK'
    BY <1>2, <1>6, ClientSame DEF TypeOK, PortalOK
  <1> QED BY <1>2, <1>7, <1>8 DEF TypeOK

LEMMA BringBackTypes ==
    ASSUME TypeOK, stash.line \in Lines, BringBack
    PROVE  TypeOK'
  <1>1. PICK f \in Missing :
            /\ live' = [live EXCEPT ![f] = stash.files[f]]
            /\ stash' = [stash EXCEPT !.files[f] = None]
    BY DEF BringBack
  <1>2. UNCHANGED <<url, digest, index, listed, keeper, staging, job, gate, admin, lister,
                    local, client, used, back>>
    BY DEF BringBack
  <1>3. f \in Paths /\ live \in FileMaps /\ stash \in [line : Lines \cup {None}, files : FileMaps]
    BY StashIs DEF TypeOK, ChannelOK, PortalOK, Missing
  <1> DEFINE g == [stash.files EXCEPT ![f] = None]
  <1>4. g \in FileMaps /\ live' \in FileMaps
    BY <1>1, <1>3, FileMapsPut
  <1>5. stash' = [stash EXCEPT !.files = g]
    BY <1>1, <1>3
  <1> HIDE DEF g
  <1>6. stash' \in [line : Lines \cup {None}, files : FileMaps]
    BY <1>3, <1>4, <1>5
  <1>7. ChannelOK' /\ StagingOK'
    BY <1>2, <1>4, SameTypes DEF TypeOK, ChannelOK, staging
  <1>8. PortalOK' /\ ClientOK'
    BY <1>2, <1>6, ClientSame DEF TypeOK, PortalOK
  <1> QED BY <1>2, <1>7, <1>8 DEF TypeOK

LEMMA RemovedTypes ==
    ASSUME TypeOK, Removed \/ RestoreStash
    PROVE  TypeOK'
  <1>1. /\ UNCHANGED <<live, url, digest, index, keeper, staging, job, stash, lister, local, client, back>>
        /\ gate' \in {None, Maintainer} /\ admin' \in {None, "restoring"}
    BY DEF Removed, RestoreStash, channel
  <1>2. used' \in [DOMAIN Bounds -> Nat]
    BY Uses, BoundsAre DEF TypeOK, Removed, RestoreStash
  <1>3. ChannelOK' /\ StagingOK' /\ PortalOK' /\ ClientOK'
    BY <1>1, SameTypes, ClientSame DEF TypeOK, PortalOK, staging
  <1> QED BY <1>1, <1>2, <1>3 DEF TypeOK

LEMMA RestoredTypes ==
    ASSUME TypeOK, stash.line \in Lines, Restored
    PROVE  TypeOK'
  <1>1. /\ index' = IF stash.line \in Range(index) THEN index ELSE Append(index, stash.line)
        /\ back' = back \cup {stash.line}
        /\ stash' = [line |-> None, files |-> Nothing]
        /\ gate' = None /\ admin' = None
        /\ UNCHANGED <<live, url, digest, keeper, staging, job, lister, local, client, used>>
    BY DEF Restored
  <1>2. index \in Seq(Lines)
    BY DEF TypeOK, ChannelOK
  <1>3. index' \in Seq(Lines)
    BY <1>1, <1>2, Appends
  <1>4. stash' \in [line : Lines \cup {None}, files : FileMaps]
    BY <1>1, NothingIs, StashIs
  <1>5. ChannelOK' /\ StagingOK'
    BY <1>1, <1>3, SameTypes DEF TypeOK, ChannelOK, staging
  <1>6. PortalOK' /\ ClientOK'
    BY <1>1, <1>4, ClientSame DEF TypeOK, PortalOK
  <1> QED BY <1>1, <1>5, <1>6 DEF TypeOK

LEMMA ArchiveTypes ==
    ASSUME TypeOK, NEW a \in Archive, SendAway(a) \/ DropLocal(a)
    PROVE  TypeOK'
  <1>1. /\ UNCHANGED <<digest, index, listed, keeper, staging, portal, local, client, back>>
        /\ url' \in {url, url \cup {a}}
        /\ live' \in {live, [live EXCEPT ![Stored(a)] = None]}
    BY DEF SendAway, DropLocal
  <1>2. live \in FileMaps
    BY DEF TypeOK, ChannelOK
  <1>3. live' \in FileMaps
    BY <1>1, <1>2, PathsAre, FileMapsPut
  <1>4. used' \in [DOMAIN Bounds -> Nat]
    BY Uses, BoundsAre DEF TypeOK, SendAway, DropLocal
  <1>5. ChannelOK'
    BY <1>1, <1>3 DEF TypeOK, ChannelOK
  <1>6. StagingOK' /\ PortalOK' /\ ClientOK'
    BY <1>1, SameTypes, ClientSame DEF TypeOK, staging, portal
  <1> QED BY <1>1, <1>4, <1>5, <1>6 DEF TypeOK

LEMMA RestartTypes ==
    ASSUME TypeOK, Restart
    PROVE  TypeOK'
  <1> DEFINE c == [pc |-> "idle", body |-> Nothing, need |-> <<>>, off |-> 0, said |-> "unreachable"]
  <1>1. /\ job' = [p \in Publisher |-> Idle]
        /\ client' = [p \in Publisher |-> IF job[p] = Idle \/ ~job[p].heard THEN client[p] ELSE c]
        /\ gate' = None /\ admin' = None
        /\ UNCHANGED <<channel, staging, stash, local, back>>
    BY DEF Restart
  <1>2. IsClient(c)
    BY StopIs
  <1> HIDE DEF c
  <1>3. \A p \in Publisher : client'[p] \in {client[p], c}
    BY <1>1
  <1>4. \A p \in Publisher : IsClient(client[p])'
    BY <1>2, <1>3 DEF TypeOK, ClientOK, IsClient
  <1>5. \A p \in Publisher : job'[p] = Idle
    BY <1>1
  <1>6. \A p \in Publisher : Settling(p)'
    BY <1>5, IdleAt DEF Settling
  <1>7. ClientOK'
    BY <1>1, <1>4, <1>6 DEF ClientOK
  <1>8. PortalOK'
    BY <1>1, JobsAre DEF TypeOK, PortalOK
  <1>9. ChannelOK' /\ StagingOK'
    BY <1>1, SameTypes DEF TypeOK, channel, staging
  <1>10. used' \in [DOMAIN Bounds -> Nat]
    BY Uses, BoundsAre DEF TypeOK, Restart
  <1> QED BY <1>1, <1>7, <1>8, <1>9, <1>10 DEF TypeOK

LEMMA ListAtStartTypes ==
    ASSUME TypeOK, ListAtStart \/ UNCHANGED vars
    PROVE  TypeOK'
  <1>1. UNCHANGED <<live, url, digest, index, keeper, staging, job, gate, admin, stash,
                    local, client, used, back>>
    BY DEF ListAtStart, vars, channel, portal
  <1>2. ChannelOK' /\ StagingOK' /\ PortalOK' /\ ClientOK'
    BY <1>1, SameTypes, ClientSame DEF TypeOK, staging
  <1> QED BY <1>1, <1>2 DEF TypeOK

LEMMA InitTypes == Init => TypeOK
  <1> SUFFICES ASSUME Init
               PROVE  TypeOK
    OBVIOUS
  <1>1. ChannelOK
    BY NothingIs DEF Init, ChannelOK
  <1>2. StagingOK
    BY NothingIs DEF Init, StagingOK
  <1>3. PortalOK
    BY NothingIs, JobsAre DEF Init, PortalOK
  <1>4. ClientOK
    <2> DEFINE c == [pc |-> "idle", body |-> Nothing, need |-> <<>>, off |-> 0, said |-> None]
    <2>1. IsClient(c)
      BY StopIs
    <2>2. client = [p \in Publisher |-> c]
      BY DEF Init
    <2> HIDE DEF c
    <2>3. \A p \in Publisher : job[p] = Idle /\ client[p] = c
      BY <2>2 DEF Init
    <2> QED BY <2>1, <2>2, <2>3, IdleAt DEF ClientOK, Settling
  <1>5. local \in [Publisher -> Locals]
    <2>1. <<>> \in Distinct
      BY DEF Distinct
    <2> QED BY <2>1 DEF Init, Locals
  <1>6. used \in [DOMAIN Bounds -> Nat] /\ back \subseteq Lines
    BY DEF Init
  <1> QED BY <1>1, <1>2, <1>3, <1>4, <1>5, <1>6 DEF TypeOK

-----------------------------------------------------------------------------
(* Steps that leave the channel, the gate and the work under it alone.     *)
Quiet == /\ UNCHANGED <<live, url, digest, index, gate, admin, stash>>
         /\ \A q \in Publisher :
               /\ job'[q].at = "place" <=> job[q].at = "place"
               /\ job[q].at = "place" =>
                     /\ staged'[q] = staged[q] /\ job'[q].todo = job[q].todo
                     /\ job'[q].seen = job[q].seen /\ job'[q].lines = job[q].lines

LEMMA OneWorks ==
    ASSUME GateHeld
    PROVE  /\ \A p \in Publisher : job[p].at = "place" =>
                 /\ gate = p /\ admin = None
                 /\ \A q \in Publisher \ {p} : job[q].at # "place"
           /\ gate = None \/ admin # None => \A p \in Publisher : job[p].at # "place"
           /\ gate = None => admin = None
           /\ admin # None => gate = Maintainer
  BY Constants DEF GateHeld

LEMMA QuietServing ==
    ASSUME Serving, Quiet, TypeOK'
    PROVE  Serving'
  <1>1. \A f : Published(f)' <=> Published(f)
    BY DEF Quiet, Published
  <1>2. GateHeld'
    BY DEF Quiet, Serving, GateHeld
  <1>3. Copies'
    BY <1>1 DEF Quiet, Serving, Copies
  <1>4. Shown'
    BY <1>1 DEF Quiet, Serving, Shown
  <1>5. Stash'
    BY <1>1 DEF Quiet, Serving, Stash
  <1>6. Doings'
    <2> SUFFICES ASSUME NEW p \in Publisher, job'[p].at = "place"
                 PROVE  Doable(p)' /\ (Swapping(p)' => Promised(p)')
      BY DEF Doings
    <2>1. /\ job[p].at = "place" /\ staged'[p] = staged[p] /\ job'[p].todo = job[p].todo
          /\ job'[p].seen = job[p].seen /\ job'[p].lines = job[p].lines
          /\ UNCHANGED <<live, url, digest, index>>
      BY DEF Quiet
    <2>2. Doable(p) /\ (Swapping(p) => Promised(p))
      BY <2>1 DEF Serving, Doings
    <2>3. Doable(p)'
      BY <1>1, <2>1, <2>2 DEF Doable
    <2>4. Swapping(p)' => Swapping(p)
      BY <2>1 DEF Swapping
    <2>5. \A f : Will(p, "place", f) => Will(p, "place", f)'
      BY <2>1 DEF Will
    <2>6. Promised(p) => Promised(p)'
      BY <1>1, <2>1, <2>5 DEF Promised
    <2> QED BY <2>2, <2>3, <2>4, <2>6
  <1> QED BY <1>2, <1>3, <1>4, <1>5, <1>6 DEF Serving

LEMMA Quietly ==
    ASSUME TypeOK, NEW p \in Publisher,
           \/ Publish(p) \/ Remake(p) \/ Withdraw(p) \/ Start(p) \/ Request(p) \/ Settle(p)
           \/ PutCut(p) \/ Lose(p) \/ HangUp(p) \/ Expire(p)
    PROVE  Quiet /\ UNCHANGED <<listed, lister, back>>
  <1>0. job \in [Publisher -> Jobs] /\ staged \in [Publisher -> FileMaps]
    BY DEF TypeOK, PortalOK, StagingOK
  <1>1. UNCHANGED <<live, url, digest, index, gate, admin, stash>> /\ UNCHANGED <<listed, lister, back>>
    BY DEF Publish, Remake, Withdraw, Start, Request, Plan, PutAnswered, PutBody, SendIndex,
           Settle, PutCut, Lose, HangUp, Expire, channel, portal
  <1> DEFINE Sitting == job' = job /\ (staged' = staged \/ (job[p] = Idle /\ \E k : staged' = [staged EXCEPT ![p] = k]))
             Moving == \E j : /\ job' = [job EXCEPT ![p] = j] /\ job[p].at # "place" /\ j.at # "place"
                              /\ staged' = staged \/ \E k : staged' = [staged EXCEPT ![p] = k]
  <1>2. CASE Sitting
    <2>1. \A q \in Publisher : job[q].at = "place" => staged'[q] = staged[q]
      BY <1>0, <1>2, IdleAt
    <2> QED BY <1>1, <1>2, <2>1 DEF Quiet
  <1>3. CASE Moving
    <2>1. PICK j : /\ job' = [job EXCEPT ![p] = j] /\ job[p].at # "place" /\ j.at # "place"
                   /\ staged' = staged \/ \E k : staged' = [staged EXCEPT ![p] = k]
      BY <1>3
    <2>2. job'[p] = j /\ \A q \in Publisher \ {p} : job'[q] = job[q] /\ staged'[q] = staged[q]
      BY <1>0, <2>1
    <2> QED BY <1>1, <2>1, <2>2 DEF Quiet
  <1> HIDE DEF Sitting, Moving
  <1>4. CASE Publish(p) \/ Remake(p) \/ Withdraw(p) \/ Start(p) \/ PutAnswered(p) \/ PutCut(p) \/ Lose(p)
    <2>1. job' = job /\ staged' = staged
      BY <1>4 DEF Publish, Remake, Withdraw, Start, PutAnswered, PutCut, Lose, staging, portal
    <2>2. Sitting
      BY <2>1 DEF Sitting
    <2> QED BY <1>2, <2>2
  <1>5. CASE Plan(p) \/ Expire(p)
    <2>1. job' = job /\ job[p] = Idle /\ \E k : staged' = [staged EXCEPT ![p] = k]
      BY <1>5 DEF Plan, Expire, portal
    <2>2. Sitting
      BY <2>1 DEF Sitting
    <2> QED BY <1>2, <2>2
  <1>6. CASE PutBody(p)
    <2>1. job[p] = Idle /\ staged' = staged
      BY <1>6 DEF PutBody
    <2> DEFINE t == <<Step("settle", Head(client[p].need))>>
               j == [job[p] EXCEPT !.at = "settle", !.todo = t]
    <2>2. job' = job \/ job' = [job EXCEPT ![p] = j]
      BY <1>6 DEF PutBody
    <2>3. j.at = "settle"
      BY <2>1 DEF Idle
    <2> HIDE DEF j
    <2>4. Sitting \/ Moving
      BY <2>1, <2>2, <2>3, IdleAt DEF Sitting, Moving
    <2> QED BY <1>2, <1>3, <2>4
  <1>7. CASE SendIndex(p)
    <2> DEFINE j == [job[p] EXCEPT !.at = "gate", !.lines = local[p].lines]
    <2>1. job[p] = Idle /\ staged' = staged /\ job' = [job EXCEPT ![p] = j]
      BY <1>7 DEF SendIndex, staging
    <2>2. j.at = "gate"
      BY <2>1 DEF Idle
    <2> HIDE DEF j
    <2>3. Moving
      BY <2>1, <2>2, IdleAt DEF Moving
    <2> QED BY <1>3, <2>3
  <1>8. CASE Settle(p)
    <2> DEFINE f == Head(job[p].todo).file
               good == Range(part[p][f]) = {plan[p][f]}
               k == [staged[p] EXCEPT ![f] = plan[p][f]]
    <2>1. /\ job[p].at = "settle" /\ job' = [job EXCEPT ![p] = Idle]
          /\ staged' = IF good THEN [staged EXCEPT ![p] = k] ELSE staged
      BY <1>8 DEF Settle
    <2> HIDE DEF f, good, k
    <2>2. staged' = staged \/ \E e : staged' = [staged EXCEPT ![p] = e]
      BY <2>1
    <2>3. Moving
      BY <2>1, <2>2, IdleAt DEF Moving
    <2> QED BY <1>3, <2>3
  <1>9. CASE HangUp(p)
    <2> DEFINE j == [job[p] EXCEPT !.heard = FALSE]
    <2>1. staged' = staged /\ job' = [job EXCEPT ![p] = j]
      BY <1>9 DEF HangUp, staging
    <2>2. job[p] \in Jobs
      BY <1>0
    <2>3. j.at = job[p].at /\ j.todo = job[p].todo /\ j.seen = job[p].seen /\ j.lines = job[p].lines
      BY <2>2 DEF Jobs
    <2> HIDE DEF j
    <2>4. job'[p] = j /\ \A q \in Publisher \ {p} : job'[q] = job[q]
      BY <1>0, <2>1
    <2> QED BY <1>1, <2>1, <2>3, <2>4 DEF Quiet
  <1> QED BY <1>4, <1>5, <1>6, <1>7, <1>8, <1>9 DEF Request

-----------------------------------------------------------------------------
(* The work under the gate, step by step. *)
LEMMA ThenRest ==
    ASSUME TypeOK, NEW p \in Publisher, NEW do, Doing(p, do), NEW more \in Seq(Steps), Then(p, more)
    PROVE  LET t == job[p].todo
               u == job'[p].todo
           IN /\ DOMAIN t = 1 .. Len(t) /\ DOMAIN u = 1 .. Len(u) /\ Len(t) \in Nat /\ Len(more) \in Nat
              /\ Len(t) >= 1 /\ t[1] = Head(t) /\ Len(u) = Len(more) + Len(t) - 1
              /\ \A i \in 1 .. Len(u) : i <= Len(more) => i \in 1 .. Len(more) /\ u[i] = more[i]
              /\ \A i \in 1 .. Len(u) : ~(i <= Len(more)) =>
                    LET k == i - Len(more) + 1 IN k \in 2 .. Len(t) /\ k \in 1 .. Len(t) /\ u[i] = t[k]
              /\ \A k \in 2 .. Len(t) :
                    LET i == Len(more) + k - 1 IN i \in 1 .. Len(u) /\ u[i] = t[k]
  <1> DEFINE t == job[p].todo
             u == job'[p].todo
             r == Tail(t)
  <1>1. t \in Seq(Steps) /\ t # <<>> /\ u = more \o r
    BY ThenIs
  <1>2. /\ r \in Seq(Steps) /\ Len(r) = Len(t) - 1 /\ Head(t) = t[1]
        /\ \A i \in 1 .. Len(r) : r[i] = t[i + 1]
    BY <1>1, RangeOfTail
  <1>3. Len(t) \in Nat /\ Len(t) # 0 /\ DOMAIN t = 1 .. Len(t) /\ Len(more) \in Nat
    BY <1>1, EmptySeq, LenProperties
  <1> HIDE DEF t, u, r
  <1>4. /\ u \in Seq(Steps) /\ Len(u) = Len(more) + Len(r)
        /\ \A i \in 1 .. Len(more) + Len(r) :
              u[i] = IF i <= Len(more) THEN more[i] ELSE r[i - Len(more)]
    BY <1>1, <1>2, ConcatProperties
  <1>5. DOMAIN u = 1 .. Len(u) /\ Len(u) = Len(more) + Len(t) - 1 /\ Len(u) \in Nat
    BY <1>2, <1>3, <1>4, LenProperties
  <1>6. ASSUME NEW i \in 1 .. Len(u), i <= Len(more)
        PROVE  i \in 1 .. Len(more) /\ u[i] = more[i]
    BY <1>3, <1>4, <1>6
  <1>7. ASSUME NEW i \in 1 .. Len(u), ~(i <= Len(more))
        PROVE  LET k == i - Len(more) + 1 IN k \in 2 .. Len(t) /\ k \in 1 .. Len(t) /\ u[i] = t[k]
    <2>1. i - Len(more) \in 1 .. Len(r) /\ i \in 1 .. Len(more) + Len(r)
      BY <1>2, <1>3, <1>4, <1>5, <1>7
    <2>2. u[i] = r[i - Len(more)]
      BY <1>4, <1>7, <2>1
    <2>3. r[i - Len(more)] = t[i - Len(more) + 1]
      BY <1>2, <2>1
    <2>4. i - Len(more) + 1 \in 2 .. Len(t) /\ i - Len(more) + 1 \in 1 .. Len(t)
      BY <1>2, <1>3, <2>1
    <2> QED BY <2>2, <2>3, <2>4
  <1>8. ASSUME NEW k \in 2 .. Len(t)
        PROVE  LET i == Len(more) + k - 1 IN i \in 1 .. Len(u) /\ u[i] = t[k]
    <2>1. /\ Len(more) + k - 1 \in 1 .. Len(u) /\ ~(Len(more) + k - 1 <= Len(more))
          /\ (Len(more) + k - 1) - Len(more) + 1 = k
      BY <1>3, <1>5
    <2> QED BY <1>7, <2>1
  <1>9. Len(t) >= 1
    BY <1>3
  <1> QED BY <1>2, <1>3, <1>5, <1>6, <1>7, <1>8, <1>9 DEF t, u

(* When nothing comes before the rest, it is the rest.                     *)
LEMMA ThenTail ==
    ASSUME TypeOK, NEW p \in Publisher, NEW do, Doing(p, do), Then(p, <<>>)
    PROVE  LET t == job[p].todo
               u == job'[p].todo
           IN /\ DOMAIN t = 1 .. Len(t) /\ DOMAIN u = 1 .. Len(u) /\ Len(t) \in Nat
              /\ Len(t) >= 1 /\ 1 \in DOMAIN t /\ t[1] = Head(t) /\ t[1].do = do /\ Len(u) = Len(t) - 1
              /\ \A i \in DOMAIN u : i + 1 \in DOMAIN t /\ u[i] = t[i + 1]
              /\ \A k \in DOMAIN t : k # 1 => k - 1 \in DOMAIN u /\ u[k - 1] = t[k]
  <1> DEFINE t == job[p].todo
             u == job'[p].todo
  <1>1. <<>> \in Seq(Steps) /\ Len(<<>>) = 0
    OBVIOUS
  <1>2. /\ DOMAIN t = 1 .. Len(t) /\ DOMAIN u = 1 .. Len(u) /\ Len(t) \in Nat /\ Len(t) >= 1
        /\ t[1] = Head(t) /\ Len(u) = 0 + Len(t) - 1
        /\ \A i \in 1 .. Len(u) : ~(i <= 0) =>
              (i - 0 + 1 \in 2 .. Len(t) /\ i - 0 + 1 \in 1 .. Len(t) /\ u[i] = t[i - 0 + 1])
        /\ \A k \in 2 .. Len(t) : (0 + k - 1 \in 1 .. Len(u) /\ u[0 + k - 1] = t[k])
    BY <1>1, ThenRest
  <1>3. Head(t).do = do
    BY DEF Doing
  <1> HIDE DEF t, u
  <1>4. Len(u) = Len(t) - 1 /\ 1 \in DOMAIN t
    BY <1>2
  <1>5. ASSUME NEW i \in DOMAIN u
        PROVE  i + 1 \in DOMAIN t /\ u[i] = t[i + 1]
    <2>1. i \in 1 .. Len(u) /\ ~(i <= 0) /\ i - 0 + 1 = i + 1
      BY <1>2
    <2> QED BY <1>2, <2>1
  <1>6. ASSUME NEW k \in DOMAIN t, k # 1
        PROVE  k - 1 \in DOMAIN u /\ u[k - 1] = t[k]
    <2>1. k \in 2 .. Len(t) /\ 0 + k - 1 = k - 1
      BY <1>2, <1>6
    <2> QED BY <1>2, <2>1
  <1> QED BY <1>2, <1>3, <1>4, <1>5, <1>6 DEF t, u

(* A step that takes nothing away, writes no digest and sends nothing away *)
(* leaves the rest of the work to be done as it was.                       *)
LEMMA TailDoable ==
    ASSUME Serving, NEW p \in Publisher, NEW do, Doing(p, do), Then(p, <<>>),
           \A f \in Lasting : Published(f) => Published(f)',
           \A f \in Lasting : staged'[p][f] = staged[p][f]
    PROVE  Doable(p)'
  <1> DEFINE t == job[p].todo
             u == job'[p].todo
             There(f) == live'[f] # None \/ (f.kind = "archive" /\ f.of \in url')
  <1>0. \A f \in Lasting : Published(f) => There(f)
    BY DEF Published
  <1>1. /\ DOMAIN t = 1 .. Len(t) /\ DOMAIN u = 1 .. Len(u) /\ Len(t) \in Nat /\ Len(u) = Len(t) - 1
        /\ \A i \in DOMAIN u : i + 1 \in DOMAIN t /\ u[i] = t[i + 1]
    BY ThenTail DEF Serving
  <1>2. job[p].at = "place" /\ Doable(p)
    BY DEF Serving, Doings, Doing
  <1>3. ASSUME NEW i \in DOMAIN u
        PROVE  /\ u[i].do # "settle" /\ u[i].do # "digest"
               /\ u[i].do = "place" /\ u[i].file \in Lasting =>
                     There(u[i].file) \/ staged'[p][u[i].file] # None
               /\ u[i].do = "index" => i = Len(u)
    <2>1. i + 1 \in DOMAIN t /\ u[i] = t[i + 1] /\ i + 1 # 1 /\ i \in Nat
      BY <1>1
    <2>2. /\ t[i + 1].do # "settle"
          /\ t[i + 1].do = "place" /\ t[i + 1].file \in Lasting =>
                Published(t[i + 1].file) \/ staged[p][t[i + 1].file] # None
          /\ t[i + 1].do = "digest" => i + 1 = 1
          /\ t[i + 1].do = "index" => i + 1 = Len(t)
      BY <1>2, <2>1 DEF Doable
    <2>3. i + 1 = Len(t) => i = Len(u)
      BY <1>1, <2>1
    <2>4. /\ u[i].do # "settle" /\ u[i].do # "digest"
          /\ u[i].do = "index" => i = Len(u)
      BY <2>1, <2>2, <2>3
    <2>5. u[i].do = "place" /\ u[i].file \in Lasting => Published(u[i].file) \/ staged[p][u[i].file] # None
      BY <2>1, <2>2
    <2> HIDE DEF There
    <2> QED BY <1>0, <2>4, <2>5
  <1>4. Doable(p)' <=> \A i \in DOMAIN u :
                /\ u[i].do # "settle"
                /\ u[i].do = "place" /\ u[i].file \in Lasting =>
                      There(u[i].file) \/ staged'[p][u[i].file] # None
                /\ u[i].do = "digest" => i = 1 /\ live'[u[i].file] # None /\ digest'[u[i].file.of] = None
                /\ u[i].do = "index" => i = Len(u)
    BY DEF Doable, Published
  <1> QED BY <1>3, <1>4

LEMMA TailPromised ==
    ASSUME Serving, NEW p \in Publisher, NEW do, Doing(p, do), Then(p, <<>>), do # "index",
           UNCHANGED index,
           \A f \in Lasting : Published(f) => Published(f)',
           \A f \in Lasting : do = "place" /\ Head(job[p].todo).file = f => Published(f)'
    PROVE  Swapping(p)' => Swapping(p) /\ Promised(p)'
  <1> DEFINE t == job[p].todo
             u == job'[p].todo
  <1>1. /\ DOMAIN t = 1 .. Len(t) /\ t[1] = Head(t) /\ t[1].do = do
        /\ \A i \in DOMAIN u : i + 1 \in DOMAIN t /\ u[i] = t[i + 1]
        /\ \A k \in DOMAIN t : k # 1 => k - 1 \in DOMAIN u /\ u[k - 1] = t[k]
    BY ThenTail DEF Serving
  <1>2. job[p].at = "place" /\ job'[p].seen = job[p].seen /\ job'[p].lines = job[p].lines
    BY NoneMore, ThenIs DEF Serving
  <1>3. ASSUME Swapping(p)'
        PROVE  Swapping(p)
    BY <1>1, <1>2, <1>3 DEF Swapping
  <1>4. ASSUME Promised(p)
        PROVE  Promised(p)'
    <2>1. ASSUME NEW f \in Lasting, Will(p, "place", f)
          PROVE  Published(f)' \/ Will(p, "place", f)'
      <3>1. PICK k \in DOMAIN t : t[k].do = "place" /\ t[k].file = f
        BY <2>1 DEF Will
      <3>2. CASE k = 1
        BY <1>1, <3>1, <3>2
      <3>3. CASE k # 1
        BY <1>1, <3>1, <3>3 DEF Will
      <3> QED BY <3>2, <3>3
    <2>2. \A l \in Range(job[p].lines) : FilesOfLine[l] \subseteq Lasting
      <3>1. job[p].lines \in Seq(Lines)
        BY DEF Serving, TypeOK, PortalOK, Jobs, Distinct
      <3> QED BY <3>1, RangeOf, FilesAre
    <2> QED BY <1>2, <1>4, <2>1, <2>2 DEF Promised
  <1>5. Swapping(p) => Promised(p)
    BY <1>2 DEF Serving, Doings
  <1> QED BY <1>3, <1>4, <1>5

(* The gate stays with the one who works under it.                         *)
LEMMA ThenGate ==
    ASSUME Serving, NEW p \in Publisher, NEW do, Doing(p, do), NEW more \in Seq(Steps), Then(p, more),
           UNCHANGED <<gate, admin>>
    PROVE  GateHeld' /\ \A q \in Publisher \ {p} : job'[q].at # "place"
  <1>1. job[p].at = "place" /\ job'[p].at = "place" /\ \A q \in Publisher \ {p} : job'[q] = job[q]
    BY ThenIs DEF Serving
  <1>2. \A q \in Publisher \ {p} : job[q].at # "place"
    BY <1>1, OneWorks DEF Serving
  <1>3. GateHeld'
    BY <1>1 DEF Serving, GateHeld
  <1> QED BY <1>1, <1>2, <1>3

LEMMA Lasts ==
    ASSUME TypeOK
    PROVE  /\ \A l \in Range(index) : l \in Lines /\ FilesOfLine[l] \subseteq Lasting
           /\ stash.line # None => stash.line \in Lines /\ FilesOfLine[stash.line] \subseteq Lasting
           /\ \A p \in Publisher : \A l \in Range(job[p].lines) : l \in Lines /\ FilesOfLine[l] \subseteq Lasting
           /\ \A a \in Archive : Stored(a) \in Lasting
  <1>1. index \in Seq(Lines) /\ stash.line \in Lines \cup {None}
    BY DEF TypeOK, ChannelOK, PortalOK
  <1>2. \A p \in Publisher : job[p].lines \in Seq(Lines)
    BY DEF TypeOK, PortalOK, Jobs, Distinct
  <1>3. \A a \in Archive : Stored(a) \in Lasting
    BY PathsAre DEF Lasting, Stored, F
  <1> QED BY <1>1, <1>2, <1>3, RangeOf, FilesAre

(* Where no lasting path loses what it has, the lines keep their files.    *)
LEMMA StillShown ==
    ASSUME Serving, UNCHANGED <<index, admin, stash>>,
           \A f \in Lasting : Published(f) => Published(f)'
    PROVE  Shown' /\ Stash'
  <1>1. Shown'
    BY Lasts DEF Serving, Shown
  <1>2. Stash'
    BY Lasts DEF Serving, Stash
  <1> QED BY <1>1, <1>2

LEMMA TailServing ==
    ASSUME Serving, TypeOK', NEW p \in Publisher, NEW do, Doing(p, do), do \notin {"index", "place"},
           Then(p, <<>>), UNCHANGED <<index, url, gate, admin, stash>>,
           \A f \in Lasting : live'[f] = live[f],
           \A f \in Lasting : staged'[p][f] = staged[p][f],
           Copies'
    PROVE  Serving'
  <1>1. \A f \in Lasting : Published(f) => Published(f)'
    BY DEF Published
  <1>2. GateHeld' /\ \A q \in Publisher \ {p} : job'[q].at # "place"
    BY NoneMore, ThenGate
  <1>3. Shown' /\ Stash'
    BY <1>1, StillShown
  <1>4. Doable(p)'
    BY <1>1, TailDoable
  <1>5. Swapping(p)' => Promised(p)'
    BY <1>1, TailPromised
  <1>6. Doings'
    BY <1>2, <1>4, <1>5 DEF Doings
  <1> QED BY <1>2, <1>3, <1>6 DEF Serving

LEMMA ListServing ==
    ASSUME Serving, NEW p \in Publisher, WriteList(p)
    PROVE  Serving'
  <1>1. /\ Doing(p, "list") /\ Then(p, <<>>)
        /\ UNCHANGED <<live, url, digest, index, staged, gate, admin, stash>>
    BY DEF WriteList, staging
  <1>2. TypeOK'
    BY ListTypes DEF Serving
  <1>3. Copies'
    BY <1>1 DEF Serving, Copies, Published
  <1> QED BY <1>1, <1>2, <1>3, TailServing

LEMMA ReplaceServing ==
    ASSUME Serving, NEW p \in Publisher, Replace(p)
    PROVE  Serving' /\ \A f \in Lasting : live'[f] = live[f]
  <1>1. /\ Doing(p, "mutable") /\ Then(p, <<>>)
        /\ live' = [live EXCEPT ![ReadMe] = staged[p][ReadMe]]
        /\ staged' = [staged EXCEPT ![p][ReadMe] = None]
        /\ UNCHANGED <<url, digest, index, gate, admin, stash>>
    BY DEF Replace
  <1>2. TypeOK'
    BY ReplaceTypes DEF Serving
  <1>3. live \in FileMaps /\ staged \in [Publisher -> FileMaps]
    BY DEF Serving, TypeOK, ChannelOK, StagingOK
  <1>4. ReadMe \notin Lasting
    BY DEF Lasting, ReadMe, F
  <1>5. \A f \in Lasting : live'[f] = live[f] /\ staged'[p][f] = staged[p][f]
    BY <1>1, <1>3, <1>4 DEF FileMaps, Lasting
  <1>6. Copies'
    BY <1>1, <1>5, Lasts DEF Serving, Copies, Published
  <1> QED BY <1>1, <1>2, <1>5, <1>6, TailServing

(* A .sha256 is written for an archive that is there and had none.         *)
LEMMA DigestIs ==
    ASSUME Serving, NEW p \in Publisher, WriteDigest(p)
    PROVE  \E a \in Archive :
              /\ digest' = [digest EXCEPT ![a] = live[Stored(a)]]
              /\ live[Stored(a)] # None /\ digest[a] = None /\ a \notin url
  <1> DEFINE f == Head(job[p].todo).file
  <1>1. Doing(p, "digest") /\ Then(p, <<>>) /\ digest' = [digest EXCEPT ![f.of] = live[f]]
    BY DEF WriteDigest
  <1>2. Head(job[p].todo) \in Steps /\ Head(job[p].todo).do = "digest" /\ job[p].at = "place"
    BY <1>1, NoneMore, ThenIs DEF Serving
  <1>3. f.of \in Archive /\ f = Stored(f.of)
    BY <1>2, StepsAre
  <1>4. 1 \in DOMAIN job[p].todo /\ job[p].todo[1] = Head(job[p].todo)
    BY <1>1, ThenTail DEF Serving
  <1>5. Doable(p)
    BY <1>2 DEF Serving, Doings
  <1>6. live[f] # None /\ digest[f.of] = None
    BY <1>2, <1>4, <1>5 DEF Doable
  <1>7. f.of \notin url
    BY <1>3, <1>6 DEF Serving, Copies
  <1> HIDE DEF f
  <1> QED BY <1>1, <1>3, <1>6, <1>7

LEMMA DigestServing ==
    ASSUME Serving, NEW p \in Publisher, WriteDigest(p)
    PROVE  Serving'
  <1>1. /\ Doing(p, "digest") /\ Then(p, <<>>)
        /\ UNCHANGED <<live, url, index, staged, gate, admin, stash>>
    BY DEF WriteDigest, staging
  <1>2. TypeOK'
    BY DigestTypes DEF Serving
  <1>3. PICK a \in Archive :
           /\ digest' = [digest EXCEPT ![a] = live[Stored(a)]]
           /\ live[Stored(a)] # None /\ digest[a] = None /\ a \notin url
    BY DigestIs
  <1>4. digest \in [Archive -> Contents \cup {None}]
    BY DEF Serving, TypeOK, ChannelOK
  <1>5. Copies'
    <2> SUFFICES ASSUME NEW b \in Archive
                 PROVE  /\ b \in url' => digest'[b] # None
                        /\ digest'[b] # None => Published(Stored(b))' /\ live'[Stored(b)] \in {None, digest'[b]}
      BY DEF Copies
    <2>1. CASE b = a
      BY <1>1, <1>3, <1>4, <2>1 DEF Published
    <2>2. CASE b # a
      <3>1. digest'[b] = digest[b]
        BY <1>3, <1>4, <2>2
      <3>2. Published(Stored(b))' <=> Published(Stored(b))
        BY <1>1 DEF Published
      <3> QED BY <1>1, <3>1, <3>2 DEF Serving, Copies
    <2> QED BY <2>1, <2>2
  <1> QED BY <1>1, <1>2, <1>5, TailServing

(* What placing a file gives the channel.                                  *)
LEMMA PlaceGives ==
    ASSUME Serving, NEW p \in Publisher, Place(p), NEW f, f = Head(job[p].todo).file
    PROVE  /\ f \in Paths /\ 1 \in DOMAIN job[p].todo /\ job[p].todo[1].do = "place"
           /\ \A g \in Paths : g # f => live'[g] = live[g] /\ staged'[p][g] = staged[p][g]
           /\ Published(f) => live'[f] = live[f]
           /\ f \in Lasting /\ ~Published(f) => live'[f] = staged[p][f] /\ live'[f] # None
           /\ \A g \in Lasting : Published(g) => Published(g)'
           /\ f \in Lasting => Published(f)'
  <1>1. /\ f \in Paths /\ Doing(p, "place") /\ Then(p, More(f)) /\ More(f) \in Seq(Steps)
        /\ staged' = [staged EXCEPT ![p][f] = None]
        /\ live' = IF Published(f) THEN live ELSE [live EXCEPT ![f] = staged[p][f]]
        /\ url' = url
    BY PlaceIs DEF Serving
  <1>2. /\ job[p].at = "place" /\ 1 \in DOMAIN job[p].todo /\ job[p].todo[1] = Head(job[p].todo)
        /\ job[p].todo[1].do = "place"
    BY <1>1, ThenIs, ThenRest DEF Serving
  <1>3. live \in FileMaps /\ staged \in [Publisher -> FileMaps]
    BY DEF Serving, TypeOK, ChannelOK, StagingOK
  <1>4. \A g \in Paths : g # f => live'[g] = live[g] /\ staged'[p][g] = staged[p][g]
    BY <1>1, <1>3 DEF FileMaps
  <1>5. ~Published(f) => live'[f] = staged[p][f]
    BY <1>1, <1>3 DEF FileMaps
  <1>6. f \in Lasting => Published(f) \/ staged[p][f] # None
    BY <1>2 DEF Serving, Doings, Doable
  <1>7. f \in Lasting => Published(f)'
    BY <1>1, <1>5, <1>6 DEF Published
  <1>8. \A g \in Lasting : Published(g) => Published(g)'
    <2>1. \A g \in Lasting : g \in Paths
      BY DEF Lasting
    <2> QED BY <1>1, <1>4, <1>7, <2>1 DEF Published
  <1> QED BY <1>1, <1>2, <1>4, <1>5, <1>6, <1>7, <1>8

LEMMA PlaceDoable ==
    ASSUME Serving, NEW p \in Publisher, Place(p)
    PROVE  Doable(p)' /\ (Swapping(p)' => Promised(p)')
  <1> DEFINE t == job[p].todo
             u == job'[p].todo
             f == Head(t).file
             There(g) == live'[g] # None \/ (g.kind = "archive" /\ g.of \in url')
  <1>1. /\ f \in Paths /\ Doing(p, "place") /\ Then(p, More(f)) /\ More(f) \in Seq(Steps)
        /\ UNCHANGED <<url, digest, index>>
    BY PlaceIs DEF Serving
  <1>2. /\ 1 \in DOMAIN t /\ t[1].do = "place"
        /\ \A g \in Paths : g # f => staged'[p][g] = staged[p][g]
        /\ f \in Lasting /\ ~Published(f) => live'[f] # None
        /\ \A g \in Lasting : Published(g) => There(g)
        /\ f \in Lasting => There(f)
    BY PlaceGives DEF Published
  <1>3. job[p].at = "place" /\ job'[p].seen = job[p].seen /\ job'[p].lines = job[p].lines
    BY <1>1, ThenIs DEF Serving
  <1>4. Doable(p) /\ (Swapping(p) => Promised(p))
    BY <1>3 DEF Serving, Doings
  <1>5. t[1] = Head(t)
    BY <1>1, ThenRest DEF Serving
  <1> DEFINE m == More(f)
  <1>6. /\ DOMAIN t = 1 .. Len(t) /\ DOMAIN u = 1 .. Len(u) /\ Len(t) \in Nat /\ Len(m) \in Nat
        /\ Len(u) = Len(m) + Len(t) - 1
        /\ \A i \in 1 .. Len(u) : i <= Len(m) => i \in 1 .. Len(m) /\ u[i] = m[i]
        /\ \A i \in 1 .. Len(u) : ~(i <= Len(m)) =>
              i - Len(m) + 1 \in 2 .. Len(t) /\ i - Len(m) + 1 \in 1 .. Len(t) /\ u[i] = t[i - Len(m) + 1]
        /\ \A k \in 2 .. Len(t) : Len(m) + k - 1 \in 1 .. Len(u) /\ u[Len(m) + k - 1] = t[k]
    BY <1>1, ThenRest DEF Serving
  <1>7. \A i \in 1 .. Len(m) :
            i = 1 /\ m[i] = Step("digest", f) /\ f.kind = "archive" /\ ~Published(f)
    BY DEF More
  <1> HIDE DEF m
  <1>8. f.kind = "archive" => f \in Lasting
    BY <1>1 DEF Lasting
  <1>9. f.kind = "archive" /\ ~Published(f) => digest[f.of] = None
    <2>1. f.kind = "archive" => f.of \in Archive /\ f = Stored(f.of)
      BY <1>1, PathIs DEF ReadMe, Stored, F
    <2> QED BY <2>1 DEF Serving, Copies
  <1> HIDE DEF f, There
  <1>10. ASSUME NEW i \in DOMAIN u
         PROVE  /\ u[i].do # "settle"
                /\ u[i].do = "place" /\ u[i].file \in Lasting =>
                      There(u[i].file) \/ staged'[p][u[i].file] # None
                /\ u[i].do = "digest" => i = 1 /\ live'[u[i].file] # None /\ digest'[u[i].file.of] = None
                /\ u[i].do = "index" => i = Len(u)
    <2>1. i \in 1 .. Len(u)
      BY <1>6
    <2>2. CASE i <= Len(m)
      <3>1. i = 1 /\ u[i] = Step("digest", f) /\ f.kind = "archive" /\ ~Published(f)
        BY <1>6, <1>7, <2>1, <2>2
      <3>2. u[i].do = "digest" /\ u[i].file = f
        BY <3>1 DEF Step
      <3>3. live'[f] # None /\ digest'[f.of] = None
        BY <1>1, <1>2, <1>8, <1>9, <3>1
      <3> QED BY <3>1, <3>2, <3>3
    <2>3. CASE ~(i <= Len(m))
      <3> DEFINE k == i - Len(m) + 1
      <3>1. k \in 2 .. Len(t) /\ k \in 1 .. Len(t) /\ u[i] = t[k]
        BY <1>6, <2>1, <2>3
      <3>2. k = Len(t) => i = Len(u)
        <4>1. Len(m) \in Nat /\ Len(t) \in Nat /\ Len(u) = Len(m) + Len(t) - 1 /\ i \in Int
          BY <1>6, <2>1
        <4> QED BY <4>1
      <3> HIDE DEF k
      <3>0. k # 1
        BY <1>6, <3>1
      <3>3. /\ t[k].do # "settle"
            /\ t[k].do = "place" /\ t[k].file \in Lasting =>
                  Published(t[k].file) \/ staged[p][t[k].file] # None
            /\ t[k].do = "digest" => k = 1
            /\ t[k].do = "index" => k = Len(t)
        BY <1>4, <1>6, <3>1 DEF Doable
      <3> DEFINE g == t[k].file
      <3>4. ASSUME t[k].do = "place", g \in Lasting
            PROVE  There(g) \/ staged'[p][g] # None
        <4>1. CASE g = f
          BY <1>2, <3>4, <4>1
        <4>2. CASE g # f
          <5>1. g \in Paths
            BY <3>4 DEF Lasting
          <5> HIDE DEF g
          <5>2. staged'[p][g] = staged[p][g] /\ (Published(g) => There(g))
            BY <1>2, <3>4, <4>2, <5>1
          <5> QED BY <3>3, <3>4, <5>2 DEF g
        <4> QED BY <4>1, <4>2
      <3> QED BY <3>0, <3>1, <3>2, <3>3, <3>4
    <2> QED BY <2>2, <2>3
  <1>11. Doable(p)' <=> \A i \in DOMAIN u :
                /\ u[i].do # "settle"
                /\ u[i].do = "place" /\ u[i].file \in Lasting =>
                      There(u[i].file) \/ staged'[p][u[i].file] # None
                /\ u[i].do = "digest" => i = 1 /\ live'[u[i].file] # None /\ digest'[u[i].file.of] = None
                /\ u[i].do = "index" => i = Len(u)
    BY DEF Doable, Published, There
  <1>12. ASSUME Swapping(p)'
         PROVE  Swapping(p)
    <2>1. PICK i \in DOMAIN u : u[i].do = "index"
      BY <1>12 DEF Swapping
    <2>2. i \in 1 .. Len(u)
      BY <1>6
    <2>3. CASE i <= Len(m)
      BY <1>6, <1>7, <2>1, <2>2, <2>3 DEF Step
    <2>4. CASE ~(i <= Len(m))
      <3>1. i - Len(m) + 1 \in DOMAIN t /\ t[i - Len(m) + 1].do = "index"
        BY <1>6, <2>1, <2>2, <2>4
      <3> QED BY <1>3, <3>1 DEF Swapping
    <2> QED BY <2>3, <2>4
  <1>13. ASSUME NEW g \in Lasting, Published(g) \/ Will(p, "place", g)
         PROVE  There(g) \/ Will(p, "place", g)'
    <2>1. CASE Published(g)
      BY <1>2, <2>1
    <2>2. CASE Will(p, "place", g)
      <3>1. PICK k \in DOMAIN t : t[k].do = "place" /\ t[k].file = g
        BY <2>2 DEF Will
      <3>2. CASE k = 1
        BY <1>2, <1>5, <3>1, <3>2 DEF f
      <3>3. CASE k # 1
        <4>1. k \in 2 .. Len(t)
          BY <1>6, <3>3
        <4>2. Len(m) + k - 1 \in DOMAIN u /\ u[Len(m) + k - 1] = t[k]
          BY <1>6, <4>1
        <4> QED BY <3>1, <4>2 DEF Will
      <3> QED BY <3>2, <3>3
    <2> QED BY <1>13, <2>1, <2>2
  <1>14. ASSUME Promised(p)
         PROVE  Promised(p)'
    <2>1. \A l \in Range(job[p].lines) : FilesOfLine[l] \subseteq Lasting
      BY Lasts DEF Serving
    <2>2. \A l \in Range(job[p].lines) : \A g \in FilesOfLine[l] : There(g) \/ Will(p, "place", g)'
      BY <1>13, <1>14, <2>1 DEF Promised
    <2>3. \A g : There(g) => Published(g)'
      BY DEF There, Published
    <2> QED BY <1>1, <1>3, <1>14, <2>2, <2>3 DEF Promised
  <1> QED BY <1>4, <1>10, <1>11, <1>12, <1>14

LEMMA PlaceServing ==
    ASSUME Serving, NEW p \in Publisher, Place(p)
    PROVE  Serving'
  <1> DEFINE f == Head(job[p].todo).file
  <1>1. /\ Doing(p, "place") /\ Then(p, More(f)) /\ More(f) \in Seq(Steps)
        /\ UNCHANGED <<url, digest, index, gate, admin, stash>>
    BY PlaceIs DEF Serving
  <1>2. TypeOK'
    BY PlaceTypes DEF Serving
  <1>3. /\ f \in Paths
        /\ \A g \in Paths : g # f => live'[g] = live[g]
        /\ Published(f) => live'[f] = live[f]
        /\ \A g \in Lasting : Published(g) => Published(g)'
    BY PlaceGives
  <1> HIDE DEF f
  <1>4. GateHeld' /\ \A q \in Publisher \ {p} : job'[q].at # "place"
    BY <1>1, ThenGate
  <1>5. Shown' /\ Stash'
    BY <1>1, <1>3, StillShown
  <1>6. Copies'
    <2> SUFFICES ASSUME NEW a \in Archive
                 PROVE  /\ a \in url => digest[a] # None
                        /\ digest[a] # None => Published(Stored(a))' /\ live'[Stored(a)] \in {None, digest[a]}
      BY <1>1 DEF Copies
    <2>1. Stored(a) \in Lasting /\ Stored(a) \in Paths
      BY Lasts, PathsAre DEF Serving
    <2>2. /\ a \in url => digest[a] # None
          /\ digest[a] # None => Published(Stored(a)) /\ live[Stored(a)] \in {None, digest[a]}
      BY DEF Serving, Copies
    <2>3. Published(Stored(a)) => live'[Stored(a)] = live[Stored(a)]
      BY <1>3, <2>1
    <2> QED BY <1>3, <2>1, <2>2, <2>3
  <1>7. Doings'
    BY <1>4, PlaceDoable DEF Doings
  <1> QED BY <1>2, <1>4, <1>5, <1>6, <1>7 DEF Serving
(* The index is swapped last, when all that was promised is there.         *)
LEMMA SwapIs ==
    ASSUME Serving, NEW p \in Publisher, SwapIndex(p)
    PROVE  /\ index' = index \o job[p].lines /\ job[p].lines \in Distinct /\ index \in Seq(Lines)
           /\ Range(index') = Range(index) \cup Range(job[p].lines)
           /\ \A l \in Range(job[p].lines) : \A f \in FilesOfLine[l] : Published(f)
           /\ Swapping(p) /\ DOMAIN job'[p].todo = {}
  <1>1. /\ Doing(p, "index") /\ Then(p, <<>>) /\ index' = job[p].seen \o job[p].lines
    BY DEF SwapIndex
  <1>2. /\ DOMAIN job[p].todo = 1 .. Len(job[p].todo) /\ Len(job[p].todo) \in Nat
        /\ 1 \in DOMAIN job[p].todo /\ job[p].todo[1].do = "index"
        /\ DOMAIN job'[p].todo = 1 .. Len(job'[p].todo) /\ Len(job'[p].todo) = Len(job[p].todo) - 1
    BY <1>1, ThenTail DEF Serving
  <1>3. job[p].at = "place"
    BY <1>1 DEF Doing
  <1>4. Swapping(p)
    BY <1>2, <1>3 DEF Swapping
  <1>5. Doable(p) /\ Promised(p)
    BY <1>3, <1>4 DEF Serving, Doings
  <1>6. Len(job[p].todo) = 1
    BY <1>2, <1>5 DEF Doable
  <1>7. \A f : ~Will(p, "place", f)
    BY <1>2, <1>6 DEF Will
  <1>8. \A l \in Range(job[p].lines) : \A f \in FilesOfLine[l] : Published(f)
    BY <1>5, <1>7 DEF Promised
  <1>9. job[p].lines \in Distinct /\ job[p].lines \in Seq(Lines) /\ index \in Seq(Lines)
    BY DEF Serving, TypeOK, PortalOK, ChannelOK, Jobs, Distinct
  <1>10. index' = index \o job[p].lines
    BY <1>1, <1>5 DEF Promised
  <1>11. Range(index') = Range(index) \cup Range(job[p].lines)
    BY <1>9, <1>10, RangeOfConcat
  <1>12. DOMAIN job'[p].todo = {}
    BY <1>2, <1>6
  <1> QED BY <1>4, <1>8, <1>9, <1>10, <1>11, <1>12

LEMMA SwapServing ==
    ASSUME Serving, NEW p \in Publisher, SwapIndex(p)
    PROVE  Serving'
  <1>1. /\ Doing(p, "index") /\ Then(p, <<>>)
        /\ UNCHANGED <<live, url, digest, staged, gate, admin, stash>>
    BY DEF SwapIndex, staging
  <1>2. TypeOK'
    BY SwapTypes DEF Serving
  <1>3. /\ Range(index') = Range(index) \cup Range(job[p].lines)
        /\ \A l \in Range(job[p].lines) : \A f \in FilesOfLine[l] : Published(f)
        /\ DOMAIN job'[p].todo = {}
    BY SwapIs
  <1>4. \A f : Published(f) => Published(f)'
    BY <1>1 DEF Published
  <1>5. GateHeld' /\ \A q \in Publisher \ {p} : job'[q].at # "place"
    BY <1>1, NoneMore, ThenGate
  <1>6. Copies'
    BY <1>1 DEF Serving, Copies, Published
  <1>7. Shown'
    BY <1>3, <1>4 DEF Serving, Shown
  <1>8. Stash'
    <2>1. admin = None
      BY <1>1, OneWorks DEF Serving, Doing
    <2>2. stash.line # None => \A f \in FilesOfLine[stash.line] :
              Published(f)' \/ (f \in Stashed(stash.line) /\ stash.files[f] # None)
      BY <1>4 DEF Serving, Stash
    <2> QED BY <1>1, <2>1, <2>2, Constants DEF Stash
  <1>9. Doable(p)' /\ ~Swapping(p)'
    BY <1>3 DEF Doable, Swapping
  <1>10. Doings'
    BY <1>5, <1>9 DEF Doings
  <1> QED BY <1>2, <1>5, <1>6, <1>7, <1>8, <1>10 DEF Serving

(* What a check accepts has its files, in this push or published.          *)
LEMMA CheckServing ==
    ASSUME Serving, NEW p \in Publisher, Check(p)
    PROVE  Serving'
  <1>1. PICK accepted \in Distinct, refused \in BOOLEAN, done \in BOOLEAN, todo \in Seq(Steps) :
           /\ job' = [job EXCEPT ![p] = Job(p, accepted, refused, done, todo)]
           /\ Range(accepted) \subseteq Range(Owned(p))
           /\ \A l \in Range(accepted) : \A f \in FilesOfLine[l] : staged[p][f] # None =>
                 \E i \in DOMAIN todo : todo[i] = Step("place", f)
           /\ \E k \in DOMAIN todo :
                 /\ todo[k].do = "list"
                 /\ \A i \in DOMAIN todo : todo[i].do = "place" => i < k /\ staged[p][todo[i].file] # None
           /\ \A i \in DOMAIN todo :
                 /\ todo[i].do \in {"place", "list", "mutable", "index"}
                 /\ todo[i].do = "index" => i = Len(todo)
    BY CheckDoes DEF Serving
  <1> DEFINE j == Job(p, accepted, refused, done, todo)
  <1>2. j.at = "place" /\ j.seen = index /\ j.lines = accepted /\ j.todo = todo
    BY JobIs DEF Serving
  <1> HIDE DEF j
  <1>3. job \in [Publisher -> Jobs] /\ index \in Seq(Lines)
    BY DEF Serving, TypeOK, PortalOK, ChannelOK
  <1>4. job'[p] = j /\ \A q \in Publisher \ {p} : job'[q] = job[q]
    BY <1>1, <1>3 DEF j
  <1>5. /\ gate = None /\ gate' = p /\ job[p].at = "gate"
        /\ UNCHANGED <<live, url, digest, index, staged, admin, stash>>
    BY DEF Check, channel, staging
  <1>6. \A q \in Publisher : job[q].at # "place"
    BY <1>5, OneWorks DEF Serving
  <1>7. TypeOK'
    BY CheckTypes DEF Serving
  <1>8. \A f : Published(f)' <=> Published(f)
    BY <1>5 DEF Published
  <1>9. GateHeld'
    <2>1. \A q \in Publisher : gate' = q <=> job'[q].at = "place"
      BY <1>2, <1>4, <1>5, <1>6
    <2>2. gate' # Maintainer /\ admin' = None
      BY <1>5, Constants, OneWorks DEF Serving
    <2> QED BY <2>1, <2>2 DEF GateHeld
  <1>10. Copies' /\ Shown' /\ Stash'
    BY <1>5, <1>8 DEF Serving, Copies, Shown, Stash
  <1>11. Doable(p)'
    <2>1. ASSUME NEW i \in DOMAIN todo
          PROVE  /\ todo[i].do \in {"place", "list", "mutable", "index"}
                 /\ todo[i].do = "index" => i = Len(todo)
                 /\ todo[i].do = "place" => staged'[p][todo[i].file] # None
      BY <1>1, <1>5
    <2>2. job'[p].todo = todo
      BY <1>2, <1>4
    <2> QED BY <2>1, <2>2 DEF Doable
  <1>12. Promised(p)'
    <2>1. job'[p].seen = index' /\ job'[p].lines = accepted /\ job'[p].todo = todo
      BY <1>2, <1>4, <1>5
    <2>2. ASSUME NEW l \in Range(accepted), NEW f \in FilesOfLine[l]
          PROVE  Published(f) \/ staged[p][f] # None
      <3>1. job[p].lines \in Distinct
        BY DEF Serving, TypeOK, PortalOK, Jobs
      <3>2. /\ l \in Lines /\ Found(p, Object(l)) = l.digest /\ Found(p, Sig(l)) # None
            /\ ArchiveOf[l] # None /\ l \notin Upstream => Found(p, Stored(ArchiveOf[l])) # None
        BY <1>1, <3>1, OwnedIs
      <3>3. l.digest # None
        BY <3>2, Constants DEF Digests
      <3>4. \A e : Found(p, e) # None => staged[p][e] # None \/ Published(e)
        BY DEF Found
      <3>5. \/ f = Object(l) \/ f = Sig(l)
            \/ ArchiveOf[l] # None /\ l \notin Upstream /\ f = Stored(ArchiveOf[l])
        BY <3>2, FilesAre
      <3> QED BY <3>2, <3>3, <3>4, <3>5
    <2>3. ASSUME NEW l \in Range(accepted), NEW f \in FilesOfLine[l], staged[p][f] # None
          PROVE  Will(p, "place", f)'
      <3>1. PICK i \in DOMAIN todo : todo[i] = Step("place", f)
        BY <1>1, <2>3
      <3>2. todo[i].do = "place" /\ todo[i].file = f
        BY <3>1 DEF Step
      <3> QED BY <2>1, <3>2 DEF Will
    <2>4. \A l \in Range(accepted) : \A f \in FilesOfLine[l] : Published(f)' \/ Will(p, "place", f)'
      BY <1>8, <2>2, <2>3
    <2> QED BY <2>1, <2>4 DEF Promised
  <1>13. Doings'
    BY <1>4, <1>6, <1>11, <1>12 DEF Doings
  <1> QED BY <1>7, <1>9, <1>10, <1>13 DEF Serving

(* Work that ends leaves the rest as it is: at its end, or where it was cut. *)
LEMMA Leaving ==
    ASSUME Serving, TypeOK', NEW p \in Publisher, job' = [job EXCEPT ![p] = Idle],
           gate' = IF gate = p THEN None ELSE gate,
           UNCHANGED <<live, url, digest, index, staged, admin, stash>>
    PROVE  Serving'
  <1>1. job \in [Publisher -> Jobs]
    BY DEF Serving, TypeOK, PortalOK
  <1>2. job'[p] = Idle /\ \A q \in Publisher \ {p} : job'[q] = job[q]
    BY <1>1
  <1>3. \A f : Published(f)' <=> Published(f)
    BY DEF Published
  <1>4. GateHeld'
    BY <1>2, IdleAt, Constants DEF Serving, GateHeld
  <1>5. Copies' /\ Shown' /\ Stash'
    BY <1>3 DEF Serving, Copies, Shown, Stash
  <1>6. Doings'
    <2> SUFFICES ASSUME NEW q \in Publisher, job'[q].at = "place"
                 PROVE  Doable(q)' /\ (Swapping(q)' => Promised(q)')
      BY DEF Doings
    <2>1. job'[q] = job[q] /\ job[q].at = "place"
      BY <1>2, IdleAt
    <2>2. Doable(q) /\ (Swapping(q) => Promised(q))
      BY <2>1 DEF Serving, Doings
    <2>3. Doable(q)'
      BY <1>3, <2>1, <2>2 DEF Doable
    <2>4. Swapping(q)' => Swapping(q)
      BY <2>1 DEF Swapping
    <2>5. \A f : Will(q, "place", f) => Will(q, "place", f)'
      BY <2>1 DEF Will
    <2>6. Promised(q) => Promised(q)'
      BY <1>3, <2>1, <2>5 DEF Promised
    <2> QED BY <2>2, <2>3, <2>4, <2>6
  <1> QED BY <1>4, <1>5, <1>6 DEF Serving

LEMMA EndServing ==
    ASSUME Serving, NEW p \in Publisher, Finish(p) \/ Fail(p)
    PROVE  Serving'
  <1>1. TypeOK'
    BY FinishTypes, EndTypes DEF Serving
  <1>2. /\ job' = [job EXCEPT ![p] = Idle]
        /\ UNCHANGED <<live, url, digest, index, staged, admin, stash>>
    BY DEF Finish, Fail, channel, staging
  <1>3. gate' = IF gate = p THEN None ELSE gate
    <2>1. CASE Finish(p)
      BY <2>1, OneWorks DEF Finish, Serving
    <2>2. CASE Fail(p)
      BY <2>2 DEF Fail
    <2> QED BY <2>1, <2>2
  <1> QED BY <1>1, <1>2, <1>3, Leaving

LEMMA RestartServing ==
    ASSUME Serving, Restart
    PROVE  Serving'
  <1>1. /\ job' = [q \in Publisher |-> Idle] /\ gate' = None /\ admin' = None
        /\ UNCHANGED <<live, url, digest, index, staged, stash>>
    BY DEF Restart, channel, staging
  <1>2. TypeOK'
    BY RestartTypes DEF Serving
  <1>3. \A f : Published(f)' <=> Published(f)
    BY <1>1 DEF Published
  <1>4. \A q \in Publisher : job'[q].at # "place"
    BY <1>1, IdleAt
  <1>5. GateHeld' /\ Doings'
    BY <1>1, <1>4, Constants DEF GateHeld, Doings
  <1>6. Copies' /\ Shown'
    BY <1>1, <1>3 DEF Serving, Copies, Shown
  <1>7. Stash'
    BY <1>1, <1>3, Constants DEF Serving, Stash
  <1> QED BY <1>2, <1>5, <1>6, <1>7 DEF Serving
(* A maintainer works alone under the gate. *)
LEMMA AloneServing ==
    ASSUME Serving, TypeOK', job' = job, gate = None \/ admin # None,
           (gate' = None /\ admin' = None) \/ (gate' = Maintainer /\ admin' \in {"removing", "restoring"}),
           Copies', Shown', Stash'
    PROVE  Serving'
  <1>1. \A q \in Publisher : job'[q].at # "place"
    BY OneWorks DEF Serving
  <1>2. GateHeld' /\ Doings'
    BY <1>1, Constants DEF GateHeld, Doings
  <1> QED BY <1>2 DEF Serving

LEMMA RemoveLineIs ==
    ASSUME Serving, RemoveLine
    PROVE  \E l \in Range(index) :
              /\ stash' = [line |-> l, files |-> Nothing] /\ l \in Lines
              /\ index' = Keep(index, Lines \ {l}) /\ index \in Seq(Lines)
              /\ Range(index') = Range(index) \ {l}
  <1>1. PICK l \in Range(index) :
           index' = Keep(index, Lines \ {l}) /\ stash' = [line |-> l, files |-> Nothing]
    BY DEF RemoveLine
  <1>2. index \in Seq(Lines) /\ Range(index) \subseteq Lines
    BY RangeOf DEF Serving, TypeOK, ChannelOK
  <1>3. Range(index') = Range(index) \cap (Lines \ {l})
    BY <1>1, <1>2, Keeps
  <1> QED BY <1>1, <1>2, <1>3

LEMMA RemoveLineServing ==
    ASSUME Serving, RemoveLine
    PROVE  Serving'
  <1>1. PICK l \in Range(index) :
           /\ stash' = [line |-> l, files |-> Nothing] /\ l \in Lines
           /\ Range(index') = Range(index) \ {l}
    BY RemoveLineIs
  <1>2. /\ gate = None /\ gate' = Maintainer /\ admin' = "removing" /\ job' = job
        /\ UNCHANGED <<live, url, digest>>
    BY DEF RemoveLine
  <1>3. TypeOK'
    BY RemoveLineTypes DEF Serving
  <1>4. \A f : Published(f)' <=> Published(f)
    BY <1>2 DEF Published
  <1>5. Copies' /\ Shown'
    BY <1>1, <1>2, <1>4 DEF Serving, Copies, Shown
  <1>6. Stash'
    <2>1. stash'.line = l
      BY <1>1
    <2>2. \A f \in FilesOfLine[l] : Published(f)'
      BY <1>1, <1>4 DEF Serving, Shown
    <2> QED BY <1>1, <2>1, <2>2, Constants DEF Stash
  <1> QED BY <1>2, <1>3, <1>5, <1>6, AloneServing

(* What is taken off is of a line the index shows no more. *)
LEMMA TakeAwayIs ==
    ASSUME Serving, TakeAway
    PROVE  \E f \in Stashed(stash.line) :
              /\ live' = [live EXCEPT ![f] = None] /\ live[f] # None
              /\ stash' = [stash EXCEPT !.files[f] = live[f]]
              /\ f \in Paths /\ f.kind # "archive" /\ stash.line \in Lines
              /\ \A l \in Range(index) : f \notin FilesOfLine[l]
  <1>1. PICK f \in Stashed(stash.line) :
           /\ live[f] # None
           /\ live' = [live EXCEPT ![f] = None]
           /\ stash' = [stash EXCEPT !.files[f] = live[f]]
    BY DEF TakeAway
  <1>2. admin = "removing"
    BY DEF TakeAway
  <1>3. stash.line \in Lines /\ stash.line \notin Range(index)
    BY <1>2, Lasts, Constants DEF Serving, Stash
  <1>4. f \in Paths /\ f.kind # "archive"
    BY <1>3, StashIs, OnePath DEF Stashed
  <1>5. ASSUME NEW l \in Range(index)
        PROVE  f \notin FilesOfLine[l]
    <2>1. l \in Lines /\ l # stash.line
      BY <1>3, Lasts DEF Serving
    <2>2. \A a : Stored(a).kind = "archive"
      BY DEF Stored, F
    <2>3. f # Object(l) /\ f # Sig(l)
      BY <1>3, <2>1, OnePath DEF Stashed
    <2> QED BY <1>4, <2>1, <2>2, <2>3, FilesAre
  <1> QED BY <1>1, <1>3, <1>4, <1>5

LEMMA TakeAwayServing ==
    ASSUME Serving, TakeAway
    PROVE  Serving'
  <1>1. PICK f \in Stashed(stash.line) :
           /\ live' = [live EXCEPT ![f] = None] /\ live[f] # None
           /\ stash' = [stash EXCEPT !.files[f] = live[f]]
           /\ f \in Paths /\ f.kind # "archive" /\ stash.line \in Lines
           /\ \A l \in Range(index) : f \notin FilesOfLine[l]
    BY TakeAwayIs
  <1>2. /\ admin = "removing" /\ admin' = "removing" /\ gate' = gate /\ job' = job
        /\ UNCHANGED <<url, digest, index>>
    BY DEF TakeAway
  <1>3. TypeOK'
    BY <1>1, TakeAwayTypes DEF Serving
  <1>4. live \in FileMaps /\ stash \in [line : Lines \cup {None}, files : FileMaps]
    BY DEF Serving, TypeOK, ChannelOK, PortalOK
  <1>5. \A g : g # f => live'[g] = live[g]
    BY <1>1, <1>4 DEF FileMaps
  <1>6. \A g : g # f => (Published(g)' <=> Published(g))
    BY <1>2, <1>5 DEF Published
  <1>7. Copies'
    <2>1. \A a \in Archive : Stored(a) # f
      BY <1>1 DEF Stored, F
    <2> QED BY <1>2, <1>5, <1>6, <2>1 DEF Serving, Copies
  <1>8. Shown'
    BY <1>1, <1>2, <1>6 DEF Serving, Shown
  <1>9. Stash'
    <2>1. stash'.line = stash.line /\ stash'.files[f] # None /\ \A g : g # f => stash'.files[g] = stash.files[g]
      BY <1>1, <1>4 DEF FileMaps
    <2>2. stash.line # None => \A g \in FilesOfLine[stash.line] :
              Published(g)' \/ (g \in Stashed(stash.line) /\ stash'.files[g] # None)
      BY <1>6, <2>1 DEF Serving, Stash
    <2> QED BY <1>2, <2>1, <2>2 DEF Serving, Stash
  <1>10. gate = Maintainer
    BY <1>2, OneWorks, Constants DEF Serving
  <1> QED BY <1>2, <1>3, <1>7, <1>8, <1>9, <1>10, Constants, AloneServing

LEMMA BringBackServing ==
    ASSUME Serving, BringBack
    PROVE  Serving' /\ stash.line \in Lines
  <1>1. PICK f \in Missing :
           /\ live' = [live EXCEPT ![f] = stash.files[f]]
           /\ stash' = [stash EXCEPT !.files[f] = None]
    BY DEF BringBack
  <1>2. /\ admin = "restoring" /\ admin' = "restoring" /\ gate' = gate /\ job' = job
        /\ UNCHANGED <<url, digest, index>>
    BY DEF BringBack
  <1>3. admin # None /\ stash.line \in Lines /\ gate = Maintainer
    BY <1>2, Lasts, Constants, OneWorks DEF Serving, Stash
  <1>4. TypeOK'
    BY <1>3, BringBackTypes DEF Serving
  <1>5. live \in FileMaps /\ stash \in [line : Lines \cup {None}, files : FileMaps]
    BY DEF Serving, TypeOK, ChannelOK, PortalOK
  <1>6. f \in Paths /\ f.kind # "archive" /\ stash.files[f] # None /\ live[f] = None
    BY <1>1, <1>3, StashIs, OnePath DEF Missing, Stashed
  <1>7. live'[f] # None /\ \A g : g # f => live'[g] = live[g]
    BY <1>1, <1>5, <1>6 DEF FileMaps
  <1>8. \A g : Published(g) => Published(g)'
    BY <1>2, <1>7 DEF Published
  <1>9. Copies'
    <2>1. \A a \in Archive : Stored(a) # f
      BY <1>6 DEF Stored, F
    <2> QED BY <1>2, <1>7, <1>8, <2>1 DEF Serving, Copies
  <1>10. Shown'
    BY <1>2, <1>8 DEF Serving, Shown
  <1>11. Stash'
    <2>1. stash'.line = stash.line /\ \A g : g # f => stash'.files[g] = stash.files[g]
      BY <1>1, <1>5 DEF FileMaps
    <2>2. Published(f)'
      BY <1>7 DEF Published
    <2>3. stash.line # None => \A g \in FilesOfLine[stash.line] :
              Published(g)' \/ (g \in Stashed(stash.line) /\ stash'.files[g] # None)
      BY <1>8, <2>1, <2>2 DEF Serving, Stash
    <2>4. stash.line # None => stash'.line # None
      BY <2>1
    <2>5. admin' # "removing"
      BY <1>2
    <2> QED BY <1>3, <2>1, <2>3, <2>5, Constants DEF Stash
  <1> QED BY <1>2, <1>3, <1>4, <1>9, <1>10, <1>11, AloneServing

LEMMA RemovedServing ==
    ASSUME Serving, Removed \/ RestoreStash
    PROVE  Serving'
  <1>1. /\ job' = job /\ UNCHANGED <<live, url, digest, index, stash>>
        /\ \/ admin = "removing" /\ gate' = None /\ admin' = None
           \/ gate = None /\ stash.line # None /\ gate' = Maintainer /\ admin' = "restoring"
    BY DEF Removed, RestoreStash, channel
  <1>2. TypeOK'
    BY RemovedTypes DEF Serving
  <1>3. \A f : Published(f)' <=> Published(f)
    BY <1>1 DEF Published
  <1>4. Copies' /\ Shown'
    BY <1>1, <1>3 DEF Serving, Copies, Shown
  <1>5. Stash'
    BY <1>1, <1>3, Constants DEF Serving, Stash
  <1>6. gate = None \/ admin # None
    BY <1>1, Constants
  <1>7. (gate' = None /\ admin' = None) \/ (gate' = Maintainer /\ admin' \in {"removing", "restoring"})
    BY <1>1
  <1>8. job' = job
    BY <1>1
  <1> QED BY <1>2, <1>4, <1>5, <1>6, <1>7, <1>8, AloneServing

(* Nothing of a line is missing when it is put back.                       *)
LEMMA RestoredIs ==
    ASSUME Serving, Restored
    PROVE  /\ stash.line \in Lines /\ index \in Seq(Lines)
           /\ index' = IF stash.line \in Range(index) THEN index ELSE Append(index, stash.line)
           /\ Range(index') = Range(index) \cup {stash.line}
           /\ \A f \in FilesOfLine[stash.line] : Published(f)
           /\ gate = Maintainer
  <1>1. /\ admin = "restoring" /\ Missing = {}
        /\ index' = IF stash.line \in Range(index) THEN index ELSE Append(index, stash.line)
    BY DEF Restored
  <1>2. admin # None /\ stash.line \in Lines /\ gate = Maintainer /\ stash.line # None
    BY <1>1, Lasts, Constants, OneWorks DEF Serving, Stash
  <1>3. index \in Seq(Lines)
    BY DEF Serving, TypeOK, ChannelOK
  <1>4. Range(index') = Range(index) \cup {stash.line}
    <2> DEFINE l == stash.line
    <2>1. l \in Lines
      BY <1>2
    <2> HIDE DEF l
    <2>2. Range(Append(index, l)) = Range(index) \cup {l}
      <3>1. Append(index, l) = index \o <<l>>
        BY <1>3, <2>1, AppendIsConcat
      <3>2. <<l>> \in Seq(Lines) /\ Range(<<l>>) = {l}
        BY <2>1, RangeOfOne
      <3>3. Range(index \o <<l>>) = Range(index) \cup Range(<<l>>)
        BY <1>3, <3>2, RangeOfConcat, ZenonT(60)
      <3> QED BY <3>1, <3>2, <3>3
    <2>3. Range(IF l \in Range(index) THEN index ELSE Append(index, l)) = Range(index) \cup {l}
      BY <2>2
    <2> QED BY <1>1, <2>3 DEF l
  <1>5. \A f \in Stashed(stash.line) : stash.files[f] # None => Published(f)
    BY <1>1 DEF Missing, Published
  <1>6. \A f \in FilesOfLine[stash.line] : Published(f)
    BY <1>2, <1>5 DEF Serving, Stash
  <1> QED BY <1>1, <1>2, <1>3, <1>4, <1>6

LEMMA RestoredServing ==
    ASSUME Serving, Restored
    PROVE  Serving'
  <1>1. /\ stash.line \in Lines /\ Range(index') = Range(index) \cup {stash.line}
        /\ \A f \in FilesOfLine[stash.line] : Published(f)
    BY RestoredIs
  <1>2. /\ admin = "restoring" /\ gate' = None /\ admin' = None /\ job' = job
        /\ UNCHANGED <<live, url, digest>> /\ stash' = [line |-> None, files |-> Nothing]
    BY DEF Restored
  <1>3. TypeOK'
    BY <1>1, RestoredTypes DEF Serving
  <1>4. \A f : Published(f)' <=> Published(f)
    BY <1>2 DEF Published
  <1>5. Copies' /\ Shown'
    BY <1>1, <1>2, <1>4 DEF Serving, Copies, Shown
  <1>6. Stash'
    BY <1>2, Constants DEF Stash
  <1>7. admin # None
    BY <1>2, Constants
  <1>8. (gate' = None /\ admin' = None) \/ (gate' = Maintainer /\ admin' \in {"removing", "restoring"})
    BY <1>2
  <1>9. job' = job
    BY <1>2
  <1> QED BY <1>3, <1>5, <1>6, <1>7, <1>8, <1>9, AloneServing
(* An archive is sent away with its .sha256, so no work waits for it.      *)
LEMMA ArchiveServing ==
    ASSUME Serving, NEW a \in Archive, SendAway(a) \/ DropLocal(a)
    PROVE  Serving'
  <1>1. /\ UNCHANGED <<digest, index, staged, job, gate, admin, stash>>
        /\ digest[a] # None /\ url' \in {url, url \cup {a}} /\ a \in url'
        /\ live' = live \/ live' = [live EXCEPT ![Stored(a)] = None]
    BY DEF SendAway, DropLocal, staging, portal, Serving, Copies
  <1>2. TypeOK'
    BY ArchiveTypes DEF Serving
  <1>3. live \in FileMaps /\ Stored(a).kind = "archive" /\ Stored(a).of = a
    BY DEF Serving, TypeOK, ChannelOK, Stored, F
  <1>4. \A f \in Paths : f # Stored(a) => live'[f] = live[f]
    BY <1>1, <1>3 DEF FileMaps
  <1>5. \A f \in Lasting : Published(f) => Published(f)'
    BY <1>1, <1>3, <1>4 DEF Published, Lasting
  <1>6. live'[Stored(a)] \in {None, live[Stored(a)]}
    BY <1>1, <1>3, PathsAre DEF FileMaps
  <1>7. GateHeld'
    BY <1>1 DEF Serving, GateHeld
  <1>8. Copies'
    <2> SUFFICES ASSUME NEW b \in Archive
                 PROVE  /\ b \in url' => digest[b] # None
                        /\ digest[b] # None => Published(Stored(b))' /\ live'[Stored(b)] \in {None, digest[b]}
      BY <1>1 DEF Copies
    <2>1. /\ b \in url => digest[b] # None
          /\ digest[b] # None => Published(Stored(b)) /\ live[Stored(b)] \in {None, digest[b]}
      BY DEF Serving, Copies
    <2>2. live'[Stored(b)] \in {None, live[Stored(b)]}
      BY <1>4, <1>6, PathsAre
    <2>3. Stored(b) \in Lasting
      BY Lasts DEF Serving
    <2> QED BY <1>1, <1>5, <2>1, <2>2, <2>3
  <1>9. Shown' /\ Stash'
    BY <1>1, <1>5, StillShown
  <1>10. Doings'
    <2> SUFFICES ASSUME NEW p \in Publisher, job[p].at = "place"
                 PROVE  Doable(p)' /\ (Swapping(p)' => Promised(p)')
      BY <1>1 DEF Doings
    <2> DEFINE t == job[p].todo
    <2>1. Doable(p) /\ (Swapping(p) => Promised(p))
      BY DEF Serving, Doings
    <2>2. t \in Seq(Steps)
      BY DEF Serving, TypeOK, PortalOK, Jobs
    <2>3. ASSUME NEW i \in DOMAIN t, t[i].do = "digest"
          PROVE  i = 1 /\ live'[t[i].file] # None /\ digest[t[i].file.of] = None
      <3>1. t[i] \in Steps
        BY <2>2, RangeOf
      <3>2. i = 1 /\ live[t[i].file] # None /\ digest[t[i].file.of] = None
        BY <2>1, <2>3 DEF Doable
      <3>3. t[i].file # Stored(a) /\ t[i].file \in Paths
        BY <1>1, <1>3, <2>3, <3>1, <3>2, StepsAre
      <3> QED BY <1>4, <3>2, <3>3
    <2>4. ASSUME NEW i \in DOMAIN t
          PROVE  /\ t[i].do # "settle"
                 /\ t[i].do = "place" /\ t[i].file \in Lasting =>
                       Published(t[i].file) \/ staged[p][t[i].file] # None
                 /\ t[i].do = "index" => i = Len(t)
      BY <2>1 DEF Doable
    <2>5. job' = job /\ staged' = staged /\ digest' = digest /\ index' = index
      BY <1>1
    <2>6. \A i \in DOMAIN t : t[i].do = "place" /\ t[i].file \in Lasting =>
              (live'[t[i].file] # None \/ (t[i].file.kind = "archive" /\ t[i].file.of \in url'))
              \/ staged[p][t[i].file] # None
      BY <1>5, <2>4 DEF Published
    <2> HIDE DEF t
    <2>7. Doable(p)'
      BY <2>3, <2>4, <2>5, <2>6 DEF Doable, Published, t
    <2>8. Swapping(p)' => Swapping(p)
      BY <2>5 DEF Swapping
    <2>9. \A f : Will(p, "place", f) => Will(p, "place", f)'
      BY <2>5 DEF Will
    <2>10. Promised(p) => Promised(p)'
      BY <1>5, <2>5, <2>9, Lasts DEF Promised, Serving
    <2> QED BY <2>1, <2>7, <2>8, <2>10
  <1> QED BY <1>2, <1>7, <1>8, <1>9, <1>10 DEF Serving

LEMMA StartServing ==
    ASSUME Serving, ListAtStart \/ UNCHANGED vars
    PROVE  Serving' /\ Quiet
  <1>1. UNCHANGED <<live, url, digest, index, gate, admin, stash, job, staged>>
    BY DEF ListAtStart, vars, channel, staging, portal
  <1>2. Quiet
    BY <1>1 DEF Quiet
  <1>3. TypeOK'
    BY ListAtStartTypes DEF Serving
  <1> QED BY <1>2, <1>3, QuietServing

LEMMA InitServing == Init => Serving
  <1> SUFFICES ASSUME Init
               PROVE  Serving
    OBVIOUS
  <1>1. TypeOK
    BY InitTypes
  <1>2. \A p \in Publisher : job[p].at = "idle"
    BY IdleAt DEF Init
  <1>3. gate = None /\ admin = None /\ stash.line = None /\ url = {} /\ index = <<>>
        /\ digest = [a \in Archive |-> None]
    BY DEF Init
  <1>4. Range(index) = {}
    BY <1>3, RangeOfNone
  <1>5. GateHeld /\ Doings
    BY <1>2, <1>3, Constants DEF GateHeld, Doings
  <1>6. Copies /\ Shown /\ Stash
    BY <1>3, <1>4, Constants DEF Copies, Shown, Stash
  <1> QED BY <1>1, <1>5, <1>6 DEF Serving

(* Every step keeps what serving the lines rests on.                       *)
LEMMA StepTypes ==
    ASSUME Serving, NEW p \in Publisher,
           \/ Publish(p) \/ Remake(p) \/ Withdraw(p) \/ Start(p) \/ Request(p) \/ Settle(p)
           \/ PutCut(p) \/ Lose(p) \/ HangUp(p) \/ Expire(p)
    PROVE  TypeOK'
  <1>1. TypeOK
    BY DEF Serving
  <1> QED BY <1>1, PublishTypes, StartTypes, PlanTypes, PutAnsweredTypes, PutBodyTypes, SendIndexTypes,
             SettleTypes, TroubleTypes, EndTypes, ExpireTypes DEF Request

LEMMA NextServing == Serving /\ [Next]_vars => Serving'
  <1> SUFFICES ASSUME Serving, [Next]_vars
               PROVE  Serving'
    OBVIOUS
  <1>1. ASSUME NEW p \in Publisher,
               Publish(p) \/ Remake(p) \/ Withdraw(p) \/ Start(p) \/ Request(p) \/ Handle(p) \/ Trouble(p)
        PROVE  Serving'
    <2>1. CASE \/ Publish(p) \/ Remake(p) \/ Withdraw(p) \/ Start(p) \/ Request(p) \/ Settle(p)
               \/ PutCut(p) \/ Lose(p) \/ HangUp(p) \/ Expire(p)
      <3>1. TypeOK' /\ TypeOK
        BY <2>1, StepTypes DEF Serving
      <3>2. Quiet
        BY <2>1, <3>1, Quietly
      <3> QED BY <3>1, <3>2, QuietServing
    <2>2. CASE Check(p) \/ Place(p) \/ WriteDigest(p) \/ WriteList(p)
      BY <2>2, CheckServing, PlaceServing, DigestServing, ListServing
    <2>3. CASE Replace(p) \/ SwapIndex(p) \/ Finish(p) \/ Fail(p)
      BY <2>3, ReplaceServing, SwapServing, EndServing
    <2> QED BY <1>1, <2>1, <2>2, <2>3 DEF Handle, Trouble
  <1>2. ASSUME NEW a \in Archive, SendAway(a) \/ DropLocal(a)
        PROVE  Serving'
    BY <1>2, ArchiveServing
  <1>3. CASE Maintain
    BY <1>3, RemoveLineServing, TakeAwayServing, RemovedServing, BringBackServing, RestoredServing DEF Maintain
  <1>4. CASE Restart
    BY <1>4, RestartServing
  <1>5. CASE ListAtStart \/ UNCHANGED vars
    BY <1>5, StartServing
  <1> QED BY <1>1, <1>2, <1>3, <1>4, <1>5 DEF Next

(* However requests of several publishers, a maintainer and the archive    *)
(* store interleave, and wherever one is cut, the variables hold what they *)
(* say, one at a time works under the gate, every line of the index has    *)
(* its files, and what a commit is about to show has or will have them.    *)
THEOREM ServingAlways == Spec => []Serving
  <1>1. Init => Serving
    BY InitServing
  <1>2. Serving /\ [Next]_vars => Serving'
    BY NextServing
  <1> QED BY <1>1, <1>2, PTL DEF Spec
-----------------------------------------------------------------------------
(* The channel implements the abstract one: what a reader gets at a path.  *)
Got(f) == IF Published(f) THEN LiveSha(f) ELSE None
Bytes == [f \in Lasting |-> Got(f)]

LEMMA GotIs ==
    ASSUME Serving, NEW f \in Lasting
    PROVE  /\ Published(f) => Got(f) # None
           /\ live[f] # None => Got(f) = live[f]
           /\ f.kind # "archive" => Got(f) = live[f]
           /\ f \in Paths /\ Bytes[f] = Got(f)
           /\ f.kind = "archive" => f.of \in Archive /\ f = Stored(f.of)
  <1>1. f \in Paths
    BY DEF Lasting
  <1>2. f.kind = "archive" => f.of \in Archive /\ f = Stored(f.of)
    BY <1>1, PathIs DEF ReadMe, Stored, F
  <1>3. f.kind = "archive" =>
           /\ f.of \in url => digest[f.of] # None
           /\ digest[f.of] # None => Published(f) /\ live[f] \in {None, digest[f.of]}
    BY <1>2 DEF Serving, Copies
  <1> QED BY <1>1, <1>2, <1>3 DEF Got, Bytes, Published, LiveSha

LEMMA BytesSame ==
    ASSUME \A f \in Lasting : Got(f)' = Got(f)
    PROVE  Bytes' = Bytes
  BY DEF Bytes

LEMMA BytesPut ==
    ASSUME NEW f \in Lasting, NEW c, Got(f)' = c, \A g \in Lasting : g # f => Got(g)' = Got(g)
    PROVE  Bytes' = [Bytes EXCEPT ![f] = c]
  <1>1. \A g \in Lasting : Got(g)' = IF g = f THEN c ELSE Got(g)
    OBVIOUS
  <1>2. Bytes' = [g \in Lasting |-> IF g = f THEN c ELSE Got(g)]
    BY <1>1 DEF Bytes
  <1>3. [Bytes EXCEPT ![f] = c] = [g \in Lasting |-> IF g = f THEN c ELSE Got(g)]
    BY DEF Bytes
  <1> QED BY <1>2, <1>3

(* A step as the abstract channel sees it. *)
Uploads == \E f \in Lasting, c \in Contents :
    Bytes[f] = None /\ Bytes' = [Bytes EXCEPT ![f] = c] /\ Range(index)' = Range(index)
Shows == \E L \in SUBSET Lines :
    /\ \A l \in L : \A f \in FilesOfLine[l] : Bytes[f] # None
    /\ Range(index)' = Range(index) \cup L /\ Bytes' = Bytes
Hides == \E L \in SUBSET Lines :
    L \subseteq Range(index) /\ Range(index)' = Range(index) \ L /\ Bytes' = Bytes
Clears == \E f \in Lasting :
    /\ \A l \in Range(index) : f \notin FilesOfLine[l]
    /\ Bytes' = [Bytes EXCEPT ![f] = None] /\ Range(index)' = Range(index)
Stutters == Range(index)' = Range(index) /\ Bytes' = Bytes
ChannelStep == Uploads \/ Shows \/ Hides \/ Clears \/ Stutters

LEMMA ChannelSteps == ChannelStep => [Chan!Next]_<<Range(index), Bytes>>
  <1>1. Uploads => Chan!Next
    BY DEF Uploads, Chan!Next, Chan!Upload, Bytes, Got
  <1>2. Shows => Chan!Next
    BY DEF Shows, Chan!Next, Chan!Show, Bytes, Got
  <1>3. Hides => Chan!Next
    BY DEF Hides, Chan!Next, Chan!Hide, Bytes, Got
  <1>4. Clears => Chan!Next
    BY DEF Clears, Chan!Next, Chan!Clear, Bytes, Got
  <1>5. Stutters => UNCHANGED <<Range(index), Bytes>>
    BY DEF Stutters
  <1> QED BY <1>1, <1>2, <1>3, <1>4, <1>5 DEF ChannelStep

LEMMA Stuttering ==
    ASSUME UNCHANGED <<live, url, digest, index>>
    PROVE  ChannelStep
  <1>1. \A f \in Lasting : Got(f)' = Got(f)
    BY DEF Got, Published, LiveSha
  <1> QED BY <1>1, BytesSame DEF ChannelStep, Stutters

LEMMA PlaceRefines ==
    ASSUME Serving, NEW p \in Publisher, Place(p)
    PROVE  ChannelStep
  <1>0. PICK f : f = Head(job[p].todo).file
    OBVIOUS
  <1>1. /\ f \in Paths
        /\ \A g \in Paths : g # f => live'[g] = live[g]
        /\ Published(f) => live'[f] = live[f]
        /\ f \in Lasting /\ ~Published(f) => live'[f] = staged[p][f] /\ live'[f] # None
    BY <1>0, PlaceGives
  <1>2. UNCHANGED <<url, digest, index>>
    BY DEF Place
  <1>3. staged[p] \in FileMaps
    BY DEF Serving, TypeOK, StagingOK
  <1>4. \A g \in Lasting : g # f => Got(g)' = Got(g)
    BY <1>1, <1>2 DEF Got, Published, LiveSha, Lasting
  <1>5. CASE f \in Lasting /\ ~Published(f)
    <2>1. staged[p][f] \in Contents
      BY <1>1, <1>3, <1>5 DEF FileMaps
    <2>2. Bytes[f] = None
      BY <1>5, GotIs DEF Got
    <2>3. f.kind = "archive" => f.of \in Archive /\ f = Stored(f.of)
      BY <1>5, GotIs
    <2>4. f.kind = "archive" => digest[f.of] = None
      BY <1>5, <2>3 DEF Serving, Copies
    <2>5. Got(f)' = staged[p][f]
      BY <1>1, <1>2, <1>5, <2>4 DEF Got, Published, LiveSha
    <2>6. Bytes' = [Bytes EXCEPT ![f] = staged[p][f]]
      BY <1>4, <1>5, <2>5, BytesPut
    <2> QED BY <1>2, <1>5, <2>1, <2>2, <2>6 DEF ChannelStep, Uploads
  <1>6. CASE f \notin Lasting \/ Published(f)
    <2>1. f \in Lasting => Got(f)' = Got(f)
      BY <1>1, <1>2, <1>6 DEF Got, Published, LiveSha
    <2>2. \A g \in Lasting : Got(g)' = Got(g)
      BY <1>4, <2>1
    <2> QED BY <1>2, <2>2, BytesSame DEF ChannelStep, Stutters
  <1> QED BY <1>5, <1>6

LEMMA DigestRefines ==
    ASSUME Serving, NEW p \in Publisher, WriteDigest(p)
    PROVE  ChannelStep
  <1>1. PICK a \in Archive :
           /\ digest' = [digest EXCEPT ![a] = live[Stored(a)]]
           /\ live[Stored(a)] # None /\ digest[a] = None /\ a \notin url
    BY DigestIs
  <1>2. UNCHANGED <<live, url, index>> /\ digest \in [Archive -> Contents \cup {None}]
    BY DEF WriteDigest, Serving, TypeOK, ChannelOK
  <1>3. ASSUME NEW f \in Lasting
        PROVE  Got(f)' = Got(f)
    <2>1. f.kind = "archive" => f.of \in Archive /\ f = Stored(f.of)
      BY GotIs
    <2>2. CASE f = Stored(a)
      <3>1. f.of = a /\ f.kind = "archive"
        BY <2>2 DEF Stored, F
      <3> QED BY <1>1, <1>2, <2>2, <3>1 DEF Got, Published, LiveSha
    <2>3. CASE f # Stored(a)
      <3>1. f.kind = "archive" => digest'[f.of] = digest[f.of]
        BY <1>1, <1>2, <2>1, <2>3
      <3> QED BY <1>2, <3>1 DEF Got, Published, LiveSha
    <2> QED BY <2>2, <2>3
  <1> QED BY <1>2, <1>3, BytesSame DEF ChannelStep, Stutters

LEMMA ReplaceRefines ==
    ASSUME Serving, NEW p \in Publisher, Replace(p)
    PROVE  ChannelStep
  <1>1. UNCHANGED <<url, digest, index>> /\ \A f \in Lasting : live'[f] = live[f]
    BY ReplaceServing DEF Replace
  <1>2. \A f \in Lasting : Got(f)' = Got(f)
    BY <1>1 DEF Got, Published, LiveSha
  <1> QED BY <1>1, <1>2, BytesSame DEF ChannelStep, Stutters

LEMMA SwapRefines ==
    ASSUME Serving, NEW p \in Publisher, SwapIndex(p)
    PROVE  ChannelStep
  <1> DEFINE L == Range(job[p].lines)
  <1>1. /\ Range(index') = Range(index) \cup L /\ job[p].lines \in Distinct
        /\ \A l \in L : \A f \in FilesOfLine[l] : Published(f)
    BY SwapIs
  <1>2. UNCHANGED <<live, url, digest>>
    BY DEF SwapIndex
  <1>3. \A l \in L : l \in Lines /\ FilesOfLine[l] \subseteq Lasting
    BY Lasts DEF Serving
  <1>4. \A f \in Lasting : Got(f)' = Got(f)
    BY <1>2 DEF Got, Published, LiveSha
  <1> HIDE DEF L
  <1>5. \A l \in L : \A f \in FilesOfLine[l] : Bytes[f] # None
    BY <1>1, <1>3, GotIs
  <1> QED BY <1>1, <1>3, <1>4, <1>5, BytesSame DEF ChannelStep, Shows

LEMMA RemoveLineRefines ==
    ASSUME Serving, RemoveLine
    PROVE  ChannelStep
  <1>1. PICK l \in Range(index) : l \in Lines /\ Range(index') = Range(index) \ {l}
    BY RemoveLineIs
  <1>2. \A f \in Lasting : Got(f)' = Got(f)
    BY DEF Got, Published, LiveSha, RemoveLine
  <1>3. {l} \in SUBSET Lines /\ {l} \subseteq Range(index)
    BY <1>1
  <1> QED BY <1>1, <1>2, <1>3, BytesSame DEF ChannelStep, Hides

LEMMA TakeAwayRefines ==
    ASSUME Serving, TakeAway
    PROVE  ChannelStep
  <1>1. PICK f \in Stashed(stash.line) :
           /\ live' = [live EXCEPT ![f] = None]
           /\ f \in Paths /\ f.kind # "archive"
           /\ \A l \in Range(index) : f \notin FilesOfLine[l]
    BY TakeAwayIs
  <1>2. UNCHANGED <<url, digest, index>> /\ live \in FileMaps
    BY DEF TakeAway, Serving, TypeOK, ChannelOK
  <1>3. live'[f] = None /\ \A g \in Paths : g # f => live'[g] = live[g]
    BY <1>1, <1>2 DEF FileMaps
  <1>4. \A g \in Lasting : g # f => Got(g)' = Got(g)
    BY <1>2, <1>3 DEF Got, Published, LiveSha, Lasting
  <1>5. CASE f \in Lasting
    <2>1. Got(f)' = None
      BY <1>1, <1>3 DEF Got, Published
    <2>2. Bytes' = [Bytes EXCEPT ![f] = None]
      BY <1>4, <1>5, <2>1, BytesPut
    <2> QED BY <1>1, <1>2, <1>5, <2>2 DEF ChannelStep, Clears
  <1>6. CASE f \notin Lasting
    <2>1. \A g \in Lasting : Got(g)' = Got(g)
      BY <1>4, <1>6
    <2> QED BY <1>2, <2>1, BytesSame DEF ChannelStep, Stutters
  <1> QED BY <1>5, <1>6

LEMMA BringBackRefines ==
    ASSUME Serving, BringBack
    PROVE  ChannelStep
  <1>1. PICK f \in Missing : live' = [live EXCEPT ![f] = stash.files[f]]
    BY DEF BringBack
  <1>2. UNCHANGED <<url, digest, index>> /\ live \in FileMaps /\ stash.files \in FileMaps
    BY DEF BringBack, Serving, TypeOK, ChannelOK, PortalOK
  <1>3. f \in Paths /\ f.kind # "archive" /\ stash.files[f] # None /\ live[f] = None
    BY BringBackServing, StashIs, OnePath DEF Missing, Stashed
  <1>4. live'[f] = stash.files[f] /\ \A g \in Paths : g # f => live'[g] = live[g]
    BY <1>1, <1>2, <1>3 DEF FileMaps
  <1>5. \A g \in Lasting : g # f => Got(g)' = Got(g)
    BY <1>2, <1>4 DEF Got, Published, LiveSha, Lasting
  <1>6. CASE f \in Lasting
    <2>1. Got(f)' = stash.files[f] /\ stash.files[f] \in Contents
      BY <1>2, <1>3, <1>4 DEF Got, Published, LiveSha, FileMaps
    <2>2. Bytes[f] = None
      BY <1>3, <1>6, GotIs
    <2>3. Bytes' = [Bytes EXCEPT ![f] = stash.files[f]]
      BY <1>5, <1>6, <2>1, BytesPut
    <2> QED BY <1>2, <1>6, <2>1, <2>2, <2>3 DEF ChannelStep, Uploads
  <1>7. CASE f \notin Lasting
    <2>1. \A g \in Lasting : Got(g)' = Got(g)
      BY <1>5, <1>7
    <2> QED BY <1>2, <2>1, BytesSame DEF ChannelStep, Stutters
  <1> QED BY <1>6, <1>7

LEMMA RestoredRefines ==
    ASSUME Serving, Restored
    PROVE  ChannelStep
  <1>1. /\ stash.line \in Lines /\ Range(index') = Range(index) \cup {stash.line}
        /\ \A f \in FilesOfLine[stash.line] : Published(f)
    BY RestoredIs
  <1>2. \A f \in Lasting : Got(f)' = Got(f)
    BY DEF Got, Published, LiveSha, Restored
  <1>3. FilesOfLine[stash.line] \subseteq Lasting
    BY <1>1, FilesAre
  <1>4. \A f \in FilesOfLine[stash.line] : Bytes[f] # None
    BY <1>1, <1>3, GotIs
  <1>5. {stash.line} \in SUBSET Lines
    BY <1>1
  <1> QED BY <1>1, <1>2, <1>4, <1>5, BytesSame DEF ChannelStep, Shows

LEMMA ArchiveRefines ==
    ASSUME Serving, NEW a \in Archive, SendAway(a) \/ DropLocal(a)
    PROVE  ChannelStep
  <1>1. /\ UNCHANGED <<digest, index>>
        /\ digest[a] # None /\ url' \in {url, url \cup {a}} /\ a \in url'
        /\ live' = live \/ live' = [live EXCEPT ![Stored(a)] = None]
    BY DEF SendAway, DropLocal, Serving, Copies
  <1>2. live \in FileMaps /\ Stored(a).kind = "archive" /\ Stored(a).of = a /\ Published(Stored(a))
    BY <1>1 DEF Serving, TypeOK, ChannelOK, Copies, Stored, F
  <1>3. \A f \in Paths : f # Stored(a) => live'[f] = live[f]
    BY <1>1, <1>2 DEF FileMaps
  <1>4. ASSUME NEW f \in Lasting
        PROVE  Got(f)' = Got(f)
    <2>1. f \in Paths /\ (f.kind = "archive" => f.of \in Archive /\ f = Stored(f.of))
      BY GotIs
    <2>2. CASE f = Stored(a)
      BY <1>1, <1>2, <2>2 DEF Got, Published, LiveSha
    <2>3. CASE f # Stored(a)
      <3>1. live'[f] = live[f] /\ (f.kind = "archive" => (f.of \in url' <=> f.of \in url))
        BY <1>1, <1>3, <2>1, <2>3
      <3> QED BY <1>1, <3>1 DEF Got, Published, LiveSha
    <2> QED BY <2>2, <2>3
  <1> QED BY <1>1, <1>4, BytesSame DEF ChannelStep, Stutters

LEMMA NextRefines == Serving /\ [Next]_vars => ChannelStep
  <1> SUFFICES ASSUME Serving, [Next]_vars
               PROVE  ChannelStep
    OBVIOUS
  <1>1. ASSUME NEW p \in Publisher,
               Publish(p) \/ Remake(p) \/ Withdraw(p) \/ Start(p) \/ Request(p) \/ Handle(p) \/ Trouble(p)
        PROVE  ChannelStep
    <2>1. CASE \/ Publish(p) \/ Remake(p) \/ Withdraw(p) \/ Start(p) \/ Request(p) \/ Settle(p)
               \/ PutCut(p) \/ Lose(p) \/ HangUp(p) \/ Expire(p)
      <3>1. Quiet
        BY <2>1, Quietly DEF Serving
      <3> QED BY <3>1, Stuttering DEF Quiet
    <2>2. CASE Check(p) \/ WriteList(p) \/ Finish(p) \/ Fail(p)
      <3>1. UNCHANGED <<live, url, digest, index>>
        BY <2>2 DEF Check, WriteList, Finish, Fail, channel
      <3> QED BY <3>1, Stuttering
    <2>3. CASE Place(p) \/ WriteDigest(p) \/ Replace(p) \/ SwapIndex(p)
      BY <2>3, PlaceRefines, DigestRefines, ReplaceRefines, SwapRefines
    <2> QED BY <1>1, <2>1, <2>2, <2>3 DEF Handle, Trouble
  <1>2. ASSUME NEW a \in Archive, SendAway(a) \/ DropLocal(a)
        PROVE  ChannelStep
    BY <1>2, ArchiveRefines
  <1>3. CASE Maintain
    <2>1. CASE Removed \/ RestoreStash
      <3>1. UNCHANGED <<live, url, digest, index>>
        BY <2>1 DEF Removed, RestoreStash, channel
      <3> QED BY <3>1, Stuttering
    <2> QED BY <1>3, <2>1, RemoveLineRefines, TakeAwayRefines, BringBackRefines, RestoredRefines DEF Maintain
  <1>4. CASE Restart \/ ListAtStart \/ UNCHANGED vars
    <2>1. UNCHANGED <<live, url, digest, index>>
      BY <1>4 DEF Restart, ListAtStart, vars, channel
    <2> QED BY <2>1, Stuttering
  <1> QED BY <1>1, <1>2, <1>3, <1>4 DEF Next

(* What the portal serves, while publishers push, a maintainer removes and *)
(* restores and archives are sent away, is a Channel (PushService.cs:363): *)
(* for any number of publishers, lines, files and blocks, and any order    *)
(* of their requests.                                                      *)
THEOREM ServesAChannel == Spec => IsChannel
  <1>1. Init => Chan!Init
    <2> SUFFICES ASSUME Init
                 PROVE  Range(index) = {} /\ Bytes = [f \in Lasting |-> None]
      BY DEF Chan!Init, Bytes, Got
    <2>1. Range(index) = {}
      BY RangeOfNone DEF Init
    <2>2. \A f \in Lasting : Got(f) = None
      BY NothingIs DEF Init, Lasting, Got, Published
    <2> QED BY <2>1, <2>2 DEF Bytes
  <1>2. Serving /\ [Next]_vars => [Chan!Next]_<<Range(index), Bytes>>
    BY NextRefines, ChannelSteps
  <1> QED BY <1>1, <1>2, ServingAlways, PTL DEF Spec, IsChannel, Chan!Spec, Bytes, Got
-----------------------------------------------------------------------------
(* One version, one key: what the commit's clash test and the packages'    *)
(* owners keep true of the index, with the lines a commit is about to show.*)
Apart(B) == {v \in Lines \X Lines : SameVersion(v[1], v[2]) => {v[1], v[2]} \cap B # {}}

LEMMA ApartIs ==
    ASSUME NEW s \in Seq(Lines), NEW B
    PROVE  Pairs(s, Apart(B)) <=> \A i, j \in DOMAIN s :
               i # j /\ SameVersion(s[i], s[j]) => {s[i], s[j]} \cap B # {}
  <1>1. ASSUME NEW i \in DOMAIN s, NEW j \in DOMAIN s
        PROVE  <<s[i], s[j]>> \in Apart(B) <=> (SameVersion(s[i], s[j]) => {s[i], s[j]} \cap B # {})
    <2>1. s[i] \in Lines /\ s[j] \in Lines
      BY RangeOf
    <2> QED BY <2>1 DEF Apart
  <1> QED BY <1>1 DEF Pairs

(* A signature, sent or served, is by its line's key.                      *)
LEMMA SignedBy ==
    ASSUME TypeOK, NEW p \in Publisher, NEW l \in Lines
    PROVE  /\ Found(p, Sig(l)) # None => Found(p, Sig(l)) = KeyOf[l]
           /\ live[Sig(l)] # None => live[Sig(l)] = KeyOf[l]
  <1>1. live[Sig(l)] \in {KeyOf[l], None} /\ staged[p][Sig(l)] \in {KeyOf[l], None}
    BY DEF TypeOK, ChannelOK, StagingOK, FileMaps
  <1>2. Sig(l).kind = "sig"
    BY OnePath
  <1> QED BY <1>1, <1>2 DEF Found, Published, LiveSha

LEMMA ServedSigned ==
    ASSUME Serving, NEW l \in Range(index)
    PROVE  l \in Lines /\ live[Sig(l)] = KeyOf[l] /\ KeyOf[l] # None
  <1>1. l \in Lines
    BY Lasts DEF Serving
  <1>2. Sig(l) \in FilesOfLine[l] /\ Sig(l).kind = "sig"
    BY <1>1, FilesAre, OnePath
  <1>3. live[Sig(l)] # None
    BY <1>2 DEF Serving, Shown, Published
  <1>4. live[Sig(l)] \in {KeyOf[l], None}
    BY <1>1 DEF Serving, TypeOK, ChannelOK, FileMaps
  <1> QED BY <1>1, <1>3, <1>4

(* The owner of a package is the publisher it was moved to, or the key of  *)
(* a line of it in the index, while there is one.                          *)
LEMMA OwnerIs ==
    ASSUME Serving, NEW p \in Publisher, NEW m \in Range(index)
    PROVE  \/ Transfer[m.name] # None /\ Owner(p, m.name) = Transfer[m.name]
           \/ /\ Transfer[m.name] = None
              /\ \E h \in Range(index) : h.name = m.name /\ Owner(p, m.name) = KeyOf[h]
  <1> DEFINE S == {l \in Lines : l.name = m.name /\ live[Sig(l)] # None}
             shown == Keep(index, S)
  <1>1. index \in Seq(Lines)
    BY DEF Serving, TypeOK, ChannelOK
  <1>2. shown \in Seq(Lines) /\ Range(shown) = Range(index) \cap S
    BY <1>1, Keeps
  <1>3. m \in S
    BY ServedSigned
  <1> HIDE DEF shown
  <1>4. shown # <<>>
    BY <1>2, <1>3, RangeEmpty
  <1>5. Head(shown) \in Range(index) \cap S
    BY <1>2, <1>4, RangeOfTail
  <1>6. live[Sig(Head(shown))] = KeyOf[Head(shown)]
    BY <1>5, ServedSigned
  <1>7. CASE Transfer[m.name] # None
    BY <1>7 DEF Owner
  <1>8. CASE Transfer[m.name] = None
    <2>1. Owner(p, m.name) = live[Sig(Head(shown))]
      BY <1>4, <1>8 DEF Owner, shown
    <2> QED BY <1>5, <1>6, <1>8, <2>1
  <1> QED BY <1>7, <1>8

LEMMA SameKeyBoth ==
    ASSUME NEW l, NEW m, l.name = m.name
    PROVE  SameKey(l, m) <=> SameKey(m, l)
  BY DEF SameKey

(* The check accepts lines of new versions by the key of their package.    *)
LEMMA CheckAgreed ==
    ASSUME Serving, Agreed, NEW p \in Publisher, Check(p)
    PROVE  Agreed'
  <1>1. PICK accepted \in Distinct, refused \in BOOLEAN, done \in BOOLEAN, todo \in Seq(Steps) :
           /\ job' = [job EXCEPT ![p] = Job(p, accepted, refused, done, todo)]
           /\ Range(accepted) \subseteq Range(Owned(p))
    BY CheckDoes DEF Serving
  <1>2. Job(p, accepted, refused, done, todo).lines = accepted
    BY JobIs DEF Serving
  <1>3. job \in [Publisher -> Jobs] /\ job[p].lines \in Distinct
    BY DEF Serving, TypeOK, PortalOK, Jobs
  <1>4. job'[p].lines = accepted /\ \A q \in Publisher \ {p} : job'[q] = job[q]
    BY <1>1, <1>2, <1>3
  <1>5. UNCHANGED <<index, back>>
    BY DEF Check, channel
  <1>6. \A q \in Publisher : job[q].at # "place"
    BY OneWorks DEF Serving, Check
  <1>7. ASSUME NEW l \in Range(accepted)
        PROVE  /\ l \in Lines /\ KeyOf[l] = Owner(p, l.name)
               /\ \A x \in Range(index) : ~SameVersion(x, l)
    <2>1. l \in Lines /\ Found(p, Sig(l)) # None /\ Found(p, Sig(l)) = Owner(p, l.name)
          /\ \A x \in Range(index) : ~SameVersion(x, l)
      BY <1>1, <1>3, OwnedIs
    <2> QED BY <2>1, SignedBy DEF Serving
  <1>8. ASSUME NEW l \in Range(accepted), NEW m \in Range(index), l.name = m.name
        PROVE  SameKey(l, m)
    <2>1. KeyOf[l] = Owner(p, m.name)
      BY <1>7, <1>8
    <2>2. CASE Owner(p, m.name) = Transfer[m.name]
      BY <1>8, <2>1, <2>2 DEF SameKey
    <2>3. CASE /\ Transfer[m.name] = None
               /\ \E h \in Range(index) : h.name = m.name /\ Owner(p, m.name) = KeyOf[h]
      <3>1. PICK h \in Range(index) : h.name = m.name /\ Owner(p, m.name) = KeyOf[h]
        BY <2>3
      <3>2. SameKey(h, m) /\ KeyOf[h] # None /\ KeyOf[m] # None
        BY ServedSigned DEF Agreed, Keys
      <3> QED BY <1>8, <2>1, <2>3, <3>1, <3>2 DEF SameKey
    <2> QED BY <2>2, <2>3, OwnerIs
  <1>9. ASSUME NEW l \in Range(accepted), NEW m \in Range(accepted)
        PROVE  SameKey(l, m)
    BY <1>7 DEF SameKey
  <1>10. New(p)'
    <2>1. ASSUME NEW l \in Range(accepted), NEW m \in Range(index) \cup Range(accepted)
          PROVE  SameKey(l, m) /\ SameKey(m, l)
      BY <1>8, <1>9, SameKeyBoth DEF SameKey
    <2>2. ASSUME NEW l \in Range(accepted), NEW m \in Range(index)
          PROVE  ~SameVersion(l, m)
      BY <1>7 DEF SameVersion
    <2>3. \A l, m : SameKey(l, m) => SameKey(l, m)'
      BY <1>5 DEF SameKey
    <2> QED BY <1>4, <1>5, <2>1, <2>2, <2>3 DEF New
  <1>11. OneVersion' /\ Keys'
    BY <1>5 DEF Agreed, OneVersion, Keys, SameKey
  <1>12. \A q \in Publisher : Swapping(q)' => q = p
    BY <1>4, <1>6 DEF Swapping
  <1> QED BY <1>10, <1>11, <1>12 DEF Agreed

(* The index gains the lines of a commit, which agree with all it has.     *)
LEMMA SwapAgreed ==
    ASSUME Serving, Agreed, NEW p \in Publisher, SwapIndex(p)
    PROVE  Agreed'
  <1> DEFINE lines == job[p].lines
  <1>1. /\ index' = index \o lines /\ lines \in Distinct /\ index \in Seq(Lines)
        /\ Range(index') = Range(index) \cup Range(lines)
        /\ Swapping(p) /\ DOMAIN job'[p].todo = {}
    BY SwapIs
  <1>2. New(p) /\ back' = back /\ lines \in Seq(Lines) /\ Range(lines) \subseteq Lines /\ Range(index) \subseteq Lines
    BY <1>1, DistinctKeep, RangeOf DEF Agreed, SwapIndex
  <1>3. Pairs(index, Apart(back))
    BY <1>1, ApartIs DEF Agreed, OneVersion
  <1>4. Pairs(lines, Apart(back))
    BY <1>1, <1>2, ApartIs DEF Distinct
  <1>5. \A x \in Range(index), y \in Range(lines) : <<x, y>> \in Apart(back) /\ <<y, x>> \in Apart(back)
    <2>1. ASSUME NEW x \in Range(index), NEW y \in Range(lines)
          PROVE  ~SameVersion(x, y) /\ ~SameVersion(y, x) /\ x \in Lines /\ y \in Lines
      BY <1>2 DEF New, SameVersion
    <2> QED BY <2>1 DEF Apart
  <1>6. ASSUME NEW x \in Range(index) \cup Range(lines), NEW y \in Range(index) \cup Range(lines)
        PROVE  SameKey(x, y)
    BY <1>2 DEF New, Agreed, Keys
  <1> HIDE DEF lines
  <1>7. Pairs(index \o lines, Apart(back)) /\ index \o lines \in Seq(Lines)
    BY <1>1, <1>2, <1>3, <1>4, <1>5, PairsOfConcat, ConcatProperties
  <1>8. OneVersion'
    <2>1. PICK s : s = index \o lines
      OBVIOUS
    <2>2. s \in Seq(Lines) /\ Pairs(s, Apart(back))
      BY <1>7, <2>1
    <2>3. \A i, j \in DOMAIN s : i # j /\ SameVersion(s[i], s[j]) => {s[i], s[j]} \cap back # {}
      BY <2>2, ApartIs
    <2>4. index' = s /\ back' = back
      BY <1>1, <1>2, <2>1
    <2> QED BY <2>3, <2>4 DEF OneVersion
  <1>9. Keys'
    BY <1>1, <1>2, <1>6 DEF Keys, SameKey
  <1>10. \A q \in Publisher : ~Swapping(q)'
    <2>1. \A q \in Publisher \ {p} : job'[q].at # "place"
      BY NoneMore, ThenGate DEF SwapIndex
    <2> QED BY <1>1, <2>1 DEF Swapping
  <1> QED BY <1>8, <1>9, <1>10 DEF Agreed

LEMMA RemoveLineAgreed ==
    ASSUME Serving, Agreed, RemoveLine
    PROVE  Agreed'
  <1>1. PICK l \in Range(index) :
           /\ index' = Keep(index, Lines \ {l}) /\ index \in Seq(Lines)
           /\ Range(index') = Range(index) \ {l}
    BY RemoveLineIs
  <1>2. back' = back /\ job' = job /\ gate = None
    BY DEF RemoveLine
  <1>3. Pairs(index, Apart(back))
    BY <1>1, ApartIs DEF Agreed, OneVersion
  <1>4. Pairs(Keep(index, Lines \ {l}), Apart(back)) /\ Keep(index, Lines \ {l}) \in Seq(Lines)
    BY <1>1, <1>3, Keeps, KeepsPairs
  <1>5. OneVersion'
    BY <1>1, <1>2, <1>4, ApartIs DEF OneVersion
  <1>6. Keys'
    BY <1>1, <1>2 DEF Agreed, Keys, SameKey
  <1>7. \A q \in Publisher : ~Swapping(q)'
    BY <1>2, OneWorks DEF Serving, Swapping
  <1> QED BY <1>5, <1>6, <1>7 DEF Agreed

(* A line put back may be the second of its version, or by another key.    *)
LEMMA RestoredAgreed ==
    ASSUME Serving, Agreed, Restored
    PROVE  Agreed'
  <1>1. PICK b : b = stash.line
    OBVIOUS
  <1>2. /\ b \in Lines /\ index \in Seq(Lines)
        /\ index' = IF b \in Range(index) THEN index ELSE Append(index, b)
        /\ Range(index') = Range(index) \cup {b} /\ gate = Maintainer
    BY <1>1, RestoredIs
  <1>3. back' = back \cup {b} /\ job' = job
    BY <1>1 DEF Restored
  <1>4. Pairs(index, Apart(back)) /\ Range(index) \subseteq Lines
    BY <1>2, ApartIs, RangeOf DEF Agreed, OneVersion
  <1>5. Pairs(index, Apart(back'))
    <2>1. Apart(back) \subseteq Apart(back')
      BY <1>3 DEF Apart
    <2> QED BY <1>4, <2>1 DEF Pairs
  <1>6. Pairs(index \o <<b>>, Apart(back')) /\ index \o <<b>> \in Seq(Lines)
    <2>1. <<b>> \in Seq(Lines) /\ Range(<<b>>) = {b} /\ DOMAIN <<b>> = {1}
      BY <1>2, RangeOfOne
    <2>2. Pairs(<<b>>, Apart(back'))
      BY <2>1 DEF Pairs
    <2>3. \A x \in Range(index), y \in {b} : <<x, y>> \in Apart(back') /\ <<y, x>> \in Apart(back')
      BY <1>2, <1>3, <1>4 DEF Apart
    <2> QED BY <1>2, <1>5, <2>1, <2>2, <2>3, PairsOfConcat, ConcatProperties
  <1>7. index' \in {index, index \o <<b>>}
    BY <1>2, AppendIsConcat
  <1>8. OneVersion'
    <2>1. Pairs(index', Apart(back')) /\ index' \in Seq(Lines)
      BY <1>2, <1>5, <1>6, <1>7
    <2>2. PICK s, B : s = index' /\ B = back'
      OBVIOUS
    <2>3. s \in Seq(Lines) /\ Pairs(s, Apart(B))
      BY <2>1, <2>2
    <2>4. \A i, j \in DOMAIN s : i # j /\ SameVersion(s[i], s[j]) => {s[i], s[j]} \cap B # {}
      BY <2>3, ApartIs
    <2> QED BY <2>2, <2>4 DEF OneVersion
  <1>9. Keys'
    <2>1. ASSUME NEW x \in Range(index) \cup {b}, NEW y \in Range(index) \cup {b}
          PROVE  SameKey(x, y)'
      <3>1. CASE x = b \/ y = b
        BY <1>3, <3>1 DEF SameKey
      <3>2. CASE x # b /\ y # b
        BY <1>3, <3>2 DEF Agreed, Keys, SameKey
      <3> QED BY <3>1, <3>2
    <2> QED BY <1>2, <2>1 DEF Keys
  <1>10. \A q \in Publisher : ~Swapping(q)'
    BY <1>2, <1>3, OneWorks, Constants DEF Serving, Swapping
  <1> QED BY <1>8, <1>9, <1>10 DEF Agreed

LEMMA SameAgreed ==
    ASSUME Agreed, UNCHANGED <<index, back>>,
           \A q \in Publisher : Swapping(q)' => Swapping(q) /\ job'[q].lines = job[q].lines
    PROVE  Agreed'
  <1>1. OneVersion' /\ Keys'
    BY DEF Agreed, OneVersion, Keys, SameKey
  <1>2. \A l, m : SameKey(l, m) => SameKey(l, m)'
    BY DEF SameKey
  <1>3. \A q \in Publisher : Swapping(q)' => New(q)'
    BY <1>2 DEF Agreed, New
  <1> QED BY <1>1, <1>3 DEF Agreed
(* Work under the gate, or elsewhere, that leaves the index as it is.      *)
LEMMA ThenSwapping ==
    ASSUME Serving, NEW p \in Publisher, NEW do, Doing(p, do), NEW more \in Seq(Steps), Then(p, more),
           \A i \in DOMAIN more : more[i].do # "index"
    PROVE  \A q \in Publisher : Swapping(q)' => Swapping(q) /\ job'[q].lines = job[q].lines
  <1> DEFINE t == job[p].todo
             u == job'[p].todo
  <1>1. /\ job[p].at = "place" /\ job'[p].lines = job[p].lines
        /\ \A q \in Publisher \ {p} : job'[q] = job[q]
    BY ThenIs DEF Serving
  <1>2. /\ DOMAIN t = 1 .. Len(t) /\ DOMAIN u = 1 .. Len(u) /\ DOMAIN more = 1 .. Len(more)
        /\ \A i \in 1 .. Len(u) : i <= Len(more) => i \in 1 .. Len(more) /\ u[i] = more[i]
        /\ \A i \in 1 .. Len(u) : ~(i <= Len(more)) =>
              i - Len(more) + 1 \in 1 .. Len(t) /\ u[i] = t[i - Len(more) + 1]
    BY ThenRest, LenProperties DEF Serving
  <1>3. ASSUME Swapping(p)'
        PROVE  Swapping(p)
    <2>1. PICK i \in DOMAIN u : u[i].do = "index"
      BY <1>3 DEF Swapping
    <2> HIDE DEF t, u
    <2>2. \E k \in DOMAIN t : t[k].do = "index"
      BY <1>2, <2>1
    <2> QED BY <1>1, <2>2 DEF Swapping, t
  <1>4. \A q \in Publisher \ {p} : Swapping(q)' => Swapping(q)
    BY <1>1 DEF Swapping
  <1> QED BY <1>1, <1>3, <1>4

LEMMA WorkAgreed ==
    ASSUME Serving, Agreed, NEW p \in Publisher,
           Place(p) \/ WriteDigest(p) \/ WriteList(p) \/ Replace(p)
    PROVE  Agreed'
  <1>1. UNCHANGED <<index, back>>
    BY DEF Place, WriteDigest, WriteList, Replace
  <1>2. CASE Place(p)
    <2>1. PICK m : m = More(Head(job[p].todo).file)
      OBVIOUS
    <2>2. Doing(p, "place") /\ Then(p, m) /\ m \in Seq(Steps)
      BY <1>2, <2>1, PlaceIs DEF Serving
    <2>3. \A i \in DOMAIN m : m[i].do # "index"
      BY <2>1 DEF More, Step
    <2> QED BY <1>1, <2>2, <2>3, ThenSwapping, SameAgreed
  <1>3. CASE WriteDigest(p) \/ WriteList(p) \/ Replace(p)
    <2>1. Then(p, <<>>) /\ \E do : Doing(p, do)
      BY <1>3 DEF WriteDigest, WriteList, Replace
    <2>2. \A i \in DOMAIN <<>> : <<>>[i].do # "index"
      OBVIOUS
    <2> QED BY <1>1, <2>1, <2>2, NoneMore, ThenSwapping, SameAgreed
  <1> QED BY <1>2, <1>3

LEMMA OtherAgreed ==
    ASSUME Serving, Agreed, UNCHANGED <<index, back>>,
           Quiet \/ job' = job \/ \E p \in Publisher : job' = [job EXCEPT ![p] = Idle]
    PROVE  Agreed'
  <1>1. CASE Quiet
    <2>1. \A q \in Publisher : Swapping(q)' => Swapping(q) /\ job'[q].lines = job[q].lines
      BY <1>1 DEF Quiet, Swapping
    <2> QED BY <2>1, SameAgreed
  <1>2. CASE job' = job
    <2>1. \A q \in Publisher : Swapping(q)' => Swapping(q) /\ job'[q].lines = job[q].lines
      BY <1>2 DEF Swapping
    <2> QED BY <2>1, SameAgreed
  <1>3. CASE \E p \in Publisher : job' = [job EXCEPT ![p] = Idle]
    <2>1. PICK p \in Publisher : job' = [job EXCEPT ![p] = Idle]
      BY <1>3
    <2>2. job \in [Publisher -> Jobs]
      BY DEF Serving, TypeOK, PortalOK
    <2>3. job'[p].at = "idle" /\ \A q \in Publisher \ {p} : job'[q] = job[q]
      BY <2>1, <2>2, IdleAt
    <2>4. \A q \in Publisher : Swapping(q)' => Swapping(q) /\ job'[q].lines = job[q].lines
      BY <2>3 DEF Swapping
    <2> QED BY <2>4, SameAgreed
  <1> QED BY <1>1, <1>2, <1>3

LEMMA RestartAgreed ==
    ASSUME Agreed, Restart
    PROVE  Agreed'
  <1>1. job' = [q \in Publisher |-> Idle] /\ UNCHANGED <<index, back>>
    BY DEF Restart, channel
  <1>2. \A q \in Publisher : ~Swapping(q)'
    BY <1>1, IdleAt DEF Swapping
  <1> QED BY <1>1, <1>2, SameAgreed

LEMMA InitAgreed == Init => Agreed
  <1> SUFFICES ASSUME Init
               PROVE  Agreed
    OBVIOUS
  <1>1. Range(index) = {} /\ DOMAIN index = {}
    BY RangeOfNone DEF Init
  <1>2. \A p \in Publisher : ~Swapping(p)
    BY IdleAt DEF Init, Swapping
  <1> QED BY <1>1, <1>2 DEF Agreed, OneVersion, Keys

LEMMA NextAgreed == Serving /\ Agreed /\ [Next]_vars => Agreed'
  <1> SUFFICES ASSUME Serving, Agreed, [Next]_vars
               PROVE  Agreed'
    OBVIOUS
  <1>1. ASSUME NEW p \in Publisher,
               Publish(p) \/ Remake(p) \/ Withdraw(p) \/ Start(p) \/ Request(p) \/ Handle(p) \/ Trouble(p)
        PROVE  Agreed'
    <2>1. CASE \/ Publish(p) \/ Remake(p) \/ Withdraw(p) \/ Start(p) \/ Request(p) \/ Settle(p)
               \/ PutCut(p) \/ Lose(p) \/ HangUp(p) \/ Expire(p)
      <3>1. Quiet /\ UNCHANGED <<index, back>>
        BY <2>1, Quietly DEF Serving, Quiet
      <3> QED BY <3>1, OtherAgreed
    <2>2. CASE Check(p) \/ SwapIndex(p) \/ Place(p) \/ WriteDigest(p) \/ WriteList(p) \/ Replace(p)
      BY <2>2, CheckAgreed, SwapAgreed, WorkAgreed
    <2>3. CASE Finish(p) \/ Fail(p)
      <3>1. job' = [job EXCEPT ![p] = Idle] /\ UNCHANGED <<index, back>>
        BY <2>3 DEF Finish, Fail, channel
      <3> QED BY <3>1, OtherAgreed
    <2> QED BY <1>1, <2>1, <2>2, <2>3 DEF Handle, Trouble
  <1>2. CASE RemoveLine \/ Restored \/ Restart
    BY <1>2, RemoveLineAgreed, RestoredAgreed, RestartAgreed
  <1>3. CASE TakeAway \/ Removed \/ RestoreStash \/ BringBack \/ ListAtStart \/ UNCHANGED vars
    <2>1. job' = job /\ UNCHANGED <<index, back>>
      BY <1>3 DEF TakeAway, Removed, RestoreStash, BringBack, ListAtStart, vars, channel, portal
    <2> QED BY <2>1, OtherAgreed
  <1>4. ASSUME NEW a \in Archive, SendAway(a) \/ DropLocal(a)
        PROVE  Agreed'
    <2>1. job' = job /\ UNCHANGED <<index, back>>
      BY <1>4 DEF SendAway, DropLocal, portal
    <2> QED BY <2>1, OtherAgreed
  <1> QED BY <1>1, <1>2, <1>3, <1>4 DEF Next, Maintain

LEMMA AgreedAlways == Spec => [](Serving /\ Agreed)
  <1>1. Init => Serving /\ Agreed
    BY InitServing, InitAgreed
  <1>2. Serving /\ Agreed /\ [Next]_vars => (Serving /\ Agreed)'
    BY NextServing, NextAgreed
  <1> QED BY <1>1, <1>2, PTL DEF Spec

(* A version is published once (the commit's clash test, PushService.cs),  *)
(* but for a line a maintainer put back, for any number of publishers      *)
(* whose commits follow each other in any order.                           *)
THEOREM OneVersionAlways == Spec => []OneVersion
  <1>1. Agreed => OneVersion
    BY DEF Agreed
  <1> QED BY <1>1, AgreedAlways, PTL

(* The lines of a package are by one key, or by the one a maintainer moved *)
(* it to, where no version of it was put back: each commit finds the owner *)
(* in the index its own gate protects, and no line's signature is another's. *)
THEOREM KeyKeptAlways == Spec => []KeyKept
  <1>1. Serving /\ Agreed => KeyKept
    <2> SUFFICES ASSUME Serving, Agreed, NEW l \in Range(index), NEW m \in Range(index), l.name = m.name
                 PROVE  \/ live[Sig(l)] = live[Sig(m)]
                        \/ Transfer[l.name] \in {live[Sig(l)], live[Sig(m)]}
                        \/ \E b \in back : b.name = l.name
      BY DEF KeyKept
    <2>1. live[Sig(l)] = KeyOf[l] /\ live[Sig(m)] = KeyOf[m]
      BY ServedSigned
    <2>2. SameKey(l, m)
      BY DEF Agreed, Keys
    <2> QED BY <2>1, <2>2 DEF SameKey
  <1> QED BY <1>1, AgreedAlways, PTL
-----------------------------------------------------------------------------
(* What is staged is what its plan says, at every step. *)
LEMMA PlanPlanned ==
    ASSUME TypeOK, StagedAsPlanned, NEW p \in Publisher, Plan(p) \/ Finish(p) \/ Expire(p)
    PROVE  StagedAsPlanned'
  <1>1. plan \in [Publisher -> FileMaps] /\ staged \in [Publisher -> FileMaps]
    BY DEF TypeOK, StagingOK
  <1>2. CASE Plan(p)
    <2> DEFINE body == client[p].body
               wanted == {f \in Paths :
                            /\ body[f] # None /\ ~Refuses(p, f)
                            /\ Published(f) => LiveSha(f) # body[f] /\ ~Immutable(f)}
               need == {f \in wanted : staged[p][f] = None \/ plan[p][f] # body[f]}
               k == [f \in Paths |-> IF f \in wanted THEN body[f] ELSE plan[p][f]]
               s == [f \in Paths |-> IF f \in need THEN None ELSE staged[p][f]]
    <2>1. plan' = [plan EXCEPT ![p] = k] /\ staged' = [staged EXCEPT ![p] = s]
      BY <1>2 DEF Plan
    <2>2. \A f \in need : f \in wanted /\ (staged[p][f] = None \/ plan[p][f] # body[f])
      OBVIOUS
    <2>4. \A f \in wanted : f \notin need => staged[p][f] # None /\ plan[p][f] = body[f]
      OBVIOUS
    <2> HIDE DEF wanted, need
    <2>5. \A f \in Paths : s[f] # None => s[f] = k[f]
      BY <2>4 DEF StagedAsPlanned
    <2> HIDE DEF k, s
    <2>6. /\ plan'[p] = k /\ staged'[p] = s
          /\ \A q \in Publisher \ {p} : plan'[q] = plan[q] /\ staged'[q] = staged[q]
      BY <1>1, <2>1
    <2> QED BY <2>5, <2>6 DEF StagedAsPlanned
  <1>3. CASE Finish(p)
    <2> DEFINE k == [f \in Paths |->
                 IF Published(f) /\ staged[p][f] = None /\ part[p][f] = <<>> THEN None ELSE plan[p][f]]
    <2>1. plan' = [plan EXCEPT ![p] = k] /\ staged' = staged
      BY <1>3 DEF Finish
    <2>2. \A f \in Paths : staged[p][f] # None => k[f] = plan[p][f]
      OBVIOUS
    <2> HIDE DEF k
    <2>3. plan'[p] = k /\ \A q \in Publisher \ {p} : plan'[q] = plan[q]
      BY <1>1, <2>1
    <2> QED BY <2>1, <2>2, <2>3 DEF StagedAsPlanned
  <1>4. CASE Expire(p)
    <2>1. plan' = [plan EXCEPT ![p] = Nothing] /\ staged' = [staged EXCEPT ![p] = Nothing]
      BY <1>4 DEF Expire
    <2>2. /\ \A f \in Paths : staged'[p][f] = None
          /\ \A q \in Publisher \ {p} : plan'[q] = plan[q] /\ staged'[q] = staged[q]
      BY <1>1, <2>1, NothingIs
    <2> QED BY <2>2 DEF StagedAsPlanned
  <1> QED BY <1>2, <1>3, <1>4

(* A received file settles as planned; a placed one is staged no more.     *)
LEMMA MovePlanned ==
    ASSUME TypeOK, StagedAsPlanned, NEW p \in Publisher, Settle(p) \/ Place(p) \/ Replace(p)
    PROVE  StagedAsPlanned'
  <1>1. plan \in [Publisher -> FileMaps] /\ staged \in [Publisher -> FileMaps] /\ plan' = plan
    BY DEF TypeOK, StagingOK, Settle, Place, Replace
  <1>2. PICK f : f = Head(job[p].todo).file
    OBVIOUS
  <1>3. \/ staged' = staged \/ staged' = [staged EXCEPT ![p][f] = plan[p][f]]
        \/ staged' = [staged EXCEPT ![p][f] = None] \/ staged' = [staged EXCEPT ![p][ReadMe] = None]
    BY <1>2 DEF Settle, Place, Replace
  <1>4. \A q \in Publisher, g \in Paths : staged'[q][g] \in {staged[q][g], plan[q][g], None}
    BY <1>1, <1>3 DEF FileMaps
  <1> QED BY <1>1, <1>4 DEF StagedAsPlanned

LEMMA NextPlanned == TypeOK /\ StagedAsPlanned /\ [Next]_vars => StagedAsPlanned'
  <1> SUFFICES ASSUME TypeOK, StagedAsPlanned, [Next]_vars
               PROVE  StagedAsPlanned'
    OBVIOUS
  <1>1. ASSUME UNCHANGED <<plan, staged>>
        PROVE  StagedAsPlanned'
    BY <1>1 DEF StagedAsPlanned
  <1>2. ASSUME NEW p \in Publisher,
               Publish(p) \/ Remake(p) \/ Withdraw(p) \/ Start(p) \/ Request(p) \/ Handle(p) \/ Trouble(p)
        PROVE  StagedAsPlanned'
    <2>1. CASE Plan(p) \/ Finish(p) \/ Expire(p) \/ Settle(p) \/ Place(p) \/ Replace(p)
      BY <2>1, PlanPlanned, MovePlanned
    <2>2. CASE \/ Publish(p) \/ Remake(p) \/ Withdraw(p) \/ Start(p)
               \/ PutAnswered(p) \/ PutBody(p) \/ SendIndex(p)
      <3>1. UNCHANGED <<plan, staged>>
        BY <2>2 DEF Publish, Remake, Withdraw, Start, PutAnswered, PutBody, SendIndex, staging
      <3> QED BY <1>1, <3>1
    <2>3. CASE \/ Check(p) \/ WriteDigest(p) \/ WriteList(p) \/ SwapIndex(p)
               \/ PutCut(p) \/ Lose(p) \/ HangUp(p) \/ Fail(p)
      <3>1. UNCHANGED <<plan, staged>>
        BY <2>3 DEF Check, WriteDigest, WriteList, SwapIndex, PutCut, Lose, HangUp, Fail, staging
      <3> QED BY <1>1, <3>1
    <2> QED BY <1>2, <2>1, <2>2, <2>3 DEF Request, Handle, Trouble
  <1>3. ASSUME NEW a \in Archive, SendAway(a) \/ DropLocal(a)
        PROVE  StagedAsPlanned'
    BY <1>1, <1>3 DEF SendAway, DropLocal, staging
  <1>4. CASE Maintain
    BY <1>1, <1>4 DEF Maintain, RemoveLine, TakeAway, Removed, RestoreStash, BringBack, Restored, staging
  <1>5. CASE Restart \/ ListAtStart \/ UNCHANGED vars
    BY <1>1, <1>5 DEF Restart, ListAtStart, vars, staging
  <1> QED BY <1>2, <1>3, <1>4, <1>5 DEF Next

(* Whatever parts of whatever builds of a file are sent, cut and sent on   *)
(* over however many pushes, what is staged under its name has the bytes   *)
(* the plan promised (PushService.cs, the hash of the last part).          *)
THEOREM StagedAsPlannedAlways == Spec => []StagedAsPlanned
  <1>1. Init => StagedAsPlanned
    BY NothingIs DEF Init, StagedAsPlanned
  <1>2. Serving /\ StagedAsPlanned /\ [Next]_vars => StagedAsPlanned'
    BY NextPlanned DEF Serving
  <1> QED BY <1>1, <1>2, ServingAlways, PTL DEF Spec
-----------------------------------------------------------------------------
(* The list of withdrawals, while no request was cut. *)
Listing(p) ==
    /\ listed = Withdrawn \/ \E i \in DOMAIN job[p].todo : job[p].todo[i].do = "list"
    /\ \A i \in DOMAIN job[p].todo : job[p].todo[i].do = "place" =>
          \E k \in DOMAIN job[p].todo : i < k /\ job[p].todo[k].do = "list"

LEMMA ListedIs ==
    Listed <=> (used.cuts = 0 =>
        /\ lister = None
        /\ gate = None => listed = Withdrawn
        /\ \A p \in Publisher : job[p].at = "place" => Listing(p))
  BY DEF Listed, Listing

LEMMA WithdrawnSame ==
    ASSUME \A l \in Lines : live'[Withdrawal(l)] = live[Withdrawal(l)]
    PROVE  Withdrawn' = Withdrawn
  BY DEF Withdrawn

(* No count of cuts goes back, and a cut counts. *)
LEMMA CutsCount ==
    ASSUME TypeOK, NEW what \in DOMAIN Bounds, Use(what)
    PROVE  used'.cuts = 0 => used.cuts = 0 /\ what # "cuts"
  <1>1. used \in [DOMAIN Bounds -> Nat] /\ "cuts" \in DOMAIN Bounds
    BY BoundsAre DEF TypeOK
  <1>2. used.cuts \in Nat /\ used'[what] = used[what] + 1 /\ used[what] \in Nat
        /\ \A b \in DOMAIN Bounds \ {what} : used'[b] = used[b]
    BY <1>1, Uses
  <1> QED BY <1>1, <1>2

LEMMA CutsGrow ==
    ASSUME TypeOK, [Next]_vars, used'.cuts = 0
    PROVE  /\ used.cuts = 0
           /\ \A p \in Publisher : ~PutCut(p) /\ ~Lose(p) /\ ~HangUp(p) /\ ~Fail(p)
           /\ ~Restart
  <1>1. ASSUME Use("cuts")
        PROVE  FALSE
    BY <1>1, CutsCount, BoundsAre
  <1>2. ASSUME NEW what \in {"expiries", "removals", "restorals", "withdrawals", "remakes", "moves"}, Use(what)
        PROVE  used.cuts = 0
    BY <1>2, CutsCount, BoundsAre
  <1>3. ASSUME used' = used
        PROVE  used.cuts = 0
    BY <1>3
  <1>4. \A p \in Publisher : ~PutCut(p) /\ ~Lose(p) /\ ~HangUp(p) /\ ~Fail(p)
    BY <1>1 DEF PutCut, Lose, HangUp, Fail
  <1>5. ~Restart
    BY <1>1 DEF Restart
  <1>6. ASSUME NEW p \in Publisher,
               Publish(p) \/ Remake(p) \/ Withdraw(p) \/ Start(p) \/ Request(p) \/ Handle(p) \/ Expire(p)
        PROVE  used.cuts = 0
    <2>1. CASE Remake(p) \/ Withdraw(p) \/ Expire(p)
      BY <1>2, <2>1 DEF Remake, Withdraw, Expire
    <2>2. CASE Publish(p) \/ Start(p) \/ Request(p)
      BY <1>3, <2>2 DEF Publish, Start, Request, Plan, PutAnswered, PutBody, SendIndex
    <2>3. CASE Handle(p)
      BY <1>3, <2>3 DEF Handle, Settle, Check, Place, WriteDigest, WriteList, Replace, SwapIndex, Finish
    <2> QED BY <1>6, <2>1, <2>2, <2>3
  <1>7. ASSUME NEW a \in Archive, SendAway(a) \/ DropLocal(a)
        PROVE  used.cuts = 0
    BY <1>2, <1>3, <1>7 DEF SendAway, DropLocal
  <1>8. ASSUME Maintain
        PROVE  used.cuts = 0
    BY <1>2, <1>3, <1>8 DEF Maintain, RemoveLine, TakeAway, Removed, RestoreStash, BringBack, Restored
  <1>9. ASSUME ListAtStart \/ UNCHANGED vars
        PROVE  used.cuts = 0
    BY <1>3, <1>9 DEF ListAtStart, vars
  <1>10. used.cuts = 0
    BY <1>4, <1>5, <1>6, <1>7, <1>8, <1>9 DEF Next, Trouble
  <1> QED BY <1>4, <1>5, <1>10

(* A file is placed, and the list still comes after it.                    *)
LEMMA ThenListing ==
    ASSUME Serving, NEW p \in Publisher, NEW do, Doing(p, do), NEW more \in Seq(Steps), Then(p, more),
           \A i \in DOMAIN more : more[i].do \notin {"place", "list"},
           Listing(p), do # "list", listed' = listed, do = "place" \/ Withdrawn' = Withdrawn
    PROVE  Listing(p)'
  <1> DEFINE t == job[p].todo
             u == job'[p].todo
  <1>1. /\ DOMAIN t = 1 .. Len(t) /\ DOMAIN u = 1 .. Len(u) /\ Len(t) \in Nat /\ Len(more) \in Nat
        /\ DOMAIN more = 1 .. Len(more) /\ Len(t) >= 1 /\ t[1] = Head(t)
        /\ \A i \in 1 .. Len(u) : i <= Len(more) => i \in 1 .. Len(more) /\ u[i] = more[i]
        /\ \A i \in 1 .. Len(u) : ~(i <= Len(more)) =>
              i - Len(more) + 1 \in 2 .. Len(t) /\ i - Len(more) + 1 \in 1 .. Len(t)
              /\ u[i] = t[i - Len(more) + 1]
        /\ \A k \in 2 .. Len(t) : Len(more) + k - 1 \in 1 .. Len(u) /\ u[Len(more) + k - 1] = t[k]
    BY ThenRest, LenProperties DEF Serving
  <1>2. t[1].do = do
    BY <1>1 DEF Doing
  <1>3. /\ listed = Withdrawn \/ \E i \in DOMAIN t : t[i].do = "list"
        /\ \A i \in DOMAIN t : t[i].do = "place" => \E k \in DOMAIN t : i < k /\ t[k].do = "list"
    BY DEF Listing
  <1> HIDE DEF t, u
  <1>4. ASSUME NEW i \in DOMAIN t, i # 1, t[i].do = "list"
        PROVE  Len(more) + i - 1 \in DOMAIN u /\ u[Len(more) + i - 1].do = "list"
    <2>1. i \in 2 .. Len(t)
      BY <1>1, <1>4
    <2> QED BY <1>1, <1>4, <2>1
  <1>5. (\E i \in DOMAIN t : t[i].do = "list") => \E i \in DOMAIN u : u[i].do = "list"
    BY <1>2, <1>4
  <1>6. listed' = Withdrawn' \/ \E i \in DOMAIN u : u[i].do = "list"
    <2>1. CASE do = "place"
      <3>1. 1 \in DOMAIN t
        BY <1>1
      <3> QED BY <1>2, <1>3, <1>5, <2>1, <3>1
    <2>2. CASE Withdrawn' = Withdrawn
      BY <1>3, <1>5, <2>2
    <2> QED BY <2>1, <2>2
  <1>7. ASSUME NEW i \in DOMAIN u, u[i].do = "place"
        PROVE  \E k \in DOMAIN u : i < k /\ u[k].do = "list"
    <2>1. ~(i <= Len(more))
      BY <1>1, <1>7
    <2>2. PICK j \in DOMAIN t : j = i - Len(more) + 1 /\ u[i] = t[j] /\ j >= 2
      BY <1>1, <2>1
    <2>3. PICK k \in DOMAIN t : j < k /\ t[k].do = "list"
      BY <1>3, <1>7, <2>2
    <2>4. k # 1 /\ i < Len(more) + k - 1
      BY <1>1, <2>2, <2>3
    <2> QED BY <1>4, <2>3, <2>4
  <1> QED BY <1>6, <1>7 DEF Listing, u

LEMMA ListListing ==
    ASSUME Serving, NEW p \in Publisher, WriteList(p), Listing(p)
    PROVE  Listing(p)'
  <1> DEFINE t == job[p].todo
             u == job'[p].todo
  <1>1. Doing(p, "list") /\ Then(p, <<>>) /\ listed' = Withdrawn /\ live' = live
    BY DEF WriteList
  <1>2. /\ DOMAIN t = 1 .. Len(t) /\ DOMAIN u = 1 .. Len(u)
        /\ \A i \in DOMAIN u : i + 1 \in DOMAIN t /\ u[i] = t[i + 1]
        /\ \A k \in DOMAIN t : k # 1 => k - 1 \in DOMAIN u /\ u[k - 1] = t[k]
    BY <1>1, ThenTail DEF Serving
  <1>3. \A i \in DOMAIN t : t[i].do = "place" => \E k \in DOMAIN t : i < k /\ t[k].do = "list"
    BY DEF Listing
  <1>4. listed' = Withdrawn'
    BY <1>1 DEF Withdrawn
  <1> HIDE DEF t, u
  <1>5. ASSUME NEW i \in DOMAIN u, u[i].do = "place"
        PROVE  \E k \in DOMAIN u : i < k /\ u[k].do = "list"
    <2>1. i + 1 \in DOMAIN t /\ t[i + 1].do = "place"
      BY <1>2, <1>5
    <2>2. PICK k \in DOMAIN t : i + 1 < k /\ t[k].do = "list"
      BY <1>3, <2>1
    <2>3. k # 1 /\ i < k - 1
      BY <1>2, <2>2
    <2> QED BY <1>2, <2>2, <2>3
  <1> QED BY <1>4, <1>5 DEF Listing, u

LEMMA ListingSame ==
    ASSUME NEW p \in Publisher, Listing(p), job'[p].todo = job[p].todo, listed' = listed, Withdrawn' = Withdrawn
    PROVE  Listing(p)'
  BY DEF Listing

(* One who works under the gate keeps the list due. *)
LEMMA WorkListed ==
    ASSUME Serving, Listed, used.cuts = 0, NEW p \in Publisher,
           Place(p) \/ WriteDigest(p) \/ WriteList(p) \/ Replace(p) \/ SwapIndex(p)
    PROVE  Listed'
  <1>1. UNCHANGED <<gate, lister, used, admin>>
    BY DEF Place, WriteDigest, WriteList, Replace, SwapIndex
  <1>2. \E do : \E more \in Seq(Steps) : Doing(p, do) /\ Then(p, more)
    <2>1. CASE Place(p)
      BY <2>1, PlaceIs DEF Serving
    <2>2. CASE WriteDigest(p) \/ WriteList(p) \/ Replace(p) \/ SwapIndex(p)
      BY <2>2, NoneMore DEF WriteDigest, WriteList, Replace, SwapIndex
    <2> QED BY <2>1, <2>2
  <1>3. job[p].at = "place" /\ gate = p /\ \A q \in Publisher \ {p} : job'[q].at # "place"
    BY <1>1, <1>2, ThenIs, ThenGate, OneWorks DEF Serving
  <1>4. Listing(p)
    BY <1>3, ListedIs
  <1>5. Listing(p)'
    <2>1. CASE Place(p)
      <3>1. PICK m : m = More(Head(job[p].todo).file)
        OBVIOUS
      <3>2. Doing(p, "place") /\ Then(p, m) /\ m \in Seq(Steps) /\ listed' = listed
        BY <2>1, <3>1, PlaceIs DEF Serving
      <3>3. \A i \in DOMAIN m : m[i].do \notin {"place", "list"}
        BY <3>1 DEF More, Step
      <3> QED BY <1>4, <3>2, <3>3, ThenListing
    <2>2. CASE WriteList(p)
      BY <1>4, <2>2, ListListing
    <2>3. CASE WriteDigest(p) \/ Replace(p) \/ SwapIndex(p)
      <3>1. /\ Then(p, <<>>) /\ listed' = listed
            /\ \E do \in {"digest", "mutable", "index"} : Doing(p, do)
        BY <2>3 DEF WriteDigest, Replace, SwapIndex
      <3>2. \A l \in Lines : live'[Withdrawal(l)] = live[Withdrawal(l)]
        <4>1. CASE WriteDigest(p) \/ SwapIndex(p)
          BY <4>1 DEF WriteDigest, SwapIndex
        <4>2. CASE Replace(p)
          <5>1. live' = [live EXCEPT ![ReadMe] = staged[p][ReadMe]] /\ live \in FileMaps
            BY <4>2 DEF Replace, Serving, TypeOK, ChannelOK
          <5>2. \A l \in Lines : Withdrawal(l) # ReadMe /\ Withdrawal(l) \in Paths
            BY PathsAre, OnePath DEF ReadMe, F
          <5> QED BY <5>1, <5>2 DEF FileMaps
        <4> QED BY <2>3, <4>1, <4>2
      <3>3. Withdrawn' = Withdrawn
        BY <3>2, WithdrawnSame
      <3>4. \A i \in DOMAIN <<>> : <<>>[i].do \notin {"place", "list"}
        OBVIOUS
      <3> QED BY <1>4, <3>1, <3>3, <3>4, NoneMore, ThenListing
    <2> QED BY <2>1, <2>2, <2>3
  <1>6. gate' # None
    BY <1>1, <1>3, Constants
  <1>7. lister' = None
    BY <1>1, ListedIs
  <1>8. \A q \in Publisher : job'[q].at = "place" => Listing(q)'
    BY <1>3, <1>5
  <1> QED BY <1>6, <1>7, <1>8 DEF Listed, Listing

LEMMA CheckListed ==
    ASSUME Serving, Listed, used.cuts = 0, NEW p \in Publisher, Check(p)
    PROVE  Listed'
  <1>1. PICK accepted \in Distinct, refused \in BOOLEAN, done \in BOOLEAN, todo \in Seq(Steps) :
           /\ job' = [job EXCEPT ![p] = Job(p, accepted, refused, done, todo)]
           /\ Range(accepted) \subseteq Range(Owned(p))
           /\ \A l \in Range(accepted) : \A f \in FilesOfLine[l] : staged[p][f] # None =>
                 \E i \in DOMAIN todo : todo[i] = Step("place", f)
           /\ \E k \in DOMAIN todo :
                 /\ todo[k].do = "list"
                 /\ \A i \in DOMAIN todo : todo[i].do = "place" => i < k /\ staged[p][todo[i].file] # None
           /\ \A i \in DOMAIN todo :
                 /\ todo[i].do \in {"place", "list", "mutable", "index"}
                 /\ todo[i].do = "index" => i = Len(todo)
    BY CheckDoes DEF Serving
  <1>2. Job(p, accepted, refused, done, todo).todo = todo
    BY JobIs DEF Serving
  <1>3. job \in [Publisher -> Jobs]
    BY DEF Serving, TypeOK, PortalOK
  <1>4. job'[p].todo = todo /\ \A q \in Publisher \ {p} : job'[q] = job[q]
    BY <1>1, <1>2, <1>3
  <1>5. gate = None /\ gate' = p /\ lister' = lister
    BY DEF Check
  <1>6. \A q \in Publisher \ {p} : job'[q].at # "place"
    BY <1>4, <1>5, OneWorks DEF Serving
  <1>7. Listing(p)'
    BY <1>1, <1>4 DEF Listing
  <1>8. lister' = None /\ gate' # None
    BY <1>5, ListedIs, Constants
  <1> QED BY <1>6, <1>7, <1>8 DEF Listed, Listing

LEMMA FinishListed ==
    ASSUME Serving, Listed, used.cuts = 0, NEW p \in Publisher, Finish(p)
    PROVE  Listed'
  <1>1. /\ job[p].at = "place" /\ job[p].todo = <<>> /\ job' = [job EXCEPT ![p] = Idle]
        /\ UNCHANGED <<live, listed, lister>>
    BY DEF Finish, channel
  <1>2. job \in [Publisher -> Jobs]
    BY DEF Serving, TypeOK, PortalOK
  <1>3. \A q \in Publisher : job'[q].at # "place"
    BY <1>1, <1>2, IdleAt, OneWorks DEF Serving
  <1>4. listed = Withdrawn /\ lister = None
    <2>1. Listing(p) /\ lister = None
      BY <1>1, ListedIs
    <2>2. DOMAIN job[p].todo = {}
      BY <1>1
    <2> QED BY <2>1, <2>2 DEF Listing
  <1>5. Withdrawn' = Withdrawn
    BY <1>1 DEF Withdrawn
  <1> QED BY <1>1, <1>3, <1>4, <1>5 DEF Listed

LEMMA MaintainListed ==
    ASSUME Serving, Listed, used.cuts = 0, Maintain
    PROVE  Listed'
  <1>1. job' = job /\ lister' = lister
    BY DEF Maintain, RemoveLine, TakeAway, Removed, RestoreStash, BringBack, Restored
  <1>2. gate = None \/ admin # None
    BY Constants DEF Maintain, RemoveLine, TakeAway, Removed, RestoreStash, BringBack, Restored
  <1>3. \A q \in Publisher : job'[q].at # "place"
    BY <1>1, <1>2, OneWorks DEF Serving
  <1>4. gate' = None => listed' = Withdrawn'
    <2>1. CASE RemoveLine \/ RestoreStash
      BY <2>1, Constants DEF RemoveLine, RestoreStash
    <2>2. CASE TakeAway \/ BringBack
      <3>1. admin # None /\ gate' = gate
        BY <2>2, Constants DEF TakeAway, BringBack
      <3> QED BY <3>1, OneWorks, Constants DEF Serving
    <2>3. CASE Removed \/ Restored
      <3>1. listed' = Withdrawn /\ live' = live
        BY <2>3 DEF Removed, Restored
      <3> QED BY <3>1 DEF Withdrawn
    <2> QED BY <2>1, <2>2, <2>3 DEF Maintain
  <1> QED BY <1>1, <1>3, <1>4, ListedIs DEF Listed

LEMMA SameListed ==
    ASSUME Listed, used.cuts = 0, UNCHANGED <<listed, lister, gate>>, Withdrawn' = Withdrawn,
           \A q \in Publisher : job'[q].at = "place" => job[q].at = "place" /\ job'[q].todo = job[q].todo
    PROVE  Listed'
  <1>1. \A q \in Publisher : job'[q].at = "place" => Listing(q)'
    BY ListedIs, ListingSame
  <1>2. lister' = None /\ (gate' = None => listed' = Withdrawn')
    BY ListedIs
  <1> QED BY <1>1, <1>2 DEF Listed, Listing

LEMMA NextListed == Serving /\ Listed /\ [Next]_vars => Listed'
  <1> SUFFICES ASSUME Serving, Listed, [Next]_vars, used'.cuts = 0
               PROVE  Listed'
    BY DEF Listed
  <1>0. /\ TypeOK /\ used.cuts = 0 /\ ~Restart
        /\ \A p \in Publisher : ~PutCut(p) /\ ~Lose(p) /\ ~HangUp(p) /\ ~Fail(p)
    BY CutsGrow DEF Serving
  <1>1. ASSUME NEW p \in Publisher,
               Publish(p) \/ Remake(p) \/ Withdraw(p) \/ Start(p) \/ Request(p) \/ Handle(p) \/ Expire(p)
        PROVE  Listed'
    <2>1. CASE Publish(p) \/ Remake(p) \/ Withdraw(p) \/ Start(p) \/ Request(p) \/ Settle(p) \/ Expire(p)
      <3>1. Quiet /\ UNCHANGED <<listed, lister>>
        BY <1>0, <2>1, Quietly
      <3>2. Withdrawn' = Withdrawn
        BY <3>1 DEF Quiet, Withdrawn
      <3> QED BY <1>0, <3>1, <3>2, SameListed DEF Quiet
    <2>2. CASE Place(p) \/ WriteDigest(p) \/ WriteList(p) \/ Replace(p) \/ SwapIndex(p)
      BY <1>0, <2>2, WorkListed
    <2>3. CASE Check(p) \/ Finish(p)
      BY <1>0, <2>3, CheckListed, FinishListed
    <2> QED BY <1>1, <2>1, <2>2, <2>3 DEF Handle
  <1>2. ASSUME NEW a \in Archive, SendAway(a) \/ DropLocal(a)
        PROVE  Listed'
    <2>1. /\ UNCHANGED <<listed, lister, gate, job>>
          /\ live' = live \/ live' = [live EXCEPT ![Stored(a)] = None]
      BY <1>2 DEF SendAway, DropLocal, portal
    <2>2. live \in FileMaps /\ \A l \in Lines : Withdrawal(l) \in Paths /\ Withdrawal(l) # Stored(a)
      BY PathsAre, OnePath DEF Serving, TypeOK, ChannelOK, Stored, F
    <2>3. \A l \in Lines : live'[Withdrawal(l)] = live[Withdrawal(l)]
      BY <2>1, <2>2 DEF FileMaps
    <2> QED BY <1>0, <2>1, <2>3, WithdrawnSame, SameListed
  <1>3. CASE Maintain
    BY <1>0, <1>3, MaintainListed
  <1>4. CASE ListAtStart
    BY <1>0, <1>4, ListedIs DEF ListAtStart
  <1>5. CASE UNCHANGED vars
    <2>1. UNCHANGED <<listed, lister, gate, job, live>>
      BY <1>5 DEF vars, channel, portal
    <2> QED BY <1>0, <2>1, WithdrawnSame, SameListed
  <1> QED BY <1>0, <1>1, <1>2, <1>3, <1>4, <1>5 DEF Next, Trouble

(* Whenever nobody holds the channel and no request was cut, the list      *)
(* beside the index is of the withdrawals there are: a commit places them  *)
(* before it writes the list, a removal and a restoral write it last.      *)
THEOREM WithdrawalsListedAlways == Spec => []WithdrawalsListed
  <1>1. Init => Listed
    <2> SUFFICES ASSUME Init
                 PROVE  Listed
      OBVIOUS
    <2>1. \A p \in Publisher : job[p].at # "place"
      BY IdleAt DEF Init
    <2>2. Withdrawn = {}
      BY NothingIs, PathsAre DEF Init, Withdrawn
    <2> QED BY <2>1, <2>2 DEF Init, Listed
  <1>2. Serving /\ Listed /\ [Next]_vars => Listed'
    BY NextListed
  <1>3. Listed => WithdrawalsListed
    BY DEF Listed, WithdrawalsListed
  <1> QED BY <1>1, <1>2, <1>3, ServingAlways, PTL DEF Spec

=============================================================================
