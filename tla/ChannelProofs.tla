--------------------------- MODULE ChannelProofs ----------------------------
(***************************************************************************)
(* What a channel gives its readers.  First the abstract channel, for any  *)
(* lines, files and contents: Push implements Channel (IsChannel), so each *)
(* holds of what a portal serves wherever that refinement does.  Then the  *)
(* connection a channel's files come by, for any hosts, slots and bounds.  *)
(***************************************************************************)
EXTENDS Channel, KeptConnection, SequenceTheorems, NaturalsInduction,
        WellFoundedInduction, TLAPS

LinesNameFiles == FilesOf \in [Lines -> SUBSET Files]
Inv == TypeOK /\ Served

(* Each operation leaves every line that is shown its files. *)
LEMMA StepKeeps ==
    ASSUME LinesNameFiles, Inv, [Next]_<<shown, bytes>>
    PROVE  Inv'
  <1>1. CASE UNCHANGED <<shown, bytes>>
    BY <1>1 DEF Inv, TypeOK, Served, Needed
  <1>2. ASSUME NEW f \in Files, Clear(f)
        PROVE  Inv'
    <2>1. TypeOK'
      BY <1>2 DEF Inv, TypeOK, Clear
    <2>2. Needed' = Needed /\ f \notin Needed
      BY <1>2 DEF Clear, Needed
    <2>3. \A g \in Needed : g \in Files /\ bytes'[g] = bytes[g]
      BY <1>2, <2>2 DEF LinesNameFiles, Inv, TypeOK, Clear, Needed
    <2> QED BY <2>1, <2>2, <2>3 DEF Inv, Served
  <1>3. ASSUME NEW f \in Files, NEW c \in Contents, Upload(f, c)
        PROVE  Inv'
    <2>1. TypeOK'
      BY <1>3 DEF Inv, TypeOK, Upload
    <2>2. Needed' = Needed /\ f \notin Needed
      BY <1>3 DEF Upload, Needed, Inv, Served
    <2>3. \A g \in Needed : g \in Files /\ bytes'[g] = bytes[g]
      BY <1>3, <2>2 DEF LinesNameFiles, Inv, TypeOK, Upload, Needed
    <2> QED BY <2>1, <2>2, <2>3 DEF Inv, Served
  <1>4. ASSUME NEW L \in SUBSET Lines, Show(L)
        PROVE  Inv'
    BY <1>4 DEF Inv, TypeOK, Served, Needed, Show
  <1>5. ASSUME NEW L \in SUBSET Lines, Hide(L)
        PROVE  Inv'
    BY <1>5 DEF Inv, TypeOK, Served, Needed, Hide
  <1> QED BY <1>1, <1>2, <1>3, <1>4, <1>5 DEF Next

(* No step touches the bytes of a file that a line names before and after  *)
(* it.                                                                     *)
LEMMA StepSpares ==
    ASSUME LinesNameFiles, Inv, [Next]_<<shown, bytes>>
    PROVE  \A f \in Needed \cap Needed' : bytes'[f] = bytes[f]
  <1> SUFFICES ASSUME NEW g \in Needed \cap Needed'
               PROVE  bytes'[g] = bytes[g]
    OBVIOUS
  <1>1. g \in Files /\ bytes[g] # None
    BY DEF LinesNameFiles, Inv, TypeOK, Served, Needed
  <1>2. ASSUME NEW f \in Files, Clear(f)
        PROVE  bytes'[g] = bytes[g]
    <2>1. f # g
      BY <1>2 DEF Clear, Needed
    <2> QED BY <1>1, <1>2, <2>1 DEF Clear, Inv, TypeOK
  <1>3. ASSUME NEW f \in Files, NEW c \in Contents, Upload(f, c)
        PROVE  bytes'[g] = bytes[g]
    BY <1>1, <1>3 DEF Upload, Inv, TypeOK
  <1> QED BY <1>2, <1>3 DEF Next, Show, Hide

(* A line a reader sees has its files, always. *)
THEOREM LinesAreServed == ASSUME LinesNameFiles PROVE Spec => []Served
  <1>1. Init => Inv
    BY DEF Init, Inv, TypeOK, Served, Needed
  <1>2. Inv /\ [Next]_<<shown, bytes>> => Inv'
    BY StepKeeps
  <1>3. Inv => Served
    BY DEF Inv
  <1> QED BY <1>1, <1>2, <1>3, PTL DEF Spec

(* What a line names has the same bytes for as long as the line is there. *)
THEOREM BytesStay == ASSUME LinesNameFiles PROVE Spec => Kept
  <1>1. Init => Inv
    BY DEF Init, Inv, TypeOK, Served, Needed
  <1>2. Inv /\ [Next]_<<shown, bytes>> => Inv'
    BY StepKeeps
  <1>3. Inv /\ [Next]_<<shown, bytes>>
        => [\A f \in Needed \cap Needed' : bytes'[f] = bytes[f]]_<<shown, bytes>>
    BY StepSpares
  <1> QED BY <1>1, <1>2, <1>3, PTL DEF Spec, Kept

-----------------------------------------------------------------------------
(* The kept connection.  The client has no name for the answer it reads;   *)
(* what keeps it to its own is that a request goes out only where nothing  *)
(* is on its way, so that all that comes after it, in the order it comes,  *)
(* is one answer to it and what a server says twice (Follows); and that    *)
(* the client stops where that answer's framing does (AnsweredBy).         *)
(* First, what servers send, and what the client holds.                    *)
Whats == {"one", "two", "last", "half"}
Frames == {"length", "chunked", "close"}
Sent == {Part(i, w) : i \in Nat, w \in Whats}
        \cup {HeadOf(i, c, f, b) : i \in Nat, c \in Nat, f \in Frames, b \in BOOLEAN}
Connected == [host : Hosts \cup {""}, up : BOOLEAN, todo : Seq(Sent), wire : Seq(Sent),
          buf : Seq(Sent), id : Nat, bye : BOOLEAN, age : 0..Slots]
GetRec == [pc : {"idle", "take", "write", "head", "body"}, host : Hosts \cup {""}, hops : Nat,
           tries : Nat, slot : 0..Slots, id : Nat, reused : BOOLEAN, begun : BOOLEAN,
           clean : BOOLEAN, code : Nat, frame : Frames \cup {"none"}, bye : BOOLEAN,
           body : Seq(Sent)]

(* What is on its way on connection c, from the client's buffer to what    *)
(* the server has still to send.                                           *)
ComingIn(b, w, t) == Len(b) + Len(w) + Len(t)
AlongIn(b, w, t, j) ==
    IF j <= Len(b) THEN b[j]
    ELSE IF j <= Len(b) + Len(w) THEN w[j - Len(b)]
    ELSE t[j - Len(b) - Len(w)]
Coming(c) == ComingIn(c.buf, c.wire, c.todo)

(* Of answer r the client has taken k: what comes goes on from there, all  *)
(* of it as long as the server is up, and no more when it says goodbye; or *)
(* it is half a head.                                                      *)
FollowsIn(r, k, b, w, t, up, bye) ==
    LET coming == ComingIn(b, w, t) IN
    /\ \A j \in 1..coming :
          k + j <= Len(r) =>
             \/ AlongIn(b, w, t, j) = r[k + j]
             \/ AlongIn(b, w, t, j).what = "half" /\ ~up /\ k = 0 /\ coming = 1
    /\ up => k + coming >= Len(r)
    /\ r[1].bye => k + coming <= Len(r) /\ (up => bye)
Follows(r, c, k) == FollowsIn(r, k, c.buf, c.wire, c.todo, c.up, c.bye)

TakenBy(g) == IF g.pc = "head" THEN 0 ELSE 1 + Len(g.body)

AnsweredBy(r, g, c) ==
    /\ Follows(r, c, TakenBy(g))
    /\ g.begun => ~c.up /\ Coming(c) = 0
    /\ g.pc = "body" =>
          /\ g.code = r[1].code /\ g.frame = r[1].frame
          /\ 1 + Len(g.body) <= Len(r)
          /\ \A j \in 1..Len(g.body) : g.body[j] = r[j + 1]

PoolOK(p) ==
    /\ p \in [1..Slots -> Connected]
    /\ \A s \in 1..Slots : p[s].up /\ p[s].bye => p[s].todo # <<>>
GetOK(g) ==
    /\ g \in GetRec
    /\ g.pc \notin {"idle", "take"} => g.slot \in 1..Slots
    /\ g.pc \in {"take", "write"} => ~g.begun
    /\ g.pc \in {"take", "write", "head"} => g.body = <<>>
NetOK(n) == n \in [sent : Nat, gets : Nat, faults : Nat]

(* Between the client and the connection it uses. *)
OnTheWay(g, p) ==
    /\ g.pc = "write" => p[g.slot].buf = <<>>
    /\ g.pc \in {"head", "body"} /\ g.clean =>
          \E r \in Replies(g.id) : AnsweredBy(r, g, p[g.slot])

ConnInv == PoolOK(pool) /\ GetOK(get) /\ NetOK(net) /\ OnTheWay(get, pool) /\ AnswerOwn

LEMMA PartsAreSent ==
    /\ \A i \in Nat, w \in Whats : Part(i, w) \in Sent
    /\ \A i \in Nat, c \in Nat, f \in Frames, b \in BOOLEAN : HeadOf(i, c, f, b) \in Sent
    /\ \A x \in Sent : x.of \in Nat
    /\ \A x \in Sent : x.what = "head" => x.code \in Nat /\ x.frame \in Frames /\ x.bye \in BOOLEAN
  <1>1. ASSUME NEW x \in Sent, x.what = "head"
        PROVE  x.code \in Nat /\ x.frame \in Frames /\ x.bye \in BOOLEAN
    <2>1. CASE \E i \in Nat, w \in Whats : x = Part(i, w)
      BY <1>1, <2>1 DEF Part, Whats
    <2>2. CASE \E i \in Nat, c \in Nat, f \in Frames, b \in BOOLEAN : x = HeadOf(i, c, f, b)
      BY <1>1, <2>2 DEF HeadOf
    <2> QED BY <2>1, <2>2 DEF Sent
  <1>2. ASSUME NEW x \in Sent
        PROVE  x.of \in Nat
    <2>1. CASE \E i \in Nat, w \in Whats : x = Part(i, w)
      BY <2>1 DEF Part
    <2>2. CASE \E i \in Nat, c \in Nat, f \in Frames, b \in BOOLEAN : x = HeadOf(i, c, f, b)
      BY <2>2 DEF HeadOf
    <2> QED BY <2>1, <2>2 DEF Sent
  <1> QED BY <1>1, <1>2 DEF Sent

LEMMA Tuples ==
    ASSUME NEW S, NEW x \in S, NEW y \in S
    PROVE  /\ <<x, y>> \in Seq(S) /\ Len(<<x, y>>) = 2
           /\ <<x, y>>[1] = x /\ <<x, y>>[2] = y
           /\ \A z \in S :
                 /\ <<x, y, z>> \in Seq(S) /\ Len(<<x, y, z>>) = 3
                 /\ <<x, y, z>>[1] = x /\ <<x, y, z>>[2] = y /\ <<x, y, z>>[3] = z
  OBVIOUS

(* An answer, item by item. *)
Shaped(r, id, code, frame, bye) ==
    /\ r \in Seq(Sent)
    /\ r[1] = HeadOf(id, code, frame, bye)
    /\ code = 304 => Len(r) = 1
    /\ code # 304 => /\ Len(r) = IF frame = "chunked" THEN 4 ELSE 3
                     /\ r[2] = Part(id, "one") /\ r[3] = Part(id, "two")
                     /\ frame = "chunked" => r[4] = Part(id, "last")

LEMMA AnswerFacts ==
    ASSUME NEW id \in Nat, NEW code \in Nat, NEW frame \in Frames, NEW bye \in BOOLEAN,
           NEW r, r = Answer(id, code, frame, bye)
    PROVE  Shaped(r, id, code, frame, bye)
  <1> DEFINE h == <<HeadOf(id, code, frame, bye)>>
             b == IF code = 304 THEN <<>> ELSE Pieces(id, frame)
  <1>1. h \in Seq(Sent) /\ Len(h) = 1 /\ h[1] = HeadOf(id, code, frame, bye)
    BY PartsAreSent
  <1>2. /\ b \in Seq(Sent)
        /\ code = 304 => Len(b) = 0
        /\ code # 304 => /\ Len(b) = IF frame = "chunked" THEN 3 ELSE 2
                         /\ b[1] = Part(id, "one") /\ b[2] = Part(id, "two")
                         /\ frame = "chunked" => b[3] = Part(id, "last")
    <2>1. Part(id, "one") \in Sent /\ Part(id, "two") \in Sent /\ Part(id, "last") \in Sent
      BY PartsAreSent DEF Whats
    <2>2. CASE code = 304
      BY <2>2, EmptySeq
    <2>3. CASE code # 304 /\ frame = "chunked"
      <3>1. b = <<Part(id, "one"), Part(id, "two"), Part(id, "last")>>
        BY <2>3 DEF Pieces
      <3> HIDE DEF b
      <3> QED BY <2>1, <2>3, <3>1, Tuples
    <2>4. CASE code # 304 /\ frame # "chunked"
      <3>1. b = <<Part(id, "one"), Part(id, "two")>>
        BY <2>4 DEF Pieces
      <3> HIDE DEF b
      <3> QED BY <2>1, <2>4, <3>1, Tuples
    <2> QED BY <2>2, <2>3, <2>4
  <1>3. r = h \o b
    BY DEF Answer
  <1> HIDE DEF h, b
  <1>4. /\ r \in Seq(Sent) /\ Len(r) = Len(h) + Len(b)
        /\ \A i \in 1 .. Len(h) + Len(b) : r[i] = IF i <= Len(h) THEN h[i] ELSE b[i - Len(h)]
    <2>1. h \in Seq(Sent) /\ b \in Seq(Sent)
      BY <1>1, <1>2
    <2> QED BY <1>3, <2>1, ConcatProperties, ZenonT(60)
  <1>5. Len(b) \in Nat
    BY <1>2, LenProperties
  <1>6. r[1] = h[1] /\ \A i \in 1 .. Len(b) : r[i + 1] = b[i]
    BY <1>1, <1>4, <1>5
  <1>7. ASSUME code # 304
        PROVE  /\ Len(r) = IF frame = "chunked" THEN 4 ELSE 3
               /\ r[2] = Part(id, "one") /\ r[3] = Part(id, "two")
               /\ frame = "chunked" => r[4] = Part(id, "last")
    <2>1. CASE frame = "chunked"
      <3>1. Len(b) = 3
        BY <1>2, <1>7, <2>1
      <3>2. r[2] = b[1] /\ r[3] = b[2] /\ r[4] = b[3] /\ Len(r) = 4
        BY <1>1, <1>4, <1>6, <3>1
      <3> QED BY <1>2, <1>7, <2>1, <3>2
    <2>2. CASE frame # "chunked"
      <3>1. Len(b) = 2
        BY <1>2, <1>7, <2>2
      <3>2. r[2] = b[1] /\ r[3] = b[2] /\ Len(r) = 3
        BY <1>1, <1>4, <1>6, <3>1
      <3> QED BY <1>2, <1>7, <2>2, <3>2
    <2> QED BY <2>1, <2>2
  <1> QED BY <1>1, <1>2, <1>4, <1>6, <1>7 DEF Shaped

LEMMA ReplyFacts ==
    ASSUME NEW id \in Nat, NEW r \in Replies(id)
    PROVE  /\ r \in Seq(Sent) /\ Len(r) \in Nat /\ Len(r) >= 1 /\ r # <<>>
           /\ r[1].what = "head" /\ r[1].bye \in BOOLEAN
           /\ r[1].code \in Nat /\ r[1].frame \in Frames
           /\ r[1].frame = "close" => r[1].bye
           /\ r[1].code = 304 => Len(r) = 1
           /\ r[1].code # 304 =>
                 /\ Len(r) = IF r[1].frame = "chunked" THEN 4 ELSE 3
                 /\ r[2] = Part(id, "one") /\ r[3] = Part(id, "two")
                 /\ r[1].frame = "chunked" => r[4] = Part(id, "last")
  <1>1. PICK code \in Nat, frame \in Frames, bye \in BOOLEAN :
            r = Answer(id, code, frame, bye) /\ (frame = "close" => bye)
    <2>1. CASE \E f \in {"length", "chunked"} : r = Answer(id, 200, f, FALSE)
      BY <2>1, ZenonT(60) DEF Frames
    <2>2. CASE \E f \in {"length", "close"} : r = Answer(id, 200, f, TRUE)
      BY <2>2, ZenonT(60) DEF Frames
    <2>3. CASE \E c \in {302, 304, 404} : r = Answer(id, c, "length", FALSE)
      <3>1. PICK c \in {302, 304, 404} : r = Answer(id, c, "length", FALSE)
        BY <2>3
      <3>2. c \in Nat /\ "length" \in Frames /\ FALSE \in BOOLEAN /\ "length" # "close"
        BY DEF Frames
      <3> QED BY <3>1, <3>2, Zenon
    <2>4. \/ r \in {Answer(id, 200, f, FALSE) : f \in {"length", "chunked"}}
          \/ r \in {Answer(id, 200, f, TRUE) : f \in {"length", "close"}}
          \/ r \in {Answer(id, c, "length", FALSE) : c \in {302, 304, 404}}
      BY Zenon DEF Replies
    <2> QED BY <2>1, <2>2, <2>3, <2>4, Zenon
  <1>2. Shaped(r, id, code, frame, bye)
    BY <1>1, AnswerFacts, Zenon
  <1>3. r[1].what = "head" /\ r[1].bye = bye /\ r[1].code = code /\ r[1].frame = frame
    BY <1>2 DEF HeadOf, Shaped
  <1>4. Len(r) \in Nat /\ Len(r) >= 1
    BY <1>2 DEF Shaped
  <1>5. r # <<>>
    BY <1>2, <1>4, EmptySeq DEF Shaped
  <1> QED BY <1>1, <1>2, <1>3, <1>4, <1>5 DEF Shaped

(* Three sequences, one after the other. *)
LEMMA InNat ==
    ASSUME NEW b \in Seq(Sent), NEW w \in Seq(Sent), NEW t \in Seq(Sent)
    PROVE  /\ ComingIn(b, w, t) \in Nat
           /\ ComingIn(b, w, t) = Len(b) + Len(w) + Len(t)
           /\ Len(b) \in Nat /\ Len(w) \in Nat /\ Len(t) \in Nat
  BY LenProperties DEF ComingIn

SameIn(b, v, u, d, w, t) ==
    /\ ComingIn(b, v, u) = ComingIn(d, w, t)
    /\ \A j \in 1..ComingIn(d, w, t) : AlongIn(b, v, u, j) = AlongIn(d, w, t, j)

(* The first of the last goes to the end of the second ... *)
LEMMA SendingIn ==
    ASSUME NEW b \in Seq(Sent), NEW w \in Seq(Sent), NEW t \in Seq(Sent), t # <<>>
    PROVE  SameIn(b, Append(w, Head(t)), Tail(t), b, w, t)
  <1>v. PICK v : v = Append(w, Head(t))
    OBVIOUS
  <1>u. PICK u : u = Tail(t)
    OBVIOUS
  <1>1. Len(b) \in Nat /\ Len(w) \in Nat /\ Len(t) \in Nat
    BY InNat
  <1>2. /\ u \in Seq(Sent) /\ Head(t) \in Sent /\ Head(t) = t[1]
        /\ Len(u) = Len(t) - 1 /\ Len(t) >= 1
        /\ \A i \in 1..Len(u) : u[i] = t[i + 1]
    <2>1. Len(t) # 0
      BY EmptySeq
    <2> QED BY <1>u, <1>1, <2>1, HeadTailProperties
  <1>3. /\ v \in Seq(Sent) /\ Len(v) = Len(w) + 1
        /\ \A i \in 1..Len(w) : v[i] = w[i]
        /\ v[Len(w) + 1] = t[1]
    BY <1>v, <1>1, <1>2, AppendProperties
  <1>4. ComingIn(b, v, u) = ComingIn(b, w, t)
    BY <1>1, <1>2, <1>3 DEF ComingIn
  <1>5. ASSUME NEW j \in 1..ComingIn(b, w, t)
        PROVE  AlongIn(b, v, u, j) = AlongIn(b, w, t, j)
    <2>1. j \in Nat /\ j >= 1 /\ j <= Len(b) + Len(w) + Len(t)
      BY <1>1 DEF ComingIn
    <2>2. CASE j <= Len(b)
      BY <2>2 DEF AlongIn
    <2>3. CASE j > Len(b) /\ j <= Len(b) + Len(w)
      <3>1. j - Len(b) \in 1..Len(w)
        BY <1>1, <2>1, <2>3
      <3>2. AlongIn(b, w, t, j) = w[j - Len(b)] /\ AlongIn(b, v, u, j) = v[j - Len(b)]
        BY <1>1, <1>3, <2>1, <2>3 DEF AlongIn
      <3> QED BY <1>3, <3>1, <3>2
    <2>4. CASE j = Len(b) + Len(w) + 1
      <3>1. j - Len(b) = Len(w) + 1 /\ j - Len(b) - Len(w) = 1
        BY <1>1, <2>1, <2>4
      <3>2. AlongIn(b, w, t, j) = t[j - Len(b) - Len(w)] /\ AlongIn(b, v, u, j) = v[j - Len(b)]
        BY <1>1, <1>3, <2>1, <2>4 DEF AlongIn
      <3> QED BY <1>3, <3>1, <3>2
    <2>5. CASE j > Len(b) + Len(w) + 1
      <3>1. j - Len(b) - (Len(w) + 1) \in 1..Len(u)
        BY <1>1, <1>2, <2>1, <2>5
      <3>2. (j - Len(b) - (Len(w) + 1)) + 1 = j - Len(b) - Len(w)
        BY <1>1, <2>1
      <3>3. AlongIn(b, w, t, j) = t[j - Len(b) - Len(w)]
            /\ AlongIn(b, v, u, j) = u[j - Len(b) - (Len(w) + 1)]
        BY <1>1, <1>3, <2>1, <2>5 DEF AlongIn
      <3> QED BY <1>2, <3>1, <3>2, <3>3
    <2> QED BY <1>1, <2>1, <2>2, <2>3, <2>4, <2>5
  <1>6. SameIn(b, v, u, b, w, t)
    BY <1>4, <1>5 DEF SameIn
  <1> QED BY <1>v, <1>u, <1>6, Zenon

(* ... the second becomes the first ... *)
LEMMA ReceivingIn ==
    ASSUME NEW w \in Seq(Sent), NEW t \in Seq(Sent)
    PROVE  /\ ComingIn(w, <<>>, t) = ComingIn(<<>>, w, t)
           /\ \A j \in 1..ComingIn(<<>>, w, t) :
                 AlongIn(w, <<>>, t, j) = AlongIn(<<>>, w, t, j)
  <1> DEFINE e == <<>>
  <1>1. Len(e) = 0 /\ Len(w) \in Nat /\ Len(t) \in Nat
    BY EmptySeq, LenProperties
  <1> HIDE DEF e
  <1>2. ComingIn(w, e, t) = ComingIn(e, w, t) /\ ComingIn(e, w, t) \in Nat
    BY <1>1 DEF ComingIn
  <1>3. ASSUME NEW j \in 1..ComingIn(e, w, t)
        PROVE  AlongIn(w, e, t, j) = AlongIn(e, w, t, j)
    <2>1. j \in Nat /\ j >= 1
      BY <1>2
    <2>2. j - 0 = j /\ j - 0 - Len(w) = j - Len(w) - 0
      BY <1>1, <2>1
    <2> QED BY <1>1, <2>1, <2>2 DEF AlongIn
  <1> QED BY <1>2, <1>3 DEF e

(* ... the last is lost, and what takes its place comes behind the others, *)
AlikeIn(b, w, u, t) == \A j \in 1..Len(b) + Len(w) : AlongIn(b, w, u, j) = AlongIn(b, w, t, j)

LEMMA ReplacingIn ==
    ASSUME NEW b \in Seq(Sent), NEW w \in Seq(Sent), NEW t \in Seq(Sent), NEW u \in Seq(Sent)
    PROVE  AlikeIn(b, w, u, t)
  <1>1. Len(b) \in Nat /\ Len(w) \in Nat
    BY InNat
  <1> QED BY <1>1 DEF AlikeIn, AlongIn

TornIn(b, v, e, w, t, h) ==
    /\ ComingIn(b, v, e) = Len(b) + Len(w) + 1
    /\ ComingIn(b, v, e) <= ComingIn(b, w, t)
    /\ \A j \in 1..Len(b) + Len(w) : AlongIn(b, v, e, j) = AlongIn(b, w, t, j)
    /\ AlongIn(b, v, e, Len(b) + Len(w) + 1) = h
    /\ AlongIn(b, w, t, Len(b) + Len(w) + 1) = Head(t)

LEMMA TearingIn ==
    ASSUME NEW b \in Seq(Sent), NEW w \in Seq(Sent), NEW t \in Seq(Sent), t # <<>>,
           NEW h \in Sent
    PROVE  TornIn(b, Append(w, h), <<>>, w, t, h)
  <1>v. PICK v : v = Append(w, h)
    OBVIOUS
  <1> DEFINE e == <<>>
  <1>1. Len(e) = 0 /\ Len(b) \in Nat /\ Len(w) \in Nat /\ Len(t) \in Nat
    BY EmptySeq, InNat
  <1>2. Len(t) >= 1 /\ Head(t) = t[1]
    <2>1. Len(t) # 0
      BY EmptySeq
    <2> QED BY <1>1, <2>1
  <1>3. /\ v \in Seq(Sent) /\ Len(v) = Len(w) + 1
        /\ \A i \in 1..Len(w) : v[i] = w[i]
        /\ v[Len(w) + 1] = h
    BY <1>v, <1>1, AppendProperties
  <1> HIDE DEF e
  <1>4. ComingIn(b, v, e) = Len(b) + Len(w) + 1 /\ ComingIn(b, v, e) <= ComingIn(b, w, t)
    BY <1>1, <1>2, <1>3 DEF ComingIn
  <1>5. ASSUME NEW j \in 1..Len(b) + Len(w)
        PROVE  AlongIn(b, v, e, j) = AlongIn(b, w, t, j)
    <2>1. CASE j <= Len(b)
      BY <2>1 DEF AlongIn
    <2>2. CASE ~(j <= Len(b))
      <3>1. j - Len(b) \in 1..Len(w)
        BY <1>1, <2>2
      <3>2. AlongIn(b, w, t, j) = w[j - Len(b)] /\ AlongIn(b, v, e, j) = v[j - Len(b)]
        BY <1>1, <1>3, <2>2 DEF AlongIn
      <3> QED BY <1>3, <3>1, <3>2
    <2> QED BY <2>1, <2>2
  <1>6. AlongIn(b, v, e, Len(b) + Len(w) + 1) = h /\ AlongIn(b, w, t, Len(b) + Len(w) + 1) = Head(t)
    <2> DEFINE j == Len(b) + Len(w) + 1
    <2>1. j - Len(b) = Len(w) + 1 /\ j - Len(b) - Len(w) = 1
      BY <1>1
    <2>2. AlongIn(b, v, e, j) = v[j - Len(b)] /\ AlongIn(b, w, t, j) = t[j - Len(b) - Len(w)]
      BY <1>1, <1>3 DEF AlongIn
    <2> QED BY <1>2, <1>3, <2>1, <2>2
  <1>7. TornIn(b, v, e, w, t, h)
    BY <1>4, <1>5, <1>6 DEF TornIn
  <1> QED BY <1>v, <1>7, Zenon DEF e

(* ... or the first of the first is taken. *)
TookIn(a, b, w, t) ==
    /\ ComingIn(b, w, t) >= 1
    /\ ComingIn(a, w, t) = ComingIn(b, w, t) - 1
    /\ AlongIn(b, w, t, 1) = Head(b)
    /\ \A j \in 1..ComingIn(a, w, t) : AlongIn(a, w, t, j) = AlongIn(b, w, t, j + 1)

LEMMA TakingIn ==
    ASSUME NEW b \in Seq(Sent), NEW w \in Seq(Sent), NEW t \in Seq(Sent), b # <<>>
    PROVE  TookIn(Tail(b), b, w, t)
  <1>a. PICK a : a = Tail(b)
    OBVIOUS
  <1>1. Len(b) \in Nat /\ Len(w) \in Nat /\ Len(t) \in Nat
    BY InNat
  <1>2. /\ a \in Seq(Sent) /\ Head(b) \in Sent /\ Head(b) = b[1]
        /\ Len(a) = Len(b) - 1 /\ Len(b) >= 1
        /\ \A i \in 1..Len(a) : a[i] = b[i + 1]
    <2>1. Len(b) # 0
      BY EmptySeq
    <2> QED BY <1>a, <1>1, <2>1, HeadTailProperties
  <1>3. ComingIn(b, w, t) >= 1 /\ ComingIn(a, w, t) = ComingIn(b, w, t) - 1
    BY <1>1, <1>2 DEF ComingIn
  <1>4. AlongIn(b, w, t, 1) = Head(b)
    BY <1>1, <1>2 DEF AlongIn
  <1>5. ASSUME NEW j \in 1..ComingIn(a, w, t)
        PROVE  AlongIn(a, w, t, j) = AlongIn(b, w, t, j + 1)
    <2>1. j \in Nat /\ j >= 1
      BY <1>1, <1>2 DEF ComingIn
    <2>2. CASE j <= Len(a)
      BY <1>1, <1>2, <2>1, <2>2 DEF AlongIn
    <2>3. CASE j > Len(a)
      <3>1. j - Len(a) = j + 1 - Len(b) /\ ~(j + 1 <= Len(b))
        BY <1>1, <1>2, <2>1, <2>3
      <3>2. j <= Len(a) + Len(w) <=> j + 1 <= Len(b) + Len(w)
        BY <1>1, <1>2, <2>1
      <3> QED BY <2>3, <3>1, <3>2 DEF AlongIn
    <2> QED BY <1>1, <1>2, <2>1, <2>2, <2>3
  <1>6. TookIn(a, b, w, t)
    BY <1>3, <1>4, <1>5 DEF TookIn
  <1> QED BY <1>a, <1>6, Zenon

(* What is on its way goes on from what was taken: when the server sends   *)
(* or the client receives, *)
LEMMA SentFollows ==
    ASSUME NEW b \in Seq(Sent), NEW w \in Seq(Sent), NEW t \in Seq(Sent), t # <<>>,
           NEW up, NEW bye, NEW on, on => up, NEW r, NEW k, FollowsIn(r, k, b, w, t, up, bye)
    PROVE  FollowsIn(r, k, b, Append(w, Head(t)), Tail(t), on, bye)
  <1>0. SameIn(b, Append(w, Head(t)), Tail(t), b, w, t)
    BY SendingIn, Zenon
  <1>v. PICK v : v = Append(w, Head(t))
    OBVIOUS
  <1>u. PICK u : u = Tail(t)
    OBVIOUS
  <1>1. SameIn(b, v, u, b, w, t)
    BY <1>0, <1>v, <1>u, Zenon
  <1>2. FollowsIn(r, k, b, v, u, on, bye)
    BY <1>1 DEF FollowsIn, SameIn
  <1> QED BY <1>2, <1>v, <1>u, Zenon

LEMMA ReceivedFollows ==
    ASSUME NEW w \in Seq(Sent), NEW t \in Seq(Sent),
           NEW up, NEW bye, NEW r, NEW k, FollowsIn(r, k, <<>>, w, t, up, bye)
    PROVE  FollowsIn(r, k, w, <<>>, t, up, bye)
  BY ReceivingIn DEF FollowsIn

(* when the server hangs up, *)
LEMMA CutFollows ==
    ASSUME NEW b \in Seq(Sent), NEW w \in Seq(Sent), NEW t \in Seq(Sent),
           NEW bye, NEW r \in Seq(Sent), NEW k \in Nat, FollowsIn(r, k, b, w, t, TRUE, bye)
    PROVE  FollowsIn(r, k, b, w, <<>>, FALSE, bye)
  <1> DEFINE e == <<>>
  <1>1. /\ Len(b) \in Nat /\ Len(w) \in Nat /\ Len(t) \in Nat /\ Len(r) \in Nat
        /\ ComingIn(b, w, t) = Len(b) + Len(w) + Len(t)
        /\ ComingIn(b, w, e) = Len(b) + Len(w)
        /\ \A j \in 1..Len(b) + Len(w) : AlongIn(b, w, e, j) = AlongIn(b, w, t, j)
    <2>1. e \in Seq(Sent) /\ Len(e) = 0
      BY EmptySeq
    <2> HIDE DEF e
    <2>a. AlikeIn(b, w, e, t)
      BY <2>1, ReplacingIn, Zenon
    <2>2. \A j \in 1..Len(b) + Len(w) : AlongIn(b, w, e, j) = AlongIn(b, w, t, j)
      BY <2>a DEF AlikeIn
    <2>3. Len(b) \in Nat /\ Len(w) \in Nat /\ Len(t) \in Nat /\ Len(r) \in Nat
      BY LenProperties
    <2> QED BY <2>1, <2>2, <2>3 DEF ComingIn
  <1> HIDE DEF e
  <1>2. ASSUME NEW j \in 1..ComingIn(b, w, e), k + j <= Len(r)
        PROVE  AlongIn(b, w, e, j) = r[k + j]
    <2>1. j \in 1..ComingIn(b, w, t)
      BY <1>1
    <2> QED BY <1>1, <1>2, <2>1 DEF FollowsIn
  <1>3. r[1].bye => k + ComingIn(b, w, e) <= Len(r)
    BY <1>1 DEF FollowsIn
  <1>4. FollowsIn(r, k, b, w, e, FALSE, bye)
    BY <1>2, <1>3 DEF FollowsIn
  <1> QED BY <1>4 DEF e

(* or hangs up in a head: of an answer nothing else was sent; *)
LEMMA TornFollows ==
    ASSUME NEW b \in Seq(Sent), NEW w \in Seq(Sent), NEW t \in Seq(Sent), t # <<>>,
           Head(t).what = "head", NEW h \in Sent, h.what = "half", NEW bye,
           NEW r \in Seq(Sent), \A i \in 2..Len(r) : r[i].what # "head",
           NEW k \in Nat, FollowsIn(r, k, b, w, t, TRUE, bye)
    PROVE  FollowsIn(r, k, b, Append(w, h), <<>>, FALSE, bye)
  <1>0. TornIn(b, Append(w, h), <<>>, w, t, h)
    BY TearingIn, Zenon
  <1>v. PICK v : v = Append(w, h)
    OBVIOUS
  <1>e. PICK e : e = <<>>
    OBVIOUS
  <1>1. TornIn(b, v, e, w, t, h)
    BY <1>0, <1>v, <1>e, Zenon
  <1>2. /\ Len(b) \in Nat /\ Len(w) \in Nat /\ Len(r) \in Nat /\ ComingIn(b, w, t) \in Nat
        /\ ComingIn(b, v, e) = Len(b) + Len(w) + 1
        /\ ComingIn(b, v, e) <= ComingIn(b, w, t)
        /\ \A j \in 1..Len(b) + Len(w) : AlongIn(b, v, e, j) = AlongIn(b, w, t, j)
        /\ AlongIn(b, v, e, Len(b) + Len(w) + 1) = h
        /\ AlongIn(b, w, t, Len(b) + Len(w) + 1) = Head(t)
    <2>1. /\ ComingIn(b, v, e) = Len(b) + Len(w) + 1
          /\ ComingIn(b, v, e) <= ComingIn(b, w, t)
          /\ \A j \in 1..Len(b) + Len(w) : AlongIn(b, v, e, j) = AlongIn(b, w, t, j)
          /\ AlongIn(b, v, e, Len(b) + Len(w) + 1) = h
          /\ AlongIn(b, w, t, Len(b) + Len(w) + 1) = Head(t)
      BY <1>1 DEF TornIn
    <2> QED BY <2>1, InNat, LenProperties
  <1>3. ASSUME NEW j \in 1..ComingIn(b, v, e), k + j <= Len(r)
        PROVE  \/ AlongIn(b, v, e, j) = r[k + j]
               \/ /\ AlongIn(b, v, e, j).what = "half" /\ k = 0
                  /\ ComingIn(b, v, e) = 1
    <2>1. j \in 1..ComingIn(b, w, t)
      BY <1>2
    <2>2. AlongIn(b, w, t, j) = r[k + j]
      BY <1>3, <2>1 DEF FollowsIn
    <2>3. CASE j # ComingIn(b, v, e)
      <3>1. j \in 1..Len(b) + Len(w)
        BY <1>2, <2>3
      <3> QED BY <1>2, <2>2, <3>1
    <2>4. CASE j = ComingIn(b, v, e)
      <3>1. r[k + j].what = "head"
        BY <1>2, <2>2, <2>4
      <3>2. ~(k + j \in 2..Len(r))
        BY <3>1
      <3>3. k = 0 /\ j = 1
        BY <1>2, <1>3, <3>2
      <3> QED BY <1>2, <2>4, <3>3
    <2> QED BY <2>3, <2>4
  <1>4. r[1].bye => k + ComingIn(b, v, e) <= Len(r)
    <2>1. r[1].bye => k + ComingIn(b, w, t) <= Len(r)
      BY DEF FollowsIn
    <2> QED BY <1>2, <2>1
  <1>5. FollowsIn(r, k, b, v, e, FALSE, bye)
    BY <1>3, <1>4 DEF FollowsIn
  <1> QED BY <1>v, <1>e, <1>5, Zenon

(* when it answers again, behind the whole answer and not after a goodbye; *)
LEMMA RepeatFollows ==
    ASSUME NEW b \in Seq(Sent), NEW w \in Seq(Sent), NEW u \in Seq(Sent), NEW bye,
           NEW r \in Seq(Sent), NEW k \in Nat, FollowsIn(r, k, b, w, <<>>, TRUE, FALSE)
    PROVE  FollowsIn(r, k, b, w, u, TRUE, bye)
  <1>1. PICK e : e = <<>>
    OBVIOUS
  <1>2. /\ Len(b) \in Nat /\ Len(w) \in Nat /\ Len(u) \in Nat /\ Len(r) \in Nat
        /\ ComingIn(b, w, u) = Len(b) + Len(w) + Len(u)
        /\ ComingIn(b, w, e) = Len(b) + Len(w)
        /\ \A j \in 1..Len(b) + Len(w) : AlongIn(b, w, u, j) = AlongIn(b, w, e, j)
    <2>1. e \in Seq(Sent) /\ Len(e) = 0
      BY <1>1, EmptySeq
    <2>a. AlikeIn(b, w, u, e)
      BY <2>1, ReplacingIn, Zenon
    <2>2. \A j \in 1..Len(b) + Len(w) : AlongIn(b, w, u, j) = AlongIn(b, w, e, j)
      BY <2>a DEF AlikeIn
    <2>3. Len(b) \in Nat /\ Len(w) \in Nat /\ Len(u) \in Nat /\ Len(r) \in Nat
      BY LenProperties
    <2> QED BY <2>1, <2>2, <2>3 DEF ComingIn
  <1>3. FollowsIn(r, k, b, w, e, TRUE, FALSE)
    BY <1>1
  <1>4. ~r[1].bye /\ k + ComingIn(b, w, e) >= Len(r)
    BY <1>3 DEF FollowsIn
  <1>5. ASSUME NEW j \in 1..ComingIn(b, w, u), k + j <= Len(r)
        PROVE  AlongIn(b, w, u, j) = r[k + j]
    <2>1. j \in 1..ComingIn(b, w, e)
      BY <1>2, <1>4, <1>5
    <2> QED BY <1>2, <1>3, <1>5, <2>1 DEF FollowsIn
  <1>6. k + ComingIn(b, w, u) >= Len(r)
    BY <1>2, <1>4
  <1> QED BY <1>4, <1>5, <1>6 DEF FollowsIn

(* and when the client takes what is next. *)
NextIn(x, r, k, a, w, t, up) ==
    x = r[k + 1] \/ (x.what = "half" /\ ~up /\ ComingIn(a, w, t) = 0 /\ k = 0)
LEMMA TakenFollows ==
    ASSUME NEW b \in Seq(Sent), NEW w \in Seq(Sent), NEW t \in Seq(Sent), b # <<>>,
           NEW up, NEW bye, NEW r \in Seq(Sent), NEW k \in Nat, k + 1 <= Len(r),
           FollowsIn(r, k, b, w, t, up, bye)
    PROVE  /\ FollowsIn(r, k + 1, Tail(b), w, t, up, bye)
           /\ NextIn(Head(b), r, k, Tail(b), w, t, up)
  <1>0. TookIn(Tail(b), b, w, t)
    BY TakingIn, Zenon
  <1>a. PICK a : a = Tail(b)
    OBVIOUS
  <1>1. TookIn(a, b, w, t)
    BY <1>0, <1>a, Zenon
  <1>2. /\ ComingIn(b, w, t) >= 1
        /\ ComingIn(a, w, t) = ComingIn(b, w, t) - 1
        /\ AlongIn(b, w, t, 1) = Head(b)
        /\ \A j \in 1..ComingIn(a, w, t) : AlongIn(a, w, t, j) = AlongIn(b, w, t, j + 1)
    BY <1>1 DEF TookIn
  <1>3. ComingIn(b, w, t) \in Nat /\ Len(r) \in Nat
    BY InNat, LenProperties
  <1>4. \/ Head(b) = r[k + 1]
        \/ Head(b).what = "half" /\ ~up /\ ComingIn(b, w, t) = 1 /\ k = 0
    BY <1>2, <1>3 DEF FollowsIn
  <1>5. ASSUME NEW j \in 1..ComingIn(a, w, t), k + 1 + j <= Len(r)
        PROVE  AlongIn(a, w, t, j) = r[k + 1 + j]
    <2>1. j + 1 \in 1..ComingIn(b, w, t) /\ k + (j + 1) = k + 1 + j /\ ComingIn(b, w, t) # 1
      BY <1>2, <1>3
    <2>2. AlongIn(b, w, t, j + 1) = r[k + (j + 1)]
      BY <1>5, <2>1 DEF FollowsIn
    <2> QED BY <1>2, <2>1, <2>2
  <1>6. /\ up => k + 1 + ComingIn(a, w, t) >= Len(r)
        /\ r[1].bye => k + 1 + ComingIn(a, w, t) <= Len(r) /\ (up => bye)
    BY <1>2, <1>3 DEF FollowsIn
  <1>7. FollowsIn(r, k + 1, a, w, t, up, bye)
    BY <1>5, <1>6 DEF FollowsIn
  <1>8. ComingIn(b, w, t) = 1 => ComingIn(a, w, t) = 0
    BY <1>2
  <1>9. NextIn(Head(b), r, k, a, w, t, up)
    BY <1>4, <1>8 DEF NextIn
  <1> QED BY <1>a, <1>7, <1>9, Zenon

(* The request is sent on a connection where nothing is on its way. *)
LEMMA WrittenFollows ==
    ASSUME NEW r \in Seq(Sent)
    PROVE  FollowsIn(r, 0, <<>>, <<>>, r, TRUE, r[1].bye)
  <1>1. PICK e : e = <<>>
    OBVIOUS
  <1>2. Len(e) = 0 /\ Len(r) \in Nat
    BY <1>1, EmptySeq, LenProperties
  <1>3. ComingIn(e, e, r) = Len(r)
    BY <1>2 DEF ComingIn
  <1>4. ASSUME NEW j \in 1..Len(r)
        PROVE  AlongIn(e, e, r, j) = r[0 + j]
    <2>1. j \in Nat /\ j >= 1 /\ j - 0 - 0 = j /\ 0 + j = j
      BY <1>2
    <2> QED BY <1>2, <2>1 DEF AlongIn
  <1>5. 0 + Len(r) = Len(r) /\ Len(r) <= Len(r) /\ Len(r) >= Len(r)
    BY <1>2
  <1>6. FollowsIn(r, 0, e, e, r, TRUE, r[1].bye)
    BY <1>3, <1>4, <1>5 DEF FollowsIn
  <1> QED BY <1>1, <1>6

LEMMA UnwrittenFollows ==
    ASSUME NEW r \in Seq(Sent), NEW bye
    PROVE  FollowsIn(r, 0, <<>>, <<>>, <<>>, FALSE, bye) /\ ComingIn(<<>>, <<>>, <<>>) = 0
  <1>1. PICK e : e = <<>>
    OBVIOUS
  <1>2. ComingIn(e, e, e) = 0 /\ Len(r) \in Nat
    BY <1>1, EmptySeq, LenProperties DEF ComingIn
  <1>3. FollowsIn(r, 0, e, e, e, FALSE, bye)
    BY <1>2 DEF FollowsIn
  <1> QED BY <1>1, <1>2, <1>3

----------------------------------------------------------------------------
(* One connection is changed in what it carries; the others are not.       *)
Changed(s, host, up, todo, wire, buf, id, bye) ==
    /\ pool' \in [1..Slots -> Connected]
    /\ \A t \in 1..Slots \ {s} : pool'[t] = pool[t]
    /\ pool'[s].host = host /\ pool'[s].up = up /\ pool'[s].todo = todo /\ pool'[s].wire = wire
    /\ pool'[s].buf = buf /\ pool'[s].id = id /\ pool'[s].bye = bye

LEMMA LineParts ==
    ASSUME NEW c \in Connected
    PROVE  /\ c.host \in Hosts \cup {""} /\ c.up \in BOOLEAN /\ c.todo \in Seq(Sent)
           /\ c.wire \in Seq(Sent) /\ c.buf \in Seq(Sent) /\ c.id \in Nat /\ c.bye \in BOOLEAN
           /\ c.age \in 0..Slots
  BY DEF Connected

LEMMA SendChanges ==
    ASSUME PoolOK(pool), NEW s \in 1..Slots, Send(s)
    PROVE  Changed(s, pool[s].host, ~(Tail(pool[s].todo) = <<>> /\ pool[s].bye),
                   Tail(pool[s].todo), Append(pool[s].wire, Head(pool[s].todo)),
                   pool[s].buf, pool[s].id, pool[s].bye)
  <1> DEFINE c == pool[s]
             u == Tail(c.todo)
             v == Append(c.wire, Head(c.todo))
             on == ~(u = <<>> /\ c.bye)
  <1>1. pool \in [1..Slots -> Connected] /\ c \in Connected /\ c.todo # <<>>
    BY DEF PoolOK, Send
  <1>2. /\ c.host \in Hosts \cup {""} /\ c.todo \in Seq(Sent) /\ c.wire \in Seq(Sent)
        /\ c.buf \in Seq(Sent) /\ c.id \in Nat /\ c.bye \in BOOLEAN
    BY <1>1, LineParts, Zenon
  <1>3. u \in Seq(Sent) /\ v \in Seq(Sent)
    <2>1. \A t \in Seq(Sent) : t # <<>> => Head(t) \in Sent /\ Tail(t) \in Seq(Sent)
      BY HeadTailProperties
    <2>2. \A w \in Seq(Sent), h \in Sent : Append(w, h) \in Seq(Sent)
      BY AppendProperties
    <2> QED BY <1>1, <1>2, <2>1, <2>2, Zenon
  <1>4. pool' = [pool EXCEPT ![s] = [c EXCEPT !.wire = v, !.todo = u, !.up = on]]
    BY <1>1, Zenon DEF Send
  <1>5. [c EXCEPT !.wire = v, !.todo = u, !.up = on] \in Connected
    BY <1>1, <1>3 DEF Connected
  <1>6. on \in BOOLEAN
    OBVIOUS
  <1> QED
    BY <1>1, <1>2, <1>3, <1>4, <1>5 DEF Changed, Connected

LEMMA HangUpChanges ==
    ASSUME PoolOK(pool), NEW s \in 1..Slots, HangUp(s)
    PROVE  Changed(s, pool[s].host, FALSE, <<>>, pool[s].wire, pool[s].buf, pool[s].id, pool[s].bye)
  <1> DEFINE c == pool[s]
             e == <<>>
  <1>1. pool \in [1..Slots -> Connected] /\ c \in Connected /\ e \in Seq(Sent)
    BY EmptySeq DEF PoolOK
  <1>2. pool' = [pool EXCEPT ![s] = [c EXCEPT !.up = FALSE, !.todo = e]]
    BY <1>1, Zenon DEF HangUp
  <1> HIDE DEF e
  <1>3. [c EXCEPT !.up = FALSE, !.todo = e] \in Connected
    BY <1>1 DEF Connected
  <1>4. Changed(s, c.host, FALSE, e, c.wire, c.buf, c.id, c.bye)
    BY <1>1, <1>2, <1>3 DEF Changed, Connected
  <1> QED BY <1>4 DEF e

LEMMA TearHeadChanges ==
    ASSUME PoolOK(pool), NEW s \in 1..Slots, TearHead(s)
    PROVE  \E h \in Sent : /\ h.what = "half"
                           /\ Changed(s, pool[s].host, FALSE, <<>>, Append(pool[s].wire, h),
                                      pool[s].buf, pool[s].id, pool[s].bye)
  <1> DEFINE c == pool[s]
             e == <<>>
             h == Part(Head(c.todo).of, "half")
             v == Append(c.wire, h)
  <1>1. pool \in [1..Slots -> Connected] /\ c \in Connected /\ e \in Seq(Sent) /\ c.todo # <<>>
    BY EmptySeq DEF PoolOK, TearHead
  <1>2. c.todo \in Seq(Sent) /\ c.wire \in Seq(Sent)
    BY <1>1, LineParts, Zenon
  <1>3. h \in Sent /\ h.what = "half"
    <2>1. \A t \in Seq(Sent) : t # <<>> => Head(t) \in Sent
      BY HeadTailProperties
    <2>2. Head(c.todo).of \in Nat
      BY <1>1, <1>2, <2>1, PartsAreSent, Zenon
    <2>3. "half" \in Whats /\ h.what = "half"
      BY DEF Whats, Part
    <2> QED BY <2>2, <2>3, PartsAreSent, Zenon
  <1>4. v \in Seq(Sent)
    <2>1. \A w \in Seq(Sent), x \in Sent : Append(w, x) \in Seq(Sent)
      BY AppendProperties
    <2> QED BY <1>2, <1>3, <2>1, Zenon
  <1>5. pool' = [pool EXCEPT ![s] = [c EXCEPT !.up = FALSE, !.todo = e, !.wire = v]]
    BY <1>1, Zenon DEF TearHead
  <1>6. PICK x : x = v
    OBVIOUS
  <1> HIDE DEF e, v
  <1>7. [c EXCEPT !.up = FALSE, !.todo = e, !.wire = v] \in Connected
    BY <1>1, <1>4 DEF Connected
  <1>8. Changed(s, c.host, FALSE, e, v, c.buf, c.id, c.bye)
    BY <1>1, <1>5, <1>7 DEF Changed, Connected
  <1> QED BY <1>3, <1>8 DEF e, v

LEMMA RepeatIsSent ==
    ASSUME NEW id \in Nat
    PROVE  Answer(id, 200, "length", FALSE) \in Replies(id)
  BY DEF Replies

LEMMA RepeatChanges ==
    ASSUME PoolOK(pool), NEW s \in 1..Slots, Repeat(s)
    PROVE  \E u \in Seq(Sent) : /\ u # <<>>
                                /\ Changed(s, pool[s].host, TRUE, u, pool[s].wire, pool[s].buf,
                                           pool[s].id, pool[s].bye)
  <1> DEFINE c == pool[s]
             u == Answer(c.id, 200, "length", FALSE)
  <1>1. pool \in [1..Slots -> Connected] /\ c \in Connected /\ c.up = TRUE
    BY DEF PoolOK, Repeat, Connected
  <1>2. u \in Seq(Sent) /\ u # <<>>
    <2>1. c.id \in Nat
      BY <1>1, LineParts, Zenon
    <2>2. u \in Replies(c.id)
      BY <2>1, RepeatIsSent, Zenon
    <2> QED BY <2>1, <2>2, ReplyFacts, Zenon
  <1>3. pool' = [pool EXCEPT ![s] = [c EXCEPT !.todo = u]]
    BY <1>1, Zenon DEF Repeat
  <1> HIDE DEF u
  <1>4. [c EXCEPT !.todo = u] \in Connected
    BY <1>1, <1>2 DEF Connected
  <1>5. Changed(s, c.host, TRUE, u, c.wire, c.buf, c.id, c.bye)
    BY <1>1, <1>3, <1>4 DEF Changed, Connected
  <1> QED BY <1>2, <1>5

(* A step of a server leaves the client what it follows. *)
LEMMA ServerStep ==
    ASSUME ConnInv, NEW s \in 1..Slots, pool[s].up,
           NEW on \in BOOLEAN, NEW u \in Seq(Sent), NEW v \in Seq(Sent),
           Changed(s, pool[s].host, on, u, v, pool[s].buf, pool[s].id, pool[s].bye),
           on /\ pool[s].bye => u # <<>>,
           \A i \in Nat : \A r \in Replies(i), k \in Nat : Follows(r, pool[s], k) =>
              FollowsIn(r, k, pool[s].buf, v, u, on, pool[s].bye),
           UNCHANGED <<get, last>>, NetOK(net')
    PROVE  ConnInv'
  <1> DEFINE c == pool[s]
             d == pool'[s]
  <1>1. /\ pool' \in [1..Slots -> Connected]
        /\ \A t \in 1..Slots \ {s} : pool'[t] = pool[t]
        /\ d.up = on /\ d.todo = u /\ d.wire = v /\ d.buf = c.buf /\ d.bye = c.bye
    BY DEF Changed
  <1>2. PoolOK(pool')
    <2>1. ASSUME NEW t \in 1..Slots, pool'[t].up, pool'[t].bye
          PROVE  pool'[t].todo # <<>>
      <3>1. CASE t = s
        BY <1>1, <2>1, <3>1
      <3>2. CASE t # s
        BY <1>1, <2>1, <3>2 DEF ConnInv, PoolOK
      <3> QED BY <3>1, <3>2
    <2> QED BY <1>1, <2>1 DEF PoolOK
  <1>3. get' = get /\ last' = last
    OBVIOUS
  <1>4. GetOK(get') /\ AnswerOwn'
    BY <1>3 DEF ConnInv, AnswerOwn
  <1>5. OnTheWay(get, pool')
    <2>1. CASE get.pc \notin {"write", "head", "body"}
      BY <2>1 DEF OnTheWay
    <2>2. CASE get.pc \in {"write", "head", "body"} /\ get.slot # s
      <3>1. get.slot \in 1..Slots \ {s}
        BY <2>2 DEF ConnInv, GetOK
      <3>2. pool'[get.slot] = pool[get.slot]
        BY <1>1, <3>1
      <3> QED BY <3>2, Zenon DEF ConnInv, OnTheWay
    <2>3. CASE get.pc \in {"write", "head", "body"} /\ get.slot = s
      <3>1. get.pc = "write" => pool'[get.slot].buf = <<>>
        BY <1>1, <2>3 DEF ConnInv, OnTheWay
      <3>2. ASSUME get.pc \in {"head", "body"}, get.clean
            PROVE  \E r \in Replies(get.id) : AnsweredBy(r, get, pool'[get.slot])
        <4>1. PICK r \in Replies(get.id) : AnsweredBy(r, get, c)
          BY <2>3, <3>2, Zenon DEF ConnInv, OnTheWay
        <4>2. get.id \in Nat /\ TakenBy(get) \in Nat
          <5>1. get.id \in Nat /\ get.body \in Seq(Sent)
            BY DEF ConnInv, GetOK, GetRec
          <5>2. Len(get.body) \in Nat
            BY <5>1, LenProperties, Zenon
          <5> QED BY <5>1, <5>2 DEF TakenBy
        <4>3. Follows(r, c, TakenBy(get)) /\ ~get.begun
          BY <4>1, Zenon DEF AnsweredBy
        <4>4. FollowsIn(r, TakenBy(get), c.buf, v, u, on, c.bye)
          BY <4>1, <4>2, <4>3, Zenon
        <4>5. Follows(r, d, TakenBy(get))
          BY <1>1, <4>4, Zenon DEF Follows
        <4>6. AnsweredBy(r, get, d)
          BY <4>1, <4>3, <4>5, Zenon DEF AnsweredBy
        <4> QED BY <2>3, <4>1, <4>6
      <3> QED BY <3>1, <3>2 DEF OnTheWay
    <2> QED BY <2>1, <2>2, <2>3
  <1> QED BY <1>2, <1>3, <1>4, <1>5 DEF ConnInv

LEMMA HeadIsFirst ==
    ASSUME NEW id \in Nat, NEW r \in Replies(id)
    PROVE  r \in Seq(Sent) /\ \A n \in 2..Len(r) : r[n].what # "head"
  <1>1. /\ r \in Seq(Sent) /\ Len(r) \in Nat
        /\ r[1].code = 304 => Len(r) = 1
        /\ r[1].code # 304 => /\ Len(r) = IF r[1].frame = "chunked" THEN 4 ELSE 3
                              /\ r[2] = Part(id, "one") /\ r[3] = Part(id, "two")
                              /\ r[1].frame = "chunked" => r[4] = Part(id, "last")
    BY ReplyFacts
  <1>2. \A w \in Whats : Part(id, w).what # "head"
    BY DEF Part, Whats
  <1>3. ASSUME NEW n \in 2..Len(r)
        PROVE  r[n].what # "head"
    <2>0. PICK l \in Nat : l = Len(r)
      BY <1>1
    <2>a. n \in 2..l /\ l # 1
      BY <2>0
    <2>2. r[1].code # 304
      BY <1>1, <2>0, <2>a, Zenon
    <2>b. (l = 4 /\ r[1].frame = "chunked") \/ l = 3
      BY <1>1, <2>0, <2>2
    <2>1. n = 2 \/ n = 3 \/ (n = 4 /\ r[1].frame = "chunked")
      BY <2>a, <2>b
    <2> QED BY <1>1, <1>2, <2>1, <2>2 DEF Whats
  <1> QED BY <1>1, <1>3

LEMMA SendKeeps ==
    ASSUME ConnInv, NEW s \in 1..Slots, Send(s)
    PROVE  ConnInv'
  <1> DEFINE c == pool[s]
             u == Tail(c.todo)
             v == Append(c.wire, Head(c.todo))
             on == ~(u = <<>> /\ c.bye)
  <1>1. PoolOK(pool) /\ c \in Connected /\ c.up /\ c.todo # <<>>
    BY DEF ConnInv, PoolOK, Send
  <1>2. c.todo \in Seq(Sent) /\ c.wire \in Seq(Sent) /\ c.buf \in Seq(Sent) /\ c.up = TRUE
    BY <1>1, LineParts
  <1>3. u \in Seq(Sent) /\ v \in Seq(Sent)
    <2>1. \A t \in Seq(Sent) : t # <<>> => Head(t) \in Sent /\ Tail(t) \in Seq(Sent)
      BY HeadTailProperties
    <2>2. \A w \in Seq(Sent), h \in Sent : Append(w, h) \in Seq(Sent)
      BY AppendProperties
    <2> QED BY <1>1, <1>2, <2>1, <2>2, Zenon
  <1>4. Changed(s, c.host, on, u, v, c.buf, c.id, c.bye)
    BY <1>1, SendChanges, Zenon
  <1>5. ASSUME NEW i \in Nat, NEW r \in Replies(i), NEW k \in Nat, Follows(r, c, k)
        PROVE  FollowsIn(r, k, c.buf, v, u, on, c.bye)
    <2>1. FollowsIn(r, k, c.buf, c.wire, c.todo, c.up, c.bye)
      BY <1>5 DEF Follows
    <2> QED BY <1>1, <1>2, <2>1, SentFollows, Zenon
  <1>6. UNCHANGED <<get, last>> /\ NetOK(net')
    BY DEF ConnInv, Send
  <1>7. on \in BOOLEAN /\ (on /\ c.bye => u # <<>>)
    OBVIOUS
  <1> HIDE DEF c, u, v, on
  <1> QED
    BY <1>1, <1>3, <1>4, <1>5, <1>6, <1>7, ServerStep, Zenon DEF c

LEMMA FaultCounts ==
    ASSUME NetOK(net), Fault
    PROVE  NetOK(net')
  BY DEF NetOK, Fault

LEMMA HangUpKeeps ==
    ASSUME ConnInv, NEW s \in 1..Slots, HangUp(s)
    PROVE  ConnInv'
  <1> DEFINE c == pool[s]
             e == <<>>
  <1>1. PoolOK(pool) /\ c \in Connected /\ c.up /\ e \in Seq(Sent)
    BY EmptySeq DEF ConnInv, PoolOK, HangUp
  <1>2. c.todo \in Seq(Sent) /\ c.wire \in Seq(Sent) /\ c.buf \in Seq(Sent) /\ c.up = TRUE
    BY <1>1, LineParts
  <1>3. Changed(s, c.host, FALSE, e, c.wire, c.buf, c.id, c.bye)
    BY <1>1, HangUpChanges, Zenon
  <1>4. ASSUME NEW i \in Nat, NEW r \in Replies(i), NEW k \in Nat, Follows(r, c, k)
        PROVE  FollowsIn(r, k, c.buf, c.wire, e, FALSE, c.bye)
    <2>1. FollowsIn(r, k, c.buf, c.wire, c.todo, TRUE, c.bye)
      BY <1>2, <1>4, Zenon DEF Follows
    <2>2. r \in Seq(Sent)
      BY <1>4, ReplyFacts, Zenon
    <2> QED BY <1>2, <2>1, <2>2, CutFollows, Zenon
  <1>5. UNCHANGED <<get, last>> /\ NetOK(net')
    BY FaultCounts DEF ConnInv, HangUp
  <1>6. FALSE \in BOOLEAN /\ ~(FALSE /\ c.bye)
    OBVIOUS
  <1> HIDE DEF c, e
  <1> QED
    BY <1>1, <1>2, <1>3, <1>4, <1>5, <1>6, ServerStep, Zenon DEF c

LEMMA TearHeadKeeps ==
    ASSUME ConnInv, NEW s \in 1..Slots, TearHead(s)
    PROVE  ConnInv'
  <1> DEFINE c == pool[s]
             e == <<>>
  <1>1. /\ PoolOK(pool) /\ c \in Connected /\ c.up /\ e \in Seq(Sent)
        /\ c.todo # <<>> /\ Head(c.todo).what = "head"
    BY EmptySeq DEF ConnInv, PoolOK, TearHead
  <1>2. c.todo \in Seq(Sent) /\ c.wire \in Seq(Sent) /\ c.buf \in Seq(Sent) /\ c.up = TRUE
    BY <1>1, LineParts
  <1>3. PICK h \in Sent : h.what = "half"
            /\ Changed(s, c.host, FALSE, e, Append(c.wire, h), c.buf, c.id, c.bye)
    BY <1>1, TearHeadChanges, Zenon
  <1>4. ASSUME NEW i \in Nat, NEW r \in Replies(i), NEW k \in Nat, Follows(r, c, k)
        PROVE  FollowsIn(r, k, c.buf, Append(c.wire, h), e, FALSE, c.bye)
    <2>1. FollowsIn(r, k, c.buf, c.wire, c.todo, TRUE, c.bye)
      BY <1>2, <1>4, Zenon DEF Follows
    <2>2. r \in Seq(Sent) /\ \A n \in 2..Len(r) : r[n].what # "head"
      BY <1>4, HeadIsFirst, Zenon
    <2> QED BY <1>1, <1>2, <1>3, <2>1, <2>2, TornFollows, Zenon
  <1>5. UNCHANGED <<get, last>> /\ NetOK(net')
    BY FaultCounts DEF ConnInv, TearHead
  <1>6. FALSE \in BOOLEAN /\ ~(FALSE /\ c.bye)
    OBVIOUS
  <1>7. Append(c.wire, h) \in Seq(Sent)
    <2>1. \A w \in Seq(Sent), x \in Sent : Append(w, x) \in Seq(Sent)
      BY AppendProperties
    <2> QED BY <1>2, <2>1, Zenon
  <1> HIDE DEF c, e
  <1> QED
    BY <1>1, <1>3, <1>4, <1>5, <1>6, <1>7, ServerStep, Zenon DEF c

LEMMA RepeatKeeps ==
    ASSUME ConnInv, NEW s \in 1..Slots, Repeat(s)
    PROVE  ConnInv'
  <1> DEFINE c == pool[s]
  <1>1. PoolOK(pool) /\ c \in Connected /\ c.up /\ c.todo = <<>> /\ ~c.bye
    BY DEF ConnInv, PoolOK, Repeat
  <1>2. c.wire \in Seq(Sent) /\ c.buf \in Seq(Sent) /\ c.up = TRUE /\ c.bye = FALSE
    BY <1>1, LineParts
  <1>3. PICK u \in Seq(Sent) : u # <<>> /\ Changed(s, c.host, TRUE, u, c.wire, c.buf, c.id, c.bye)
    BY <1>1, RepeatChanges, Zenon
  <1>4. ASSUME NEW i \in Nat, NEW r \in Replies(i), NEW k \in Nat, Follows(r, c, k)
        PROVE  FollowsIn(r, k, c.buf, c.wire, u, TRUE, c.bye)
    <2>1. FollowsIn(r, k, c.buf, c.wire, <<>>, TRUE, FALSE)
      BY <1>1, <1>2, <1>4, Zenon DEF Follows
    <2>2. r \in Seq(Sent)
      BY <1>4, ReplyFacts, Zenon
    <2> QED BY <1>2, <2>1, <2>2, RepeatFollows, Zenon
  <1>5. UNCHANGED <<get, last>> /\ NetOK(net')
    BY FaultCounts DEF ConnInv, Repeat
  <1>6. TRUE \in BOOLEAN /\ (TRUE /\ c.bye => u # <<>>)
    BY <1>3
  <1> HIDE DEF c
  <1> QED
    BY <1>1, <1>2, <1>3, <1>4, <1>5, <1>6, ServerStep, Zenon DEF c

----------------------------------------------------------------------------
(* The client.  A GET that ends, is tried again or goes elsewhere holds no *)
(* connection.                                                             *)
LEMMA FreeFits == Free \in Connected /\ ~Free.up /\ Free.buf = <<>>
  <1> DEFINE e == <<>>
  <1>1. e \in Seq(Sent) /\ Slots \in 0..Slots
    BY KeptConnectionAssumption, EmptySeq
  <1>2. Free = [host |-> "", up |-> FALSE, todo |-> e, wire |-> e, buf |-> e,
                id |-> 0, bye |-> FALSE, age |-> Slots]
    BY Zenon DEF Free
  <1> HIDE DEF e
  <1>3. Free \in Connected /\ ~Free.up /\ Free.buf = e
    BY <1>1, <1>2 DEF Connected
  <1> QED BY <1>3 DEF e

LEMMA NoGetFits == GetOK(NoGet) /\ NoGet.pc = "idle"
  <1> DEFINE e == <<>>
             n == [pc |-> "idle", host |-> "", hops |-> 0, tries |-> 0, slot |-> 0, id |-> 0,
                   reused |-> FALSE, begun |-> FALSE, clean |-> TRUE, code |-> 0,
                   frame |-> "none", bye |-> FALSE, body |-> e]
  <1>1. e \in Seq(Sent)
    BY EmptySeq
  <1>2. 0 \in 0..Slots
    BY KeptConnectionAssumption
  <1>3. NoGet = n
    BY Zenon DEF NoGet
  <1> HIDE DEF e
  <1>4. n \in GetRec
    BY <1>1, <1>2 DEF GetRec
  <1>5. GetOK(n) /\ n.pc = "idle"
    BY <1>4 DEF GetOK, e
  <1> QED BY <1>3, <1>5, Zenon

LEMMA AskingFits ==
    ASSUME NEW h \in Hosts \cup {""}, NEW hops \in Nat, NEW tries \in Nat
    PROVE  LET g == [NoGet EXCEPT !.pc = "take", !.host = h, !.hops = hops, !.tries = tries]
           IN GetOK(g) /\ g.pc = "take"
  <1> DEFINE g == [NoGet EXCEPT !.pc = "take", !.host = h, !.hops = hops, !.tries = tries]
  <1>1. NoGet \in GetRec
    BY NoGetFits DEF GetOK
  <1>2. ~NoGet.begun /\ NoGet.body = <<>>
    BY DEF NoGet
  <1>3. g \in GetRec /\ g.pc = "take" /\ g.begun = NoGet.begun /\ g.body = NoGet.body
    BY <1>1 DEF GetRec
  <1>4. GetOK(g)
    BY <1>2, <1>3 DEF GetOK
  <1> QED BY <1>3, <1>4

Elsewhere == GetOK(get') /\ get'.pc \in {"idle", "take"} /\ AnswerOwn'

LEMMA NowhereKeeps ==
    ASSUME Elsewhere, PoolOK(pool'), NetOK(net')
    PROVE  ConnInv'
  <1>1. OnTheWay(get', pool')
    BY DEF Elsewhere, OnTheWay
  <1> QED BY <1>1 DEF Elsewhere, ConnInv

LEMMA EndsElsewhere ==
    ASSUME NEW how, how # "kept", End(how)
    PROVE  Elsewhere
  <1>1. get' = NoGet /\ last'.how # "kept"
    BY DEF End, NoEnd
  <1>2. AnswerOwn'
    BY <1>1 DEF AnswerOwn
  <1>3. get'.pc \in {"idle", "take"}
    BY <1>1, NoGetFits
  <1> QED BY <1>1, <1>2, <1>3, NoGetFits, Zenon DEF Elsewhere

LEMMA AgainElsewhere ==
    ASSUME ConnInv, Again
    PROVE  Elsewhere
  <1>1. CASE get.tries = 0
    <2>1. /\ get' = [NoGet EXCEPT !.pc = "take", !.host = get.host, !.hops = get.hops, !.tries = 1]
          /\ last' = last
      BY <1>1, Zenon DEF Again
    <2>2. get.host \in Hosts \cup {""} /\ get.hops \in Nat
      BY DEF ConnInv, GetOK, GetRec
    <2>3. GetOK(get') /\ get'.pc = "take"
      <3>1. 1 \in Nat
        OBVIOUS
      <3> QED BY <2>1, <2>2, <3>1, AskingFits, Zenon
    <2>4. AnswerOwn'
      BY <2>1 DEF ConnInv, AnswerOwn
    <2> QED BY <2>3, <2>4 DEF Elsewhere
  <1>2. CASE get.tries # 0
    <2>1. End("failed") /\ "failed" # "kept"
      BY <1>2 DEF Again
    <2> QED BY <2>1, EndsElsewhere, Zenon
  <1> QED BY <1>1, <1>2

LEMMA DroppedFits ==
    ASSUME PoolOK(pool), NEW s
    PROVE  PoolOK(Dropped(s))
  <1>1. pool \in [1..Slots -> Connected]
    BY DEF PoolOK
  <1>2. Dropped(s) \in [1..Slots -> Connected]
    BY <1>1, FreeFits DEF Dropped
  <1>3. ASSUME NEW t \in 1..Slots, Dropped(s)[t].up, Dropped(s)[t].bye
        PROVE  Dropped(s)[t].todo # <<>>
    <2>1. Dropped(s)[t] = IF t = s THEN Free ELSE pool[t]
      BY <1>1 DEF Dropped
    <2> QED BY <1>3, <2>1, FreeFits DEF PoolOK
  <1> QED BY <1>2, <1>3 DEF PoolOK

LEMMA EmptiedFits ==
    ASSUME PoolOK(pool)
    PROVE  PoolOK(Emptied)
  <1>1. pool \in [1..Slots -> Connected]
    BY DEF PoolOK
  <1>2. Emptied \in [1..Slots -> Connected]
    BY <1>1, FreeFits DEF Emptied
  <1>3. ASSUME NEW t \in 1..Slots, Emptied[t].up, Emptied[t].bye
        PROVE  Emptied[t].todo # <<>>
    <2>1. Emptied[t] = Free \/ Emptied[t] = pool[t]
      BY DEF Emptied
    <2> QED BY <1>3, <2>1, FreeFits DEF PoolOK
  <1> QED BY <1>2, <1>3 DEF PoolOK

LEMMA PutFits ==
    ASSUME NEW p, PoolOK(p), NEW s, NEW c \in Connected, ~(c.up /\ c.bye)
    PROVE  PoolOK([p EXCEPT ![s] = c])
  <1> DEFINE q == [p EXCEPT ![s] = c]
  <1>1. p \in [1..Slots -> Connected]
    BY DEF PoolOK
  <1>2. q \in [1..Slots -> Connected]
    BY <1>1
  <1>3. ASSUME NEW t \in 1..Slots, q[t].up, q[t].bye
        PROVE  q[t].todo # <<>>
    <2>1. q[t] = IF t = s THEN c ELSE p[t]
      BY <1>1
    <2> QED BY <1>3, <2>1 DEF PoolOK
  <1> QED BY <1>2, <1>3 DEF PoolOK

LEMMA StampedFits ==
    ASSUME NEW p, PoolOK(p), NEW s \in 1..Slots
    PROVE  /\ PoolOK(Stamped(p, s))
           /\ \A t \in 1..Slots : Stamped(p, s)[t].buf = p[t].buf
  <1> DEFINE q == Stamped(p, s)
             age(t) == IF t = s THEN 0
                       ELSE IF p[t].age < p[s].age THEN p[t].age + 1 ELSE p[t].age
  <1>1. p \in [1..Slots -> Connected]
    BY DEF PoolOK
  <1>2. \A t \in 1..Slots : p[t] \in Connected /\ p[t].age \in 0..Slots
    BY <1>1 DEF Connected
  <1>3. \A t \in 1..Slots : age(t) \in 0..Slots
    BY <1>2, KeptConnectionAssumption
  <1>4. \A t \in 1..Slots : q[t] = [p[t] EXCEPT !.age = age(t)]
    BY DEF Stamped
  <1>5. q = [t \in 1..Slots |-> q[t]]
    BY DEF Stamped
  <1> HIDE DEF q, age
  <1>6. ASSUME NEW t \in 1..Slots
        PROVE  /\ q[t] \in Connected /\ q[t].buf = p[t].buf /\ q[t].todo = p[t].todo
               /\ q[t].up = p[t].up /\ q[t].bye = p[t].bye
    BY <1>2, <1>3, <1>4, ZenonT(60) DEF Connected
  <1>7. q \in [1..Slots -> Connected]
    BY <1>5, <1>6
  <1>8. PoolOK(q)
    BY <1>6, <1>7 DEF PoolOK
  <1> QED BY <1>6, <1>8 DEF q

(* The slot of a new connection is one of them. *)
Less == {mn \in Nat \X Nat : mn[1] < mn[2]}
LEMMA Least ==
    ASSUME NEW N \in SUBSET Nat, N # {}
    PROVE  \E n \in N : \A m \in N : n <= m
  <1>1. OpToRel(<, Nat) = Less
    BY DEF Less, OpToRel
  <1>2. PICK n \in N : \A m \in N : <<m, n>> \notin Less
    BY <1>1, NatLessThanWellFounded, WFMin
  <1>3. ASSUME NEW m \in N
        PROVE  n <= m
    <2>1. m \in Nat /\ n \in Nat
      OBVIOUS
    <2>2. ~(m < n)
      BY <1>2, <2>1 DEF Less
    <2> QED BY <2>1, <2>2
  <1> QED BY <1>3

LEMMA SlotIsOne ==
    ASSUME PoolOK(pool)
    PROVE  SlotFor \in 1..Slots
  <1> DEFINE free == {s \in 1..Slots : Emptied[s] = Free}
             oldest(s) == \A t \in 1..Slots : pool[s].age >= pool[t].age
  <1>1. CASE free # {}
    <2>1. free \in SUBSET Nat
      BY KeptConnectionAssumption
    <2>2. PICK n \in free : \A t \in free : n <= t
      BY <1>1, <2>1, Least
    <2>3. (CHOOSE s \in free : \A t \in free : s <= t) \in free
      BY <2>2
    <2> QED BY <1>1, <2>3 DEF SlotFor
  <1>2. CASE free = {}
    <2>1. \A s \in 1..Slots : pool[s].age \in 0..Slots
      BY DEF PoolOK, Connected
    <2>2. \E s \in 1..Slots : oldest(s)
      <3> DEFINE left == {Slots - pool[s].age : s \in 1..Slots}
      <3>1. left \in SUBSET Nat
        BY <2>1, KeptConnectionAssumption
      <3>2. Slots - pool[1].age \in left
        BY KeptConnectionAssumption
      <3>3. PICK n \in left : \A m \in left : n <= m
        BY <3>1, <3>2, Least
      <3>4. PICK s \in 1..Slots : n = Slots - pool[s].age
        OBVIOUS
      <3>5. ASSUME NEW t \in 1..Slots
            PROVE  pool[s].age >= pool[t].age
        <4>1. Slots - pool[s].age <= Slots - pool[t].age
          BY <3>3, <3>4
        <4>2. Slots \in Nat /\ pool[s].age \in Nat /\ pool[t].age \in Nat
          BY <2>1, KeptConnectionAssumption
        <4> QED BY <4>1, <4>2
      <3> QED BY <3>5
    <2>3. (CHOOSE s \in 1..Slots : oldest(s)) \in 1..Slots
      BY <2>2
    <2> QED BY <1>2, <2>3 DEF SlotFor
  <1> QED BY <1>1, <1>2

LEMMA GetFileKeeps ==
    ASSUME ConnInv, NEW h \in Hosts, GetFile(h)
    PROVE  ConnInv'
  <1>1. PoolOK(pool') /\ NetOK(net') /\ AnswerOwn'
    BY DEF ConnInv, NetOK, AnswerOwn, GetFile
  <1>2. Elsewhere
    <2>1. get' = [NoGet EXCEPT !.pc = "take", !.host = h, !.hops = NoGet.hops,
                               !.tries = NoGet.tries]
      BY NoGetFits DEF GetFile, GetOK, GetRec
    <2>2. h \in Hosts \cup {""} /\ NoGet.hops \in Nat /\ NoGet.tries \in Nat
      BY NoGetFits DEF GetOK, GetRec
    <2>3. GetOK(get') /\ get'.pc = "take"
      BY <2>1, <2>2, AskingFits, ZenonT(60)
    <2> QED BY <1>1, <2>3 DEF Elsewhere
  <1> QED BY <1>1, <1>2, NowhereKeeps, Zenon

LEMMA IdleCloseKeeps ==
    ASSUME ConnInv, IdleClose
    PROVE  ConnInv'
  <1>1. PoolOK(pool')
    <2>1. pool' = [s \in 1..Slots |-> Free]
      BY DEF IdleClose
    <2>2. pool' \in [1..Slots -> Connected]
      BY <2>1, FreeFits
    <2>3. \A s \in 1..Slots : ~pool'[s].up
      BY <2>1, FreeFits
    <2> QED BY <2>2, <2>3 DEF PoolOK
  <1>2. Elsewhere /\ NetOK(net')
    BY DEF ConnInv, AnswerOwn, IdleClose, Elsewhere
  <1> QED BY <1>1, <1>2, NowhereKeeps, Zenon

LEMMA CannotConnectKeeps ==
    ASSUME ConnInv, CannotConnect
    PROVE  ConnInv'
  <1>1. PoolOK(pool')
    <2>1. pool' = [Emptied EXCEPT ![SlotFor] = Free]
      BY DEF CannotConnect
    <2> QED BY <2>1, EmptiedFits, FreeFits, PutFits, Zenon DEF ConnInv
  <1>2. Elsewhere
    BY EndsElsewhere DEF CannotConnect
  <1>3. NetOK(net')
    BY FaultCounts DEF ConnInv, CannotConnect
  <1> QED BY <1>1, <1>2, <1>3, NowhereKeeps, Zenon

LEMMA DroppedKeeps ==
    ASSUME ConnInv, NEW s, pool' = Dropped(s), Elsewhere, NetOK(net')
    PROVE  ConnInv'
  <1>1. PoolOK(pool')
    BY DroppedFits, Zenon DEF ConnInv
  <1> QED BY <1>1, NowhereKeeps, Zenon

LEMMA GivingUpKeeps ==
    ASSUME ConnInv, CannotWrite \/ EndInHead \/ EndInBody \/ CannotKeep
    PROVE  ConnInv'
  <1>1. "failed" # "kept"
    OBVIOUS
  <1>2. pool' = Dropped(get.slot) /\ (Again \/ End("failed")) /\ (UNCHANGED net \/ Fault)
    BY DEF CannotWrite, EndInHead, EndInBody, CannotKeep
  <1>3. Elsewhere
    BY <1>1, <1>2, AgainElsewhere, EndsElsewhere, Zenon
  <1>4. NetOK(net')
    BY <1>2, FaultCounts DEF ConnInv
  <1> QED BY <1>2, <1>3, <1>4, DroppedKeeps, Zenon

LEMMA ReuseKeeps ==
    ASSUME ConnInv, Reuse
    PROVE  ConnInv'
  <1>1. PICK s \in Reusable : /\ pool' = Stamped(pool, s)
                              /\ get' = [get EXCEPT !.pc = "write", !.slot = s, !.reused = TRUE]
    BY DEF Reuse
  <1>2. s \in 1..Slots /\ pool[s].buf = <<>> /\ PoolOK(pool)
    BY DEF Reusable, ConnInv
  <1>3. PoolOK(pool') /\ pool'[s].buf = <<>>
    BY <1>1, <1>2, StampedFits, Zenon
  <1>4. get \in GetRec /\ get.pc = "take" /\ ~get.begun /\ get.body = <<>>
    BY DEF ConnInv, GetOK, Reuse
  <1>5. /\ get' \in GetRec /\ get'.pc = "write" /\ get'.slot = s
        /\ get'.begun = get.begun /\ get'.body = get.body
    <2>1. s \in 0..Slots
      BY <1>2, KeptConnectionAssumption
    <2> QED BY <1>1, <1>4, <2>1 DEF GetRec
  <1>6. GetOK(get')
    BY <1>2, <1>4, <1>5 DEF GetOK
  <1>7. OnTheWay(get', pool')
    BY <1>3, <1>5 DEF OnTheWay
  <1>8. NetOK(net') /\ AnswerOwn'
    BY DEF ConnInv, AnswerOwn, Reuse
  <1> QED BY <1>3, <1>6, <1>7, <1>8 DEF ConnInv

LEMMA ConnectKeeps ==
    ASSUME ConnInv, Connect
    PROVE  ConnInv'
  <1> DEFINE s == SlotFor
             c == [Free EXCEPT !.host = get.host, !.up = TRUE, !.age = pool[s].age]
             p == [Emptied EXCEPT ![s] = c]
  <1>1. /\ pool' = Stamped(p, s)
        /\ get' = [get EXCEPT !.pc = "write", !.slot = s]
    BY DEF Connect
  <1>2. s \in 1..Slots /\ PoolOK(pool)
    BY SlotIsOne DEF ConnInv
  <1>3. get \in GetRec /\ get.pc = "take" /\ ~get.begun /\ get.body = <<>>
    BY DEF ConnInv, GetOK, Connect
  <1>4. get.host \in Hosts \cup {""} /\ pool[s].age \in 0..Slots
    BY <1>2, <1>3 DEF GetRec, PoolOK, Connected
  <1> HIDE DEF s
  <1>5. c \in Connected /\ c.bye = Free.bye /\ c.buf = Free.buf
    BY <1>4, FreeFits DEF Connected
  <1>6. Free.bye = FALSE
    BY DEF Free
  <1>7. PoolOK(p) /\ p[s].buf = <<>>
    <2>1. PoolOK(Emptied)
      BY <1>2, EmptiedFits, Zenon
    <2>2. PoolOK(p)
      BY <2>1, <1>5, <1>6, PutFits, Zenon
    <2>3. p[s] = c
      BY <1>2, <2>1 DEF PoolOK
    <2> QED BY <2>2, <2>3, <1>5, FreeFits
  <1> HIDE DEF p
  <1>8. PoolOK(pool') /\ pool'[s].buf = <<>>
    BY <1>1, <1>2, <1>7, StampedFits, Zenon
  <1>9. /\ get' \in GetRec /\ get'.pc = "write" /\ get'.slot = s
        /\ get'.begun = get.begun /\ get'.body = get.body
    <2>1. s \in 0..Slots
      BY <1>2, KeptConnectionAssumption
    <2> QED BY <1>1, <1>3, <2>1 DEF GetRec
  <1>10. GetOK(get')
    BY <1>2, <1>3, <1>9 DEF GetOK
  <1>11. OnTheWay(get', pool')
    BY <1>8, <1>9 DEF OnTheWay
  <1>12. NetOK(net') /\ AnswerOwn'
    BY DEF ConnInv, AnswerOwn, Connect
  <1> QED BY <1>8, <1>10, <1>11, <1>12 DEF ConnInv

(* A request begins an answer, the one the server chose; or none comes. *)
LEMMA WriteKeeps ==
    ASSUME ConnInv, Write
    PROVE  ConnInv'
  <1> DEFINE s == get.slot
             c == pool[s]
             id == 1 + (net.sent % Ids)
             quiet == c.wire = <<>> /\ c.todo = <<>>
             e == <<>>
  <1>1. /\ get.pc = "write" /\ s \in 1..Slots /\ get \in GetRec /\ ~get.begun /\ get.body = e
        /\ c.buf = e /\ PoolOK(pool) /\ c \in Connected /\ net.sent \in Nat
    BY DEF ConnInv, GetOK, OnTheWay, NetOK, PoolOK, Write
  <1>2. id \in Nat
    BY <1>1, KeptConnectionAssumption
  <1>3. /\ net' = [net EXCEPT !.sent = id]
        /\ get' = [get EXCEPT !.pc = "head", !.id = id, !.clean = quiet]
        /\ UNCHANGED last
    BY DEF Write
  <1>4. /\ get' \in GetRec /\ get'.pc = "head" /\ get'.slot = s /\ get'.id = id
        /\ get'.begun = get.begun /\ get'.body = get.body /\ get'.clean = quiet
    BY <1>1, <1>2, <1>3 DEF GetRec
  <1>5. GetOK(get') /\ TakenBy(get') = 0 /\ get'.begun = FALSE
    BY <1>1, <1>4 DEF GetOK, TakenBy, GetRec
  <1>6. NetOK(net') /\ AnswerOwn'
    BY <1>2, <1>3 DEF ConnInv, NetOK, AnswerOwn
  <1>7. c.todo \in Seq(Sent) /\ c.up \in BOOLEAN /\ c.bye \in BOOLEAN
    BY <1>1, LineParts, Zenon
  <1>8. PoolOK(pool') /\ (quiet => \E r \in Replies(id) : Follows(r, pool'[s], 0))
    <2>1. CASE c.up /\ ~c.bye
      <3>1. PICK r \in Replies(id) :
                pool' = [pool EXCEPT ![s] = [c EXCEPT !.todo = c.todo \o r, !.id = id,
                                                      !.bye = r[1].bye]]
        BY <2>1, Zenon DEF Write
      <3>2. r \in Seq(Sent) /\ r # <<>> /\ r[1].bye \in BOOLEAN
        BY <1>2, ReplyFacts, Zenon
      <3>3. PICK u : u = c.todo \o r
        OBVIOUS
      <3>4. u \in Seq(Sent) /\ u # <<>> /\ (c.todo = <<>> => u = r)
        <4>1. \A a, b \in Seq(Sent) : b # <<>> => a \o b \in Seq(Sent) /\ a \o b # <<>>
          <5>1. ASSUME NEW a \in Seq(Sent), NEW b \in Seq(Sent), b # <<>>
                PROVE  a \o b \in Seq(Sent) /\ a \o b # <<>>
            <6>1. a \o b \in Seq(Sent) /\ Len(a \o b) = Len(a) + Len(b)
              BY ConcatProperties
            <6>2. Len(a) \in Nat /\ Len(b) \in Nat /\ Len(b) # 0
              BY <5>1, EmptySeq, LenProperties
            <6>3. Len(a \o b) # 0
              BY <6>1, <6>2
            <6> QED BY <6>1, <6>3, EmptySeq
          <5> QED BY <5>1
        <4>2. \A b \in Seq(Sent) : <<>> \o b = b
          BY ConcatEmptySeq
        <4> QED BY <1>7, <3>2, <3>3, <4>1, <4>2, Zenon
      <3>5. PICK d : d = [c EXCEPT !.todo = u, !.id = id, !.bye = r[1].bye]
        OBVIOUS
      <3>6. /\ d \in Connected /\ d.todo = u /\ d.bye = r[1].bye /\ d.up = c.up
            /\ d.buf = c.buf /\ d.wire = c.wire
        BY <1>1, <1>2, <3>2, <3>4, <3>5 DEF Connected
      <3>7. pool' = [pool EXCEPT ![s] = d]
        BY <3>1, <3>3, <3>5, Zenon
      <3>8. PoolOK(pool') /\ pool'[s] = d
        <4>1. pool \in [1..Slots -> Connected] /\ pool' \in [1..Slots -> Connected] /\ pool'[s] = d
          BY <1>1, <3>6, <3>7 DEF PoolOK
        <4>2. ASSUME NEW t \in 1..Slots, pool'[t].up, pool'[t].bye
              PROVE  pool'[t].todo # <<>>
          <5>1. pool'[t] = IF t = s THEN d ELSE pool[t]
            BY <3>7, <4>1
          <5> QED BY <1>1, <3>4, <3>6, <4>2, <5>1 DEF PoolOK
        <4> QED BY <4>1, <4>2 DEF PoolOK
      <3>9. ASSUME quiet
            PROVE  Follows(r, d, 0)
        <4>1. /\ FollowsIn(r, 0, e, e, r, TRUE, r[1].bye)
          BY <3>2, WrittenFollows, Zenon
        <4>2. d.buf = e /\ d.wire = e /\ d.todo = r /\ d.up = TRUE /\ d.bye = r[1].bye
          BY <1>1, <1>7, <2>1, <3>4, <3>6, <3>9
        <4> QED BY <4>1, <4>2, Zenon DEF Follows
      <3> QED BY <3>8, <3>9
    <2>2. CASE ~(c.up /\ ~c.bye)
      <3>1. pool' = pool
        BY <2>2, Zenon DEF Write
      <3>2. ASSUME quiet
            PROVE  \E r \in Replies(id) : Follows(r, c, 0)
        <4>1. c.up = FALSE
          BY <1>1, <1>7, <2>2, <3>2 DEF PoolOK
        <4>2. PICK r : r \in Replies(id)
          BY <1>2, RepeatIsSent, Zenon
        <4>3. FollowsIn(r, 0, e, e, e, FALSE, c.bye)
          <5>1. r \in Seq(Sent)
            BY <1>2, <4>2, ReplyFacts, Zenon
          <5> QED BY <5>1, UnwrittenFollows, Zenon
        <4>4. Follows(r, c, 0)
          <5>1. c.buf = e /\ c.wire = e /\ c.todo = e
            BY <1>1, <3>2
          <5> QED BY <4>1, <4>3, <5>1, Zenon DEF Follows
        <4> QED BY <4>2, <4>4
      <3> QED BY <1>1, <3>1, <3>2
    <2> QED BY <2>1, <2>2
  <1>9. OnTheWay(get', pool')
    <2>1. get'.pc # "write"
      BY <1>4
    <2>2. ASSUME get'.clean
          PROVE  \E r \in Replies(get'.id) : AnsweredBy(r, get', pool'[get'.slot])
      <3>1. PICK r \in Replies(id) : Follows(r, pool'[s], 0)
        BY <1>4, <1>8, <2>2
      <3>2. AnsweredBy(r, get', pool'[s])
        BY <1>4, <1>5, <3>1 DEF AnsweredBy
      <3> QED BY <1>4, <3>1, <3>2, Zenon
    <2> QED BY <2>1, <2>2 DEF OnTheWay
  <1> QED BY <1>5, <1>6, <1>8, <1>9 DEF ConnInv

(* What has come in is the client's to read. *)
LEMMA ReceivedAlike ==
    ASSUME NEW w \in Seq(Sent), NEW t \in Seq(Sent), w # <<>>
    PROVE  ComingIn(<<>>, w, t) # 0
  <1>1. PICK e : e = <<>>
    OBVIOUS
  <1>2. Len(e) = 0 /\ Len(w) \in Nat /\ Len(t) \in Nat /\ Len(w) # 0
    BY <1>1, EmptySeq, LenProperties
  <1>3. ComingIn(e, w, t) # 0
    BY <1>2 DEF ComingIn
  <1> QED BY <1>1, <1>3

LEMMA ReadableComes ==
    ASSUME NEW b \in Seq(Sent), NEW w \in Seq(Sent), NEW t \in Seq(Sent), b # <<>>
    PROVE  ComingIn(b, w, t) # 0
  <1>1. Len(b) \in Nat /\ Len(w) \in Nat /\ Len(t) \in Nat /\ Len(b) # 0
    BY EmptySeq, LenProperties
  <1> QED BY <1>1 DEF ComingIn

LEMMA ReceiveKeeps ==
    ASSUME ConnInv, Receive
    PROVE  ConnInv'
  <1> DEFINE s == get.slot
             c == pool[s]
             d == [c EXCEPT !.buf = c.wire, !.wire = <<>>]
  <1>1. /\ get.pc \in {"head", "body"} /\ s \in 1..Slots /\ PoolOK(pool)
        /\ pool \in [1..Slots -> Connected] /\ c \in Connected /\ c.buf = <<>> /\ c.wire # <<>>
    BY DEF ConnInv, GetOK, PoolOK, Receive, Reading, Line
  <1>2. c.todo \in Seq(Sent) /\ c.wire \in Seq(Sent) /\ c.buf \in Seq(Sent)
    BY <1>1, LineParts, Zenon
  <1>3. pool' = [pool EXCEPT ![s] = d]
    BY <1>1, Zenon DEF Receive, Line
  <1>4. /\ d \in Connected /\ d.buf = c.wire /\ d.wire = c.buf /\ d.todo = c.todo /\ d.up = c.up
        /\ d.bye = c.bye
    BY <1>1, <1>2 DEF Connected
  <1> HIDE DEF d
  <1>5. PoolOK(pool') /\ pool'[s] = d
    <2>1. pool' \in [1..Slots -> Connected] /\ pool'[s] = d
      BY <1>1, <1>3, <1>4
    <2>2. ASSUME NEW t \in 1..Slots, pool'[t].up, pool'[t].bye
          PROVE  pool'[t].todo # <<>>
      <3>1. pool'[t] = IF t = s THEN d ELSE pool[t]
        BY <1>1, <1>3
      <3> QED BY <1>1, <1>4, <2>2, <3>1 DEF PoolOK
    <2> QED BY <2>1, <2>2 DEF PoolOK
  <1>6. UNCHANGED <<get, last, net>>
    BY DEF Receive
  <1>7. OnTheWay(get, pool')
    <2>1. ASSUME get.clean
          PROVE  \E r \in Replies(get.id) : AnsweredBy(r, get, d)
      <3>1. PICK r \in Replies(get.id) : AnsweredBy(r, get, c)
        BY <1>1, <2>1 DEF ConnInv, OnTheWay
      <3>2. FollowsIn(r, TakenBy(get), <<>>, c.wire, c.todo, c.up, c.bye)
        BY <1>1, <3>1, Zenon DEF AnsweredBy, Follows
      <3>3. FollowsIn(r, TakenBy(get), c.wire, <<>>, c.todo, c.up, c.bye)
        BY <1>2, <3>2, ReceivedFollows, Zenon
      <3>4. Follows(r, d, TakenBy(get))
        BY <1>1, <1>4, <3>3, Zenon DEF Follows
      <3>5. ~get.begun
        <4>1. Coming(c) # 0
          BY <1>1, <1>2, ReceivedAlike, Zenon DEF Coming
        <4> QED BY <3>1, <4>1, Zenon DEF AnsweredBy
      <3>6. AnsweredBy(r, get, d)
        BY <3>1, <3>4, <3>5, Zenon DEF AnsweredBy
      <3> QED BY <3>1, <3>6
    <2> QED BY <1>1, <1>5, <2>1 DEF OnTheWay
  <1>8. GetOK(get') /\ NetOK(net') /\ AnswerOwn'
    BY <1>6 DEF ConnInv, AnswerOwn
  <1> QED BY <1>5, <1>6, <1>7, <1>8 DEF ConnInv

(* The client takes what is next; the connection has one thing less. *)
LEMMA UnreadFits ==
    ASSUME PoolOK(pool), NEW s, s = get.slot, s \in 1..Slots, pool[s].buf # <<>>, pool' = Unread
    PROVE  /\ PoolOK(pool')
           /\ pool'[s].buf = Tail(pool[s].buf) /\ pool'[s].wire = pool[s].wire
           /\ pool'[s].todo = pool[s].todo /\ pool'[s].up = pool[s].up
           /\ pool'[s].bye = pool[s].bye
           /\ pool[s].buf \in Seq(Sent) /\ pool[s].wire \in Seq(Sent) /\ pool[s].todo \in Seq(Sent)
           /\ Head(pool[s].buf) \in Sent
  <1> DEFINE c == pool[s]
             u == Tail(c.buf)
             d == [c EXCEPT !.buf = u]
  <1>1. pool \in [1..Slots -> Connected] /\ c \in Connected
    BY DEF PoolOK
  <1>2. c.todo \in Seq(Sent) /\ c.wire \in Seq(Sent) /\ c.buf \in Seq(Sent)
    BY <1>1, LineParts, Zenon
  <1>3. u \in Seq(Sent) /\ Head(c.buf) \in Sent
    <2>1. \A t \in Seq(Sent) : t # <<>> => Head(t) \in Sent /\ Tail(t) \in Seq(Sent)
      BY HeadTailProperties
    <2> QED BY <1>2, <2>1, Zenon
  <1>4. pool' = [pool EXCEPT ![s] = d]
    BY <1>1, Zenon DEF Unread
  <1> HIDE DEF u
  <1>5. /\ d \in Connected /\ d.buf = u /\ d.wire = c.wire /\ d.todo = c.todo /\ d.up = c.up
        /\ d.bye = c.bye
    BY <1>1, <1>3 DEF Connected
  <1> HIDE DEF d
  <1>6. pool' \in [1..Slots -> Connected] /\ pool'[s] = d
    BY <1>1, <1>4, <1>5
  <1>7. PoolOK(pool')
    <2>1. ASSUME NEW t \in 1..Slots, pool'[t].up, pool'[t].bye
          PROVE  pool'[t].todo # <<>>
      <3>1. pool'[t] = IF t = s THEN d ELSE pool[t]
        BY <1>1, <1>4
      <3> QED BY <1>5, <2>1, <3>1 DEF PoolOK
    <2> QED BY <1>6, <2>1 DEF PoolOK
  <1> QED BY <1>2, <1>3, <1>5, <1>6, <1>7 DEF u

LEMMA NothingFollows ==
    ASSUME NEW a \in Seq(Sent), NEW w \in Seq(Sent), NEW t \in Seq(Sent), NEW bye,
           NEW up, ~up, ComingIn(a, w, t) = 0, NEW r \in Seq(Sent)
    PROVE  FollowsIn(r, 0, a, w, t, up, bye)
  <1>1. Len(r) \in Nat
    BY LenProperties
  <1> QED BY <1>1 DEF FollowsIn

LEMMA ReadHeadKeeps ==
    ASSUME ConnInv, ReadHead
    PROVE  ConnInv'
  <1> DEFINE s == get.slot
             c == pool[s]
             x == Head(c.buf)
  <1>1. /\ get.pc = "head" /\ s \in 1..Slots /\ PoolOK(pool) /\ c.buf # <<>> /\ get \in GetRec
        /\ get.body = <<>> /\ UNCHANGED net /\ TakenBy(get) = 0 /\ pool[s] \in Connected
    BY DEF ConnInv, GetOK, PoolOK, ReadHead, Line, TakenBy
  <1>3. CASE x.what = "head" /\ ~get.begun
    <2>1. /\ get' = [get EXCEPT !.pc = "body", !.code = x.code, !.frame = x.frame, !.bye = x.bye]
          /\ pool' = Unread /\ last' = last
      BY <1>3 DEF ReadHead, Line
    <2>2. /\ PoolOK(pool')
          /\ pool'[s].buf = Tail(c.buf) /\ pool'[s].wire = c.wire /\ pool'[s].todo = c.todo
          /\ pool'[s].up = c.up /\ pool'[s].bye = c.bye
          /\ c.buf \in Seq(Sent) /\ c.wire \in Seq(Sent) /\ c.todo \in Seq(Sent) /\ x \in Sent
      BY <1>1, <2>1, UnreadFits, Zenon
    <2>3. x.code \in Nat /\ x.frame \in Frames /\ x.bye \in BOOLEAN
      BY <1>3, <2>2, PartsAreSent, Zenon
    <2>4. /\ get' \in GetRec /\ get'.pc = "body" /\ get'.slot = s /\ get'.id = get.id
          /\ get'.begun = get.begun /\ get'.body = get.body /\ get'.clean = get.clean
          /\ get'.code = x.code /\ get'.frame = x.frame
      BY <1>1, <2>1, <2>3 DEF GetRec
    <2>5. GetOK(get')
      BY <1>1, <2>4 DEF GetOK
    <2>6. ASSUME get.clean
          PROVE  \E r \in Replies(get.id) : AnsweredBy(r, get', pool'[s])
      <3>1. PICK r \in Replies(get.id) : AnsweredBy(r, get, c)
        BY <1>1, <2>6 DEF ConnInv, OnTheWay
      <3>2. get.id \in Nat
        BY <1>1 DEF GetRec
      <3>3. /\ r \in Seq(Sent) /\ Len(r) \in Nat /\ Len(r) >= 1
        BY <3>1, <3>2, ReplyFacts, Zenon
      <3>4. FollowsIn(r, TakenBy(get), c.buf, c.wire, c.todo, c.up, c.bye)
        BY <3>1, Zenon DEF AnsweredBy, Follows
      <3>5. PICK k \in Nat : k = 0
        OBVIOUS
      <3>a. k + 1 <= Len(r)
        BY <3>3, <3>5
      <3>b. FollowsIn(r, k, c.buf, c.wire, c.todo, c.up, c.bye)
        BY <1>1, <3>4, <3>5, Zenon
      <3>6. /\ FollowsIn(r, k + 1, Tail(c.buf), c.wire, c.todo, c.up, c.bye)
            /\ NextIn(x, r, k, Tail(c.buf), c.wire, c.todo, c.up)
        BY <1>1, <2>2, <3>3, <3>b, <3>a, TakenFollows, Zenon
      <3>7. x = r[1]
        BY <1>3, <3>5, <3>6 DEF NextIn
      <3>8. Len(get'.body) = 0
        BY <1>1, <2>4, EmptySeq
      <3>9. TakenBy(get') = k + 1
        BY <2>4, <3>5, <3>8 DEF TakenBy
      <3>10. Follows(r, pool'[s], TakenBy(get'))
        BY <2>2, <3>6, <3>9, Zenon DEF Follows
      <3>11. 1 + Len(get'.body) <= Len(r) /\ \A j \in 1..Len(get'.body) : get'.body[j] = r[j + 1]
        BY <3>3, <3>8
      <3>12. AnsweredBy(r, get', pool'[s])
        BY <1>3, <2>4, <3>7, <3>10, <3>11 DEF AnsweredBy
      <3> QED BY <3>1, <3>12
    <2>7. OnTheWay(get', pool')
      <3>1. get'.pc # "write"
        BY <2>4
      <3> QED BY <2>4, <2>6, <3>1, Zenon DEF OnTheWay
    <2>8. NetOK(net') /\ AnswerOwn'
      BY <1>1, <2>1 DEF ConnInv, AnswerOwn
    <2> QED BY <2>2, <2>5, <2>7, <2>8 DEF ConnInv
  <1>4. CASE x.what = "half"
    <2>1. get' = [get EXCEPT !.begun = TRUE] /\ pool' = Unread /\ last' = last
      BY <1>4 DEF ReadHead, Line
    <2>2. /\ PoolOK(pool')
          /\ pool'[s].buf = Tail(c.buf) /\ pool'[s].wire = c.wire /\ pool'[s].todo = c.todo
          /\ pool'[s].up = c.up /\ pool'[s].bye = c.bye
          /\ c.buf \in Seq(Sent) /\ c.wire \in Seq(Sent) /\ c.todo \in Seq(Sent) /\ x \in Sent
      BY <1>1, <2>1, UnreadFits, Zenon
    <2>3. /\ get' \in GetRec /\ get'.pc = "head" /\ get'.slot = s /\ get'.id = get.id
          /\ get'.body = get.body /\ get'.clean = get.clean
      BY <1>1, <2>1 DEF GetRec
    <2>4. GetOK(get') /\ TakenBy(get') = 0
      BY <1>1, <2>3 DEF GetOK, TakenBy
    <2>5. ASSUME get.clean
          PROVE  \E r \in Replies(get.id) : AnsweredBy(r, get', pool'[s])
      <3>1. PICK r \in Replies(get.id) : AnsweredBy(r, get, c)
        BY <1>1, <2>5 DEF ConnInv, OnTheWay
      <3>2. get.id \in Nat
        BY <1>1 DEF GetRec
      <3>3. r \in Seq(Sent) /\ Len(r) \in Nat /\ Len(r) >= 1 /\ r[1].what = "head"
        BY <3>1, <3>2, ReplyFacts, Zenon
      <3>4. FollowsIn(r, TakenBy(get), c.buf, c.wire, c.todo, c.up, c.bye)
        BY <3>1, Zenon DEF AnsweredBy, Follows
      <3>5. PICK k \in Nat : k = 0
        OBVIOUS
      <3>a. k + 1 <= Len(r)
        BY <3>3, <3>5
      <3>b. FollowsIn(r, k, c.buf, c.wire, c.todo, c.up, c.bye)
        BY <1>1, <3>4, <3>5, Zenon
      <3>6. NextIn(x, r, k, Tail(c.buf), c.wire, c.todo, c.up)
        BY <1>1, <2>2, <3>3, <3>b, <3>a, TakenFollows, Zenon
      <3>7. ~c.up /\ ComingIn(Tail(c.buf), c.wire, c.todo) = 0
        BY <1>4, <3>3, <3>5, <3>6 DEF NextIn
      <3>8. Tail(c.buf) \in Seq(Sent)
        <4>1. \A t \in Seq(Sent) : t # <<>> => Tail(t) \in Seq(Sent)
          BY HeadTailProperties
        <4> QED BY <1>1, <2>2, <4>1, Zenon
      <3>9. FollowsIn(r, 0, Tail(c.buf), c.wire, c.todo, c.up, c.bye)
        BY <2>2, <3>3, <3>7, <3>8, NothingFollows, Zenon
      <3>10. Follows(r, pool'[s], TakenBy(get'))
        BY <2>2, <2>4, <3>9, Zenon DEF Follows
      <3>11. ~pool'[s].up /\ Coming(pool'[s]) = 0
        BY <2>2, <3>7, Zenon DEF Coming
      <3>12. AnsweredBy(r, get', pool'[s])
        BY <2>3, <3>10, <3>11 DEF AnsweredBy
      <3> QED BY <3>1, <3>12
    <2>6. OnTheWay(get', pool')
      <3>1. get'.pc # "write"
        BY <2>3
      <3> QED BY <2>3, <2>5, <3>1, Zenon DEF OnTheWay
    <2>7. NetOK(net') /\ AnswerOwn'
      BY <1>1, <2>1 DEF ConnInv, AnswerOwn
    <2> QED BY <2>2, <2>4, <2>6, <2>7 DEF ConnInv
  <1>5. CASE x.what # "half" /\ ~(x.what = "head" /\ ~get.begun)
    <2>1. pool' = Dropped(s) /\ End("failed") /\ "failed" # "kept"
      BY <1>5 DEF ReadHead, Line
    <2>2. Elsewhere
      BY <2>1, EndsElsewhere, Zenon
    <2>3. NetOK(net')
      BY <1>1 DEF ConnInv
    <2> QED BY <2>1, <2>2, <2>3, DroppedKeeps, Zenon
  <1> QED BY <1>3, <1>4, <1>5

(* While the body is not whole, the answer goes on. *)
LEMMA AnswerGoesOn ==
    ASSUME NEW id \in Nat, NEW r \in Replies(id), NEW body \in Seq(Sent),
           1 + Len(body) <= Len(r), \A j \in 1..Len(body) : body[j] = r[j + 1],
           NEW b \in Seq(Sent), NEW w \in Seq(Sent), NEW t \in Seq(Sent), b # <<>>,
           NEW up, NEW bye, FollowsIn(r, 1 + Len(body), b, w, t, up, bye),
           r[1].code # 304, ~(r[1].frame = "length" /\ Len(body) = 2),
           ~(r[1].frame = "chunked" /\ body # <<>> /\ body[Len(body)].what = "last")
    PROVE  1 + Len(body) + 1 <= Len(r)
  <1>1. PICK n \in Nat : n = Len(body)
    BY LenProperties
  <1>2. PICK m \in Nat : m = ComingIn(b, w, t)
    BY InNat
  <1>3. m >= 1
    BY <1>2, ReadableComes
  <1>4. PICK l \in Nat : l = Len(r)
    BY ReplyFacts
  <1>5. /\ l = IF r[1].frame = "chunked" THEN 4 ELSE 3
        /\ r[1].frame = "chunked" => r[4] = Part(id, "last")
        /\ r[1].frame = "close" => r[1].bye
        /\ r[1].frame \in Frames
    BY <1>4, ReplyFacts, ZenonT(60)
  <1>6. CASE r[1].frame = "length"
    BY <1>1, <1>4, <1>5, <1>6, SMTT(60)
  <1>7. CASE r[1].frame = "close"
    <2>1. 1 + n + m <= l
      BY <1>1, <1>2, <1>4, <1>5, <1>7 DEF FollowsIn
    <2> QED BY <1>1, <1>3, <1>4, <2>1
  <1>8. CASE r[1].frame = "chunked"
    <2>1. ASSUME n = 3
          PROVE  FALSE
      <3>1. body[3] = r[4]
        BY <1>1, <2>1
      <3>2. r[4].what = "last"
        BY <1>5, <1>8 DEF Part
      <3>3. body # <<>>
        <4>1. PICK e : e = <<>>
          OBVIOUS
        <4>2. Len(e) = 0 /\ Len(body) # 0
          BY <1>1, <2>1, <4>1, EmptySeq
        <4> QED BY <4>1, <4>2
      <3> QED BY <1>1, <1>8, <2>1, <3>1, <3>2, <3>3
    <2> QED BY <1>1, <1>4, <1>5, <1>8, <2>1
  <1> QED BY <1>5, <1>6, <1>7, <1>8 DEF Frames

LEMMA ReadBodyKeeps ==
    ASSUME ConnInv, ReadBody
    PROVE  ConnInv'
  <1> DEFINE s == get.slot
             c == pool[s]
             x == Head(c.buf)
  <1>1. /\ get.pc = "body" /\ s \in 1..Slots /\ PoolOK(pool) /\ c.buf # <<>> /\ get \in GetRec
        /\ pool[s] \in Connected /\ get.body \in Seq(Sent) /\ get.id \in Nat
    BY DEF ConnInv, GetOK, GetRec, PoolOK, ReadBody, Line
  <1>2. /\ get' = [get EXCEPT !.body = Append(get.body, x)]
        /\ pool' = Unread /\ UNCHANGED <<last, net>>
    BY DEF ReadBody, Line
  <1>3. /\ PoolOK(pool')
        /\ pool'[s].buf = Tail(c.buf) /\ pool'[s].wire = c.wire /\ pool'[s].todo = c.todo
        /\ pool'[s].up = c.up /\ pool'[s].bye = c.bye
        /\ c.buf \in Seq(Sent) /\ c.wire \in Seq(Sent) /\ c.todo \in Seq(Sent) /\ x \in Sent
    BY <1>1, <1>2, UnreadFits, Zenon
  <1>4. PICK more : more = Append(get.body, x)
    OBVIOUS
  <1>5. more \in Seq(Sent)
    <2>1. \A w \in Seq(Sent), h \in Sent : Append(w, h) \in Seq(Sent)
      BY AppendProperties
    <2> QED BY <1>1, <1>3, <1>4, <2>1, Zenon
  <1>6. /\ get' \in GetRec /\ get'.pc = "body" /\ get'.slot = s /\ get'.id = get.id
        /\ get'.body = more /\ get'.clean = get.clean /\ get'.begun = get.begun
        /\ get'.code = get.code /\ get'.frame = get.frame
    BY <1>1, <1>2, <1>4, <1>5 DEF GetRec
  <1>7. GetOK(get')
    BY <1>1, <1>6 DEF GetOK
  <1>8. ASSUME get.clean
        PROVE  \E r \in Replies(get.id) : AnsweredBy(r, get', pool'[s])
    <2>1. PICK r \in Replies(get.id) : AnsweredBy(r, get, c)
      BY <1>1, <1>8 DEF ConnInv, OnTheWay
    <2>2. r \in Seq(Sent) /\ Len(r) \in Nat
      BY <1>1, <2>1, ReplyFacts, Zenon
    <2>3. PICK body \in Seq(Sent) : body = get.body
      BY <1>1
    <2>4. PICK k \in Nat : k = 1 + Len(body)
      BY <2>3, LenProperties
    <2>5. FollowsIn(r, k, c.buf, c.wire, c.todo, c.up, c.bye)
      <3>1. TakenBy(get) = k
        BY <1>1, <2>3, <2>4 DEF TakenBy
      <3> QED BY <2>1, <3>1, Zenon DEF AnsweredBy, Follows
    <2>6. /\ get.code = r[1].code /\ get.frame = r[1].frame
          /\ 1 + Len(body) <= Len(r) /\ \A j \in 1..Len(body) : body[j] = r[j + 1]
      BY <1>1, <2>1, <2>3 DEF AnsweredBy
    <2>7. k + 1 <= Len(r)
      <3>1. /\ r[1].code # 304 /\ ~(r[1].frame = "length" /\ Len(body) = 2)
            /\ ~(r[1].frame = "chunked" /\ body # <<>> /\ body[Len(body)].what = "last")
        BY <2>3, <2>6 DEF ReadBody, Whole
      <3>2. FollowsIn(r, 1 + Len(body), c.buf, c.wire, c.todo, c.up, c.bye)
        BY <2>4, <2>5, Zenon
      <3>3. 1 + Len(body) + 1 <= Len(r)
        BY <1>1, <1>3, <2>1, <2>6, <3>1, <3>2, AnswerGoesOn, ZenonT(60)
      <3> QED BY <2>4, <3>3
    <2>8. /\ FollowsIn(r, k + 1, Tail(c.buf), c.wire, c.todo, c.up, c.bye)
          /\ NextIn(x, r, k, Tail(c.buf), c.wire, c.todo, c.up)
      BY <1>1, <1>3, <2>2, <2>5, <2>7, TakenFollows, Zenon
    <2>9. k # 0 /\ Len(body) \in Nat
      BY <2>4, LenProperties
    <2>10. x = r[k + 1]
      BY <2>8, <2>9 DEF NextIn
    <2>11. /\ Len(more) = k
           /\ \A j \in 1..Len(body) : more[j] = body[j]
           /\ more[k] = x
      <3>1. more = Append(body, x)
        BY <1>4, <2>3
      <3>2. /\ Len(Append(body, x)) = Len(body) + 1
            /\ \A j \in 1..Len(body) : Append(body, x)[j] = body[j]
            /\ Append(body, x)[Len(body) + 1] = x
        BY <1>3, AppendProperties
      <3>3. Len(body) + 1 = k
        BY <2>4, <2>9
      <3> QED BY <3>1, <3>2, <3>3
    <2>12. /\ 1 + Len(more) <= Len(r)
           /\ \A j \in 1..Len(more) : more[j] = r[j + 1]
      <3>1. 1 + Len(more) <= Len(r)
        BY <2>7, <2>11
      <3>2. ASSUME NEW j \in 1..Len(more)
            PROVE  more[j] = r[j + 1]
        <4>1. j = k \/ j \in 1..Len(body)
          BY <2>4, <2>9, <2>11
        <4> QED BY <2>6, <2>10, <2>11, <4>1
      <3> QED BY <3>1, <3>2
    <2>13. TakenBy(get') = k + 1
      BY <1>6, <2>11 DEF TakenBy
    <2>14. Follows(r, pool'[s], TakenBy(get'))
      BY <1>3, <2>8, <2>13, Zenon DEF Follows
    <2>15. ~get.begun
      <3>1. Coming(c) # 0
        BY <1>1, <1>3, ReadableComes, Zenon DEF Coming
      <3> QED BY <2>1, <3>1, Zenon DEF AnsweredBy
    <2>16. AnsweredBy(r, get', pool'[s])
      BY <1>6, <2>6, <2>12, <2>14, <2>15, Zenon DEF AnsweredBy
    <2> QED BY <2>1, <2>16
  <1>9. OnTheWay(get', pool')
    <2>1. get'.pc # "write"
      BY <1>6
    <2> QED BY <1>6, <1>8, <2>1, Zenon DEF OnTheWay
  <1>10. NetOK(net') /\ AnswerOwn'
    BY <1>2 DEF ConnInv, AnswerOwn
  <1> QED BY <1>3, <1>7, <1>9, <1>10 DEF ConnInv

(* The body that is whole is the answer's. *)
OwnBody(body, id, frame) ==
    IF frame = "close" THEN \A i \in DOMAIN body : body[i].of = id
    ELSE body = Pieces(id, frame)

LEMMA PairTold ==
    ASSUME NEW S, NEW b \in Seq(S), NEW x \in S, NEW y \in S, Len(b) = 2, b[1] = x, b[2] = y
    PROVE  b = <<x, y>>
  <1>1. PICK q : q = <<x, y>>
    OBVIOUS
  <1>2. q \in Seq(S) /\ Len(q) = 2 /\ q[1] = x /\ q[2] = y
    BY <1>1, Tuples
  <1>3. \A i \in 1..Len(b) : b[i] = q[i]
    <2>1. \A i \in 1..2 : i = 1 \/ i = 2
      OBVIOUS
    <2> QED BY <1>2, <2>1
  <1> QED BY <1>1, <1>2, <1>3, SeqEqual

LEMMA TripleTold ==
    ASSUME NEW S, NEW b \in Seq(S), NEW x \in S, NEW y \in S, NEW z \in S,
           Len(b) = 3, b[1] = x, b[2] = y, b[3] = z
    PROVE  b = <<x, y, z>>
  <1>1. PICK q : q = <<x, y, z>>
    OBVIOUS
  <1>2. q \in Seq(S) /\ Len(q) = 3 /\ q[1] = x /\ q[2] = y /\ q[3] = z
    BY <1>1, Tuples
  <1>3. \A i \in 1..Len(b) : b[i] = q[i]
    <2>1. \A i \in 1..3 : i = 1 \/ i = 2 \/ i = 3
      OBVIOUS
    <2> QED BY <1>2, <2>1
  <1> QED BY <1>1, <1>2, <1>3, SeqEqual

LEMMA WholeIsTheAnswers ==
    ASSUME NEW id \in Nat, NEW r \in Replies(id), NEW body \in Seq(Sent),
           1 + Len(body) <= Len(r), \A j \in 1..Len(body) : body[j] = r[j + 1],
           r[1].code # 304, NEW frame, frame = r[1].frame,
           \/ frame = "length" /\ Len(body) = 2
           \/ frame = "chunked" /\ body # <<>> /\ body[Len(body)].what = "last"
           \/ frame = "close"
    PROVE  OwnBody(body, id, frame)
  <1>0. Part(id, "one") \in Sent /\ Part(id, "two") \in Sent /\ Part(id, "last") \in Sent
    BY PartsAreSent DEF Whats
  <1>1. PICK n \in Nat : n = Len(body)
    BY LenProperties
  <1>2. PICK l \in Nat : l = Len(r)
    BY ReplyFacts
  <1>3. /\ l = IF frame = "chunked" THEN 4 ELSE 3
        /\ r[2] = Part(id, "one") /\ r[3] = Part(id, "two")
        /\ frame = "chunked" => r[4] = Part(id, "last")
    BY <1>2, ReplyFacts, ZenonT(60)
  <1>4. /\ Part(id, "one").of = id /\ Part(id, "two").of = id
        /\ Part(id, "one").what # "last" /\ Part(id, "two").what # "last"
    BY DEF Part
  <1>5. 1 + n <= l /\ DOMAIN body = 1..n
    BY <1>1, <1>2, LenProperties
  <1>6. CASE frame = "close"
    <2>1. ASSUME NEW i \in DOMAIN body
          PROVE  body[i].of = id
      <3>1. i = 1 \/ i = 2
        BY <1>3, <1>5, <1>6
      <3>2. body[i] = r[i + 1]
        BY <1>1, <1>5
      <3> QED BY <1>3, <1>4, <3>1, <3>2
    <2> QED BY <1>6, <2>1 DEF OwnBody
  <1>7. CASE frame = "length"
    <2>1. n = 2
      BY <1>1, <1>7
    <2>2. body[1] = Part(id, "one") /\ body[2] = Part(id, "two")
      BY <1>1, <1>3, <2>1
    <2>3. body = <<Part(id, "one"), Part(id, "two")>>
      <3>1. Len(body) = 2
        BY <1>1, <2>1
      <3> QED BY <1>0, <2>2, <3>1, PairTold
    <2>4. frame # "close" /\ frame # "chunked"
      BY <1>7
    <2> QED BY <2>3, <2>4, Zenon DEF Pieces, OwnBody
  <1>8. CASE frame = "chunked"
    <2>1. body # <<>> /\ body[n].what = "last"
      BY <1>1, <1>8
    <2>2. n >= 1 /\ n <= 3
      <3>1. n # 0
        BY <1>1, <2>1, EmptySeq
      <3> QED BY <1>3, <1>5, <1>8, <3>1
    <2>3. body[n] = r[n + 1]
      BY <1>1, <2>2
    <2>4. n = 3
      <3>1. n = 1 => body[n] = Part(id, "one")
        BY <1>3, <2>3
      <3>2. n = 2 => body[n] = Part(id, "two")
        BY <1>3, <2>3
      <3> QED BY <1>4, <2>1, <2>2, <3>1, <3>2
    <2>5. body[1] = Part(id, "one") /\ body[2] = Part(id, "two") /\ body[3] = Part(id, "last")
      BY <1>1, <1>3, <1>8, <2>4
    <2>6. body = <<Part(id, "one"), Part(id, "two"), Part(id, "last")>>
      <3>1. Len(body) = 3
        BY <1>1, <2>4
      <3> QED BY <1>0, <2>5, <3>1, TripleTold
    <2>7. frame # "close"
      BY <1>8
    <2> QED BY <1>8, <2>6, <2>7, Zenon DEF Pieces, OwnBody
  <1> QED BY <1>6, <1>7, <1>8, Zenon

LEMMA FinishKeeps ==
    ASSUME ConnInv, Finish
    PROVE  ConnInv'
  <1>1. /\ get.pc = "body" /\ Whole /\ PoolOK(pool) /\ get \in GetRec /\ UNCHANGED net
        /\ get.body \in Seq(Sent) /\ get.id \in Nat
    BY DEF ConnInv, GetOK, GetRec, Finish
  <1>2. PoolOK(pool')
    <2>1. pool' = pool \/ pool' = Dropped(get.slot)
      BY DEF Finish
    <2> QED BY <1>1, <2>1, DroppedFits, Zenon
  <1>3. Elsewhere
    <2>1. CASE get.code = 200
      <3>1. /\ get' = NoGet
            /\ last' = [how |-> "kept", id |-> get.id, clean |-> get.clean, frame |-> get.frame,
                        body |-> get.body]
        BY <2>1 DEF Finish, End
      <3>2. /\ last'.id = get.id /\ last'.clean = get.clean /\ last'.frame = get.frame
            /\ last'.body = get.body
        BY <3>1
      <3>3. ASSUME get.clean
            PROVE  OwnBody(get.body, get.id, get.frame)
        <4>1. PICK r \in Replies(get.id) : AnsweredBy(r, get, pool[get.slot])
          BY <1>1, <3>3 DEF ConnInv, OnTheWay
        <4>2. /\ get.code = r[1].code /\ get.frame = r[1].frame
              /\ 1 + Len(get.body) <= Len(r)
              /\ \A j \in 1..Len(get.body) : get.body[j] = r[j + 1]
          BY <1>1, <4>1, Zenon DEF AnsweredBy
        <4>3. r[1].code # 304
          BY <2>1, <4>2
        <4>4. \/ get.frame = "length" /\ Len(get.body) = 2
              \/ get.frame = "chunked" /\ get.body # <<>> /\ get.body[Len(get.body)].what = "last"
              \/ get.frame = "close"
          BY <1>1, <4>2, <4>3, Zenon DEF Whole
        <4> QED BY <1>1, <4>1, <4>2, <4>3, <4>4, WholeIsTheAnswers, Zenon
      <3>4. AnswerOwn'
        BY <3>2, <3>3, Zenon DEF AnswerOwn, OwnBody
      <3>5. get'.pc \in {"idle", "take"}
        BY <3>1, NoGetFits
      <3> QED BY <3>1, <3>4, <3>5, NoGetFits, Zenon DEF Elsewhere
    <2>2. CASE \E how \in {"absent", "failed"} : End(how)
      <3>1. PICK how \in {"absent", "failed"} : End(how)
        BY <2>2
      <3>2. how # "kept"
        OBVIOUS
      <3> QED BY <3>1, <3>2, EndsElsewhere, Zenon
    <2>3. CASE /\ \E h \in Hosts :
                    get' = [NoGet EXCEPT !.pc = "take", !.host = h, !.hops = get.hops + 1]
               /\ UNCHANGED last
      <3>1. PICK h \in Hosts :
                get' = [NoGet EXCEPT !.pc = "take", !.host = h, !.hops = get.hops + 1]
        BY <2>3
      <3>2. PICK hops \in Nat : hops = get.hops + 1
        <4>1. get.hops \in Nat
          BY <1>1 DEF GetRec
        <4> QED BY <4>1
      <3>3. NoGet.tries \in Nat /\ NoGet \in GetRec /\ h \in Hosts \cup {""}
        BY NoGetFits DEF GetOK, GetRec
      <3>4. get' = [NoGet EXCEPT !.pc = "take", !.host = h, !.hops = hops, !.tries = NoGet.tries]
        BY <3>1, <3>2, <3>3 DEF GetRec
      <3>5. GetOK(get') /\ get'.pc = "take"
        BY <3>2, <3>3, <3>4, AskingFits, ZenonT(60)
      <3>6. AnswerOwn'
        BY <2>3 DEF ConnInv, AnswerOwn
      <3> QED BY <3>5, <3>6 DEF Elsewhere
    <2>4. \/ get.code = 200
          \/ \E how \in {"absent", "failed"} : End(how)
          \/ /\ \E h \in Hosts :
                    get' = [NoGet EXCEPT !.pc = "take", !.host = h, !.hops = get.hops + 1]
             /\ UNCHANGED last
      <3>1. CASE get.code = 404
        BY <3>1 DEF Finish
      <3>2. CASE get.code = 302 /\ get.hops + 1 < Hops
        BY <3>2 DEF Finish
      <3>3. CASE get.code # 200 /\ get.code # 404 /\ ~(get.code = 302 /\ get.hops + 1 < Hops)
        BY <3>3 DEF Finish
      <3> QED BY <3>1, <3>2, <3>3
    <2> QED BY <2>1, <2>2, <2>3, <2>4
  <1>4. NetOK(net')
    BY <1>1 DEF ConnInv
  <1> QED BY <1>2, <1>3, <1>4, NowhereKeeps, Zenon

LEMMA ConnStart == ConnInit => ConnInv
  <1> SUFFICES ASSUME ConnInit
               PROVE  ConnInv
    OBVIOUS
  <1>1. PoolOK(pool)
    <2>1. pool = [s \in 1..Slots |-> Free]
      BY DEF ConnInit
    <2> QED BY <2>1, FreeFits DEF PoolOK
  <1>2. GetOK(get) /\ get.pc = "idle"
    BY NoGetFits DEF ConnInit
  <1>3. OnTheWay(get, pool)
    BY <1>2 DEF OnTheWay
  <1>4. NetOK(net) /\ AnswerOwn
    BY DEF ConnInit, NetOK, AnswerOwn, NoEnd
  <1> QED BY <1>1, <1>2, <1>3, <1>4 DEF ConnInv

LEMMA ConnStep == ConnInv /\ [ConnNext]_connVars => ConnInv'
  <1> SUFFICES ASSUME ConnInv, [ConnNext]_connVars
               PROVE  ConnInv'
    OBVIOUS
  <1>1. CASE \E h \in Hosts : GetFile(h)
    BY <1>1, GetFileKeeps
  <1>2. CASE Reuse \/ Connect \/ CannotConnect \/ Write
    BY <1>2, ReuseKeeps, ConnectKeeps, CannotConnectKeeps, WriteKeeps
  <1>3. CASE Receive \/ ReadHead \/ ReadBody \/ Finish
    BY <1>3, ReceiveKeeps, ReadHeadKeeps, ReadBodyKeeps, FinishKeeps
  <1>4. CASE CannotWrite \/ EndInHead \/ EndInBody \/ CannotKeep
    BY <1>4, GivingUpKeeps
  <1>5. CASE IdleClose
    BY <1>5, IdleCloseKeeps
  <1>6. CASE \E s \in 1..Slots : Send(s) \/ HangUp(s) \/ TearHead(s) \/ Repeat(s)
    BY <1>6, SendKeeps, HangUpKeeps, TearHeadKeeps, RepeatKeeps
  <1>7. CASE UNCHANGED connVars
    <2>1. UNCHANGED <<pool, get, last, net>>
      BY <1>7 DEF connVars
    <2> QED BY <2>1 DEF ConnInv, AnswerOwn
  <1> QED BY <1>1, <1>2, <1>3, <1>4, <1>5, <1>6, <1>7 DEF ConnNext, Client

(* A file kept from a connection where nothing was still under way is the  *)
(* whole answer to its own request, however many requests, hang-ups,       *)
(* answers sent twice and redirects came before; a body without framing    *)
(* may be cut, and holds nothing of another's.                             *)
THEOREM AnswerOwnAlways == ConnSpec => []AnswerOwn
  <1>1. ConnInv => AnswerOwn
    BY DEF ConnInv
  <1> QED BY <1>1, ConnStart, ConnStep, PTL DEF ConnSpec

=============================================================================
