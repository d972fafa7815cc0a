--------------------------- MODULE KeptConnection ---------------------------
(***************************************************************************)
(* The HTTP client of the network: a connection is kept after an answer    *)
(* and used for the next request to the same place, a GET whose kept       *)
(* connection turns out to be gone is sent once more on a new one, and a   *)
(* redirect is followed.  The servers answer, hang up at any moment, and   *)
(* may send an answer twice.  A host stands for a scheme, host and port;   *)
(* bytes are the parts below, and each body has two pieces.                *)
(***************************************************************************)
EXTENDS Naturals, Sequences, FiniteSets

CONSTANTS
    Hosts,        \* what is asked: scheme, host and port
    Slots,        \* NET_POOL: the connections that may be kept
    Hops,         \* requests a GET may become by redirects
    KeepAlive,    \* FALSE: PKG_NO_KEEPALIVE is set
    Ids,          \* bound: requests told apart from each other
    MaxGets,      \* bound: files asked for
    MaxFaults     \* bound: hang-ups, answers sent twice, writes refused

ASSUME KeptConnectionAssumption ==
    /\ Slots \in Nat \ {0} /\ Hops \in Nat \ {0} /\ KeepAlive \in BOOLEAN
    /\ Ids \in Nat \ {0} /\ MaxGets \in Nat /\ MaxFaults \in Nat

VARIABLES
    pool,         \* the connections, each with its server's end
    get,          \* the file being fetched
    last,         \* history: how the GET before ended, and what was kept
    net           \* the last request's id, files asked for, faults

connVars == <<pool, get, last, net>>

Free == [host |-> "", up |-> FALSE, todo |-> <<>>, wire |-> <<>>, buf |-> <<>>,
         id |-> 0, bye |-> FALSE, age |-> Slots]
NoGet == [pc |-> "idle", host |-> "", hops |-> 0, tries |-> 0, slot |-> 0, id |-> 0,
          reused |-> FALSE, begun |-> FALSE, clean |-> TRUE, code |-> 0,
          frame |-> "none", bye |-> FALSE, body |-> <<>>]
NoEnd == [how |-> "none", id |-> 0, clean |-> TRUE, frame |-> "none", body |-> <<>>]

ConnInit ==
    /\ pool = [s \in 1..Slots |-> Free]
    /\ get = NoGet
    /\ last = NoEnd
    /\ net = [sent |-> 0, gets |-> 0, faults |-> 0]

Used(s) == pool[s].host # ""

----------------------------------------------------------------------------
(* The answers a server may give to request id: a head that says how the   *)
(* body is framed and whether the connection ends, and the body.  304 says *)
(* a length and sends no body.                                             *)
Part(id, what) == [of |-> id, what |-> what]
HeadOf(id, code, frame, bye) ==
    [of |-> id, what |-> "head", code |-> code, frame |-> frame, bye |-> bye]

Pieces(id, frame) ==
    IF frame = "chunked" THEN <<Part(id, "one"), Part(id, "two"), Part(id, "last")>>
                         ELSE <<Part(id, "one"), Part(id, "two")>>

Answer(id, code, frame, bye) ==
    <<HeadOf(id, code, frame, bye)>> \o IF code = 304 THEN <<>> ELSE Pieces(id, frame)

Replies(id) ==
    {Answer(id, 200, f, FALSE) : f \in {"length", "chunked"}}
    \cup {Answer(id, 200, f, TRUE) : f \in {"length", "close"}}
    \cup {Answer(id, c, "length", FALSE) : c \in {302, 304, 404}}

(* The server's end sends the next item, and closes after the last of an   *)
(* answer that said so.                                                    *)
Send(s) ==
    /\ Used(s) /\ pool[s].up /\ pool[s].todo # <<>>
    /\ LET rest == Tail(pool[s].todo)
       IN pool' = [pool EXCEPT ![s].wire = Append(@, Head(pool[s].todo)),
                               ![s].todo = rest,
                               ![s].up = ~ (rest = <<>> /\ pool[s].bye)]
    /\ UNCHANGED <<get, last, net>>

Fault == net.faults < MaxFaults /\ net' = [net EXCEPT !.faults = @ + 1]

(* It closes at any moment: a kept connection timed out, or it stopped.    *)
HangUp(s) ==
    /\ Used(s) /\ pool[s].up /\ Fault
    /\ pool' = [pool EXCEPT ![s].up = FALSE, ![s].todo = <<>>]
    /\ UNCHANGED <<get, last>>

(* It closes in the middle of a head. *)
TearHead(s) ==
    /\ Used(s) /\ pool[s].up /\ Fault
    /\ pool[s].todo # <<>> /\ Head(pool[s].todo).what = "head"
    /\ pool' = [pool EXCEPT ![s].up = FALSE, ![s].todo = <<>>,
                            ![s].wire = Append(@, Part(Head(pool[s].todo).of, "half"))]
    /\ UNCHANGED <<get, last>>

(* It answers a request a second time. *)
Repeat(s) ==
    /\ Used(s) /\ pool[s].up /\ pool[s].todo = <<>> /\ pool[s].id # 0 /\ Fault
    /\ pool' = [pool EXCEPT ![s].todo = Answer(pool[s].id, 200, "length", FALSE)]
    /\ UNCHANGED <<get, last>>

----------------------------------------------------------------------------
(* How a GET ends, and the one that is tried again or sent elsewhere.      *)
End(how) ==
    /\ last' = IF how = "kept"
               THEN [how |-> how, id |-> get.id, clean |-> get.clean,
                     frame |-> get.frame, body |-> get.body]
               ELSE [NoEnd EXCEPT !.how = how]
    /\ get' = NoGet

Dropped(s) == [pool EXCEPT ![s] = Free]

(* The kept connection was not there any more: once more, on a new one.    *)
Again ==
    IF get.tries = 0
    THEN get' = [NoGet EXCEPT !.pc = "take", !.host = get.host, !.hops = get.hops, !.tries = 1]
         /\ UNCHANGED last
    ELSE End("failed")

GetFile(h) ==
    /\ get.pc = "idle" /\ net.gets < MaxGets
    /\ get' = [NoGet EXCEPT !.pc = "take", !.host = h]
    /\ net' = [net EXCEPT !.gets = @ + 1]
    /\ UNCHANGED <<pool, last>>

(* The connection already open to this host; with bytes left over its      *)
(* framing is not trusted.                                                 *)
ReusableAlways ==
    {s \in 1..Slots : /\ Used(s) /\ pool[s].host = get.host
                      /\ KeepAlive /\ get.tries = 0}

Reusable ==
    {s \in 1..Slots : /\ Used(s) /\ pool[s].host = get.host /\ pool[s].buf = <<>>
                      /\ KeepAlive /\ get.tries = 0}

(* Else none to the same place stays, and a free slot or the one used      *)
(* longest ago is taken.                                                   *)
Emptied == [s \in 1..Slots |-> IF pool[s].host = get.host THEN Free ELSE pool[s]]
SlotFor ==
    LET free == {s \in 1..Slots : Emptied[s] = Free}
    IN IF free # {} THEN CHOOSE s \in free : \A t \in free : s <= t
       ELSE CHOOSE s \in 1..Slots : \A t \in 1..Slots : pool[s].age >= pool[t].age

(* The stamps: how many connections were used since. *)
Stamped(p, s) ==
    [t \in 1..Slots |-> [p[t] EXCEPT !.age = IF t = s THEN 0
                                             ELSE IF @ < p[s].age THEN @ + 1 ELSE @]]

Reuse ==
    /\ get.pc = "take"
    /\ \E s \in Reusable :
         /\ pool' = Stamped(pool, s)
         /\ get' = [get EXCEPT !.pc = "write", !.slot = s, !.reused = TRUE]
    /\ UNCHANGED <<last, net>>

Connect ==
    /\ get.pc = "take" /\ Reusable = {}
    /\ LET c == SlotFor
       IN /\ pool' = Stamped([Emptied EXCEPT ![c] = [Free EXCEPT !.host = get.host, !.up = TRUE,
                                                                !.age = pool[c].age]], c)
          /\ get' = [get EXCEPT !.pc = "write", !.slot = c]
    /\ UNCHANGED <<last, net>>

CannotConnect ==
    /\ get.pc = "take" /\ Reusable = {} /\ Fault
    /\ pool' = [Emptied EXCEPT ![SlotFor] = Free]
    /\ End("failed")

(* The request goes out; to a server that has closed, or will after the    *)
(* answer it is sending, it may still, and be lost.                        *)
Write ==
    /\ get.pc = "write"
    /\ LET s == get.slot  id == 1 + (net.sent % Ids)
       IN /\ net' = [net EXCEPT !.sent = id]
          /\ get' = [get EXCEPT !.pc = "head", !.id = id,
                         !.clean = pool[s].wire = <<>> /\ pool[s].todo = <<>>]
          /\ IF pool[s].up /\ ~ pool[s].bye
             THEN \E r \in Replies(id) :
                    pool' = [pool EXCEPT ![s].todo = @ \o r, ![s].id = id,
                                         ![s].bye = r[1].bye]
             ELSE UNCHANGED pool
    /\ UNCHANGED last

CannotWrite ==
    /\ get.pc = "write" /\ ~ pool[get.slot].up
    /\ pool' = Dropped(get.slot)
    /\ IF get.reused THEN Again ELSE End("failed")
    /\ UNCHANGED net

----------------------------------------------------------------------------
Reading == get.pc \in {"head", "body"}
Line == pool[get.slot]
AtEndNever == FALSE

AtEnd == Line.buf = <<>> /\ Line.wire = <<>> /\ ~ Line.up

(* What has come in goes to the connection's buffer. *)
Receive ==
    /\ Reading /\ Line.buf = <<>> /\ Line.wire # <<>>
    /\ pool' = [pool EXCEPT ![get.slot].buf = Line.wire, ![get.slot].wire = <<>>]
    /\ UNCHANGED <<get, last, net>>

Unread == [pool EXCEPT ![get.slot].buf = Tail(@)]

(* The head: what follows it stays for the body.  Anything else there is   *)
(* no answer of HTTP.                                                      *)
ReadHead ==
    /\ get.pc = "head" /\ Line.buf # <<>>
    /\ LET i == Head(Line.buf)
       IN CASE i.what = "head" /\ ~ get.begun ->
                 /\ get' = [get EXCEPT !.pc = "body", !.code = i.code, !.frame = i.frame,
                                       !.bye = i.bye]
                 /\ pool' = Unread
                 /\ UNCHANGED last
            [] i.what = "half" ->
                 /\ get' = [get EXCEPT !.begun = TRUE]
                 /\ pool' = Unread
                 /\ UNCHANGED last
            [] OTHER -> pool' = Dropped(get.slot) /\ End("failed")
    /\ UNCHANGED net

(* It closed before any of the answer, or in the head. *)
EndInHead ==
    /\ get.pc = "head" /\ AtEnd
    /\ pool' = Dropped(get.slot)
    /\ IF get.reused /\ ~ get.begun THEN Again ELSE End("failed")
    /\ UNCHANGED net

(* The body is whole by its framing, whatever the answer is; without       *)
(* framing it ends with the connection.                                    *)
Whole ==
    \/ get.code = 304
    \/ get.frame = "length" /\ Len(get.body) = 2
    \/ get.frame = "chunked" /\ get.body # <<>> /\ get.body[Len(get.body)].what = "last"
    \/ get.frame = "close" /\ AtEnd

ReadBody ==
    /\ get.pc = "body" /\ ~ Whole /\ Line.buf # <<>>
    /\ get' = [get EXCEPT !.body = Append(@, Head(Line.buf))]
    /\ pool' = Unread
    /\ UNCHANGED <<last, net>>

EndInBody ==
    /\ get.pc = "body" /\ ~ Whole /\ AtEnd
    /\ pool' = Dropped(get.slot)
    /\ End("failed")
    /\ UNCHANGED net

(* The disk does not take what is downloaded. *)
CannotKeep ==
    /\ get.pc = "body" /\ get.code = 200 /\ ~ Whole /\ Line.buf # <<>> /\ Fault
    /\ pool' = Dropped(get.slot)
    /\ End("failed")

(* The connection is kept, or not, and the answer says how the GET goes on. *)
Finish ==
    /\ get.pc = "body" /\ Whole
    /\ pool' = IF get.frame # "close" /\ ~ get.bye /\ KeepAlive THEN pool ELSE Dropped(get.slot)
    /\ CASE get.code = 200 -> End("kept")
         [] get.code = 404 -> End("absent")
         [] get.code = 302 /\ get.hops + 1 < Hops ->
              /\ \E h \in Hosts :
                   get' = [NoGet EXCEPT !.pc = "take", !.host = h, !.hops = get.hops + 1]
              /\ UNCHANGED last
         [] OTHER -> End("failed")
    /\ UNCHANGED net

(* The operation is over, and nothing the network holds open outlives it.  *)
IdleClose ==
    /\ get.pc = "idle" /\ \E s \in 1..Slots : Used(s)
    /\ pool' = [s \in 1..Slots |-> Free]
    /\ UNCHANGED <<get, last, net>>

Client ==
    \/ Reuse \/ Connect \/ Write \/ Receive \/ ReadHead \/ EndInHead
    \/ ReadBody \/ EndInBody \/ Finish

ConnNext ==
    \/ \E h \in Hosts : GetFile(h)
    \/ Client \/ CannotConnect \/ CannotWrite \/ CannotKeep \/ IdleClose
    \/ \E s \in 1..Slots : Send(s) \/ HangUp(s) \/ TearHead(s) \/ Repeat(s)

(* The client goes on as long as it can, and a server sends what it has    *)
(* begun.                                                                  *)
ConnSpec ==
    /\ ConnInit /\ [][ConnNext]_connVars
    /\ WF_connVars(Client) /\ \A s \in 1..Slots : WF_connVars(Send(s))

----------------------------------------------------------------------------
(* A file kept is the whole answer to its own request, whatever was asked  *)
(* before on the connection; but for an answer sent twice whose second     *)
(* copy was still under way, and a body without framing, which may be cut. *)
AnswerOwn ==
    last.how = "kept" /\ last.clean =>
        IF last.frame = "close" THEN \A i \in DOMAIN last.body : last.body[i].of = last.id
        ELSE last.body = Pieces(last.id, last.frame)

(* While the servers answer or hang up, a GET ends: no retry and no        *)
(* redirect goes on for ever.                                              *)
GetEnds == get.pc # "idle" ~> get.pc = "idle"
=============================================================================
