-------------------------------- MODULE Push --------------------------------
(***************************************************************************)
(* PUSH: cmd_push of pkg_lib_push.c against PushService.cs and the other   *)
(* writers of a portal's channel (AdminService.cs, ArchiveStore.cs), for   *)
(* several publishers of one channel.  A publisher plans, sends each file  *)
(* the portal lacks, whole or in parts, and commits its local index.  The  *)
(* portal keeps what comes in a staging directory for each publisher,      *)
(* handles one request of a publisher at a time (its gate), and one commit *)
(* or removal of the channel at a time (the channel's gate).  Any request  *)
(* can be cut while it is handled: the portal stops, or a call of it fails,*)
(* or only the answer is lost and the portal goes on.                      *)
(*                                                                         *)
(* A file is what its path says: "object" stands for a version's manifest  *)
(* and payload, whose names promise their bytes, "sig" for its signature,  *)
(* "withdrawn" for a signed withdrawal, "archive" for a source archive,    *)
(* "mutable" for Bootstrap, Install-Pkg and ReadMe.  A signature's content *)
(* is the publisher whose key made it.                                     *)
(***************************************************************************)
EXTENDS Naturals, Sequences, FiniteSets, Functions

CONSTANTS
    Publisher,     \* each with a push key and a signing key
    Lines,         \* index lines [name, slot, digest]: slot is version and cpu
    Archive,       \* archive names
    ArchiveOf,     \* by line: the archive its Source names, or None
    Upstream,      \* lines whose manifest says where the archive is published
    KeyOf,         \* by line: the publisher whose signing key made its signature
    Offers,        \* by publisher: the channels [lines, readme] it makes, one after another
    Filers,        \* publishers whose key may send binaries
    Transfer,      \* by package: the publisher a maintainer moved it to, or None
    Size,          \* by kind of path: how many blocks its file has
    Part,          \* the most blocks one request carries
    Quota,         \* the most blocks a publisher may have staged
    Edition,       \* contents of the channel files
    InOrder,       \* every path, in the order a plan is answered and withdrawals are placed
    None, Maintainer,
    MaxCuts, MaxExpiries, MaxRemovals, MaxRestorals, MaxWithdrawals, MaxRemakes, MaxMoves,
    MaxEvents      \* what they may cost together, each as Cost says

Names == {l.name : l \in Lines}
Digests == {l.digest : l \in Lines}
F(kind, of) == [kind |-> kind, of |-> of]
Object(l) == F("object", l.digest)
Sig(l) == F("sig", l.digest)
Withdrawal(l) == F("withdrawn", l.digest)
Stored(a) == F("archive", a)
ReadMe == F("mutable", "ReadMe")
Paths == {Object(l) : l \in Lines} \cup {Sig(l) : l \in Lines}
         \cup {Withdrawal(l) : l \in Lines} \cup {Stored(a) : a \in Archive} \cup {ReadMe}
Contents == Digests \cup Publisher \cup Edition
Offer == [lines : Seq(Lines), readme : Edition \cup {None}]

(* Two lines are of the same version: name, version and architecture.      *)
SameVersion(l, m) == l.name = m.name /\ l.slot = m.slot

(* ChannelPaths: a published path of these kinds never changes. *)
Immutable(f) == f.kind # "mutable"

ASSUME PushAssumption ==
    /\ None \notin Lines
    /\ None \notin Contents \cup Publisher \cup {Maintainer, "removing", "restoring"}
    /\ Maintainer \notin Publisher
    /\ ArchiveOf \in [Lines -> Archive \cup {None}] /\ Upstream \subseteq Lines
    /\ KeyOf \in [Lines -> Publisher]
    /\ \A l, m \in Lines : l.digest = m.digest => l = m
    /\ Offers \in [Publisher -> Seq(Offer) \ {<<>>}] /\ Filers \subseteq Publisher
    /\ \A p \in Publisher : \A o \in Range(Offers[p]) : \A i, j \in DOMAIN o.lines :
         i # j => ~SameVersion(o.lines[i], o.lines[j])
    /\ InOrder \in Seq(Paths) /\ Range(InOrder) = Paths
    /\ Transfer \in [Names -> Publisher \cup {None}]
    /\ Part \in Nat \ {0} /\ Quota \in Nat
    /\ {MaxCuts, MaxExpiries, MaxRemovals, MaxRestorals, MaxWithdrawals, MaxRemakes,
     MaxMoves, MaxEvents} \subseteq Nat

VARIABLES
    \* the channel the portal serves
    live,          \* the file on the portal's disk at each path
    url,           \* archives whose bytes are in the remote store
    digest,        \* the .sha256 beside each archive
    index,         \* the index, in its order
    listed,        \* the withdrawals list: digests
    keeper,        \* the publisher the channel files belong to
    \* each publisher's staging directory
    plan, staged, part,
    \* requests being handled
    job,           \* of each publisher
    gate,          \* who holds the channel's gate
    admin,         \* a maintainer's removal or restoration under way
    stash,         \* what the last removal took
    lister,        \* the withdrawals the portal saw when it started
    \* publishers
    local,         \* each one's channel on its machine
    client,        \* where its PUSH is
    \* bounds and observers
    used,          \* how many of each bounded event have happened
    back           \* lines a maintainer put back

channel == <<live, url, digest, index, listed, keeper>>
staging == <<plan, staged, part>>
portal == <<job, gate, admin, stash, lister>>
vars == <<channel, staging, portal, local, client, used, back>>

(* What g gives for each element of a sequence, one after another; and the *)
(* elements that are in a set, in their order.  (Written so that they can  *)
(* be proved about, which the folds of a LAMBDA cannot.)                   *)
Concat(g, s) ==
    LET c[n \in 0 .. Len(s)] == IF n = 0 THEN <<>> ELSE c[n - 1] \o g[s[n]] IN c[Len(s)]
Keep(s, S) == Concat([x \in Range(s) |-> IF x \in S THEN <<x>> ELSE <<>>], s)

Idle == [at |-> "idle", heard |-> TRUE, todo |-> <<>>, seen |-> <<>>, lines |-> <<>>,
         refused |-> FALSE, done |-> FALSE]
Bounds == [cuts |-> MaxCuts, expiries |-> MaxExpiries, removals |-> MaxRemovals, restorals |-> MaxRestorals,
           withdrawals |-> MaxWithdrawals, remakes |-> MaxRemakes,
           moves |-> MaxMoves]
Cost == [cuts |-> 2, expiries |-> 3, removals |-> 1, restorals |-> 2,
         withdrawals |-> 2, remakes |-> 1, moves |-> 3]
Spent == FoldFunction(+, 0, [b \in DOMAIN Bounds |-> used[b] * Cost[b]])
Use(what) ==
    /\ used[what] < Bounds[what] /\ Spent + Cost[what] <= MaxEvents
    /\ used' = [used EXCEPT ![what] = @ + 1]

Nothing == [f \in Paths |-> None]
Step(do, f) == [do |-> do, file |-> f]

Init ==
    /\ live = Nothing /\ url = {} /\ digest = [a \in Archive |-> None]
    /\ index = <<>> /\ listed = {} /\ keeper = None
    /\ plan = [p \in Publisher |-> Nothing]
    /\ staged = [p \in Publisher |-> Nothing]
    /\ part = [p \in Publisher |-> [f \in Paths |-> <<>>]]
    /\ job = [p \in Publisher |-> Idle]
    /\ gate = None /\ admin = None /\ lister = None
    /\ stash = [line |-> None, files |-> Nothing]
    /\ local = [p \in Publisher |->
                 [lines |-> <<>>, withdrawn |-> {}, readme |-> None]]
    /\ client = [p \in Publisher |-> [pc |-> "idle", body |-> Nothing, need |-> <<>>, off |-> 0, said |-> None]]
    /\ used = [b \in DOMAIN Bounds |-> 0] /\ back = {}

-----------------------------------------------------------------------------
(* What the portal finds.                                                  *)

(* On the disk, or moved to the store with its .url left behind. *)
Published(f) == live[f] # None \/ (f.kind = "archive" /\ f.of \in url)

(* LiveSha: the digest a name promises, an archive's .sha256, or the bytes. *)
LiveSha(f) == IF f.kind = "archive" /\ digest[f.of] # None THEN digest[f.of] ELSE live[f]

(* Find: this push's file, or the published one. *)
Found(p, f) == IF staged[p][f] # None THEN staged[p][f] ELSE IF Published(f) THEN LiveSha(f) ELSE None

(* Refusal, LinkOnly and ChannelFilesRefusal of a path. *)
Refuses(p, f) ==
    \/ f.kind \in {"archive", "mutable"} /\ p \notin Filers
    \/ f.kind = "mutable" /\ keeper \notin {None, p}

Held(p) == LET sizes == [f \in Paths |-> Len(part[p][f]) + IF staged[p][f] = None THEN 0 ELSE Size[f.kind]]
           IN FoldFunction(+, 0, sizes)

Key(d) == KeyOf[CHOOSE l \in Lines : l.digest = d]

(* The file at a path of p's own channel: push_path_ok, push_drop_upstream. *)
LocalFile(p, f) ==
    LET lines == Range(local[p].lines) IN
    CASE f.kind = "mutable" -> local[p].readme
      [] f.kind = "object" /\ \E l \in lines : l.digest = f.of -> f.of
      [] f.kind = "sig" /\ \E l \in lines : l.digest = f.of -> Key(f.of)
      [] f.kind = "withdrawn" /\ f.of \in local[p].withdrawn -> Key(f.of)
      [] f.kind = "archive" /\ \E l \in lines \ Upstream : ArchiveOf[l] = f.of -> p
      [] OTHER -> None

-----------------------------------------------------------------------------
(* A publisher's own channel, between and during pushes.                   *)

Made(o, withdrawn) == [lines |-> o.lines, withdrawn |-> withdrawn, readme |-> o.readme]

Publish(p) ==
    /\ local[p].lines = <<>>
    /\ local' = [local EXCEPT ![p] = Made(Head(Offers[p]), {})]
    /\ UNCHANGED <<channel, staging, portal, client, used, back>>

(* The local channel is made anew, with other content, but not while one   *)
(* of its files is open, sent up to its middle.                            *)
Remake(p) ==
    /\ Use("remakes") /\ client[p].off = 0
    /\ \E i \in 2 .. Len(Offers[p]) :
          /\ local[p] = Made(Offers[p][i - 1], local[p].withdrawn)
          /\ local' = [local EXCEPT ![p] = Made(Offers[p][i], {})]
    /\ UNCHANGED <<channel, staging, portal, client, back>>

Withdraw(p) ==
    /\ Use("withdrawals")
    /\ \E l \in Range(local[p].lines) : local' = [local EXCEPT ![p].withdrawn = @ \cup {l.digest}]
    /\ UNCHANGED <<channel, staging, portal, client, back>>

-----------------------------------------------------------------------------
(* The client.                                                             *)

At(p, pc) == client[p].pc = pc
Stop(p, said) == client' = [client EXCEPT ![p] = [pc |-> "idle", body |-> Nothing, need |-> <<>>, off |-> 0, said |-> said]]

(* Every file is hashed; a plan is posted. *)
Start(p) ==
    /\ At(p, "idle") /\ local[p].lines # <<>>
    /\ client' = [client EXCEPT ![p] = [@ EXCEPT !.pc = "plan", !.said = None,
                    !.body = [f \in Paths |-> LocalFile(p, f)]]]
    /\ UNCHANGED <<channel, staging, portal, local, used, back>>

(* The next file, or the commit when there is none. *)
Send(p, need) ==
    client' = [client EXCEPT ![p] = [@ EXCEPT !.need = need, !.off = 0, !.body = Nothing,
                                     !.pc = IF need = <<>> THEN "commit" ELSE "put"]]
Sent(p) == Send(p, Tail(client[p].need))

Whole(f) == Size[f.kind] <= Part

(* What the client does with "partial, received n": a file sent whole is   *)
(* not taken; a file in parts goes on from n, unless nothing is left.      *)
Resume(p, f, n) ==
    IF Whole(f) \/ n >= Size[f.kind] THEN Stop(p, "untaken")
    ELSE client' = [client EXCEPT ![p].off = n]

-----------------------------------------------------------------------------
(* POST plan: PlanLocked.                                                  *)

Plan(p) ==
    /\ At(p, "plan") /\ job[p] = Idle
    /\ LET body == client[p].body
           wanted == {f \in Paths :
                        /\ body[f] # None /\ ~Refuses(p, f)
                        /\ Published(f) => LiveSha(f) # body[f] /\ ~Immutable(f)}
           need == {f \in wanted : staged[p][f] = None \/ plan[p][f] # body[f]}
       IN /\ plan' = [plan EXCEPT ![p] = [f \in Paths |-> IF f \in wanted THEN body[f] ELSE @[f]]]
          /\ staged' = [staged EXCEPT ![p] = [f \in Paths |-> IF f \in need THEN None ELSE @[f]]]
          /\ Send(p, Keep(InOrder, need))
    /\ UNCHANGED <<channel, part, portal, local, used, back>>

-----------------------------------------------------------------------------
(* PUT files/<path>: PutFileLocked.                                        *)

Chunk(p, f) == IF client[p].off + Part < Size[f.kind] THEN Part ELSE Size[f.kind] - client[p].off

(* What the portal decides before it reads a byte, in the code's order. *)
Verdict(p, f) ==
    IF Refuses(p, f) \/ plan[p][f] = None THEN "refused"
    ELSE IF Published(f) /\ Immutable(f) THEN (IF LiveSha(f) = plan[p][f] THEN "have" ELSE "refused")
    ELSE IF Held(p) + Chunk(p, f) > Quota THEN "refused"
    ELSE IF staged[p][f] # None THEN "have"
    ELSE IF client[p].off # Len(part[p][f]) THEN "resume"
    ELSE "append"

(* A file that is not there any more is passed over. *)
Gone(p, f) == client[p].off = 0 /\ LocalFile(p, f) = None
Sending(p, f) == ~Gone(p, f) /\ Verdict(p, f) = "append"

PutAnswered(p) ==
    /\ At(p, "put") /\ job[p] = Idle
    /\ LET f == Head(client[p].need)
           verdict == Verdict(p, f)
       IN \/ Gone(p, f) /\ Sent(p)
          \/ ~Gone(p, f) /\ verdict = "refused" /\ Stop(p, "untaken")
          \/ ~Gone(p, f) /\ verdict = "have" /\ Sent(p)
          \/ ~Gone(p, f) /\ verdict = "resume" /\ Resume(p, f, Len(part[p][f]))
    /\ UNCHANGED <<channel, staging, portal, local, used, back>>

Appended(p, f, n) == [part EXCEPT ![p][f] = @ \o [i \in 1 .. n |-> LocalFile(p, f)]]

(* The body is appended to <file>.part; a last part is then hashed. *)
PutBody(p) ==
    /\ At(p, "put") /\ job[p] = Idle
    /\ LET f == Head(client[p].need)
           end == client[p].off + Chunk(p, f)
       IN /\ Sending(p, f)
          /\ part' = Appended(p, f, Chunk(p, f))
          /\ IF end < Size[f.kind]
             THEN Resume(p, f, end) /\ UNCHANGED job
             ELSE /\ job' = [job EXCEPT ![p] = [@ EXCEPT !.at = "settle", !.todo = <<Step("settle", f)>>]]
                  /\ UNCHANGED client
    /\ UNCHANGED <<channel, plan, staged, gate, admin, stash, lister, local, used, back>>

(* The connection goes in the middle of the body: what came stays. *)
PutCut(p) ==
    /\ At(p, "put") /\ job[p] = Idle /\ Use("cuts")
    /\ LET f == Head(client[p].need) IN
       /\ Sending(p, f)
       /\ \E n \in 0 .. Chunk(p, f) - 1 : part' = Appended(p, f, n)
    /\ Stop(p, "unreachable")
    /\ UNCHANGED <<channel, plan, staged, portal, local, back>>

(* The answer to a request that took several steps, if anybody waits for it. *)
Answer(p, answer) == IF job[p].heard THEN answer ELSE UNCHANGED client

MutSettle(p) ==
    /\ job[p].at = "settle"
    /\ LET f == Head(job[p].todo).file IN
       /\ part' = [part EXCEPT ![p][f] = <<>>]
       /\ staged' = [staged EXCEPT ![p][f] = part[p][f][Len(part[p][f])]]
       /\ Answer(p, Sent(p))
    /\ job' = [job EXCEPT ![p] = Idle]
    /\ UNCHANGED <<channel, plan, gate, admin, stash, lister, local, used, back>>

Settle(p) ==
    /\ job[p].at = "settle"
    /\ LET f == Head(job[p].todo).file
           good == Range(part[p][f]) = {plan[p][f]}
       IN /\ part' = [part EXCEPT ![p][f] = <<>>]
          /\ staged' = IF good THEN [staged EXCEPT ![p][f] = plan[p][f]] ELSE staged
          /\ Answer(p, IF good THEN Sent(p) ELSE Stop(p, "untaken"))
    /\ job' = [job EXCEPT ![p] = Idle]
    /\ UNCHANGED <<channel, plan, gate, admin, stash, lister, local, used, back>>

-----------------------------------------------------------------------------
(* POST commit: Commit and CommitLocked.                                   *)

(* The index is read when it is sent, after the files. *)
SendIndex(p) ==
    /\ At(p, "commit") /\ job[p] = Idle
    /\ job' = [job EXCEPT ![p] = [@ EXCEPT !.at = "gate", !.lines = local[p].lines]]
    /\ UNCHANGED <<channel, staging, gate, admin, stash, lister, local, client, used, back>>

MutCandidates(p) == Keep(job[p].lines, Lines \ Range(index))

(* Lines of no version that is in the index. *)
Candidates(p) == Keep(job[p].lines, {l \in Lines : \A x \in Range(index) : ~SameVersion(x, l)})

MutReady(p) ==
    Keep(Candidates(p), {l \in Lines :
        /\ Found(p, Object(l)) = l.digest
        /\ p \notin Filers => ArchiveOf[l] # None /\ l \in Upstream
        /\ ArchiveOf[l] # None /\ l \notin Upstream => Found(p, Stored(ArchiveOf[l])) # None})

(* Those whose files are in this push or published, and may be linked. *)
Ready(p) ==
    Keep(Candidates(p), {l \in Lines :
        /\ Found(p, Object(l)) = l.digest /\ Found(p, Sig(l)) # None
        /\ p \notin Filers => ArchiveOf[l] # None /\ l \in Upstream
        /\ ArchiveOf[l] # None /\ l \notin Upstream => Found(p, Stored(ArchiveOf[l])) # None})

MutOwner(p, name) == Found(p, Sig(Head(Keep(Ready(p), {l \in Lines : l.name = name}))))

(* A package keeps the key of its first version, or the one it was moved to. *)
Owner(p, name) ==
    LET shown == Keep(index, {l \in Lines : l.name = name /\ live[Sig(l)] # None})
        new == Keep(Ready(p), {l \in Lines : l.name = name})
    IN IF Transfer[name] # None THEN Transfer[name]
       ELSE IF shown # <<>> THEN live[Sig(Head(shown))]
       ELSE Found(p, Sig(Head(new)))
Owned(p) == Keep(Ready(p), {l \in Lines : Found(p, Sig(l)) = Owner(p, l.name)})

(* Staged withdrawals of published versions, or of this push's. *)
Withdrawals(p) == {l \in Range(index \o Owned(p)) : staged[p][Withdrawal(l)] # None}

Move(p, files) == LET moved == Keep(files, {f \in Paths : staged[p][f] # None})
                  IN [i \in DOMAIN moved |-> Step("place", moved[i])]
FilesOf == [l \in Lines |-> IF ArchiveOf[l] = None THEN <<Object(l), Sig(l)>>
                           ELSE <<Object(l), Sig(l), Stored(ArchiveOf[l])>>]

(* Under the channel's gate: what is accepted, and what is then done for   *)
(* it, file by file, the index last.  The portal's Pkg may fail to check.  *)
Check(p) ==
    /\ job[p].at = "gate" /\ gate = None
    /\ \E checks \in BOOLEAN :
       LET accepted == IF checks THEN Owned(p) ELSE <<>>
           undone == {l \in Withdrawals(p) : checks /\ staged[p][Withdrawal(l)] = Found(p, Sig(l))}
           refused == \/ Range(job[p].lines) \ Range(index) # Range(accepted)
                      \/ undone # Withdrawals(p)
           withdrawn == Keep(InOrder, {Withdrawal(l) : l \in undone})
           loose == IF refused \/ staged[p][ReadMe] = None \/ Refuses(p, ReadMe)
                    THEN <<>> ELSE <<Step("mutable", ReadMe)>>
           swap == IF accepted = <<>> THEN <<>> ELSE <<Step("index", None)>>
       IN job' = [job EXCEPT ![p] = [@ EXCEPT !.at = "place", !.seen = index, !.lines = accepted,
                    !.refused = refused, !.done = accepted # <<>> \/ undone # {} \/ loose # <<>>,
                    !.todo = Move(p, Concat(FilesOf, accepted) \o withdrawn)
                             \o <<Step("list", None)>> \o loose \o swap]]
    /\ gate' = p
    /\ UNCHANGED <<channel, staging, admin, stash, lister, local, client, used, back>>

Doing(p, do) == job[p].at = "place" /\ job[p].todo # <<>> /\ Head(job[p].todo).do = do
Then(p, more) == job' = [job EXCEPT ![p].todo = more \o Tail(@)]

(* Place: a file already published is dropped, an archive gets its .sha256. *)
Place(p) ==
    /\ Doing(p, "place")
    /\ LET f == Head(job[p].todo).file IN
       /\ staged' = [staged EXCEPT ![p][f] = None]
       /\ live' = IF Published(f) THEN live ELSE [live EXCEPT ![f] = staged[p][f]]
       /\ Then(p, IF f.kind = "archive" /\ ~Published(f) THEN <<Step("digest", f)>> ELSE <<>>)
    /\ UNCHANGED <<url, digest, index, listed, keeper, plan, part, gate, admin, stash, lister,
                   local, client, used, back>>

WriteDigest(p) ==
    /\ Doing(p, "digest")
    /\ LET f == Head(job[p].todo).file IN digest' = [digest EXCEPT ![f.of] = live[f]]
    /\ Then(p, <<>>)
    /\ UNCHANGED <<live, url, index, listed, keeper, staging, gate, admin, stash, lister,
                   local, client, used, back>>

Withdrawn == {l.digest : l \in {l \in Lines : live[Withdrawal(l)] # None}}

WriteList(p) ==
    /\ Doing(p, "list")
    /\ listed' = Withdrawn
    /\ Then(p, <<>>)
    /\ UNCHANGED <<live, url, digest, index, keeper, staging, gate, admin, stash, lister,
                   local, client, used, back>>

(* The channel files' owner is recorded, then the file is replaced. *)
Replace(p) ==
    /\ Doing(p, "mutable")
    /\ live' = [live EXCEPT ![ReadMe] = staged[p][ReadMe]]
    /\ staged' = [staged EXCEPT ![p][ReadMe] = None]
    /\ keeper' = IF keeper = None THEN p ELSE keeper
    /\ Then(p, <<>>)
    /\ UNCHANGED <<url, digest, index, listed, plan, part, gate, admin, stash, lister,
                   local, client, used, back>>

SwapIndex(p) ==
    /\ Doing(p, "index")
    /\ index' = job[p].seen \o job[p].lines
    /\ Then(p, <<>>)
    /\ UNCHANGED <<live, url, digest, listed, keeper, staging, gate, admin, stash, lister,
                   local, client, used, back>>

(* ForgetPlanned: what went live leaves the plan; the answer is sent. *)
Finish(p) ==
    /\ job[p].at = "place" /\ job[p].todo = <<>>
    /\ plan' = [plan EXCEPT ![p] = [f \in Paths |->
         IF Published(f) /\ staged[p][f] = None /\ part[p][f] = <<>> THEN None ELSE @[f]]]
    /\ Answer(p, Stop(p, IF job[p].done THEN "published" ELSE IF job[p].refused THEN "refused" ELSE "unchanged"))
    /\ job' = [job EXCEPT ![p] = Idle]
    /\ gate' = None
    /\ UNCHANGED <<channel, staged, part, admin, stash, lister, local, used, back>>

-----------------------------------------------------------------------------
(* What goes wrong, and what passes.                                       *)

(* The request, or the answer to one handled at once, is lost. *)
Lose(p) ==
    /\ client[p].pc # "idle" /\ job[p] = Idle /\ Use("cuts")
    /\ Stop(p, "unreachable")
    /\ UNCHANGED <<channel, staging, portal, local, back>>

(* The publisher goes while the portal works on. *)
HangUp(p) ==
    /\ job[p] # Idle /\ job[p].heard /\ Use("cuts")
    /\ job' = [job EXCEPT ![p].heard = FALSE]
    /\ Stop(p, "unreachable")
    /\ UNCHANGED <<channel, staging, gate, admin, stash, lister, local, back>>

(* The request ends where it is: a call of it fails, or its client went. *)
Fail(p) ==
    /\ job[p] # Idle /\ Use("cuts")
    /\ Answer(p, Stop(p, "unreachable"))
    /\ job' = [job EXCEPT ![p] = Idle]
    /\ gate' = IF gate = p THEN None ELSE gate
    /\ UNCHANGED <<channel, staging, admin, stash, lister, local, back>>

(* The portal stops and starts; its start lists the withdrawals it finds. *)
Restart ==
    /\ Use("cuts")
    /\ job' = [p \in Publisher |-> Idle]
    /\ client' = [p \in Publisher |-> IF job[p] = Idle \/ ~job[p].heard THEN client[p]
                     ELSE [pc |-> "idle", body |-> Nothing, need |-> <<>>, off |-> 0, said |-> "unreachable"]]
    /\ gate' = None /\ admin' = None
    /\ lister' = Withdrawn
    /\ UNCHANGED <<channel, staging, stash, local, back>>

ListAtStart ==
    /\ lister # None
    /\ listed' = lister /\ lister' = None
    /\ UNCHANGED <<live, url, digest, index, keeper, staging, job, gate, admin, stash,
                   local, client, used, back>>

(* RemoveExpiredStaging, in somebody's plan, when nothing was written for a day. *)
Expire(p) ==
    /\ job[p] = Idle /\ Use("expiries")
    /\ plan' = [plan EXCEPT ![p] = Nothing]
    /\ staged' = [staged EXCEPT ![p] = Nothing]
    /\ part' = [part EXCEPT ![p] = [f \in Paths |-> <<>>]]
    /\ UNCHANGED <<channel, portal, local, client, back>>

-----------------------------------------------------------------------------
(* AdminService: a version is taken off, its files after its line; it is   *)
(* put back, its files before its line.                                    *)

RemoveLine ==
    /\ gate = None /\ Use("removals")
    /\ \E l \in Range(index) :
       /\ index' = Keep(index, Lines \ {l})
       /\ stash' = [line |-> l, files |-> Nothing]
    /\ gate' = Maintainer /\ admin' = "removing"
    /\ UNCHANGED <<live, url, digest, listed, keeper, staging, job, lister, local, client, back>>

Stashed(l) == {Object(l), Sig(l), Withdrawal(l)}

TakeAway ==
    /\ admin = "removing"
    /\ \E f \in Stashed(stash.line) :
       /\ live[f] # None
       /\ live' = [live EXCEPT ![f] = None]
       /\ stash' = [stash EXCEPT !.files[f] = live[f]]
    /\ UNCHANGED <<url, digest, index, listed, keeper, staging, job, gate, admin, lister,
                   local, client, used, back>>

MutRemoved ==
    /\ admin = "removing" /\ \A f \in Stashed(stash.line) : live[f] = None
    /\ gate' = None /\ admin' = None
    /\ UNCHANGED <<channel, staging, job, stash, lister, local, client, used, back>>

Removed ==
    /\ admin = "removing" /\ \A f \in Stashed(stash.line) : live[f] = None
    /\ listed' = Withdrawn
    /\ gate' = None /\ admin' = None
    /\ UNCHANGED <<live, url, digest, index, keeper, staging, job, stash, lister,
                   local, client, used, back>>

RestoreStash ==
    /\ gate = None /\ stash.line # None /\ Use("restorals")
    /\ gate' = Maintainer /\ admin' = "restoring"
    /\ UNCHANGED <<channel, staging, job, stash, lister, local, client, back>>

Missing == {f \in Stashed(stash.line) : stash.files[f] # None /\ live[f] = None}

BringBack ==
    /\ admin = "restoring"
    /\ \E f \in Missing :
       /\ live' = [live EXCEPT ![f] = stash.files[f]]
       /\ stash' = [stash EXCEPT !.files[f] = None]
    /\ UNCHANGED <<url, digest, index, listed, keeper, staging, job, gate, admin, lister,
                   local, client, used, back>>

Restored ==
    /\ admin = "restoring" /\ Missing = {}
    /\ index' = IF stash.line \in Range(index) THEN index ELSE Append(index, stash.line)
    /\ listed' = Withdrawn
    /\ back' = back \cup {stash.line}
    /\ stash' = [line |-> None, files |-> Nothing]
    /\ gate' = None /\ admin' = None
    /\ UNCHANGED <<live, url, digest, keeper, staging, job, lister, local, client, used>>

-----------------------------------------------------------------------------
(* ArchiveStore.Offload: the copy reads back, its .url is written, the     *)
(* file on the disk goes.  It takes no gate.                               *)

SendAway(a) ==
    /\ Use("moves")
    /\ a \notin url /\ digest[a] # None /\ live[Stored(a)] = digest[a]
    /\ url' = url \cup {a}
    /\ UNCHANGED <<live, digest, index, listed, keeper, staging, portal, local, client, back>>

DropLocal(a) ==
    /\ a \in url /\ live[Stored(a)] # None
    /\ live' = [live EXCEPT ![Stored(a)] = None]
    /\ UNCHANGED <<url, digest, index, listed, keeper, staging, portal, local, client, used, back>>

-----------------------------------------------------------------------------
Request(p) == Plan(p) \/ PutAnswered(p) \/ PutBody(p) \/ SendIndex(p)
Handle(p) == Settle(p) \/ Check(p) \/ Place(p) \/ WriteDigest(p) \/ WriteList(p)
             \/ Replace(p) \/ SwapIndex(p) \/ Finish(p)
Trouble(p) == PutCut(p) \/ Lose(p) \/ HangUp(p) \/ Fail(p) \/ Expire(p)
Maintain == RemoveLine \/ TakeAway \/ Removed \/ RestoreStash \/ BringBack \/ Restored

Next ==
    \/ \E p \in Publisher : Publish(p) \/ Remake(p) \/ Withdraw(p) \/ Start(p)
                            \/ Request(p) \/ Handle(p) \/ Trouble(p)
    \/ \E a \in Archive : SendAway(a) \/ DropLocal(a)
    \/ Maintain \/ Restart \/ ListAtStart

Spec == Init /\ [][Next]_vars

-----------------------------------------------------------------------------
(* The index and the paths whose bytes are promised never to change are a  *)
(* Channel: a line is shown only when all its files are there, they stay   *)
(* while it is shown, and no path a line may name ever gets other bytes,   *)
(* in whatever order files are placed, sent away, taken off and put back,  *)
(* and wherever a request is cut.  (PushService.cs:363, "a reader never    *)
(* sees an index line whose files are missing".)                           *)
Lasting == {f \in Paths : f.kind \in {"object", "sig", "archive"}}
FilesOfLine == [l \in Lines |-> {Object(l), Sig(l)} \cup
                   (IF ArchiveOf[l] # None /\ l \notin Upstream THEN {Stored(ArchiveOf[l])} ELSE {})]
Chan == INSTANCE Channel WITH
    Files <- Lasting, FilesOf <- FilesOfLine, shown <- Range(index),
    bytes <- [f \in Lasting |-> IF Published(f) THEN LiveSha(f) ELSE None]
IsChannel == Chan!Spec

(* A version is published once: no two lines of the index are of the same  *)
(* name, version and architecture, but for a line a maintainer put back,   *)
(* which the commit's clash test never saw.                                *)
OneVersion == \A i, j \in DOMAIN index :
    i # j /\ SameVersion(index[i], index[j]) => {index[i], index[j]} \cap back # {}

(* A package keeps its key: the live signatures of its lines are by one    *)
(* publisher, or by the one a maintainer moved it to, however two pushes   *)
(* of it interleave; a package of which a version was put back excepted,   *)
(* whose later versions may be by its key or by the one it had meanwhile.  *)
KeyKept == \A l, m \in Range(index) :
    l.name = m.name => \/ live[Sig(l)] = live[Sig(m)]
                       \/ Transfer[l.name] \in {live[Sig(l)], live[Sig(m)]}
                       \/ \E b \in back : b.name = l.name

(* The list beside the index names the withdrawals there are, when nobody  *)
(* holds the channel: commits, removals and restorations each write it     *)
(* anew.  Where one of them was cut the portal's next start, or the next   *)
(* commit, does.                                                           *)
WithdrawalsListed == gate = None /\ used.cuts = 0 => listed = Withdrawn

(* What was received has the bytes its plan gave, whichever parts of which *)
(* build of the file came, over however many pushes.                       *)
StagedAsPlanned == \A p \in Publisher, f \in Paths :
    staged[p][f] # None => staged[p][f] = plan[p][f]
=============================================================================
