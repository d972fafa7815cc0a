------------------------------- MODULE Reader -------------------------------
(***************************************************************************)
(* A root that installs and upgrades from two channels: the directory of   *)
(* LocalChannel, read as it is or over the network through a cache, and a  *)
(* second one another publisher keeps.  Every file is one request, and may *)
(* fail; the publishers go on between two requests.                        *)
(***************************************************************************)
EXTENDS LocalChannel

CONSTANTS
    Other,        \* the second channel's manifests, whole and never changed
    OtherKey,     \* the key that signs them
    Asked,        \* the versions a command may name
    MaxReads,     \* bound: commands of the root
    MaxTotal,     \* bound: commands of the root and on the channel together
    MaxFaults     \* bound: requests that fail

ASSUME ReaderAssumption ==
    /\ {m.ver : m \in Other} \cup Asked \subseteq Versions
    /\ IsFiniteSet(Other)
    /\ OtherKey \notin {Nothing, "good", "bad", "missing"}
    /\ MaxReads \in Nat /\ MaxTotal \in Nat /\ MaxFaults \in Nat

VARIABLES
    via,          \* how the first channel is reached: "directory", "portal"
    list,         \* the portal's file of withdrawals: the manifests it names
    cache,        \* the copies kept of files named by a digest
    root,         \* what is installed, who signed it, and the key pinned
    cmd,          \* the command under way
    used          \* commands begun and requests failed so far

readerVars == <<via, list, cache, root, cmd, used>>
vars == <<channelVars, readerVars>>

Entry(ch, m) == [ch |-> ch, ver |-> m.ver, arch |-> Generic, m |-> m]

(* The lines of an index, by version. *)
Listings(ch, M) ==
    {s \in [1..Cardinality(M) -> {Entry(ch, m) : m \in M}] :
        \A i, j \in DOMAIN s : i < j => s[i] # s[j] /\ s[i].ver <= s[j].ver}

NoCommand == [pc |-> "idle", asked |-> Nothing, ix |-> <<>>, list |-> Nothing,
              known |-> {}, gone |-> {}, e |-> Nothing, failed |-> FALSE, before |-> {}]
NoCopies == [manifest |-> [m \in Manifest |-> Missing],
             sig |-> [m \in Manifest |-> Missing],
             payload |-> [d \in Drawers |-> Missing]]

ReaderInit ==
    /\ via \in {"directory", "portal"}
    /\ list = {}
    /\ cache = NoCopies
    /\ root = [m |-> Nothing, signer |-> Nothing, pin |-> Nothing]
    /\ cmd = NoCommand
    /\ used = [reads |-> 0, faults |-> 0]

----------------------------------------------------------------------------
(* What a request may bring: the file, or that it is not there; nothing    *)
(* when the connection fails; and from a portal, read with curl, "not      *)
(* there" for every refusal of the server.  A fault is one the command     *)
(* only sees as a file that is missing.                                    *)
Answers(v) ==
    {[got |-> v, fault |-> 0]} \cup
    IF via = "directory" \/ used.faults >= MaxFaults THEN {}
    ELSE {[got |-> Missing, fault |-> 1]}

(* A file named by a digest is asked for once: the copy kept is the file.  *)
Object(v, copy) ==
    IF via # "directory" /\ copy # Missing
    THEN {[got |-> copy, fault |-> 0]} ELSE Answers(v)

Kept(copy, r) == IF via = "directory" THEN copy ELSE r.got

Charge(r) == used' = [used EXCEPT !.faults = @ + r.fault]
IsKey(v) == v \in Keys \cup {OtherKey}

(* The withdrawals a reader can see: all of them, or from a portal those   *)
(* its list names.                                                         *)
Visible == {m \in index : IsWithdrawn(m) /\ (via = "portal" => m \in list)}

(* Both channels are opened, or with CHANNEL the first one alone, and the  *)
(* list of withdrawals is asked for once.  INSTALL on an empty root, else  *)
(* UPGRADE.                                                                *)
Open(asked, alone) ==
    /\ cmd.pc = "idle" /\ used.reads < MaxReads
    /\ used.reads + spent.commands < MaxTotal
    /\ root.m # Nothing => asked = Nothing
    /\ \E r \in Answers(Good), own \in Listings(1, index),
          others \in IF alone THEN {<<>>} ELSE Listings(2, Other) :
         /\ used' = [reads |-> used.reads + 1, faults |-> used.faults + r.fault]
         /\ cmd' = [NoCommand EXCEPT
                !.pc = "choose", !.asked = asked, !.failed = r.fault = 1,
                !.ix = own \o others,
                !.list = IF via = "portal" /\ r.got = Good THEN list ELSE Nothing,
                !.before = Visible]
    /\ UNCHANGED <<channelVars, via, list, cache, root>>

(* Whether an entry is withdrawn is asked of the channel the first time it *)
(* is wanted: for every entry when the highest is looked for, and for the  *)
(* one chosen.  The second channel withdraws nothing.                      *)
Wanted ==
    {e \in (CASE cmd.pc = "check" -> {cmd.e}
              [] cmd.pc = "choose" /\ cmd.asked = Nothing -> {cmd.ix[i] : i \in DOMAIN cmd.ix}
              [] OTHER -> {}) : e.ch = 1 /\ e \notin cmd.known}

UnlistedBlind(e) == cmd.list = Nothing \/ e.m \notin cmd.list

(* The list only saves asking: what it names is still checked. *)
Unlisted(e) == cmd.list # Nothing /\ e.m \notin cmd.list

(* The withdrawal, its signature, and the version's own signer: each asked *)
(* for only when the one before was there.                                 *)
Verdicts(e) ==
    LET m == e.m
        texts == Answers(IF m \in withdrawn THEN Good ELSE Missing)
        signers == Answers(withdrawnSigs[m])
        copy == cache.sig[m]
        No(R) == {[gone |-> FALSE, fault |-> r.fault, copy |-> copy] : r \in R}
    IN No({r \in texts : r.got # Good})
       \cup IF m \notin withdrawn THEN {}
            ELSE No({r \in signers : ~ IsKey(r.got)})
                 \cup IF ~ IsKey(withdrawnSigs[m]) THEN {}
                      ELSE {[gone |-> r.got = withdrawnSigs[m], fault |-> r.fault,
                             copy |-> Kept(copy, r)] : r \in Object(sigs[m], copy)}

Ask ==
    /\ \E e \in Wanted :
          /\ \A f \in Wanted : e.ver <= f.ver
          /\ IF Unlisted(e)
             THEN cmd' = [cmd EXCEPT !.known = @ \cup {e}] /\ UNCHANGED <<cache, used>>
             ELSE \E r \in Verdicts(e) :
                    /\ cmd' = [cmd EXCEPT !.known = @ \cup {e},
                                   !.gone = IF r.gone THEN @ \cup {e} ELSE @,
                                   !.failed = @ \/ r.fault = 1]
                    /\ cache' = [cache EXCEPT !.sig[e.m] = r.copy]
                    /\ Charge(r)
    /\ UNCHANGED <<channelVars, via, list, root>>

(* The signature file of the first channel's candidate is only read when   *)
(* both channels have one.                                                 *)
Claims(best) ==
    IF best[1] # 0 /\ best[2] # 0
    THEN LET m == cmd.ix[best[1]].m IN Object(sigs[m], cache.sig[m])
    ELSE {[got |-> Nothing, fault |-> 0]}

(* The entry is chosen; a command that finds none, or whose version is     *)
(* there already, ends.                                                    *)
Choose ==
    /\ cmd.pc = "choose" /\ Wanted = {}
    /\ LET best == [c \in 1..2 |-> Best(cmd.ix, c, cmd.asked, cmd.gone, Nothing)]
       IN \E r \in Claims(best) :
            LET claims == <<IF IsKey(r.got) THEN r.got ELSE Nothing, OtherKey>>
                i == Pick(cmd.ix, best, claims, root.pin)
            IN /\ cmd' = IF i = 0 \/ (root.m # Nothing /\ cmd.ix[i].ver <= root.m.ver)
                         THEN NoCommand
                         ELSE [cmd EXCEPT !.pc = "check", !.e = cmd.ix[i],
                                          !.failed = @ \/ r.fault = 1]
               /\ cache' = IF r.got = Nothing THEN cache
                           ELSE [cache EXCEPT !.sig[cmd.ix[best[1]].m] = Kept(@, r)]
               /\ Charge(r)
    /\ UNCHANGED <<channelVars, via, list, root>>

(* The key is held against the one pinned, and the files are placed. *)
Placed(m, signer) ==
    IF root.pin \in {Nothing, signer}
    THEN [m |-> m, signer |-> signer, pin |-> signer] ELSE root

(* Where no key is pinned, the first of the channel's lowest versions: its *)
(* signature is read, and names the key presumed the publisher's.  All of  *)
(* the second channel is signed by one key.                                *)
First ==
    LET own == {i \in DOMAIN cmd.ix : cmd.ix[i].ch = 1}
        low == {i \in own : \A j \in own : j < i => cmd.ix[i].ver < cmd.ix[j].ver}
        oldest == {i \in low : \A j \in own : cmd.ix[i].ver <= cmd.ix[j].ver}
    IN IF root.pin # Nothing \/ oldest = {} THEN cmd.e.m
       ELSE cmd.ix[CHOOSE i \in oldest : TRUE].m

Presumed(first) ==
    IF first = cmd.e.m THEN {[got |-> Nothing, fault |-> 0]}
    ELSE Object(sigs[first], cache.sig[first])

(* A version withdrawn is refused, also when it was asked for.  Then the   *)
(* manifest against the index, its signature, and the payload against the  *)
(* manifest: the first that is missing or wrong ends the command; and last *)
(* the signer against the key pinned, or that of the oldest version.       *)
Take ==
    /\ cmd.pc = "check" /\ Wanted = {} /\ cmd.e \notin cmd.gone
    /\ IF cmd.e.ch = 2
       THEN root' = Placed(cmd.e.m, OtherKey) /\ UNCHANGED <<cache, used>>
       ELSE LET m == cmd.e.m IN
            \E a \in Object(manifests[m], cache.manifest[m]),
               b \in Object(sigs[m], cache.sig[m]),
               c \in Object(payloads[m.files], cache.payload[m.files]) :
              LET signed == a.got = Good /\ IsKey(b.got)
                  whole == signed /\ c.got = Good
                  first == IF whole THEN First ELSE m
              IN \E o \in Presumed(first) :
                 /\ a.fault + b.fault + c.fault <= 1 /\ (c.fault = 1 => signed)
                 /\ used' = [used EXCEPT !.faults = @ + a.fault + b.fault + c.fault + o.fault]
                 /\ cache' = [manifest |-> [cache.manifest EXCEPT ![m] = Kept(@, a)],
                              sig |-> [n \in Manifest |->
                                          IF n = m THEN Kept(cache.sig[n], b)
                                          ELSE IF n = first THEN Kept(cache.sig[n], o)
                                          ELSE cache.sig[n]],
                              payload |-> IF signed THEN [cache.payload EXCEPT ![m.files] = Kept(@, c)]
                                          ELSE cache.payload]
                 /\ root' = IF whole /\ (IsKey(o.got) => o.got = b.got)
                            THEN Placed(m, b.got) ELSE root
    /\ cmd' = NoCommand
    /\ UNCHANGED <<channelVars, via, list>>

Refuse ==
    /\ cmd.pc = "check" /\ cmd.e \in cmd.gone
    /\ cmd' = NoCommand
    /\ UNCHANGED <<channelVars, via, list, cache, root, used>>

(* The portal writes its list anew; how it does is Push's matter. *)
WriteList ==
    /\ via = "portal" /\ list # {m \in index : IsWithdrawn(m)}
    /\ list' = {m \in index : IsWithdrawn(m)}
    /\ UNCHANGED <<channelVars, via, cache, root, cmd, used>>

Read == \/ \E asked \in Asked \cup {Nothing}, alone \in BOOLEAN : Open(asked, alone)
        \/ Ask \/ Choose \/ Refuse \/ Take

Init == ChannelInit /\ ReaderInit
Change ==
    /\ ChannelNext
    /\ spent'.commands > spent.commands => used.reads + spent.commands < MaxTotal
    /\ spent'.damage > spent.damage => cmd.pc = "idle"
    /\ UNCHANGED readerVars

Next == Change \/ Read \/ WriteList
Spec == Init /\ [][Next]_vars
----------------------------------------------------------------------------

(* Every line a reader sees has its manifest, payload and signature, but   *)
(* for what the disk lost.                                                 *)
ServedWhole ==
    \A m \in index :
        /\ manifests[m] = Good \/ Name("manifest", m) \in damaged
        /\ payloads[m.files] = Good \/ Name("payload", m) \in damaged
        /\ sigs[m] \in Keys \/ Name("sig", m) \in damaged

(* What is published stays in the channel, and is one thing: after every   *)
(* PUBLISH, repair and WITHDRAW, whichever were cut, the index still has   *)
(* each line it had, and no other line of the same version.                *)
PublishedStays ==
    [][\A m \in index : {n \in index' : n.ver = m.ver} = {m}]_vars

(* Where each publish was held to the key of the first version, one key    *)
(* signs every version whose signature can be read, repairs included.      *)
OneKey ==
    ~ unheld => \A m, n \in index : {sigs[m], sigs[n]} \subseteq Keys => sigs[m] = sigs[n]

(* A withdrawal that was signed stays one, whatever is published, damaged  *)
(* or repaired after, where each publish was held to the first key: it     *)
(* counts whenever the signature of the version can be read.               *)
WithdrawnStays ==
    [][\A m \in index : m \in withdrawn /\ withdrawnSigs[m] \in Keys =>
          unheld' \/ sigs'[m] \notin Keys \/ IsWithdrawn(m)']_vars

(* A version withdrawn before the command began is not installed by a      *)
(* command all of whose requests were answered, where each publish was     *)
(* held to the first key: a signature kept in the cache is then the one    *)
(* that a repair put back.                                                 *)
Installs == root'.m # root.m
WithdrawnSkipped ==
    [][Installs /\ cmd.e.ch = 1 /\ cmd.e.m \in cmd.before => cmd.failed \/ unheld]_vars
=============================================================================
