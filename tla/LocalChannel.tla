---------------------------- MODULE LocalChannel ----------------------------
(***************************************************************************)
(* A channel in a directory, as PUBLISH and WITHDRAW write it: the objects *)
(* of a version before its line of the index, each file replaced whole,    *)
(* and no lock.  A manifest is named by its digest and stands for it here; *)
(* a drawer stands for the payload made from it.  One package, one CPU.    *)
(***************************************************************************)
EXTENDS Choice, Integers

CONSTANTS
    Publishers,   \* those who run PUBLISH and WITHDRAW on the directory
    KeyOf,        \* the key each of them signs with
    Versions,     \* the versions published, by their order
    Drawers,      \* what the files of a version may be
    Kinds,        \* what a package may be
    Overlap,      \* TRUE: two commands may run on the directory at once
    MaxCommands,  \* bound: commands run on the channel
    MaxDamage     \* bound: objects damaged on the disk

ASSUME LocalChannelAssumption ==
    /\ KeyOf \in [Publishers -> STRING]
    /\ \A p \in Publishers : KeyOf[p] \notin {Nothing, "good", "bad", "missing"}
    /\ Nothing \notin Kinds \cup {"good", "bad", "missing"}
    /\ Versions \subseteq Nat
    /\ Overlap \in BOOLEAN
    /\ MaxCommands \in Nat /\ MaxDamage \in Nat

Manifest == [ver : Versions, files : Drawers, kind : Kinds]
Keys == {KeyOf[p] : p \in Publishers}
Good == "good"
Bad == "bad"
Missing == "missing"

VARIABLES
    index,          \* the lines of the index: the manifests it names
    manifests,      \* objects/<digest>.manifest, by manifest
    payloads,       \* objects/<digest>.pkg, by drawer
    sigs,           \* objects/<digest>.sig: the key that signed, by manifest
    withdrawn,      \* the manifests with a .withdrawn file
    withdrawnSigs,  \* .withdrawn.sig: the key that signed, by manifest
    running,        \* by publisher: what its command has still to write
    spent,          \* commands begun and objects damaged so far
    damaged,        \* history: the objects damaged and not yet written again
    unheld          \* history: a publish whose key was not held to be the first version's

disk == <<index, manifests, payloads, sigs, withdrawn, withdrawnSigs>>
history == <<damaged, unheld>>
channelVars == <<disk, running, spent, history>>

Idle == [todo |-> <<>>, m |-> Nothing, ix |-> {}]

ChannelInit ==
    /\ index = {} /\ withdrawn = {}
    /\ manifests = [m \in Manifest |-> Missing]
    /\ payloads = [d \in Drawers |-> Missing]
    /\ sigs = [m \in Manifest |-> Missing]
    /\ withdrawnSigs = [m \in Manifest |-> Missing]
    /\ running = [p \in Publishers |-> Idle]
    /\ spent = [commands |-> 0, damage |-> 0]
    /\ damaged = {} /\ unheld = FALSE

MayBegin(p) ==
    /\ running[p] = Idle
    /\ Overlap \/ \A q \in Publishers : running[q] = Idle
    /\ spent.commands < MaxCommands
    /\ spent' = [spent EXCEPT !.commands = @ + 1]

----------------------------------------------------------------------------
(* The version published with the lowest number, and with the highest. *)
Lowest(ix) == CHOOSE m \in ix : \A n \in ix : m.ver <= n.ver
Highest(ix) == CHOOSE m \in ix : \A n \in ix : n.ver <= m.ver

(* The key a signature file claims; none when it cannot be read. *)
Claimed(m) == IF sigs[m] \in Keys THEN sigs[m] ELSE Nothing

(* What a version says of itself when KIND is left out: what the last one  *)
(* published said, when its manifest can be read.                          *)
Inherited(ix) ==
    IF ix # {} /\ manifests[Highest(ix)] = Good THEN Highest(ix).kind ELSE Nothing

BuiltKind(a) == IF a.kind # Nothing THEN a.kind ELSE Inherited(index)

Built(a) == [ver |-> a.ver, files |-> a.files, kind |-> BuiltKind(a)]

SameVersion(m) == {n \in index : n.ver = m.ver}

AnyKey(p, a) == TRUE

(* Only the key of the first version, unless ACCEPTKEY names the new one.  *)
FirstKey(p, a) ==
    index # {} /\ ~ a.accept => Claimed(Lowest(index)) \in {Nothing, KeyOf[p]}

(* It is another key, and ACCEPTKEY names it; or there is no telling, for   *)
(* the signature of the first version cannot be read.                      *)
Unheld(p, a) ==
    index # {} /\ \/ Claimed(Lowest(index)) = Nothing
                  \/ a.accept /\ Claimed(Lowest(index)) # KeyOf[p]

(* Nothing differs from the last version but its number. *)
SameFiles(m, last) == m.files = last.files /\ m.kind = last.kind

(* A kind that changes asks for NAME; a build whose files are those of the *)
(* last version is not published again.                                    *)
NewBuild(a, m) ==
    index # {} /\ manifests[Highest(index)] = Good =>
        /\ a.named \/ m.kind = Highest(index).kind
        /\ ~ (a.build /\ SameFiles(m, Highest(index)))

(* What PUBLISH writes, in its order. *)
WritesIndexed == <<"payload", "manifest", "index", "sig">>

Writes == <<"payload", "manifest", "sig", "index">>

(* PUBLISH of a version the index has not: the index is read, the drawer   *)
(* packaged, and the writes begin.                                         *)
Publish(p, a) ==
    /\ MayBegin(p)
    /\ BuiltKind(a) # Nothing
    /\ SameVersion(Built(a)) = {}
    /\ FirstKey(p, a)
    /\ NewBuild(a, Built(a))
    /\ running' = [running EXCEPT ![p] =
           [todo |-> Writes, m |-> Built(a), ix |-> index]]
    /\ unheld' = (unheld \/ Unheld(p, a))
    /\ UNCHANGED <<disk, damaged>>

(* PUBLISH of the version and the content the index has: what is missing   *)
(* or damaged of its objects is written again, with the first key only.    *)
Lacking(m) ==
    (IF manifests[m] # Good THEN <<"manifest">> ELSE <<>>)
    \o (IF payloads[m.files] # Good THEN <<"payload">> ELSE <<>>)
    \o (IF sigs[m] \notin Keys THEN <<"sig">> ELSE <<>>)

Republish(p, a) ==
    /\ MayBegin(p)
    /\ BuiltKind(a) # Nothing
    /\ SameVersion(Built(a)) # {} /\ Built(a) \in index
    /\ Lacking(Built(a)) # <<>>
    /\ Claimed(Lowest(index)) = KeyOf[p]
    /\ running' = [running EXCEPT ![p] =
           [todo |-> Lacking(Built(a)), m |-> Built(a), ix |-> index]]
    /\ UNCHANGED <<disk, history>>

(* A withdrawal counts when the key that signed the version signed it. *)
IsWithdrawn(m) ==
    m \in withdrawn /\ withdrawnSigs[m] \in Keys /\ withdrawnSigs[m] = Claimed(m)

Withdraw(p, m) ==
    /\ MayBegin(p)
    /\ m \in index
    /\ ~ IsWithdrawn(m)
    /\ Claimed(m) = KeyOf[p]
    /\ running' = [running EXCEPT ![p] =
           [todo |-> <<"withdrawn", "withdrawn.sig">>, m |-> m, ix |-> index]]
    /\ UNCHANGED <<disk, history>>

----------------------------------------------------------------------------
(* An object's name: a payload's is that of its files. *)
Name(o, m) == <<o, IF o = "payload" THEN [files |-> m.files] ELSE m>>

PutAfresh(p, o) ==
    LET m == running[p].m  k == KeyOf[p]
    IN /\ running[p].todo # <<>> /\ Head(running[p].todo) = o
       /\ manifests' = IF o = "manifest" THEN [manifests EXCEPT ![m] = Good] ELSE manifests
       /\ payloads' = IF o = "payload" THEN [payloads EXCEPT ![m.files] = Good] ELSE payloads
       /\ sigs' = IF o = "sig" THEN [sigs EXCEPT ![m] = k] ELSE sigs
       /\ withdrawn' = IF o = "withdrawn" THEN withdrawn \cup {m} ELSE withdrawn \ {m}
       /\ withdrawnSigs' = IF o = "withdrawn.sig"
                           THEN [withdrawnSigs EXCEPT ![m] = k] ELSE withdrawnSigs

(* The next file of a command is written, each over what was there. *)
Put(p, o) ==
    LET m == running[p].m  k == KeyOf[p]
    IN /\ running[p].todo # <<>> /\ Head(running[p].todo) = o
       /\ manifests' = IF o = "manifest" THEN [manifests EXCEPT ![m] = Good] ELSE manifests
       /\ payloads' = IF o = "payload" THEN [payloads EXCEPT ![m.files] = Good] ELSE payloads
       /\ sigs' = IF o = "sig" THEN [sigs EXCEPT ![m] = k] ELSE sigs
       /\ withdrawn' = IF o = "withdrawn" THEN withdrawn \cup {m} ELSE withdrawn
       /\ withdrawnSigs' = IF o = "withdrawn.sig"
                           THEN [withdrawnSigs EXCEPT ![m] = k] ELSE withdrawnSigs

Done(p) ==
    running' = IF Len(running[p].todo) = 1 THEN [running EXCEPT ![p] = Idle]
               ELSE [running EXCEPT ![p].todo = Tail(@)]

WriteObject(p) ==
    \E o \in {"payload", "manifest", "sig", "withdrawn", "withdrawn.sig"} :
        /\ Put(p, o)
        /\ Done(p)
        /\ damaged' = damaged \ {Name(o, running[p].m)}
        /\ UNCHANGED <<index, spent, unheld>>

NewIndexAlone(p) == {running[p].m}

(* The index as it was read, with the new line. *)
NewIndex(p) == running[p].ix \cup {running[p].m}

WriteIndex(p) ==
    /\ running[p].todo # <<>> /\ Head(running[p].todo) = "index"
    /\ index' = NewIndex(p)
    /\ Done(p)
    /\ UNCHANGED <<manifests, payloads, sigs, withdrawn, withdrawnSigs, spent,
                   damaged, unheld>>

(* The command ends before it is done: a write fails, or the machine does. *)
Stop(p) ==
    /\ running[p] # Idle
    /\ running' = [running EXCEPT ![p] = Idle]
    /\ UNCHANGED <<disk, spent, history>>

(* The disk damages an object of a version published, while nothing writes.*)
Damage(o, m) ==
    /\ spent.damage < MaxDamage /\ \A p \in Publishers : running[p] = Idle
    /\ spent' = [spent EXCEPT !.damage = @ + 1]
    /\ damaged' = damaged \cup {Name(o, m)}
    /\ manifests' = IF o = "manifest" THEN [manifests EXCEPT ![m] = Bad] ELSE manifests
    /\ payloads' = IF o = "payload" THEN [payloads EXCEPT ![m.files] = Bad] ELSE payloads
    /\ sigs' = IF o = "sig" THEN [sigs EXCEPT ![m] = Bad] ELSE sigs
    /\ UNCHANGED <<index, withdrawn, withdrawnSigs, running, unheld>>

Arguments == [ver : Versions, files : Drawers, kind : Kinds \cup {Nothing},
              named : BOOLEAN, build : BOOLEAN, accept : BOOLEAN]

ChannelNext ==
    \/ \E p \in Publishers :
          \/ \E a \in Arguments : Publish(p, a) \/ Republish(p, a)
          \/ \E m \in index : Withdraw(p, m)
          \/ WriteObject(p) \/ WriteIndex(p) \/ Stop(p)
    \/ \E m \in index, o \in {"manifest", "payload", "sig"} : Damage(o, m)
=============================================================================
