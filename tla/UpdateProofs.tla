---------------------------- MODULE UpdateProofs ----------------------------
(***************************************************************************)
(* Proofs about what is shared by commands outside a root: the files of    *)
(* environments and the lists of channels, pkg's own executable, and the   *)
(* cache of archives; for any commands, names, versions and bounds.        *)
(***************************************************************************)
EXTENDS SelfUpdate, Fetch, Environments, SequenceTheorems, TLAPS

(* What an ENV command knows of the file it changes: the identity it took  *)
(* is of the file it read or of one before, and what it means to write is  *)
(* what it makes of the file that has that identity.                       *)
Env == {"add", "remove", "default"}
Entries == [name : Words, root : Roots, scope : Scope]
EnvPcs ==
    {"idle", "system", "user", "select", "identify", "change", "compare", "replace", "reload",
     "channel", "write", "over", "refused"}
AskRec ==
    [pc : EnvPcs, verb : Env \cup {"use", "list", "unlist"}, scope : Scope, word : Maybe(Words),
     root : Maybe(Roots), at : Maybe(Words \cup Addresses), known : SUBSET Entries,
     default : Maybe(Words), before : Nat, now : Nat, items : SUBSET Item, named : Maybe(Words),
     list : Seq(Listing)]

AskPhase(a) ==
    /\ a.pc \in {"system", "user"} => a.verb \in Env \cup {"use"}
    /\ a.pc = "select" => a.verb = "use"
    /\ a.pc \in {"identify", "change", "compare", "replace", "reload"} => a.verb \in Env
    /\ a.verb \in Env /\ a.pc # "idle" => a.word \in Words
    /\ a.verb = "add" /\ a.pc # "idle" => a.root \in Roots
    /\ a.pc \in {"channel", "write"} => a.root \in Roots
    /\ a.pc = "channel" => a.verb \in {"use", "list", "unlist"}
    /\ a.verb = "list" /\ a.pc # "idle" => a.at \in Addresses
    /\ a.verb = "unlist" /\ a.pc # "idle" => a.at # Unnamed
    /\ a.pc = "write" => a.verb \in {"list", "unlist"}

Made(c) ==
    LET f == conf[ask[c].scope] IN
    Changes(c, f) /\ ask[c].items = Items(c, f) /\ ask[c].named = Default(c, f)

AskReads(c) ==
    LET a == ask[c] f == conf[a.scope] IN
    /\ a.pc \in {"change", "compare"} => a.before <= f.id
    /\ a.pc = "replace" => a.now <= f.id
    /\ a.pc = "compare" /\ f.id = a.before => Made(c)
    /\ a.pc = "replace" /\ f.id = a.now => Made(c)
    /\ a.pc \in {"compare", "replace"} =>
         /\ Distinct(a.items)
         /\ a.scope = "system" => a.named \in Maybe(NamesOf(a.items))

Apart(list) ==
    \A i, j \in DOMAIN list :
        i # j => list[i].at # list[j].at /\ (list[i].name = list[j].name => list[i].name = Unnamed)

EnvInv ==
    /\ conf \in [Scope -> Config] /\ channels \in [Roots -> Seq(Listing)] /\ edits \in Nat
    /\ ask \in [Askers -> AskRec]
    /\ WellFormed
    /\ \A r \in Roots : Apart(channels[r])
    /\ \A c \in Askers : /\ AskPhase(ask[c]) /\ AskReads(c)
                         /\ ask[c].pc = "write" => Apart(ask[c].list)

-----------------------------------------------------------------------------
(* The first file of a configuration is well formed. *)
LEMMA EnvStarts == EnvInit => EnvInv
  <1> SUFFICES ASSUME EnvInit
               PROVE  EnvInv
    OBVIOUS
  <1>1. conf \in [Scope -> Config] /\ WellFormed
    BY EnvironmentsAssumption DEF EnvInit, WellFormed, Scope
  <1>2. channels \in [Roots -> Seq(Listing)] /\ (\A r \in Roots : Apart(channels[r]))
    BY DEF EnvInit, Apart
  <1>3. Unasked \in AskRec
    BY DEF Unasked, Command, AskRec, EnvPcs, Scope, Maybe
  <1>4. \A c \in Askers : AskPhase(ask[c]) /\ AskReads(c)
    BY DEF EnvInit, Unasked, Command, AskPhase, AskReads, Env
  <1> QED BY <1>1, <1>2, <1>3, <1>4 DEF EnvInit, EnvInv, Unasked, Command

(* What a command means to write is made of its own words, and of the file *)
(* of its scope: while these stay, so does that.                           *)
LEMMA MadeStays ==
    ASSUME NEW c \in Askers,
           ask'[c].verb = ask[c].verb, ask'[c].scope = ask[c].scope, ask'[c].word = ask[c].word,
           ask'[c].root = ask[c].root, ask'[c].known = ask[c].known,
           conf'[ask[c].scope] = conf[ask[c].scope],
           NEW f
    PROVE  /\ Changes(c, f)' <=> Changes(c, f')
           /\ Items(c, f)' = Items(c, f')
           /\ Default(c, f)' = Default(c, f')
  <1>1. CASE ask[c].scope = "system"
    BY <1>1 DEF Changes, Items, Default, In
  <1>2. CASE ask[c].scope # "system"
    BY <1>2 DEF Changes, Items, Default
  <1> QED BY <1>1, <1>2

(* A command by itself: the others know what they knew. *)
LEMMA OneAsks ==
    ASSUME EnvInv, NEW c \in Askers, UNCHANGED <<conf, channels, edits>>,
           NEW a \in AskRec, ask' = [ask EXCEPT ![c] = a],
           AskPhase(a), AskReads(c)', a.pc = "write" => Apart(a.list)
    PROVE  EnvInv'
  <1>1. WellFormed' /\ \A r \in Roots : Apart(channels'[r])
    BY DEF EnvInv, WellFormed
  <1>2. ask' \in [Askers -> AskRec] /\ ask'[c] = a /\ \A d \in Askers \ {c} : ask'[d] = ask[d]
    BY DEF EnvInv
  <1>3. ASSUME NEW d \in Askers \ {c}
        PROVE  AskPhase(ask'[d]) /\ AskReads(d)' /\ (ask'[d].pc = "write" => Apart(ask'[d].list))
    <2>1. AskReads(d)
      BY DEF EnvInv
    <2>2. Made(d)' <=> Made(d)
      BY <1>2, MadeStays DEF Made
    <2>3. AskReads(d)'
      BY <2>1, <2>2, <1>2 DEF AskReads
    <2> QED BY <1>2, <2>3 DEF EnvInv
  <1> QED BY <1>1, <1>2, <1>3 DEF EnvInv

LEMMA Refusing ==
    ASSUME EnvInv, NEW c \in Askers, ask[c].pc # "idle", Refuse(c), UNCHANGED <<conf, channels, edits>>
    PROVE  EnvInv'
  <1> DEFINE a == [ask[c] EXCEPT !.pc = "refused"]
  <1>1. ask[c] \in AskRec /\ AskPhase(ask[c])
    BY DEF EnvInv
  <1>2. a \in AskRec
    BY <1>1 DEF AskRec, EnvPcs
  <1>3. a.pc = "refused" /\ a.verb = ask[c].verb /\ a.word = ask[c].word /\ a.root = ask[c].root
        /\ a.at = ask[c].at
    BY <1>1 DEF AskRec
  <1>4. AskPhase(a)
    BY <1>1, <1>3 DEF AskPhase, Env
  <1>5. ask' = [ask EXCEPT ![c] = a] /\ ask'[c] = a
    BY DEF EnvInv, Refuse, To
  <1> HIDE DEF a
  <1>6. AskReads(c)'
    BY <1>3, <1>5 DEF AskReads
  <1> QED BY <1>2, <1>3, <1>4, <1>5, <1>6, OneAsks

(* What is said is what the commands may say. *)
LEMMA Asking ==
    ASSUME EnvInv, NEW c \in Askers, Ask(c)
    PROVE  EnvInv'
  <1> DEFINE Pc(s) == IF s.verb \in {"list", "unlist"} \/ (s.verb = "use" /\ s.root # Unnamed)
                      THEN "channel" ELSE "system"
             Said(s) == Command(Pc(s), s)
  <1>1. PICK s \in Commands : ask' = [ask EXCEPT ![c] = Said(s)]
    BY DEF Ask
  <1>2. /\ s \in Saying
        /\ s.verb \in Env => s.word # Unnamed
        /\ s.verb = "add" => s.root \in Roots
        /\ s.verb = "list" => s.root \in Roots /\ s.at \in Addresses
        /\ s.verb = "unlist" => s.root \in Roots /\ s.at # Unnamed
    BY EnvironmentsAssumption DEF Env
  <1>3. Pc(s) \in EnvPcs
    BY DEF EnvPcs
  <1> HIDE DEF Pc
  <1>4. s.verb \in Env \cup {"use", "list", "unlist"}
    BY <1>2 DEF Saying, Env
  <1>5. Said(s) \in AskRec
    BY <1>2, <1>3, <1>4 DEF Saying, AskRec, Command, Maybe
  <1>6. /\ Said(s).pc = Pc(s) /\ Said(s).verb = s.verb /\ Said(s).word = s.word
        /\ Said(s).root = s.root /\ Said(s).at = s.at
    BY DEF Command
  <1> HIDE DEF Said
  <1>7. \/ Pc(s) = "channel" /\ (s.verb \in {"list", "unlist"} \/ (s.verb = "use" /\ s.root \in Roots))
        \/ Pc(s) = "system" /\ s.verb \in Env \cup {"use"}
    BY <1>2 DEF Pc, Saying, Env, Maybe
  <1>8. AskPhase(Said(s))
    BY <1>2, <1>6, <1>7 DEF AskPhase, Saying, Env, Maybe
  <1>9. ask'[c] = Said(s)
    BY <1>1, <1>5 DEF EnvInv
  <1>10. AskReads(c)'
    BY <1>6, <1>7, <1>9 DEF AskReads
  <1> QED BY <1>1, <1>5, <1>6, <1>7, <1>8, <1>10, OneAsks DEF Ask

LEMMA LoadingSystem ==
    ASSUME EnvInv, NEW c \in Askers, LoadSystem(c)
    PROVE  EnvInv'
  <1>1. CASE conf["system"].bad
    BY <1>1, Refusing DEF LoadSystem, Now
  <1>2. CASE ~conf["system"].bad
    <2> DEFINE a == [ask[c] EXCEPT !.pc = "user", !.known = In("system"), !.default = conf["system"].default]
    <2>1. ask[c] \in AskRec /\ AskPhase(ask[c]) /\ ask[c].pc = "system"
      BY DEF EnvInv, LoadSystem, Now
    <2>2. In("system") \in SUBSET Entries /\ conf["system"].default \in Maybe(Words)
      BY DEF EnvInv, In, Entries, Item, Config, Scope
    <2>3. a \in AskRec
      BY <2>1, <2>2 DEF AskRec, EnvPcs
    <2>4. a.pc = "user" /\ a.verb = ask[c].verb /\ a.word = ask[c].word /\ a.root = ask[c].root
          /\ a.at = ask[c].at
      BY <2>1 DEF AskRec
    <2>5. ask' = [ask EXCEPT ![c] = a] /\ ask'[c] = a
      BY <1>2 DEF EnvInv, LoadSystem
    <2> HIDE DEF a
    <2>6. AskPhase(a)
      BY <2>1, <2>4 DEF AskPhase
    <2>7. AskReads(c)'
      BY <2>4, <2>5 DEF AskReads
    <2> QED BY <2>3, <2>4, <2>5, <2>6, <2>7, OneAsks DEF LoadSystem
  <1> QED BY <1>1, <1>2

LEMMA LoadingUser ==
    ASSUME EnvInv, NEW c \in Askers, LoadUser(c)
    PROVE  EnvInv'
  <1>1. CASE conf["user"].bad
    BY <1>1, Refusing DEF LoadUser, Now
  <1>2. CASE ~conf["user"].bad
    <2> DEFINE pc == IF ask[c].verb = "use" THEN "select" ELSE "identify"
               known == ask[c].known \cup In("user")
               default == IF conf["user"].default # Unnamed THEN conf["user"].default ELSE ask[c].default
               a == [ask[c] EXCEPT !.pc = pc, !.known = known, !.default = default]
    <2>1. ask[c] \in AskRec /\ AskPhase(ask[c]) /\ ask[c].pc = "user"
      BY DEF EnvInv, LoadUser, Now
    <2>2. /\ known \in SUBSET Entries /\ default \in Maybe(Words)
          /\ pc \in EnvPcs /\ pc \in {"select", "identify"}
          /\ pc = "select" <=> ask[c].verb = "use"
      BY <2>1 DEF EnvInv, In, Entries, Item, Config, Scope, AskRec, EnvPcs
    <2>5. ask' = [ask EXCEPT ![c] = a] /\ ask'[c] = a
      BY <1>2 DEF EnvInv, LoadUser
    <2> HIDE DEF pc, known, default
    <2>3. a \in AskRec
      BY <2>1, <2>2 DEF AskRec
    <2>4. a.pc = pc /\ a.verb = ask[c].verb /\ a.word = ask[c].word /\ a.root = ask[c].root
          /\ a.at = ask[c].at
      BY <2>1 DEF AskRec
    <2> HIDE DEF a
    <2>6. AskPhase(a)
      BY <2>1, <2>2, <2>4 DEF AskPhase
    <2>7. AskReads(c)'
      BY <2>2, <2>4, <2>5 DEF AskReads
    <2> QED BY <2>2, <2>3, <2>4, <2>5, <2>6, <2>7, OneAsks DEF LoadUser
  <1> QED BY <1>1, <1>2

(* Whatever is chosen, it is a root. *)
LEMMA Selecting ==
    ASSUME EnvInv, NEW c \in Askers, Select(c)
    PROVE  EnvInv'
  <1>0. ask[c].pc = "select" /\ UNCHANGED <<conf, channels, edits>>
    BY DEF Select, Now
  <1>1. CASE Refuse(c)
    BY <1>0, <1>1, Refusing
  <1>2. ASSUME NEW r \in Directories, Works(c, r)
        PROVE  EnvInv'
    <2> DEFINE a == [ask[c] EXCEPT !.root = r, !.pc = "channel"]
    <2>1. ask[c] \in AskRec /\ AskPhase(ask[c]) /\ ask[c].pc = "select" /\ r \in Roots
      BY <1>0, EnvironmentsAssumption DEF EnvInv
    <2>3. a \in AskRec
      BY <2>1 DEF AskRec, EnvPcs, Maybe
    <2>4. a.pc = "channel" /\ a.verb = ask[c].verb /\ a.word = ask[c].word /\ a.root = r
          /\ a.at = ask[c].at
      BY <2>1 DEF AskRec
    <2>5. ask' = [ask EXCEPT ![c] = a] /\ ask'[c] = a
      BY <1>2 DEF EnvInv, Works
    <2> HIDE DEF a
    <2>6. AskPhase(a)
      BY <2>1, <2>4 DEF AskPhase, Env
    <2>7. AskReads(c)'
      BY <2>4, <2>5 DEF AskReads
    <2> QED BY <1>0, <2>3, <2>4, <2>5, <2>6, <2>7, OneAsks
  <1> QED BY <1>1, <1>2 DEF Select

LEMMA Identifying ==
    ASSUME EnvInv, NEW c \in Askers, Identify(c)
    PROVE  EnvInv'
  <1>0. ask[c].pc = "identify" /\ UNCHANGED <<conf, channels, edits>>
    BY DEF Identify, Now
  <1>1. CASE Refuse(c)
    BY <1>0, <1>1, Refusing
  <1>2. CASE ~Refuse(c)
    <2> DEFINE id == conf[ask[c].scope].id
               a == [ask[c] EXCEPT !.pc = "change", !.before = id]
    <2>1. ask[c] \in AskRec /\ AskPhase(ask[c]) /\ ask[c].pc = "identify"
      BY <1>0 DEF EnvInv
    <2>2. id \in Nat
      BY <2>1 DEF EnvInv, AskRec, Config
    <2>5. ask' = [ask EXCEPT ![c] = a] /\ ask'[c] = a
      BY <1>2 DEF EnvInv, Identify
    <2> HIDE DEF id
    <2>3. a \in AskRec
      BY <2>1, <2>2 DEF AskRec, EnvPcs
    <2>4. a.pc = "change" /\ a.verb = ask[c].verb /\ a.word = ask[c].word /\ a.root = ask[c].root
          /\ a.at = ask[c].at /\ a.scope = ask[c].scope /\ a.before = id
      BY <2>1 DEF AskRec
    <2> HIDE DEF a
    <2>6. AskPhase(a)
      BY <2>1, <2>4 DEF AskPhase
    <2>7. AskReads(c)'
      BY <1>0, <2>2, <2>4, <2>5 DEF AskReads, id
    <2> QED BY <1>0, <2>3, <2>4, <2>5, <2>6, <2>7, OneAsks
  <1> QED BY <1>1, <1>2

(* What is made of a well formed file is well formed. *)
LEMMA MadeWell ==
    ASSUME EnvInv, NEW c \in Askers, ask[c].pc = "change", NEW f, f = conf[ask[c].scope], Changes(c, f)
    PROVE  /\ Items(c, f) \in SUBSET Item /\ Default(c, f) \in Maybe(Words)
           /\ Distinct(Items(c, f))
           /\ ask[c].scope = "system" => Default(c, f) \in Maybe(NamesOf(Items(c, f)))
  <1>1. /\ ask[c].verb \in Env /\ ask[c].word \in Words
        /\ ask[c].verb = "add" => ask[c].root \in Roots
        /\ ask[c].scope \in Scope
    BY DEF EnvInv, AskPhase, AskRec
  <1>2. /\ f.items \in SUBSET Item /\ f.default \in Maybe(Words) /\ Distinct(f.items)
        /\ ask[c].scope = "system" => f.default \in Maybe(NamesOf(f.items))
    BY <1>1 DEF EnvInv, Config, WellFormed
  <1>3. CASE ask[c].verb = "add"
    <2> DEFINE new == [name |-> ask[c].word, root |-> ask[c].root]
    <2>1. Items(c, f) = f.items \cup {new} /\ Default(c, f) = f.default
      BY <1>3 DEF Items, Default
    <2>2. new \in Item /\ new.name = ask[c].word
      BY <1>1, <1>3 DEF Item
    <2>3. \A i \in f.items : i.name # new.name
      BY <1>3, <2>2 DEF Changes, NamesOf
    <2> HIDE DEF new
    <2>4. Distinct(Items(c, f))
      BY <1>2, <2>1, <2>3 DEF Distinct
    <2> QED BY <1>2, <2>1, <2>2, <2>4 DEF Maybe, NamesOf
  <1>4. CASE ask[c].verb = "remove"
    <2>1. /\ Items(c, f) = {i \in f.items : i.name # ask[c].word}
          /\ Default(c, f) = IF f.default = ask[c].word THEN Unnamed ELSE f.default
      BY <1>4 DEF Items, Default
    <2>2. Distinct(Items(c, f))
      BY <1>2, <2>1 DEF Distinct
    <2> QED BY <1>2, <2>1, <2>2 DEF Maybe, NamesOf
  <1>5. CASE ask[c].verb = "default"
    <2>1. Items(c, f) = f.items /\ Default(c, f) = ask[c].word
      BY <1>5 DEF Items, Default
    <2>2. ASSUME ask[c].scope = "system"
          PROVE  ask[c].word \in NamesOf(f.items)
      <3>1. Chosen(In("system"), ask[c].word) # {}
        BY <1>5, <2>2 DEF Changes
      <3>2. PICK k \in In("system") : ask[c].word # Unnamed => k.name = ask[c].word
        BY <3>1 DEF Chosen, Matches
      <3>3. ask[c].word # Unnamed
        BY <1>1, EnvironmentsAssumption
      <3> QED BY <2>2, <3>2, <3>3 DEF In, NamesOf
    <2> QED BY <1>1, <1>2, <2>1, <2>2 DEF Maybe
  <1> QED BY <1>1, <1>3, <1>4, <1>5 DEF Env

LEMMA Changing ==
    ASSUME EnvInv, NEW c \in Askers, Change(c)
    PROVE  EnvInv'
  <1> DEFINE f == conf[ask[c].scope]
  <1>0. ask[c].pc = "change" /\ UNCHANGED <<conf, channels, edits>>
    BY DEF Change, Now
  <1>1. CASE ~Changes(c, f)
    BY <1>0, <1>1, Refusing DEF Change
  <1>2. CASE Changes(c, f)
    <2> DEFINE items == Items(c, f)
               named == Default(c, f)
               a == [ask[c] EXCEPT !.pc = "compare", !.items = items, !.named = named]
    <2>1. ask[c] \in AskRec /\ AskPhase(ask[c]) /\ AskReads(c)
      BY DEF EnvInv
    <2>2. /\ items \in SUBSET Item /\ named \in Maybe(Words) /\ Distinct(items)
          /\ ask[c].scope = "system" => named \in Maybe(NamesOf(items))
      BY <1>0, <1>2, MadeWell
    <2>5. ask' = [ask EXCEPT ![c] = a] /\ ask'[c] = a
      BY <1>2 DEF EnvInv, Change
    <2> HIDE DEF items, named
    <2>3. a \in AskRec
      BY <2>1, <2>2 DEF AskRec, EnvPcs
    <2>4. /\ a.pc = "compare" /\ a.verb = ask[c].verb /\ a.word = ask[c].word /\ a.root = ask[c].root
          /\ a.at = ask[c].at /\ a.scope = ask[c].scope /\ a.before = ask[c].before
          /\ a.known = ask[c].known /\ a.items = items /\ a.named = named
      BY <2>1 DEF AskRec
    <2> HIDE DEF a
    <2>6. AskPhase(a)
      BY <1>0, <2>1, <2>4 DEF AskPhase
    <2>7. f' = f /\ Changes(c, f)' /\ Items(c, f)' = items /\ Default(c, f)' = named
      BY <1>0, <1>2, <2>4, <2>5, MadeStays DEF items, named
    <2>8. Made(c)'
      BY <2>4, <2>5, <2>7 DEF Made
    <2>9. AskReads(c)'
      BY <1>0, <2>1, <2>2, <2>4, <2>5, <2>8 DEF AskReads
    <2> QED BY <1>0, <2>3, <2>4, <2>5, <2>6, <2>9, OneAsks
  <1> QED BY <1>1, <1>2

LEMMA Comparing ==
    ASSUME EnvInv, NEW c \in Askers, CompareId(c)
    PROVE  EnvInv'
  <1>0. ask[c].pc = "compare" /\ UNCHANGED <<conf, channels, edits>>
    BY DEF CompareId, Now
  <1>1. CASE conf[ask[c].scope].id # ask[c].before
    BY <1>0, <1>1, Refusing DEF CompareId
  <1>2. CASE conf[ask[c].scope].id = ask[c].before
    <2> DEFINE a == [ask[c] EXCEPT !.pc = "replace", !.now = ask[c].before]
    <2>1. ask[c] \in AskRec /\ AskPhase(ask[c]) /\ AskReads(c)
      BY DEF EnvInv
    <2>3. a \in AskRec
      BY <2>1 DEF AskRec, EnvPcs
    <2>4. /\ a.pc = "replace" /\ a.verb = ask[c].verb /\ a.word = ask[c].word /\ a.root = ask[c].root
          /\ a.at = ask[c].at /\ a.scope = ask[c].scope /\ a.now = ask[c].before
          /\ a.known = ask[c].known /\ a.items = ask[c].items /\ a.named = ask[c].named
      BY <2>1 DEF AskRec
    <2>5. ask' = [ask EXCEPT ![c] = a] /\ ask'[c] = a
      BY <1>2 DEF EnvInv, CompareId
    <2> HIDE DEF a
    <2>6. AskPhase(a)
      BY <1>0, <2>1, <2>4 DEF AskPhase
    <2>7. Made(c)
      BY <1>0, <1>2, <2>1 DEF AskReads
    <2>8. Made(c)'
      BY <1>0, <2>4, <2>5, <2>7, MadeStays DEF Made
    <2>9. AskReads(c)'
      BY <1>0, <2>1, <2>4, <2>5, <2>8 DEF AskReads
    <2> QED BY <1>0, <2>3, <2>4, <2>5, <2>6, <2>9, OneAsks
  <1> QED BY <1>1, <1>2

LEMMA Reloading ==
    ASSUME EnvInv, NEW c \in Askers, Reload(c)
    PROVE  EnvInv'
  <1>0. ask[c].pc = "reload" /\ UNCHANGED <<conf, channels, edits>>
    BY DEF Reload, Now
  <1>1. CASE Refuse(c)
    BY <1>0, <1>1, Refusing
  <1>2. CASE To(c, "over")
    <2> DEFINE a == [ask[c] EXCEPT !.pc = "over"]
    <2>1. ask[c] \in AskRec /\ AskPhase(ask[c])
      BY DEF EnvInv
    <2>3. a \in AskRec
      BY <2>1 DEF AskRec, EnvPcs
    <2>4. a.pc = "over" /\ a.verb = ask[c].verb /\ a.word = ask[c].word /\ a.root = ask[c].root
          /\ a.at = ask[c].at
      BY <2>1 DEF AskRec
    <2>5. ask' = [ask EXCEPT ![c] = a] /\ ask'[c] = a
      BY <1>2 DEF EnvInv, To
    <2> HIDE DEF a
    <2>6. AskPhase(a)
      BY <1>0, <2>1, <2>4 DEF AskPhase
    <2>9. AskReads(c)'
      BY <2>4, <2>5 DEF AskReads
    <2> QED BY <1>0, <2>3, <2>4, <2>5, <2>6, <2>9, OneAsks
  <1> QED BY <1>1, <1>2 DEF Reload

(* A file that is replaced is another: nobody takes it for the one it read. *)
LEMMA Anew ==
    ASSUME EnvInv, NEW s \in Scope, NEW g \in Config, g.id = conf[s].id + 1,
           conf' = [conf EXCEPT ![s] = g], NEW d \in Askers, ask'[d] = ask[d]
    PROVE  AskReads(d)'
  <1>1. ask[d] \in AskRec /\ AskReads(d) /\ conf[s] \in Config
    BY DEF EnvInv
  <1>2. ask[d].before \in Nat /\ ask[d].now \in Nat /\ conf[s].id \in Nat /\ ask[d].scope \in Scope
    BY <1>1 DEF AskRec, Config
  <1>3. CASE ask[d].scope = s
    <2>1. conf'[s] = g
      BY DEF EnvInv
    <2> QED BY <1>1, <1>2, <1>3, <2>1 DEF AskReads
  <1>4. CASE ask[d].scope # s
    <2>1. conf'[ask[d].scope] = conf[ask[d].scope]
      BY <1>2, <1>4 DEF EnvInv
    <2>2. Made(d)' <=> Made(d)
      BY <2>1, MadeStays DEF Made
    <2> QED BY <1>1, <2>1, <2>2 DEF AskReads
  <1> QED BY <1>3, <1>4

LEMMA Replacing ==
    ASSUME EnvInv, NEW c \in Askers, Replace(c)
    PROVE  EnvInv'
  <1> DEFINE s == ask[c].scope
             g == [id |-> conf[s].id + 1, bad |-> FALSE, items |-> ask[c].items, default |-> ask[c].named]
  <1>0. ask[c].pc = "replace" /\ UNCHANGED <<channels, edits>>
    BY DEF Replace, Now
  <1>1. CASE Refuse(c) /\ UNCHANGED conf
    BY <1>0, <1>1, Refusing
  <1>2. CASE conf' = [conf EXCEPT ![s] = g] /\ To(c, "reload")
    <2> DEFINE a == [ask[c] EXCEPT !.pc = "reload"]
    <2>1. ask[c] \in AskRec /\ AskPhase(ask[c]) /\ AskReads(c) /\ s \in Scope
      BY DEF EnvInv, AskRec
    <2>2. conf[s] \in Config /\ g \in Config /\ g.id = conf[s].id + 1
      BY <2>1 DEF EnvInv, Config, AskRec
    <2>3. a \in AskRec
      BY <2>1 DEF AskRec, EnvPcs
    <2>4. a.pc = "reload" /\ a.verb = ask[c].verb /\ a.word = ask[c].word /\ a.root = ask[c].root
          /\ a.at = ask[c].at
      BY <2>1 DEF AskRec
    <2>5. ask' = [ask EXCEPT ![c] = a]
      BY <1>2 DEF EnvInv, To
    <2> HIDE DEF a
    <2>6. /\ ask' \in [Askers -> AskRec] /\ ask'[c] = a
          /\ \A d \in Askers \ {c} : ask'[d] = ask[d]
      BY <2>3, <2>5 DEF EnvInv
    <2>7. AskPhase(a) /\ AskReads(c)'
      BY <1>0, <2>1, <2>4, <2>6 DEF AskPhase, AskReads
    <2>8. \A d \in Askers \ {c} : AskReads(d)'
      BY <1>2, <2>1, <2>2, <2>6, Anew
    <2>9. conf' \in [Scope -> Config] /\ conf'[s] = g /\ \A t \in Scope \ {s} : conf'[t] = conf[t]
      BY <1>2, <2>1, <2>2 DEF EnvInv
    <2>10. WellFormed'
      BY <1>0, <2>1, <2>9 DEF EnvInv, WellFormed, AskReads, Scope
    <2> QED BY <1>0, <2>4, <2>6, <2>7, <2>8, <2>9, <2>10 DEF EnvInv
  <1> QED BY <1>1, <1>2 DEF Replace

LEMMA Editing ==
    ASSUME EnvInv, NEW s \in Scope, Edit(s)
    PROVE  EnvInv'
  <1> DEFINE bad == ~conf[s].bad
             g == [id |-> conf[s].id + 1, bad |-> bad, items |-> conf[s].items, default |-> conf[s].default]
  <1>0. bad \in BOOLEAN
    OBVIOUS
  <1>1. conf[s] \in Config /\ conf' = [conf EXCEPT ![s] = g]
    BY DEF EnvInv, Edit
  <1> HIDE DEF bad
  <1>2. g \in Config /\ g.id = conf[s].id + 1 /\ g.items = conf[s].items /\ g.default = conf[s].default
    <2>1. conf[s].id + 1 \in Nat
      BY <1>1 DEF Config
    <2> QED BY <1>0, <1>1, <2>1 DEF Config
  <1> HIDE DEF g
  <1>3. conf' \in [Scope -> Config] /\ conf'[s] = g /\ \A t \in Scope \ {s} : conf'[t] = conf[t]
    BY <1>1, <1>2 DEF EnvInv
  <1>4. WellFormed'
    BY <1>2, <1>3 DEF EnvInv, WellFormed, Scope
  <1>5. \A d \in Askers : AskReads(d)'
    BY <1>1, <1>2, Anew DEF Edit
  <1>6. UNCHANGED <<channels, ask>> /\ edits' \in Nat
    BY DEF Edit, EnvInv
  <1> QED BY <1>3, <1>4, <1>5, <1>6 DEF EnvInv

-----------------------------------------------------------------------------
(* A list whose channels are apart stays so with one less, or with one     *)
(* more that is apart from each.                                           *)
LEMMA TakenApart ==
    ASSUME NEW list \in Seq(Listing), Apart(list), NEW i \in 1 .. Len(list)
    PROVE  Taken(list, i) \in Seq(Listing) /\ Apart(Taken(list, i))
  <1> DEFINE was(j) == IF j < i THEN j ELSE j + 1
  <1>1. Len(list) \in Nat /\ DOMAIN list = 1 .. Len(list) /\ \A j \in 1 .. Len(list) : list[j] \in Listing
    BY LenProperties
  <1>2. \A j \in 1 .. Len(list) - 1 : was(j) \in 1 .. Len(list)
    BY <1>1
  <1>3. \A j, k \in 1 .. Len(list) - 1 : j # k => was(j) # was(k)
    BY <1>1
  <1> HIDE DEF was
  <1>4. Taken(list, i) = [j \in 1 .. Len(list) - 1 |-> list[was(j)]]
    BY DEF Taken, was
  <1>5. Taken(list, i) \in Seq(Listing)
    <2>1. Len(list) - 1 \in Nat /\ Taken(list, i) \in [1 .. Len(list) - 1 -> Listing]
      BY <1>1, <1>2, <1>4
    <2> QED BY <2>1 DEF Seq
  <1>6. Apart(Taken(list, i))
    BY <1>1, <1>2, <1>3, <1>4 DEF Apart
  <1> QED BY <1>5, <1>6

LEMMA AppendedApart ==
    ASSUME NEW list \in Seq(Listing), Apart(list), NEW new \in Listing,
           \A i \in DOMAIN list : /\ list[i].at # new.at
                                  /\ list[i].name = new.name => new.name = Unnamed
    PROVE  Append(list, new) \in Seq(Listing) /\ Apart(Append(list, new))
  <1>1. /\ Len(list) \in Nat /\ DOMAIN list = 1 .. Len(list)
        /\ Append(list, new) \in Seq(Listing)
        /\ DOMAIN Append(list, new) = 1 .. Len(list) + 1
        /\ \A i \in 1 .. Len(list) : Append(list, new)[i] = list[i]
        /\ Append(list, new)[Len(list) + 1] = new
    OBVIOUS
  <1>2. \A i \in 1 .. Len(list) + 1 : i \in 1 .. Len(list) \/ i = Len(list) + 1
    BY <1>1
  <1> QED BY <1>1, <1>2 DEF Apart

(* The channel listed is apart from each: its address is none of theirs,   *)
(* and the word it is called by names none of them.                        *)
LEMMA ReadingList ==
    ASSUME EnvInv, NEW c \in Askers, ReadList(c)
    PROVE  EnvInv'
  <1>0. ask[c].pc = "channel" /\ UNCHANGED <<conf, channels, edits>>
    BY DEF ReadList, Now
  <1>1. /\ ask[c] \in AskRec /\ AskPhase(ask[c])
        /\ List(c) \in Seq(Listing) /\ Apart(List(c))
    BY <1>0 DEF EnvInv, AskPhase, List
  <1>2. ASSUME NEW list \in Seq(Listing), NEW pc \in {"over", "write"}, WithList(c, pc, list),
               pc = "write" => Apart(list) /\ ask[c].verb \in {"list", "unlist"}
        PROVE  EnvInv'
    <2> DEFINE a == [ask[c] EXCEPT !.pc = pc, !.list = list]
    <2>1. pc \in EnvPcs
      BY DEF EnvPcs
    <2>2. a \in AskRec
      BY <1>1, <2>1 DEF AskRec
    <2>3. a.pc = pc /\ a.verb = ask[c].verb /\ a.word = ask[c].word /\ a.root = ask[c].root
          /\ a.at = ask[c].at /\ a.list = list
      BY <1>1 DEF AskRec
    <2>4. ask' = [ask EXCEPT ![c] = a] /\ ask'[c] = a
      BY <1>2 DEF EnvInv, WithList
    <2> HIDE DEF a
    <2>5. AskPhase(a)
      BY <1>0, <1>1, <1>2, <2>3 DEF AskPhase
    <2>6. AskReads(c)'
      BY <2>3, <2>4 DEF AskReads
    <2> QED BY <1>0, <1>2, <2>2, <2>3, <2>4, <2>5, <2>6, OneAsks
  <1>3. CASE ask[c].verb = "use" /\ \E list \in Reads(c) : WithList(c, "over", list)
    <2>1. PICK list \in Reads(c) : WithList(c, "over", list)
      BY <1>3
    <2>2. list \in Seq(Listing)
      <3>1. CASE ask[c].at = Unnamed
        BY <1>1, <2>1, <3>1 DEF Reads
      <3>2. CASE ask[c].at \in Addresses /\ ask[c].at # Unnamed
        <4> DEFINE one == [name |-> Unnamed, at |-> ask[c].at]
        <4>1. one \in Listing
          BY <3>2 DEF Listing, Maybe
        <4>2. list = <<one>>
          BY <2>1, <3>2 DEF Reads
        <4> HIDE DEF one
        <4> QED BY <4>1, <4>2
      <3>3. CASE ask[c].at \notin Addresses /\ ask[c].at # Unnamed
        <4>1. PICK i \in DOMAIN List(c) : list = <<List(c)[i]>>
          BY <2>1, <3>3 DEF Reads, First, Called
        <4>2. List(c)[i] \in Listing
          BY <1>1, <4>1, LenProperties
        <4> QED BY <4>1, <4>2
      <3> QED BY <3>1, <3>2, <3>3
    <2> QED BY <1>2, <2>1, <2>2
  <1>4. CASE /\ ask[c].verb = "list" /\ Lists(c)
             /\ WithList(c, "write", Append(List(c), [name |-> Calling(c), at |-> ask[c].at]))
    <2> DEFINE new == [name |-> Calling(c), at |-> ask[c].at]
    <2>1. ask[c].at \in Addresses /\ ask[c].word \in Maybe(Words)
      BY <1>0, <1>1, <1>4 DEF AskPhase, AskRec
    <2>2. Calling(c) \in Maybe(Words)
      BY <2>1, EnvironmentsAssumption DEF Calling, Maybe
    <2>3. Calling(c) # Unnamed => Called(List(c), Calling(c)) = {}
      BY <1>4 DEF Calling, Lists
    <2>4. /\ new \in Listing /\ new.at = ask[c].at /\ new.name = Calling(c)
      BY <2>1, <2>2 DEF Listing
    <2> HIDE DEF new
    <2>5. \A i \in DOMAIN List(c) : /\ List(c)[i].at # new.at
                                    /\ List(c)[i].name = new.name => new.name = Unnamed
      BY <1>4, <2>3, <2>4 DEF Lists, Called
    <2>6. Append(List(c), new) \in Seq(Listing) /\ Apart(Append(List(c), new))
      BY <1>1, <2>4, <2>5, AppendedApart
    <2> QED BY <1>2, <1>4, <2>6 DEF new
  <1>5. CASE /\ ask[c].verb = "unlist"
             /\ \E i \in First(Unlists(c)) : WithList(c, "write", Taken(List(c), i))
    <2>1. PICK i \in First(Unlists(c)) : WithList(c, "write", Taken(List(c), i))
      BY <1>5
    <2>2. i \in 1 .. Len(List(c))
      BY <1>1, <2>1, LenProperties DEF First, Unlists, Called
    <2>3. Taken(List(c), i) \in Seq(Listing) /\ Apart(Taken(List(c), i))
      BY <1>1, <2>2, TakenApart
    <2> QED BY <1>2, <1>5, <2>1, <2>3
  <1>6. CASE Refuse(c)
    BY <1>0, <1>6, Refusing
  <1> QED BY <1>3, <1>4, <1>5, <1>6 DEF ReadList

LEMMA WritingList ==
    ASSUME EnvInv, NEW c \in Askers, WriteList(c)
    PROVE  EnvInv'
  <1>0. ask[c].pc = "write" /\ UNCHANGED <<conf, edits>>
    BY DEF WriteList, Now
  <1>1. ask[c] \in AskRec /\ AskPhase(ask[c]) /\ Apart(ask[c].list) /\ ask[c].list \in Seq(Listing)
    BY <1>0 DEF EnvInv, AskRec
  <1>2. CASE Refuse(c) /\ UNCHANGED channels
    BY <1>0, <1>2, Refusing
  <1>3. CASE channels' = [channels EXCEPT ![ask[c].root] = ask[c].list] /\ To(c, "over")
    <2> DEFINE a == [ask[c] EXCEPT !.pc = "over"]
    <2>1. channels' \in [Roots -> Seq(Listing)] /\ \A r \in Roots : Apart(channels'[r])
      BY <1>1, <1>3 DEF EnvInv
    <2>2. a \in AskRec
      BY <1>1 DEF AskRec, EnvPcs
    <2>3. a.pc = "over" /\ a.verb = ask[c].verb /\ a.word = ask[c].word /\ a.root = ask[c].root
          /\ a.at = ask[c].at
      BY <1>1 DEF AskRec
    <2>4. ask' = [ask EXCEPT ![c] = a]
      BY <1>3 DEF EnvInv, To
    <2> HIDE DEF a
    <2>5. /\ ask' \in [Askers -> AskRec] /\ ask'[c] = a
          /\ \A d \in Askers \ {c} : ask'[d] = ask[d]
      BY <2>2, <2>4 DEF EnvInv
    <2>6. AskPhase(a) /\ AskReads(c)'
      BY <1>0, <1>1, <2>3, <2>5 DEF AskPhase, AskReads
    <2>7. ASSUME NEW d \in Askers \ {c}
          PROVE  AskReads(d)'
      <3>1. AskReads(d)
        BY DEF EnvInv
      <3>2. Made(d)' <=> Made(d)
        BY <1>0, <2>5, MadeStays DEF Made
      <3> QED BY <1>0, <2>5, <3>1, <3>2 DEF AskReads
    <2>8. WellFormed'
      BY <1>0 DEF EnvInv, WellFormed
    <2> QED BY <1>0, <2>1, <2>3, <2>5, <2>6, <2>7, <2>8 DEF EnvInv
  <1> QED BY <1>2, <1>3 DEF WriteList

(* However ENV and CHANNEL commands meet, and wherever one is refused, what *)
(* they keep is what was registered: for any number of them, of names, of  *)
(* roots and of channels.                                                  *)
THEOREM RegisteredAlways == EnvSpec => []Registered
  <1>1. EnvInv /\ [EnvNext]_envVars => EnvInv'
    <2> SUFFICES ASSUME EnvInv, [EnvNext]_envVars
                 PROVE  EnvInv'
      OBVIOUS
    <2>1. CASE UNCHANGED envVars
      <3>1. UNCHANGED <<conf, channels, ask, edits>>
        BY <2>1 DEF envVars
      <3>2. \A d \in Askers : Made(d)' <=> Made(d)
        BY <3>1, MadeStays DEF Made
      <3>3. \A d \in Askers : AskReads(d)' <=> AskReads(d)
        BY <3>1, <3>2 DEF AskReads
      <3> QED BY <3>1, <3>3 DEF EnvInv, WellFormed
    <2>2. CASE \E s \in Scope : Edit(s)
      BY <2>2, Editing
    <2>3. CASE \E c \in Askers : \/ Ask(c) \/ LoadSystem(c) \/ LoadUser(c) \/ Select(c)
                                  \/ Identify(c) \/ Change(c) \/ CompareId(c) \/ Replace(c)
                                  \/ Reload(c) \/ ReadList(c) \/ WriteList(c)
      BY <2>3, Asking, LoadingSystem, LoadingUser, Selecting, Identifying, Changing, Comparing,
         Replacing, Reloading, ReadingList, WritingList
    <2> QED BY <2>1, <2>2, <2>3 DEF EnvNext
  <1>2. EnvInv => Registered
    <2> SUFFICES ASSUME EnvInv
                 PROVE  Registered
      OBVIOUS
    <2>1. NothingLost
      BY DEF EnvInv, AskReads, Made, NothingLost, Now
    <2>2. NamesApart
      BY DEF EnvInv, NamesApart, Apart
    <2> QED BY <2>1, <2>2 DEF EnvInv, Registered
  <1> QED BY <1>1, <1>2, EnvStarts, PTL DEF EnvSpec

-----------------------------------------------------------------------------
(* pkg replacing its own executable.  A run past its comparison has in its *)
(* drawer a build as it was signed, and one past its first move, on        *)
(* Windows, the executable that was there too; nothing but a removal takes *)
(* the executable and leaves it in no drawer.                              *)
Files == [v : Nat, good : BOOLEAN, file : Nat]
RunPcs ==
    {"idle", "update", "sums", "sig", "bin", "compare", "recheck", "rename", "away", "in", "back",
     "remove", "unlink", "over"}
RunRec == [pc : RunPcs, own : Files, seen : Nat, sums : Files, sig : Nat]
StageRec == [made : BOOLEAN, new : Files, prev : Files]
SuRec == [windows : BOOLEAN, macos : BOOLEAN, files : Nat, removing : BOOLEAN, spoils : Nat,
          kills : Nat, refusals : Nat]

SUTypes ==
    /\ target \in Files /\ chan \in [sums : Files, sig : Nat, bin : Files]
    /\ run \in [Runs -> RunRec] /\ stage \in [Runs -> StageRec] /\ su \in SuRec

RunHas(a, b, removing) ==
    /\ a.pc \in {"recheck", "rename", "away", "in", "back"} => b.new.good
    /\ a.pc \in {"in", "back"} => b.prev.good
    /\ b.prev # Nothing => a.pc \in {"in", "back", "over"}
    /\ a.pc \in {"remove", "unlink"} => removing

SUInv == SUTypes /\ Survives /\ \A r \in Runs : RunHas(run[r], stage[r], su.removing)

LEMMA NothingIsBad == Nothing \in Files /\ ~Nothing.good
  BY DEF Nothing, Build, Files

LEMMA SUStarts == SUInit => SUInv
  <1> SUFFICES ASSUME SUInit
               PROVE  SUInv
    OBVIOUS
  <1>1. Build(1, TRUE, 1) \in Files /\ Build(1, TRUE, 0) \in Files /\ Build(1, TRUE, 1).good
    BY DEF Build, Files
  <1>2. NoRun \in RunRec /\ NoStage \in StageRec /\ NoRun.pc = "idle" /\ NoStage.prev = Nothing
    BY NothingIsBad DEF NoRun, NoStage, RunRec, StageRec, RunPcs
  <1>3. chan \in [sums : Files, sig : Nat, bin : Files]
    BY <1>1 DEF SUInit
  <1>4. su \in SuRec
    BY DEF SUInit, SuRec
  <1>5. Build(1, TRUE, 1) # Nothing
    BY <1>1, NothingIsBad
  <1> QED BY <1>1, <1>2, <1>3, <1>4, <1>5 DEF SUInit, SUInv, SUTypes, Survives, RunHas

(* A step of one run. *)
LEMMA OneRuns ==
    ASSUME SUInv, NEW r \in Runs, NEW a \in RunRec, NEW b \in StageRec,
           run' = [run EXCEPT ![r] = a], stage' = [stage EXCEPT ![r] = b],
           chan' = chan, target' \in Files, su' \in SuRec, su.removing => su'.removing,
           RunHas(a, b, su'.removing),
           target' # Nothing => target'.good,
           \/ target' # Nothing \/ b.prev.good \/ su'.removing
           \/ target' = target /\ b.prev = stage[r].prev
    PROVE  SUInv'
  <1>1. /\ run' \in [Runs -> RunRec] /\ stage' \in [Runs -> StageRec]
        /\ run'[r] = a /\ stage'[r] = b
        /\ \A q \in Runs \ {r} : run'[q] = run[q] /\ stage'[q] = stage[q]
    BY DEF SUInv, SUTypes
  <1>2. SUTypes'
    BY <1>1 DEF SUInv, SUTypes
  <1>3. \A q \in Runs : RunHas(run'[q], stage'[q], su'.removing)
    BY <1>1 DEF SUInv, RunHas
  <1>4. Survives'
    <2>1. ASSUME ~su'.removing, target' = target, b.prev = stage[r].prev
          PROVE  target' # Nothing \/ \E q \in Runs : stage'[q].prev.good
      <3>1. target # Nothing \/ \E q \in Runs : stage[q].prev.good
        BY <2>1 DEF SUInv, Survives
      <3> QED BY <1>1, <2>1, <3>1
    <2> QED BY <1>1, <2>1 DEF Survives
  <1> QED BY <1>2, <1>3, <1>4 DEF SUInv

(* The channel moves, or one of its files is spoiled. *)
LEMMA ChannelMoves ==
    ASSUME SUInv, Publish \/ Spoil
    PROVE  SUInv'
  <1>1. /\ chan \in [sums : Files, sig : Nat, bin : Files] /\ su \in SuRec
        /\ chan.sums \in Files /\ chan.bin \in Files /\ chan.sig \in Nat
    BY DEF SUInv, SUTypes
  <1>2. ASSUME NEW b \in Files
        PROVE  Build(b.v + 1, TRUE, 0) \in Files /\ [b EXCEPT !.good = FALSE] \in Files
    <2>1. b.v + 1 \in Nat
      BY DEF Files
    <2>2. [b EXCEPT !.good = FALSE] \in Files
      BY DEF Files
    <2> QED BY <2>1, <2>2 DEF Files, Build
  <1>3. CASE Publish
    <2>1. chan' \in [sums : Files, sig : Nat, bin : Files]
      <3> DEFINE next(b) == Build(b.v + 1, TRUE, 0)
      <3>1. next(chan.bin) \in Files /\ next(chan.sums) \in Files
        BY <1>1, <1>2
      <3>2. \/ chan' = [chan EXCEPT !.bin = next(chan.bin)]
            \/ chan' = [chan EXCEPT !.sums = next(chan.sums)]
            \/ chan' = [chan EXCEPT !.sig = @ + 1]
        BY <1>3 DEF Publish
      <3> HIDE DEF next
      <3> QED BY <1>1, <3>1, <3>2
    <2> QED BY <1>3, <2>1 DEF Publish, SUInv, SUTypes, Survives
  <1>4. CASE Spoil
    <2>1. chan' \in [sums : Files, sig : Nat, bin : Files]
      <3> DEFINE bad(b) == [b EXCEPT !.good = FALSE]
      <3>1. bad(chan.bin) \in Files /\ bad(chan.sums) \in Files
        BY <1>1, <1>2
      <3>2. \/ chan' = [chan EXCEPT !.bin = bad(chan.bin)]
            \/ chan' = [chan EXCEPT !.sums = bad(chan.sums)]
        BY <1>4 DEF Spoil
      <3> HIDE DEF bad
      <3> QED BY <1>1, <3>1, <3>2
    <2>2. su' \in SuRec /\ su'.removing = su.removing
      BY <1>1, <1>4 DEF Spoil, SuRec
    <2> QED BY <1>4, <2>1, <2>2 DEF Spoil, SUInv, SUTypes, Survives
  <1> QED BY <1>3, <1>4

(* A run ends. *)
LEMMA StoppedRun ==
    [NoRun EXCEPT !.pc = "over"] \in RunRec /\ [NoRun EXCEPT !.pc = "over"].pc = "over"
  BY NothingIsBad DEF NoRun, RunRec, RunPcs

LEMMA NoStageHolds == NoStage \in StageRec /\ NoStage.prev = Nothing
  BY NothingIsBad DEF NoStage, StageRec

LEMMA Failing ==
    ASSUME SUInv, NEW r \in Runs, run[r].pc \notin {"in", "back", "over"}, Fails(r),
           chan' = chan, target' \in Files, target' # Nothing => target'.good,
           su' \in SuRec, su'.removing = su.removing, target' = target \/ target' # Nothing
    PROVE  SUInv'
  <1> DEFINE a == [NoRun EXCEPT !.pc = "over"]
  <1>1. stage[r].prev = Nothing
    BY DEF SUInv, RunHas
  <1>2. run' = [run EXCEPT ![r] = a] /\ stage' = [stage EXCEPT ![r] = NoStage]
    BY DEF Fails, Stop, Leave
  <1>3. RunHas(a, NoStage, su'.removing)
    BY StoppedRun, NoStageHolds DEF RunHas
  <1> HIDE DEF a
  <1> QED BY <1>1, <1>2, <1>3, StoppedRun, NoStageHolds, OneRuns DEF a

(* A run goes on with the drawer it has. *)
LEMMA Going ==
    ASSUME SUInv, NEW r \in Runs, NEW pc \in RunPcs, Go(r, pc), UNCHANGED <<target, chan, stage>>,
           su' \in SuRec, su'.removing = su.removing,
           RunHas([run[r] EXCEPT !.pc = pc], stage[r], su.removing)
    PROVE  SUInv'
  <1> DEFINE a == [run[r] EXCEPT !.pc = pc]
  <1>1. run[r] \in RunRec /\ stage[r] \in StageRec /\ run \in [Runs -> RunRec] /\ stage \in [Runs -> StageRec]
    BY DEF SUInv, SUTypes
  <1>2. a \in RunRec
    BY <1>1 DEF RunRec
  <1>3. run' = [run EXCEPT ![r] = a] /\ stage' = [stage EXCEPT ![r] = stage[r]]
    BY <1>1 DEF Go
  <1> HIDE DEF a
  <1>4. target' \in Files /\ (target' # Nothing => target'.good)
    BY DEF SUInv, SUTypes, Survives
  <1> QED BY <1>1, <1>2, <1>3, <1>4, OneRuns DEF a

LEMMA RefusedKeeps ==
    ASSUME SUInv, Refused
    PROVE  su' \in SuRec /\ su'.removing = su.removing
  BY DEF SUInv, SUTypes, Refused, SuRec

LEMMA Unchanged ==
    ASSUME SUInv
    PROVE  su \in SuRec /\ target \in Files /\ (target # Nothing => target.good)
  BY DEF SUInv, SUTypes, Survives

LEMMA Starting ==
    ASSUME SUInv, NEW r \in Runs, NEW what \in {"update", "remove"}, Start(r, what)
    PROVE  SUInv'
  <1> DEFINE a == [NoRun EXCEPT !.pc = what, !.own = target]
  <1>1. stage[r] \in StageRec /\ stage \in [Runs -> StageRec] /\ stage[r].prev = Nothing
    BY DEF SUInv, SUTypes, RunHas, Start
  <1>2. a \in RunRec /\ a.pc = what
    BY NothingIsBad DEF NoRun, RunRec, RunPcs, SUInv, SUTypes
  <1>3. su' \in SuRec /\ (su.removing => su'.removing) /\ (what = "remove" => su'.removing)
    BY DEF Start, SUInv, SUTypes, SuRec
  <1>4. run' = [run EXCEPT ![r] = a] /\ stage' = [stage EXCEPT ![r] = stage[r]]
    BY <1>1 DEF Start
  <1> HIDE DEF a
  <1>5. RunHas(a, stage[r], su'.removing)
    BY <1>1, <1>2, <1>3 DEF RunHas
  <1>6. UNCHANGED <<target, chan>>
    BY DEF Start
  <1> QED BY <1>1, <1>2, <1>3, <1>4, <1>5, <1>6, Unchanged, OneRuns

LEMMA Inspecting ==
    ASSUME SUInv, NEW r \in Runs, Inspect(r)
    PROVE  SUInv'
  <1>0. run[r].pc = "update" /\ UNCHANGED <<target, chan, su>>
    BY DEF Inspect
  <1>1. CASE Fails(r)
    BY <1>0, <1>1, Unchanged, Failing
  <1>2. CASE ~Fails(r)
    <2> DEFINE a == [run[r] EXCEPT !.pc = "sums", !.seen = target.file]
               b == [stage[r] EXCEPT !.made = TRUE]
    <2>1. /\ run[r] \in RunRec /\ stage[r] \in StageRec /\ target.file \in Nat
          /\ stage[r].prev = Nothing
      BY <1>0 DEF SUInv, SUTypes, Files, RunHas
    <2>2. a \in RunRec /\ a.pc = "sums"
      BY <2>1 DEF RunRec, RunPcs
    <2>3. b \in StageRec /\ b.prev = Nothing
      BY <2>1 DEF StageRec
    <2>4. run' = [run EXCEPT ![r] = a] /\ stage' = [stage EXCEPT ![r] = b]
      BY <1>2 DEF Inspect, SUInv, SUTypes
    <2> HIDE DEF a, b
    <2>5. RunHas(a, b, su'.removing)
      BY <2>2, <2>3 DEF RunHas
    <2> QED BY <1>0, <2>1, <2>2, <2>3, <2>4, <2>5, Unchanged, OneRuns
  <1> QED BY <1>1, <1>2

LEMMA Fetching ==
    ASSUME SUInv, NEW r \in Runs, FetchSums(r) \/ FetchSig(r) \/ FetchBin(r)
    PROVE  SUInv'
  <1>1. /\ run[r] \in RunRec /\ stage[r] \in StageRec /\ run \in [Runs -> RunRec]
        /\ stage \in [Runs -> StageRec] /\ chan \in [sums : Files, sig : Nat, bin : Files]
        /\ stage[r].prev = Nothing
    BY DEF SUInv, SUTypes, RunHas, FetchSums, FetchSig, FetchBin
  <1>2. CASE FetchSums(r)
    <2> DEFINE a == [run[r] EXCEPT !.pc = "sig", !.sums = chan.sums]
    <2>1. a \in RunRec /\ a.pc = "sig"
      BY <1>1 DEF RunRec, RunPcs
    <2>2. run' = [run EXCEPT ![r] = a] /\ stage' = [stage EXCEPT ![r] = stage[r]]
      BY <1>1, <1>2 DEF FetchSums
    <2> HIDE DEF a
    <2>3. RunHas(a, stage[r], su'.removing)
      BY <1>1, <2>1 DEF RunHas
    <2>4. target' = target /\ chan' = chan /\ su' = su
      BY <1>2 DEF FetchSums
    <2> QED BY <1>1, <2>1, <2>2, <2>3, <2>4, Unchanged, OneRuns
  <1>3. CASE FetchSig(r)
    <2>0. run[r].pc = "sig" /\ UNCHANGED <<target, chan, su>>
      BY <1>3 DEF FetchSig
    <2>1. CASE Fails(r)
      BY <2>0, <2>1, Unchanged, Failing
    <2>2. CASE Go(r, "bin") /\ UNCHANGED stage
      <3>1. RunHas([run[r] EXCEPT !.pc = "bin"], stage[r], su.removing)
        BY <1>1 DEF RunHas, RunRec
      <3> QED BY <2>0, <2>2, <3>1, Unchanged, Going DEF RunPcs
    <2> QED BY <1>3, <2>1, <2>2 DEF FetchSig
  <1>4. CASE FetchBin(r)
    <2> DEFINE a == [run[r] EXCEPT !.pc = "compare"]
               new == Build(chan.bin.v, chan.bin.good, su.files + 1)
               b == [stage[r] EXCEPT !.new = new]
    <2>1. a \in RunRec /\ a.pc = "compare"
      BY <1>1 DEF RunRec, RunPcs
    <2>2. new \in Files
      BY <1>1, Unchanged DEF Files, Build, SuRec
    <2>3. run' = [run EXCEPT ![r] = a] /\ stage' = [stage EXCEPT ![r] = b]
      BY <1>1, <1>4 DEF FetchBin, Go
    <2> HIDE DEF new
    <2>4. b \in StageRec /\ b.prev = Nothing
      BY <1>1, <2>2 DEF StageRec
    <2>5. su' \in SuRec /\ su'.removing = su.removing
      BY <1>4, Unchanged DEF FetchBin, SuRec
    <2> HIDE DEF a, b
    <2>6. RunHas(a, b, su'.removing)
      BY <2>1, <2>4 DEF RunHas
    <2>7. target' = target /\ chan' = chan
      BY <1>4 DEF FetchBin
    <2> QED BY <1>1, <2>1, <2>3, <2>4, <2>5, <2>6, <2>7, Unchanged, OneRuns
  <1> QED BY <1>2, <1>3, <1>4

LEMMA GivingUp ==
    ASSUME SUInv, NEW r \in Runs, GiveUp(r)
    PROVE  SUInv'
  <1>1. run[r].pc \notin {"in", "back", "over"} /\ target' = target /\ chan' = chan /\ Fails(r) /\ Refused
    BY DEF GiveUp
  <1> QED BY <1>1, Unchanged, RefusedKeeps, Failing

(* The build is as it was signed from here on. *)
LEMMA ComparingBuild ==
    ASSUME SUInv, NEW r \in Runs, Compare(r) \/ Recheck(r)
    PROVE  SUInv'
  <1>0. /\ run[r].pc \notin {"in", "back", "over"} /\ target' = target /\ chan' = chan /\ su' = su
        /\ run[r] \in RunRec /\ stage[r].prev = Nothing
    BY DEF Compare, Recheck, SUInv, SUTypes, RunHas
  <1>1. CASE Fails(r)
    BY <1>0, <1>1, Unchanged, Failing
  <1>2. ASSUME NEW pc \in {"away", "recheck", "rename"}, Go(r, pc), UNCHANGED stage, stage[r].new.good
        PROVE  SUInv'
    <2>1. pc \in RunPcs /\ [run[r] EXCEPT !.pc = pc].pc = pc
      BY <1>0 DEF RunPcs, RunRec
    <2>2. RunHas([run[r] EXCEPT !.pc = pc], stage[r], su.removing)
      BY <1>0, <1>2, <2>1 DEF RunHas
    <2> QED BY <1>0, <1>2, <2>1, <2>2, Unchanged, Going
  <1>3. CASE Compare(r)
    BY <1>1, <1>2, <1>3 DEF Compare, AsListed
  <1>4. CASE Recheck(r)
    <2>1. stage[r].new.good
      BY <1>4 DEF Recheck, SUInv, RunHas
    <2> QED BY <1>1, <1>2, <1>4, <2>1 DEF Recheck
  <1> QED BY <1>3, <1>4

LEMMA Renaming ==
    ASSUME SUInv, NEW r \in Runs, Rename(r)
    PROVE  SUInv'
  <1>1. run[r].pc = "rename" /\ Fails(r) /\ chan' = chan
    BY DEF Rename
  <1>2. stage[r].new \in Files /\ stage[r].new.good
    BY <1>1 DEF SUInv, SUTypes, RunHas, StageRec
  <1>3. CASE target' = stage[r].new /\ su' = su
    <2>1. target' # Nothing
      BY <1>2, <1>3, NothingIsBad
    <2> QED BY <1>1, <1>2, <1>3, <2>1, Unchanged, Failing
  <1>4. CASE Refused /\ target' = target
    BY <1>1, <1>4, Unchanged, RefusedKeeps, Failing
  <1> QED BY <1>3, <1>4 DEF Rename

LEMMA MovingAway ==
    ASSUME SUInv, NEW r \in Runs, MoveAway(r)
    PROVE  SUInv'
  <1>1. /\ run[r].pc = "away" /\ chan' = chan /\ run[r] \in RunRec /\ stage[r] \in StageRec
        /\ stage[r].new.good
    BY DEF MoveAway, SUInv, SUTypes, RunHas
  <1>2. CASE Fails(r) /\ target' = target /\ (su' = su \/ Refused)
    BY <1>1, <1>2, Unchanged, RefusedKeeps, Failing
  <1>3. CASE /\ target # Nothing /\ target' = Nothing /\ stage' = [stage EXCEPT ![r].prev = target]
             /\ Go(r, "in") /\ su' = su
    <2> DEFINE a == [run[r] EXCEPT !.pc = "in"]
               b == [stage[r] EXCEPT !.prev = target]
    <2>1. a \in RunRec /\ a.pc = "in"
      BY <1>1 DEF RunRec, RunPcs
    <2>2. b \in StageRec /\ b.prev = target /\ b.new = stage[r].new
      BY <1>1, Unchanged DEF StageRec
    <2>3. run' = [run EXCEPT ![r] = a] /\ stage' = [stage EXCEPT ![r] = b]
      BY <1>3 DEF Go, SUInv, SUTypes
    <2> HIDE DEF a, b
    <2>4. b.prev.good /\ RunHas(a, b, su'.removing)
      BY <1>1, <1>3, <2>1, <2>2, Unchanged DEF RunHas
    <2> QED BY <1>1, <1>3, <2>1, <2>2, <2>3, <2>4, NothingIsBad, Unchanged, OneRuns
  <1> QED BY <1>2, <1>3 DEF MoveAway

(* On Windows the executable that was there is kept until another is in    *)
(* its place.                                                              *)
LEMMA MovingIn ==
    ASSUME SUInv, NEW r \in Runs, MoveIn(r)
    PROVE  SUInv'
  <1>1. /\ run[r].pc = "in" /\ chan' = chan /\ run[r] \in RunRec /\ stage[r] \in StageRec
        /\ stage[r].new.good /\ stage[r].prev.good /\ stage[r].new \in Files
        /\ stage \in [Runs -> StageRec]
    BY DEF MoveIn, SUInv, SUTypes, RunHas, StageRec
  <1>2. CASE target' = stage[r].new /\ Stop(r) /\ Leave(r, TRUE) /\ su' = su
    <2>1. target' # Nothing
      BY <1>1, <1>2, NothingIsBad
    <2>2. run' = [run EXCEPT ![r] = [NoRun EXCEPT !.pc = "over"]] /\ stage' = [stage EXCEPT ![r] = stage[r]]
      BY <1>1, <1>2 DEF Stop, Leave
    <2>3. RunHas([NoRun EXCEPT !.pc = "over"], stage[r], su'.removing)
      BY StoppedRun DEF RunHas
    <2> QED BY <1>1, <1>2, <2>1, <2>2, <2>3, StoppedRun, Unchanged, OneRuns
  <1>3. CASE Go(r, "back") /\ UNCHANGED <<target, stage>> /\ (su' = su \/ Refused)
    <2>1. RunHas([run[r] EXCEPT !.pc = "back"], stage[r], su.removing)
      BY <1>1 DEF RunHas, RunRec
    <2> QED BY <1>1, <1>3, <2>1, Unchanged, RefusedKeeps, Going DEF RunPcs
  <1> QED BY <1>2, <1>3 DEF MoveIn

LEMMA MovingBack ==
    ASSUME SUInv, NEW r \in Runs, MoveBack(r)
    PROVE  SUInv'
  <1>1. /\ run[r].pc = "back" /\ chan' = chan /\ run[r] \in RunRec /\ stage[r] \in StageRec
        /\ stage[r].prev.good /\ stage[r].prev \in Files /\ stage \in [Runs -> StageRec]
    BY DEF MoveBack, SUInv, SUTypes, RunHas, StageRec
  <1>2. run' = [run EXCEPT ![r] = [NoRun EXCEPT !.pc = "over"]]
    BY DEF MoveBack, Stop
  <1>3. CASE target' = stage[r].prev /\ Leave(r, FALSE) /\ su' = su
    <2>1. target' # Nothing /\ stage' = [stage EXCEPT ![r] = NoStage]
      BY <1>1, <1>3, NothingIsBad DEF Leave
    <2>2. RunHas([NoRun EXCEPT !.pc = "over"], NoStage, su'.removing)
      BY StoppedRun, NoStageHolds DEF RunHas
    <2> QED BY <1>1, <1>2, <1>3, <2>1, <2>2, StoppedRun, NoStageHolds, Unchanged, OneRuns
  <1>4. CASE Leave(r, TRUE) /\ target' = target /\ (su' = su \/ Refused)
    <2>1. stage' = [stage EXCEPT ![r] = stage[r]]
      BY <1>1, <1>4 DEF Leave
    <2>2. RunHas([NoRun EXCEPT !.pc = "over"], stage[r], su'.removing)
      BY StoppedRun DEF RunHas
    <2> QED BY <1>1, <1>2, <1>4, <2>1, <2>2, StoppedRun, Unchanged, RefusedKeeps, OneRuns
  <1> QED BY <1>3, <1>4 DEF MoveBack

(* A removal may leave nothing; it was said. *)
LEMMA Removing ==
    ASSUME SUInv, NEW r \in Runs, RemoveLook(r) \/ Remove(r)
    PROVE  SUInv'
  <1>1. /\ run[r].pc \in {"remove", "unlink"} /\ chan' = chan /\ stage' = stage /\ su' = su
        /\ run[r] \in RunRec /\ stage[r] \in StageRec /\ stage \in [Runs -> StageRec]
        /\ stage[r].prev = Nothing /\ su.removing
    BY DEF RemoveLook, Remove, SUInv, SUTypes, RunHas
  <1>2. stage' = [stage EXCEPT ![r] = stage[r]]
    BY <1>1
  <1>3. ASSUME Stop(r), target' \in {target, Nothing}
        PROVE  SUInv'
    <2>1. run' = [run EXCEPT ![r] = [NoRun EXCEPT !.pc = "over"]]
      BY <1>3 DEF Stop
    <2>2. RunHas([NoRun EXCEPT !.pc = "over"], stage[r], su'.removing)
      BY <1>1, StoppedRun DEF RunHas
    <2>3. target' \in Files /\ (target' # Nothing => target'.good)
      BY <1>3, NothingIsBad, Unchanged
    <2>4. su' \in SuRec /\ (su.removing => su'.removing) /\ su'.removing
      BY <1>1, Unchanged
    <2> QED BY <1>1, <1>2, <2>1, <2>2, <2>3, <2>4, StoppedRun, OneRuns
  <1>4. CASE RemoveLook(r) /\ ~Stop(r)
    <2> DEFINE a == [run[r] EXCEPT !.pc = "unlink", !.seen = target.file]
    <2>1. target.file \in Nat /\ target' = target
      BY <1>4, Unchanged DEF Files, RemoveLook
    <2>2. a \in RunRec /\ a.pc = "unlink"
      BY <1>1, <2>1 DEF RunRec, RunPcs
    <2>3. run' = [run EXCEPT ![r] = a]
      BY <1>4 DEF RemoveLook
    <2> HIDE DEF a
    <2>4. RunHas(a, stage[r], su'.removing)
      BY <1>1, <2>2 DEF RunHas
    <2> QED BY <1>1, <1>2, <2>1, <2>2, <2>3, <2>4, Unchanged, OneRuns
  <1>5. RemoveLook(r) => target' = target
    BY DEF RemoveLook
  <1>6. Remove(r) => target' \in {target, Nothing} /\ Stop(r)
    BY DEF Remove
  <1> QED BY <1>3, <1>4, <1>5, <1>6

LEMMA Killing ==
    ASSUME SUInv, NEW r \in Runs, Kill(r)
    PROVE  SUInv'
  <1>1. /\ UNCHANGED <<target, chan, stage>> /\ stage[r] \in StageRec /\ stage \in [Runs -> StageRec]
        /\ su' \in SuRec /\ su'.removing = su.removing
    BY Unchanged DEF Kill, SUInv, SUTypes, SuRec
  <1>2. run' = [run EXCEPT ![r] = [NoRun EXCEPT !.pc = "over"]] /\ stage' = [stage EXCEPT ![r] = stage[r]]
    BY <1>1 DEF Kill, Stop
  <1>3. RunHas([NoRun EXCEPT !.pc = "over"], stage[r], su'.removing)
    BY StoppedRun DEF RunHas
  <1> QED BY <1>1, <1>2, <1>3, StoppedRun, Unchanged, OneRuns

(* However runs of it meet, a channel moves or is spoiled, and they are    *)
(* killed, pkg's executable is as it was signed and, but for its removal,  *)
(* there or in a run's drawer: for any number of runs and on every system. *)
THEOREM SurvivesAlways == SUSpec => []Survives
  <1>1. SUInv /\ [SUNext]_suVars => SUInv'
    <2> SUFFICES ASSUME SUInv, [SUNext]_suVars
                 PROVE  SUInv'
      OBVIOUS
    <2>1. CASE UNCHANGED suVars
      BY <2>1 DEF suVars, SUInv, SUTypes, Survives
    <2>2. CASE Publish \/ Spoil
      BY <2>2, ChannelMoves
    <2>3. ASSUME NEW r \in Runs,
                 \/ Start(r, "update") \/ Start(r, "remove") \/ Inspect(r) \/ GiveUp(r)
                 \/ FetchSums(r) \/ FetchSig(r) \/ FetchBin(r) \/ Compare(r)
                 \/ Recheck(r) \/ Rename(r) \/ MoveAway(r) \/ MoveIn(r) \/ MoveBack(r)
                 \/ RemoveLook(r) \/ Remove(r) \/ Kill(r)
          PROVE  SUInv'
      BY <2>3, Starting, Inspecting, GivingUp, Fetching, ComparingBuild, Renaming, MovingAway, MovingIn,
         MovingBack, Removing, Killing
    <2> QED BY <2>1, <2>2, <2>3 DEF SUNext
  <1>2. SUInv => Survives
    BY DEF SUInv
  <1> QED BY <1>1, <1>2, SUStarts, PTL DEF SUSpec

-----------------------------------------------------------------------------
(* The archives fetched: a command that is about to refuse what it read    *)
(* saw an archive that is not the one signed.                              *)
OrAbsent(S) == S \cup {Absent}
Copies == OrAbsent([is : Content, stamp : {1, 2}])
Maps == OrAbsent([of : Content, stamp : {1, 2}])
FetchPcs == {"idle", "get", "weigh", "delete", "without", "open", "mapped", "whole", "map", "check", "done"}
JobRec ==
    [pc : FetchPcs, pkg : Wanted, at : {"cache", "channel"}, map : OrAbsent(Content),
     got : {"right", "wrong", "unreadable"}, seen : OrAbsent(Content), rc : {0, 11, 12}]

FetchTypes ==
    /\ disk \in [cache : Copies, channel : Copies] /\ map \in [cache : Maps, channel : Maps]
    /\ world \in [upstream : Content \cup {"gone"}, remote : BOOLEAN, drawer : OrAbsent(Content)]
    /\ job \in [Fetchers -> JobRec]
    /\ used \in [fetches : Nat, moves : Nat, losses : Nat]

Judged(a) ==
    /\ a.pc = "delete" => a.seen # "signed"
    /\ a.pc = "map" => a.seen \in Content
    /\ a.pc \in {"map", "check"} /\ a.got # "right" => a.seen # "signed"
    /\ a.pc = "done" /\ a.rc = 12 => a.seen # "signed"

FetchInv == FetchTypes /\ KeptAsSigned /\ \A r \in Fetchers : Judged(job[r])

LEMMA AbsentIsNone == "signed" # Absent /\ "signed" \in Content
  BY FetchAssumption DEF Content

LEMMA FetchStarts == FetchInit => FetchInv
  <1> SUFFICES ASSUME FetchInit
               PROVE  FetchInv
    OBVIOUS
  <1>1. disk \in [cache : Copies, channel : Copies] /\ disk.cache = Absent
    BY DEF FetchInit, Copies, OrAbsent, Kept, Content
  <1>2. map \in [cache : Maps, channel : Maps]
    BY DEF FetchInit, Maps, OrAbsent
  <1>3. world \in [upstream : Content \cup {"gone"}, remote : BOOLEAN, drawer : OrAbsent(Content)]
    BY DEF FetchInit, OrAbsent, Content
  <1>4. Resting \in JobRec /\ Judged(Resting)
    BY DEF Resting, Given, JobRec, FetchPcs, OrAbsent, Wanted, Judged
  <1>5. used \in [fetches : Nat, moves : Nat, losses : Nat]
    BY DEF FetchInit
  <1> QED BY <1>1, <1>2, <1>3, <1>4, <1>5 DEF FetchInit, FetchInv, FetchTypes, KeptAsSigned

(* A step of one command. *)
LEMMA OneFetches ==
    ASSUME FetchInv, NEW r \in Fetchers, NEW a \in JobRec, job' = [job EXCEPT ![r] = a], Judged(a),
           disk' \in [cache : Copies, channel : Copies], map' \in [cache : Maps, channel : Maps],
           used' \in [fetches : Nat, moves : Nat, losses : Nat], used'.losses >= used.losses,
           world' = world,
           \/ used'.losses > 0
           \/ disk'.cache = Absent
           \/ a.pc \in {"weigh", "delete"}
           \/ disk'.cache = disk.cache /\ job[r].pc \notin {"weigh", "delete"}
           \/ disk'.cache.is = "signed"
    PROVE  FetchInv'
  <1>1. job' \in [Fetchers -> JobRec] /\ job'[r] = a /\ \A q \in Fetchers \ {r} : job'[q] = job[q]
    BY DEF FetchInv, FetchTypes
  <1>2. FetchTypes' /\ \A q \in Fetchers : Judged(job'[q])
    BY <1>1 DEF FetchInv, FetchTypes
  <1>3. used.losses \in Nat /\ used'.losses \in Nat
    BY DEF FetchInv, FetchTypes
  <1>4. KeptAsSigned'
    <2>1. CASE disk'.cache = disk.cache /\ job[r].pc \notin {"weigh", "delete"}
      BY <1>1, <1>3, <2>1 DEF FetchInv, KeptAsSigned
    <2> QED BY <1>1, <2>1 DEF KeptAsSigned
  <1> QED BY <1>2, <1>4 DEF FetchInv

LEMMA FetchTyped ==
    ASSUME FetchInv, NEW r \in Fetchers
    PROVE  /\ disk \in [cache : Copies, channel : Copies] /\ map \in [cache : Maps, channel : Maps]
           /\ world \in [upstream : Content \cup {"gone"}, remote : BOOLEAN, drawer : OrAbsent(Content)]
           /\ job[r] \in JobRec /\ Judged(job[r])
           /\ used \in [fetches : Nat, moves : Nat, losses : Nat] /\ used.losses >= used.losses
           /\ job[r].at \in {"cache", "channel"} /\ disk[job[r].at] \in Copies
           /\ map[job[r].at] \in Maps
  <1>1. job[r] \in JobRec /\ disk \in [cache : Copies, channel : Copies] /\ map \in [cache : Maps, channel : Maps]
    BY DEF FetchInv, FetchTypes
  <1>2. job[r].at \in {"cache", "channel"}
    BY <1>1 DEF JobRec
  <1>3. CASE job[r].at = "cache"
    BY <1>1, <1>3 DEF FetchInv, FetchTypes
  <1>4. CASE job[r].at = "channel"
    BY <1>1, <1>4 DEF FetchInv, FetchTypes
  <1> QED BY <1>1, <1>2, <1>3, <1>4 DEF FetchInv, FetchTypes

(* What an archive holds is as signed where it is the one signed. *)
LEMMA HeldWell ==
    ASSUME NEW c \in Content, NEW p \in Wanted
    PROVE  /\ Holds(c, p) \in {"right", "wrong", "unreadable"}
           /\ Holds(c, p) # "right" => c # "signed"
           /\ Holds(c, p) = "unreadable" => c # "signed"
  BY DEF Holds, Content, Wanted

LEMMA Fetches ==
    ASSUME FetchInv, NEW r \in Fetchers, Fetch(r)
    PROVE  FetchInv'
  <1>1. /\ job[r].pc \in {"idle", "done"} /\ UNCHANGED <<disk, map, world>>
        /\ used' \in [fetches : Nat, moves : Nat, losses : Nat] /\ used'.losses >= used.losses
    BY FetchTyped DEF Fetch
  <1>2. PICK p \in Wanted : FromDrawer(r, p) \/ Locate(r, p)
    BY DEF Fetch
  <1>3. CASE FromDrawer(r, p)
    <2> DEFINE d == world.drawer
               got == Holds(d, p)
               rc == IF got = "right" THEN 0 ELSE 12
               a == Given("done", p, "cache", got, d, rc)
    <2>1. d \in Content
      BY <1>3, FetchTyped DEF FromDrawer, OrAbsent
    <2>2. got \in {"right", "wrong", "unreadable"} /\ (got # "right" => d # "signed")
      BY <2>1, HeldWell
    <2>3. job' = [job EXCEPT ![r] = a]
      BY <1>3 DEF FromDrawer
    <2>4. rc \in {0, 12} /\ (rc = 12 => got # "right")
      OBVIOUS
    <2> HIDE DEF d, got, rc
    <2>5. a = [pc |-> "done", pkg |-> p, at |-> "cache", map |-> Absent, got |-> got, seen |-> d, rc |-> rc]
      BY DEF Given
    <2> HIDE DEF a
    <2>6. a \in JobRec /\ Judged(a)
      BY <2>1, <2>2, <2>4, <2>5 DEF JobRec, FetchPcs, OrAbsent, Judged
    <2> QED BY <1>1, <2>3, <2>6, FetchTyped, OneFetches
  <1>4. CASE Locate(r, p)
    <2> DEFINE local == ~ world.remote /\ disk.channel # Absent
               at == IF local THEN "channel" ELSE "cache"
               pc == IF local \/ disk.cache # Absent THEN "open" ELSE "get"
               a == Given(pc, p, at, "unreadable", Absent, 0)
    <2>1. job' = [job EXCEPT ![r] = a]
      BY <1>4 DEF Locate
    <2>2. at \in {"cache", "channel"} /\ pc \in {"open", "get"}
      OBVIOUS
    <2> HIDE DEF local, at, pc
    <2>3. a = [pc |-> pc, pkg |-> p, at |-> at, map |-> Absent, got |-> "unreadable", seen |-> Absent, rc |-> 0]
      BY DEF Given
    <2> HIDE DEF a
    <2>4. a \in JobRec /\ Judged(a)
      BY <2>2, <2>3 DEF JobRec, FetchPcs, OrAbsent, Judged
    <2> QED BY <1>1, <2>1, <2>4, FetchTyped, OneFetches
  <1> QED BY <1>2, <1>3, <1>4

(* A download, weighed before it is kept. *)
LEMMA Gets ==
    ASSUME FetchInv, NEW r \in Fetchers, Get(r) \/ Weigh(r) \/ Delete(r) \/ Without(r)
    PROVE  FetchInv'
  <1>1. UNCHANGED <<map, world, used>>
    BY DEF Get, Weigh, Delete, Without
  <1>2. ASSUME NEW s \in {1, 2}, NEW u \in Content
        PROVE  [disk EXCEPT !.cache = Kept(u, s)] \in [cache : Copies, channel : Copies]
    <2>1. Kept(u, s) \in Copies
      BY DEF Kept, Copies, OrAbsent
    <2> QED BY <2>1, FetchTyped
  <1>3. /\ [disk EXCEPT !.cache = Absent] \in [cache : Copies, channel : Copies]
        /\ [disk EXCEPT !.cache = Absent].cache = Absent
    BY FetchTyped DEF Copies, OrAbsent
  <1>4. CASE Get(r)
    <2>1. CASE world.upstream \in Content
      <3> DEFINE a == [job[r] EXCEPT !.pc = "weigh"]
      <3>1. PICK s \in {1, 2} : disk' = [disk EXCEPT !.cache = Kept(world.upstream, s)]
        BY <1>4, <2>1 DEF Get
      <3>2. a \in JobRec /\ a.pc = "weigh"
        BY FetchTyped DEF JobRec, FetchPcs
      <3>3. job' = [job EXCEPT ![r] = a]
        BY <1>4, <2>1 DEF Get, Goes
      <3> HIDE DEF a
      <3>4. Judged(a)
        BY <3>2 DEF Judged
      <3>5. disk' \in [cache : Copies, channel : Copies]
        BY <1>2, <2>1, <3>1
      <3> QED BY <1>1, <3>2, <3>3, <3>4, <3>5, FetchTyped, OneFetches
    <2>2. CASE world.upstream \notin Content
      <3> DEFINE a == [job[r] EXCEPT !.pc = "without"]
      <3>1. a \in JobRec /\ a.pc = "without"
        BY FetchTyped DEF JobRec, FetchPcs
      <3>2. job' = [job EXCEPT ![r] = a] /\ disk' = disk /\ job[r].pc = "get"
        BY <1>4, <2>2 DEF Get, Goes
      <3> HIDE DEF a
      <3>3. Judged(a)
        BY <3>1 DEF Judged
      <3> QED BY <1>1, <3>1, <3>2, <3>3, FetchTyped, OneFetches
    <2> QED BY <2>1, <2>2
  <1>5. CASE Weigh(r)
    <2> DEFINE c == IF disk.cache = Absent THEN Absent ELSE disk.cache.is
               pc == IF c = "signed" THEN "open" ELSE "delete"
               a == [job[r] EXCEPT !.seen = c, !.pc = pc]
    <2>1. c \in OrAbsent(Content) /\ (c = "signed" => disk.cache.is = "signed")
      BY FetchTyped, AbsentIsNone DEF Copies, OrAbsent
    <2>2. pc \in FetchPcs /\ pc \in {"open", "delete"} /\ (pc = "delete" <=> c # "signed")
      BY DEF FetchPcs
    <2>3. job' = [job EXCEPT ![r] = a] /\ disk' = disk
      BY <1>5 DEF Weigh
    <2> HIDE DEF c, pc
    <2>4. a \in JobRec /\ a.pc = pc /\ a.seen = c
      BY <2>1, <2>2, FetchTyped, ZenonT(60) DEF JobRec
    <2> HIDE DEF a
    <2>5. Judged(a)
      BY <2>2, <2>4 DEF Judged
    <2> QED BY <1>1, <2>1, <2>2, <2>3, <2>4, <2>5, FetchTyped, OneFetches
  <1>6. CASE Delete(r)
    <2> DEFINE a == [job[r] EXCEPT !.pc = "done", !.rc = 12]
    <2>0. job[r] \in JobRec
      BY FetchTyped
    <2>1. a \in JobRec /\ a.pc = "done" /\ a.seen = job[r].seen
      BY <2>0 DEF JobRec, FetchPcs
    <2>2. job' = [job EXCEPT ![r] = a] /\ disk' = [disk EXCEPT !.cache = Absent] /\ job[r].pc = "delete"
      BY <1>6 DEF Delete, Ends
    <2> HIDE DEF a
    <2>3. Judged(a)
      BY <2>1, <2>2, FetchTyped DEF Judged
    <2> QED BY <1>1, <1>3, <2>1, <2>2, <2>3, FetchTyped, OneFetches
  <1>7. CASE Without(r)
    <2>1. disk' = [disk EXCEPT !.cache = Absent]
      BY <1>7 DEF Without
    <2>2. CASE job' = [job EXCEPT ![r].at = "channel", ![r].pc = "open"]
      <3> DEFINE a == [job[r] EXCEPT !.at = "channel", !.pc = "open"]
      <3>0. job[r] \in JobRec
        BY FetchTyped
      <3>1. a \in JobRec /\ a.pc = "open"
        BY <3>0 DEF JobRec, FetchPcs
      <3>2. job' = [job EXCEPT ![r] = a]
        BY <2>2 DEF FetchInv, FetchTypes
      <3> HIDE DEF a
      <3>3. Judged(a)
        BY <3>1 DEF Judged
      <3> QED BY <1>1, <1>3, <2>1, <3>1, <3>2, <3>3, FetchTyped, OneFetches
    <2>3. CASE Ends(r, 11)
      <3> DEFINE a == [job[r] EXCEPT !.pc = "done", !.rc = 11]
      <3>1. a \in JobRec /\ a.pc = "done" /\ a.rc = 11
        BY FetchTyped, ZenonT(60) DEF JobRec, FetchPcs
      <3>2. job' = [job EXCEPT ![r] = a]
        BY <2>3 DEF Ends, FetchInv, FetchTypes
      <3> HIDE DEF a
      <3>3. Judged(a)
        BY <3>1 DEF Judged
      <3> QED BY <1>1, <1>3, <2>1, <3>1, <3>2, <3>3, FetchTyped, OneFetches
    <2> QED BY <1>7, <2>2, <2>3 DEF Without
  <1> QED BY <1>4, <1>5, <1>6, <1>7

(* What a map gives is taken only where it is as signed. *)
LEMMA ReadsArchive ==
    ASSUME FetchInv, NEW r \in Fetchers, Open(r) \/ ReadMapped(r) \/ ReadWhole(r) \/ MapWrite(r) \/ Check(r)
    PROVE  FetchInv'
  <1>1. UNCHANGED <<disk, world, used>> /\ job[r].pc \notin {"weigh", "delete"}
    BY DEF Open, ReadMapped, ReadWhole, MapWrite, Check
  <1>2. CASE Open(r)
    <2> DEFINE of == MapRead(job[r].at)
               pc == IF of = Absent THEN "whole" ELSE "mapped"
               a == [job[r] EXCEPT !.map = of, !.pc = pc]
    <2>1. of \in OrAbsent(Content)
      BY FetchTyped DEF MapRead, Maps, OrAbsent
    <2>2. pc \in FetchPcs /\ pc \in {"whole", "mapped"}
      BY DEF FetchPcs
    <2>3. job' = [job EXCEPT ![r] = a] /\ map' = map
      BY <1>2 DEF Open
    <2> HIDE DEF of, pc
    <2>4. a \in JobRec /\ a.pc = pc
      BY <2>1, <2>2, FetchTyped, ZenonT(60) DEF JobRec
    <2> HIDE DEF a
    <2>5. Judged(a)
      BY <2>2, <2>4 DEF Judged
    <2> QED BY <1>1, <2>3, <2>4, <2>5, FetchTyped, OneFetches
  <1>3. CASE ReadMapped(r)
    <2>1. PICK got \in Mapped(r) :
            IF AsSigned(got)
            THEN /\ job' = [job EXCEPT ![r].got = got, ![r].seen = disk[job[r].at].is, ![r].pc = "check"]
                 /\ UNCHANGED map
            ELSE map' = [map EXCEPT ![job[r].at] = Absent] /\ Goes(r, "whole")
      BY <1>3 DEF ReadMapped
    <2>2. CASE AsSigned(got)
      <3> DEFINE c == disk[job[r].at].is
                 a == [job[r] EXCEPT !.got = "right", !.seen = c, !.pc = "check"]
      <3>1. disk[job[r].at] # Absent
        BY <2>2 DEF Mapped, AsSigned
      <3>2. c \in OrAbsent(Content)
        BY <3>1, FetchTyped DEF Copies, OrAbsent
      <3>3. job' = [job EXCEPT ![r] = a] /\ map' = map
        BY <2>1, <2>2 DEF AsSigned
      <3> HIDE DEF c
      <3>4. a \in JobRec /\ a.pc = "check" /\ a.got = "right"
        <4>1. job[r] \in JobRec
          BY FetchTyped
        <4> QED BY <3>2, <4>1 DEF JobRec, FetchPcs
      <3> HIDE DEF a
      <3>5. Judged(a)
        BY <3>4 DEF Judged
      <3> QED BY <1>1, <3>3, <3>4, <3>5, FetchTyped, OneFetches
    <2>3. CASE ~AsSigned(got)
      <3> DEFINE a == [job[r] EXCEPT !.pc = "whole"]
      <3>1. a \in JobRec /\ a.pc = "whole"
        BY FetchTyped DEF JobRec, FetchPcs
      <3>2. job' = [job EXCEPT ![r] = a] /\ map' = [map EXCEPT ![job[r].at] = Absent]
        BY <2>1, <2>3 DEF Goes
      <3>3. map' \in [cache : Maps, channel : Maps]
        BY <3>2, FetchTyped DEF Maps, OrAbsent
      <3> HIDE DEF a
      <3>4. Judged(a)
        BY <3>1 DEF Judged
      <3> QED BY <1>1, <3>1, <3>2, <3>3, <3>4, FetchTyped, OneFetches
    <2> QED BY <2>2, <2>3
  <1>4. CASE ReadWhole(r)
    <2> DEFINE d == disk[job[r].at]
               c == IF d = Absent THEN Absent ELSE d.is
               got == IF d = Absent THEN "unreadable" ELSE Holds(c, job[r].pkg)
               pc == IF got = "unreadable" THEN "done" ELSE "map"
               rc == IF got = "unreadable" THEN 12 ELSE 0
               a == [job[r] EXCEPT !.seen = c, !.got = got, !.pc = pc, !.rc = rc]
    <2>1. c \in OrAbsent(Content) /\ (d # Absent => c \in Content) /\ (d = Absent => c # "signed")
      BY FetchTyped, AbsentIsNone DEF Copies, OrAbsent
    <2>2. job[r].pkg \in Wanted
      BY FetchTyped DEF JobRec
    <2>3. got \in {"right", "wrong", "unreadable"} /\ (got # "right" => c # "signed")
          /\ (got # "unreadable" => c \in Content)
      BY <2>1, <2>2, HeldWell
    <2>4. job' = [job EXCEPT ![r] = a] /\ map' = map
      BY <1>4 DEF ReadWhole
    <2>5. /\ pc \in FetchPcs /\ rc \in {0, 12} /\ pc \in {"done", "map"}
          /\ pc = "map" => got # "unreadable" 
          /\ rc = 12 => got = "unreadable"
      BY DEF FetchPcs
    <2> HIDE DEF c, got, pc, rc
    <2>6. a \in JobRec /\ a.pc = pc /\ a.seen = c /\ a.got = got /\ a.rc = rc
      BY <2>1, <2>3, <2>5, FetchTyped, ZenonT(60) DEF JobRec
    <2> HIDE DEF a
    <2>7. Judged(a)
      BY <2>3, <2>5, <2>6 DEF Judged
    <2> QED BY <1>1, <2>4, <2>6, <2>7, FetchTyped, OneFetches
  <1>5. CASE MapWrite(r)
    <2> DEFINE at == job[r].at
               of == [of |-> job[r].seen, stamp |-> disk[at].stamp]
               a == [job[r] EXCEPT !.pc = "check"]
    <2>1. job[r].pc = "map" /\ job[r].seen \in Content
      BY <1>5, FetchTyped DEF MapWrite, Judged
    <2>2. map' \in [cache : Maps, channel : Maps]
      <3>1. CASE disk[at] = Absent
        BY <1>5, <3>1, FetchTyped DEF MapWrite
      <3>2. CASE disk[at] # Absent
        <4>1. disk[at].stamp \in {1, 2}
          BY <3>2, FetchTyped DEF Copies, OrAbsent
        <4>2. of \in Maps
          BY <2>1, <4>1 DEF Maps, OrAbsent
        <4>3. map' = [map EXCEPT ![at] = of]
          BY <1>5, <3>2 DEF MapWrite
        <4> HIDE DEF of
        <4> QED BY <4>2, <4>3, FetchTyped
      <3> QED BY <3>1, <3>2
    <2>3. a \in JobRec /\ a.pc = "check" /\ a.got = job[r].got /\ a.seen = job[r].seen
      BY FetchTyped DEF JobRec, FetchPcs
    <2>4. job' = [job EXCEPT ![r] = a]
      BY <1>5 DEF MapWrite, Goes
    <2> HIDE DEF a
    <2>5. Judged(a)
      BY <2>1, <2>3, FetchTyped DEF Judged
    <2> QED BY <1>1, <2>2, <2>3, <2>4, <2>5, FetchTyped, OneFetches
  <1>6. CASE Check(r)
    <2> DEFINE rc == IF job[r].got = "right" THEN 0 ELSE 12
               a == [job[r] EXCEPT !.pc = "done", !.rc = rc]
    <2>1. rc \in {0, 12} /\ (rc = 12 => job[r].got # "right")
      OBVIOUS
    <2>2. job' = [job EXCEPT ![r] = a] /\ job[r].pc = "check" /\ map' = map
      BY <1>6 DEF Check, Ends
    <2> HIDE DEF rc
    <2>3. a \in JobRec /\ a.pc = "done" /\ a.rc = rc /\ a.seen = job[r].seen
      BY <2>1, FetchTyped, ZenonT(60) DEF JobRec, FetchPcs
    <2> HIDE DEF a
    <2>4. Judged(a)
      BY <2>1, <2>2, <2>3, FetchTyped DEF Judged
    <2> QED BY <1>1, <2>2, <2>3, <2>4, FetchTyped, OneFetches
  <1> QED BY <1>2, <1>3, <1>4, <1>5, <1>6

LEMMA Loses ==
    ASSUME FetchInv, NEW r \in Fetchers, Lose(r)
    PROVE  FetchInv'
  <1>1. Resting \in JobRec /\ Judged(Resting)
    BY DEF Resting, Given, JobRec, FetchPcs, OrAbsent, Wanted, Judged
  <1>2. UNCHANGED <<disk, map, world>> /\ job' = [job EXCEPT ![r] = Resting]
    BY DEF Lose
  <1>3. /\ used' \in [fetches : Nat, moves : Nat, losses : Nat]
        /\ used'.losses > 0 /\ used'.losses >= used.losses
    BY FetchTyped DEF Lose
  <1> QED BY <1>1, <1>2, <1>3, FetchTyped, OneFetches

(* A command is refused for its archive only where it saw another than the *)
(* one signed, and the cache keeps no other, but while one is about to     *)
(* delete it or one was killed: for any number of commands.                *)
THEOREM FetchedAlways == FetchSpec => []Fetched
  <1>1. FetchInv /\ [FetchNext]_fetchVars => FetchInv'
    <2> SUFFICES ASSUME FetchInv, [FetchNext]_fetchVars
                 PROVE  FetchInv'
      OBVIOUS
    <2>1. CASE UNCHANGED fetchVars
      BY <2>1 DEF fetchVars, FetchInv, FetchTypes, KeptAsSigned
    <2>2. CASE Move
      <3>1. world' \in [upstream : Content \cup {"gone"}, remote : BOOLEAN, drawer : OrAbsent(Content)]
        BY <2>2 DEF Move, FetchInv, FetchTypes
      <3>2. used' \in [fetches : Nat, moves : Nat, losses : Nat] /\ used'.losses = used.losses
        BY <2>2 DEF Move, FetchInv, FetchTypes
      <3>3. UNCHANGED <<disk, map, job>>
        BY <2>2 DEF Move
      <3> QED BY <3>1, <3>2, <3>3 DEF FetchInv, FetchTypes, KeptAsSigned
    <2>3. ASSUME NEW r \in Fetchers,
                 \/ Fetch(r) \/ Get(r) \/ Weigh(r) \/ Delete(r) \/ Without(r)
                 \/ Open(r) \/ ReadMapped(r) \/ ReadWhole(r) \/ MapWrite(r) \/ Check(r) \/ Lose(r)
          PROVE  FetchInv'
      BY <2>3, Fetches, Gets, ReadsArchive, Loses
    <2> QED BY <2>1, <2>2, <2>3 DEF FetchNext
  <1>2. FetchInv => Fetched
    BY DEF FetchInv, Fetched, RefusedForCause, Judged
  <1> QED BY <1>1, <1>2, FetchStarts, PTL DEF FetchSpec
=============================================================================
