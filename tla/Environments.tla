---------------------------- MODULE Environments ----------------------------
(***************************************************************************)
(* Which root a command works on and which channels it reads there: ENV    *)
(* keeps named roots in the machine's file and in the person's, each       *)
(* replaced whole and only while it is still the file that was read;       *)
(* CHANNEL keeps a root's list of channels, under no lock; a command given *)
(* no root chooses among what both files say.  Several commands may be     *)
(* under way, and a person may edit a file meanwhile.                      *)
(*                                                                         *)
(* A file's identity (device, inode, size and time) is a number that each  *)
(* replacement of it makes anew.  A host with both files is meant.         *)
(***************************************************************************)
EXTENDS Naturals, Sequences

CONSTANTS
    Askers,        \* the commands under way
    Words,         \* names of environments and of channels
    Roots,         \* absolute paths
    Directories,   \* those that are there
    Addresses,     \* directories and URLs of channels
    LastPart,      \* by address: the name its last part gives, or Unnamed
    MaxListed,     \* the most channels a root lists
    Unnamed,
    Commands,      \* what may be said, of Saying
    FirstConf,     \* what the two files may hold at first
    MaxEdits       \* bound: edits of a file that leave it, or find it, unreadable

Scope == {"system", "user"}
Item == [name : Words, root : Roots]
Maybe(S) == S \cup {Unnamed}
Listing == [name : Maybe(Words), at : Addresses]
Config == [id : Nat, bad : BOOLEAN, items : SUBSET Item, default : Maybe(Words)]
Saying == [verb : {"add", "remove", "default", "use", "list", "unlist"}, scope : Scope,
           word : Maybe(Words), root : Maybe(Roots), at : Maybe(Words \cup Addresses)]

NamesOf(items) == {i.name : i \in items}
Distinct(items) == \A i, j \in items : i.name = j.name => i = j

ASSUME EnvironmentsAssumption ==
    /\ Unnamed \notin Words \cup Roots \cup Addresses
    /\ MaxListed \in Nat /\ MaxEdits \in Nat /\ Directories \subseteq Roots
    /\ LastPart \in [Addresses -> Maybe(Words)]
    /\ FirstConf \subseteq [Scope -> Config] /\ Commands \subseteq Saying
    /\ \A f \in FirstConf : \A s \in Scope : Distinct(f[s].items)
    /\ \A f \in FirstConf : f["system"].default \in Maybe(NamesOf(f["system"].items))
    /\ \A s \in Commands :
         /\ s.verb \in {"add", "remove", "default"} => s.word # Unnamed
         /\ s.verb = "add" => s.root \in Roots
         /\ s.verb = "list" => s.root \in Roots /\ s.at \in Addresses
         /\ s.verb = "unlist" => s.root \in Roots /\ s.at # Unnamed

VARIABLES
    conf,          \* the two files: an identity, whether it reads, what it says
    channels,      \* by root: its list [name, at], in the order it asks them
    ask,           \* the commands
    edits          \* what the bound counts

envVars == <<conf, channels, ask, edits>>

\* A command: what was said; what it loaded; the identity of the file it
\* means to replace, when it reads it and when it compares, and what it is
\* replaced by; the list it writes, or the one it reads.
Command(pc, s) ==
    [pc |-> pc, verb |-> s.verb, scope |-> s.scope, word |-> s.word, root |-> s.root, at |-> s.at,
     known |-> {}, default |-> Unnamed, before |-> 0, now |-> 0, items |-> {}, named |-> Unnamed,
     list |-> <<>>]
Unasked ==
    Command("idle", [verb |-> "use", scope |-> "user", word |-> Unnamed, root |-> Unnamed, at |-> Unnamed])

EnvInit ==
    /\ conf \in FirstConf
    /\ channels = [r \in Roots |-> <<>>]
    /\ ask = [c \in Askers |-> Unasked] /\ edits = 0

Now(c, pc) == ask[c].pc = pc
To(c, pc) == ask' = [ask EXCEPT ![c].pc = pc]
Refuse(c) == To(c, "refused")

Ask(c) ==
    /\ Now(c, "idle")
    /\ \E s \in Commands :
         ask' = [ask EXCEPT ![c] = Command(
                   IF s.verb \in {"list", "unlist"} \/ (s.verb = "use" /\ s.root # Unnamed)
                   THEN "channel" ELSE "system", s)]
    /\ UNCHANGED <<conf, channels, edits>>

-----------------------------------------------------------------------------
(* Both files are read, the machine's first; the person's default wins.    *)
In(s) == {[name |-> i.name, root |-> i.root, scope |-> s] : i \in conf[s].items}

LoadSystem(c) ==
    /\ Now(c, "system")
    /\ IF conf["system"].bad THEN Refuse(c)
       ELSE ask' = [ask EXCEPT ![c].pc = "user", ![c].known = In("system"),
                               ![c].default = conf["system"].default]
    /\ UNCHANGED <<conf, channels, edits>>

LoadUser(c) ==
    /\ Now(c, "user")
    /\ IF conf["user"].bad THEN Refuse(c)
       ELSE ask' = [ask EXCEPT ![c].pc = IF ask[c].verb = "use" THEN "select" ELSE "identify",
                               ![c].known = @ \cup In("user"),
                               ![c].default = IF conf["user"].default # Unnamed
                                              THEN conf["user"].default ELSE @]
    /\ UNCHANGED <<conf, channels, edits>>

(* pkg_environments_select: the entries of the name said, or of the        *)
(* default, or all; more than one name or root among them is no choice.    *)
Matches(known, name) == {k \in known : name # Unnamed => k.name = name}
Chosen(known, name) ==
    LET m == Matches(known, name) IN
    IF \A k, l \in m : k.name = l.name /\ k.root = l.root THEN {k.root : k \in m} ELSE {}
Name(c) == IF ask[c].word # Unnamed THEN ask[c].word ELSE ask[c].default

Works(c, r) == ask' = [ask EXCEPT ![c].root = r, ![c].pc = "channel"]

(* prepare_root: where nothing is said or registered a person is asked for *)
(* a root, where several answer for one of them; nobody may be there.      *)
Select(c) ==
    LET known == ask[c].known
        chosen == Chosen(known, Name(c))
        unknown == Name(c) # Unnamed /\ Matches(known, Name(c)) = {}
        asked == IF unknown THEN {} ELSE IF known = {} THEN Roots ELSE {k.root : k \in known}
    IN
    /\ Now(c, "select")
    /\ \/ \E r \in (IF chosen # {} THEN chosen ELSE asked) \cap Directories : Works(c, r)
       \/ ~(chosen # {} /\ chosen \subseteq Directories) /\ Refuse(c)
    /\ UNCHANGED <<conf, channels, edits>>

-----------------------------------------------------------------------------
(* mutate: the file's identity is taken, the file is read and changed, and *)
(* replaced if its identity is the same.                                   *)
Identify(c) ==
    /\ Now(c, "identify")
    /\ IF ask[c].verb = "add" /\ ask[c].root \notin Directories THEN Refuse(c)
       ELSE ask' = [ask EXCEPT ![c].pc = "change", ![c].before = conf[ask[c].scope].id]
    /\ UNCHANGED <<conf, channels, edits>>

(* What a command makes of a file, where it may. *)
Changes(c, f) ==
    /\ ~f.bad
    /\ ask[c].verb = "add" => ask[c].word \notin NamesOf(f.items)
    /\ ask[c].verb = "remove" => ask[c].word \in NamesOf(f.items)
    /\ ask[c].verb = "default" =>
         Chosen(IF ask[c].scope = "system" THEN In("system") ELSE ask[c].known, ask[c].word) # {}

Items(c, f) ==
    IF ask[c].verb = "add" THEN f.items \cup {[name |-> ask[c].word, root |-> ask[c].root]}
    ELSE IF ask[c].verb = "remove" THEN {i \in f.items : i.name # ask[c].word}
    ELSE f.items
Default(c, f) ==
    IF ask[c].verb = "default" THEN ask[c].word
    ELSE IF ask[c].verb = "remove" /\ f.default = ask[c].word THEN Unnamed
    ELSE f.default

Change(c) ==
    LET f == conf[ask[c].scope] IN
    /\ Now(c, "change")
    /\ IF Changes(c, f)
       THEN ask' = [ask EXCEPT ![c].pc = "compare", ![c].items = Items(c, f), ![c].named = Default(c, f)]
       ELSE Refuse(c)
    /\ UNCHANGED <<conf, channels, edits>>

MutCompareId(c) ==
    /\ Now(c, "compare")
    /\ ask' = [ask EXCEPT ![c].pc = "replace", ![c].now = conf[ask[c].scope].id]
    /\ UNCHANGED <<conf, channels, edits>>

CompareId(c) ==
    /\ Now(c, "compare")
    /\ IF conf[ask[c].scope].id = ask[c].before
       THEN ask' = [ask EXCEPT ![c].pc = "replace", ![c].now = ask[c].before]
       ELSE Refuse(c)
    /\ UNCHANGED <<conf, channels, edits>>

(* Then both files are read again, and what was saved is told so. *)
Replace(c) ==
    LET s == ask[c].scope IN
    /\ Now(c, "replace")
    /\ \/ /\ conf' = [conf EXCEPT ![s] = [id |-> @.id + 1, bad |-> FALSE, items |-> ask[c].items,
                                          default |-> ask[c].named]]
          /\ To(c, "reload")
       \/ Refuse(c) /\ UNCHANGED conf
    /\ UNCHANGED <<channels, edits>>

Reload(c) ==
    /\ Now(c, "reload")
    /\ IF \E s \in Scope : conf[s].bad THEN Refuse(c) ELSE To(c, "over")
    /\ UNCHANGED <<conf, channels, edits>>

(* A person edits a file, and what is left is no configuration; or it is   *)
(* mended to what it was.                                                  *)
Edit(s) ==
    /\ edits < MaxEdits
    /\ conf' = [conf EXCEPT ![s] = [id |-> @.id + 1, bad |-> ~@.bad, items |-> @.items,
                                     default |-> @.default]]
    /\ edits' = edits + 1
    /\ UNCHANGED <<channels, ask>>

-----------------------------------------------------------------------------
(* The list of a root's channels: pkg_channel_named and cmd_channel.       *)
List(c) == channels[ask[c].root]
Called(list, word) == {i \in DOMAIN list : list[i].name # Unnamed /\ list[i].name = word}

(* A channel is called by the word said, or by the last part of its        *)
(* address where no other channel is called so.                            *)
Calling(c) ==
    IF ask[c].word # Unnamed THEN ask[c].word
    ELSE IF Called(List(c), LastPart[ask[c].at]) = {} THEN LastPart[ask[c].at] ELSE Unnamed

Lists(c) ==
    /\ ask[c].word # Unnamed => Called(List(c), ask[c].word) = {}
    /\ \A i \in DOMAIN List(c) : List(c)[i].at # ask[c].at
    /\ Len(List(c)) < MaxListed

(* REMOVE takes the first that is at what was said, or called so. *)
Unlists(c) == Called(List(c), ask[c].at) \cup {i \in DOMAIN List(c) : List(c)[i].at = ask[c].at}
First(S) == {i \in S : \A j \in S : i <= j}
Taken(list, i) == [j \in 1 .. Len(list) - 1 |-> IF j < i THEN list[j] ELSE list[j + 1]]

WithList(c, pc, list) == ask' = [ask EXCEPT ![c].pc = pc, ![c].list = list]

(* What a command that gives no channel reads, or the one it gives. *)
Reads(c) ==
    IF ask[c].at = Unnamed THEN {List(c)} \ {<<>>}
    ELSE IF ask[c].at \in Addresses THEN {<<[name |-> Unnamed, at |-> ask[c].at]>>}
    ELSE {<<List(c)[i]>> : i \in First(Called(List(c), ask[c].at))}

ReadList(c) ==
    /\ Now(c, "channel")
    /\ \/ ask[c].verb = "use" /\ \E list \in Reads(c) : WithList(c, "over", list)
       \/ ask[c].verb = "list" /\ Lists(c)
          /\ WithList(c, "write", Append(List(c), [name |-> Calling(c), at |-> ask[c].at]))
       \/ ask[c].verb = "unlist"
          /\ \E i \in First(Unlists(c)) : WithList(c, "write", Taken(List(c), i))
       \/ Refuse(c)
    /\ UNCHANGED <<conf, channels, edits>>

WriteList(c) ==
    /\ Now(c, "write")
    /\ \/ channels' = [channels EXCEPT ![ask[c].root] = ask[c].list] /\ To(c, "over")
       \/ Refuse(c) /\ UNCHANGED channels
    /\ UNCHANGED <<conf, edits>>

-----------------------------------------------------------------------------
EnvNext ==
    \/ \E c \in Askers :
         \/ Ask(c) \/ LoadSystem(c) \/ LoadUser(c) \/ Select(c)
         \/ Identify(c) \/ Change(c) \/ CompareId(c) \/ Replace(c) \/ Reload(c)
         \/ ReadList(c) \/ WriteList(c)
    \/ \E s \in Scope : Edit(s)

EnvSpec == EnvInit /\ [][EnvNext]_envVars

-----------------------------------------------------------------------------
(* A command replaces a file by what it made of that very file, whatever   *)
(* other commands did since it began; only a replacement between its last  *)
(* look at the identity and its own can be lost (pkg_fs_replace_if_same).  *)
NothingLost ==
    \A c \in Askers : LET f == conf[ask[c].scope] IN
        Now(c, "replace") /\ f.id = ask[c].now =>
            Changes(c, f) /\ ask[c].items = Items(c, f) /\ ask[c].named = Default(c, f)

(* A name is registered once in a file, and the machine's default is one   *)
(* of its names (read_scope refuses the one, select the other).            *)
WellFormed ==
    /\ \A s \in Scope : Distinct(conf[s].items)
    /\ conf["system"].default \in Maybe(NamesOf(conf["system"].items))

(* "Two channels answering to one word is the confusion this feature       *)
(* exists to remove" (pkg_lib_status.c:157): no name is given twice, and   *)
(* no channel is listed twice, though no lock is held.                     *)
NamesApart ==
    \A r \in Roots : \A i, j \in DOMAIN channels[r] :
        i # j => /\ channels[r][i].at # channels[r][j].at
                 /\ channels[r][i].name = channels[r][j].name => channels[r][i].name = Unnamed

(* What ENV and CHANNEL keep is what was registered: each clause holds     *)
(* however several commands meet, and wherever one is refused.             *)
Registered == NothingLost /\ WellFormed /\ NamesApart
=============================================================================
