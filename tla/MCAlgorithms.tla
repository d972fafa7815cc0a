---------------------------- MODULE MCAlgorithms ----------------------------
(***************************************************************************)
(* The algorithms over every input of small sets, one input a step from    *)
(* the first state, and beside them pkg's update of itself, its cache of   *)
(* archives, and the roots and channels it is told of.                     *)
(***************************************************************************)
EXTENDS SelfUpdate, Fetch, Environments, Sequences, TLC

CONSTANTS r1, r2, None, Bad, Huge, Cleared, Unknown, Generic

VARIABLE input

S == INSTANCE Standing WITH Nothing <- Unknown
U == INSTANCE UpgradeAll
V == INSTANCE Versions
R == INSTANCE Resolve WITH Nothing <- Unknown
A == INSTANCE ArchiveMap WITH Ahead <- 2, Failed <- Unknown
B == INSTANCE Build WITH About <- {"Short", "Icon", "Changes"}

Some(kind, in) == input' = [kind |-> kind, in |-> in]

----------------------------------------------------------------------------
(* Up to two entries of two channels in three versions, or three entries   *)
(* of every CPU in two; an index is in its own order, by version.          *)
Key == {"k", "l"}
Entry == [ch : {1, 2}, ver : {1, 2, 3}, arch : {"i386", Generic}, key : Key, gone : BOOLEAN]
Before(e, f) ==
    \/ e.ch < f.ch
    \/ e.ch = f.ch /\ (e.ver < f.ver \/ (e.ver = f.ver /\ e.arch # Generic /\ f.arch = Generic))

Indexes ==
    {<<>>} \cup {<<e>> : e \in Entry}
    \cup {ix \in Entry \X Entry : Before(ix[1], ix[2])}
    \cup {ix \in [1..3 -> {e \in Entry : e.arch = Generic /\ e.ver < 3}] :
              Before(ix[1], ix[2]) /\ Before(ix[2], ix[3])}

StandingInput ==
    \E ix \in Indexes, base \in {"i386", Unknown}, ver \in {1, 2}, arch \in {"i386", Generic},
       pin \in Key \cup {Unknown}, edited \in BOOLEAN :
        Some("standing", [ix |-> ix, base |-> base, m |-> [ver |-> ver, arch |-> arch],
                          pin |-> pin, edited |-> edited])

----------------------------------------------------------------------------
(* Three packages, one of them perhaps missing, in versions 1 and 2; the   *)
(* version installed names what is there, the new one anything.            *)
Three == 1..3
Old(have, p) ==
    {f \in [Three -> 0..1] : f[p] = 0 /\ (have[p] = 0 => f = [q \in Three |-> 0])
                             /\ \A q \in Three : f[q] <= have[q]}
New(p) == {f \in [Three -> 0..2] : f[p] = 0}

Needs(have) ==
    {<<<<a, x>>, <<b, y>>, <<c, z>>>> :
        a \in Old(have, 1), b \in Old(have, 2), c \in Old(have, 3),
        x \in New(1), y \in New(2), z \in New(3)}

UpgradeInput ==
    \E have \in {<<1, 1, 1>>, <<0, 1, 1>>, <<1, 0, 1>>, <<1, 1, 0>>},
       out \in {<<{}, {}>>, <<{2}, {}>>, <<{3}, {}>>, <<{}, {3}>>} : \E needs \in Needs(have) :
        Some("upgrade all", [have |-> have, offer |-> <<2, 2, 2>>, stuck |-> out[1],
                             conflict |-> out[2], needs |-> needs])

----------------------------------------------------------------------------
(* A header and up to three lines more, or five of files and attributes,   *)
(* or a header with a line left out or said again.                         *)
Header ==
    <<B!Line("Format", 0, "pkg-manifest 1"), B!Line("Name", 5, "x"), B!Line("Version", 0, "v"),
      B!Line("Architecture", 0, "a"), B!Line("Kind", 0, "k")>>

FileLines ==
    {B!Line("File", 1, "d"), B!Line("File", 2, "d"), B!Line("Content", 1, "d"),
     B!Line("Content", 2, "d"), B!Line("Content", 1, Huge), B!Line("Protect", 1, "p"),
     B!Line("Comment", 1, "c"), B!Line("Protect", 2, "p"), B!Line("Config", 1, "")}

BodyLines ==
    {B!Line("Depends", 1, ""), B!Line("Depends", 2, "min"), B!Line("Depends", 5, ""),
     B!Line("Provides", 1, ""), B!Line("Provides", 2, ""), B!Line("Short", 0, "s"),
     B!Line("Description", 0, "d"), B!Line("Changes", 0, "d"), B!Line("Tags", 1, ""),
     B!Line("Tags", 2, ""), B!Line("Icon", 1, ""), B!Line("Screenshot", 2, ""),
     B!Line("Source", 0, "s"), B!Line("Archive", 0, "a"), B!Line("Archive", 0, Huge),
     B!Line("Payload", 0, "p"), B!Line("Payload", 0, Bad), B!Line("X-Other", 0, "o"),
     B!Line("Format", 0, "pkg-manifest 1"), B!Line("File", 1, "d"), B!Line("File", 2, "d"),
     B!Line("Content", 1, "d"), B!Line("Content", 2, Huge)}

ManifestInput ==
    \/ \E n \in 0..3 : \E body \in [1..n -> BodyLines] : Some("manifest", Header \o body)
    \/ \E body \in [1..5 -> FileLines] : Some("manifest", Header \o body)
    \/ \E i \in 1..5 : Some("manifest", SubSeq(Header, 1, i - 1) \o SubSeq(Header, i + 1, 5))
    \/ \E i, j \in 1..5 :
         Some("manifest", SubSeq(Header, 1, i) \o <<Header[j]>> \o SubSeq(Header, i + 1, 5))

----------------------------------------------------------------------------
(* Any two texts of up to three characters, and any two versions of up to  *)
(* five.                                                                   *)
Texts == UNION {[1..n -> {0, 1, V!Point, V!Plus, V!Other}] : n \in 0..3}
VersionTexts ==
    {s \in UNION {[1..n -> {0, 1, V!Point, V!Plus}] : n \in 1..5} : V!CheckVersion(s)}

VersionsInput ==
    \/ \E a, b \in Texts : Some("versions", <<a, b>>)
    \/ \E a, b \in VersionTexts : Some("versions", <<a, b>>)

----------------------------------------------------------------------------
(* A library or device at two or three places, one place given, versions   *)
(* around the one asked for.                                               *)
Found ==
    {[state |-> s, ver |-> 0] :
        s \in {"no file", "dir", "not executable", "wrong type", "ok"}}
    \cup {[state |-> "ok", ver |-> v] : v \in 1..3} \cup {[state |-> "wrong type", ver |-> 3]}

Question(given, device, from, libs) ==
    [given |-> given, device |-> device, from |-> from, libs |-> libs]

Questions ==
    {Question(Unknown, FALSE, <<"Game">>, Unknown),
     Question(Unknown, FALSE, <<"Game">>, <<<<"Game", "libs">>, <<"Libs">>>>),
     Question(Unknown, TRUE, <<"Game">>, <<<<"Libs">>>>),
     Question(<<"Libs">>, FALSE, Unknown, Unknown)}

ResolveInput ==
    \E q \in Questions : LET places == R!Places(q) IN
        \E there \in [{places[i] : i \in DOMAIN places} -> Found],
           want \in {0, 2}, loaded \in {0, 1, 2}, offer \in BOOLEAN :
            Some("resolve", [q |-> q, disk |-> there, want |-> want,
                             loaded |-> loaded, offer |-> offer])

----------------------------------------------------------------------------
(* A package built twice: the drawer of a program, its preferences and a   *)
(* file with a comma in its name, or of one library; another CPU's build   *)
(* published between them; INFO and a readme, or not.                      *)
NoWord ==
    [name |-> None, version |-> None, kind |-> None, arch |-> None, depends |-> None,
     config |-> None, build |-> None, Short |-> None, Icon |-> None, Changes |-> None]
NoInfo == [Short |-> None]

File(path, of, folder, cookie, cpu, attr) ==
    [path |-> path, of |-> of, folder |-> folder, cookie |-> cookie, cpu |-> cpu,
     data |-> "d", lib |-> IF of = 1 THEN 3 ELSE 0, attr |-> attr]
Cookie(name, ver) == [name |-> name, ver |-> <<ver, 0>>]
Prog(v, cpu) == File(<<"prog">>, 1, "", Cookie(5, v), cpu, None)
Prefs == File(<<"S/prefs">>, 2, "S", None, None, None)
Odd == File(<<"S/a", "b">>, 3, "S", None, None, "hidden")
Tool(cpu) == File(<<"tool">>, 4, "", Cookie(7, 3), cpu, None)

Drawers(v) ==
    {<<Prog(v, "i386"), Prefs>>, <<Prog(v, "i386"), Odd, Tool("i386")>>, <<Prefs>>,
     <<Prog(v, "i386"), Tool("m68k")>>}

From(said, info, readme, drawer, archive, index) ==
    [said |-> said, info |-> info, readme |-> readme, drawer |-> drawer,
     archive |-> archive, upstream |-> archive, index |-> index]

FirstBuild ==
    {From([NoWord EXCEPT !.kind = k, !.depends = d, !.config = c, !.Short = <<"s">>,
                         !.Icon = i, !.Changes = <<"first">>],
          NoInfo, NoInfo, drawer, FALSE, <<>>) :
        k \in {"application", "image"}, d \in {None, <<2>>}, c \in {None, <<"S">>},
        i \in {None, <<2>>}, drawer \in Drawers(1)}

OtherBuild ==
    {From([NoWord EXCEPT !.name = 5, !.kind = "boot", !.arch = "m68k", !.version = <<v, 0>>],
          NoInfo, NoInfo, <<Prefs>>, FALSE, <<>>) : v \in {1, 3}}

WithOther(one, two) == IF two.ok THEN <<one, two>> ELSE <<one>>
WithOne(one, other) ==
    IF one.ok THEN WithOther(one, B!Build([other EXCEPT !.index = <<one>>])) ELSE <<>>
Published(first, other) == WithOne(B!Build(first), other)

SecondBuild(index) ==
    {From([NoWord EXCEPT !.name = n, !.arch = a, !.depends = d, !.Short = s,
                         !.Changes = <<"second">>],
          info, readme, drawer, archive, index) :
        n \in {None, 5, 6}, a \in {None, "i386"}, d \in {None, Cleared, <<5>>},
        s \in {None, Cleared, <<"said">>}, archive \in BOOLEAN, drawer \in Drawers(2),
        info \in {NoInfo, [Short |-> <<"info">>, kind |-> "sdk", depends |-> <<3, 1>>]},
        readme \in {NoInfo, [Short |-> <<"readme">>]}}

BuildInput ==
    \E first \in FirstBuild, other \in OtherBuild :
        \E in \in SecondBuild(Published(first, other)) : Some("build", in)

----------------------------------------------------------------------------
(* Up to two streams of up to two blocks, or three of one, one block       *)
(* perhaps not noticed, and any two members.                               *)
Streams == UNION {[1..n -> UNION {[1..k -> 1..2] : k \in 1..2}] : n \in 1..2}
Archives == Streams \cup [1..3 -> {<<1>>, <<2>>}]
Members(a) ==
    {m \in [at : 0..A!End(a, Len(a)), size : 0..3] : m.at + m.size <= A!End(a, Len(a))}

ArchiveInput ==
    \E a \in Archives : \E m, o \in Members(a), missed \in
        {{}} \cup {{b} : b \in {b \in (1..3) \X (1..2) : b[1] \in DOMAIN a /\ b[2] \in DOMAIN a[b[1]]}} :
        /\ m.at + m.size <= o.at
        /\ Some("archive", [a |-> a, members |-> {m, o}, missed |-> missed])

----------------------------------------------------------------------------
(* Two environments of two roots, in the machine's file and a person's,    *)
(* and a root that lists two channels of one name at most.                 *)
OfRoot(n, r) == [name |-> n, root |-> r]
Holding(items, d) == [id |-> 1, bad |-> FALSE, items |-> items, default |-> d]
EmptyFile == [id |-> 0, bad |-> FALSE, items |-> {}, default |-> Unnamed]
MCFirstConf ==
    [system : {EmptyFile, Holding({OfRoot("w", "/x"), OfRoot("v", "/y")}, "w")},
     user : {EmptyFile, Holding({OfRoot("w", "/y")}, "v")}]

Say(verb, s, word, root, at) ==
    [verb |-> verb, scope |-> s, word |-> word, root |-> root, at |-> at]
MCCommands ==
    {Say("add", s, "v", "/y", Unnamed) : s \in Scope}
    \cup {Say("remove", s, word, Unnamed, Unnamed) : s \in Scope, word \in {"w", "v"}}
    \cup {Say("default", s, "v", Unnamed, Unnamed) : s \in Scope}
    \cup {Say("use", "user", word, Unnamed, Unnamed) : word \in {"w", Unnamed}}
    \cup {Say("use", "user", Unnamed, "/x", at) : at \in {Unnamed, "c", "i/c"}}
    \cup {Say("list", "user", word, "/x", at) : word \in {"c", Unnamed}, at \in {"i/c", "j/c"}}
    \cup {Say("unlist", "user", Unnamed, "/x", at) : at \in {"c", "i/c"}}
MCLastPart == [at \in Addresses |-> "c"]

----------------------------------------------------------------------------
Init == SUInit /\ FetchInit /\ EnvInit /\ input = [kind |-> "none"]

(* One of these at a time, the rest as they began.                         *)
NoUpdate == \A r \in Runs : run[r].pc = "idle"
NoFetch == used.fetches = 0 /\ used.moves = 0
FirstSystem == ~ su.windows /\ ~ su.macos /\ su.spoils = 0 /\ chan.bin.v = 1 /\ NoUpdate
FirstWorld ==
    NoFetch /\ disk.channel = Absent
    /\ world = [upstream |-> "signed", remote |-> FALSE, drawer |-> Absent]

NoAsk == edits = 0 /\ \A c \in Askers : ask[c].pc = "idle"
NoConf == NoAsk /\ \A s \in Scope : conf[s] = EmptyFile

AtFirst ==
    /\ FirstSystem /\ FirstWorld /\ NoConf /\ input.kind = "none"
    /\ UNCHANGED <<suVars, fetchVars, envVars>>

Next ==
    \/ /\ FirstWorld /\ NoConf /\ input.kind = "none"
       /\ SUNext /\ UNCHANGED <<fetchVars, envVars, input>>
    \/ /\ FirstSystem /\ NoConf /\ input.kind = "none"
       /\ FetchNext /\ UNCHANGED <<suVars, envVars, input>>
    \/ /\ FirstSystem /\ FirstWorld /\ input.kind = "none"
       /\ EnvNext /\ UNCHANGED <<suVars, fetchVars, input>>
    \/ AtFirst /\ StandingInput
    \/ AtFirst /\ UpgradeInput
    \/ AtFirst /\ ManifestInput
    \/ AtFirst /\ VersionsInput
    \/ AtFirst /\ ResolveInput
    \/ AtFirst /\ BuildInput
    \/ AtFirst /\ ArchiveInput

Spec == Init /\ [][Next]_<<suVars, fetchVars, envVars, input>>

----------------------------------------------------------------------------
(* STATUS, UPGRADE and a program's own update check say the same of one    *)
(* package (the walks of pkg_lib_status.c, pkg_lib_root.c, pkg_lib_api.c). *)
StandingsAgree ==
    input.kind = "standing" =>
        S!Agree(input.in.ix, input.in.base, input.in.m, input.in.pin, input.in.edited)

(* UPGRADE ALL takes every package it can, tells of each once, leaves what *)
(* is installed with what it needs, and does as its DRYRUN said            *)
(* (upgrade_all of pkg_lib_search.c).                                      *)
UpgradesAsFarAsItCan == input.kind = "upgrade all" => U!AsFarAsItCan(input.in)

(* A manifest pkg accepts reads the same after it is written again, and    *)
(* the portal shows what pkg acts on (pkg_manifest.c, Manifest.cs).        *)
OneMeaning == input.kind = "manifest" => B!SameToAll(input.in)

(* Both walks over two versions end, and give the order meant              *)
(* (pkg_version_cmp of pkg_manifest.c, PkgVersion.cs).                     *)
VersionsInOrder == input.kind = "versions" => V!OneOrder(input.in[1], input.in[2])

(* Who follows RESOLVE's advice ends with the library found or is told     *)
(* what to install (pkg_lib_resolve.c).                                    *)
AdviceEnds ==
    input.kind = "resolve" =>
        R!AdviceLeads(input.in.q, input.in.disk, input.in.want, input.in.loaded, input.in.offer)

(* What a read by the map takes out of an archive is what reading it       *)
(* whole gives (pkg_archive.c).                                            *)
ReadsAsWalked ==
    input.kind = "archive" => A!MapServes(input.in.a, input.in.missed, input.in.members)

(* What BUILD makes is what the keywords, INFO, the readme and the last    *)
(* version published say, in that order (pkg_lib_build.c).                 *)
BuildsAsSaid == input.kind = "build" => B!BuiltAsSaid(input.in)
=============================================================================
