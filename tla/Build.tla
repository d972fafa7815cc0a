-------------------------------- MODULE Build --------------------------------
(***************************************************************************)
(* PUBLISH: the manifest made of a drawer, as BUILD makes it but that it   *)
(* takes application for a kind nobody says.  What the command             *)
(* line does not say comes from the port's .pkginfo (INFO), then the       *)
(* Aminet readme, then the last version published; name, version and CPU   *)
(* also from the drawer's own files.  said has a keyword's value, None     *)
(* where it is not given, Cleared where it says "none"; a version is its   *)
(* number and its build (0: none); packages and paths are numbers, as in   *)
(* Manifest.  A file of the drawer has the parts of its path between       *)
(* commas (path), the number of the path (of), the folder it is in, its    *)
(* $VER cookie, the CPU it is built for, the library it is in Libs (lib),  *)
(* its content and its attributes.                                         *)
(***************************************************************************)
EXTENDS Manifest

CONSTANTS Cleared, About            \* About: the catalogue fields, keys of Manifest

OlderThan(a, b) == a[1] < b[1] \/ (a[1] = b[1] /\ a[2] < b[2])
Refused == [ok |-> FALSE]

(* The keywords, with what INFO gives filled in where there is none.       *)
Effective(said, info) ==
    [f \in DOMAIN said |-> IF said[f] = None /\ f \in DOMAIN info THEN info[f] ELSE said[f]]

(* Name and version from the cookies: of the name wanted, the first; of    *)
(* none, they must agree; one alone stands for a package of another name.  *)
FindVer(drawer, want) ==
    LET has == SelectSeq(drawer, LAMBDA f : f.cookie # None)
        cookie(i) == has[i].cookie
        at == SelectInSeq(has, LAMBDA f : f.cookie.name = want)
    IN IF has = <<>> THEN [got |-> 0]
       ELSE IF want = None
       THEN IF \A i \in DOMAIN has : cookie(i) = cookie(1)
            THEN [got |-> 1, name |-> cookie(1).name, ver |-> cookie(1).ver] ELSE [got |-> -1]
       ELSE IF at # 0 THEN [got |-> 1, name |-> want, ver |-> cookie(at).ver]
       ELSE IF Len(has) = 1 THEN [got |-> 1, name |-> want, ver |-> cookie(1).ver]
       ELSE [got |-> -1]

NameVersion(o, drawer) ==
    LET found == FindVer(drawer, o.name)
        cookie == found.got = 1
        name == IF o.name = None /\ cookie THEN found.name ELSE o.name
        ver == IF o.version = None /\ cookie THEN found.ver ELSE o.version
        disagree == found.got = -1 /\ (o.name = None \/ o.version = None) /\ o.build = None
    IN IF disagree \/ name = None \/ (ver = None /\ o.build = None) THEN Refused
       ELSE [ok |-> TRUE, name |-> name,
             ver |-> IF o.build = None THEN ver
                     ELSE <<IF ver = None THEN 0 ELSE ver[1], o.build>>]

(* The highest version in the index, whatever its CPU.                     *)
LastAnyArch(index, name, arch) ==
    LET some == {i \in DOMAIN index : index[i].name = name}
    IN IF some = {} THEN 0
       ELSE CHOOSE i \in some :
                \A j \in some : ~ OlderThan(index[i].ver, index[j].ver)
                                /\ (j < i => OlderThan(index[j].ver, index[i].ver))

(* The highest version in the index, of this CPU where it has one.         *)
LastPublished(index, name, arch) ==
    LET all == {i \in DOMAIN index : index[i].name = name}
        same == {i \in all : index[i].arch = arch}
        some == IF same # {} THEN same ELSE all
    IN IF some = {} THEN 0
       ELSE CHOOSE i \in some :
                \A j \in some : ~ OlderThan(index[i].ver, index[j].ver)
                                /\ (j < i => OlderThan(index[j].ver, index[i].ver))

(* The CPU: the one the executables share, that of ARCH; several are in    *)
(* order in a boot or sdk package ARCH is given for.                       *)
Arch(o, index, name, drawer) ==
    LET cpu == {drawer[i].cpu : i \in {j \in DOMAIN drawer : drawer[j].cpu # None}}
        last == LastPublished(index, name, o.arch)
        kind == IF o.kind = None /\ o.arch # None /\ name # None /\ last # 0
                THEN index[last].m["Kind"][1].val ELSE o.kind
        several == kind \in {"boot", "sdk"} /\ o.arch # None
    IN IF ~ several /\ (Cardinality(cpu) > 1 \/ (o.arch # None /\ cpu \notin {{}, {o.arch}}))
       THEN Refused
       ELSE [ok |-> TRUE, arch |-> IF o.arch # None THEN o.arch
                                   ELSE IF cpu # {} THEN CHOOSE c \in cpu : TRUE ELSE "generic"]

----------------------------------------------------------------------------
(* The catalogue fields, each over the one before: the last version's, but *)
(* what changed in it; the readme's; INFO's; the keyword's.  CHANGES of    *)
(* the command line is added to INFO's.                                    *)
ComposeAbout(said, info, readme, last) ==
    LET cleared(v) == IF v \in {None, Cleared} THEN <<>> ELSE v
        old(f) == IF f = "Changes" \/ last = None THEN <<>>
                  ELSE [i \in DOMAIN last[f] |-> IF f \in Picture THEN last[f][i].of ELSE last[f][i].val]
        over(v, source, f) == IF f \in DOMAIN source /\ source[f] # None
                              THEN cleared(source[f]) ELSE v
        told(f) == over(over(old(f), readme, f), info, f)
    IN [f \in About |-> IF f = "Changes" /\ said[f] # None THEN told(f) \o said[f]
                        ELSE over(told(f), said, f)]

Entries(f, v) ==
    [i \in DOMAIN v |-> IF f \in Picture THEN [of |-> v[i], val |-> ""] ELSE [of |-> 0, val |-> v[i]]]

(* The configuration files: each name of the list a file, or a folder; a   *)
(* name that is neither is refused where the command gave it.  Those of    *)
(* the last version come as a list, commas and all.                        *)
MarkConfig(files, list, strict) ==
    LET names(f, pat) == f.path = <<pat>> \/ f.folder = pat
        hit(pat) == \E i \in DOMAIN files : names(files[i], pat)
    IN [ok |-> strict => \A k \in DOMAIN list : hit(list[k]),
        marks |-> {i \in DOMAIN files : \E k \in DOMAIN list : names(files[i], list[k])}]

InheritedConfig(last) == FlattenSeq([i \in DOMAIN last.config |-> last.config[i]])

----------------------------------------------------------------------------
(* The files: the drawer's, loose, or one image, and what is inside it.    *)
Stored(files, marks) ==
    [i \in DOMAIN files |->
        [of |-> files[i].of, val |-> files[i].data, Protect |-> files[i].attr, Comment |-> None,
         config |-> i \in marks]]

ImageFile == [of |-> 100, val |-> "image", Protect |-> None, Comment |-> None, config |-> FALSE]

(* The libraries and devices in Libs and Devs (lib), each once.            *)
Provided(files) ==
    LET libs == SetToSortSeq({files[i].lib : i \in DOMAIN files} \ {0}, <)
    IN [i \in DOMAIN libs |-> [of |-> libs[i], val |-> ""]]

Depends(list) == [i \in DOMAIN list |-> [of |-> list[i], val |-> ""]]

(* What the manifest says but its files, the last published version's      *)
(* (last, None without one) where the keywords and INFO (o) do not say.    *)
Answers(in, o, who, arch, last) ==
    LET deps == CASE o.depends # None -> IF o.depends = Cleared THEN <<>> ELSE o.depends
                  [] o.depends = None /\ last # None ->
                       [i \in DOMAIN last.m["Depends"] |-> last.m["Depends"][i].of]
                  [] OTHER -> <<>>
    IN [name |-> who.name, ver |-> who.ver, arch |-> arch, deps |-> deps,
        kind |-> IF o.kind = None /\ last # None THEN last.m["Kind"][1].val ELSE o.kind,
        config |-> CASE o.config \notin {None, Cleared} -> o.config
                     [] o.config = None /\ last # None -> InheritedConfig(last)
                     [] OTHER -> <<>>,
        about |-> ComposeAbout(in.said, in.info, in.readme, IF last = None THEN None ELSE last.m)]

ManifestOf(in, say, marks) ==
    LET one(val, of) == <<[of |-> of, val |-> val]>>
        image == say.kind = "image"
    IN [key \in DOMAIN Empty |->
          CASE key = "Name" -> one("", say.name)
            [] key = "Version" -> one(say.ver, 0)
            [] key = "Architecture" -> one(say.arch, 0)
            [] key = "Kind" -> one(say.kind, 0)
            [] key = "Depends" -> Depends(SortSeq(say.deps, <))
            [] key \in About -> Entries(key, say.about[key])
            [] key = "Provides" -> IF image THEN <<>> ELSE Provided(in.drawer)
            [] key = "Source" -> IF in.archive THEN one("source", 0) ELSE <<>>
            [] key = "Archive" -> IF in.upstream THEN one("archive", 0) ELSE <<>>
            [] key = "Payload" -> IF in.archive THEN <<>> ELSE one("payload", 0)
            [] key = "File" -> IF image THEN <<ImageFile>> ELSE Stored(in.drawer, marks)
            [] key = "Content" -> IF image THEN Stored(in.drawer, {}) ELSE <<>>
            [] OTHER -> <<>>]

(* m and the files marked, as the index entry of what is published.        *)
Published(in, say, marks, m) ==
    LET chosen == SelectSeq([i \in DOMAIN in.drawer |-> i], LAMBDA i : i \in marks)
    IN IF ~ Whole(m) THEN Refused
       ELSE [ok |-> TRUE, m |-> m, name |-> say.name, ver |-> say.ver, arch |-> say.arch,
             config |-> [k \in DOMAIN chosen |-> in.drawer[chosen[k]].path]]

(* Refused: no kind; an image of an archive, or with configuration files   *)
(* asked for; a dependency on itself or named twice; a name of CONFIG that *)
(* is nothing in the drawer.                                               *)
Accepted(in, asked, say, config) ==
    LET image == say.kind = "image"
        marks == IF image THEN {} ELSE config.marks
    IN IF \/ say.kind = None
          \/ image /\ (asked \/ in.archive)
          \/ \E i, j \in DOMAIN say.deps :
               say.deps[i] = say.name \/ (i # j /\ say.deps[i] = say.deps[j])
          \/ ~ image /\ ~ config.ok
       THEN Refused
       ELSE Published(in, say, marks, ManifestOf(in, say, marks))

Marked(in, asked, say) == Accepted(in, asked, say, MarkConfig(in.drawer, say.config, asked))

(* in: said, info, readme, drawer (in byte order), whether that is inside  *)
(* an archive (archive) published elsewhere (upstream), and index.         *)
BuildFor(in, o, who, cpu) ==
    LET at == LastPublished(in.index, who.name, cpu.arch)
    IN IF ~ who.ok \/ in.drawer = <<>> \/ (in.upstream /\ ~ in.archive) \/ ~ cpu.ok THEN Refused
       ELSE Marked(in, o.config \notin {None, Cleared},
                   Answers(in, o, who, cpu.arch, IF at = 0 THEN None ELSE in.index[at]))

Build(in) ==
    LET o == Effective(in.said, in.info)
        who == NameVersion(o, in.drawer)
    IN BuildFor(in, o, who,
                Arch(o, in.index, IF who.ok THEN who.name ELSE None, in.drawer))

----------------------------------------------------------------------------
(* What a command without keywords keeps of e, the version before.         *)
Kept(in, b, e) ==
    LET o == Effective(in.said, in.info)
        one(f) == Len(f.path) = 1
        stays(i) == one(in.drawer[i]) /\ Contains(e.config, in.drawer[i].path)
    IN /\ o.kind = None => b.m["Kind"] = e.m["Kind"]
       /\ o.depends = None => b.m["Depends"] = e.m["Depends"]
       /\ o.config = None /\ b.m["Content"] = <<>> =>
            \A i \in DOMAIN in.drawer : stays(i) => b.m["File"][i].config
       /\ \A f \in About \ {"Changes"} :
            (\A source \in {in.said, in.info, in.readme} :
                f \in DOMAIN source => source[f] = None) => b.m[f] = e.m[f]

(* What is built is what was said.  The manifest published is one pkg      *)
(* itself reads, and reads as it was built; a catalogue field is the       *)
(* keyword's, else INFO's, else the readme's; what none of them says, and  *)
(* the kind, the dependencies and the configuration files not said, are    *)
(* those of the highest version published for this CPU, or for any where   *)
(* there is none, the changes apart and a configuration file with a comma  *)
(* in its name; an image holds no configuration file.                      *)
AsSaid(in, b) ==
    LET same == {i \in DOMAIN in.index : in.index[i].name = b.name}
        cpu == {i \in same : in.index[i].arch = b.arch}
        before == IF cpu # {} THEN cpu ELSE same
        gives(source, f) == f \in DOMAIN source /\ source[f] # None
        value(v) == IF v = Cleared THEN <<>> ELSE v
    IN b.ok =>
       /\ Parse(Emit(b.m)) = [ok |-> TRUE, m |-> b.m]
       /\ \A f \in About \ {"Changes"} :
            /\ gives(in.said, f) => b.m[f] = Entries(f, value(in.said[f]))
            /\ ~ gives(in.said, f) /\ gives(in.info, f) => b.m[f] = Entries(f, value(in.info[f]))
            /\ ~ gives(in.said, f) /\ ~ gives(in.info, f) /\ gives(in.readme, f) =>
                 b.m[f] = Entries(f, value(in.readme[f]))
       /\ before # {} => \E i \in before :
            /\ \A j \in before : ~ OlderThan(in.index[i].ver, in.index[j].ver)
            /\ Kept(in, b, in.index[i])
       /\ b.m["Content"] # <<>> => Len(b.m["File"]) = 1 /\ ~ b.m["File"][1].config

BuiltAsSaid(in) == AsSaid(in, Build(in))
=============================================================================
