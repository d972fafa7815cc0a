------------------------------ MODULE Manifest -------------------------------
(***************************************************************************)
(* The manifest of a package: lines of a key and a value, written by BUILD *)
(* and IMPORT, signed as text, and read by two programs, pkg (strictly)    *)
(* and the portal (what it can of it, for its pages).  A line is a record  *)
(* of its key, of what it names (a path, a package or a library, as a      *)
(* number that gives its place in byte order; 0 where it names nothing)    *)
(* and of the rest of its value; Bad is a value the check of its key       *)
(* refuses, Huge a size of 2^63 bytes or more.  A manifest is the entries  *)
(* of each key, in order.                                                  *)
(***************************************************************************)
EXTENDS Naturals, Sequences, FiniteSets, SequencesExt

CONSTANTS Bad, Huge, None

Line(key, of, val) == [key |-> key, of |-> of, val |-> val]

(* Keys said once; those said in any number; those in byte order.          *)
Once == {"Name", "Version", "Architecture", "Kind", "Payload", "Source", "Archive",
         "Short", "Category", "Homepage", "Repository", "License", "Distribution", "Icon"}
Picture == {"Icon", "Screenshot"}
Many == {"Description", "Changes", "Author", "Screenshot"}
Sorted == {"Depends", "Provides", "File", "Content"}
Listing == {"File", "Content"}
Attribute == {"Protect", "Comment"}

EmitOrder ==
    <<"Name", "Version", "Architecture", "Kind", "Depends", "Provides",
      "Short", "Description", "Category", "Tags", "Author", "Homepage", "Repository",
      "License", "Distribution", "Changes", "Icon", "Screenshot",
      "Payload", "Source", "Archive", "File", "Content">>

Empty == [key \in ToSet(EmitOrder) |-> <<>>]

(* A file of the package or of its image, its attributes not yet said.     *)
Entry(l) ==
    IF l.key \in Listing
    THEN [of |-> l.of, val |-> l.val, Protect |-> None, Comment |-> None, config |-> FALSE]
    ELSE [of |-> l.of, val |-> l.val]

----------------------------------------------------------------------------
(* pkg's reader.  One operator for each form of line: what it asks of the  *)
(* manifest read so far, and what it makes of it.                          *)
Named(m, key, of) == SelectInSeq(m[key], LAMBDA e : e.of = of)

(* The image searched before the package for the file an attribute is of.  *)
AttrTargetImage(m, of) ==
    IF Named(m, "Content", of) # 0 THEN <<"Content", Named(m, "Content", of)>>
    ELSE <<"File", Named(m, "File", of)>>

(* The file an attribute is of: of the package, else of its image.         *)
AttrTarget(m, of) ==
    IF Named(m, "File", of) # 0 THEN <<"File", Named(m, "File", of)>>
    ELSE <<"Content", Named(m, "Content", of)>>

Fits(m, l) ==
    /\ l.val # Bad
    /\ l.key \in Once => m[l.key] = <<>>
    /\ l.key \in Sorted => m[l.key] = <<>> \/ m[l.key][Len(m[l.key])].of < l.of
    /\ l.key = "Tags" => Named(m, "Tags", l.of) = 0
    /\ l.key = "Config" => \E i \in DOMAIN m["File"] : m["File"][i].of = l.of /\ ~ m["File"][i].config
    /\ l.key \in Attribute =>
         LET t == AttrTarget(m, l.of) IN t[2] # 0 /\ m[t[1]][t[2]][l.key] = None

Put(m, l) ==
    CASE l.key \in DOMAIN m -> [m EXCEPT ![l.key] = Append(@, Entry(l))]
      [] l.key = "Config" -> [m EXCEPT !["File"][Named(m, "File", l.of)].config = TRUE]
      [] l.key \in Attribute ->
           LET t == AttrTarget(m, l.of) IN [m EXCEPT ![t[1]][t[2]][l.key] = l.val]
      [] OTHER -> m

(* What is asked of the whole: the four fields there, no dependency on     *)
(* itself, each picture a file of the package, no Archive without Source.  *)
Whole(m) ==
    /\ \A key \in {"Name", "Version", "Architecture", "Kind"} : m[key] # <<>>
    /\ \A i \in DOMAIN m["Depends"] : m["Depends"][i].of # m["Name"][1].of
    /\ \A key \in Picture : \A i \in DOMAIN m[key] :
         \E list \in Listing : Named(m, list, m[key][i].of) # 0
    /\ m["Archive"] # <<>> => m["Source"] # <<>>

(* The first line says the format, and no other does; the first line that  *)
(* does not fit ends the reading.                                          *)
Parse(lines) ==
    LET step(acc, l) ==
            IF acc.ok /\ l.key # "Format" /\ Fits(acc.m, l)
            THEN [acc EXCEPT !.m = Put(@, l)] ELSE [acc EXCEPT !.ok = FALSE]
        first == lines # <<>> /\ Head(lines) = Line("Format", 0, "pkg-manifest 1")
        read == FoldLeft(step, [ok |-> first, m |-> Empty], Tail(lines))
    IN IF lines = <<>> THEN [ok |-> FALSE, m |-> Empty]
       ELSE [read EXCEPT !.ok = @ /\ Whole(read.m)]

----------------------------------------------------------------------------
(* The writer: every key in its place, the attributes after the files they *)
(* are of, only where they differ from the default, the configuration      *)
(* files last.                                                             *)
Lines(m, key) == [i \in DOMAIN m[key] |-> Line(key, m[key][i].of, m[key][i].val)]

Attributes(m, attr) ==
    LET of(key) == [i \in DOMAIN m[key] |-> Line(attr, m[key][i].of, m[key][i][attr])]
    IN SelectSeq(of("File") \o of("Content"), LAMBDA l : l.val # None)

Emit(m) ==
    LET config == SelectSeq(m["File"], LAMBDA e : e.config)
    IN <<Line("Format", 0, "pkg-manifest 1")>>
       \o FlattenSeq([i \in DOMAIN EmitOrder |-> Lines(m, EmitOrder[i])])
       \o Attributes(m, "Protect") \o Attributes(m, "Comment")
       \o [i \in DOMAIN config |-> Line("Config", config[i].of, "")]

----------------------------------------------------------------------------
(* The portal's reader: a field said twice counts as said last, a size it  *)
(* cannot hold leaves its line out, the attributes are given when all      *)
(* lines are read, and which files are configuration is not asked.         *)
PortalFits(l) == l.key \in ToSet(EmitOrder) /\ (l.key \in Listing \cup {"Archive"} => l.val # Huge)

PortalPut(m, l) ==
    IF l.key \in Once THEN [m EXCEPT ![l.key] = <<Entry(l)>>]
    ELSE IF l.key = "Tags" /\ Named(m, "Tags", l.of) # 0 THEN m
    ELSE [m EXCEPT ![l.key] = Append(@, Entry(l))]

PortalAttribute(m, l) ==
    LET key == IF Named(m, "File", l.of) # 0 THEN "File" ELSE "Content"
        i == Named(m, key, l.of)
    IN IF i = 0 THEN m ELSE [m EXCEPT ![key][i][l.key] = l.val]

Portal(lines) ==
    LET attr(l) == l.key \in Attribute
    IN FoldLeft(PortalAttribute, FoldLeft(PortalPut, Empty, SelectSeq(lines, PortalFits)),
                SelectSeq(lines, attr))

----------------------------------------------------------------------------
(* What a manifest shows on a page: all but which files are configuration, *)
(* and, where it fits no signed number of 64 bits, a size.                 *)
Shown(m) ==
    [key \in DOMAIN m |->
        LET held == SelectSeq(m[key], LAMBDA e : e.val # Huge)
        IN IF key \in Listing THEN [i \in DOMAIN held |-> [held[i] EXCEPT !.config = FALSE]]
           ELSE held]

(* A text pkg accepts means one thing: written again from what was read,   *)
(* it reads the same, so a manifest can be signed again without a change   *)
(* of what it says; the portal shows of it what pkg acts on, the           *)
(* attributes of a file included; and no path is listed twice, so that an  *)
(* attribute is of one file of the package or of its image.  Only where a  *)
(* path is both a file of the package and of its image can an attribute    *)
(* change hands: where it is said before the file is (never by the         *)
(* writer), or, on a page, where the portal leaves the file out.           *)
SameToAll(lines) ==
    LET read == Parse(lines)
        clash == \E i \in DOMAIN read.m["File"] :
                     Named(read.m, "Content", read.m["File"][i].of) # 0
        early == \E i, j \in DOMAIN lines :
                     i < j /\ lines[i].key \in Attribute /\ lines[j].key \in Listing
        huge == \E i \in DOMAIN lines : lines[i].val = Huge
    IN read.ok =>
         /\ ~ (clash /\ early) => Parse(Emit(read.m)) = read
         /\ ~ (clash /\ (early \/ huge)) => Portal(lines) = Shown(read.m)
         /\ \A key \in Sorted : \A i, j \in DOMAIN read.m[key] :
              i # j => read.m[key][i].of # read.m[key][j].of
=============================================================================
