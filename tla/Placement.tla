----------------------------- MODULE Placement -----------------------------
(***************************************************************************)
(* INSTALL <name> AT <directory>: an application's drawer put outside the  *)
(* root, the root's record of where it is, and the drawer kept for it      *)
(* alone, while commands of one root overlap or are cut, and a person      *)
(* turns a drawer of the root into a link and back.                        *)
(*                                                                         *)
(* A path is a sequence of names, and a drawer's icon a member of it.  The *)
(* bytes of a file are its package's.  Left out: drawers deleted and       *)
(* volumes unmounted by hand, links inside a placed drawer, spelling.      *)
(***************************************************************************)
EXTENDS Naturals, Sequences, FiniteSets, SequencesExt

CONSTANTS
    Package,     \* package names
    Version,     \* versions
    Ships,       \* Ships[p][v]: the paths of p's version v
    App,         \* the packages of kind application
    Root,        \* the root's own place
    System,      \* names of system drawers at a root's top
    Shared,      \* names of drawers many packages share
    Targets,     \* what AT may name
    Alias,       \* the drawer of the root a person makes a link,
    Elsewhere,   \* and where it leads
    Run,         \* commands
    Nothing,
    MaxCommands, \* bound: commands given
    MaxCuts,     \* bound: commands cut
    MaxLinks     \* bound: times the link is made or taken away

Meet(x, y) == IsPrefix(x, y) \/ IsPrefix(y, x)

(* The alias is in the root and leads out of it. *)
ASSUME PlacementAssumption ==
    /\ 0 \notin Version /\ Nothing \notin Run \cup Targets
    /\ \A p \in Package : \A v \in Version : Ships[p][v] \subseteq Seq(STRING)
    /\ Targets \cup {Root, Alias, Elsewhere} \subseteq Seq(STRING)
    /\ IsPrefix(Root, Alias) /\ Alias # Root /\ ~ Meet(Root, Elsewhere)
    /\ MaxCommands \in Nat /\ MaxCuts \in Nat /\ MaxLinks \in Nat

VARIABLES
    disk,       \* disk[x]: the package whose bytes are at the place x
    linked,      \* the alias is a link
    db,          \* .pkg/db: the version installed, 0 for none
    record,      \* .pkg/placements: [prefix, parent] of a package
    lock,        \* the command that holds the root's lock
    cmd,         \* the commands
    spent        \* what the bounds count

placementVars == <<disk, linked, db, record, lock, cmd, spent>>

Paths(p, v) == IF v = 0 THEN {} ELSE Ships[p][v]
Idle == [pc |-> "idle", verb |-> Nothing, pkg |-> Nothing, ver |-> 0, at |-> Nothing,
         known |-> <<>>, fresh |-> {}, todo |-> {}, stale |-> FALSE]

PlacementInit ==
    /\ disk = <<>>
    /\ linked \in BOOLEAN
    /\ db = [p \in Package |-> 0]
    /\ record = <<>>
    /\ lock = Nothing
    /\ cmd = [r \in Run |-> Idle]
    /\ spent = [commands |-> 0, cuts |-> 0, links |-> 0]

----------------------------------------------------------------------------
(* Places: what a path is once links are followed, and what exists there.  *)
Resolve(x) ==
    IF linked /\ IsPrefix(Alias, x) THEN Elsewhere \o SubSeq(x, Len(Alias) + 1, Len(x)) ELSE x

Exists(x) == \E y \in DOMAIN disk \cup {Root, Elsewhere} : IsPrefix(x, y)
IsDrawer(x) == Exists(x) /\ x \notin DOMAIN disk

Drawer(pl) == Append(pl.parent, Last(pl.prefix))

(* Where a path of the root is, by the records known; the first that       *)
(* matches, and no two do.                                                 *)
Installed(known, f) ==
    LET at == {p \in DOMAIN known : IsPrefix(known[p].prefix, f)} IN
    IF at = {} THEN Root \o f
    ELSE LET pl == known[CHOOSE p \in at : TRUE]
         IN pl.parent \o SubSeq(f, Len(pl.prefix), Len(f))

Physical(known, f) == Resolve(Installed(known, f))

----------------------------------------------------------------------------
(* A recorded destination is itself, no alias of another, and the drawer   *)
(* is there unless it was never filled.                                    *)
Available(pl, fresh) ==
    /\ Resolve(pl.parent) = pl.parent /\ IsDrawer(pl.parent)
    /\ fresh \/ IsDrawer(Drawer(pl))

(* Every file in the drawer. *)
Layout(pl, p, v) ==
    p \in App /\ \A f \in Paths(p, v) : IsPrefix(pl.prefix, f) /\ f # pl.prefix

SafeFile(pl, f) ==
    LET x == pl.parent \o SubSeq(f, Len(pl.prefix), Len(f)) IN Resolve(x) = x

(* The package fits its own placement, and no file of it meets the drawer  *)
(* of another, by its path or by where that leads.                         *)
CheckLogical(known, fresh, p, v) ==
    \A q \in DOMAIN known :
        IF q = p
        THEN /\ Available(known[p], p \in fresh) /\ Layout(known[p], p, v)
             /\ \A f \in Paths(p, v) : SafeFile(known[p], f)
        ELSE \A f \in Paths(p, v) : ~ IsPrefix(known[q].prefix, f)

PlacementCheck(known, fresh, p, v) ==
    \A q \in DOMAIN known :
        IF q = p
        THEN /\ Available(known[p], p \in fresh) /\ Layout(known[p], p, v)
             /\ \A f \in Paths(p, v) : SafeFile(known[p], f)
        ELSE \A f \in Paths(p, v) :
               /\ ~ IsPrefix(known[q].prefix, f)
               /\ ~ Meet(Drawer(known[q]), Physical(known, f))

(* The one drawer that holds the package. *)
Common(p, v) ==
    LET drawers == {Front(f) : f \in Paths(p, v)}
        shared == {d \in UNION {{SubSeq(e, 1, n) : n \in 0..Len(e)} : e \in drawers} :
                      \A e \in drawers : IsPrefix(d, e)}
    IN CHOOSE d \in shared : \A e \in shared : Len(e) <= Len(d)

(* AT a directory that is there and outside the root, for an application   *)
(* of one drawer of its own; no path and no place of it is another's.      *)
Prepare(c) ==
    LET canonical == Resolve(c.at)
        prefix == Common(c.pkg, c.ver)
        pl == [prefix |-> prefix, parent |-> canonical]
    IN
    /\ IsDrawer(canonical) /\ ~ IsPrefix(Root, canonical)
    /\ c.pkg \in App /\ prefix # <<>>
    /\ prefix[1] \notin System /\ Last(prefix) \notin Shared
    /\ Layout(pl, c.pkg, c.ver)
    /\ \A q \in DOMAIN c.known : ~ Meet(c.known[q].prefix, prefix)
    /\ \A q \in DOMAIN c.known : ~ Meet(Drawer(c.known[q]), Drawer(pl))
    /\ ~ Exists(Drawer(pl))
    /\ \A q \in Package : \A f \in Paths(q, db[q]) :
         ~ IsPrefix(prefix, f) /\ ~ Meet(Drawer(pl), Physical(c.known, f))

Placed(c) ==
    [parent |-> Resolve(c.at), prefix |-> Common(c.pkg, c.ver)]

(* A file of it is there: its own bytes and listed by no other package, or *)
(* the inspection refuses.                                                 *)
InTheWay(c, known, f) ==
    LET x == Physical(known, f) IN
    x \in DOMAIN disk /\
        \/ disk[x] # c.pkg
        \/ f \notin Paths(c.pkg, db[c.pkg])
           /\ \E q \in Package \ {c.pkg} : f \in Paths(q, db[q])

----------------------------------------------------------------------------
Becomes(r, c) == cmd' = [cmd EXCEPT ![r] = c]
Ends(r) == Becomes(r, Idle) /\ lock' = IF lock = r THEN Nothing ELSE lock

(* The records no two of which may overlap, and those of a package never   *)
(* installed in full.                                                      *)
Readable ==
    \A q, s \in DOMAIN record : q # s => ~ Meet(record[q].prefix, record[s].prefix)

Fresh == {q \in DOMAIN record : db[q] = 0}

(* The destination of the package named is there, and what is installed of *)
(* it fits it.                                                             *)
Stands(p) ==
    p \in DOMAIN record =>
        Available(record[p], p \in Fresh) /\ (db[p] # 0 => PlacementCheck(record, Fresh, p, db[p]))

(* call: the records are read, must not overlap, and the destination of    *)
(* the package named is looked at; all of it before the lock.              *)
Load(r, verb, p, v, at) ==
    /\ cmd[r].pc = "idle" /\ Paths(p, v) # {}
    /\ spent.commands < MaxCommands
    /\ spent' = [spent EXCEPT !.commands = @ + 1]
    /\ at # Nothing => verb = "install"
    /\ db[p] = 0 <=> verb = "install"
    /\ verb = "upgrade" => v # db[p]
    /\ verb = "remove" => v = db[p]
    /\ Readable
    /\ Stands(p)
    /\ Becomes(r, [pc |-> "lock", verb |-> verb, pkg |-> p, ver |-> v, at |-> at,
                   known |-> record, fresh |-> Fresh, todo |-> {}, stale |-> FALSE])
    /\ UNCHANGED <<disk, linked, db, record, lock>>

(* What the command read and looked at before the lock is still so. *)
StillSo(c) == c.known = record /\ Stands(c.pkg)

(* The lock, or the command is refused. *)
Lock(r) ==
    LET c == cmd[r] IN
    /\ c.pc = "lock"
    /\ IF lock = Nothing
       THEN /\ lock' = r
            /\ Becomes(r, [c EXCEPT !.pc = c.verb, !.stale = c.stale \/ ~ StillSo(c)])
       ELSE Ends(r)
    /\ UNCHANGED <<disk, linked, db, record, spent>>

(* Everything is checked before anything is written. *)
Apply(r, known) ==
    LET c == cmd[r]
        fresh == c.fresh \cup (DOMAIN known \ DOMAIN c.known)
        missing == {f \in Paths(c.pkg, c.ver) : Physical(known, f) \notin DOMAIN disk}
    IN
    IF /\ PlacementCheck(known, fresh, c.pkg, c.ver)
       /\ \A f \in Paths(c.pkg, c.ver) : ~ InTheWay(c, known, f)
    THEN /\ Becomes(r, [c EXCEPT !.pc = "save", !.known = known, !.fresh = fresh,
                                 !.todo = missing])
         /\ UNCHANGED lock
    ELSE Ends(r)

Install(r) ==
    LET c == cmd[r]
        resumes == c.pkg \in DOMAIN c.known
    IN
    /\ c.pc = "install"
    /\ IF db[c.pkg] # 0 THEN Ends(r)
       ELSE IF c.at = Nothing THEN Apply(r, c.known)
       ELSE IF resumes
            THEN IF c.pkg \in c.fresh /\ c.known[c.pkg].parent = Resolve(c.at)
                 THEN Apply(r, c.known) ELSE Ends(r)
       ELSE IF Prepare(c) THEN Apply(r, [q \in DOMAIN c.known \cup {c.pkg} |->
                                           IF q = c.pkg THEN Placed(c) ELSE c.known[q]])
       ELSE Ends(r)
    /\ UNCHANGED <<disk, linked, db, record, spent>>

Upgrade(r) ==
    /\ cmd[r].pc = "upgrade"
    /\ IF db[cmd[r].pkg] \in {0, cmd[r].ver} THEN Ends(r) ELSE Apply(r, cmd[r].known)
    /\ UNCHANGED <<disk, linked, db, record, spent>>

(* A destination never filled is recorded before the first file goes in. *)
Save(r) ==
    LET c == cmd[r] IN
    /\ c.pc = "save"
    /\ record' = IF c.pkg \in DOMAIN c.known /\ c.pkg \in c.fresh
                 THEN [q \in DOMAIN record \cup {c.pkg} |->
                         IF q = c.pkg THEN c.known[q] ELSE record[q]]
                 ELSE record
    /\ Becomes(r, [c EXCEPT !.pc = "place"])
    /\ UNCHANGED <<disk, linked, db, lock, spent>>

(* One path after another, in the manifest's order. *)
First(paths) == CHOOSE f \in paths : TRUE

Place(r) ==
    LET c == cmd[r]
        f == First(c.todo)
        x == Physical(c.known, f)
    IN
    /\ c.pc = "place" /\ c.todo # {}
    /\ disk' = [y \in DOMAIN disk \cup {x} |-> IF y = x THEN c.pkg ELSE disk[y]]
    /\ Becomes(r, [c EXCEPT !.todo = c.todo \ {f}])
    /\ UNCHANGED <<linked, db, record, lock, spent>>

(* The old version's files the new one lacks, and a removed package's, go  *)
(* one by one, when they are as it put them.                               *)
Deleting(known, p, paths) ==
    {f \in paths : Physical(known, f) \in DOMAIN disk /\ disk[Physical(known, f)] = p}

EndPlace(r) ==
    LET c == cmd[r] IN
    /\ c.pc = "place" /\ c.todo = {}
    /\ Becomes(r, [c EXCEPT !.pc = "drop",
                            !.todo = Deleting(c.known, c.pkg,
                                        Paths(c.pkg, db[c.pkg]) \ Paths(c.pkg, c.ver))])
    /\ UNCHANGED <<disk, linked, db, record, lock, spent>>

Delete(r) ==
    LET c == cmd[r]
        f == First(c.todo)
        x == Physical(c.known, f)
    IN
    /\ c.pc \in {"drop", "delete"} /\ c.todo # {}
    /\ disk' = IF x \in DOMAIN disk /\ disk[x] = c.pkg
               THEN [y \in DOMAIN disk \ {x} |-> disk[y]] ELSE disk
    /\ Becomes(r, [c EXCEPT !.todo = c.todo \ {f}])
    /\ UNCHANGED <<linked, db, record, lock, spent>>

Commit(r) ==
    LET c == cmd[r] IN
    /\ c.pc = "drop" /\ c.todo = {}
    /\ db' = [db EXCEPT ![c.pkg] = c.ver]
    /\ Ends(r)
    /\ UNCHANGED <<disk, linked, record, spent>>

(* REMOVE: the files, the database entry, then the placement record. *)
RemovePackage(r) ==
    LET c == cmd[r] IN
    /\ c.pc = "remove"
    /\ IF db[c.pkg] # 0 /\ PlacementCheck(c.known, c.fresh, c.pkg, db[c.pkg])
       THEN /\ Becomes(r, [c EXCEPT !.pc = "delete",
                                    !.todo = Deleting(c.known, c.pkg, Paths(c.pkg, db[c.pkg]))])
            /\ UNCHANGED lock
       ELSE Ends(r)
    /\ UNCHANGED <<disk, linked, db, record, spent>>

Unlist(r) ==
    LET c == cmd[r] IN
    /\ c.pc = "delete" /\ c.todo = {}
    /\ db' = [db EXCEPT ![c.pkg] = 0]
    /\ Becomes(r, [c EXCEPT !.pc = "forget"])
    /\ UNCHANGED <<disk, linked, record, lock, spent>>

Forget(r) ==
    /\ cmd[r].pc = "forget"
    /\ record' = [q \in DOMAIN record \ {cmd[r].pkg} |-> record[q]]
    /\ Ends(r)
    /\ UNCHANGED <<disk, linked, db, spent>>

(* A command is cut: what it wrote stays. *)
Cut(r) ==
    /\ cmd[r].pc # "idle" /\ spent.cuts < MaxCuts
    /\ spent' = [spent EXCEPT !.cuts = @ + 1]
    /\ Ends(r)
    /\ UNCHANGED <<disk, linked, db, record>>

(* A person makes the alias a link where no drawer is, or takes it away. *)
Relink ==
    /\ spent.links < MaxLinks
    /\ ~ linked => ~ Exists(Alias)
    /\ linked' = ~ linked
    /\ spent' = [spent EXCEPT !.links = @ + 1]
    /\ cmd' = [r \in Run |-> IF cmd[r].pc = "idle" THEN Idle ELSE [cmd[r] EXCEPT !.stale = TRUE]]
    /\ UNCHANGED <<disk, db, record, lock>>

PlacementNext ==
    \/ \E r \in Run :
         \/ \E verb \in {"install", "upgrade", "remove"}, p \in Package, v \in Version,
               at \in Targets \cup {Nothing} : Load(r, verb, p, v, at)
         \/ Lock(r) \/ Install(r) \/ Upgrade(r) \/ Save(r) \/ Place(r) \/ EndPlace(r)
         \/ Delete(r) \/ Commit(r) \/ RemovePackage(r) \/ Unlist(r) \/ Forget(r) \/ Cut(r)
    \/ Relink

PlacementSpec == PlacementInit /\ [][PlacementNext]_placementVars

----------------------------------------------------------------------------
(* "Every logical prefix remains exclusive in this root" (placement_prepare):  *)
(* what a command places is in no drawer recorded for another package, and *)
(* a package it records as installed is where the records say.             *)
Apart(r) ==
    /\ \A x \in DOMAIN disk' \ DOMAIN disk : \A q \in DOMAIN record \ {cmd[r].pkg} :
         ~ IsPrefix(Drawer(record[q]), x)
    /\ \A p \in Package : db'[p] \notin {0, db[p]} =>
         \A f \in Paths(p, db'[p]) :
            /\ Physical(record, f) \in DOMAIN disk /\ disk[Physical(record, f)] = p
            /\ \A q \in DOMAIN record \ {p} : ~ IsPrefix(record[q].prefix, f)

(* While what the command read and looked at before the lock is so under   *)
(* it, and no person moved the link since.                                 *)
PlacedApart == [][\A r \in Run : lock = r /\ ~ cmd[r].stale => Apart(r)]_placementVars

(* Whatever the command had read. *)
PlacesExclusive ==
    [][\A r \in Run : lock = r /\ ~ linked /\ ~ linked' => Apart(r)]_placementVars
=============================================================================
