# Verification of pkg

pkg is a package manager for AROS that also runs on POSIX hosts and Windows:
a C library and command (`src/src/pkg_*.c`) that installs signed packages
from channels (directories or portals) into roots (AROS volumes, or
directories on a host), and an ASP.NET portal (`src/portal`) that channels
are pushed to. This directory holds TLA+ models of the parts where order,
failure and concurrency matter, the TLC runs that check them on small
instances, and TLAPS proofs that hold for every instance.

All paths below are relative to the repository; `PROJECT.json` maps each
definition to its lines.

## Inventory

| Part | State it keeps | Operations | Works with | What is hard | What makes it correct | Here |
|---|---|---|---|---|---|---|
| Root changes (`pkg_lib_root.c`, `pkg_lib_verbs.c`) | files of a root; `.pkg/db`, `prev`, `keys`, `auto`, `placements` | INSTALL, UPGRADE, ROLLBACK, REPAIR, REMOVE | channels, lock, record files | a cut at any call, edits by a person, half-placed changes met by other commands | the database never says what the files do not hold; the same command finishes a cut change; edits survive | `RootChange`, proved |
| Dependencies (`plan_one`, `run_plan`, `remove_orphans`) | plan, stack, marks in `.pkg/auto` | planning, placing in order, undo, REMOVE, REMOVE ORPHANS | root changes, channels, trust | failure in the middle and failure of the undo, cycles, a list with an end | the root is closed under Depends; what is told of a failure is so; every command ends | `PlanRun`, proved |
| Record files (`pkg_fs_posix.c`) | a file, its backup | write, unlink, read | every record | no replacing rename on AROS; readers without a lock; cuts | old or new, never neither; reads return what was there | `RecordFile` implements `Register`, proved |
| Root lock (`pkg_fs_posix.c`, `call()`) | `.pkg/lock`, a flock | lock, unlock | every change | the file is removed while held, inode numbers are used again, kills | mutual exclusion; nothing left; never waits | `RootLock` implements `Mutex`, proved |
| Placement (`placement_*`, `call()`) | `.pkg/placements`, drawers outside the root | INSTALL AT, UPGRADE, REMOVE | root changes, lock | records read before the lock; links; cuts | a drawer is one package's | `Placement`, proved |
| Publishing (`cmd_publish`, `republish`, `cmd_withdraw`) | objects, signatures, index, withdrawals of a directory | PUBLISH, its repair, WITHDRAW | reading, push | no lock; a cut before the index; damaged objects; a changed key | the index names only what is there, and a published version is one thing for good | `LocalChannel`, proved |
| Channels, choice and trust (`pkg_lib_channel.c`, `pick`) | index, withdrawals, pinned key, copies in a cache | open, choose, check, take | publishing, planning | channels that disagree; withdrawn versions; requests that fail; stale copies | no withdrawn version and no unexpected key | `Choice`, `Reader`, proved |
| Push (`pkg_lib_push.c`, `portal/…/Push`, `AdminService.cs`, `ArchiveStore.cs`) | staging, plan, parts, two gates, served files | plan, put, commit, expire, take off, put back, move to the store | publishing, readers | lost answers, cut uploads, repeats, expiry, two publishers, restarts | a reader never sees a line without its files; one version, one key | `Push` implements `Channel`, proved |
| Connection (`pkg_fs_posix.c`) | the connections kept open | GET, redirect, reuse, retry | reading, push | servers that hang up or answer twice; framings | what is kept answers the request | `KeptConnection` |
| Archive cache (`locate_archive`, `pkg_archive.c`) | archives and block maps under names by digest | fetch, weigh, read by map, write the map | reading | two commands at once, kills; maps of other files; streams and blocks | no wrong bytes, no copy refused without cause | `Fetch`, proved; `ArchiveMap` |
| Events (`pkg_lib_events.c`) | stack of steps, cancel count, waits | begin, count, total, end, unwind, cancel | every verb | nesting past the stack, retries, taking back | what a listener is told is well-formed and true | `Events` |
| UPGRADE ALL, STATUS, the check for a new version | candidates, order | as named | planning, choice | one refused in the middle; three walks over one index | all that can be is upgraded; the three agree | `UpgradeAll`, `Standing` |
| RESOLVE (`pkg_lib_resolve.c`) | none | find a library, advise | a person | the advice followed may uncover another copy | it ends with the library found | `Resolve` |
| Version order (`pkg_version_cmp`, `PkgVersion.cs`) | none | compare | choice, portal | two implementations of one order | a total order, the same | `Versions` |
| Manifests (`pkg_manifest.c`, `Manifest.cs`) | none | parse, write | all | two readers; attributes by position | one meaning | `Manifest` |
| Builds (`pkg_lib_build.c`, `pkg_pkginfo.c`) | none | BUILD, PUBLISH's inheritance | publishing | five sources of one value | the nearest word wins | `Build` |
| Self update (`pkg_selfupdate.c`) | the executable, a drawer beside it | update, remove | the channel | two runs at once; a kill while replacing; Windows | there is always a program, and a signed one | `SelfUpdate`, proved |
| Portal pages, accounts, catalogue | caches, JSON files | pages, accounts | push | a cache behind its channel | | not modelled |
| Environments and the list of channels (`pkg_environment.c`, `--env`, `cmd_channel`) | two files of environments; `.pkg/channels` of each root | add, remove, default, select; list and unlist a channel | the command line, a person's editor | two commands read, change and replace one file; a file changed between the look and the rename | names, defaults and listings stay well-formed, and no change is made of a file that was not read | `Environments`, proved |
| Containers, images, `.ameta`, `bzip2` | none | parse, unpack | all | malformed input | | not modelled: formats without protocol |
| Activity line, output, arguments | a line of the terminal | draw | events | | | not modelled: presentation |
| SHA-2, Ed25519, TLS | none | | all | | | not modelled: a digest is the content here and a signature its signer |
| Windows and AROS ports | | | | | | not modelled apart from AROS's record files and the Windows half of `SelfUpdate` |

A root is changed by one process at a time, under its lock; inside it, one
verb calls planning, which calls `apply` for each package, which places files
and writes records through the record-file calls. Readers take no lock. So
the models are layered the same way: `RecordFile` justifies that a record is
one variable written in one step elsewhere, `RootLock` that `RootChange` and
`PlanRun` have one command at a time, `RootChange` that `PlanRun` may place
and remove a package in few steps. `Placement` needs the layer below again,
because it reads its records before the lock.

A channel is written by publishers and by a portal, and read by roots.
`LocalChannel` is what PUBLISH makes of a directory; `Push` carries such a
directory to a portal, and implements `Channel`, the promise that whatever
line is shown has its files for as long as it is shown; `Reader` composes
`LocalChannel` with a root that reads it directly or through a portal's list
of withdrawals and a cache, choosing by `Choice`; `Standing` uses `Choice`
for the other verbs that look at the same index.

The hazards, each at its line, with the properties that cover it, are in
`PROJECT.json`.

## Modules

### RootChange: one package's change, file by file

| Variables | In the code |
|---|---|
| `disk`, `pkgnew`, `pkgold` | files of the root as `file_state` tells them apart, and those set beside by upgrades and repairs |
| `db`, `prev`, `pin` | `.pkg/db/<name>`, `.pkg/prev/<name>` (three words), `.pkg/keys/<name>` |
| `offered` | the versions one channel offers |
| `pc`, `cmd`, `todo`, `skip`, `failed` | where `apply_steps`, `repair_steps` or `remove_steps` is |
| `raced`, `was`, `cut` | observers: files a person touched during the change, the version that was there before, the command last cut |

`Install`, `Upgrade`, `Rollback`, `Repair` and `Remove` are the inspection
half of each verb: their guards are its refusals. `Place`, `Drop`,
`RecordPrevious`, `WritePin`, `WriteDatabase`, `SetAside`, `PutBack`,
`Delete`, `Unrecord` and `Forget` are one file-system change each, in the
code's order; `Cut` ends a command anywhere, as `tests/interrupt/cut.c` does
at every rename and unlink, and also stands for a call that failed. A person
writes or deletes any file, at any time; publishers publish.

Staging, unpacking, protection bits, AT placements and the pruning of empty
directories are left out; whether a path's bytes are the right ones is
kept.

### RecordFile, Register: one record, call by call

`pkg_fs_write_atomic`, `pkg_fs_unlink` and `pkg_fs_read` on one path, in
either `build`: with `PKG_BACKUP_RECORDS` (AROS) or without. Every call of
the writer may fail as the code lets it or be the last one. `Register` is
what callers take it for: a write happens at one instant or not at all. It
admits one thing a caller might not expect: a removal that is cut, or whose
second unlink fails, may uncover a backup that an earlier write left behind
(`old`). The comment at `src/pkg_fs_posix.c:592`, "A cut write's backup goes
with the path, or it would come back", does not speak of that case.

### RootLock, Mutex: the lock file

`pkg_fs_lock_root` and `pkg_fs_unlock_root` with `call()` around them, for
any number of processes, system call by system call: `mkdir_one`'s two looks,
`open(O_CREAT)`, `flock`, the comparison of inodes, `unlink` while held,
`rmdir`. Inode numbers are used again when nothing holds them. Kills close
descriptors. `Mutex` is the promise; the refinement maps its holders to those
between the check and the unlink.

### PlanRun: several packages

`plan_one` is recursive in the code and a stack of frames here
(`Ask`, `Meet`, `Descend`, `Return`); `run_plan` is `Place`, `WritePin`,
`WriteDb`, `Mark` per package and `Fail` with `TakeBack` for its undo, which
shares `DeleteFile`, `UnlinkDb`, `Unmark` and `CannotRemove` with REMOVE and
REMOVE ORPHANS, as it shares `remove_files` in the code. A package has one
file, and its bytes are its version. `Closed` is the main invariant.

### Placement: drawers outside the root

`Load` is what `call()` does before it takes the lock: the records are read,
two that overlap are refused, and the destination of the package named is
looked at, and what is installed of it checked against it (`Stands`). Nothing
after the lock looks again; `Lock` notes, for the properties alone, whether the
records and what was looked at are still so (`StillSo`). `Lock`, `Install`, `Upgrade` and `RemovePackage` follow, and then
one record, one path or one file a step (`Save`, `Place`, `Delete`,
`Commit`, `Unlist`, `Forget`), each of which may be the last. A path is a
sequence of names, so that "inside a drawer" and "inside where that drawer
leads" are different questions, as in `placement_check`. A person may make
one drawer of the root a link to a directory outside it (`Alias`, `Elsewhere`,
of which neither the root is in the other) and back.

### LocalChannel, Choice, Reader: from a directory to a root

`LocalChannel` is a channel in a directory. `Publish`, `Republish` and
`Withdraw` read the index and queue their writes in the code's order
(payload, manifest, signature, index); `Put` makes one write and `Stop` cuts
the command before any of them. A manifest stands for its digest, and objects
may be damaged on the disk.

`Choice` is `resolve_arch`, `pick` and its weighing of several channels,
without state. `Reader` puts the two together: a root opens the channel,
from the directory or through a portal whose list of withdrawals is written
by another program, asks for the withdrawals it needs one request at a time
(`Ask`), chooses (`Choose`), and checks manifest, signature and payload
before it installs; with no key pinned yet, the signer must be the one of the
channel's oldest version, as far as that can be read (`Take`). What is fetched stays in the cache. One request
may fail.

### Push, Channel: from a directory to a portal

| Variables | In the code |
|---|---|
| `live`, `url`, `digest`, `index`, `listed`, `keeper` | the files the portal serves, the archives in the store, the index, the list of withdrawals, and who may write the channel's own files |
| `plan`, `staged`, `part` | by publisher: the plan, and the files and parts received under it |
| `gate`, `job` | the channel's gate, and the request the portal handles for each publisher |
| `admin`, `stash`, `lister` | a maintainer's removal or restoration under way, what the last removal took, and the withdrawals the portal saw when it started |
| `local`, `client` | a publisher's directory and the state of its PUSH |

`Request` and `Handle` are the two ends of each request, with a commit as
many steps as it moves files; `Trouble` cuts the portal, the answer or the
client. `SendAway` and `DropLocal` are the archive store; `Maintain` is
taking off and putting back. `Channel` is what readers may count on, and
`ChannelProofs` says what follows from it.

### KeptConnection

A GET from `GetFile` to `Finish`: a kept connection is taken or one is made, the
request written, head and body read, and the connection kept if `Reusable`.
The server's end is part of each connection: what it was asked, what it has
still to send, whether it is up. Heads give a length, chunks or neither, a
redirect or a body of an error; the server may hang up at any point and may
send an answer twice.

### Events

The calls of `pkg_lib_events.c` in any order a verb could make them, between
`OpBegin` and `OpEnd`, past the library's own depth. `BeginStep` and `EndStep`
are `ev_begin` and `ev_end`; what a verb leaves open is ended step by step
(`Close`), by `ev_unwind` or by `call()`. `heard` is a listener that knows the
rules of `docs/events.md` and `include/pkg.h`, one `...Fits` operator for each
event, and notes whether each event kept them. A step may be a later attempt
of work that ended retried any time before in the operation: the step of an
outer piece of work that began anew in between (`ev_bytes` leaves `retried`
alone) does not make it a first attempt again.

### SelfUpdate, Fetch, Environments

`SelfUpdate` is `pkg_selfupdate.c` on POSIX and on Windows: list, signature
and build fetched one after another from a channel that moves, checked in a
drawer of the run's own, put in place; and the removal. `Fetch` is
`locate_archive` and the block maps: an archive comes from a drawer unpacked
by hand, from the channel, from the cache or from its publisher, is weighed
and read by a map of an earlier read if there is one that fits.
`Environments` is the ENV commands, which read a file of environments, change
what they read and replace the file if its identity is still the one they took
(`Identify`, `CompareId`, `Replace`); the choice of a root by what the two
files say; and the list of channels each root keeps, under no lock; while a
person edits the files.

### Algorithms

Pure operators, each with a reference definition beside it that says what it
is for: `Standing` (what STATUS, the check for a new version and UPGRADE make
of one index), `UpgradeAll` (its order, and what is skipped), `Manifest` (two
readers and the writer), `Versions` (two comparisons), `Resolve` (the search
and the advice), `Build` (what a manifest is made from) and `ArchiveMap` (an
archive read by its map). `ReaderProofs` ends with a theorem about `Standing`,
which reads indexes as `Reader` does; the others are not proved about, and
`Versions` uses recursion. `MCAlgorithms` takes one input a step and composes them with
`SelfUpdate`, `Fetch` and `Environments`, whose own specifications
(`SUSpec`, `FetchSpec`, `EnvSpec`) are what `UpdateProofs` is about.

## Runs

Every passing run finishes its whole state space. Deadlock is checked in
`root`, `root_two`, `record`, `lock` and `plan`, where some command can always
be begun; the others have bounds on commands and faults, and stop when they
are used up.

| Run | What it shows | Bounds, and why they are enough |
|---|---|---|
| `root` | files before records, cut commands resume, edits survive, REPAIR and REMOVE are complete, ROLLBACK goes where it should | one package, three versions (the current, the one rolled back to, one published meanwhile and signed by another key), two paths: one every version ships and changes, one that is dropped and comes back as configuration; one path edited and one set aside at a time; TAKEOVER or ACCEPTKEY, not both |
| `root_two` | another package's file is spared | two packages that ship a path with the same bytes and one with others |
| `record` | a write is old or new, reads return what was there, both builds make a register | three values: old, new, and a stale backup |
| `lock` | exclusion, nothing left, no waiting | three processes and three inode numbers, two tries of the code's eight: one that fails and the last |
| `plan` | closed under Depends, minima, what is told of an undo; a root's trust in a key begins, moves and ends for a reason; every command ends | a chain of three packages in two versions with a missed minimum, a cycle and a change of key; depth 3 of 32, room for 1 name of at least 31, so that the list is full and a name is lost |
| `placement` | while what was read and looked at before the lock still stands, no command places into a drawer kept for another package, by path or by link | three packages, one of them with files in a drawer that lies inside another's; two commands at once of four, one of them cut, one link made |
| `placement_stale` | expected to fail: the same without that condition | two commands, no cut, no link |
| `push` | the portal implements `Channel`; one line for a version and one key for a package, but for what a maintainer put back; the list names the withdrawals; what was received has the planned bytes | two publishers, each with a version of one package, one of whom makes its channel anew with other bytes under the same version; an archive of three pieces sent in parts of two; each fault once, three events in all, so that every pair of them meets |
| `reader` | what the index names is whole; a published version stays and is one thing; where each publish was held to the first version's key, one key, and withdrawals stay and count | two publishers with a key each, two versions, two contents; three commands of publishers and two of the root, four in all; one object damaged, one request failed; a second channel that offers any one version |
| `connection` | a file kept is the whole answer to its own request; every GET ends | two hosts, one slot, three GETs of two hops at most, two faults: a connection has to be lost and found lost again |
| `events` | what a listener hears is well-formed, true and complete | two operations of at most three announced steps, depth 2 of 32: one step too deep; a cancel, a count of one, each way of taking back |
| `algorithms` | the program survives its update; the cache gives no wrong bytes; environments and listings stay well-formed; each algorithm does as its reference | two runs of self update on three versions with a kill, a spoiled file and two refusals; two fetches at once of three with a kill and a move; two commands on environments or listings at once, on two files and two roots, and one edit by a person; every input of the small sets in `MCAlgorithms`: up to three offers in versions up to three, every Depends of three packages in two versions, manifests of up to eight lines of 23 kinds or ten of 9, texts of up to three characters and versions of up to five, two or three places to look in, a build after each build, archives of up to three streams |

`MaxAside`, `MaxEdited` and `MaxRaced` in `MCRootChange` bound how many paths
are set aside, edited, or touched during a change at once; `Named` leaves out
commands without VERSION, which do what one that names the highest does;
`Tries`, `Depth` (also in `Events`), `Slots`, `Hops` and `Room` are the code's
own limits made small; `Part` and `Quota` are sizes made small; `InOrder` is some
order of all paths, where the code takes the order of a directory. Every other
`Max...` counts commands or faults; `Ids` is the number of requests told apart
in `KeptConnection`. The drawers of `reader` and the commands of `placement`
are symmetric, in runs without liveness. The passing runs take between a
second (`record`) and some three minutes (`root`).

`placement_stale` is the one run that ends in a violation: `call()` reads
`.pkg/placements` before it takes the lock and uses it after, so that "Every
logical prefix remains exclusive in this root" (`pkg_lib_root.c:1790`) fails
when another command records a placement in between.

### Other differences

Where the code does other than a document or a comment says, or than a reader
of it would expect. No run is spent on these; where a model has the case, TLC
reaches it when the condition named is dropped from the property.

Changes to a root:

- An UPGRADE without VERSION, cut, goes to a newer version published
  meanwhile when it is given again, finds the files the cut change had placed
  and refuses them as edited (`pkg_lib_verbs.c:1466`,
  `pkg_lib_root.c:2009-2016`); `docs/history.md:266` says "A change cut at any
  point, by a crash, a reset or a killed process, is finished by giving the
  same command again. Nothing else is needed". `CutResumes` is of the command
  that goes to the same version.
- ROLLBACK knows an unfinished change only by the record written after every
  file is placed (`pkg_lib_verbs.c:1553`); over an UPGRADE cut earlier it goes
  ahead and leaves the file in no record. `docs/commands/rollback.md:19` says
  "After an interrupted change, ROLLBACK refuses until that change is
  finished".
- With TAKEOVER a file with other content is replaced whoever lists it
  (`pkg_lib_root.c:1993`); `include/pkg.h:465-466` says "A file another
  package lists stays a refusal: one file has one owner".
- `run_plan` never clears the mark in `.pkg/auto` of the package named, and
  `remove_steps` deletes it last without looking whether it could
  (`pkg_lib_root.c:2543`, `:2271`): a mark of an earlier life makes a package
  installed by name an orphan; `docs/commands/remove.md:27-28` says "Packages
  the person installed explicitly are never orphans".
- The undo deletes every file that has the package's bytes, those that were
  in the root before included (`pkg_lib_root.c:2597`); the comment at
  `:2582-2583` says "so the root is as it was".
- `pkg_fs_read` opens the path, and where that finds nothing looks again and
  then for the backup (`pkg_fs_posix.c:93`): a writer that puts its file in
  place in between, or deletes the backup, makes it return ENOENT for a record
  that was there all along. The comment at `:68` says "every reader sees the
  backup, the last complete content".
- A run that ends may remove `.pkg` between another's `mkdir` and `open`,
  which is then refused with 17 (`pkg_fs_posix.c:1004`, `pkg_lib_api.c:144`);
  `docs/dev-loop.md:154-155` says "refused with 15 and `next: retry-later`".
- REMOVE unlinks `.pkg/db` before `prev`, `placements` and `auto`
  (`pkg_lib_root.c:2521`). Cut in between, the same REMOVE is refused with 11
  and those records stay, where `docs/history.md:266` says that the same
  command finishes it.
- An INSTALL cut between a dependency's record and its mark
  (`pkg_lib_root.c:2621`) does not mark it when it is repeated;
  `docs/history.md:326` says a dependency is marked.
- A package whose files were all there already has `apply_touched` at 0 when
  its key was pinned and its database record failed (`pkg_lib_root.c:2580`):
  nothing is told as incomplete, and the key stays.
- Once the names REMOVE ORPHANS could not remove no longer fit in `failed`
  (`pkg_lib_resolve.c:733`), an orphan is tried again in every pass, without
  end while it keeps failing: `Returns` holds only while no more packages fail
  than there is `Room`.
- A first INSTALL into a root that is no directory yet takes no lock
  (`pkg_lib_api.c:135`); `docs/events.md:249` lists it as a limit.
- VERIFY takes a missing file for one moved by hand, exit 0, when a file of
  the same name and bytes is anywhere else, another package's own included.

Placement:

- A cut REMOVE leaves the placement record (`pkg_lib_root.c:2519-2543`): the
  next INSTALL goes to the old destination and refuses AT another, where
  `docs/placement.md:59` says that moving is to remove and install anew. A cut
  INSTALL AT of a package whose layout changes or whose destination goes
  leaves a reservation that no command removes.
- An UPGRADE looks before the lock only at whether the installed version fits
  its placement (`pkg_lib_api.c:115-117`). One that waits there while REMOVE of
  the same package is cut after its database record, and while an INSTALL that
  had read no placements puts another version into the root, finds the records
  as it read them, and deletes the files of a version it never looked at:
  through a linked drawer these may be the very files it has just taken for
  the new version's.
- A placed drawer deleted by hand makes every command on its package refuse
  with 17, REMOVE included.

Publishing and reading:

- Two PUBLISH at once: the index is read at the start and written whole at
  the end, without a lock, so the second drops the first one's line
  (`pkg_lib_verbs.c:847`); the comment at `pkg_lib_root.c:1316` says a
  published version "stays in the channel, as everything published does".
  Set `Overlap` to TRUE in `Reader.cfg` and `PublishedStays` fails.
- A `.withdrawn` or `.withdrawn.sig` that could not be fetched is taken for
  one that is not there, and INSTALL and UPGRADE do not look at `net_failed`
  (`pkg_lib_root.c:1228`); the comment at `pkg_lib_channel.c:46` says "Absence
  is never read as \"nothing is withdrawn\"". The check for a new version does
  look (`pkg_lib_api.c:290`). `WithdrawnSkipped` excepts such a command.
- `docs/commands/install.md:43` and `:146` say a withdrawn version is installed
  when VERSION names it; `pkg_lib_root.c:2367` refuses.
- The first version's signature missing or damaged, any key publishes without
  ACCEPTKEY (`pkg_lib_verbs.c:693`), and a lower version so published is
  the first one from then on. Repair the damaged one by its own key and the
  channel has versions by two keys, with nothing damaged and no key accepted. A
  repair by the first key signs again what another key signed under ACCEPTKEY,
  and undoes that one's withdrawal; a reader with the other key's signature in
  its cache then finds the withdrawal's key another one and installs the
  version. `OneKey`, `WithdrawnStays` and `WithdrawnSkipped` are of channels
  where each publish was held to the first version's key: `unheld` says that
  one was not.
- A damaged object fetched once stays in the cache after it is repaired; an
  archive under `upstream/` is taken from the cache unchecked; what is kept is
  kept for ever.
- WITHDRAW does not check the text of VERSION (`pkg_lib_root.c:1310-1340`),
  and `pkg_version_cmp` does not end on a character that is no digit, dot or
  plus; the portal's port has a guard for it.
- STATUS picks one entry and UPGRADE's exact version another where two
  channels offer one version and one withdraws it: UPGRADE then refuses what
  STATUS offers (`pkg_lib_status.c:13-14` says it is "choosing as UPGRADE
  chooses"). So it does where no key is pinned, the key's file having gone by
  hand, and an older version in the channel is signed by another key than the
  one offered: that is for the requester (`pkg_lib_root.c:2419-2449`), and
  STATUS looks at the pin alone. `Agree` names that case (`OlderSigner`). The
  check for a
  new version takes every processor for generic, and only INSTALL asks which
  of two processors is meant (`pkg_lib_verbs.c:1200`).
- Where nobody named a processor, the check for a new version compares a
  package for every processor with those alone (`pkg_lib_api.c:247`), and
  UPGRADE with all: if a channel holds a still higher version for one
  processor under another key, the program is told of the update by the pinned
  key and UPGRADE refuses the other. The same directory has to hold one package
  under two keys, which takes an ACCEPTKEY or a hand.
- UPGRADE ALL goes on after a refusal where the comment at
  `pkg_lib_status.c:17` says it "stops at the first refusal"; its DRYRUN may
  refuse as a cycle what the run takes, when a missing dependency leads back;
  it skips a package whose dependency failed although the one installed is
  enough; a cancel stops one package, not the batch.
- CHANGES is added to what `.pkg-info` says (`pkg_lib_build.c:1251`), where
  `docs/commands/publish.md:44` and the comment at `:1362` say the keyword wins, and
  CHANGES "none" is read as a file's name. A configuration file with a comma
  in its path loses its mark when it is inherited; inherited dependencies are
  cut at 1024 bytes and configurations at 4096, without a word.
- An attribute said before the File of a path that is a Content too changes
  hands when the manifest is written again. The portal drops sizes of 2^63 and
  more. An archive name that starts with a dot or has a colon is built and
  then refused by the reader.
- RESOLVE says "is newer and would then be taken" where another usable older
  file lies between; what it offers to install is never held against the
  version asked for.

Push and portal:

- A file sent whole and cut leaves its beginning in `<file>.part`; the next
  PUT, from 0, is answered "partial, received n" (`PushService.cs:176`), PUSH
  takes only "received" or "unchanged" there (`pkg_lib_push.c:378`) and stops
  with 17, every time. The same holds for a file in parts cut between its
  last byte and its move. `portal/README.md:34` says "an interrupted upload
  resumes from there".
- A commit cut between an archive's move and its `.sha256`
  (`PushService.cs:371-376`) never writes that later; a comment in
  `Catalogue.cs` says every published archive has one. Bootstrap, Install-Pkg
  and ReadMe are moved before the index, so a bootstrap can run ahead of its
  package. The first-seen time is written after the index, against "Recorded
  before the catalogue is rebuilt".
- A line put back after another content was pushed under its version stands
  beside the other one: `OneVersion` and `KeyKept` except what was put back.
  Two removals in one second overwrite each other's lines; the list written
  at the portal's start takes no gate and may overwrite a commit's.
- Lines a plan refuses do not stop the client; a commit takes a line whose
  archive is published under the same name with other bytes; the archive
  checker looks at archives newly placed only.

Network, events and self update:

- The client has no timeout; a body without length or chunks that is cut is
  taken as whole, by the push too; a second copy of an answer that arrives
  after the connection was found clean is taken for the next answer.
  `AnswerOwn` excepts these two.
- A build put in place between `stat` and `rename` may put an older one over a
  newer (Windows does not look again); a list fetched before and a build after
  a publisher's move read as damaged; a killed run's drawer stays.
- A run killed between the rename of a download and its digest leaves an
  unchecked archive in the cache, which later commands use and refuse with 12,
  where the comment at `pkg_lib_root.c:393-398` says it is "kept only when its
  size and SHA-256 are the ones signed"; `Fetched` says that it is refused, and
  nothing wrong unpacked. The unlink of one command may delete the good copy
  of another.
- A member that runs past the end of a stream, read from that stream's first
  block, is never served by the block map, although `cross_stream`'s comment
  (`pkg_archive.c:301`) says that such a read carries on: archives of
  one-block streams, as parallel compressors write them, are read whole and
  their map is written again each time. `ReadsAsWalked` allows the map to
  serve nothing.

### Fairness

`RootLock` assumes weak fairness of each process's
own steps: a run of pkg once begun is scheduled and makes its next call; it
assumes nothing about others. `PlanRun` assumes weak fairness of the steps of
the command under way, not of any one of them: a call may fail every time.
`KeptConnection` assumes it of the client's steps and of the sending of what a
server has begun to answer: a server that neither answers nor hangs up is
waited for without end, as the code has no timeout. No
fairness is assumed of beginning a command, of a person, of publishers, of
kills, cuts or hang-ups.

## Proofs

In eight modules, for all values of the constants that satisfy the modules'
`ASSUME`s (which TLC evaluates in the runs): `RootChangeProofs`,
`PlanRunProofs`, `RecordFileProofs` (of `RecordFile` and of `Events`),
`SharedRootProofs` (of `RootLock` and `Placement`), `ReaderProofs` (of
`Reader`, `LocalChannel` and `Standing`), `PushProofs`, `ChannelProofs` (of `Channel` and
`KeptConnection`) and `UpdateProofs` (of `Environments`, `SelfUpdate` and
`Fetch`).

- **RootChange.** Types, and `UnderWay`: while a command runs, every file of
  the version it brings that is not ahead of it is in place, what it will
  overwrite nobody has edited, what it will delete is no file of the new
  version, records already written name the versions they should, the key is
  the one checked. It is needed because each property looks at one late step
  (the database write) and depends on what all the earlier ones did. From it:
  `Committed`, `RecordsFirst`, `KeyAccepted`, and, with what REPAIR has left
  damaged so far (`MendInv`), `EditSurvives`, `OthersSpared` and `DoneAsSaid`.
  `RollbackTruth` and `CutResumes` relate a chain of cut changes to the record
  each left, and need `HistoryInv`: what `.pkg/prev` says of a package is of
  the version installed, or of one that never came to be and then of the
  version before (`History`); a command under way would choose the same
  version if it were given again (`Goal`) and no file is in its way
  (`MeetsAll`), half-placed as they are (`AgainInv`); so would and is the one
  last cut, for as long as no person came between (`CutInv`).
- **RecordFile.** `WriterInv` (what each call of the writer knows of file
  and backup) and `ReaderInv` (a reader past its first look has had the
  stored value and the backup in its interval) give `ReadsWhatWasThere` and
  the refinement of `Register`, in both builds.
- **Events.** Every open step and what was heard of it agree in all but the
  counter, which may be ahead (`Alike`), a total once wrong is unknown
  (`Sound`), steps name the one below them, and what the library remembers of
  a retried step and of taking back is among what was heard (`Follows`,
  `Worst`). Each of the four ways an event changes the stack keeps this
  (`EvCounted`, `EvSilent`, `EvBegun`, `EvEnded`), for a stack of any depth:
  `RulesKept`. `ev_bytes` is three of them in a row, by way of a state in
  which the listener knows of the end and the library has not noted it.

  The first listener was too strict, and the attempt at a proof showed it: it
  took every attempt but the first to follow its predecessor's end at once,
  which four announced steps of two works refute and the documents do not
  say. The run announces three; the theorem has no such bound.
- **RootLock.** A flock is held through an open descriptor; who is past the
  check holds the inode that `.pkg/lock` names (`Held`); who has unlinked it
  does not name it again (`Orphaned`); someone will remove the file or the
  directory (`Remover`, `Emptier`). Together they give `NothingLeft` and the
  refinement of `Mutex`.
- **Placement.** `PlacedApart` looks at two steps, a file put in place and a
  version recorded, and depends on all before them, for one reason: an upgrade
  deletes the old version's files after it has placed the new one's, and a
  path may be reached by two ways. So the heart of it is about places:
  where a version fits the records (`Fitting`), two of its paths, or one of it
  and one of the old version, are at two places (`PlacesDiffer`), both in the
  root, both where the alias leads, or both in the package's drawer, and never
  one in each. It rests on lemmas about paths (`PrefixesMeet`, `RestTells`),
  on a record's drawer being outside the root, where no alias reaches it
  (`PlacedStays`), and on `Common` being a path at all, which takes the
  longest of a set (`LeastOf`). `PlacementInv` says that only the lock's
  holder has a step to take and, unless it is stale, that it works from the
  root's records, or from these and its own to be saved (`Knows`), that what
  it brings and what is installed fit them (`Fits`), and that each of its
  files is there or still to be placed, while what it deletes is of the old
  version alone (`Puts`).

  The attempt changed the property. Its hypothesis was that the records are
  under the lock as they were read; that was not to be proved, because nothing
  checks there that the installed version fits them. TLC on three commands at
  once and five in all then showed it wrong, as told under Other differences.
  The hypothesis is now that all of what was looked at before the lock stands
  under it.
- **PlanRun.** While planning, what is on the stack or in the plan is new and
  there once (`Fresh`), and what an entry or a frame needs is installed or
  planned before it (`EntriesReady`, `FramesReady`). When the last frame
  returns this becomes what `run_plan` and its undo live on: an entry's needs
  are before it or outside the plan (`Earlier`), what is recorded is exactly
  what was placed and not taken back (`Progress`), and nothing outside needs
  what the plan brings (`Apart`), so that deleting one entry's record never
  takes a need away. From it: `TypeOK`, `Closed`, `NeedsMet` and, with
  `KeysAsked`, `TrustChanges`, for every set of packages and every `Needs`,
  cyclic ones included. What `TrustChanges` rests on for the undo is
  `Remembered`: of each package `run_plan` has come to, `had_pin` says whether
  the root had a key for it when the plan began. `RestoreTold` compares with the root the plan began
  with, and needs `Tracked`: forward, what `run_plan` has not come to is
  untouched; the files of what it has placed have the plan's bytes; `had_pin`
  tells which of its packages had a key; back, what the undo has passed is as
  it was, for as long as nothing failed to be undone.
- **LocalChannel and Reader.** `Serving`: what a version needs is there before
  its line, in the index and in the copy of the index of each command under way
  (`There`), and of a version about to be listed so much of it as its writes
  have passed (`Written`). It holds for any number of commands at once and
  gives `ServedWhole`. The other properties need one command at a time, the
  hypothesis `~Overlap`, which is what the publishers have to see to (two at
  once lose lines, see above): then the command's copy of the index is the
  index, and a version is one manifest (`Sole`), from which `PublishedStays`;
  one key signs all that can be read, on the disk and in the reader's cache
  (`Keyed`), unless a publish was not held to it, from which `OneKey` and
  `WithdrawnStays`; and of a version withdrawn before the command began, the
  root's command knows that it is, or cannot take it (`Barred`), from which
  `WithdrawnSkipped`.

  These proofs changed the model's properties: `OneKey` and `WithdrawnSkipped`
  used to except only damaged signatures, and were not to be proved. TLC on
  four and five commands of publishers then showed both wrong, by the repair
  told under Publishing and reading, which the run's bounds do not reach. In
  the form proved they hold on those larger instances too.
- **Standing.** `Agree` for an index of any length. No invariant here: the
  three walks are unfolded once. A channel's answer is a highest of its offers
  (`BestOfferIs`; that there is one is an induction over places,
  `SomeHighest`), the choice is one of the answers and no lower than any with
  the pinned key (`PickIs`, `Choosing`), and UPGRADE's second look, for the
  version chosen, finds it again, not withdrawn and with the same key
  (`SecondLook`), which is what `OneBuild` is for. Where it refuses a first
  signer, the channel's oldest is another entry than the one chosen (`OldestIs`),
  so a strictly older version, by `OneBuild` again. TLC checks the same formula
  for up to three offers.

  `Agree` used to promise a program told of an update that UPGRADE takes it,
  always. That was not to be proved; TLC with a third version, instead of two,
  then showed the case told under Publishing and reading.
- **Channel.** From its types and `Served` itself, which is inductive:
  whatever is shown has its files, and they keep their bytes while it is
  shown.
- **KeptConnection.** The client reads what comes and cannot tell whose it is.
  `Follows` says what comes: after a request sent where nothing was under way,
  what lies in the buffer, then on the wire, then at the server is, in that
  order, the rest of one answer to it, and all of the rest while the server is
  up; or half a head, of which nothing else was read. An answer that says
  goodbye is followed by nothing, which is what makes a body without framing
  end with its own. `AnsweredBy` adds that what was read is that answer's
  beginning. Every framing then stops the client at the answer's end
  (`WholeIsTheAnswers`) and not before it (`AnswerGoesOn`): `AnswerOwn`. The
  steps of the servers and of the client are told apart by lemmas about three
  sequences laid end to end (`SentFollows` to `TakenFollows`).
- **Push.** `Serving`: the gate has one holder and only while a request is
  handled, staged files have the bytes of the plan, what is shown has its
  files, what a removal took is what a restoration puts back, and a commit
  that still has to write the index will have placed, or is about to, every
  file of its lines (`Promised`). `StagedAsPlanned` is a part of it. The order of a commit's moves is a sequence
  of any length, so the invariant speaks of what is still ahead of the index in
  it. From it `ServesAChannel`: every step of `Push` is one of `Channel` or
  none. With `Agreed`, that the lines about to be shown are new versions by
  the package's key, `OneVersion` and `KeyKept`; with `Listed`, that a commit
  which moves a withdrawal writes the list later, `WithdrawalsListed`.
  `KeyKept` was wrong before the attempt: it excepted a line that was put
  back, but put back the first line, remove the one by the other key, and a
  third version by the first key is taken beside a second by the other. It
  excepts the package now.
- **Environments, SelfUpdate, Fetch.** A command knows the identity of the file
  it read or of one before, and what it will write is made of the file that
  has that identity (`EnvInv`): `Registered`. At each point of a run of self
  update, which copies its drawer has, and whose executable may be missing
  (`SUInv`): `Survives`. What is kept in the cache under a digest is what was
  signed, or is found out before it is unpacked (`KeptAsSigned`, `Judged`):
  `Fetched`.

`TypeOK` of `RootChange`, `PlanRun` and `RootLock`, and `RecordsFirst` and
`KeyAccepted`, are proved and not checked by a run any more.

Only model-checked:

- the three liveness properties (`Returns` twice and `GetEnds`), which the
  prover cannot do;
- the comparisons in `MCAlgorithms`, each of an algorithm with its reference
  over bounded inputs, but `StandingsAgree`, whose `Agree` is proved: most are
  of recursive or folded definitions, whose values for every input the prover
  cannot reach.

## Not modelled

- Pages, accounts and search of the portal, and the catalogue's cache:
  presentation over what the push wrote, in one process. Its one race: a
  catalogue built while a withdrawal is committed, and stored after
  `Invalidate`, shows the version until the index changes again.
- Signed push sessions: a counter, a number of sessions and a time, all lost
  at a restart, after which the next PUSH asks for a session of its own.
- INSTALL of several names (`install_many`): one `plan` after another, each
  tried whatever became of those before it.
- A manifest's keys for other systems, and its limits of 400 lines of one key and
  16 tags. The limit of nine digits for a part of a version is in `Versions`,
  but the texts the run makes are too short to meet it. `ArchiveMap` lets a
  member cross streams wherever the code may, and so serves no less than it.
- Formats (archives' headers, containers, images, bzip2, `.ameta`,
  `.pkg-info`), cryptography, output, arguments, the Windows and AROS ports:
  no protocol, or calls of a system.

## Plan

What is left: the block allocation of volume images, and INSTALL of several
names.
