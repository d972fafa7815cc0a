------------------------------ MODULE Resolve --------------------------------
(***************************************************************************)
(* RESOLVE <library>: the loader's walk over the places it looks in, what  *)
(* it finds at each, where it stops, and what the person is told to do.    *)
(* A file is what the loader makes of it (state) and its version, 0 where  *)
(* none can be read; a version asked for is 0 where none is.               *)
(***************************************************************************)
EXTENDS Naturals, Sequences, FiniteSets, SequencesExt

CONSTANTS Nothing

(* The places looked in, in the loader's order, each once: the path given, *)
(* or the program's directory and its libs/, then the list of              *)
(* PKG_LIBS_PATH (of libraries only), else what stands for LIBS: or DEVS:  *)
(* in the root.  A place is the sequence of its directories.               *)
CandAdd(c, place) == IF Contains(c, place) THEN c ELSE Append(c, place)

Places(q) ==
    LET sub == IF q.device THEN "devs" ELSE "libs"
        beside == IF q.from = Nothing THEN <<>> ELSE <<q.from, Append(q.from, sub)>>
        system == CASE q.libs # Nothing /\ ~ q.device -> q.libs
                    [] q.libs = Nothing /\ ~ q.device -> <<<<"Libs">>, <<"Classes">>>>
                    [] OTHER -> <<<<"Devs">>>>
    IN IF q.given # Nothing THEN <<q.given>> ELSE FoldLeft(CandAdd, <<>>, beside \o system)

----------------------------------------------------------------------------
Usable(f) == f.state = "ok" /\ f.ver # 0

TooOld(ver, want) == want # 0 /\ ver # 0 /\ ver < want

(* The walk: files that are no library for this machine are passed over;   *)
(* one that is the other of library and device is taken, and fails; so is  *)
(* one too old.                                                            *)
Taken(file) == SelectInSeq(file, LAMBDA f : f.state \in {"wrong type", "ok"})

(* The version asked for is itself too old.                                *)
FailsEqual(file, want) ==
    LET t == file[Taken(file)]
    IN t.state = "wrong type" \/ (want # 0 /\ t.ver # 0 /\ t.ver <= want)

Fails(file, want) ==
    LET t == file[Taken(file)] IN t.state = "wrong type" \/ TooOld(t.ver, want)

After(file, at, new(_)) ==
    LET those == {k \in (at + 1)..Len(file) : Usable(file[k]) /\ new(file[k].ver)}
    IN IF those = {} THEN 0 ELSE CHOOSE k \in those : \A j \in those : k <= j

(* A copy taken hides the first newer one further on, asked for or not.    *)
Shadows(file, want) ==
    LET t == Taken(file)
    IN IF Fails(file, want) \/ file[t].ver = 0 THEN 0
       ELSE After(file, t, LAMBDA ver : ver > file[t].ver)

(* The first file after the one taken that has the version asked for.      *)
Better(file, want) ==
    IF want = 0 THEN 0 ELSE After(file, Taken(file), LAMBDA ver : ver >= want)

(* What each row says to do.  offer: a package of the channel provides it. *)
WalkNext(file, want, offer) ==
    LET t == Taken(file)
        passed(i) == t = 0 \/ i < t
        say(i) ==
            CASE passed(i) /\ file[i].state \in {"not executable", "wrong cpu", "no resident"} ->
                   "remove"
              [] i = t /\ file[i].state = "wrong type" -> "remove"
              [] i = t /\ file[i].state = "ok" ->
                   IF Shadows(file, want) # 0 THEN "remove"
                   ELSE IF ~ Fails(file, want) THEN "nothing"
                   ELSE IF Better(file, want) # 0 THEN "remove"
                   ELSE IF offer THEN "install" ELSE "replace"
              [] t = 0 /\ i = Len(file) -> "install"
              [] OTHER -> "nothing"
    IN [i \in DOMAIN file |-> say(i)]

(* The copy in memory is what every program gets; too old, it is flushed   *)
(* where a file would then do.                                             *)
LoadedNext(file, want, loaded) ==
    LET newer == SelectInSeq(file, LAMBDA f : Usable(f) /\ f.ver >= want)
    IN [i \in DOMAIN file |-> IF TooOld(loaded, want) /\ i = newer THEN "flush" ELSE "nothing"]

ResolveOne(file, want, loaded, offer) ==
    IF loaded # 0
    THEN [rc |-> IF TooOld(loaded, want) THEN 18 ELSE 0, taken |-> 0,
          next |-> LoadedNext(file, want, loaded)]
    ELSE [rc |-> IF Taken(file) = 0 THEN 11 ELSE IF Fails(file, want) THEN 18 ELSE 0,
          taken |-> Taken(file), next |-> WalkNext(file, want, offer)]

----------------------------------------------------------------------------
(* The person follows one row's advice after the other, asking anew each   *)
(* time, in any order, until no row says to remove a file or to flush.     *)
Files(q, disk) == LET places == Places(q) IN [i \in DOMAIN places |-> disk[places[i]]]

RECURSIVE Ends(_, _, _, _, _)
Ends(q, disk, want, loaded, offer) ==
    LET file == Files(q, disk)
        r == ResolveOne(file, want, loaded, offer)
        steps == {i \in DOMAIN file : r.next[i] \in {"remove", "flush"}}
        gone(i) == [disk EXCEPT ![Places(q)[i]] = [state |-> "no file", ver |-> 0]]
        after(i) == IF r.next[i] = "flush" THEN Ends(q, disk, want, 0, offer)
                    ELSE Ends(q, gone(i), want, loaded, offer)
    IN IF steps = {} THEN {[file |-> file, r |-> r]} ELSE UNION {after(i) : i \in steps}

(* The advice leads there.  Where one of the places holds the library, of  *)
(* a version that does, whoever follows what RESOLVE says ends with it     *)
(* found, in any order, without removing the last copy that does; where    *)
(* none does, and memory has none, it ends by saying what to install or    *)
(* copy, and where.                                                        *)
AdviceLeads(q, disk, want, loaded, offer) ==
    LET does(f) == Usable(f) /\ (want = 0 \/ f.ver >= want)
        some(file) == \E i \in DOMAIN file : does(file[i])
    IN \A end \in Ends(q, disk, want, loaded, offer) :
         IF some(Files(q, disk))
         THEN /\ end.r.rc = 0 /\ some(end.file)
              /\ end.r.taken # 0 => LET f == end.file[end.r.taken] IN f.ver = 0 \/ does(f)
         ELSE loaded = 0 =>
              IF end.r.rc = 0 THEN end.file[end.r.taken].ver = 0
              ELSE \E i \in DOMAIN end.file : end.r.next[i] \in {"install", "replace"}
=============================================================================
