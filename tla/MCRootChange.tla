---------------------------- MODULE MCRootChange ----------------------------
(***************************************************************************)
(* RootChange on small roots.  One package "app" with three versions, and  *)
(* a second one, "lib", that ships a path of its own choosing.  Path 1 is  *)
(* shipped by every version of app and changes in each; path 2 is dropped  *)
(* by version 2 and comes back in version 3 as configuration.  Version 3   *)
(* is signed by another key.                                               *)
(***************************************************************************)
EXTENDS RootChange, TLC

CONSTANTS
    MaxAside,   \* how many paths may have a .pkgold beside them
    MaxEdited,  \* how many may hold a person's bytes
    MaxRaced    \* how many a person touches while a command runs

Row(a, b) == [f \in Path |-> IF f = 1 THEN a ELSE b]

(* Every version ships path 1, and version 3 a configuration at path 2.    *)
OneShips ==
    "app" :> [v \in Version |->
                <<Row("a", "a"), Row("b", Missing), Row("c", "b")>>[v]]
OneConfig == [p \in Package |-> [v \in Version |-> IF v = 3 THEN {2} ELSE {}]]
OneSigner == [p \in Package |-> [v \in Version |-> IF v = 3 THEN "k2" ELSE "k1"]]

(* Two packages: both ship path 2 with the same bytes, path 1 with others. *)
TwoShips ==
    [p \in Package |-> [v \in Version |->
        IF p = "app" THEN <<Row("a", Missing), Row("b", "l")>>[v]
                     ELSE <<Row(Missing, "l"), Row("m", "l")>>[v]]]
NoConfig == [p \in Package |-> [v \in Version |-> {}]]
OneKey == [p \in Package |-> [v \in Version |-> "k1"]]

(* An empty root, and one that holds the first version's own bytes.        *)
Disks ==
    {[f \in Path |-> Missing], [f \in Path |-> IF f = 1 THEN "a" ELSE Missing]}

(* The versions of a package come out in order, and a command has TAKEOVER *)
(* or ACCEPTKEY: the one decides what the inspection refuses, the other    *)
(* what the pin does.                                                      *)
Bounded ==
    /\ ~(cmd.takeover /\ cmd.accept)
    /\ ~(cut.takeover /\ cut.accept)
    /\ Cardinality({f \in Path : pkgold[f] # Missing}) <= MaxAside
    /\ Cardinality({f \in Path : Edited(f)}) <= MaxEdited
    /\ Cardinality(raced) <= MaxRaced
    /\ \A p \in Package : offered[p] = {v \in Version : v <= Cardinality(offered[p])}

(* A command without VERSION does what one that names the highest version  *)
(* does: where nothing asks which of them it was, one is enough.           *)
Named == pc = "idle" \/ cmd.named
=============================================================================
