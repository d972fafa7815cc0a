----------------------------- MODULE MCPlanRun ------------------------------
(***************************************************************************)
(* PlanRun with an application, its library and what the library needs.    *)
(* app 1 needs lib, app 2 needs lib 2, lib 2 needs base, and base 2 needs  *)
(* app: a chain three deep, a minimum that an installed version misses, an *)
(* upgrade that brings a package, and a cycle.  lib 2 is signed by another *)
(* key than lib 1.                                                         *)
(***************************************************************************)
EXTENDS PlanRun, TLC

N(p, v) == [name |-> p, min |-> v]

MCNeeds == ("app" :> (1 :> {N("lib", 1)} @@ 2 :> {N("lib", 2)}))
        @@ ("lib" :> (1 :> {} @@ 2 :> {N("base", 1)}))
        @@ ("base" :> (1 :> {} @@ 2 :> {N("app", 1)}))

MCSigner == [p \in Package |-> [v \in Version |-> IF p = "lib" /\ v = 2 THEN "k2" ELSE "k1"]]

(* A root where lib 1's own bytes are though nothing is installed; one     *)
(* with none of them is reached from it, by an INSTALL taken back.         *)
MCDisk == {[p \in Package |-> IF p = "lib" THEN 1 ELSE None]}

(* lib 2, with its other key, and base 2 are published later. *)
MCOffered == {[p \in Package |-> IF p = "app" THEN Version ELSE {1}]}

(* No key named, the changed key accepted, or the publisher's named. *)
MCGiven == {<<NoKey, NoKey>>, <<NoKey, "k2">>, <<"k1", NoKey>>}

=============================================================================
