------------------------------- MODULE Mutex --------------------------------
(***************************************************************************)
(* What the root's lock promises: one command at a time holds it, and what *)
(* ends one, a kill too, lets it go.                                       *)
(***************************************************************************)
CONSTANT Process    \* the runs of pkg on one root

VARIABLE holders    \* those that may change the root now

Init == holders = {}

Acquire(p) == holders = {} /\ holders' = {p}

Release(p) == holders = {p} /\ holders' = {}

Next == \E p \in Process : Acquire(p) \/ Release(p)

Spec == Init /\ [][Next]_holders
=============================================================================
