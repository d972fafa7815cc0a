------------------------------ MODULE Register ------------------------------
(***************************************************************************)
(* What one record of a root promises, the file .pkg/db/<name> for one: it *)
(* holds a value or nothing, one change of it is under way at a time, and  *)
(* a write takes effect at one instant or not at all.  A write may leave   *)
(* the value it replaced behind it, and a removal that is cut or fails may *)
(* bring that one back.                                                    *)
(***************************************************************************)
CONSTANTS
    Value,      \* what the record may hold
    Absent,     \* the record is not there
    NoChange    \* no change of it is under way

VARIABLES
    value,      \* what the record holds
    old,        \* a value it held that was left behind
    pending     \* what the change under way makes of it

vars == <<value, old, pending>>

Init == value \in Value \cup {Absent} /\ old = Absent /\ pending = NoChange

Begin ==
    /\ pending = NoChange
    /\ pending' \in Value \cup {Absent}
    /\ UNCHANGED <<value, old>>

(* What the record may hold after a step of the change under way. *)
Outcome == {value, pending} \cup (IF pending = Absent THEN {old} ELSE {})

(* A step of the change: it has no effect yet, or takes effect, and goes   *)
(* on, or ends: done, failed or cut.                                       *)
Change ==
    /\ pending # NoChange
    /\ value' \in Outcome
    /\ old' \in {old, value, Absent}
    /\ pending' \in {pending, NoChange}

Next == Begin \/ Change

Spec == Init /\ [][Next]_vars
=============================================================================
