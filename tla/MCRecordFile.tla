---------------------------- MODULE MCRecordFile ----------------------------
(***************************************************************************)
(* RecordFile with three values: what was there, a change of it, and one   *)
(* more, to tell an older content from the last.  Nothing else is bounded. *)
(***************************************************************************)
EXTENDS RecordFile
=============================================================================
