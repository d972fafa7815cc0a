----------------------------- MODULE MCRootLock -----------------------------
(***************************************************************************)
(* RootLock with three runs of pkg on one root: one that lets the lock go, *)
(* one that finds its file removed, one that makes the next.  Three inode  *)
(* numbers are as many as can be open or linked when a fourth is wanted.   *)
(***************************************************************************)
EXTENDS RootLock
=============================================================================
