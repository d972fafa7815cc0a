------------------------------ MODULE Channel ------------------------------
(***************************************************************************)
(* What a channel on a portal promises to those who read it: an index      *)
(* line's files are there before the line and for as long as it is; a file *)
(* that a line may name never gets other bytes; a line goes only when a    *)
(* maintainer takes it off, and its files only after it.                   *)
(***************************************************************************)
CONSTANTS
    Lines,        \* index lines: a name, a version, an architecture, a digest
    Files,        \* paths whose content never changes once published
    Contents,     \* what a path may hold
    None,         \* nothing at a path
    FilesOf       \* the paths an index line needs, by line

VARIABLES
    shown,        \* the lines of the index
    bytes         \* what a reader of each path gets

TypeOK == shown \subseteq Lines /\ bytes \in [Files -> Contents \cup {None}]

Init == shown = {} /\ bytes = [f \in Files |-> None]

(* A file appears, with bytes it keeps. *)
Upload(f, c) ==
    /\ bytes[f] = None
    /\ bytes' = [bytes EXCEPT ![f] = c]
    /\ UNCHANGED shown

(* Lines appear whose files are all there. *)
Show(L) ==
    /\ \A l \in L : \A f \in FilesOf[l] : bytes[f] # None
    /\ shown' = shown \cup L
    /\ UNCHANGED bytes

(* A maintainer takes lines off the index. *)
Hide(L) ==
    /\ L \subseteq shown
    /\ shown' = shown \ L
    /\ UNCHANGED bytes

(* A file no line needs is taken away. *)
Clear(f) ==
    /\ \A l \in shown : f \notin FilesOf[l]
    /\ bytes' = [bytes EXCEPT ![f] = None]
    /\ UNCHANGED shown

Next ==
    \/ \E f \in Files : Clear(f) \/ \E c \in Contents : Upload(f, c)
    \/ \E L \in SUBSET Lines : Show(L) \/ Hide(L)

Spec == Init /\ [][Next]_<<shown, bytes>>

-----------------------------------------------------------------------------
(* What a reader may count on (PushService.cs:363, "a reader never sees an *)
(* index line whose files are missing").  A line it sees has its files.    *)
Needed == UNION {FilesOf[l] : l \in shown}
Served == \A f \in Needed : bytes[f] # None

(* And a file such a line names keeps its bytes while the line is there,   *)
(* so that what was read before and what is read after belong together.    *)
Kept == [][\A f \in Needed \cap Needed' : bytes'[f] = bytes[f]]_<<shown, bytes>>
=============================================================================
