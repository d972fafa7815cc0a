----------------------------- MODULE ArchiveMap -----------------------------
(***************************************************************************)
(* An archive of bzip2 streams, one after another, each a chain of blocks, *)
(* read whole or by the map of its block starts that the first walk over   *)
(* it writes (pkg_archive.c).                                              *)
(*                                                                         *)
(* An archive is its streams, each the lengths of its blocks once          *)
(* unpacked; a member is where its bytes begin there and how many they     *)
(* are.  The bytes delivered are told by where they are.  A block start    *)
(* that lies across two fills of the buffer is not noticed.  Left out: tar *)
(* headers, damaged data, and a file that is no bzip2, which has no map.   *)
(***************************************************************************)
EXTENDS Naturals, Sequences, SequencesExt, TLC

CONSTANTS Ahead,   \* how far a read runs on rather than restart
          Failed

LOCAL Length(s) == FoldSeq(LAMBDA x, y : x + y, 0, s)

Begin(a, s) == Length(FlattenSeq(SubSeq(a, 1, s - 1)))
End(a, s) == Begin(a, s + 1)

(* The walk gives every member its bytes.                                  *)
WalkMap(members) == [m \in members |-> <<m.at, m.at + m.size>>]

(* The map's lines: where a block is in the file, and how many bytes came  *)
(* out before it.                                                          *)
BlockLate(a, s, k) ==
    [ustart |-> Begin(a, s) + Length(SubSeq(a[s], 1, k)), stream |-> s, first |-> k = 1]
Block(a, s, k) ==
    [ustart |-> Begin(a, s) + Length(SubSeq(a[s], 1, k - 1)), stream |-> s, first |-> k = 1]

Lines(a, missed) ==
    FlattenSeq([s \in DOMAIN a |->
        LET noticed == SelectSeq([k \in DOMAIN a[s] |-> k], LAMBDA k : <<s, k>> \notin missed)
        IN [i \in DOMAIN noticed |->
               [block |-> Begin(a, s) + Length(SubSeq(a[s], 1, noticed[i] - 1)),
                said |-> Block(a, s, noticed[i])]]])

----------------------------------------------------------------------------
(* A reader: where it is, where it believes it is, the stream it started   *)
(* in, whether at that stream's first block, and whether it went past it.  *)
Closed == [open |-> FALSE, is |-> 0, uout |-> 0, stream |-> 1, first |-> FALSE, past |-> FALSE]

OpenAt(line) ==
    [Closed EXCEPT !.open = TRUE, !.is = line.block, !.uout = line.said.ustart,
                   !.stream = line.said.stream, !.first = line.said.first]

(* A read started at a stream's first block ends with that stream, whose   *)
(* check then matches; one started inside it runs dry, and goes on to the  *)
(* next, as far as the streams the map knows (a).  bzip2 may refuse the    *)
(* stream's end before its input runs dry, and the read then serves        *)
(* nothing; that is left out, and the most is served that may be.          *)
CrossStream(a, r) == ~ r.first /\ ~ r.past /\ r.stream < Len(a)

Get(a, r, n) ==
    LET to == r.is + n
        on == [r EXCEPT !.is = to, !.uout = @ + n]
    IN CASE to <= End(a, r.stream) -> on
         [] to > End(a, r.stream) /\ to <= End(a, Len(a)) /\ r.past -> on
         [] to > End(a, r.stream) /\ to <= End(a, Len(a)) /\ CrossStream(a, r) ->
              [on EXCEPT !.past = TRUE]
         [] OTHER -> Closed

(* On from where it stands when that is near, else from the last block     *)
(* that begins no later.                                                   *)
SeekTo(a, lines, r, uoff) ==
    LET before == {i \in DOMAIN lines : lines[i].said.ustart <= uoff}
        pick == CHOOSE i \in before : \A j \in before : j <= i
    IN CASE r.open /\ r.uout <= uoff /\ uoff - r.uout <= Ahead -> Get(a, r, uoff - r.uout)
         [] before # {} -> Get(a, OpenAt(lines[pick]), uoff - lines[pick].said.ustart)
         [] OTHER -> Closed

Member(a, lines, got, m) ==
    LET r == SeekTo(a, lines, got.reader, m.at)
        after == Get(a, r, m.size)
    IN CASE m.size = 0 -> [got EXCEPT !.out = @ @@ (m :> <<m.at, m.at>>)]
         [] m.size > 0 /\ r.open /\ after.open ->
              [reader |-> after, ok |-> got.ok, out |-> got.out @@ (m :> <<r.is, after.is>>)]
         [] OTHER -> [got EXCEPT !.ok = FALSE, !.reader = Closed]

ReadMapped(a, lines, members) ==
    LET order == SetToSortSeq(members, LAMBDA m, o : m.at < o.at)
        known == SubSeq(a, 1, IF lines = <<>> THEN 0 ELSE lines[Len(lines)].said.stream)
        all == FoldLeft(LAMBDA got, m : IF got.ok THEN Member(known, lines, got, m) ELSE got,
                        [reader |-> Closed, ok |-> lines # <<>> /\ members # {}, out |-> <<>>],
                        order)
    IN IF all.ok THEN all.out ELSE Failed

(* A read by the map gives what the walk gives, or nothing; and it gives   *)
(* what lies in one stream whose first block was noticed.                  *)
MapServes(a, missed, members) ==
    LET got == ReadMapped(a, Lines(a, missed), members) IN
    /\ got # Failed => got = WalkMap(members)
    /\ (\E s \in DOMAIN a : <<s, 1>> \notin missed
           /\ \A m \in members : Begin(a, s) <= m.at /\ m.at + m.size <= End(a, s))
       /\ members # {} => got # Failed
=============================================================================
