----------------------------- MODULE FileChunks -----------------------------
(***************************************************************************)
(* The progress list of a transfer (file_info in tx_progress): a list of   *)
(* inclusive ranges [lo, hi], kept by agent_file at both ends.             *)
(* FileTransfer counts in blocks (a block is what one DATA packet carries),*)
(* ChunkTransfer in bytes.  32-bit arithmetic on positions is arithmetic   *)
(* modulo MaxBlock + 1.                                                    *)
(***************************************************************************)
EXTENDS Integers, SequencesExt

CONSTANT MaxBlock   \* the largest position a chunk can name (0xFFFFFFFF)

ASSUME MaxBlockAssumption == MaxBlock \in Nat

Position == 0 .. MaxBlock

\* file_progress: an entry of file_info, and the hole of a REQDATA packet.
Chunk == [lo : Position, hi : Position]

Succ(n) == (n + 1) % (MaxBlock + 1)
Pred(n) == IF n = 0 THEN MaxBlock ELSE n - 1

-----------------------------------------------------------------------------
(* The receiver's holes. *)

Consecutive(got, a, b) == a < b /\ \A c \in got : c <= a \/ c >= b

\* mutant: nothing is asked for after the last chunk
HolesInside(got, size) ==
  { [lo |-> p[1] + 1, hi |-> p[2] - 1] :
      p \in { q \in (got \cup {-1}) \X got : Consecutive(got, q[1], q[2]) /\ q[1] + 1 # q[2] } }

\* What find_chunks_missing returns for the blocks got of a file of the given
\* size: the gaps before and between the chunks, and one after the last chunk
\* unless that chunk ends exactly at the end of the file.
Holes(got, size) ==
  LET from == got \cup {-1}
      inner == { p \in from \X got : Consecutive(got, p[1], p[2]) /\ p[1] + 1 # p[2] }
      last == { a \in from : (\A c \in got : c <= a) /\ a + 1 # size }
  IN  { [lo |-> p[1] + 1, hi |-> p[2] - 1] : p \in inner }
        \cup { [lo |-> a + 1, hi |-> Pred(size)] : a \in last }

\* The ways of listing S in ascending order of their first block (there is one).
Ascending(S) ==
  { s \in [1 .. Cardinality(S) -> S] :
      \A i, j \in DOMAIN s : i < j => s[i].lo < s[j].lo }

-----------------------------------------------------------------------------
(* The sender's list of requested ranges. *)

StartsBefore(h, e) == h.lo < e.lo
ExtendsEnd(h, e) == h.lo >= e.lo /\ h.lo <= Succ(e.hi) /\ h.hi > e.hi

\* The entries at which the walk over the list stops for the requested hole h.
Stops(info, h) ==
  { j \in 1 .. Len(info) :
      h = info[j] \/ StartsBefore(h, info[j]) \/ ExtendsEnd(h, info[j]) }

\* The requested hole h added to the list: at the first entry where the walk
\* stops h is already there, goes before the entry, or grows it at its near or
\* its far end; when the walk stops nowhere h is appended.
InsertHole(info, h) ==
  IF Stops(info, h) = {}
    THEN Append(info, h)
    ELSE LET j == Min(Stops(info, h))
             e == info[j]
         IN  CASE h = e -> info
               [] StartsBefore(h, e) /\ Succ(h.hi) < e.lo ->
                    InsertAt(info, j, h)
               [] StartsBefore(h, e) /\ Succ(h.hi) >= e.lo ->
                    [info EXCEPT ![j].lo = h.lo]
               [] ExtendsEnd(h, e) ->
                    [info EXCEPT ![j].hi = h.hi]

\* mutant: an entry is popped one position too late
FirstSentLate(info, n) ==
  IF info[1].lo + n > info[1].hi + 1 THEN Tail(info) ELSE [info EXCEPT ![1].lo = @ + n]

\* The list after the first n positions of its first entry have been sent; an
\* exhausted entry is popped.
FirstSent(info, n) ==
  IF info[1].lo + n > info[1].hi THEN Tail(info) ELSE [info EXCEPT ![1].lo = @ + n]

-----------------------------------------------------------------------------
(* The receiver's list.  It is sorted by lo, and no two ranges start at the    *)
(* same position, so that it is a set of ranges.                               *)

Covered(ranges, n) == \E c \in ranges : c.lo <= n /\ n <= c.hi
Positions(ranges) == { n \in Position : Covered(ranges, n) }

\* The ranges merge_chunks_overlap leaves: the runs of covered positions.
Merged(ranges) ==
  { h \in Chunk : /\ h.lo <= h.hi /\ \A n \in h.lo .. h.hi : Covered(ranges, n)
                  /\ ~Covered(ranges, h.lo - 1) /\ ~Covered(ranges, h.hi + 1) }

Grown(c, b) == [lo |-> IF b + 1 = c.lo THEN b ELSE c.lo, hi |-> IF b = c.hi + 1 THEN b ELSE c.hi]

\* The list after a packet that carries the one position b.  The walk stops at
\* the first range that does not end before b - 1: it holds b or grows by b, or b
\* goes before it.  The ranges behind that one are not looked at, so that b may
\* be in one of them already.
Absorb(ranges, b) ==
  LET near  == { c \in ranges : b <= c.hi + 1 }
      first == { c \in near : \A other \in near : c.lo <= other.lo }
      apart == \A c \in first : b + 1 < c.lo
  IN  (ranges \ first) \cup { Grown(c, b) : c \in first }
        \cup { r \in {[lo |-> b, hi |-> b]} : apart }
=============================================================================
