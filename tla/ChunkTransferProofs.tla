-------------------------- MODULE ChunkTransferProofs --------------------------
(***************************************************************************)
(* Proofs about a transfer in bytes, for any size of the file, any packet  *)
(* sizes and any number of switches between them: every range that is kept *)
(* or sent is a part of the file, the progress list covers the bytes that  *)
(* were written, what is asked for is what is not covered, packets of one  *)
(* size bring the right bytes, packets of one byte do what FileTransfer    *)
(* takes blocks to do, and up to three packets are counted right.          *)
(***************************************************************************)
EXTENDS ChunkTransfer, FileChunksTheorems

LEMMA SpanFacts ==
  /\ FileSize \in Nat /\ FileSize >= 1 /\ FileSize <= MaxBlock
  /\ Span \subseteq Chunk
  /\ \A r : r \in Span <=> /\ r \in Chunk /\ r.lo \in Nat /\ r.hi \in Nat
                           /\ r.lo <= r.hi /\ r.hi < FileSize
BY ChunkAssumption, MaxBlockAssumption DEF Position, Span, Chunk

\* A range of two positions of the file.
LEMMA MakeSpan ==
  ASSUME NEW lo \in Nat, NEW hi \in Nat, lo <= hi, hi < FileSize
  PROVE  [lo |-> lo, hi |-> hi] \in Span
BY SpanFacts, MaxBlockAssumption DEF Span, Chunk, Position

\* Within the file positions do not wrap around.
LEMMA SuccInFile == ASSUME NEW n \in Nat, n < FileSize PROVE Succ(n) = n + 1
BY SpanFacts, MaxBlockAssumption DEF Succ

-----------------------------------------------------------------------------
(* What the two lists cover. *)

Covers(list, n) == \E i \in 1 .. Len(list) : list[i].lo <= n /\ n <= list[i].hi

LEMMA CoversIsCovered ==
  ASSUME NEW list \in Seq(Span), NEW n \in Int
  PROVE  Covered(Range(list), n) <=> Covers(list, n)
BY LenProperties DEF Covered, Covers, Range

LEMMA CoversAppend ==
  ASSUME NEW list \in Seq(Span), NEW d \in Span, NEW n \in Int
  PROVE  Covers(Append(list, d), n) <=> Covers(list, n) \/ (d.lo <= n /\ n <= d.hi)
<1>1. /\ Len(Append(list, d)) = Len(list) + 1 /\ Len(list) \in Nat
      /\ \A i \in 1 .. Len(list) : Append(list, d)[i] = list[i]
      /\ Append(list, d)[Len(list) + 1] = d
  BY AppendProperties, LenProperties
<1> QED BY <1>1 DEF Covers

LEMMA InsertAtIs ==
  ASSUME NEW list \in Seq(Span), NEW d \in Span, NEW j \in 1 .. Len(list)
  PROVE  /\ Len(InsertAt(list, j, d)) = Len(list) + 1
         /\ \A i \in 1 .. Len(list) + 1 :
              InsertAt(list, j, d)[i] = IF i < j THEN list[i] ELSE IF i = j THEN d ELSE list[i - 1]
<1> DEFINE before == SubSeq(list, 1, j - 1)
           after == SubSeq(list, j, Len(list))
           new == InsertAt(list, j, d)
<1>1. Len(list) \in Nat BY LenProperties
<1>2. /\ before \in Seq(Span) /\ Len(before) = j - 1
      /\ \A i \in 1 .. j - 1 : before[i] = list[i]
  <2>1. \A i \in 1 .. j - 1 : list[i] \in Span BY <1>1, ElementOfSeq
  <2>2. /\ before \in Seq(Span) /\ Len(before) = IF 1 <= j - 1 THEN j - 1 - 1 + 1 ELSE 0
        /\ \A i \in 1 .. j - 1 - 1 + 1 : before[i] = list[1 + i - 1]
    BY <1>1, <2>1, SubSeqProperties
  <2> QED BY <1>1, <2>2
<1>3. /\ after \in Seq(Span) /\ Len(after) = Len(list) - j + 1
      /\ \A i \in 1 .. Len(list) - j + 1 : after[i] = list[j + i - 1]
  <2>1. \A i \in j .. Len(list) : list[i] \in Span BY <1>1, ElementOfSeq
  <2>2. /\ after \in Seq(Span)
        /\ Len(after) = IF j <= Len(list) THEN Len(list) - j + 1 ELSE 0
        /\ \A i \in 1 .. Len(list) - j + 1 : after[i] = list[j + i - 1]
    BY <1>1, <2>1, SubSeqProperties
  <2> QED BY <1>1, <2>2
<1>4. <<d>> \in Seq(Span) /\ Len(<<d>>) = 1 /\ <<d>>[1] = d
  OBVIOUS
<1> HIDE DEF before, after
<1>5. /\ before \o <<d>> \in Seq(Span) /\ Len(before \o <<d>>) = j
      /\ \A i \in 1 .. j : (before \o <<d>>)[i] = IF i <= j - 1 THEN before[i] ELSE <<d>>[i - (j - 1)]
  BY <1>1, <1>2, <1>4, ConcatProperties
<1>6. new = (before \o <<d>>) \o after
  BY DEF InsertAt, before, after
<1> HIDE DEF new
<1>7. /\ Len(new) = Len(list) + 1
      /\ \A i \in 1 .. Len(list) + 1 :
           new[i] = IF i <= j THEN (before \o <<d>>)[i] ELSE after[i - j]
  <2> DEFINE left == before \o <<d>>
  <2>1. left \in Seq(Span) /\ Len(left) = j /\ new = left \o after
    BY <1>5, <1>6
  <2> HIDE DEF left
  <2>2. /\ Len(left \o after) = Len(left) + Len(after)
        /\ \A i \in 1 .. Len(left) + Len(after) :
             (left \o after)[i] = IF i <= Len(left) THEN left[i] ELSE after[i - Len(left)]
    BY <1>3, <2>1, ConcatProperties
  <2>3. Len(left) + Len(after) = Len(list) + 1
    BY <1>1, <1>3, <2>1
  <2>4. /\ Len(new) = Len(list) + 1
        /\ \A i \in 1 .. Len(list) + 1 : new[i] = IF i <= j THEN left[i] ELSE after[i - j]
    BY <2>1, <2>2, <2>3, Zenon
  <2> QED BY <2>4 DEF left
<1>8. \A i \in 1 .. Len(list) + 1 : new[i] = IF i < j THEN list[i] ELSE IF i = j THEN d ELSE list[i - 1]
  <2> SUFFICES ASSUME NEW i \in 1 .. Len(list) + 1
               PROVE  new[i] = IF i < j THEN list[i] ELSE IF i = j THEN d ELSE list[i - 1]
    OBVIOUS
  <2>1. CASE i < j BY <1>1, <1>2, <1>5, <1>7, <2>1
  <2>2. CASE i = j BY <1>1, <1>4, <1>5, <1>7, <2>2
  <2>3. CASE i > j BY <1>1, <1>3, <1>7, <2>3
  <2> QED BY <1>1, <2>1, <2>2, <2>3
<1> QED BY <1>7, <1>8 DEF new

LEMMA CoversInsert ==
  ASSUME NEW list \in Seq(Span), NEW d \in Span, NEW j \in 1 .. Len(list), NEW n \in Int
  PROVE  Covers(InsertAt(list, j, d), n) <=> Covers(list, n) \/ (d.lo <= n /\ n <= d.hi)
<1> DEFINE new == InsertAt(list, j, d)
<1>1. Len(list) \in Nat BY LenProperties
<1>7. Len(new) = Len(list) + 1
  BY InsertAtIs
<1>8. \A i \in 1 .. Len(list) + 1 : new[i] = IF i < j THEN list[i] ELSE IF i = j THEN d ELSE list[i - 1]
  BY InsertAtIs
<1> HIDE DEF new
<1>9. ASSUME Covers(new, n) PROVE Covers(list, n) \/ (d.lo <= n /\ n <= d.hi)
  <2>1. PICK i \in 1 .. Len(list) + 1 : new[i].lo <= n /\ n <= new[i].hi
    BY <1>7, <1>9 DEF Covers
  <2>2. i < j \/ i = j \/ i - 1 \in 1 .. Len(list) BY <1>1
  <2> QED BY <1>1, <1>8, <2>1, <2>2 DEF Covers
<1>10. ASSUME Covers(list, n) PROVE Covers(new, n)
  <2>1. PICK i \in 1 .. Len(list) : list[i].lo <= n /\ n <= list[i].hi
    BY <1>10 DEF Covers
  <2>2. CASE i < j
    <3>1. i \in 1 .. Len(new) /\ new[i] = list[i] BY <1>1, <1>7, <1>8, <2>2
    <3> QED BY <2>1, <3>1 DEF Covers
  <2>3. CASE i >= j
    <3>1. i + 1 \in 1 .. Len(new) /\ new[i + 1] = list[i] BY <1>1, <1>7, <1>8, <2>3
    <3> QED BY <2>1, <3>1 DEF Covers
  <2> QED BY <1>1, <2>2, <2>3
<1>11. d.lo <= n /\ n <= d.hi => Covers(new, n)
  <2>1. j \in 1 .. Len(new) /\ new[j] = d BY <1>1, <1>7, <1>8
  <2> QED BY <2>1 DEF Covers
<1> QED BY <1>9, <1>10, <1>11 DEF new

LEMMA CoversExcept ==
  ASSUME NEW list \in Seq(Span), NEW j \in 1 .. Len(list), NEW e \in Span, NEW n \in Int,
         e.lo <= list[j].lo, list[j].hi <= e.hi
  PROVE  Covers([list EXCEPT ![j] = e], n) <=> Covers(list, n) \/ (e.lo <= n /\ n <= e.hi)
<1> DEFINE new == [list EXCEPT ![j] = e]
<1>1. /\ Len(new) = Len(list)
      /\ \A i \in 1 .. Len(list) : new[i] = IF i = j THEN e ELSE list[i]
  BY ExceptSeq
<1>2. list[j] \in Span BY ElementOfSeq
<1> HIDE DEF new
<1>3. Covers(list, n) => Covers(new, n)
  <2> SUFFICES ASSUME NEW i \in 1 .. Len(list), list[i].lo <= n, n <= list[i].hi
               PROVE  new[i].lo <= n /\ n <= new[i].hi
    BY <1>1 DEF Covers
  <2> QED BY <1>1, <1>2, SpanFacts
<1>4. Covers(new, n) => Covers(list, n) \/ (e.lo <= n /\ n <= e.hi)
  BY <1>1 DEF Covers
<1>5. e.lo <= n /\ n <= e.hi => Covers(new, n)
  BY <1>1 DEF Covers
<1> QED BY <1>3, <1>4, <1>5 DEF new

-----------------------------------------------------------------------------
(* A received range. *)

\* A set of ranges that holds every range from the start of one of them to the end
\* of another.
Closed(T) ==
  T \subseteq Span /\ \A r, s \in T : r.lo <= s.hi => [lo |-> r.lo, hi |-> s.hi] \in T

LEMMA SpanClosed == Closed(Span)
BY SpanFacts, MakeSpan DEF Closed

LEMMA SeqOfSpans == ASSUME NEW T, Closed(T) PROVE Seq(T) \subseteq Seq(Span)
BY SeqMonotonic DEF Closed

\* What Absorbed promises: a list of ranges of the same kind that covers what the
\* old one covered and the bytes that are written, which are no more than d brings
\* and go where d starts, or right behind a range that d overlaps or follows.
Absorbs(T, list, d, a) ==
  /\ a.info \in Seq(T) /\ a.at \in Nat /\ a.n \in Nat
  /\ a.n <= d.hi - d.lo + 1
  /\ \/ a.at = d.lo
     \/ \E e \in T : a.at = e.hi + 1 /\ d.lo <= e.hi + 1 /\ e.hi < d.hi
  /\ \A n \in Int :
       Covers(a.info, n) <=> Covers(list, n) \/ (a.at <= n /\ n < a.at + a.n)

LEMMA AbsorbedAbsorbs ==
  ASSUME NEW T, Closed(T), NEW list \in Seq(T), NEW d \in T
  PROVE  Absorbs(T, list, d, Absorbed(list, d))
<1> DEFINE size == d.hi - d.lo + 1
           stops == { j \in 1 .. Len(list) :
                        Inside(d, list[j]) \/ StartsBefore(d, list[j]) \/ ExtendsEnd(d, list[j]) }
           j == Min(stops)
           e == list[j]
           a == Absorbed(list, d)
<1>0. list \in Seq(Span) /\ d \in Span /\ T \subseteq Span
  BY SeqOfSpans DEF Closed
<1>1. /\ d.lo \in Nat /\ d.hi \in Nat /\ d.lo <= d.hi /\ d.hi < FileSize
      /\ size \in Nat /\ FileSize \in Nat /\ Succ(d.hi) = d.hi + 1
  BY <1>0, SpanFacts, SuccInFile
<1>2. CASE stops = {}
  <2>1. a = [info |-> Append(list, d), at |-> d.lo, n |-> size]
    BY <1>2 DEF Absorbed
  <2>2. Append(list, d) \in Seq(T)
    BY AppendProperties
  <2>3. \A n \in Int : Covers(a.info, n) <=> Covers(list, n) \/ (a.at <= n /\ n < a.at + a.n)
    BY <1>0, <1>1, <2>1, CoversAppend
  <2> QED BY <1>1, <2>1, <2>2, <2>3 DEF Absorbs
<1>3. CASE stops # {}
  <2>1. j \in 1 .. Len(list) /\ (Inside(d, e) \/ StartsBefore(d, e) \/ ExtendsEnd(d, e))
    <3>1. stops \subseteq Nat OBVIOUS
    <3>2. j \in stops BY <1>3, <3>1, MinOfNat
    <3> QED BY <3>2
  <2>2. e \in T
    BY <2>1, ElementOfSeq
  <2>3. /\ e.lo \in Nat /\ e.hi \in Nat /\ e.lo <= e.hi /\ e.hi < FileSize /\ Succ(e.hi) = e.hi + 1
        /\ e = [lo |-> e.lo, hi |-> e.hi]
    BY <1>0, <2>2, SpanFacts, SuccInFile DEF Chunk
  <2>4. a = CASE Inside(d, e) -> [info |-> list, at |-> d.lo, n |-> 0]
              [] StartsBefore(d, e) /\ Succ(d.hi) < e.lo ->
                   [info |-> InsertAt(list, j, d), at |-> d.lo, n |-> size]
              [] StartsBefore(d, e) /\ Succ(d.hi) >= e.lo ->
                   [info |-> [list EXCEPT ![j].lo = d.lo], at |-> d.lo, n |-> e.lo - d.lo]
              [] ExtendsEnd(d, e) ->
                   [info |-> [list EXCEPT ![j].hi = d.hi], at |-> e.hi + 1, n |-> d.hi - e.hi]
    BY <1>3 DEF Absorbed
  <2> HIDE DEF j, e, a, stops
  <2>5. CASE Inside(d, e)
    <3>1. a = [info |-> list, at |-> d.lo, n |-> 0]
      BY <1>1, <2>3, <2>4, <2>5 DEF Inside, StartsBefore, ExtendsEnd
    <3>2. Absorbs(T, list, d, a)
      BY <1>1, <3>1 DEF Absorbs
    <3> QED BY <3>2 DEF a
  <2>6. CASE StartsBefore(d, e) /\ Succ(d.hi) < e.lo
    <3>1. a = [info |-> InsertAt(list, j, d), at |-> d.lo, n |-> size]
      BY <1>1, <2>3, <2>4, <2>6 DEF Inside, StartsBefore, ExtendsEnd
    <3>2. InsertAt(list, j, d) \in Seq(T)
      BY <2>1, InsertAtType
    <3>3. \A n \in Int : Covers(a.info, n) <=> Covers(list, n) \/ (a.at <= n /\ n < a.at + a.n)
      BY <1>0, <1>1, <2>1, <3>1, CoversInsert
    <3>4. Absorbs(T, list, d, a)
      BY <1>1, <3>1, <3>2, <3>3 DEF Absorbs
    <3> QED BY <3>4 DEF a
  <2>7. CASE StartsBefore(d, e) /\ Succ(d.hi) >= e.lo
    <3> DEFINE f == [lo |-> d.lo, hi |-> e.hi]
    <3>1. a = [info |-> [list EXCEPT ![j].lo = d.lo], at |-> d.lo, n |-> e.lo - d.lo]
      BY <1>1, <2>3, <2>4, <2>7 DEF Inside, StartsBefore, ExtendsEnd
    <3>2. d.lo < e.lo /\ e.lo <= d.hi + 1
      BY <1>1, <2>3, <2>7 DEF StartsBefore
    <3>3. f \in T
      BY <1>1, <2>2, <2>3, <3>2 DEF Closed
    <3>4. [list EXCEPT ![j].lo = d.lo] = [list EXCEPT ![j] = f]
      <4>1. f = [list[j] EXCEPT !.lo = d.lo]
        BY <2>3 DEF e
      <4>2. [list EXCEPT ![j].lo = d.lo] = [list EXCEPT ![j] = [list[j] EXCEPT !.lo = d.lo]]
        OBVIOUS
      <4> QED BY <4>1, <4>2, Zenon
    <3>5. [list EXCEPT ![j] = f] \in Seq(T)
      BY <2>1, <3>3, ExceptSeq
    <3>6. \A n \in Int : Covers([list EXCEPT ![j] = f], n)
                          <=> Covers(list, n) \/ (f.lo <= n /\ n <= f.hi)
      <4>1. f.lo <= list[j].lo /\ list[j].hi <= f.hi
        BY <1>1, <2>3, <3>2 DEF e
      <4> HIDE DEF f
      <4> QED BY <1>0, <2>1, <3>3, <4>1, CoversExcept
    <3>7. \A n \in Int : e.lo <= n /\ n <= e.hi => Covers(list, n)
      BY <2>1 DEF Covers, e
    <3>8. a.info = [list EXCEPT ![j] = f] /\ a.at = d.lo /\ a.n = e.lo - d.lo
      BY <3>1, <3>4, Zenon
    <3>9. f.lo = d.lo /\ f.hi = e.hi
      OBVIOUS
    <3> HIDE DEF f
    <3>10. /\ a.at \in Nat /\ a.n \in Nat /\ a.n <= d.hi - d.lo + 1
           /\ \A n \in Int : (f.lo <= n /\ n <= f.hi)
                           <=> (a.at <= n /\ n < a.at + a.n) \/ (e.lo <= n /\ n <= e.hi)
      <4>1. a.at \in Nat /\ a.n \in Nat /\ a.n <= d.hi - d.lo + 1
        BY <1>1, <2>3, <3>2, <3>8
      <4>2. \A n \in Int : (f.lo <= n /\ n <= f.hi)
                          <=> (a.at <= n /\ n < a.at + a.n) \/ (e.lo <= n /\ n <= e.hi)
        <5>1. SUFFICES ASSUME NEW n \in Int
              PROVE  (f.lo <= n /\ n <= f.hi)
                       <=> (a.at <= n /\ n < a.at + a.n) \/ (e.lo <= n /\ n <= e.hi)
          OBVIOUS
        <5>2. a.at + a.n = e.lo \/ a.at + a.n = d.hi + 1
          BY <1>1, <2>3, <3>8
        <5> QED BY <1>1, <2>3, <3>2, <3>8, <3>9, <5>2
      <4> QED BY <4>1, <4>2
    <3>11. /\ a.info \in Seq(T)
           /\ \A n \in Int :
                Covers(a.info, n) <=> Covers(list, n) \/ (a.at <= n /\ n < a.at + a.n)
      BY <3>5, <3>6, <3>7, <3>8, <3>10, Zenon
    <3>12. \/ a.at = d.lo
           \/ \E r \in T : a.at = r.hi + 1 /\ d.lo <= r.hi + 1 /\ r.hi < d.hi
      BY <2>2, <3>2, <3>8
    <3>13. Absorbs(T, list, d, a)
      BY <3>10, <3>11, <3>12 DEF Absorbs
    <3> QED BY <3>13 DEF a
  <2>8. CASE ~Inside(d, e) /\ ExtendsEnd(d, e)
    <3> DEFINE f == [lo |-> e.lo, hi |-> d.hi]
    <3>1. a = [info |-> [list EXCEPT ![j].hi = d.hi], at |-> e.hi + 1, n |-> d.hi - e.hi]
      BY <1>1, <2>3, <2>4, <2>8 DEF Inside, StartsBefore, ExtendsEnd
    <3>2. e.lo <= d.lo /\ d.lo <= e.hi + 1 /\ e.hi < d.hi
      BY <1>1, <2>3, <2>8 DEF ExtendsEnd
    <3>3. f \in T
      BY <1>1, <2>2, <2>3, <3>2 DEF Closed
    <3>4. [list EXCEPT ![j].hi = d.hi] = [list EXCEPT ![j] = f]
      <4>1. f = [list[j] EXCEPT !.hi = d.hi]
        BY <2>3 DEF e
      <4>2. [list EXCEPT ![j].hi = d.hi] = [list EXCEPT ![j] = [list[j] EXCEPT !.hi = d.hi]]
        OBVIOUS
      <4> QED BY <4>1, <4>2, Zenon
    <3>5. [list EXCEPT ![j] = f] \in Seq(T)
      BY <2>1, <3>3, ExceptSeq
    <3>6. \A n \in Int : Covers([list EXCEPT ![j] = f], n)
                          <=> Covers(list, n) \/ (f.lo <= n /\ n <= f.hi)
      <4>1. f.lo <= list[j].lo /\ list[j].hi <= f.hi
        BY <1>1, <2>3, <3>2 DEF e
      <4> HIDE DEF f
      <4> QED BY <1>0, <2>1, <3>3, <4>1, CoversExcept
    <3>7. \A n \in Int : e.lo <= n /\ n <= e.hi => Covers(list, n)
      BY <2>1 DEF Covers, e
    <3>8. a.info = [list EXCEPT ![j] = f] /\ a.at = e.hi + 1 /\ a.n = d.hi - e.hi
      BY <3>1, <3>4, Zenon
    <3>9. f.lo = e.lo /\ f.hi = d.hi
      OBVIOUS
    <3> HIDE DEF f
    <3>10. /\ a.at \in Nat /\ a.n \in Nat /\ a.n <= d.hi - d.lo + 1
           /\ \A n \in Int : (f.lo <= n /\ n <= f.hi)
                           <=> (a.at <= n /\ n < a.at + a.n) \/ (e.lo <= n /\ n <= e.hi)
      <4>1. a.at \in Nat /\ a.n \in Nat /\ a.n <= d.hi - d.lo + 1
        BY <1>1, <2>3, <3>2, <3>8
      <4>2. \A n \in Int : (f.lo <= n /\ n <= f.hi)
                          <=> (a.at <= n /\ n < a.at + a.n) \/ (e.lo <= n /\ n <= e.hi)
        <5>1. SUFFICES ASSUME NEW n \in Int
              PROVE  (f.lo <= n /\ n <= f.hi)
                       <=> (a.at <= n /\ n < a.at + a.n) \/ (e.lo <= n /\ n <= e.hi)
          OBVIOUS
        <5>2. a.at + a.n = e.lo \/ a.at + a.n = d.hi + 1
          BY <1>1, <2>3, <3>8
        <5> QED BY <1>1, <2>3, <3>2, <3>8, <3>9, <5>2
      <4> QED BY <4>1, <4>2
    <3>11. /\ a.info \in Seq(T)
           /\ \A n \in Int :
                Covers(a.info, n) <=> Covers(list, n) \/ (a.at <= n /\ n < a.at + a.n)
      BY <3>5, <3>6, <3>7, <3>8, <3>10, Zenon
    <3>12. \/ a.at = d.lo
           \/ \E r \in T : a.at = r.hi + 1 /\ d.lo <= r.hi + 1 /\ r.hi < d.hi
      BY <2>2, <3>2, <3>8
    <3>13. Absorbs(T, list, d, a)
      BY <3>10, <3>11, <3>12 DEF Absorbs
    <3> QED BY <3>13 DEF a
  <2>9. StartsBefore(d, e) => Succ(d.hi) < e.lo \/ Succ(d.hi) >= e.lo
    BY <1>1, <2>3
  <2> QED BY <2>1, <2>5, <2>6, <2>7, <2>8, <2>9
<1> QED BY <1>2, <1>3

-----------------------------------------------------------------------------
(* The other two operations on lists. *)

\* A requested range is merged into the sender's list: its ranges stay
\* of their kind.
LEMMA InsertHoleClosed ==
  ASSUME NEW T, Closed(T), NEW list \in Seq(T), NEW h \in T
  PROVE  InsertHole(list, h) \in Seq(T)
<1>1. CASE Stops(list, h) = {}
  BY <1>1, AppendProperties DEF InsertHole
<1>2. CASE Stops(list, h) # {}
  <2> DEFINE j == Min(Stops(list, h))
             e == list[j]
  <2>1. j \in 1 .. Len(list) /\ (h = e \/ StartsBefore(h, e) \/ ExtendsEnd(h, e))
    <3>1. Stops(list, h) \subseteq Nat BY DEF Stops
    <3>2. j \in Stops(list, h) BY <1>2, <3>1, MinOfNat
    <3> QED BY <3>2 DEF Stops
  <2>2. e \in T /\ e \in Span /\ h \in Span
    BY <2>1, ElementOfSeq DEF Closed
  <2>3. InsertAt(list, j, h) \in Seq(T)
    BY <2>1, InsertAtType
  <2>4. InsertHole(list, h) =
           CASE h = e -> list
             [] StartsBefore(h, e) /\ Succ(h.hi) < e.lo -> InsertAt(list, j, h)
             [] StartsBefore(h, e) /\ Succ(h.hi) >= e.lo -> [list EXCEPT ![j].lo = h.lo]
             [] ExtendsEnd(h, e) -> [list EXCEPT ![j].hi = h.hi]
    BY <1>2 DEF InsertHole
  <2>5. /\ h.lo \in Nat /\ h.hi \in Nat /\ h.lo <= h.hi /\ h.hi < FileSize
        /\ e.lo \in Nat /\ e.hi \in Nat /\ e.lo <= e.hi /\ e.hi < FileSize
        /\ Succ(h.hi) = h.hi + 1 /\ FileSize \in Nat
    BY <2>2, SpanFacts, SuccInFile
  <2>6. /\ [e EXCEPT !.lo = h.lo] = [lo |-> h.lo, hi |-> e.hi]
        /\ [e EXCEPT !.hi = h.hi] = [lo |-> e.lo, hi |-> h.hi]
    BY <2>2 DEF Span, Chunk
  <2>7. /\ [list EXCEPT ![j].lo = h.lo] = [list EXCEPT ![j] = [lo |-> h.lo, hi |-> e.hi]]
        /\ [list EXCEPT ![j].hi = h.hi] = [list EXCEPT ![j] = [lo |-> e.lo, hi |-> h.hi]]
    <3>1. /\ [list EXCEPT ![j].lo = h.lo] = [list EXCEPT ![j] = [list[j] EXCEPT !.lo = h.lo]]
          /\ [list EXCEPT ![j].hi = h.hi] = [list EXCEPT ![j] = [list[j] EXCEPT !.hi = h.hi]]
      OBVIOUS
    <3> QED BY <2>6, <3>1, Zenon
  <2> HIDE DEF j, e
  <2>8. CASE StartsBefore(h, e)
    <3>1. [lo |-> h.lo, hi |-> e.hi] \in T
      BY <2>2, <2>5, <2>8 DEF Closed, StartsBefore
    <3>2. [list EXCEPT ![j].lo = h.lo] \in Seq(T)
      BY <2>1, <2>7, <3>1, ExceptSeq
    <3>3. h # e /\ ~ExtendsEnd(h, e) /\ (Succ(h.hi) < e.lo \/ Succ(h.hi) >= e.lo)
      BY <2>5, <2>8 DEF StartsBefore, ExtendsEnd
    <3>4. \/ InsertHole(list, h) = InsertAt(list, j, h)
          \/ InsertHole(list, h) = [list EXCEPT ![j].lo = h.lo]
      BY <2>4, <2>5, <2>8, <3>3
    <3> QED BY <2>3, <3>2, <3>4
  <2>9. CASE ExtendsEnd(h, e)
    <3>1. [lo |-> e.lo, hi |-> h.hi] \in T
      BY <2>2, <2>5, <2>9 DEF Closed, ExtendsEnd
    <3>2. [list EXCEPT ![j].hi = h.hi] \in Seq(T)
      BY <2>1, <2>7, <3>1, ExceptSeq
    <3>3. h # e /\ ~StartsBefore(h, e)
      BY <2>5, <2>9 DEF StartsBefore, ExtendsEnd
    <3>4. InsertHole(list, h) = [list EXCEPT ![j].hi = h.hi]
      BY <2>4, <2>9, <3>3
    <3> QED BY <3>2, <3>4
  <2>10. CASE h = e
    <3>1. ~StartsBefore(h, e) /\ ~ExtendsEnd(h, e)
      BY <2>5, <2>10 DEF StartsBefore, ExtendsEnd
    <3> QED BY <2>4, <2>10, <3>1
  <2> QED BY <2>1, <2>8, <2>9, <2>10
<1> QED BY <1>1, <1>2

\* What is left of the first range after n of its bytes is a part of the file.
LEMMA FirstSentSpan ==
  ASSUME NEW list \in Seq(Span), list # <<>>, NEW n \in Nat
  PROVE  FirstSent(list, n) \in Seq(Span)
<1>1. Tail(list) \in Seq(Span)
  BY HeadTailProperties
<1>2. 1 \in 1 .. Len(list) /\ list[1] \in Span
  BY EmptySeq, ElementOfSeq
<1>3. CASE list[1].lo + n > list[1].hi
  BY <1>1, <1>3 DEF FirstSent
<1>4. CASE ~(list[1].lo + n > list[1].hi)
  <2>1. list[1].lo + n \in Position
    BY <1>2, <1>4, SpanFacts, MaxBlockAssumption DEF Position
  <2>2. [list[1] EXCEPT !.lo = list[1].lo + n] \in Span
    BY <1>2, <1>4, <2>1, SpanFacts DEF Span, Chunk
  <2>3. [list EXCEPT ![1] = [list[1] EXCEPT !.lo = list[1].lo + n]] \in Seq(Span)
    BY <1>2, <2>2, ExceptSeq
  <2> QED BY <1>4, <2>3 DEF FirstSent
<1> QED BY <1>3, <1>4

-----------------------------------------------------------------------------
(* Merging the list. *)

LEMMA CoveredInFile ==
  ASSUME NEW R \in SUBSET Span, NEW n \in Int, Covered(R, n)
  PROVE  0 <= n /\ n < FileSize
BY SpanFacts DEF Covered

\* The merged ranges are parts of the file ...
LEMMA MergedSpan == ASSUME NEW R \in SUBSET Span PROVE Merged(R) \subseteq Span
<1> SUFFICES ASSUME NEW h \in Merged(R) PROVE h \in Span
  OBVIOUS
<1>1. h \in Chunk /\ h.lo \in Nat /\ h.hi \in Nat /\ h.lo <= h.hi
  BY MaxBlockAssumption DEF Merged, Chunk, Position
<1>2. Covered(R, h.hi)
  BY <1>1 DEF Merged
<1>3. h.hi < FileSize
  BY <1>1, <1>2, CoveredInFile
<1> QED BY <1>1, <1>3 DEF Span

\* ... any two of which have a gap between them ...
LEMMA MergedApart ==
  ASSUME NEW R \in SUBSET Span, NEW h \in Merged(R), NEW k \in Merged(R), h.lo < k.lo
  PROVE  h.hi + 1 < k.lo
<1>1. /\ h.lo \in Nat /\ h.hi \in Nat /\ h.lo <= h.hi
      /\ k.lo \in Nat /\ k.hi \in Nat /\ k.lo <= k.hi
  BY MergedSpan, SpanFacts
<1>2. SUFFICES ASSUME k.lo <= h.hi + 1 PROVE FALSE
  BY <1>1
<1>3. k.lo - 1 \in h.lo .. h.hi
  BY <1>1, <1>2
<1>4. Covered(R, k.lo - 1)
  BY <1>3 DEF Merged
<1> QED BY <1>4 DEF Merged

\* ... and which cover what was covered.
LEMMA MergedCovers ==
  ASSUME NEW R \in SUBSET Span
  PROVE  Positions(Merged(R)) = Positions(R)
<1>1. ASSUME NEW n \in Position, Covered(Merged(R), n) PROVE Covered(R, n)
  <2>1. PICK h \in Merged(R) : h.lo <= n /\ n <= h.hi
    BY <1>1 DEF Covered
  <2>2. n \in h.lo .. h.hi
    BY <2>1, MergedSpan, SpanFacts, MaxBlockAssumption DEF Position
  <2> QED BY <2>2 DEF Merged
<1>2. ASSUME NEW n \in Position, Covered(R, n) PROVE Covered(Merged(R), n)
  <2>1. n \in Nat /\ n < FileSize /\ FileSize \in Nat
    BY <1>2, SpanFacts, CoveredInFile, MaxBlockAssumption DEF Position
  <2> DEFINE starts == { l \in Nat : l <= n /\ \A m \in l .. n : Covered(R, m) }
             ends == { k \in Nat : n < k /\ ~Covered(R, k) }
             lo == Min(starts)
             hi == Min(ends) - 1
  <2>2. lo \in starts /\ \A x \in starts : lo <= x
    <3>1. n \in starts BY <1>2, <2>1
    <3>2. starts # {} /\ starts \subseteq Nat BY <3>1
    <3> QED BY <3>2, MinOfNat
  <2>3. Min(ends) \in ends /\ \A x \in ends : Min(ends) <= x
    <3>1. FileSize \in ends BY <2>1, CoveredInFile
    <3>2. ends # {} /\ ends \subseteq Nat BY <3>1
    <3> QED BY <3>2, MinOfNat
  <2>4. FileSize \in ends
    BY <2>1, CoveredInFile
  <2>5. /\ lo \in Nat /\ lo <= n /\ hi \in Nat /\ n <= hi /\ hi < FileSize
        /\ ~Covered(R, hi + 1)
    <3>1. Min(ends) <= FileSize BY <2>3, <2>4
    <3>2. Min(ends) \in Nat /\ n < Min(ends) /\ ~Covered(R, Min(ends)) BY <2>3
    <3>3. Min(ends) = hi + 1 BY <3>2
    <3> QED BY <2>1, <2>2, <3>1, <3>2, <3>3
  <2>6. \A m \in lo .. hi : Covered(R, m)
    <3> SUFFICES ASSUME NEW m \in lo .. hi PROVE Covered(R, m) OBVIOUS
    <3>1. CASE m <= n BY <2>1, <2>2, <2>5, <3>1
    <3>2. CASE m > n
      <4>1. m \in Nat /\ ~(Min(ends) <= m) BY <2>1, <2>3, <2>5, <3>2
      <4> QED BY <2>3, <3>2, <4>1
    <3> QED BY <2>1, <2>5, <3>1, <3>2
  <2>7. ~Covered(R, lo - 1)
    <3>1. CASE lo = 0 BY <3>1, CoveredInFile
    <3>2. CASE lo # 0
      <4>1. SUFFICES ASSUME Covered(R, lo - 1) PROVE FALSE OBVIOUS
      <4>2. \A m \in lo - 1 .. n : m = lo - 1 \/ m \in lo .. n BY <2>1, <2>5
      <4>3. \A m \in lo - 1 .. n : Covered(R, m) BY <2>2, <4>1, <4>2
      <4>4. lo - 1 \in starts BY <2>1, <2>5, <3>2, <4>3
      <4> QED BY <2>2, <2>5, <4>4
    <3> QED BY <3>1, <3>2
  <2> HIDE DEF lo, hi
  <2>8. [lo |-> lo, hi |-> hi] \in Merged(R)
    <3>1. [lo |-> lo, hi |-> hi] \in Chunk
      BY <2>1, <2>5, MakeSpan, SpanFacts
    <3> QED BY <2>1, <2>5, <2>6, <2>7, <3>1 DEF Merged
  <2> QED BY <2>5, <2>8 DEF Covered
<1> QED BY <1>1, <1>2 DEF Positions

\* An ascending list of a set of ranges holds each of them.
LEMMA AscendingRange ==
  ASSUME NEW S \in SUBSET Span, NEW s \in Ascending(S)
  PROVE  /\ s \in Seq(Span) /\ Len(s) = Cardinality(S) /\ s \in [1 .. Len(s) -> S]
         /\ Range(s) = S
         /\ \A i, j \in 1 .. Len(s) : i < j => s[i].lo < s[j].lo
<1>1. S \subseteq Chunk
  BY SpanFacts
<1>2. IsFiniteSet(S) /\ Cardinality(S) \in Nat
  BY <1>1, ChunksFinite
<1>3. Len(s) = Cardinality(S) /\ s \in [1 .. Cardinality(S) -> S]
  BY <1>1, AscendingType
<1>4. s \in Seq(Span)
  BY <1>2, <1>3, FunctionIsSeq
<1>5. \A i, j \in 1 .. Len(s) : i < j => s[i].lo < s[j].lo
  BY <1>3 DEF Ascending
<1>6. \A i \in 1 .. Len(s) : s[i].lo \in Nat
  BY <1>3, SpanFacts
<1>7. s \in Injection(1 .. Cardinality(S), S)
  <2>1. ASSUME NEW i \in 1 .. Len(s), NEW j \in 1 .. Len(s), s[i] = s[j] PROVE i = j
    <3>1. ~(i < j) /\ ~(j < i)
      BY <1>5, <1>6, <2>1
    <3> QED BY <1>2, <1>3, <3>1
  <2> QED BY <1>3, <2>1 DEF Injection, IsInjective
<1>8. Cardinality(1 .. Cardinality(S)) = Cardinality(S)
  BY <1>2, FS_Interval
<1>9. s \in Surjection(1 .. Cardinality(S), S)
  BY <1>2, <1>7, <1>8, FS_Injection
<1>10. Range(s) = S
  BY <1>3, <1>9 DEF Surjection, Range
<1> QED BY <1>3, <1>4, <1>5, <1>10

\* What is asked for after a merge are parts of the file.
LEMMA MissingSpan ==
  ASSUME NEW R \in SUBSET Span, NEW list \in Ascending(Merged(R))
  PROVE  Missing(list) \subseteq Span
<1>1. /\ list \in Seq(Span) /\ list \in [1 .. Len(list) -> Merged(R)]
      /\ \A i, j \in 1 .. Len(list) : i < j => list[i].lo < list[j].lo
  BY MergedSpan, AscendingRange
<1>2. Len(list) \in Nat /\ FileSize \in Nat /\ FileSize >= 1
  BY <1>1, LenProperties, SpanFacts
<1>3. \A i \in 1 .. Len(list) : /\ list[i].lo \in Nat /\ list[i].hi \in Nat
                               /\ list[i].lo <= list[i].hi /\ list[i].hi < FileSize
  BY <1>1, ElementOfSeq, SpanFacts
<1>4. CASE list = <<>>
  <2>1. Missing(list) = { [lo |-> 0, hi |-> FileSize - 1] }
    BY <1>4 DEF Missing
  <2> QED BY <1>2, <2>1, MakeSpan
<1>5. CASE list # <<>>
  <2>1. Len(list) >= 1
    BY <1>1, <1>2, <1>5, EmptySeq
  <2> DEFINE first == { [lo |-> 0, hi |-> list[1].lo - 1] : i \in { j \in {1} : list[1].lo # 0 } }
             between == { [lo |-> list[i - 1].hi + 1, hi |-> list[i].lo - 1] :
                            i \in { j \in 2 .. Len(list) : list[j - 1].hi + 1 # list[j].lo } }
             last == { [lo |-> list[Len(list)].hi + 1, hi |-> FileSize - 1] :
                         i \in { j \in {1} : list[Len(list)].hi + 1 # FileSize } }
  <2>2. first \subseteq Span
    <3>1. 1 \in 1 .. Len(list) BY <1>2, <2>1
    <3>2. list[1].lo # 0 => [lo |-> 0, hi |-> list[1].lo - 1] \in Span
      BY <1>2, <1>3, <3>1, MakeSpan
    <3> QED BY <3>2
  <2>3. between \subseteq Span
    <3> SUFFICES ASSUME NEW i \in 2 .. Len(list)
                 PROVE  [lo |-> list[i - 1].hi + 1, hi |-> list[i].lo - 1] \in Span
      OBVIOUS
    <3>1. i \in 1 .. Len(list) /\ i - 1 \in 1 .. Len(list) /\ i - 1 < i
      BY <1>2
    <3>2. list[i - 1].hi + 1 < list[i].lo
      BY <1>1, <3>1, MergedApart
    <3>3. /\ list[i - 1].hi + 1 \in Nat /\ list[i].lo - 1 \in Nat
          /\ list[i - 1].hi + 1 <= list[i].lo - 1 /\ list[i].lo - 1 < FileSize
      BY <1>2, <1>3, <3>1, <3>2
    <3> QED BY <3>3, MakeSpan
  <2>4. last \subseteq Span
    <3>1. Len(list) \in 1 .. Len(list) BY <1>2, <2>1
    <3>2. list[Len(list)].hi + 1 # FileSize
            => [lo |-> list[Len(list)].hi + 1, hi |-> FileSize - 1] \in Span
      BY <1>2, <1>3, <3>1, MakeSpan
    <3> QED BY <3>2
  <2>5. Missing(list) = first \cup between \cup last
    BY <1>5 DEF Missing
  <2> HIDE DEF first, between, last
  <2> QED BY <2>2, <2>3, <2>4, <2>5
<1> QED BY <1>4, <1>5

-----------------------------------------------------------------------------
(* The inductive invariant, one lemma per action that touches it. *)

ChunkInv == ChunkTypeOK /\ ListIsWritten

LEMMA InitInv == Init => ChunkInv
<1> SUFFICES ASSUME Init PROVE ChunkInv
  OBVIOUS
<1>1. 0 \in Nat /\ FileSize \in Nat /\ -1 \in -1 .. FileSize - 1
  BY SpanFacts
<1>2. ChunkTypeOK
  BY <1>1, EmptySeq DEF Init, ChunkTypeOK
<1>3. Positions(Range(info)) = {}
  BY DEF Init, Range, Positions, Covered
<1>4. { p \in DOMAIN content : content[p] # -1 } = {}
  BY DEF Init
<1> QED BY <1>2, <1>3, <1>4 DEF ChunkInv, ListIsWritten

LEMMA UseChannelInv ==
  ASSUME ChunkInv, NEW c \in Channels, UseChannel(c)
  PROVE  ChunkInv'
<1>1. ChunkTypeOK'
  BY DEF ChunkInv, ChunkTypeOK, UseChannel
<1> QED BY <1>1 DEF ChunkInv, ListIsWritten, UseChannel

LEMMA SendDataInv == ASSUME ChunkInv, SendData PROVE ChunkInv'
<1> DEFINE first == pending[1]
           left == first.hi - first.lo + 1
           n == IF left > PacketSize[channel] THEN PacketSize[channel] ELSE left
           d == [lo |-> first.lo, hi |-> first.lo + n - 1]
<1>1. pending \in Seq(Span) /\ pending # <<>> /\ channel \in Channels /\ toReceiver \in Seq(Span)
  BY DEF ChunkInv, ChunkTypeOK, SendData
<1>2. toReceiver' = Append(toReceiver, d) /\ pending' = FirstSent(pending, n)
  BY DEF SendData
<1>3. first \in Span
  <2>1. 1 \in 1 .. Len(pending) BY <1>1, EmptySeq
  <2> QED BY <1>1, <2>1, ElementOfSeq
<1>4. n \in Nat /\ n >= 1 /\ n <= left
  BY <1>1, <1>3, SpanFacts, ChunkAssumption
<1>5. d \in Span
  <2>1. first.lo \in Nat /\ first.lo + n - 1 \in Nat /\ first.lo <= first.lo + n - 1
        /\ first.lo + n - 1 < FileSize
    BY <1>3, <1>4, SpanFacts
  <2> HIDE DEF n, first
  <2> QED BY <2>1, MakeSpan
<1> HIDE DEF n, d
<1>6. toReceiver' \in Seq(Span) /\ pending' \in Seq(Span)
  BY <1>1, <1>2, <1>4, <1>5, AppendProperties, FirstSentSpan
<1>7. ChunkTypeOK'
  BY <1>6 DEF ChunkInv, ChunkTypeOK, SendData
<1> QED BY <1>7 DEF ChunkInv, ListIsWritten, SendData

LEMMA ReceiveReqDataInv == ASSUME ChunkInv, ReceiveReqData PROVE ChunkInv'
<1>1. Head(toSender) \in Span /\ toSender' \in Seq(Span)
  BY HeadTailProperties DEF ChunkInv, ChunkTypeOK, ReceiveReqData
<1>2. pending' \in Seq(Span)
  BY <1>1, SpanClosed, InsertHoleClosed DEF ChunkInv, ChunkTypeOK, ReceiveReqData
<1>3. ChunkTypeOK'
  BY <1>1, <1>2 DEF ChunkInv, ChunkTypeOK, ReceiveReqData
<1> QED BY <1>3 DEF ChunkInv, ListIsWritten, ReceiveReqData

LEMMA ByteOfPacket ==
  ASSUME NEW lo \in Nat, NEW hi \in Nat, hi < FileSize, NEW at \in Nat, NEW n \in Nat,
         n <= hi - lo + 1, NEW p \in 0 .. FileSize - 1, at <= p, p < at + n
  PROVE  lo + (p - at) \in 0 .. FileSize - 1
BY SpanFacts

\* What is written is what the list gains: a range that overlaps some that were
\* received writes only the bytes that lie outside the entry it meets.
LEMMA ReceiveDataInv == ASSUME ChunkInv, ReceiveData PROVE ChunkInv'
<1> DEFINE d == Head(toReceiver)
           a == Absorbed(info, d)
<1>1. d \in Span /\ toReceiver' \in Seq(Span) /\ info \in Seq(Span)
  BY HeadTailProperties DEF ChunkInv, ChunkTypeOK, ReceiveData
<1>2. Absorbs(Span, info, d, a)
  BY <1>1, SpanClosed, AbsorbedAbsorbs
<1>3. /\ info' = a.info /\ total' = total + a.n
      /\ content' = Written(content, d, a.at, a.n)
      /\ whole' = IsWhole(total') /\ toReceiver' = Tail(toReceiver)
      /\ UNCHANGED <<pending, channel, toSender, switches, lost>>
  BY DEF ReceiveData
<1> HIDE DEF d, a
<1>4. /\ a.info \in Seq(Span) /\ a.at \in Nat /\ a.n \in Nat /\ a.n <= d.hi - d.lo + 1
      /\ d.lo \in Nat /\ d.hi \in Nat /\ d.lo <= d.hi /\ d.hi < FileSize /\ FileSize \in Nat
  BY <1>1, <1>2, SpanFacts DEF Absorbs
<1>5. content \in [0 .. FileSize - 1 -> -1 .. FileSize - 1]
  BY DEF ChunkInv, ChunkTypeOK
<1>6. content' = [p \in 0 .. FileSize - 1 |->
                    IF a.at <= p /\ p < a.at + a.n THEN d.lo + (p - a.at) ELSE content[p]]
  BY <1>3, <1>5 DEF Written
<1>7. ASSUME NEW p \in 0 .. FileSize - 1, a.at <= p, p < a.at + a.n
      PROVE  d.lo + (p - a.at) \in 0 .. FileSize - 1
  BY <1>4, <1>7, ByteOfPacket
<1>8. ChunkTypeOK'
  <2>1. content' \in [0 .. FileSize - 1 -> -1 .. FileSize - 1]
    BY <1>4, <1>5, <1>6, <1>7
  <2>2. total' \in Nat /\ whole' \in BOOLEAN
    <3>1. total \in Nat BY DEF ChunkInv, ChunkTypeOK
    <3>2. total' \in Nat BY <1>3, <1>4, <3>1
    <3>3. (total' = FileSize) \in BOOLEAN OBVIOUS
    <3> QED BY <1>3, <3>2, <3>3 DEF IsWhole
  <2> QED BY <1>1, <1>3, <1>4, <2>1, <2>2 DEF ChunkInv, ChunkTypeOK
<1>9. ListIsWritten'
  <2>1. \A n \in Int : Covered(Range(info), n) <=> Covers(info, n)
    BY <1>1, CoversIsCovered
  <2>2. \A n \in Int : Covered(Range(a.info), n) <=> Covers(a.info, n)
    BY <1>4, CoversIsCovered
  <2>3. \A n \in Int : Covered(Range(a.info), n)
                        <=> Covered(Range(info), n) \/ (a.at <= n /\ n < a.at + a.n)
    BY <1>2, <2>1, <2>2 DEF Absorbs
  <2>4. \A n \in Int : Covered(Range(a.info), n) => n \in 0 .. FileSize - 1
    <3>1. Range(a.info) \in SUBSET Span
      BY <1>4, LenProperties, ElementOfSeq DEF Range
    <3> QED BY <1>4, <3>1, CoveredInFile
  <2>5. 0 .. FileSize - 1 \subseteq Position /\ Position \subseteq Int
    BY <1>4, SpanFacts, MaxBlockAssumption DEF Position
  <2>6. Positions(Range(a.info)) = { n \in 0 .. FileSize - 1 : Covered(Range(a.info), n) }
    BY <2>4, <2>5 DEF Positions
  <2>7. ASSUME NEW p \in 0 .. FileSize - 1
        PROVE  Covered(Range(a.info), p) <=> content'[p] # -1
    <3>1. Covered(Range(info), p) <=> content[p] # -1
      BY <1>5, <2>5 DEF ChunkInv, ListIsWritten, Positions
    <3>2. CASE a.at <= p /\ p < a.at + a.n
      BY <1>4, <1>6, <1>7, <2>3, <3>2
    <3>3. CASE ~(a.at <= p /\ p < a.at + a.n)
      BY <1>6, <2>3, <3>1, <3>3
    <3> QED BY <3>2, <3>3
  <2>8. DOMAIN content' = 0 .. FileSize - 1
    BY <1>6
  <2> QED BY <1>3, <2>6, <2>7, <2>8 DEF ListIsWritten
<1> QED BY <1>8, <1>9 DEF ChunkInv

\* The merged list covers what the list covered, and nothing is written.
LEMMA AskForMissingInv == ASSUME ChunkInv, AskForMissing PROVE ChunkInv'
<1> DEFINE R == Range(info)
<1>1. R \in SUBSET Span
  BY LenProperties, ElementOfSeq DEF ChunkInv, ChunkTypeOK, Range
<1>2. PICK merged \in Ascending(Merged(R)) :
        /\ info' = merged
        /\ total' = Bytes(merged)
        /\ IF IsWhole(total')
             THEN whole' = TRUE /\ UNCHANGED toSender
             ELSE /\ UNCHANGED whole
                  /\ \E holes \in Ascending(Missing(merged)) : toSender' = toSender \o holes
  BY DEF AskForMissing
<1>3. merged \in Seq(Span) /\ Range(merged) = Merged(R)
  BY <1>1, MergedSpan, AscendingRange
<1>4. Bytes(merged) \in Nat
  <2>1. IsFiniteSet(Position)
    BY MaxBlockAssumption, FS_Interval DEF Position
  <2>2. Positions(Range(merged)) \in SUBSET Position
    BY DEF Positions
  <2> QED BY <2>1, <2>2, FS_Subset, FS_CardinalityType DEF Bytes
<1>5. toSender' \in Seq(Span)
  <2>1. toSender \in Seq(Span)
    BY DEF ChunkInv, ChunkTypeOK
  <2>2. CASE IsWhole(total')
    BY <1>2, <2>1, <2>2
  <2>3. CASE ~IsWhole(total')
    <3>1. PICK holes \in Ascending(Missing(merged)) : toSender' = toSender \o holes
      BY <1>2, <2>3
    <3>2. holes \in Seq(Span)
      BY <1>1, MissingSpan, AscendingRange
    <3> QED BY <2>1, <3>1, <3>2, ConcatProperties
  <2> QED BY <2>2, <2>3
<1>6. whole' \in BOOLEAN
  BY <1>2 DEF ChunkInv, ChunkTypeOK
<1>7. ChunkTypeOK'
  BY <1>2, <1>3, <1>4, <1>5, <1>6 DEF ChunkInv, ChunkTypeOK, AskForMissing
<1>8. Positions(Range(info')) = Positions(Range(info))
  BY <1>1, <1>2, <1>3, MergedCovers
<1>9. content' = content
  BY DEF AskForMissing
<1>10. ListIsWritten'
  BY <1>8, <1>9 DEF ChunkInv, ListIsWritten
<1> QED BY <1>7, <1>10 DEF ChunkInv

LEMMA LosePacketInv == ASSUME ChunkInv, LosePacket PROVE ChunkInv'
<1>1. toReceiver' \in Seq(Span) /\ toSender' \in Seq(Span)
  <2>1. toReceiver \in Seq(Span) /\ toSender \in Seq(Span)
    BY DEF ChunkInv, ChunkTypeOK
  <2>2. DOMAIN toReceiver = 1 .. Len(toReceiver) /\ DOMAIN toSender = 1 .. Len(toSender)
    BY <2>1, LenProperties
  <2> QED BY <2>1, <2>2, RemoveAtType DEF LosePacket
<1>2. ChunkTypeOK'
  BY <1>1 DEF ChunkInv, ChunkTypeOK, LosePacket
<1> QED BY <1>2 DEF ChunkInv, ListIsWritten, LosePacket

LEMMA InvInductive == ChunkInv /\ [ChunkNext]_chunkVars => ChunkInv'
<1> SUFFICES ASSUME ChunkInv, [ChunkNext]_chunkVars PROVE ChunkInv'
  OBVIOUS
<1>1. ASSUME NEW c \in Channels, UseChannel(c) PROVE ChunkInv'
  BY <1>1, UseChannelInv
<1>2. CASE SendData BY <1>2, SendDataInv
<1>3. CASE ReceiveReqData BY <1>3, ReceiveReqDataInv
<1>4. CASE ReceiveData BY <1>4, ReceiveDataInv
<1>5. CASE AskForMissing BY <1>5, AskForMissingInv
<1>6. CASE LosePacket BY <1>6, LosePacketInv
<1>7. CASE UNCHANGED chunkVars
  BY <1>7 DEF chunkVars, ChunkInv, ChunkTypeOK, ListIsWritten
<1> QED BY <1>1, <1>2, <1>3, <1>4, <1>5, <1>6, <1>7 DEF ChunkNext

\* Every range that is kept or sent, at either end, is a non-empty part of the file.
THEOREM ChunksTypeCorrect == ChunkSpec => []ChunkTypeOK
<1>1. ChunkInv => ChunkTypeOK BY DEF ChunkInv
<1> QED BY InitInv, InvInductive, <1>1, PTL DEF ChunkSpec

\* The receiver's progress list covers exactly the bytes that it has written to the
\* temporary file, whatever ranges arrived, in whatever order, however they overlap.
THEOREM ListMatchesFile == ChunkSpec => []ListIsWritten
<1>1. ChunkInv => ListIsWritten BY DEF ChunkInv
<1> QED BY InitInv, InvInductive, <1>1, PTL DEF ChunkSpec

-----------------------------------------------------------------------------
(* Transfers whose packets all have one size P: every range starts at a      *)
(* multiple of P and ends before one, or at the end of the file, so that no  *)
(* two ranges overlap in part.                                               *)

Multiple(P, n) == \E k \in Nat : n = k * P
Cuts(P) == { r \in Span : Multiple(P, r.lo) /\ (Multiple(P, r.hi + 1) \/ r.hi + 1 = FileSize) }
Packets(P) == { r \in Cuts(P) : r.hi - r.lo + 1 <= P }

LEMMA ProductsApart ==
  ASSUME NEW a \in Nat, NEW b \in Nat, NEW P \in Nat, a < b
  PROVE  a * P + P <= b * P
<1>1. PICK c \in Nat : b = a + 1 + c
  <2>1. b - a - 1 \in Nat /\ b = a + 1 + (b - a - 1) OBVIOUS
  <2> QED BY <2>1
<1>2. c * P \in Nat /\ a * P \in Nat
  OBVIOUS
<1>3. (a + 1 + c) * P = a * P + P + c * P
  OBVIOUS
<1> QED BY <1>1, <1>2, <1>3

LEMMA NextMultiple ==
  ASSUME NEW P \in Nat, NEW n \in Nat, Multiple(P, n)
  PROVE  Multiple(P, n + P)
<1>1. PICK k \in Nat : n = k * P
  BY DEF Multiple
<1>2. n + P = (k + 1) * P /\ k + 1 \in Nat
  BY <1>1
<1> QED BY <1>2 DEF Multiple

LEMMA CutsClosed == ASSUME NEW P \in Nat PROVE Closed(Cuts(P))
<1>1. Cuts(P) \subseteq Span
  BY DEF Cuts
<1>2. ASSUME NEW r \in Cuts(P), NEW s \in Cuts(P), r.lo <= s.hi
      PROVE  [lo |-> r.lo, hi |-> s.hi] \in Cuts(P)
  <2>1. [lo |-> r.lo, hi |-> s.hi] \in Span
    BY <1>1, <1>2, SpanFacts, MakeSpan
  <2> QED BY <2>1 DEF Cuts
<1> QED BY <1>1, <1>2 DEF Closed

\* A packet that reaches over the end of a range starts right behind it.
LEMMA PacketFollows ==
  ASSUME NEW P \in Nat \ {0}, NEW e \in Cuts(P), NEW d \in Packets(P),
         d.lo <= e.hi + 1, e.hi < d.hi
  PROVE  d.lo = e.hi + 1
<1>1. /\ e.hi \in Nat /\ d.lo \in Nat /\ d.hi \in Nat /\ FileSize \in Nat
      /\ d.hi < FileSize /\ d.hi - d.lo + 1 <= P
  BY SpanFacts DEF Cuts, Packets
<1>2. PICK k \in Nat : d.lo = k * P
  BY DEF Cuts, Packets, Multiple
<1>3. PICK m \in Nat : e.hi + 1 = m * P
  <2>1. e.hi + 1 # FileSize BY <1>1
  <2> QED BY <2>1 DEF Cuts, Multiple
<1>4. k * P \in Nat /\ m * P \in Nat
  OBVIOUS
<1>5. ~(k < m)
  <2>1. k < m => k * P + P <= m * P BY ProductsApart
  <2> QED BY <1>1, <1>2, <1>3, <1>4, <2>1
<1>6. ~(m < k)
  <2>1. m < k => m * P + P <= k * P BY ProductsApart
  <2> QED BY <1>1, <1>2, <1>3, <1>4, <2>1
<1>7. k = m
  BY <1>5, <1>6
<1> QED BY <1>2, <1>3, <1>7

\* Merging ranges of one packet size gives such ranges ...
LEMMA MergedCuts ==
  ASSUME NEW P \in Nat, NEW R \in SUBSET Cuts(P)
  PROVE  Merged(R) \subseteq Cuts(P)
<1> SUFFICES ASSUME NEW h \in Merged(R) PROVE h \in Cuts(P)
  OBVIOUS
<1>0. R \in SUBSET Span
  BY DEF Cuts
<1>1. h \in Span /\ h.lo \in Nat /\ h.hi \in Nat /\ h.lo <= h.hi
  BY <1>0, MergedSpan, SpanFacts
<1>2. \A c \in R : c.lo \in Nat /\ c.hi \in Nat
  BY <1>0, SpanFacts
<1>3. PICK c \in R : c.lo <= h.lo /\ h.lo <= c.hi
  BY <1>1 DEF Merged, Covered
<1>4. c.lo = h.lo
  <2>1. ~(c.lo <= h.lo - 1 /\ h.lo - 1 <= c.hi) BY DEF Merged, Covered
  <2> QED BY <1>1, <1>2, <1>3, <2>1
<1>5. PICK d \in R : d.lo <= h.hi /\ h.hi <= d.hi
  BY <1>1 DEF Merged, Covered
<1>6. d.hi = h.hi
  <2>1. ~(d.lo <= h.hi + 1 /\ h.hi + 1 <= d.hi) BY DEF Merged, Covered
  <2> QED BY <1>1, <1>2, <1>5, <2>1
<1> QED BY <1>1, <1>4, <1>6 DEF Cuts

\* ... and so does asking for what lies between them.
LEMMA MissingCuts ==
  ASSUME NEW P \in Nat, NEW R \in SUBSET Cuts(P), NEW list \in Ascending(Merged(R))
  PROVE  Missing(list) \subseteq Cuts(P)
<1>0. R \in SUBSET Span
  BY DEF Cuts
<1>1. /\ list \in Seq(Span) /\ list \in [1 .. Len(list) -> Merged(R)] /\ Len(list) \in Nat
      /\ \A i, j \in 1 .. Len(list) : i < j => list[i].lo < list[j].lo
  BY <1>0, MergedSpan, AscendingRange, LenProperties
<1>2. \A i \in 1 .. Len(list) : list[i] \in Cuts(P) /\ list[i] \in Span
  BY <1>1, MergedCuts DEF Cuts
<1>3. Missing(list) \subseteq Span
  BY <1>0, MissingSpan
<1>4. SUFFICES ASSUME NEW h \in Missing(list)
               PROVE  Multiple(P, h.lo) /\ (Multiple(P, h.hi + 1) \/ h.hi + 1 = FileSize)
  BY <1>3 DEF Cuts
<1>5. Multiple(P, 0)
  <2>1. 0 = 0 * P OBVIOUS
  <2> QED BY <2>1 DEF Multiple
<1>6. FileSize \in Nat /\ FileSize - 1 + 1 = FileSize
  BY SpanFacts
<1>7. CASE list = <<>>
  <2>1. h = [lo |-> 0, hi |-> FileSize - 1]
    BY <1>7 DEF Missing
  <2> QED BY <1>5, <1>6, <2>1
<1>8. CASE list # <<>>
  <2>1. 1 \in 1 .. Len(list) /\ Len(list) \in 1 .. Len(list)
    BY <1>1, <1>8, EmptySeq
  <2>2. \/ h = [lo |-> 0, hi |-> list[1].lo - 1]
        \/ \E i \in 2 .. Len(list) : h = [lo |-> list[i - 1].hi + 1, hi |-> list[i].lo - 1]
        \/ h = [lo |-> list[Len(list)].hi + 1, hi |-> FileSize - 1]
             /\ list[Len(list)].hi + 1 # FileSize
    BY <1>8 DEF Missing
  <2>3. CASE h = [lo |-> 0, hi |-> list[1].lo - 1]
    <3>1. list[1].lo \in Nat /\ Multiple(P, list[1].lo) BY <1>2, <2>1, SpanFacts DEF Cuts
    <3>2. h.lo = 0 /\ h.hi + 1 = list[1].lo BY <2>3, <3>1
    <3> QED BY <1>5, <3>1, <3>2
  <2>4. CASE \E i \in 2 .. Len(list) : h = [lo |-> list[i - 1].hi + 1, hi |-> list[i].lo - 1]
    <3>1. PICK i \in 2 .. Len(list) : h = [lo |-> list[i - 1].hi + 1, hi |-> list[i].lo - 1]
      BY <2>4
    <3>2. i \in 1 .. Len(list) /\ i - 1 \in 1 .. Len(list) /\ i - 1 < i
      BY <1>1
    <3>3. /\ list[i].lo \in Nat /\ list[i].lo < FileSize /\ Multiple(P, list[i].lo)
          /\ list[i - 1].hi \in Nat
          /\ Multiple(P, list[i - 1].hi + 1) \/ list[i - 1].hi + 1 = FileSize
      <4>1. list[i] \in Cuts(P) /\ list[i] \in Span /\ list[i - 1] \in Cuts(P) /\ list[i - 1] \in Span
        BY <1>2, <3>2
      <4> QED BY <1>6, <4>1, SpanFacts DEF Cuts
    <3>4. list[i - 1].hi + 1 < list[i].lo
      BY <1>0, <1>1, <3>2, MergedApart
    <3>5. h.lo = list[i - 1].hi + 1 /\ h.hi + 1 = list[i].lo
      BY <3>1, <3>3
    <3>6. list[i - 1].hi + 1 # FileSize
      BY <1>6, <3>3, <3>4
    <3> QED BY <3>3, <3>5, <3>6
  <2>5. CASE h = [lo |-> list[Len(list)].hi + 1, hi |-> FileSize - 1]
              /\ list[Len(list)].hi + 1 # FileSize
    <3>1. Multiple(P, list[Len(list)].hi + 1) BY <1>2, <2>1, <2>5 DEF Cuts
    <3> QED BY <1>6, <2>5, <3>1
  <2> QED BY <2>2, <2>3, <2>4, <2>5
<1> QED BY <1>7, <1>8

-----------------------------------------------------------------------------
(* While the channel was never switched the bytes are in their places. *)

OneSize(P) ==
  /\ pending \in Seq(Cuts(P)) /\ info \in Seq(Cuts(P)) /\ toSender \in Seq(Cuts(P))
  /\ toReceiver \in Seq(Packets(P))
  /\ \A p \in 0 .. FileSize - 1 : content[p] \in {-1, p}

SizeInv == ChunkInv /\ (switches = 0 => OneSize(PacketSize[channel]))

LEMMA InitSize == Init => SizeInv
<1> SUFFICES ASSUME Init PROVE SizeInv
  OBVIOUS
<1>1. OneSize(PacketSize[channel])
  BY EmptySeq DEF Init, OneSize
<1> QED BY <1>1, InitInv DEF SizeInv

LEMMA SendDataSize ==
  ASSUME ChunkInv, SendData, NEW P \in Nat \ {0}, P = PacketSize[channel], OneSize(P)
  PROVE  OneSize(P)'
<1> DEFINE first == pending[1]
           left == first.hi - first.lo + 1
           n == IF left > P THEN P ELSE left
           d == [lo |-> first.lo, hi |-> first.lo + n - 1]
<1>1. pending \in Seq(Cuts(P)) /\ pending # <<>> /\ toReceiver \in Seq(Packets(P))
  BY DEF OneSize, SendData
<1>2. toReceiver' = Append(toReceiver, d) /\ pending' = FirstSent(pending, n)
  BY DEF SendData
<1>3. 1 \in 1 .. Len(pending) /\ first \in Cuts(P) /\ first \in Span
  <2>1. 1 \in 1 .. Len(pending) BY <1>1, EmptySeq
  <2> QED BY <1>1, <2>1, ElementOfSeq DEF Cuts
<1>4. /\ first.lo \in Nat /\ first.hi \in Nat /\ first.lo <= first.hi /\ first.hi < FileSize
      /\ FileSize \in Nat /\ FileSize <= MaxBlock
      /\ Multiple(P, first.lo) /\ (Multiple(P, first.hi + 1) \/ first.hi + 1 = FileSize)
  BY <1>3, SpanFacts DEF Cuts
<1>5. /\ n \in Nat /\ n >= 1 /\ n <= left /\ n <= P
      /\ n = P \/ first.lo + n = first.hi + 1
  BY <1>4
<1>6. Multiple(P, first.lo + P)
  BY <1>4, NextMultiple
<1> HIDE DEF n, first
<1>7. d \in Packets(P)
  <2>1. first.lo + n - 1 \in Nat /\ first.lo <= first.lo + n - 1 /\ first.lo + n - 1 < FileSize
    BY <1>4, <1>5
  <2>2. d \in Span
    BY <1>4, <2>1, MakeSpan
  <2>3. d.lo = first.lo /\ d.hi + 1 = first.lo + n /\ d.hi - d.lo + 1 = n
    BY <1>4, <1>5
  <2>4. Multiple(P, d.hi + 1) \/ d.hi + 1 = FileSize
    BY <1>4, <1>5, <1>6, <2>3
  <2> HIDE DEF d
  <2> QED BY <1>4, <1>5, <2>2, <2>3, <2>4 DEF Packets, Cuts
<1>8. toReceiver' \in Seq(Packets(P))
  BY <1>1, <1>2, <1>7, AppendProperties
<1>9. pending' \in Seq(Cuts(P))
  <2>1. CASE first.lo + n > first.hi
    <3>1. pending' = Tail(pending) BY <1>2, <2>1 DEF FirstSent, first
    <3> QED BY <1>1, <3>1, HeadTailProperties
  <2>2. CASE ~(first.lo + n > first.hi)
    <3>1. n = P /\ first.lo + n \in Position /\ first.lo + n <= first.hi
      BY <1>4, <1>5, <2>2, MaxBlockAssumption DEF Position
    <3>2. [first EXCEPT !.lo = first.lo + n] \in Cuts(P)
      BY <1>3, <1>4, <1>6, <3>1 DEF Cuts, Span, Chunk
    <3>3. pending' = [pending EXCEPT ![1] = [first EXCEPT !.lo = first.lo + n]]
      BY <1>2, <2>2 DEF FirstSent, first
    <3> QED BY <1>1, <1>3, <3>2, <3>3, ExceptSeq
  <2> QED BY <2>1, <2>2
<1> QED BY <1>8, <1>9 DEF OneSize, SendData

LEMMA ReceiveReqDataSize ==
  ASSUME ReceiveReqData, NEW P \in Nat \ {0}, OneSize(P)
  PROVE  OneSize(P)'
<1>1. Head(toSender) \in Cuts(P) /\ toSender' \in Seq(Cuts(P))
  BY HeadTailProperties DEF OneSize, ReceiveReqData
<1>2. pending' \in Seq(Cuts(P))
  BY <1>1, CutsClosed, InsertHoleClosed DEF OneSize, ReceiveReqData
<1> QED BY <1>1, <1>2 DEF OneSize, ReceiveReqData

\* The bytes go where the packet starts: a packet that grows a range at its end
\* starts right behind it.
LEMMA ReceiveDataSize ==
  ASSUME ChunkInv, ReceiveData, NEW P \in Nat \ {0}, OneSize(P)
  PROVE  OneSize(P)'
<1> DEFINE d == Head(toReceiver)
           a == Absorbed(info, d)
<1>1. d \in Packets(P) /\ d \in Cuts(P) /\ toReceiver' \in Seq(Packets(P)) /\ info \in Seq(Cuts(P))
  BY HeadTailProperties DEF OneSize, ReceiveData, Packets
<1>2. Absorbs(Cuts(P), info, d, a)
  BY <1>1, CutsClosed, AbsorbedAbsorbs
<1>3. info' = a.info /\ content' = Written(content, d, a.at, a.n)
  BY DEF ReceiveData
<1> HIDE DEF d, a
<1>4. a.at = d.lo
  BY <1>1, <1>2, PacketFollows DEF Absorbs
<1>5. d.lo \in Nat
  BY <1>1, SpanFacts DEF Cuts
<1>6. DOMAIN content = 0 .. FileSize - 1
  BY DEF ChunkInv, ChunkTypeOK
<1>7. ASSUME NEW p \in 0 .. FileSize - 1 PROVE content'[p] \in {-1, p}
  <2>1. content'[p] = IF a.at <= p /\ p < a.at + a.n THEN d.lo + (p - a.at) ELSE content[p]
    BY <1>3, <1>6 DEF Written
  <2>2. d.lo + (p - a.at) = p
    BY <1>4, <1>5
  <2> QED BY <2>1, <2>2 DEF OneSize
<1>8. info' \in Seq(Cuts(P))
  BY <1>2, <1>3 DEF Absorbs
<1> QED BY <1>1, <1>7, <1>8 DEF OneSize, ReceiveData

LEMMA AskForMissingSize ==
  ASSUME AskForMissing, NEW P \in Nat \ {0}, OneSize(P)
  PROVE  OneSize(P)'
<1> DEFINE R == Range(info)
<1>1. R \in SUBSET Cuts(P) /\ R \in SUBSET Span
  <2>1. info \in [1 .. Len(info) -> Cuts(P)] BY LenProperties DEF OneSize
  <2> QED BY <2>1 DEF Range, Cuts
<1>2. PICK merged \in Ascending(Merged(R)) :
        /\ info' = merged
        /\ IF IsWhole(total')
             THEN UNCHANGED toSender
             ELSE \E holes \in Ascending(Missing(merged)) : toSender' = toSender \o holes
  BY DEF AskForMissing
<1>3. ASSUME NEW S, S \subseteq Cuts(P), NEW s \in Ascending(S) PROVE s \in Seq(Cuts(P))
  <2>1. S \in SUBSET Span BY <1>3 DEF Cuts
  <2>2. s \in [1 .. Len(s) -> S] /\ Len(s) \in Nat BY <2>1, AscendingRange, LenProperties
  <2>3. s \in [1 .. Len(s) -> Cuts(P)] BY <1>3, <2>2
  <2> QED BY <2>2, <2>3, FunctionIsSeq
<1>4. info' \in Seq(Cuts(P))
  BY <1>1, <1>2, <1>3, MergedCuts
<1>5. toSender' \in Seq(Cuts(P))
  <2>1. toSender \in Seq(Cuts(P))
    BY DEF OneSize
  <2>2. CASE IsWhole(total')
    BY <1>2, <2>1, <2>2
  <2>3. CASE ~IsWhole(total')
    <3>1. PICK holes \in Ascending(Missing(merged)) : toSender' = toSender \o holes
      BY <1>2, <2>3
    <3>2. Missing(merged) \subseteq Cuts(P)
      BY <1>1, MissingCuts
    <3>3. holes \in Seq(Cuts(P))
      BY <1>3, <3>2
    <3> QED BY <2>1, <3>1, <3>3, ConcatProperties
  <2> QED BY <2>2, <2>3
<1> QED BY <1>4, <1>5 DEF OneSize, AskForMissing

LEMMA LosePacketSize ==
  ASSUME LosePacket, NEW P, OneSize(P)
  PROVE  OneSize(P)'
<1>1. toReceiver' \in Seq(Packets(P)) /\ toSender' \in Seq(Cuts(P))
  <2>1. toReceiver \in Seq(Packets(P)) /\ toSender \in Seq(Cuts(P))
    BY DEF OneSize
  <2>2. DOMAIN toReceiver = 1 .. Len(toReceiver) /\ DOMAIN toSender = 1 .. Len(toSender)
    BY <2>1, LenProperties
  <2> QED BY <2>1, <2>2, RemoveAtType DEF LosePacket
<1> QED BY <1>1 DEF OneSize, LosePacket

LEMMA SizeInductive == SizeInv /\ [ChunkNext]_chunkVars => SizeInv'
<1> SUFFICES ASSUME SizeInv, [ChunkNext]_chunkVars PROVE SizeInv'
  OBVIOUS
<1>1. ChunkInv /\ ChunkInv'
  BY InvInductive DEF SizeInv
<1>2. SUFFICES ASSUME switches' = 0 PROVE OneSize(PacketSize[channel])'
  BY <1>1 DEF SizeInv
<1>3. switches \in Nat /\ channel \in Channels
  BY <1>1 DEF ChunkInv, ChunkTypeOK
<1>4. ASSUME NEW c \in Channels, UseChannel(c) PROVE FALSE
  BY <1>2, <1>3, <1>4 DEF UseChannel
<1>5. switches' = switches /\ channel' = channel
  BY <1>4 DEF ChunkNext, SendData, ReceiveReqData, ReceiveData, AskForMissing, LosePacket,
              chunkVars
<1>6. PICK P \in Nat \ {0} : P = PacketSize[channel]
  BY <1>3, ChunkAssumption
<1>7. OneSize(P)
  BY <1>2, <1>5, <1>6 DEF SizeInv
<1>8. OneSize(P)'
  <2>1. CASE SendData BY <1>1, <1>6, <1>7, <2>1, SendDataSize
  <2>2. CASE ReceiveReqData BY <1>7, <2>2, ReceiveReqDataSize
  <2>3. CASE ReceiveData BY <1>1, <1>7, <2>3, ReceiveDataSize
  <2>4. CASE AskForMissing BY <1>7, <2>4, AskForMissingSize
  <2>5. CASE LosePacket BY <1>7, <2>5, LosePacketSize
  <2>6. CASE UNCHANGED chunkVars BY <1>7, <2>6 DEF chunkVars, OneSize
  <2> QED BY <1>4, <2>1, <2>2, <2>3, <2>4, <2>5, <2>6 DEF ChunkNext
<1>9. PacketSize[channel]' = P
  BY <1>5, <1>6
<1> QED BY <1>8, <1>9 DEF OneSize

\* While all packets of a transfer have one size, whichever size that is, each byte
\* of the temporary file is the sent byte of that place or was never written, in
\* whatever order packets arrive, get lost and are asked for again.
THEOREM OneSizeIsRight == ChunkSpec => []ContentRight
<1>1. SizeInv => ContentRight
  BY DEF SizeInv, OneSize, ContentRight, ChunkInv, ChunkTypeOK
<1> QED BY InitSize, SizeInductive, <1>1, PTL DEF ChunkSpec

-----------------------------------------------------------------------------
(* What is asked for after a merge: the gaps of the received bytes, however    *)
(* they are described.                                                         *)

\* The longest runs of bytes of the file that are not covered.
Gaps(R) ==
  { h \in Span : /\ \A n \in h.lo .. h.hi : ~Covered(R, n)
                 /\ h.lo = 0 \/ Covered(R, h.lo - 1)
                 /\ h.hi + 1 = FileSize \/ Covered(R, h.hi + 1) }

LEMMA MakeGap ==
  ASSUME NEW R, NEW lo \in Nat, NEW hi \in Nat, lo <= hi, hi < FileSize,
         \A n \in lo .. hi : ~Covered(R, n),
         lo = 0 \/ Covered(R, lo - 1), hi + 1 = FileSize \/ Covered(R, hi + 1)
  PROVE  [lo |-> lo, hi |-> hi] \in Gaps(R)
<1> DEFINE h == [lo |-> lo, hi |-> hi]
<1>1. h \in Span /\ h.lo = lo /\ h.hi = hi
  BY MakeSpan
<1> HIDE DEF h
<1>2. h \in Gaps(R)
  BY <1>1 DEF Gaps
<1> QED BY <1>2 DEF h

LEMMA HolesAreGaps ==
  ASSUME NEW R \in SUBSET Span
  PROVE  Holes(Positions(R), FileSize) = Gaps(R)
<1> DEFINE got == Positions(R)
           from == got \cup {-1}
           inner == { p \in from \X got : Consecutive(got, p[1], p[2]) /\ p[1] + 1 # p[2] }
           last == { a \in from : (\A c \in got : c <= a) /\ a + 1 # FileSize }
<1>1. FileSize \in Nat /\ FileSize >= 1 /\ Pred(FileSize) = FileSize - 1
  BY SpanFacts DEF Pred
<1>2. \A n \in Int : n \in got <=> Covered(R, n)
  <2>1. \A n \in 0 .. FileSize - 1 : n \in Position
    BY SpanFacts, MaxBlockAssumption DEF Position
  <2>2. \A n \in Int : Covered(R, n) => n \in 0 .. FileSize - 1
    BY <1>1, CoveredInFile
  <2> QED BY <2>1, <2>2 DEF Positions
<1>3. \A n \in got : n \in Nat /\ n < FileSize
  <2>1. \A n \in got : n \in Nat BY MaxBlockAssumption DEF Positions, Position
  <2> QED BY <1>2, <2>1, CoveredInFile
<1>4. Holes(got, FileSize) = { [lo |-> p[1] + 1, hi |-> p[2] - 1] : p \in inner }
                               \cup { [lo |-> a + 1, hi |-> FileSize - 1] : a \in last }
  BY <1>1 DEF Holes
<1> HIDE DEF got
<1>5. ASSUME NEW a \in from, NEW b \in got, Consecutive(got, a, b), a + 1 # b
      PROVE  [lo |-> a + 1, hi |-> b - 1] \in Gaps(R)
  <2>1. a \in Int /\ a >= -1 /\ b \in Nat /\ b < FileSize /\ a < b
    BY <1>3, <1>5 DEF Consecutive
  <2>2. a + 1 \in Nat /\ b - 1 \in Nat /\ a + 1 <= b - 1 /\ b - 1 < FileSize
    BY <1>1, <1>5, <2>1
  <2>3. \A n \in a + 1 .. b - 1 : ~Covered(R, n)
    BY <1>2, <1>5, <2>1 DEF Consecutive
  <2>4. a + 1 = 0 \/ Covered(R, (a + 1) - 1)
    <3>1. (a + 1) - 1 = a BY <2>1
    <3> QED BY <1>2, <2>1, <3>1
  <2>5. Covered(R, b - 1 + 1)
    <3>1. b - 1 + 1 = b BY <2>1
    <3> QED BY <1>2, <2>1, <3>1
  <2> QED BY <2>2, <2>3, <2>4, <2>5, MakeGap
<1>6. ASSUME NEW a \in last
      PROVE  [lo |-> a + 1, hi |-> FileSize - 1] \in Gaps(R)
  <2>1. a \in Int /\ a >= -1 /\ a < FileSize /\ a + 1 # FileSize
    BY <1>1, <1>3
  <2>2. /\ a + 1 \in Nat /\ FileSize - 1 \in Nat
        /\ a + 1 <= FileSize - 1 /\ FileSize - 1 < FileSize
    BY <1>1, <2>1
  <2>3. \A n \in a + 1 .. FileSize - 1 : ~Covered(R, n)
    BY <1>1, <1>2, <1>3, <2>1
  <2>4. a + 1 = 0 \/ Covered(R, (a + 1) - 1)
    <3>1. (a + 1) - 1 = a BY <2>1
    <3> QED BY <1>2, <2>1, <3>1
  <2>5. FileSize - 1 + 1 = FileSize BY <1>1
  <2> QED BY <2>2, <2>3, <2>4, <2>5, MakeGap
<1>7. ASSUME NEW h \in Gaps(R)
      PROVE  \/ \E p \in inner : h = [lo |-> p[1] + 1, hi |-> p[2] - 1]
             \/ \E a \in last : h = [lo |-> a + 1, hi |-> FileSize - 1]
  <2>1. /\ h.lo \in Nat /\ h.hi \in Nat /\ h.lo <= h.hi /\ h.hi < FileSize
        /\ h = [lo |-> h.lo, hi |-> h.hi]
    BY SpanFacts DEF Gaps, Span, Chunk
  <2>2. /\ \A n \in h.lo .. h.hi : ~Covered(R, n)
        /\ h.lo = 0 \/ Covered(R, h.lo - 1)
        /\ h.hi + 1 = FileSize \/ Covered(R, h.hi + 1)
    BY DEF Gaps
  <2>3. h.lo - 1 \in from
    BY <1>2, <2>1, <2>2
  <2>4. \A c \in got : c <= h.lo - 1 \/ c >= h.hi + 1
    BY <1>2, <1>3, <2>1, <2>2
  <2>5. h.lo - 1 + 1 = h.lo /\ (h.hi + 1) - 1 = h.hi
    BY <2>1
  <2>6. CASE Covered(R, h.hi + 1)
    <3>1. h.hi + 1 \in got BY <1>2, <2>1, <2>6
    <3>2. Consecutive(got, h.lo - 1, h.hi + 1) /\ h.lo - 1 + 1 # h.hi + 1
      BY <2>1, <2>4 DEF Consecutive
    <3>3. <<h.lo - 1, h.hi + 1>> \in inner
      BY <2>3, <3>1, <3>2
    <3>4. h = [lo |-> <<h.lo - 1, h.hi + 1>>[1] + 1, hi |-> <<h.lo - 1, h.hi + 1>>[2] - 1]
      BY <2>1, <2>5
    <3> QED BY <3>3, <3>4
  <2>7. CASE h.hi + 1 = FileSize
    <3>1. \A c \in got : c <= h.lo - 1 BY <1>3, <2>1, <2>4, <2>7
    <3>2. h.lo - 1 \in last BY <2>1, <2>3, <2>7, <3>1
    <3>3. h = [lo |-> h.lo - 1 + 1, hi |-> FileSize - 1] BY <1>1, <2>1, <2>5, <2>7
    <3> QED BY <3>2, <3>3
  <2> QED BY <2>2, <2>6, <2>7
<1>8. \A p \in inner : [lo |-> p[1] + 1, hi |-> p[2] - 1] \in Gaps(R)
  BY <1>5
<1> HIDE DEF inner, last
<1>9. Holes(got, FileSize) = Gaps(R)
  BY <1>4, <1>6, <1>7, <1>8
<1> QED BY <1>9 DEF got

LEMMA MissingAreGaps ==
  ASSUME NEW R \in SUBSET Span, NEW list \in Ascending(Merged(R))
  PROVE  Missing(list) = Gaps(R)
<1> DEFINE L == Len(list)
<1>1. /\ list \in Seq(Span) /\ list \in [1 .. L -> Merged(R)] /\ L \in Nat
      /\ Range(list) = Merged(R)
      /\ \A i, j \in 1 .. L : i < j => list[i].lo < list[j].lo
  BY MergedSpan, AscendingRange, LenProperties
<1>2. FileSize \in Nat /\ FileSize >= 1
  BY SpanFacts
<1>3. \A i \in 1 .. L : /\ list[i].lo \in Nat /\ list[i].hi \in Nat
                       /\ list[i].lo <= list[i].hi /\ list[i].hi < FileSize
  BY <1>1, ElementOfSeq, SpanFacts
<1>4. \A i, j \in 1 .. L : i < j => list[i].hi + 1 < list[j].lo
  BY <1>1, MergedApart
<1>5. \A n \in Int : Covered(R, n) <=> Covers(list, n)
  <2>1. \A n \in Position : Covered(R, n) <=> Covered(Merged(R), n)
    BY MergedCovers DEF Positions
  <2>2. \A n \in Int : Covered(Merged(R), n) <=> Covers(list, n)
    BY <1>1, CoversIsCovered
  <2>3. \A n \in Int : Covered(R, n) \/ Covered(Merged(R), n) => n \in Position
    <3>1. Merged(R) \in SUBSET Span BY MergedSpan
    <3> QED BY <3>1, CoveredInFile, SpanFacts, MaxBlockAssumption DEF Position
  <2> QED BY <2>1, <2>2, <2>3
<1>6. ASSUME NEW i \in 1 .. L
      PROVE  Covered(R, list[i].lo) /\ Covered(R, list[i].hi)
  BY <1>3, <1>5 DEF Covers
<1> HIDE DEF L
<1>7. CASE list = <<>>
  <2>1. Missing(list) = { [lo |-> 0, hi |-> FileSize - 1] }
    BY <1>7 DEF Missing
  <2>2. \A n \in Int : ~Covered(R, n)
    BY <1>5, <1>7 DEF Covers
  <2>3. [lo |-> 0, hi |-> FileSize - 1] \in Gaps(R)
    BY <1>2, <2>2, MakeGap
  <2>4. ASSUME NEW h \in Gaps(R) PROVE h = [lo |-> 0, hi |-> FileSize - 1]
    <3>1. /\ h.lo \in Nat /\ h.hi \in Nat /\ h = [lo |-> h.lo, hi |-> h.hi]
      BY SpanFacts DEF Gaps, Span, Chunk
    <3>2. h.lo = 0 /\ h.hi + 1 = FileSize
      BY <2>2, <3>1 DEF Gaps
    <3>3. h.hi = FileSize - 1
      BY <1>2, <3>1, <3>2
    <3> QED BY <3>1, <3>2, <3>3
  <2> QED BY <2>1, <2>3, <2>4
<1>8. CASE list # <<>>
  <2>1. L \in Nat /\ L >= 1 /\ 1 \in 1 .. L /\ L \in 1 .. L
    BY <1>1, <1>8, EmptySeq DEF L
  <2>2. \A h : h \in Missing(list) <=>
          \/ list[1].lo # 0 /\ h = [lo |-> 0, hi |-> list[1].lo - 1]
          \/ \E i \in 2 .. L : /\ list[i - 1].hi + 1 # list[i].lo
                              /\ h = [lo |-> list[i - 1].hi + 1, hi |-> list[i].lo - 1]
          \/ list[L].hi + 1 # FileSize /\ h = [lo |-> list[L].hi + 1, hi |-> FileSize - 1]
    BY <1>8 DEF Missing, L
  <2>3. list[1].lo # 0 => [lo |-> 0, hi |-> list[1].lo - 1] \in Gaps(R)
    <3> SUFFICES ASSUME list[1].lo # 0 PROVE [lo |-> 0, hi |-> list[1].lo - 1] \in Gaps(R)
      OBVIOUS
    <3>1. \A i \in 1 .. L : list[1].lo <= list[i].lo
      BY <1>1, <1>3, <2>1
    <3>2. \A n \in 0 .. list[1].lo - 1 : ~Covered(R, n)
      BY <1>3, <1>5, <2>1, <3>1 DEF Covers, L
    <3>3. Covered(R, (list[1].lo - 1) + 1)
      <4>1. (list[1].lo - 1) + 1 = list[1].lo BY <1>3, <2>1
      <4> QED BY <1>6, <2>1, <4>1
    <3>4. list[1].lo - 1 \in Nat /\ list[1].lo - 1 < FileSize
      BY <1>2, <1>3, <2>1
    <3> QED BY <3>2, <3>3, <3>4, MakeGap
  <2>4. ASSUME NEW i \in 2 .. L
        PROVE  [lo |-> list[i - 1].hi + 1, hi |-> list[i].lo - 1] \in Gaps(R)
    <3>1. i \in 1 .. L /\ i - 1 \in 1 .. L /\ i - 1 < i /\ i \in Nat
      BY <1>1
    <3>2. /\ list[i - 1].hi \in Nat /\ list[i].lo \in Nat /\ list[i].lo < FileSize
          /\ list[i - 1].hi + 1 < list[i].lo
      BY <1>2, <1>3, <1>4, <3>1
    <3>3. \A k \in 1 .. L : list[k].hi <= list[i - 1].hi \/ list[i].lo <= list[k].lo
      <4> SUFFICES ASSUME NEW k \in 1 .. L
                   PROVE  list[k].hi <= list[i - 1].hi \/ list[i].lo <= list[k].lo
        OBVIOUS
      <4>1. CASE k < i - 1
        <5>1. list[k].hi + 1 < list[i - 1].lo BY <1>4, <3>1, <4>1
        <5> QED BY <1>3, <3>1, <5>1
      <4>2. CASE k = i - 1 BY <1>3, <4>2
      <4>3. CASE k = i BY <1>3, <4>3
      <4>4. CASE i < k
        <5>1. list[i].lo < list[k].lo BY <1>1, <3>1, <4>4 DEF L
        <5> QED BY <1>3, <3>1, <5>1
      <4> QED BY <3>1, <4>1, <4>2, <4>3, <4>4
    <3>4. \A n \in list[i - 1].hi + 1 .. list[i].lo - 1 : ~Covered(R, n)
      <4> SUFFICES ASSUME NEW n \in list[i - 1].hi + 1 .. list[i].lo - 1, Covered(R, n)
                   PROVE  FALSE
        OBVIOUS
      <4>1. PICK k \in 1 .. L : list[k].lo <= n /\ n <= list[k].hi
        BY <1>5, <3>2 DEF Covers, L
      <4>2. n \in Int /\ list[i - 1].hi < n /\ n < list[i].lo
        BY <3>2
      <4>3. list[k].lo \in Nat /\ list[k].hi \in Nat
        BY <1>3
      <4> QED BY <3>2, <3>3, <4>1, <4>2, <4>3
    <3>5. Covered(R, (list[i - 1].hi + 1) - 1) /\ Covered(R, (list[i].lo - 1) + 1)
      <4>1. (list[i - 1].hi + 1) - 1 = list[i - 1].hi /\ (list[i].lo - 1) + 1 = list[i].lo
        BY <3>2
      <4> QED BY <1>6, <3>1, <4>1
    <3>6. /\ list[i - 1].hi + 1 \in Nat /\ list[i].lo - 1 \in Nat
          /\ list[i - 1].hi + 1 <= list[i].lo - 1 /\ list[i].lo - 1 < FileSize
      BY <1>2, <3>2
    <3> QED BY <3>4, <3>5, <3>6, MakeGap
  <2>5. list[L].hi + 1 # FileSize
          => [lo |-> list[L].hi + 1, hi |-> FileSize - 1] \in Gaps(R)
    <3> SUFFICES ASSUME list[L].hi + 1 # FileSize
                 PROVE  [lo |-> list[L].hi + 1, hi |-> FileSize - 1] \in Gaps(R)
      OBVIOUS
    <3>1. \A i \in 1 .. L : list[i].hi <= list[L].hi
      <4> SUFFICES ASSUME NEW i \in 1 .. L PROVE list[i].hi <= list[L].hi
        OBVIOUS
      <4>1. CASE i < L
        <5>1. list[i].hi + 1 < list[L].lo BY <1>4, <2>1, <4>1
        <5> QED BY <1>3, <2>1, <5>1
      <4>2. CASE i = L BY <1>3, <4>2
      <4>3. i < L \/ i = L BY <2>1
      <4> QED BY <4>1, <4>2, <4>3
    <3>2. \A n \in list[L].hi + 1 .. FileSize - 1 : ~Covered(R, n)
      BY <1>2, <1>3, <1>5, <2>1, <3>1 DEF Covers, L
    <3>3. Covered(R, (list[L].hi + 1) - 1)
      <4>1. (list[L].hi + 1) - 1 = list[L].hi BY <1>3, <2>1
      <4> QED BY <1>6, <2>1, <4>1
    <3>4. /\ list[L].hi + 1 \in Nat /\ FileSize - 1 \in Nat /\ FileSize - 1 < FileSize
          /\ list[L].hi + 1 <= FileSize - 1 /\ (FileSize - 1) + 1 = FileSize
      BY <1>2, <1>3, <2>1
    <3> QED BY <3>2, <3>3, <3>4, MakeGap
  <2>6. Missing(list) \subseteq Gaps(R)
    BY <2>2, <2>3, <2>4, <2>5
  <2>7. ASSUME NEW h \in Gaps(R) PROVE h \in Missing(list)
    <3>1. /\ h.lo \in Nat /\ h.hi \in Nat /\ h.lo <= h.hi /\ h.hi < FileSize
          /\ h = [lo |-> h.lo, hi |-> h.hi]
      BY SpanFacts DEF Gaps, Span, Chunk
    <3>2. /\ \A n \in h.lo .. h.hi : ~Covered(R, n)
          /\ h.lo = 0 \/ Covered(R, h.lo - 1)
          /\ h.hi + 1 = FileSize \/ Covered(R, h.hi + 1)
      BY DEF Gaps
    <3>3. ASSUME NEW k \in 1 .. L
          PROVE  list[k].hi < h.lo \/ h.hi < list[k].lo
      <4> SUFFICES ASSUME h.lo <= list[k].hi, list[k].lo <= h.hi PROVE FALSE
        BY <1>3, <3>1
      <4>1. CASE h.lo <= list[k].lo
        <5>1. list[k].lo \in h.lo .. h.hi BY <1>3, <3>1, <4>1
        <5> QED BY <1>6, <3>2, <5>1
      <4>2. CASE list[k].lo < h.lo
        <5>1. Covers(list, h.lo) BY <4>2, <1>3, <3>1 DEF Covers, L
        <5>2. h.lo \in h.lo .. h.hi BY <3>1
        <5> QED BY <1>5, <3>1, <3>2, <5>1, <5>2
      <4> QED BY <1>3, <3>1, <4>1, <4>2
    \* The range that follows the gap, where one does.
    <3>4. h.hi + 1 = FileSize \/ \E j \in 1 .. L : list[j].lo = h.hi + 1
      <4> SUFFICES ASSUME h.hi + 1 # FileSize PROVE \E j \in 1 .. L : list[j].lo = h.hi + 1
        OBVIOUS
      <4>1. PICK j \in 1 .. L : list[j].lo <= h.hi + 1 /\ h.hi + 1 <= list[j].hi
        BY <1>5, <3>1, <3>2 DEF Covers, L
      <4>2. h.hi < list[j].lo
        BY <1>3, <3>1, <3>3, <4>1
      <4>3. list[j].lo = h.hi + 1
        BY <1>3, <3>1, <4>1, <4>2
      <4> QED BY <4>3
    <3>5. CASE h.lo = 0
      <4>1. h.hi < list[1].lo
        BY <1>3, <2>1, <3>3, <3>5
      <4>2. h.hi + 1 # FileSize
        BY <1>2, <1>3, <2>1, <3>1, <4>1
      <4>3. PICK j \in 1 .. L : list[j].lo = h.hi + 1
        BY <3>4, <4>2
      <4>4. list[1].lo <= list[j].lo
        BY <1>1, <1>3, <2>1
      <4>5. list[1].lo = h.hi + 1
        BY <1>3, <2>1, <3>1, <4>1, <4>3, <4>4
      <4>6. list[1].lo # 0 /\ h = [lo |-> 0, hi |-> list[1].lo - 1]
        <5>1. h.hi = list[1].lo - 1 /\ list[1].lo # 0 BY <3>1, <4>5
        <5> QED BY <3>1, <3>5, <5>1
      <4> QED BY <2>2, <4>6
    <3>6. CASE h.lo # 0
      <4>1. PICK k \in 1 .. L : list[k].lo <= h.lo - 1 /\ h.lo - 1 <= list[k].hi
        BY <1>5, <3>1, <3>2, <3>6 DEF Covers, L
      <4>2. list[k].hi + 1 = h.lo
        <5>1. list[k].hi < h.lo BY <1>3, <3>1, <3>3, <4>1
        <5> QED BY <1>3, <3>1, <4>1, <5>1
      <4>3. ASSUME NEW j \in 1 .. L, list[j].lo = h.hi + 1 PROVE k < j
        <5>1. list[k].lo < list[j].lo BY <1>3, <3>1, <4>2, <4>3
        <5>2. ~(j < k) /\ j # k BY <1>1, <1>3, <5>1
        <5> QED BY <2>1, <5>2
      <4>4. CASE k = L
        <5>1. h.hi + 1 = FileSize BY <2>1, <3>4, <4>3, <4>4
        <5>2. list[L].hi + 1 # FileSize BY <3>1, <4>2, <4>4
        <5>3. h = [lo |-> list[L].hi + 1, hi |-> FileSize - 1]
          <6>1. h.hi = FileSize - 1 BY <3>1, <5>1
          <6> QED BY <3>1, <4>2, <4>4, <6>1
        <5> QED BY <2>2, <5>2, <5>3
      <4>5. CASE k # L
        <5> DEFINE i == k + 1
        <5>1. i \in 2 .. L /\ i \in 1 .. L /\ k < i /\ i - 1 = k
          BY <2>1, <4>5
        <5> HIDE DEF i
        <5>2. h.lo < list[i].lo
          BY <1>4, <4>2, <5>1
        <5>3. h.hi < list[i].lo
          BY <1>3, <3>1, <3>3, <5>1, <5>2
        <5>4. h.hi + 1 # FileSize
          BY <1>2, <1>3, <3>1, <5>1, <5>3
        <5>5. PICK j \in 1 .. L : list[j].lo = h.hi + 1
          BY <3>4, <5>4
        <5>6. list[i].lo <= list[j].lo
          <6>1. k < j BY <4>3, <5>5
          <6>2. i = j \/ i < j BY <2>1, <5>1, <6>1
          <6>3. i < j => list[i].lo < list[j].lo BY <1>1, <5>1 DEF L
          <6>4. list[i].lo \in Nat /\ list[j].lo \in Nat BY <1>3, <5>1
          <6> QED BY <6>2, <6>3, <6>4
        <5>7. list[i].lo = h.hi + 1
          BY <1>3, <3>1, <5>1, <5>3, <5>5, <5>6
        <5>8. list[i - 1].hi + 1 = h.lo /\ h.hi = list[i].lo - 1 /\ list[i - 1].hi + 1 # list[i].lo
          <6>1. list[i - 1].hi + 1 = h.lo BY <4>2, <5>1
          <6>2. h.hi = list[i].lo - 1 BY <3>1, <5>7
          <6>3. h.lo # list[i].lo BY <3>1, <5>7
          <6> QED BY <6>1, <6>2, <6>3
        <5>9. h = [lo |-> list[i - 1].hi + 1, hi |-> list[i].lo - 1]
          BY <3>1, <5>8
        <5> QED BY <2>2, <5>1, <5>8, <5>9
      <4> QED BY <4>4, <4>5
    <3> QED BY <3>5, <3>6
  <2> QED BY <2>6, <2>7
<1> QED BY <1>7, <1>8

\* What the receiver asks for after merging its list is exactly what FileTransfer
\* takes it to ask for, the holes of the set of bytes it has, for every file size
\* and every list of ranges.
THEOREM AsksForTheHoles == ChunkSpec => []MissingIsHoles
<1>1. ChunkInv => MissingIsHoles
  <2> SUFFICES ASSUME ChunkInv, NEW merged \in Ascending(Merged(Range(info)))
               PROVE  Missing(merged) = Holes(Positions(Range(info)), FileSize)
    BY DEF MissingIsHoles
  <2>1. Range(info) \in SUBSET Span
    BY LenProperties, ElementOfSeq DEF ChunkInv, ChunkTypeOK, Range
  <2> QED BY <2>1, MissingAreGaps, HolesAreGaps
<1> QED BY InitInv, InvInductive, <1>1, PTL DEF ChunkSpec

-----------------------------------------------------------------------------
(* Packets of one byte: the byte model and the block model agree.          *)

\* Both lists that are ever kept are in the order of their ranges' starts.
StartsAscend(list) == \A i, j \in 1 .. Len(list) : i < j => list[i].lo < list[j].lo

\* What became of the list is a: d went behind all ranges, or the walk stopped at
\* entry j because that holds d, starts after it, or grows by it.
Behind(list, d, a) ==
  /\ a = [info |-> Append(list, d), at |-> d.lo, n |-> d.hi - d.lo + 1]
  /\ \A i \in 1 .. Len(list) : list[i].hi + 1 < d.lo
Holds(list, j, d, a) ==
  list[j].lo <= d.lo /\ d.hi <= list[j].hi /\ a = [info |-> list, at |-> d.lo, n |-> 0]
Inserts(list, j, d, a) ==
  /\ d.lo < list[j].lo /\ d.hi + 1 < list[j].lo
  /\ a = [info |-> InsertAt(list, j, d), at |-> d.lo, n |-> d.hi - d.lo + 1]
GrowsDown(list, j, d, a) ==
  /\ d.lo < list[j].lo /\ list[j].lo <= d.hi + 1
  /\ a = [info |-> [list EXCEPT ![j] = [lo |-> d.lo, hi |-> list[j].hi]],
          at |-> d.lo, n |-> list[j].lo - d.lo]
GrowsUp(list, j, d, a) ==
  /\ list[j].lo <= d.lo /\ d.lo <= list[j].hi + 1 /\ list[j].hi < d.hi
  /\ a = [info |-> [list EXCEPT ![j] = [lo |-> list[j].lo, hi |-> d.hi]],
          at |-> list[j].hi + 1, n |-> d.hi - list[j].hi]
StopsAt(list, j, d, a) ==
  /\ \A i \in 1 .. j - 1 : list[i].hi + 1 < d.lo
  /\ Holds(list, j, d, a) \/ Inserts(list, j, d, a) \/ GrowsDown(list, j, d, a) \/ GrowsUp(list, j, d, a)

LEMMA AbsorbedAt ==
  ASSUME NEW list \in Seq(Span), NEW d \in Span
  PROVE  \/ Behind(list, d, Absorbed(list, d))
         \/ \E j \in 1 .. Len(list) : StopsAt(list, j, d, Absorbed(list, d))
<1> DEFINE stops == { j \in 1 .. Len(list) :
                        Inside(d, list[j]) \/ StartsBefore(d, list[j]) \/ ExtendsEnd(d, list[j]) }
           a == Absorbed(list, d)
<1>1. /\ d.lo \in Nat /\ d.hi \in Nat /\ d.lo <= d.hi /\ Succ(d.hi) = d.hi + 1
      /\ Len(list) \in Nat
  BY SpanFacts, SuccInFile, LenProperties
<1>2. \A i \in 1 .. Len(list) :
        /\ list[i].lo \in Nat /\ list[i].hi \in Nat /\ list[i].lo <= list[i].hi
        /\ Succ(list[i].hi) = list[i].hi + 1
        /\ list[i] \in Chunk
  BY ElementOfSeq, SpanFacts, SuccInFile
<1>3. ASSUME NEW i \in 1 .. Len(list), i \notin stops PROVE list[i].hi + 1 < d.lo
  BY <1>1, <1>2, <1>3 DEF Inside, StartsBefore, ExtendsEnd
<1>4. CASE stops = {}
  <2>1. a = [info |-> Append(list, d), at |-> d.lo, n |-> d.hi - d.lo + 1]
    BY <1>4 DEF Absorbed
  <2>2. \A i \in 1 .. Len(list) : list[i].hi + 1 < d.lo
    BY <1>3, <1>4
  <2> QED BY <2>1, <2>2 DEF Behind
<1>5. CASE stops # {}
  <2> DEFINE j == Min(stops)
             e == list[j]
  <2>1. j \in stops /\ \A i \in stops : j <= i
    <3>1. stops \subseteq Nat OBVIOUS
    <3> HIDE DEF stops
    <3> QED BY <1>5, <3>1, MinOfNat
  <2>2. a = CASE Inside(d, e) -> [info |-> list, at |-> d.lo, n |-> 0]
              [] StartsBefore(d, e) /\ Succ(d.hi) < e.lo ->
                   [info |-> InsertAt(list, j, d), at |-> d.lo, n |-> d.hi - d.lo + 1]
              [] StartsBefore(d, e) /\ Succ(d.hi) >= e.lo ->
                   [info |-> [list EXCEPT ![j].lo = d.lo], at |-> d.lo, n |-> e.lo - d.lo]
              [] ExtendsEnd(d, e) ->
                   [info |-> [list EXCEPT ![j].hi = d.hi], at |-> e.hi + 1, n |-> d.hi - e.hi]
    BY <1>5 DEF Absorbed
  <2>3. j \in 1 .. Len(list) /\ (Inside(d, e) \/ StartsBefore(d, e) \/ ExtendsEnd(d, e))
    BY <2>1
  <2>4. \A i \in 1 .. j - 1 : list[i].hi + 1 < d.lo
    <3> SUFFICES ASSUME NEW i \in 1 .. j - 1 PROVE list[i].hi + 1 < d.lo
      OBVIOUS
    <3>1. i \in 1 .. Len(list) /\ ~(j <= i) BY <1>1, <2>3
    <3>2. i \notin stops BY <2>1, <3>1
    <3> QED BY <1>3, <3>1, <3>2
  <2>5. /\ e.lo \in Nat /\ e.hi \in Nat /\ e.lo <= e.hi /\ Succ(e.hi) = e.hi + 1
        /\ e = [lo |-> e.lo, hi |-> e.hi]
    BY <1>2, <2>3 DEF Chunk
  <2>6. /\ [list EXCEPT ![j].lo = d.lo] = [list EXCEPT ![j] = [lo |-> d.lo, hi |-> e.hi]]
        /\ [list EXCEPT ![j].hi = d.hi] = [list EXCEPT ![j] = [lo |-> e.lo, hi |-> d.hi]]
    <3>1. /\ [e EXCEPT !.lo = d.lo] = [lo |-> d.lo, hi |-> e.hi]
          /\ [e EXCEPT !.hi = d.hi] = [lo |-> e.lo, hi |-> d.hi]
      <4> HIDE DEF e
      <4> QED BY <2>5
    <3>2. /\ [list EXCEPT ![j].lo = d.lo] = [list EXCEPT ![j] = [list[j] EXCEPT !.lo = d.lo]]
          /\ [list EXCEPT ![j].hi = d.hi] = [list EXCEPT ![j] = [list[j] EXCEPT !.hi = d.hi]]
      OBVIOUS
    <3> QED BY <3>1, <3>2, Zenon
  <2> HIDE DEF j, e, a
  <2>7. \/ /\ e.lo <= d.lo /\ d.hi <= e.hi /\ a = [info |-> list, at |-> d.lo, n |-> 0]
        \/ /\ d.lo < e.lo /\ d.hi + 1 < e.lo
           /\ a = [info |-> InsertAt(list, j, d), at |-> d.lo, n |-> d.hi - d.lo + 1]
        \/ /\ d.lo < e.lo /\ e.lo <= d.hi + 1
           /\ a = [info |-> [list EXCEPT ![j] = [lo |-> d.lo, hi |-> e.hi]],
                   at |-> d.lo, n |-> e.lo - d.lo]
        \/ /\ e.lo <= d.lo /\ d.lo <= e.hi + 1 /\ e.hi < d.hi
           /\ a = [info |-> [list EXCEPT ![j] = [lo |-> e.lo, hi |-> d.hi]],
                   at |-> e.hi + 1, n |-> d.hi - e.hi]
    <3>1. CASE Inside(d, e)
      BY <1>1, <2>2, <2>5, <3>1 DEF Inside, StartsBefore, ExtendsEnd
    <3>2. CASE StartsBefore(d, e) /\ d.hi + 1 < e.lo
      BY <1>1, <2>2, <2>5, <3>2 DEF Inside, StartsBefore, ExtendsEnd
    <3>3. CASE StartsBefore(d, e) /\ ~(d.hi + 1 < e.lo)
      <4>1. a = [info |-> [list EXCEPT ![j].lo = d.lo], at |-> d.lo, n |-> e.lo - d.lo]
        BY <1>1, <2>2, <2>5, <3>3 DEF Inside, StartsBefore, ExtendsEnd
      <4>2. a = [info |-> [list EXCEPT ![j] = [lo |-> d.lo, hi |-> e.hi]],
                 at |-> d.lo, n |-> e.lo - d.lo]
        BY <2>6, <4>1, Zenon
      <4>3. d.lo < e.lo /\ e.lo <= d.hi + 1 BY <1>1, <2>5, <3>3 DEF StartsBefore
      <4> QED BY <4>2, <4>3
    <3>4. CASE ~Inside(d, e) /\ ExtendsEnd(d, e)
      <4>1. a = [info |-> [list EXCEPT ![j].hi = d.hi], at |-> e.hi + 1, n |-> d.hi - e.hi]
        BY <1>1, <2>2, <2>5, <3>4 DEF Inside, StartsBefore, ExtendsEnd
      <4>2. a = [info |-> [list EXCEPT ![j] = [lo |-> e.lo, hi |-> d.hi]],
                 at |-> e.hi + 1, n |-> d.hi - e.hi]
        BY <2>6, <4>1, Zenon
      <4>3. e.lo <= d.lo /\ d.lo <= e.hi + 1 /\ e.hi < d.hi BY <1>1, <2>5, <3>4 DEF ExtendsEnd
      <4> QED BY <4>2, <4>3
    <3> QED BY <2>3, <2>5, <1>1, <3>1, <3>2, <3>3, <3>4
  <2>8. StopsAt(list, j, d, a)
    BY <2>4, <2>7 DEF e, StopsAt, Holds, Inserts, GrowsDown, GrowsUp
  <2> QED BY <2>3, <2>8 DEF a
<1> QED BY <1>4, <1>5

LEMMA SpansOf ==
  ASSUME NEW list \in Seq(Span)
  PROVE  /\ Len(list) \in Nat
         /\ \A i \in 1 .. Len(list) : /\ list[i].lo \in Nat /\ list[i].hi \in Nat
                                     /\ list[i].lo <= list[i].hi
                                     /\ list[i] = [lo |-> list[i].lo, hi |-> list[i].hi]
         /\ \A v : v \in Range(list) <=> \E i \in 1 .. Len(list) : v = list[i]
<1>1. Len(list) \in Nat /\ DOMAIN list = 1 .. Len(list)
  BY LenProperties
<1>2. \A i \in 1 .. Len(list) : /\ list[i].lo \in Nat /\ list[i].hi \in Nat
                               /\ list[i].lo <= list[i].hi
                               /\ list[i] = [lo |-> list[i].lo, hi |-> list[i].hi]
  BY ElementOfSeq, SpanFacts DEF Chunk
<1> QED BY <1>1, <1>2 DEF Range

\* A relation that each two entries of a list have, in their order.
Pairs(list, B) == \A i, k \in 1 .. Len(list) : i < k => <<list[i], list[k]>> \in B

LEMMA AppendPairs ==
  ASSUME NEW list \in Seq(Span), NEW d \in Span, NEW B, Pairs(list, B),
         \A i \in 1 .. Len(list) : <<list[i], d>> \in B
  PROVE  Pairs(Append(list, d), B)
<1>1. /\ Len(Append(list, d)) = Len(list) + 1 /\ Len(list) \in Nat
      /\ \A i \in 1 .. Len(list) : Append(list, d)[i] = list[i]
      /\ Append(list, d)[Len(list) + 1] = d
  BY AppendProperties, LenProperties
<1> QED BY <1>1 DEF Pairs

LEMMA InsertPairs ==
  ASSUME NEW list \in Seq(Span), NEW d \in Span, NEW j \in 1 .. Len(list), NEW B, Pairs(list, B),
         \A i \in 1 .. Len(list) : i < j => <<list[i], d>> \in B,
         \A i \in 1 .. Len(list) : i >= j => <<d, list[i]>> \in B
  PROVE  Pairs(InsertAt(list, j, d), B)
<1> DEFINE new == InsertAt(list, j, d)
<1>1. Len(list) \in Nat BY LenProperties
<1>2. /\ Len(new) = Len(list) + 1
      /\ \A i \in 1 .. Len(list) + 1 : new[i] = IF i < j THEN list[i] ELSE IF i = j THEN d ELSE list[i - 1]
  BY InsertAtIs
<1> HIDE DEF new
<1>3. ASSUME NEW m \in 1 .. Len(list) + 1, NEW n \in 1 .. Len(list) + 1, m < n
      PROVE  <<new[m], new[n]>> \in B
  <2>1. CASE n < j
    <3>1. m \in 1 .. Len(list) /\ n \in 1 .. Len(list) /\ m < j BY <1>1, <1>3, <2>1
    <3> QED BY <1>2, <1>3, <2>1, <3>1 DEF Pairs
  <2>2. CASE n = j
    <3>1. m \in 1 .. Len(list) /\ m < j BY <1>1, <1>3, <2>2
    <3> QED BY <1>2, <2>2, <3>1
  <2>3. CASE n > j
    <3>1. n - 1 \in 1 .. Len(list) /\ n - 1 >= j /\ new[n] = list[n - 1] BY <1>1, <1>2, <2>3
    <3>2. CASE m = j BY <1>2, <3>1, <3>2
    <3>3. CASE m < j
      <4>1. m \in 1 .. Len(list) /\ new[m] = list[m] /\ m < n - 1 BY <1>1, <1>2, <2>3, <3>3
      <4> QED BY <3>1, <4>1 DEF Pairs
    <3>4. CASE m > j
      <4>1. m - 1 \in 1 .. Len(list) /\ new[m] = list[m - 1] /\ m - 1 < n - 1
        BY <1>1, <1>2, <1>3, <3>4
      <4> QED BY <3>1, <4>1 DEF Pairs
    <3> QED BY <1>1, <3>2, <3>3, <3>4
  <2> QED BY <1>1, <2>1, <2>2, <2>3
<1> QED BY <1>2, <1>3 DEF Pairs, new

LEMMA ExceptPairs ==
  ASSUME NEW list \in Seq(Span), NEW j \in 1 .. Len(list), NEW f, NEW B, Pairs(list, B),
         \A i \in 1 .. Len(list) : i < j => <<list[i], f>> \in B,
         \A i \in 1 .. Len(list) : i > j => <<f, list[i]>> \in B
  PROVE  Pairs([list EXCEPT ![j] = f], B)
<1> DEFINE new == [list EXCEPT ![j] = f]
<1>1. Len(list) \in Nat /\ Len(new) = Len(list)
  BY LenProperties
<1>2. \A i \in 1 .. Len(list) : new[i] = IF i = j THEN f ELSE list[i]
  BY LenProperties
<1> HIDE DEF new
<1>3. ASSUME NEW m \in 1 .. Len(list), NEW n \in 1 .. Len(list), m < n PROVE <<new[m], new[n]>> \in B
  <2>1. CASE m # j /\ n # j BY <1>2, <1>3, <2>1 DEF Pairs
  <2>2. CASE m = j BY <1>1, <1>2, <1>3, <2>2
  <2>3. CASE n = j BY <1>1, <1>2, <1>3, <2>3
  <2> QED BY <2>1, <2>2, <2>3
<1> QED BY <1>1, <1>3 DEF Pairs, new

Ascents == { q \in Span \X Span : q[1].lo < q[2].lo }

LEMMA AscendPairs ==
  ASSUME NEW list \in Seq(Span)
  PROVE  StartsAscend(list) <=> Pairs(list, Ascents)
<1>1. \A i \in 1 .. Len(list) : list[i] \in Span
  BY ElementOfSeq
<1>2. \A i, k \in 1 .. Len(list) : <<list[i], list[k]>> \in Ascents <=> list[i].lo < list[k].lo
  BY <1>1 DEF Ascents
<1> QED BY <1>2 DEF StartsAscend, Pairs

\* The list is kept in order by what packets do to it.
LEMMA AbsorbedAscends ==
  ASSUME NEW list \in Seq(Span), NEW d \in Span, StartsAscend(list)
  PROVE  StartsAscend(Absorbed(list, d).info)
<1> DEFINE a == Absorbed(list, d)
<1>1. d.lo \in Nat /\ d.hi \in Nat /\ d.lo <= d.hi /\ d.hi < FileSize
  BY SpanFacts
<1>2. /\ Len(list) \in Nat
      /\ \A i \in 1 .. Len(list) : /\ list[i].lo \in Nat /\ list[i].hi \in Nat
                                  /\ list[i].lo <= list[i].hi
                                  /\ list[i] \in Span /\ list[i].hi < FileSize
  BY SpansOf, ElementOfSeq, SpanFacts
<1>3. a.info \in Seq(Span) /\ Pairs(list, Ascents)
  BY SpanClosed, AbsorbedAbsorbs, AscendPairs DEF Absorbs
<1>4. SUFFICES Pairs(a.info, Ascents)
  BY <1>3, AscendPairs
<1>5. \A r, q \in Span : r.lo < q.lo => <<r, q>> \in Ascents
  BY DEF Ascents
<1>6. CASE Behind(list, d, a)
  <2>1. \A i \in 1 .. Len(list) : <<list[i], d>> \in Ascents
    <3>1. \A i \in 1 .. Len(list) : list[i].lo < d.lo
      BY <1>1, <1>2, <1>6 DEF Behind
    <3> QED BY <1>2, <1>5, <3>1
  <2>2. a.info = Append(list, d)
    BY <1>6 DEF Behind
  <2> QED BY <1>3, <2>1, <2>2, AppendPairs
<1>7. ASSUME NEW j \in 1 .. Len(list), StopsAt(list, j, d, a) PROVE Pairs(a.info, Ascents)
  <2>1. \A i \in 1 .. Len(list) : i < j => list[i].hi + 1 < d.lo
    BY <1>2, <1>7 DEF StopsAt
  <2>2. \A i \in 1 .. Len(list) : i < j => list[i].lo < d.lo /\ list[i].lo < list[j].lo
    BY <1>1, <1>2, <2>1 DEF StartsAscend
  <2>3. \A i \in 1 .. Len(list) : i > j => list[j].lo < list[i].lo
    BY DEF StartsAscend
  <2>4. CASE Holds(list, j, d, a)
    <3>1. a.info = list BY <2>4 DEF Holds
    <3> QED BY <1>3, <3>1
  <2>5. CASE Inserts(list, j, d, a)
    <3>1. d.lo < list[j].lo /\ a.info = InsertAt(list, j, d) BY <2>5 DEF Inserts
    <3>2. \A i \in 1 .. Len(list) : i >= j => d.lo < list[i].lo
      BY <1>1, <1>2, <2>3, <3>1
    <3>3. /\ \A i \in 1 .. Len(list) : i < j => <<list[i], d>> \in Ascents
          /\ \A i \in 1 .. Len(list) : i >= j => <<d, list[i]>> \in Ascents
      BY <1>2, <1>5, <2>2, <3>2
    <3> QED BY <1>3, <3>1, <3>3, InsertPairs
  <2>6. ASSUME NEW f \in Span, a.info = [list EXCEPT ![j] = f],
               f.lo = list[j].lo \/ (f.lo = d.lo /\ d.lo < list[j].lo)
        PROVE  Pairs(a.info, Ascents)
    <3>1. \A i \in 1 .. Len(list) : (i < j => list[i].lo < f.lo) /\ (i > j => f.lo < list[i].lo)
      BY <1>1, <1>2, <2>2, <2>3, <2>6
    <3>2. /\ \A i \in 1 .. Len(list) : i < j => <<list[i], f>> \in Ascents
          /\ \A i \in 1 .. Len(list) : i > j => <<f, list[i]>> \in Ascents
      BY <1>2, <1>5, <3>1
    <3> QED BY <1>3, <2>6, <3>2, ExceptPairs
  <2>7. CASE GrowsDown(list, j, d, a)
    <3> DEFINE f == [lo |-> d.lo, hi |-> list[j].hi]
    <3>1. a.info = [list EXCEPT ![j] = f] /\ f.lo = d.lo /\ d.lo < list[j].lo
      BY <2>7 DEF GrowsDown
    <3>2. f \in Span BY <1>1, <1>2, <3>1, MakeSpan
    <3> HIDE DEF f, a
    <3> QED BY <2>6, <3>1, <3>2
  <2>8. CASE GrowsUp(list, j, d, a)
    <3> DEFINE f == [lo |-> list[j].lo, hi |-> d.hi]
    <3>1. a.info = [list EXCEPT ![j] = f] /\ f.lo = list[j].lo /\ list[j].lo <= d.lo
      BY <2>8 DEF GrowsUp
    <3>2. f \in Span BY <1>1, <1>2, <3>1, MakeSpan
    <3> HIDE DEF f, a
    <3> QED BY <2>6, <3>1, <3>2
  <2> QED BY <1>7, <2>4, <2>5, <2>7, <2>8 DEF StopsAt
<1> QED BY <1>6, <1>7, AbsorbedAt

\* Absorb with its parts named: only the first range that does not end before b - 1
\* is looked at.
LEMMA AbsorbFirst ==
  ASSUME NEW list \in Seq(Span), StartsAscend(list), NEW b \in Nat,
         NEW j \in 1 .. Len(list), \A i \in 1 .. j - 1 : list[i].hi + 1 < b, b <= list[j].hi + 1
  PROVE  Absorb(Range(list), b)
           = (Range(list) \ {list[j]}) \cup {Grown(list[j], b)}
               \cup { r \in {[lo |-> b, hi |-> b]} : b + 1 < list[j].lo }
<1> DEFINE ranges == Range(list)
           near  == { c \in ranges : b <= c.hi + 1 }
           first == { c \in near : \A other \in near : c.lo <= other.lo }
<1>1. /\ Len(list) \in Nat
      /\ \A i \in 1 .. Len(list) : list[i].lo \in Nat /\ list[i].hi \in Nat
      /\ \A v : v \in ranges <=> \E i \in 1 .. Len(list) : v = list[i]
  BY SpansOf
<1> HIDE DEF ranges
<1>2. list[j] \in near
  BY <1>1
<1>3. ASSUME NEW c \in near PROVE \E i \in 1 .. Len(list) : c = list[i] /\ (i = j \/ list[j].lo < c.lo)
  <2>1. PICK i \in 1 .. Len(list) : c = list[i] BY <1>1
  <2>2. CASE i < j
    <3>1. i \in 1 .. j - 1 BY <1>1, <2>2
    <3>2. list[i].hi + 1 < b BY <3>1
    <3> QED BY <1>1, <2>1, <3>2
  <2>3. CASE i >= j BY <1>1, <2>1, <2>3 DEF StartsAscend
  <2> QED BY <1>1, <2>2, <2>3
<1>4. first = {list[j]}
  <2>1. list[j] \in first
    <3> SUFFICES ASSUME NEW c \in near PROVE list[j].lo <= c.lo BY <1>2
    <3>1. PICK i \in 1 .. Len(list) : c = list[i] /\ (i = j \/ list[j].lo < c.lo) BY <1>3
    <3> QED BY <1>1, <3>1
  <2>2. ASSUME NEW c \in first PROVE c = list[j]
    <3>1. c \in near /\ c.lo <= list[j].lo BY <1>2, <2>2
    <3>2. PICK i \in 1 .. Len(list) : c = list[i] /\ (i = j \/ list[j].lo < c.lo) BY <1>3, <3>1
    <3> QED BY <1>1, <3>1, <3>2
  <2> QED BY <2>1, <2>2
<1>5. Absorb(ranges, b) = (ranges \ first) \cup { Grown(c, b) : c \in first }
                            \cup { r \in {[lo |-> b, hi |-> b]} : \A c \in first : b + 1 < c.lo }
  BY DEF Absorb
<1> HIDE DEF first
<1> QED BY <1>4, <1>5 DEF ranges

\* What one byte does to the list is what a block does to the set of ranges.
LEMMA ByteAsBlock ==
  ASSUME NEW list \in Seq(Span), StartsAscend(list), NEW p \in 0 .. FileSize - 1
  PROVE  LET a == Absorbed(list, [lo |-> p, hi |-> p])
             after == Absorb(Range(list), p)
         IN  Range(a.info) = after /\ a.n = IF after = Range(list) THEN 0 ELSE 1
<1> DEFINE d == [lo |-> p, hi |-> p]
           a == Absorbed(list, d)
           after == Absorb(Range(list), p)
<1>1. d \in Span /\ d.lo = p /\ d.hi = p /\ p \in Nat
  <2>1. p \in Nat /\ p < FileSize BY SpanFacts
  <2> QED BY <2>1, MakeSpan
<1>2. /\ Len(list) \in Nat
      /\ \A i \in 1 .. Len(list) : /\ list[i].lo \in Nat /\ list[i].hi \in Nat
                                  /\ list[i].lo <= list[i].hi
                                  /\ list[i] = [lo |-> list[i].lo, hi |-> list[i].hi]
      /\ \A v : v \in Range(list) <=> \E i \in 1 .. Len(list) : v = list[i]
  BY SpansOf
<1>3. a.info \in Seq(Span)
  BY <1>1, SpanClosed, AbsorbedAbsorbs DEF Absorbs
<1>4. \A v : v \in Range(a.info) <=> \E i \in 1 .. Len(a.info) : v = a.info[i]
  BY <1>3, SpansOf
<1>5. Behind(list, d, a) \/ \E j \in 1 .. Len(list) : StopsAt(list, j, d, a)
  BY <1>1, AbsorbedAt
<1> HIDE DEF a, d
<1>6. CASE Behind(list, d, a)
  <2>1. /\ a.info = Append(list, d) /\ a.n = 1
        /\ \A i \in 1 .. Len(list) : list[i].hi + 1 < p
    BY <1>1, <1>6 DEF Behind
  <2>2. after = Range(list) \cup {d}
    <3>1. ASSUME NEW c \in Range(list) PROVE ~(p <= c.hi + 1)
      <4>1. PICK i \in 1 .. Len(list) : c = list[i] BY <1>2
      <4>2. list[i].hi + 1 < p /\ list[i].hi \in Nat BY <1>2, <2>1
      <4> QED BY <1>1, <4>1, <4>2
    <3> QED BY <3>1 DEF Absorb, d
  <2>3. d \notin Range(list)
    BY <1>1, <1>2, <2>1
  <2>4. Range(a.info) = Range(list) \cup {d}
    <3>1. /\ Len(a.info) = Len(list) + 1
          /\ \A i \in 1 .. Len(list) : a.info[i] = list[i]
          /\ a.info[Len(list) + 1] = d
      BY <1>1, <1>2, <2>1, AppendProperties
    <3>2. \A i : i \in 1 .. Len(a.info) <=> i \in 1 .. Len(list) \/ i = Len(list) + 1
      BY <1>2, <3>1
    <3> QED BY <1>2, <1>4, <3>1, <3>2
  <2> HIDE DEF after
  <2>5. after # Range(list) BY <2>2, <2>3
  <2> QED BY <2>1, <2>2, <2>4, <2>5 DEF after, a, d
<1>7. ASSUME NEW j \in 1 .. Len(list), StopsAt(list, j, d, a)
      PROVE  Range(a.info) = after /\ a.n = IF after = Range(list) THEN 0 ELSE 1
  <2> DEFINE e == list[j]
             others == Range(list) \ {e}
  <2>1. \A i \in 1 .. j - 1 : list[i].hi + 1 < p
    BY <1>1, <1>7 DEF StopsAt
  <2>2. e.lo \in Nat /\ e.hi \in Nat /\ e.lo <= e.hi /\ e = [lo |-> e.lo, hi |-> e.hi] /\ e \in Range(list)
    BY <1>2
  <2>3. \A i \in 1 .. Len(list) : i < j => list[i].hi + 1 < p /\ list[i].lo < e.lo
    <3> SUFFICES ASSUME NEW i \in 1 .. Len(list), i < j PROVE list[i].hi + 1 < p /\ list[i].lo < e.lo
      OBVIOUS
    <3>1. i \in 1 .. j - 1 BY <1>2
    <3> QED BY <2>1, <3>1 DEF StartsAscend
  <2>4. \A i \in 1 .. Len(list) : i > j => e.lo < list[i].lo
    BY DEF StartsAscend
  <2>5. \A v : v \in others <=> \E i \in 1 .. Len(list) : i # j /\ v = list[i]
    <3>1. \A i \in 1 .. Len(list) : i # j => list[i] # e
      BY <1>2, <2>2, <2>3, <2>4
    <3> QED BY <1>2, <3>1
  <2>6. p <= e.hi + 1
    BY <1>1, <1>7, <2>2 DEF StopsAt, Holds, Inserts, GrowsDown, GrowsUp
  <2>7. after = others \cup {Grown(e, p)} \cup { r \in {d} : p + 1 < e.lo }
    BY <1>1, <2>1, <2>6, AbsorbFirst DEF d
  <2>8. ASSUME NEW f, f \notin Range(list), a.info = [list EXCEPT ![j] = f]
        PROVE  Range(a.info) = others \cup {f} /\ Range(a.info) # Range(list)
    <3>1. Len(a.info) = Len(list) /\ \A i \in 1 .. Len(list) : a.info[i] = IF i = j THEN f ELSE list[i]
      BY <1>2, <2>8, LenProperties
    <3>2. Range(a.info) = others \cup {f}
      BY <1>4, <2>5, <3>1
    <3> QED BY <2>8, <3>2
  <2>9. /\ d.lo < e.lo => d \notin Range(list) /\ \A h : [lo |-> d.lo, hi |-> h] \notin Range(list)
        /\ e.hi < d.hi => [lo |-> e.lo, hi |-> d.hi] \notin Range(list)
    <3>1. \A i \in 1 .. Len(list) : i < j \/ i = j \/ i > j BY <1>2
    <3>2. ASSUME d.lo < e.lo, NEW h, NEW i \in 1 .. Len(list), list[i] = [lo |-> d.lo, hi |-> h] PROVE FALSE
      <4>1. list[i].lo = d.lo BY <3>2
      <4> QED BY <1>1, <1>2, <2>2, <2>3, <2>4, <3>1, <3>2, <4>1
    <3>3. ASSUME e.hi < d.hi, NEW i \in 1 .. Len(list), list[i] = [lo |-> e.lo, hi |-> d.hi] PROVE FALSE
      <4>1. list[i].lo = e.lo /\ list[i].hi = d.hi BY <3>3
      <4> QED BY <1>1, <1>2, <2>2, <2>3, <2>4, <3>1, <3>3, <4>1
    <3>4. d = [lo |-> d.lo, hi |-> d.hi] BY <1>1 DEF d
    <3> QED BY <1>2, <3>2, <3>3, <3>4
  <2> HIDE DEF after, e, others
  <2>10. CASE Holds(list, j, d, a)
    <3>1. e.lo <= p /\ p <= e.hi /\ a.info = list /\ a.n = 0
      BY <1>1, <2>10 DEF Holds, e
    <3>2. Grown(e, p) = e BY <1>1, <2>2, <3>1 DEF Grown
    <3>3. ~(p + 1 < e.lo) BY <1>1, <2>2, <3>1
    <3>4. after = Range(list) BY <2>2, <2>7, <3>2, <3>3 DEF others
    <3> QED BY <3>1, <3>4
  <2>11. CASE Inserts(list, j, d, a)
    <3>1. p < e.lo /\ p + 1 < e.lo /\ a.info = InsertAt(list, j, d) /\ a.n = 1
      BY <1>1, <2>11 DEF Inserts, e
    <3>2. Grown(e, p) = e BY <1>1, <2>2, <3>1 DEF Grown
    <3>3. after = Range(list) \cup {d} BY <2>2, <2>7, <3>1, <3>2 DEF others
    <3>4. Range(a.info) = Range(list) \cup {d}
      <4>1. /\ Len(a.info) = Len(list) + 1
            /\ \A i \in 1 .. Len(list) + 1 :
                 a.info[i] = IF i < j THEN list[i] ELSE IF i = j THEN d ELSE list[i - 1]
        BY <1>1, <3>1, InsertAtIs
      <4>2. ASSUME NEW i \in 1 .. Len(list) PROVE \E k \in 1 .. Len(list) + 1 : a.info[k] = list[i]
        <5>1. CASE i < j
          <6>1. i \in 1 .. Len(list) + 1 /\ a.info[i] = list[i] BY <1>2, <4>1, <5>1
          <6> QED BY <6>1
        <5>2. CASE ~(i < j)
          <6>1. i + 1 \in 1 .. Len(list) + 1 /\ ~(i + 1 < j) /\ i + 1 # j /\ i + 1 - 1 = i BY <1>2, <5>2
          <6>2. a.info[i + 1] = list[i] BY <4>1, <6>1
          <6> QED BY <6>1, <6>2
        <5> QED BY <5>1, <5>2
      <4>3. ASSUME NEW k \in 1 .. Len(list) + 1
            PROVE a.info[k] = d \/ \E i \in 1 .. Len(list) : a.info[k] = list[i]
        <5>1. k < j => k \in 1 .. Len(list) BY <1>2
        <5>2. ~(k < j) /\ k # j => k - 1 \in 1 .. Len(list) BY <1>2
        <5> QED BY <4>1, <5>1, <5>2
      <4>4. j \in 1 .. Len(list) + 1 /\ a.info[j] = d BY <1>2, <4>1
      <4>5. ASSUME NEW v \in Range(a.info) PROVE v = d \/ v \in Range(list)
        <5>1. PICK k \in 1 .. Len(list) + 1 : v = a.info[k] BY <1>4, <4>1
        <5>2. CASE a.info[k] = d BY <5>1, <5>2
        <5>3. CASE \E i \in 1 .. Len(list) : a.info[k] = list[i] BY <1>2, <5>1, <5>3
        <5> QED BY <4>3, <5>2, <5>3
      <4>6. \A v \in Range(list) : v \in Range(a.info)
        BY <1>2, <1>4, <4>1, <4>2
      <4>7. d \in Range(a.info)
        BY <1>4, <4>1, <4>4
      <4> QED BY <4>5, <4>6, <4>7
    <3>5. d \notin Range(list) BY <1>1, <2>9, <3>1
    <3>6. after # Range(list) BY <3>3, <3>5
    <3> QED BY <3>1, <3>3, <3>4, <3>6
  <2>12. CASE GrowsDown(list, j, d, a)
    <3>1. /\ p < e.lo /\ e.lo <= p + 1 /\ a.n = e.lo - p
          /\ a.info = [list EXCEPT ![j] = [lo |-> p, hi |-> e.hi]]
      BY <1>1, <2>12 DEF GrowsDown, e
    <3>2. p + 1 = e.lo /\ a.n = 1 /\ p # e.hi + 1 BY <1>1, <2>2, <3>1
    <3>3. Grown(e, p) = [lo |-> p, hi |-> e.hi] BY <3>2 DEF Grown
    <3>4. after = others \cup {[lo |-> p, hi |-> e.hi]} BY <1>1, <2>2, <2>7, <3>2, <3>3
    <3>5. [lo |-> p, hi |-> e.hi] \notin Range(list) BY <1>1, <2>9, <3>1
    <3>6. Range(a.info) = after /\ after # Range(list) BY <2>8, <3>1, <3>4, <3>5
    <3> QED BY <3>2, <3>6
  <2>13. CASE GrowsUp(list, j, d, a)
    <3>1. /\ e.lo <= p /\ p <= e.hi + 1 /\ e.hi < p /\ a.n = p - e.hi
          /\ a.info = [list EXCEPT ![j] = [lo |-> e.lo, hi |-> p]]
      BY <1>1, <2>13 DEF GrowsUp, e
    <3>2. p = e.hi + 1 /\ a.n = 1 /\ p + 1 # e.lo /\ ~(p + 1 < e.lo) BY <1>1, <2>2, <3>1
    <3>3. Grown(e, p) = [lo |-> e.lo, hi |-> p] BY <3>2 DEF Grown
    <3>4. after = others \cup {[lo |-> e.lo, hi |-> p]} BY <2>7, <3>2, <3>3
    <3>5. [lo |-> e.lo, hi |-> p] \notin Range(list) BY <1>1, <2>9, <3>1
    <3>6. Range(a.info) = after /\ after # Range(list) BY <2>8, <3>1, <3>4, <3>5
    <3> QED BY <3>2, <3>6
  <2> QED BY <1>7, <2>10, <2>11, <2>12, <2>13 DEF StopsAt
<1> QED BY <1>5, <1>6, <1>7 DEF a, d

\* The list is in order: packets keep it so, and a merge sorts it.
LEMMA NextAscends ==
  ChunkInv /\ StartsAscend(info) /\ [ChunkNext]_chunkVars => StartsAscend(info')
<1> SUFFICES ASSUME ChunkInv, StartsAscend(info), [ChunkNext]_chunkVars PROVE StartsAscend(info')
  OBVIOUS
<1>1. info \in Seq(Span) /\ toReceiver \in Seq(Span)
  BY DEF ChunkInv, ChunkTypeOK
<1>2. CASE ReceiveData
  <2>1. Head(toReceiver) \in Span
    BY <1>1, <1>2, HeadTailProperties DEF ReceiveData
  <2>2. info' = Absorbed(info, Head(toReceiver)).info
    BY <1>2 DEF ReceiveData
  <2> QED BY <1>1, <2>1, <2>2, AbsorbedAscends
<1>3. CASE AskForMissing
  <2>1. Range(info) \in SUBSET Span
    BY <1>1, LenProperties, ElementOfSeq DEF Range
  <2>2. info' \in Ascending(Merged(Range(info)))
    BY <1>3 DEF AskForMissing
  <2> QED BY <2>1, <2>2, MergedSpan, AscendingRange DEF StartsAscend
<1>4. CASE UNCHANGED info
  BY <1>4
<1>5. ReceiveData \/ AskForMissing \/ UNCHANGED info
  BY DEF ChunkNext, UseChannel, SendData, ReceiveReqData, LosePacket, chunkVars
<1> QED BY <1>2, <1>3, <1>4, <1>5

\* In every state that can be reached, a packet of one byte does to the list and to
\* the count of bytes what the model of whole files takes a block to do: what is
\* checked of it with blocks holds of the code's walk over the list, for files of
\* any size and lists that came about in any way.
THEOREM BytesAreBlocks == ChunkSpec => []OneByteIsBlock
<1>1. Init => StartsAscend(info)
  BY EmptySeq DEF Init, StartsAscend
<1>2. ChunkSpec => [](ChunkInv /\ StartsAscend(info))
  <2>1. ChunkInv /\ StartsAscend(info) /\ [ChunkNext]_chunkVars => (ChunkInv /\ StartsAscend(info))'
    BY InvInductive, NextAscends DEF StartsAscend
  <2> QED BY <1>1, <2>1, InitInv, PTL DEF ChunkSpec
<1>3. ChunkInv /\ StartsAscend(info) => OneByteIsBlock
  <2> SUFFICES ASSUME ChunkInv, StartsAscend(info), NEW p \in 0 .. FileSize - 1
               PROVE  LET a == Absorbed(info, [lo |-> p, hi |-> p])
                          after == Absorb(Range(info), p)
                      IN  Range(a.info) = after /\ a.n = IF after = Range(info) THEN 0 ELSE 1
    BY DEF OneByteIsBlock
  <2>1. info \in Seq(Span) BY DEF ChunkInv, ChunkTypeOK
  <2> QED BY <2>1, ByteAsBlock
<1> QED BY <1>2, <1>3, PTL

-----------------------------------------------------------------------------
(* Transfers of at most three packets of one size: each byte counts once.    *)

LEMMA MultiplesApart ==
  ASSUME NEW P \in Nat, NEW m \in Nat, NEW n \in Nat, Multiple(P, m), Multiple(P, n), m < n
  PROVE  m + P <= n
<1>1. PICK k \in Nat : m = k * P
  BY DEF Multiple
<1>2. PICK l \in Nat : n = l * P
  BY DEF Multiple
<1>3. k < l
  <2>1. l < k => l * P + P <= k * P BY ProductsApart
  <2>2. l * P \in Nat /\ k * P \in Nat OBVIOUS
  <2> QED BY <1>1, <1>2, <2>1, <2>2
<1> QED BY <1>1, <1>2, <1>3, ProductsApart

\* Ranges with a byte between them.
Spaced == { q \in Span \X Span : q[1].hi + 1 < q[2].lo }
Tidy(list) == Pairs(list, Spaced)

LEMMA SpacedIs == ASSUME NEW r \in Span, NEW q \in Span
                  PROVE <<r, q>> \in Spaced <=> r.hi + 1 < q.lo
BY DEF Spaced

LEMMA TidyIs ==
  ASSUME NEW list \in Seq(Span)
  PROVE  Tidy(list) <=> \A i, k \in 1 .. Len(list) : i < k => list[i].hi + 1 < list[k].lo
<1>1. \A i \in 1 .. Len(list) : list[i] \in Span
  BY ElementOfSeq
<1>2. \A i, k \in 1 .. Len(list) : <<list[i], list[k]>> \in Spaced <=> list[i].hi + 1 < list[k].lo
  BY <1>1, SpacedIs
<1> QED BY <1>2 DEF Tidy, Pairs

\* What a packet adds to a list of three packets at most with gaps between its
\* ranges was not there, and there are gaps between the ranges of the new list too,
\* unless the packet has filled the last of them.
LEMMA TidyAbsorbed ==
  ASSUME NEW P \in Nat \ {0}, FileSize <= P + P + P, NEW list \in Seq(Cuts(P)), NEW d \in Packets(P),
         Tidy(list)
  PROVE  LET a == Absorbed(list, d)
         IN  /\ \A m \in Int : a.at <= m /\ m < a.at + a.n => ~Covers(list, m)
             /\ Tidy(a.info) \/ \A m \in 0 .. FileSize - 1 : Covers(a.info, m)
<1> DEFINE a == Absorbed(list, d)
           New == \A m \in Int : a.at <= m /\ m < a.at + a.n => ~Covers(list, m)
           Full == \A m \in 0 .. FileSize - 1 : Covers(a.info, m)
<1>1. list \in Seq(Span) /\ d \in Span /\ d \in Cuts(P)
  BY CutsClosed, SeqOfSpans DEF Packets, Cuts
<1>2. /\ d.lo \in Nat /\ d.hi \in Nat /\ d.lo <= d.hi /\ d.hi < FileSize /\ d.hi + 1 <= d.lo + P
      /\ Multiple(P, d.lo) /\ FileSize \in Nat
  BY <1>1, SpanFacts DEF Packets, Cuts
<1>3. /\ Len(list) \in Nat
      /\ \A i \in 1 .. Len(list) :
           /\ list[i].lo \in Nat /\ list[i].hi \in Nat /\ list[i].lo <= list[i].hi
           /\ list[i] \in Span /\ list[i] \in Cuts(P) /\ list[i].hi < FileSize
           /\ Multiple(P, list[i].lo)
           /\ Multiple(P, list[i].hi + 1) \/ list[i].hi + 1 = FileSize
  <2>1. \A i \in 1 .. Len(list) : list[i] \in Cuts(P) BY ElementOfSeq
  <2> QED BY <1>1, <2>1, SpanFacts, SpansOf DEF Cuts
<1>4. \A i, k \in 1 .. Len(list) : i < k => list[i].hi + 1 < list[k].lo
  BY <1>1, TidyIs
<1>5. Absorbs(Cuts(P), list, d, a)
  BY <1>1, CutsClosed, AbsorbedAbsorbs
<1>6. d.lo \in Nat /\ d.hi \in Nat /\ d.lo <= d.hi
  BY <1>2
<1>7. \A i \in 1 .. Len(list) : list[i].lo \in Nat /\ list[i].hi \in Nat /\ list[i].lo <= list[i].hi
  BY <1>3
<1>8. Pairs(list, Spaced)
  BY DEF Tidy
<1>9. Behind(list, d, a) \/ \E j \in 1 .. Len(list) : StopsAt(list, j, d, a)
  BY <1>1, AbsorbedAt
<1> HIDE DEF a
<1>10. CASE Behind(list, d, a)
  <2>1. a.info = Append(list, d) /\ a.at = d.lo /\ \A i \in 1 .. Len(list) : list[i].hi + 1 < d.lo
    BY <1>10 DEF Behind
  <2>2. New
    BY <1>2, <1>3, <2>1 DEF Covers
  <2>3. \A i \in 1 .. Len(list) : <<list[i], d>> \in Spaced
    BY <1>1, <1>3, <2>1, SpacedIs
  <2>4. Tidy(a.info)
    BY <1>1, <2>1, <2>3, AppendPairs DEF Tidy
  <2> QED BY <2>2, <2>4 DEF a
<1>11. ASSUME NEW j \in 1 .. Len(list), StopsAt(list, j, d, a) PROVE New /\ (Tidy(a.info) \/ Full)
  <2> DEFINE e == list[j]
  <2>1. \A i \in 1 .. Len(list) : i < j => list[i].hi + 1 < d.lo
    BY <1>3, <1>11 DEF StopsAt
  <2>2. \A i \in 1 .. Len(list) : i < j \/ i = j \/ i > j
    BY <1>3
  <2>3. e \in Span /\ e \in Cuts(P) /\ e.lo \in Nat /\ e.hi \in Nat /\ e.lo <= e.hi /\ e.hi < FileSize
        /\ Multiple(P, e.lo)
    BY <1>3
  <2>4. CASE Holds(list, j, d, a)
    <3>1. a.info = list /\ a.at = d.lo /\ a.n = 0 BY <2>4 DEF Holds
    <3> QED BY <1>2, <3>1
  <2>5. CASE Inserts(list, j, d, a)
    <3>1. /\ d.hi + 1 < e.lo /\ a.info = InsertAt(list, j, d)
          /\ a.at = d.lo /\ a.n = d.hi - d.lo + 1
      BY <2>5 DEF Inserts
    <3>2. \A i \in 1 .. Len(list) : i >= j => d.hi + 1 < list[i].lo
      <4>1. \A i \in 1 .. Len(list) : i > j => e.hi + 1 < list[i].lo BY <1>4
      <4> HIDE DEF e
      <4>2. d.hi + 1 < e.lo BY <3>1
      <4>3. \A i \in 1 .. Len(list) : i > j => d.hi + 1 < list[i].lo BY <1>6, <1>7, <2>3, <4>1, <4>2
      <4> QED BY <2>2, <4>2, <4>3 DEF e
    <3>3. New
      <4> SUFFICES ASSUME NEW m \in Int, d.lo <= m, m <= d.hi, NEW i \in 1 .. Len(list)
                   PROVE  ~(list[i].lo <= m /\ m <= list[i].hi)
        <5>1. a.at = d.lo /\ a.at + a.n = d.hi + 1 BY <1>6, <3>1
        <5> QED BY <1>6, <5>1 DEF Covers
      <4>1. CASE i < j BY <1>6, <1>7, <2>1, <4>1
      <4>2. CASE i >= j BY <1>6, <1>7, <3>2, <4>2
      <4> QED BY <2>2, <4>1, <4>2
    <3>4. /\ \A i \in 1 .. Len(list) : i < j => <<list[i], d>> \in Spaced
          /\ \A i \in 1 .. Len(list) : i >= j => <<d, list[i]>> \in Spaced
      BY <1>1, <1>3, <2>1, <3>2, SpacedIs
    <3>5. Tidy(a.info)
      BY <1>1, <3>1, <3>4, InsertPairs DEF Tidy
    <3> QED BY <3>3, <3>5
  <2>6. CASE GrowsDown(list, j, d, a)
    <3> DEFINE f == [lo |-> d.lo, hi |-> e.hi]
    <3>1. /\ d.lo < e.lo /\ a.info = [list EXCEPT ![j] = f] /\ a.at = d.lo /\ a.n = e.lo - d.lo
      BY <2>6 DEF GrowsDown
    <3>2. f \in Span /\ f.lo = d.lo /\ f.hi = e.hi
      BY <1>2, <2>3, <3>1, MakeSpan
    <3> HIDE DEF f
    <3>3. \A i \in 1 .. Len(list) : i > j => e.hi + 1 < list[i].lo
      BY <1>4
    <3> HIDE DEF e
    <3>4. New
      <4> SUFFICES ASSUME NEW m \in Int, d.lo <= m, m < e.lo, NEW i \in 1 .. Len(list)
                   PROVE  ~(list[i].lo <= m /\ m <= list[i].hi)
        BY <1>6, <2>3, <3>1 DEF Covers
      <4>1. CASE i < j BY <1>6, <1>7, <2>1, <4>1
      <4>2. CASE i = j BY <2>3, <4>2 DEF e
      <4>3. CASE i > j BY <1>7, <2>3, <3>3, <4>3
      <4> QED BY <2>2, <4>1, <4>2, <4>3
    <3>5. /\ \A i \in 1 .. Len(list) : i < j => <<list[i], f>> \in Spaced
          /\ \A i \in 1 .. Len(list) : i > j => <<f, list[i]>> \in Spaced
      BY <1>3, <2>1, <3>2, <3>3, SpacedIs
    <3>6. Pairs([list EXCEPT ![j] = f], Spaced)
      BY <1>1, <1>8, <3>5, ExceptPairs
    <3>7. Tidy(a.info)
      BY <3>1, <3>6 DEF Tidy
    <3> QED BY <3>4, <3>7
  <2>7. CASE GrowsUp(list, j, d, a)
    <3> DEFINE f == [lo |-> e.lo, hi |-> d.hi]
    <3>1. /\ e.lo <= d.lo /\ d.lo <= e.hi + 1 /\ e.hi < d.hi /\ a.info = [list EXCEPT ![j] = f]
          /\ a.at = e.hi + 1 /\ a.n = d.hi - e.hi
      BY <2>7 DEF GrowsUp
    <3>2. f \in Span /\ f.lo = e.lo /\ f.hi = d.hi
      BY <1>2, <2>3, <3>1, MakeSpan
    <3> HIDE DEF f
    <3>3. d.lo = e.hi + 1
      BY <2>3, <3>1, PacketFollows
    <3>4. \A i \in 1 .. Len(list) : i > j => d.lo < list[i].lo
      BY <1>4, <3>3
    <3>5. \A i \in 1 .. Len(list) : i > j => d.lo + P <= list[i].lo
      BY <1>2, <1>3, <3>4, MultiplesApart
    <3> HIDE DEF e, Full
    <3>6. New
      <4> SUFFICES ASSUME NEW m \in Int, d.lo <= m, m <= d.hi, NEW i \in 1 .. Len(list)
                   PROVE  ~(list[i].lo <= m /\ m <= list[i].hi)
        <5>1. a.at = d.lo /\ a.at + a.n = d.hi + 1 BY <1>6, <2>3, <3>1, <3>3
        <5> QED BY <1>6, <5>1 DEF Covers
      <4>1. CASE i < j BY <1>6, <1>7, <2>1, <4>1
      <4>2. CASE i = j BY <2>3, <3>3, <4>2 DEF e
      <4>3. CASE i > j
        <5>1. d.hi + 1 <= d.lo + P BY <1>2
        <5>2. d.lo + P <= list[i].lo BY <3>5, <4>3
        <5>3. d.hi < list[i].lo BY <1>6, <1>7, <5>1, <5>2
        <5> QED BY <1>6, <1>7, <5>3
      <4> QED BY <2>2, <4>1, <4>2, <4>3
    <3>7. CASE \A i \in 1 .. Len(list) : i > j => d.hi + 1 < list[i].lo
      <4>1. \A i \in 1 .. Len(list) : i < j => list[i].hi + 1 < e.lo
        BY <1>4 DEF e
      <4>2. /\ \A i \in 1 .. Len(list) : i < j => <<list[i], f>> \in Spaced
            /\ \A i \in 1 .. Len(list) : i > j => <<f, list[i]>> \in Spaced
        BY <1>3, <3>2, <3>7, <4>1, SpacedIs
      <4>3. Pairs([list EXCEPT ![j] = f], Spaced)
        BY <1>1, <1>8, <4>2, ExceptPairs
      <4>4. Tidy(a.info)
        BY <3>1, <4>3 DEF Tidy
      <4> QED BY <3>6, <4>4
    <3>8. ASSUME NEW i \in 1 .. Len(list), i > j, ~(d.hi + 1 < list[i].lo) PROVE Full
      <4> DEFINE g == list[i]
      <4>1. /\ g.lo \in Nat /\ g.hi \in Nat /\ g.lo <= g.hi /\ g.hi < FileSize /\ Multiple(P, g.lo)
            /\ Multiple(P, g.hi + 1) \/ g.hi + 1 = FileSize
        BY <1>3
      <4>2. g.lo = d.lo + P /\ d.hi + 1 = g.lo
        <5>1. d.lo + P <= g.lo /\ ~(d.hi + 1 < g.lo) /\ d.hi + 1 <= d.lo + P
          BY <1>2, <3>5, <3>8
        <5> HIDE DEF g
        <5> QED BY <1>6, <4>1, <5>1
      <4>3. e.lo + P <= d.lo
        BY <1>2, <2>3, <3>3, MultiplesApart
      <4>4. Multiple(P, P + P) /\ P + P \in Nat
        <5>1. P + P = 2 * P OBVIOUS
        <5> QED BY <5>1 DEF Multiple
      <4> HIDE DEF g
      <4>5. g.lo = P + P
        <5>1. P + P < g.lo => P + P + P <= g.lo BY <4>1, <4>4, MultiplesApart
        <5>2. g.lo < P + P + P BY <1>2, <4>1
        <5>3. e.lo \in Nat /\ d.lo \in Nat /\ g.lo \in Nat BY <1>6, <2>3, <4>1
        <5> QED BY <4>2, <4>3, <5>1, <5>2, <5>3
      <4>6. d.lo = P /\ e.lo = 0 /\ d.hi + 1 = P + P
        BY <1>2, <2>3, <4>2, <4>3, <4>5
      <4>7. g.hi + 1 = FileSize
        <5>1. Multiple(P, g.hi + 1) => P + P + P <= g.hi + 1
          BY <4>1, <4>4, <4>5, MultiplesApart
        <5> QED BY <1>2, <4>1, <5>1
      <4> SUFFICES ASSUME NEW m \in 0 .. FileSize - 1 PROVE Covers(a.info, m)
        BY DEF Full
      <4>8. m \in Int /\ (Covers(list, m) \/ (a.at <= m /\ m < a.at + a.n))
        <5>1. m \in Int BY <1>2
        <5>2. CASE m < P BY <1>2, <2>3, <3>3, <4>6, <5>2 DEF Covers, e
        <5>3. CASE P <= m /\ m < P + P BY <1>2, <2>3, <3>1, <3>3, <4>6, <5>3
        <5>4. CASE P + P <= m BY <1>2, <4>1, <4>5, <4>7, <5>4 DEF Covers, g
        <5> QED BY <1>2, <5>1, <5>2, <5>3, <5>4
      <4> QED BY <1>5, <4>8 DEF Absorbs
    <3> QED BY <3>6, <3>7, <3>8
  <2> QED BY <1>11, <2>4, <2>5, <2>6, <2>7 DEF StopsAt
<1> QED BY <1>9, <1>10, <1>11 DEF a

\* The positions of a list are bytes of the file.
LEMMA PositionsOf ==
  ASSUME NEW list \in Seq(Span)
  PROVE  /\ Positions(Range(list)) = { n \in 0 .. FileSize - 1 : Covers(list, n) }
         /\ IsFiniteSet(Positions(Range(list)))
         /\ \A n \in Int : Covers(list, n) => n \in 0 .. FileSize - 1
<1>1. Range(list) \in SUBSET Span
  BY LenProperties, ElementOfSeq DEF Range
<1>2. \A n \in Int : Covered(Range(list), n) <=> Covers(list, n)
  BY CoversIsCovered
<1>3. \A n \in Int : Covers(list, n) => n \in 0 .. FileSize - 1
  BY <1>1, <1>2, CoveredInFile, SpanFacts
<1>4. Position \subseteq Int /\ 0 .. FileSize - 1 \subseteq Position
  BY SpanFacts, MaxBlockAssumption DEF Position
<1>5. Positions(Range(list)) = { n \in 0 .. FileSize - 1 : Covers(list, n) }
  BY <1>2, <1>3, <1>4 DEF Positions
<1>6. IsFiniteSet(0 .. FileSize - 1)
  BY SpanFacts, FS_Interval
<1> QED BY <1>3, <1>5, <1>6, FS_Subset

\* The n bytes from position at on are not in a list, and a new list has them too.
Fresh(list, at, n) == \A m \in Int : at <= m /\ m < at + n => ~Covers(list, m)
Gains(new, list, at, n) ==
  \A m \in Int : Covers(new, m) <=> Covers(list, m) \/ (at <= m /\ m < at + n)

\* New bytes are counted one by one ...
LEMMA BytesGrow ==
  ASSUME NEW list \in Seq(Span), NEW new \in Seq(Span), NEW at \in Nat, NEW n \in Nat,
         Gains(new, list, at, n), Fresh(list, at, n)
  PROVE  Bytes(new) = Bytes(list) + n
<1> DEFINE old == Positions(Range(list))
           fresh == at .. at + n - 1
<1>1. \A m : m \in fresh <=> m \in Int /\ at <= m /\ m < at + n
  OBVIOUS
<1>2. IsFiniteSet(fresh) /\ Cardinality(fresh) = n
  <2>1. at \in Int /\ at + n - 1 \in Int /\ (at > at + n - 1 <=> n = 0) /\ at + n - 1 - at + 1 = n
    OBVIOUS
  <2> QED BY <2>1, FS_Interval
<1>3. /\ old = { m \in 0 .. FileSize - 1 : Covers(list, m) } /\ IsFiniteSet(old)
      /\ Positions(Range(new)) = { m \in 0 .. FileSize - 1 : Covers(new, m) }
      /\ \A m \in Int : Covers(new, m) => m \in 0 .. FileSize - 1
  BY PositionsOf
<1> HIDE DEF old, fresh
<1>4. Positions(Range(new)) = old \cup fresh
  BY <1>1, <1>3 DEF Gains
<1>5. old \cap fresh = {}
  BY <1>1, <1>3 DEF Fresh
<1>6. Cardinality(old \cup fresh) = Cardinality(old) + Cardinality(fresh) - Cardinality({})
  BY <1>2, <1>3, <1>5, FS_Union
<1>7. Cardinality({}) = 0 /\ Cardinality(old) \in Nat
  BY <1>3, FS_EmptySet, FS_CardinalityType
<1>8. Cardinality(old \cup fresh) = Cardinality(old) + n
  BY <1>2, <1>6, <1>7
<1> QED BY <1>4, <1>8 DEF Bytes, old

\* ... and there are as many as the file has when all are there, and only then.
LEMMA BytesFull ==
  ASSUME NEW list \in Seq(Span)
  PROVE  Bytes(list) = FileSize <=> Positions(Range(list)) = 0 .. FileSize - 1
<1>1. IsFiniteSet(0 .. FileSize - 1) /\ Cardinality(0 .. FileSize - 1) = FileSize
  <2>1. FileSize \in Nat /\ FileSize >= 1 BY SpanFacts
  <2> QED BY <2>1, FS_Interval
<1>2. Positions(Range(list)) \subseteq 0 .. FileSize - 1
  BY PositionsOf
<1> QED BY <1>1, <1>2, FS_Subset DEF Bytes

-----------------------------------------------------------------------------
(* The count of a short transfer.                                            *)

Counted == total = Bytes(info) /\ (whole \/ Tidy(info))
CountInv == SizeInv /\ (whole => total = FileSize) /\ (ThreePackets => Counted)

LEMMA InitCount == Init => CountInv
<1> SUFFICES ASSUME Init PROVE CountInv
  OBVIOUS
<1>1. info = <<>> /\ total = 0 /\ whole = FALSE
  BY DEF Init
<1>2. Range(info) = {} /\ Len(info) = 0
  BY <1>1 DEF Range
<1>3. Bytes(info) = 0
  BY <1>2, FS_EmptySet DEF Bytes, Positions, Covered
<1>4. Tidy(info)
  BY <1>2 DEF Tidy, Pairs
<1> QED BY <1>1, <1>3, <1>4, InitSize DEF CountInv, Counted

LEMMA ReceiveDataCounts ==
  ASSUME ChunkInv, ReceiveData, NEW P \in Nat \ {0}, OneSize(P), FileSize <= P + P + P, Counted
  PROVE  Counted'
<1> DEFINE d == Head(toReceiver)
           a == Absorbed(info, d)
<1>1. d \in Packets(P) /\ d \in Cuts(P) /\ info \in Seq(Cuts(P)) /\ info \in Seq(Span)
  BY HeadTailProperties DEF OneSize, ReceiveData, Packets, ChunkInv, ChunkTypeOK
<1>2. Tidy(info) /\ total = Bytes(info)
  BY DEF Counted, ReceiveData
<1>3. info' = a.info /\ total' = total + a.n /\ whole' = (total' = FileSize)
  BY DEF ReceiveData, IsWhole
<1>4. /\ \A m \in Int : a.at <= m /\ m < a.at + a.n => ~Covers(info, m)
      /\ Tidy(a.info) \/ \A m \in 0 .. FileSize - 1 : Covers(a.info, m)
  BY <1>1, <1>2, TidyAbsorbed
<1>5. Absorbs(Span, info, d, a)
  BY <1>1, SpanClosed, AbsorbedAbsorbs DEF Cuts
<1> HIDE DEF d, a
<1>6. /\ a.info \in Seq(Span) /\ a.at \in Nat /\ a.n \in Nat
      /\ \A m \in Int : Covers(a.info, m) <=> Covers(info, m) \/ (a.at <= m /\ m < a.at + a.n)
  BY <1>5 DEF Absorbs
<1>7. Bytes(a.info) = Bytes(info) + a.n
  <2>1. Fresh(info, a.at, a.n) BY <1>4 DEF Fresh
  <2>2. Gains(a.info, info, a.at, a.n) BY <1>6 DEF Gains
  <2> QED BY <1>1, <1>6, <2>1, <2>2, BytesGrow
<1>8. total' = Bytes(info')
  BY <1>2, <1>3, <1>7
<1>9. CASE Tidy(a.info)
  BY <1>3, <1>8, <1>9 DEF Counted, Tidy, Pairs
<1>10. CASE \A m \in 0 .. FileSize - 1 : Covers(a.info, m)
  <2>1. Positions(Range(a.info)) = 0 .. FileSize - 1
    BY <1>6, <1>10, PositionsOf
  <2>2. Bytes(a.info) = FileSize
    BY <1>6, <2>1, BytesFull
  <2>3. whole' = TRUE
    BY <1>3, <1>8, <2>2
  <2> QED BY <1>8, <2>3 DEF Counted
<1> QED BY <1>4, <1>9, <1>10

\* A merge leaves gaps and counts again.
LEMMA AskForMissingCounts == ASSUME ChunkInv, AskForMissing PROVE Counted'
<1>1. Range(info) \in SUBSET Span
  BY LenProperties, ElementOfSeq DEF ChunkInv, ChunkTypeOK, Range
<1>2. info' \in Ascending(Merged(Range(info))) /\ total' = Bytes(info')
  BY DEF AskForMissing
<1>3. /\ info' \in Seq(Span) /\ info' \in [1 .. Len(info') -> Merged(Range(info))]
      /\ \A i, j \in 1 .. Len(info') : i < j => info'[i].lo < info'[j].lo
  BY <1>1, <1>2, MergedSpan, AscendingRange
<1>4. \A i, j \in 1 .. Len(info') : i < j => info'[i].hi + 1 < info'[j].lo
  BY <1>1, <1>3, MergedApart
<1>5. Tidy(info')
  BY <1>3, <1>4, TidyIs
<1> QED BY <1>2, <1>5 DEF Counted, Tidy, Pairs

LEMMA CountInductive == CountInv /\ [ChunkNext]_chunkVars => CountInv'
<1> SUFFICES ASSUME CountInv, [ChunkNext]_chunkVars PROVE CountInv'
  OBVIOUS
<1>1. ChunkInv /\ ChunkInv' /\ SizeInv /\ SizeInv'
  BY InvInductive, SizeInductive DEF CountInv, SizeInv
<1>2. (whole => total = FileSize)'
  <2>1. CASE ReceiveData BY <2>1 DEF ReceiveData, IsWhole
  <2>2. CASE AskForMissing BY <2>2 DEF AskForMissing, IsWhole
  <2>3. CASE UNCHANGED <<whole, total>> BY <2>3 DEF CountInv
  <2>4. ReceiveData \/ AskForMissing \/ UNCHANGED <<whole, total>>
    BY DEF ChunkNext, UseChannel, SendData, ReceiveReqData, LosePacket, chunkVars
  <2> QED BY <2>1, <2>2, <2>3, <2>4
<1>3. ASSUME ThreePackets' PROVE Counted'
  <2>1. switches \in Nat /\ channel \in Channels /\ switches' = 0
    BY <1>1, <1>3 DEF ChunkInv, ChunkTypeOK, ThreePackets
  <2>2. ASSUME NEW c \in Channels, UseChannel(c) PROVE FALSE
    BY <2>1, <2>2 DEF UseChannel
  <2>3. switches' = switches /\ channel' = channel
    BY <2>2 DEF ChunkNext, SendData, ReceiveReqData, ReceiveData, AskForMissing, LosePacket,
                chunkVars
  <2>4. ThreePackets /\ Counted
    BY <1>3, <2>3 DEF ThreePackets, CountInv
  <2>5. PICK P \in Nat \ {0} : P = PacketSize[channel]
    BY <2>1, ChunkAssumption
  <2>6. OneSize(P)
    BY <1>1, <2>4, <2>5 DEF SizeInv, ThreePackets
  <2>7. FileSize <= P + P + P
    <3>1. FileSize <= 3 * P BY <2>4, <2>5 DEF ThreePackets
    <3> QED BY <3>1
  <2>8. CASE ReceiveData BY <1>1, <2>4, <2>6, <2>7, <2>8, ReceiveDataCounts
  <2>9. CASE AskForMissing BY <1>1, <2>9, AskForMissingCounts
  <2>10. CASE UNCHANGED <<info, total, whole>>
    BY <2>4, <2>10 DEF Counted, Bytes, Tidy, Pairs
  <2>11. ReceiveData \/ AskForMissing \/ UNCHANGED <<info, total, whole>>
    BY <2>2 DEF ChunkNext, SendData, ReceiveReqData, LosePacket, chunkVars
  <2> QED BY <2>8, <2>9, <2>10, <2>11
<1> QED BY <1>1, <1>2, <1>3 DEF CountInv

\* In a transfer of at most three packets of one size, of any size, total_bytes is
\* the number of bytes that were received, however often packets come again.
THEOREM ShortIsCounted == ChunkSpec => []TotalExact
<1>1. CountInv => TotalExact
  BY DEF CountInv, Counted, TotalExact
<1> QED BY InitCount, CountInductive, <1>1, PTL DEF ChunkSpec

\* Such a transfer, of any size, is found complete only when the temporary file is
\* the sent file.
THEOREM ShortIsWhole == ChunkSpec => []ShortIsRight
<1>1. CountInv => ShortIsRight
  <2> SUFFICES ASSUME CountInv, ThreePackets, whole, NEW p \in DOMAIN content
               PROVE  content[p] = p
    BY DEF ShortIsRight, WholeIsRight
  <2>1. ChunkInv /\ switches = 0 /\ OneSize(PacketSize[channel])
    BY DEF CountInv, SizeInv, ThreePackets
  <2>2. DOMAIN content = 0 .. FileSize - 1 /\ info \in Seq(Span)
    BY <2>1 DEF ChunkInv, ChunkTypeOK
  <2>3. Bytes(info) = FileSize
    BY DEF CountInv, Counted
  <2>4. Positions(Range(info)) = 0 .. FileSize - 1
    BY <2>2, <2>3, BytesFull
  <2>5. content[p] # -1
    BY <2>1, <2>2, <2>4 DEF ChunkInv, ListIsWritten
  <2>6. content[p] \in {-1, p}
    BY <2>1, <2>2 DEF OneSize
  <2> QED BY <2>5, <2>6
<1> QED BY InitCount, CountInductive, <1>1, PTL DEF ChunkSpec
=============================================================================
