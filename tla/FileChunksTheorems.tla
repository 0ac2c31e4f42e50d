------------------------- MODULE FileChunksTheorems -------------------------
(***************************************************************************)
(* Lemmas about the lists of chunks of FileChunks, for every list and for  *)
(* every width of a position.                                              *)
(***************************************************************************)
EXTENDS FileChunks, TLAPS, FiniteSetTheorems, SequenceTheorems

\* A non-empty set of natural numbers has a least element, and Min is one.
LEMMA MinOfNat ==
  ASSUME NEW S, S \subseteq Nat, S # {}
  PROVE  Min(S) \in S /\ \A x \in S : Min(S) <= x
<1>1. PICK m \in S : \A x \in S : ~(<<x, m>> \in OpToRel(<, Nat))
  BY NatLessThanWellFounded, WFMin
<1>2. ASSUME NEW x \in S PROVE m <= x
  <2>1. x \in Nat /\ m \in Nat /\ <<x, m>> \in Nat \X Nat
    OBVIOUS
  <2>2. ~(x < m)
    BY <1>1, <2>1, Zenon DEF OpToRel
  <2>. QED
    BY <2>1, <2>2
<1>. QED
  BY <1>2 DEF Min

\* Lists keep their type: removing and repeating an element of a sequence.
LEMMA RemoveAtType ==
  ASSUME NEW T, NEW s \in Seq(T), NEW i \in 1 .. Len(s)
  PROVE  RemoveAt(s, i) \in Seq(T)
<1>1. SubSeq(s, 1, i - 1) \in Seq(T) /\ SubSeq(s, i + 1, Len(s)) \in Seq(T)
  BY SubSeqProperties
<1>. QED
  BY <1>1, ConcatProperties DEF RemoveAt

\* Inserting an element into a list keeps its type.
LEMMA InsertAtType ==
  ASSUME NEW T, NEW s \in Seq(T), NEW i \in 1 .. Len(s), NEW e \in T
  PROVE  InsertAt(s, i, e) \in Seq(T)
<1>1. SubSeq(s, 1, i - 1) \in Seq(T) /\ SubSeq(s, i, Len(s)) \in Seq(T)
  BY SubSeqProperties
<1>2. <<e>> \in Seq(T)
  OBVIOUS
<1>3. SubSeq(s, 1, i - 1) \o <<e>> \in Seq(T)
  BY <1>1, <1>2, ConcatProperties
<1>. QED
  BY <1>1, <1>3, ConcatProperties DEF InsertAt

\* A function on 1 .. n is a list.
LEMMA FunctionIsSeq ==
  ASSUME NEW T, NEW n \in Nat, NEW f \in [1 .. n -> T]
  PROVE  f \in Seq(T)
  BY SeqDef

\* A requested hole is merged into a list of chunks: the result is one.
LEMMA InsertHoleType ==
  ASSUME NEW info \in Seq(Chunk), NEW h \in Chunk
  PROVE  InsertHole(info, h) \in Seq(Chunk)
<1>1. CASE Stops(info, h) = {}
  BY <1>1, AppendProperties DEF InsertHole
<1>2. CASE Stops(info, h) # {}
  <2> DEFINE j == Min(Stops(info, h))
             e == info[j]
  <2>0. Stops(info, h) \subseteq 1 .. Len(info) /\ Stops(info, h) \subseteq Nat
    BY DEF Stops
  <2>1. j \in 1 .. Len(info) /\ j \in Stops(info, h)
    BY <1>2, <2>0, MinOfNat
  <2>2. e \in Chunk
    BY <2>1, ElementOfSeq
  <2>3. h = e \/ StartsBefore(h, e) \/ ExtendsEnd(h, e)
    BY <2>1 DEF Stops
  <2>4. InsertAt(info, j, h) \in Seq(Chunk)
    BY <2>1, InsertAtType
  <2>5. [e EXCEPT !.lo = h.lo] \in Chunk /\ [e EXCEPT !.hi = h.hi] \in Chunk
    BY <2>2 DEF Chunk
  <2>6. [info EXCEPT ![j] = [e EXCEPT !.lo = h.lo]] \in Seq(Chunk)
    BY <2>1, <2>5, ExceptSeq
  <2>7. [info EXCEPT ![j] = [e EXCEPT !.hi = h.hi]] \in Seq(Chunk)
    BY <2>1, <2>5, ExceptSeq
  <2>8. Succ(h.hi) \in Int /\ e.lo \in Int
    BY <2>2, MaxBlockAssumption DEF Succ, Chunk, Position
  <2>9. Succ(h.hi) < e.lo \/ Succ(h.hi) >= e.lo
    BY <2>8
  <2>. QED
    BY <1>2, <2>1, <2>3, <2>4, <2>6, <2>7, <2>9 DEF InsertHole
<1>. QED
  BY <1>1, <1>2

\* One position sent: what is left is a list of chunks.
LEMMA FirstSentType ==
  ASSUME NEW info \in Seq(Chunk), info # <<>>
  PROVE  FirstSent(info, 1) \in Seq(Chunk)
<1>1. Tail(info) \in Seq(Chunk)
  BY HeadTailProperties
<1>2. 1 \in 1 .. Len(info) /\ info[1] \in Chunk
  BY EmptySeq, ElementOfSeq
<1>3. CASE info[1].lo + 1 > info[1].hi
  BY <1>1, <1>3 DEF FirstSent
<1>4. CASE ~(info[1].lo + 1 > info[1].hi)
  <2>1. info[1].lo + 1 \in Position
    BY <1>2, <1>4, MaxBlockAssumption DEF Chunk, Position
  <2>2. [info[1] EXCEPT !.lo = info[1].lo + 1] \in Chunk
    BY <1>2, <2>1 DEF Chunk
  <2>3. [info EXCEPT ![1] = [info[1] EXCEPT !.lo = info[1].lo + 1]] \in Seq(Chunk)
    BY <1>2, <2>2, ExceptSeq
  <2>. QED
    BY <1>4, <2>3 DEF FirstSent
<1>. QED
  BY <1>3, <1>4

\* What the receiver asks for is made of chunks, if all it has lies below the
\* largest position.
LEMMA HolesType ==
  ASSUME NEW got \in SUBSET (0 .. MaxBlock - 1), NEW size \in Position
  PROVE  Holes(got, size) \subseteq Chunk
<1> DEFINE from == got \cup {-1}
           inner == { p \in from \X got : Consecutive(got, p[1], p[2]) /\ p[1] + 1 # p[2] }
           last == { a \in from : (\A c \in got : c <= a) /\ a + 1 # size }
<1>1. ASSUME NEW p \in inner
      PROVE  [lo |-> p[1] + 1, hi |-> p[2] - 1] \in Chunk
  <2>1. p[1] \in got \cup {-1} /\ p[2] \in got /\ p[1] < p[2] /\ p[1] + 1 # p[2]
    BY DEF Consecutive
  <2>2. ASSUME NEW a \in got \cup {-1}, NEW b \in got, a < b, a + 1 # b
        PROVE  a + 1 \in Position /\ b - 1 \in Position
    BY <2>2, MaxBlockAssumption DEF Position
  <2>3. p[1] + 1 \in Position /\ p[2] - 1 \in Position
    BY <2>1, <2>2
  <2>. QED
    BY <2>3 DEF Chunk
<1>2. ASSUME NEW a \in last
      PROVE  [lo |-> a + 1, hi |-> Pred(size)] \in Chunk
  <2>1. a \in -1 .. MaxBlock - 1
    BY MaxBlockAssumption
  <2>2. a + 1 \in Position /\ Pred(size) \in Position
    BY <2>1, MaxBlockAssumption DEF Position, Pred
  <2>. QED
    BY <2>2 DEF Chunk
<1>3. Holes(got, size) = { [lo |-> p[1] + 1, hi |-> p[2] - 1] : p \in inner }
                           \cup { [lo |-> a + 1, hi |-> Pred(size)] : a \in last }
  BY DEF Holes
<1>. HIDE DEF inner, last
<1>. QED
  BY <1>1, <1>2, <1>3

\* There are finitely many chunks, so that lists of them can be written down.
LEMMA ChunksFinite ==
  ASSUME NEW S, S \subseteq Chunk
  PROVE  IsFiniteSet(S) /\ Cardinality(S) \in Nat
<1>1. IsFiniteSet(Position)
  BY MaxBlockAssumption, FS_Interval DEF Position
<1>2. IsFiniteSet(Chunk)
  <2>1. IsFiniteSet(Position \X Position)
    BY <1>1, FS_Product
  <2> DEFINE f == [h \in Chunk |-> <<h.lo, h.hi>>]
  <2>2. f \in Injection(Chunk, Position \X Position)
    BY DEF Injection, IsInjective, Chunk
  <2>. QED
    BY <2>1, <2>2, FS_Injection
<1>3. IsFiniteSet(S)
  BY <1>2, FS_Subset
<1>. QED
  BY <1>3, FS_CardinalityType

\* Listing a set of chunks in ascending order gives a list of its elements.
LEMMA AscendingType ==
  ASSUME NEW S, S \subseteq Chunk, NEW s \in Ascending(S)
  PROVE  s \in Seq(Chunk) /\ Len(s) = Cardinality(S) /\ s \in [1 .. Cardinality(S) -> S]
<1>1. s \in [1 .. Cardinality(S) -> S] /\ Cardinality(S) \in Nat
  BY ChunksFinite DEF Ascending
<1>2. s \in Seq(S)
  BY <1>1, SeqDef
<1>. QED
  BY <1>1, <1>2, SeqMonotonic

\* Merging a list leaves chunks.
LEMMA MergedType == ASSUME NEW ranges PROVE Merged(ranges) \subseteq Chunk
  BY DEF Merged
=============================================================================
