----------------------------- MODULE ForwardProofs -----------------------------
(***************************************************************************)
(* Proofs about the message ring, for every size of it: its invariants     *)
(* hold, a program that asks for one message after another gets them in    *)
(* order, and what it copies is not being stored to unless it is a whole   *)
(* round behind.  agent_forward uses its ring only as MessageRing allows,  *)
(* so that what is proved of the ring holds of the ring of a forwarder.    *)
(***************************************************************************)
EXTENDS Forward, Integers, TLAPS

\* x is r more than some whole rounds of the ring.
Rounds(x, r) == \E k \in Nat : x = N * k + r

\* How many messages were put in after the one in cell p, when the head is h.
Behind(h, p) == IF p <= h THEN h - p ELSE h + N - p

\* The head follows the count of the messages, and what is being stored goes behind it.
HeadInv ==
  /\ IF written = 0 THEN message_head = N
     ELSE message_head < N /\ Rounds(written - 1, message_head)
  /\ writing => new_position = After(message_head)

\* Each cell holds the last message put there.
CellsInv ==
  \A i \in 0 .. N - 1 :
    message_ring[i] = IF Behind(message_head, i) < written
                        THEN written - Behind(message_head, i) ELSE 0

\* The tail is where the last message was read, up to whole rounds.
TailInv ==
  IF reading = "copy"
    THEN message_head < N /\ Rounds(written - last - 1, Behind(message_head, message_tail))
    ELSE IF message_tail = N THEN last = 0
    ELSE message_head < N /\ Rounds(written - last, Behind(message_head, message_tail))

PlainInv == HeadInv /\ CellsInv /\ TailInv

RingInv == RingTypeOK /\ (plain => PlainInv)

-----------------------------------------------------------------------------
(* Arithmetic of the ring. *)

LEMMA NatN == N \in Nat /\ N > 1 /\ MaxMessages \in Nat
BY RingAssumption

LEMMA RoundsZero == ASSUME NEW r \in Nat PROVE Rounds(r, r)
<1>1. 0 \in Nat /\ r = N * 0 + r BY NatN
<1> QED BY <1>1 DEF Rounds

LEMMA RoundsStep ==
  ASSUME NEW x \in Int, NEW r \in Int, Rounds(x, r) PROVE Rounds(x + 1, r + 1)
<1>1. PICK k \in Nat : x = N * k + r BY DEF Rounds
<1>2. N * k \in Int BY NatN
<1>3. x + 1 = N * k + (r + 1) BY <1>1, <1>2
<1> QED BY <1>3 DEF Rounds

LEMMA RoundsTurn ==
  ASSUME NEW x \in Int, Rounds(x, N - 1) PROVE Rounds(x + 1, 0)
<1>1. PICK k \in Nat : x = N * k + (N - 1) BY DEF Rounds
<1>2. N * k \in Int /\ N * (k + 1) = N * k + N BY NatN
<1>3. x + 1 = N * (k + 1) + 0 /\ k + 1 \in Nat BY <1>1, <1>2, NatN
<1> QED BY <1>3 DEF Rounds

LEMMA RoundsBack ==
  ASSUME NEW x \in Int, NEW r \in Int, Rounds(x, r) PROVE Rounds(x - 1, r - 1)
<1>1. PICK k \in Nat : x = N * k + r BY DEF Rounds
<1>2. N * k \in Int BY NatN
<1>3. x - 1 = N * k + (r - 1) BY <1>1, <1>2
<1> QED BY <1>3 DEF Rounds

\* A whole number of rounds that is not none has a last round.
LEMMA RoundsTurnBack ==
  ASSUME NEW x \in Int, x > 0, Rounds(x, 0) PROVE Rounds(x - 1, N - 1)
<1>1. PICK k \in Nat : x = N * k + 0 BY DEF Rounds
<1>2. k # 0 BY <1>1, NatN
<1>3. k - 1 \in Nat BY <1>2
<1>4. N * (k - 1) = N * k - N /\ N * k \in Int BY NatN
<1>5. x - 1 = N * (k - 1) + (N - 1) BY <1>1, <1>4, NatN
<1> QED BY <1>3, <1>5 DEF Rounds

LEMMA RoundsAtLeast ==
  ASSUME NEW x \in Int, NEW r \in Int, Rounds(x, r) PROVE x >= r
<1>1. PICK k \in Nat : x = N * k + r BY DEF Rounds
<1>2. N * k \in Nat BY NatN
<1> QED BY <1>1, <1>2

LEMMA AfterRange == ASSUME NEW h \in 0 .. N PROVE After(h) \in 0 .. N - 1
BY NatN DEF After

LEMMA BehindRange ==
  ASSUME NEW h \in 0 .. N - 1, NEW p \in 0 .. N - 1 PROVE Behind(h, p) \in 0 .. N - 1
BY NatN DEF Behind

\* The head moves on: every other cell gets one message older.
LEMMA BehindHead ==
  ASSUME NEW h \in 0 .. N - 1, NEW p \in 0 .. N - 1
  PROVE  /\ p # After(h) => Behind(After(h), p) = Behind(h, p) + 1
         /\ p = After(h) => Behind(After(h), p) = 0 /\ Behind(h, p) = N - 1
BY NatN DEF Behind, After

\* The tail moves on.
LEMMA BehindTail ==
  ASSUME NEW h \in 0 .. N - 1, NEW p \in 0 .. N - 1
  PROVE  /\ p # h => Behind(h, After(p)) = Behind(h, p) - 1
         /\ p = h => Behind(h, p) = 0 /\ Behind(h, After(p)) = N - 1
BY NatN DEF Behind, After

-----------------------------------------------------------------------------
(* Types. *)

LEMMA TypeInit == RingInit => RingTypeOK
<1> SUFFICES ASSUME RingInit PROVE RingTypeOK
  OBVIOUS
<1>1. message_ring \in [0 .. N - 1 -> 0 .. MaxMessages]
  <2>1. [i \in 0 .. N - 1 |-> 0] \in [0 .. N - 1 -> 0 .. MaxMessages] BY NatN
  <2> QED BY <2>1 DEF RingInit
<1>2. sized \in BOOLEAN /\ writing \in BOOLEAN /\ crashed \in BOOLEAN /\ plain \in BOOLEAN /\ ~writing
  BY DEF RingInit
<1>3. /\ message_head \in 0 .. N /\ message_tail \in 0 .. N /\ new_position \in 0 .. N - 1
      /\ written \in 0 .. MaxMessages /\ last \in 0 .. MaxMessages
  BY NatN DEF RingInit
<1>4. reading = "no" BY DEF RingInit
<1> QED BY <1>1, <1>2, <1>3, <1>4 DEF RingTypeOK

LEMMA TypeStep == RingTypeOK /\ [RingNext]_ringVars => RingTypeOK'
<1> SUFFICES ASSUME RingTypeOK, [RingNext]_ringVars PROVE RingTypeOK'
  OBVIOUS
<1> USE NatN DEF RingTypeOK
<1>1. CASE MakeRing
  BY <1>1 DEF MakeRing, pointers
<1>2. CASE BeginStore
  <2>1. new_position' \in 0 .. N - 1 BY <1>2, AfterRange DEF BeginStore
  <2> QED BY <1>2, <2>1 DEF BeginStore, pointers
<1>3. CASE EndStore
  <2>1. written + 1 \in 0 .. MaxMessages BY <1>3 DEF EndStore
  <2>2. message_ring' \in [0 .. N - 1 -> 0 .. MaxMessages] BY <1>3, <2>1 DEF EndStore
  <2>3. message_head' \in 0 .. N BY <1>3 DEF EndStore
  <2>4. writing' = FALSE /\ written' \in 0 .. MaxMessages BY <1>3, <2>1 DEF EndStore
  <2> QED BY <1>3, <2>2, <2>3, <2>4 DEF EndStore
<1>4. CASE ReadNext \/ TimeOut
  BY <1>4 DEF ReadNext, TimeOut, writer
<1>11. CASE Look \/ ReadNow
  <2>1. After(message_tail) \in 0 .. N - 1 BY AfterRange
  <2>2. crashed' \in BOOLEAN /\ plain' \in BOOLEAN
    BY <1>11 DEF Look, ReadNow, Advance
  <2>3. CASE sized
    <3>1. message_tail' \in 0 .. N /\ message_tail' < N /\ reading' = "copy"
      BY <1>11, <2>1, <2>3 DEF Look, ReadNow, Advance
    <3>2. UNCHANGED <<writer, last>> BY <1>11 DEF Look, ReadNow
    <3> QED BY <2>2, <2>3, <3>1, <3>2 DEF writer
  <2>4. CASE ~sized
    <3>1. UNCHANGED <<writer, last, message_tail, reading>>
      BY <1>11, <2>4 DEF Look, ReadNow, Advance
    <3> QED BY <2>2, <3>1 DEF writer
  <2> QED BY <2>3, <2>4
<1>5. CASE ReadHead
  <2>1. Before(message_head) \in 0 .. N BY DEF Before
  <2> QED BY <1>5, <2>1 DEF ReadHead, writer
<1>6. CASE Copy
  BY <1>6 DEF Copy, writer
<1>7. CASE CopyTorn
  BY <1>7 DEF CopyTorn, writer
<1>8. CASE ClearRing
  BY <1>8 DEF ClearRing, writer
<1>9. ASSUME NEW newsize \in 0 .. N + 1, ResizeRing(newsize) PROVE RingTypeOK'
  <2>1. message_head' \in 0 .. N /\ message_tail' \in 0 .. N
    BY <1>9 DEF ResizeRing
  <2>2. plain' = FALSE /\ reading = "no" BY <1>9 DEF ResizeRing
  <2>3. UNCHANGED <<sized, message_ring, writing, new_position, reading, crashed, written, last>>
    BY <1>9 DEF ResizeRing
  <2> QED BY <2>1, <2>2, <2>3
<1>10. CASE UNCHANGED ringVars
  BY <1>10 DEF ringVars, pointers
<1> QED
  BY <1>1, <1>2, <1>3, <1>4, <1>5, <1>6, <1>7, <1>8, <1>9, <1>10, <1>11 DEF RingNext, MessageLoop

-----------------------------------------------------------------------------
(* The invariant of a program that only asks for the next message. *)

LEMMA InvInit == RingInit => RingInv
<1> SUFFICES ASSUME RingInit PROVE PlainInv
  BY TypeInit DEF RingInv
<1>1. HeadInv BY NatN DEF RingInit, HeadInv
<1>2. CellsInv
  <2>1. ASSUME NEW i \in 0 .. N - 1
        PROVE message_ring[i] = IF Behind(message_head, i) < written
                                  THEN written - Behind(message_head, i) ELSE 0
    <3>1. message_ring[i] = 0 /\ written = 0 /\ message_head = N BY DEF RingInit
    <3>2. ~(Behind(N, i) < 0) BY NatN DEF Behind
    <3> QED BY <3>1, <3>2
  <2> QED BY <2>1 DEF CellsInv
<1>3. TailInv BY DEF RingInit, TailInv
<1> QED BY <1>1, <1>2, <1>3 DEF PlainInv

\* A program that stays plain was plain.
LEMMA PlainBefore == RingTypeOK /\ RingNext /\ plain' => plain
BY DEF RingNext, MessageLoop, MakeRing, BeginStore, EndStore, ReadNext, ReadHead, ReadNow,
       Look, TimeOut, Copy, CopyTorn, ClearRing, ResizeRing

LEMMA HeadStep ==
  ASSUME RingTypeOK, PlainInv, EndStore PROVE HeadInv' /\ CellsInv'
<1> USE NatN
<1> DEFINE h == message_head
<1>1. /\ new_position = After(h) /\ new_position \in 0 .. N - 1 /\ h \in 0 .. N
      /\ written \in Nat /\ written' = written + 1 /\ ~writing' /\ message_head' = new_position
      /\ message_ring' = [message_ring EXCEPT ![new_position] = written + 1]
      /\ message_ring \in [0 .. N - 1 -> 0 .. MaxMessages]
  BY DEF EndStore, PlainInv, HeadInv, RingTypeOK
<1>2. CASE written = 0
  <2>1. h = N /\ After(h) = 0 BY <1>2 DEF PlainInv, HeadInv, After
  <2>2. HeadInv'
    <3>1. Rounds(written' - 1, message_head') BY <1>1, <1>2, <2>1, RoundsZero
    <3> QED BY <1>1, <1>2, <2>1, <3>1 DEF HeadInv
  <2>3. ASSUME NEW i \in 0 .. N - 1
        PROVE message_ring'[i] = IF Behind(0, i) < 1 THEN 1 - Behind(0, i) ELSE 0
    <3>1. message_ring[i] = 0
      BY <1>2, <2>1 DEF PlainInv, CellsInv, Behind
    <3> QED BY <1>1, <1>2, <2>1, <3>1 DEF Behind
  <2> QED BY <1>1, <1>2, <2>1, <2>2, <2>3 DEF CellsInv
<1>3. CASE written # 0
  <2>1. h \in 0 .. N - 1 /\ Rounds(written - 1, h) BY <1>1, <1>3 DEF PlainInv, HeadInv
  <2>2. HeadInv'
    <3>1. CASE h = N - 1
      <4>1. After(h) = 0 BY <3>1 DEF After
      <4>2. Rounds(written - 1 + 1, 0) BY <1>1, <2>1, <3>1, RoundsTurn
      <4>3. written' - 1 = written - 1 + 1 /\ written' # 0 BY <1>1
      <4> QED BY <1>1, <4>1, <4>2, <4>3 DEF HeadInv
    <3>2. CASE h # N - 1
      <4>1. After(h) = h + 1 /\ h + 1 < N BY <2>1, <3>2 DEF After
      <4>2. Rounds(written - 1 + 1, h + 1) BY <1>1, <2>1, RoundsStep
      <4>3. written' - 1 = written - 1 + 1 /\ written' # 0 BY <1>1
      <4> QED BY <1>1, <4>1, <4>2, <4>3 DEF HeadInv
    <3> QED BY <3>1, <3>2
  <2>3. ASSUME NEW i \in 0 .. N - 1
        PROVE message_ring'[i] = IF Behind(new_position, i) < written'
                                   THEN written' - Behind(new_position, i) ELSE 0
    <3>1. Behind(h, i) \in Nat BY <2>1, BehindRange
    <3>2. CASE i = new_position
      BY <1>1, <2>1, <3>2, BehindHead
    <3>3. CASE i # new_position
      <4>1. Behind(new_position, i) = Behind(h, i) + 1 BY <1>1, <2>1, <3>3, BehindHead
      <4>2. message_ring'[i] = message_ring[i] BY <1>1, <3>3
      <4>3. message_ring[i] = IF Behind(h, i) < written THEN written - Behind(h, i) ELSE 0
        BY DEF PlainInv, CellsInv
      <4> QED BY <1>1, <3>1, <4>1, <4>2, <4>3
    <3> QED BY <3>2, <3>3
  <2> QED BY <1>1, <2>2, <2>3 DEF CellsInv
<1> QED BY <1>2, <1>3

LEMMA TailKept ==
  ASSUME RingTypeOK, PlainInv, EndStore PROVE TailInv'
<1> USE NatN
<1> DEFINE h == message_head
           t == message_tail
<1>1. /\ new_position = After(h) /\ h \in 0 .. N /\ t \in 0 .. N
      /\ written \in Nat /\ last \in Nat /\ written' = written + 1 /\ message_head' = After(h)
      /\ message_tail' = t /\ last' = last /\ reading' = reading
      /\ After(h) < N /\ (reading = "copy" => t \in 0 .. N - 1)
  <2>1. h \in 0 .. N /\ t \in 0 .. N /\ written \in Nat /\ last \in Nat
    BY DEF RingTypeOK
  <2>2. reading = "copy" => t \in 0 .. N - 1 BY <2>1 DEF RingTypeOK
  <2>3. writing => new_position = After(h) BY DEF PlainInv, HeadInv
  <2>4. After(h) < N BY <2>1, AfterRange
  <2> QED BY <2>1, <2>2, <2>3, <2>4 DEF EndStore
\* One message more behind a cell, or a round more.
<1>2. ASSUME NEW x \in Int, h < N, t \in 0 .. N - 1, Rounds(x, Behind(h, t))
      PROVE Rounds(x + 1, Behind(After(h), t))
  <2>1. h \in 0 .. N - 1 BY <1>1, <1>2
  <2>2. Behind(h, t) \in Int BY <1>2, <2>1, BehindRange
  <2>3. CASE t = After(h)
    <3>1. Behind(h, t) = N - 1 /\ Behind(After(h), t) = 0 BY <1>2, <2>1, <2>3, BehindHead
    <3>2. Rounds(x, N - 1) BY <1>2, <3>1
    <3> QED BY <3>1, <3>2, RoundsTurn
  <2>4. CASE t # After(h)
    <3>1. Behind(After(h), t) = Behind(h, t) + 1 BY <1>2, <2>1, <2>4, BehindHead
    <3>2. Rounds(x + 1, Behind(h, t) + 1) BY <1>2, <2>2, RoundsStep
    <3> QED BY <3>1, <3>2
  <2> QED BY <2>3, <2>4
<1>3. CASE reading = "copy"
  <2>1. h < N /\ Rounds(written - last - 1, Behind(h, t)) BY <1>3 DEF PlainInv, TailInv
  <2>2. Rounds(written - last - 1 + 1, Behind(After(h), t)) BY <1>1, <1>2, <1>3, <2>1
  <2>3. written' - last' - 1 = written - last - 1 + 1 BY <1>1
  <2> QED BY <1>1, <1>3, <2>2, <2>3 DEF TailInv
<1>4. CASE reading # "copy" /\ t = N
  BY <1>1, <1>4 DEF PlainInv, TailInv
<1>5. CASE reading # "copy" /\ t # N
  <2>1. h < N /\ Rounds(written - last, Behind(h, t)) BY <1>5 DEF PlainInv, TailInv
  <2>2. Rounds(written - last + 1, Behind(After(h), t)) BY <1>1, <1>2, <1>5, <2>1
  <2>3. written' - last' = written - last + 1 BY <1>1
  <2> QED BY <1>1, <1>5, <2>2, <2>3 DEF TailInv
<1> QED BY <1>3, <1>4, <1>5

LEMMA LookStep ==
  ASSUME RingTypeOK, PlainInv, Look, sized PROVE TailInv'
<1> USE NatN
<1> DEFINE h == message_head
           t == message_tail
<1>1. /\ h \in 0 .. N /\ t \in 0 .. N /\ written \in Nat /\ last \in Nat /\ reading = "look"
      /\ h # t /\ message_tail' = After(t) /\ reading' = "copy"
      /\ message_head' = h /\ written' = written /\ last' = last
  BY DEF Look, HasNew, Advance, RingTypeOK, writer
<1>2. SUFFICES h < N /\ Rounds(written - last - 1, Behind(h, After(t)))
  BY <1>1 DEF TailInv
\* There is a message that was not read.
<1>3. CASE t = N
  <2>1. last = 0 /\ h < N /\ written # 0 BY <1>1, <1>3 DEF PlainInv, TailInv, HeadInv
  <2>2. Rounds(written - 1, h) BY <2>1 DEF PlainInv, HeadInv
  <2>3. Behind(h, After(t)) = h BY <1>1, <1>3 DEF Behind, After
  <2>4. written - last - 1 = written - 1 BY <1>1, <2>1
  <2> QED BY <2>1, <2>2, <2>3, <2>4
<1>4. CASE t # N
  <2>1. h < N /\ Rounds(written - last, Behind(h, t)) BY <1>1, <1>4 DEF PlainInv, TailInv
  <2>2. h \in 0 .. N - 1 /\ t \in 0 .. N - 1 BY <1>1, <1>4, <2>1
  <2>3. Behind(h, After(t)) = Behind(h, t) - 1 BY <1>1, <2>2, BehindTail
  <2>4. Behind(h, t) \in Int BY <2>2, BehindRange
  <2>5. Rounds(written - last - 1, Behind(h, t) - 1) BY <1>1, <2>1, <2>4, RoundsBack
  <2> QED BY <2>1, <2>3, <2>5
<1> QED BY <1>3, <1>4

\* The message that is copied is the next one that has not been read, or one whole
\* rounds after it.
LEMMA CopyNext ==
  ASSUME RingTypeOK, PlainInv, reading = "copy"
  PROVE  LET message == message_ring[message_tail]
             age == Behind(message_head, message_tail)
         IN  /\ message_head < N /\ message_tail \in 0 .. N - 1 /\ age \in 0 .. N - 1
             /\ message = written - age /\ message \in 1 .. written
             /\ \E rounds \in 0 .. MaxMessages : message = last + 1 + N * rounds
<1> USE NatN
<1> DEFINE age == Behind(message_head, message_tail)
           message == message_ring[message_tail]
<1>1. /\ written \in 0 .. MaxMessages /\ last \in Nat /\ message_tail \in 0 .. N - 1
      /\ message_head \in 0 .. N - 1 /\ Rounds(written - last - 1, age)
  BY DEF PlainInv, TailInv, RingTypeOK
<1>2. age \in 0 .. N - 1 BY <1>1, BehindRange
<1>3. written - last - 1 >= age BY <1>1, <1>2, RoundsAtLeast
<1>4. message = written - age
  BY <1>1, <1>2, <1>3 DEF PlainInv, CellsInv
<1>5. PICK k \in Nat : written - last - 1 = N * k + age BY <1>1 DEF Rounds
<1>6. N * k \in Nat /\ k <= N * k BY NatN
<1>7. k \in 0 .. MaxMessages BY <1>1, <1>2, <1>5, <1>6
<1>8. message = last + 1 + N * k BY <1>1, <1>2, <1>4, <1>5, <1>6
<1>9. message \in 1 .. written BY <1>1, <1>2, <1>3, <1>4
<1>10. \E rounds \in 0 .. MaxMessages : message = last + 1 + N * rounds BY <1>7, <1>8
<1>11. message_head < N BY <1>1
<1> QED BY <1>1, <1>2, <1>4, <1>9, <1>10, <1>11, Zenon

LEMMA CopyStep ==
  ASSUME RingTypeOK, PlainInv, Copy PROVE TailInv'
<1> USE NatN
<1> DEFINE h == message_head
           t == message_tail
<1>1. /\ reading = "copy" /\ reading' # "copy" /\ last' = message_ring[t]
      /\ message_head' = h /\ message_tail' = t /\ written' = written /\ written \in Nat
  BY DEF Copy, RingTypeOK, writer
<1>2. /\ h < N /\ t \in 0 .. N - 1 /\ Behind(h, t) \in 0 .. N - 1
      /\ message_ring[t] = written - Behind(h, t)
  BY <1>1, CopyNext
<1>3. written' - last' = Behind(h, t) BY <1>1, <1>2
<1>4. Rounds(written' - last', Behind(h, t)) BY <1>2, <1>3, RoundsZero
<1> QED BY <1>1, <1>2, <1>4 DEF TailInv

LEMMA ClearStep ==
  ASSUME RingTypeOK, PlainInv, ClearRing PROVE TailInv'
<1> USE NatN
<1>1. /\ reading' = "no" /\ message_head' = message_head /\ message_tail' = message_head
      /\ written' = written /\ last' = written /\ written \in Nat /\ message_head \in 0 .. N
  BY DEF ClearRing, RingTypeOK, writer
<1>2. CASE message_head = N
  <2>1. written = 0 BY <1>2 DEF PlainInv, HeadInv
  <2> QED BY <1>1, <1>2, <2>1 DEF TailInv
<1>3. CASE message_head # N
  <2>1. Behind(message_head, message_head) = 0 /\ written' - last' = 0
    BY <1>1 DEF Behind
  <2>2. Rounds(0, 0) BY RoundsZero
  <2> QED BY <1>1, <1>3, <2>1, <2>2 DEF TailInv
<1> QED BY <1>2, <1>3

LEMMA PlainStep ==
  ASSUME RingInv, RingNext, plain' PROVE PlainInv'
<1> USE NatN
<1>1. RingTypeOK /\ PlainInv BY PlainBefore DEF RingInv
\* A step that leaves what the invariant is about.
<1>2. ASSUME UNCHANGED <<message_ring, message_head, writing, new_position, written>>, TailInv'
      PROVE PlainInv'
  BY <1>1, <1>2 DEF PlainInv, HeadInv, CellsInv
<1>3. ASSUME UNCHANGED <<message_head, message_tail, written, last>>,
             reading' = "copy" <=> reading = "copy"
      PROVE TailInv'
  BY <1>1, <1>3 DEF PlainInv, TailInv
<1>4. CASE MakeRing
  BY <1>2, <1>3, <1>4 DEF MakeRing, pointers
<1>5. CASE BeginStore
  <2>1. TailInv' BY <1>3, <1>5 DEF BeginStore, pointers
  <2>2. HeadInv' /\ CellsInv' BY <1>1, <1>5 DEF BeginStore, pointers, PlainInv, HeadInv, CellsInv
  <2> QED BY <2>1, <2>2 DEF PlainInv
<1>6. CASE EndStore
  BY <1>1, <1>6, HeadStep, TailKept DEF PlainInv
<1>7. CASE ReadNext \/ TimeOut \/ CopyTorn
  BY <1>2, <1>3, <1>7 DEF ReadNext, TimeOut, CopyTorn, writer
<1>8. CASE Look
  <2>1. CASE sized BY <1>1, <1>2, <1>8, <2>1, LookStep DEF Look, writer
  <2>2. CASE ~sized BY <1>2, <1>3, <1>8, <2>2 DEF Look, Advance, writer
  <2> QED BY <2>1, <2>2
<1>9. CASE Copy
  BY <1>1, <1>2, <1>9, CopyStep DEF Copy, writer
<1>10. CASE ClearRing
  BY <1>1, <1>2, <1>10, ClearStep DEF ClearRing, writer
<1>11. ~ReadHead /\ ~ReadNow /\ \A newsize \in 0 .. N + 1 : ~ResizeRing(newsize)
  BY DEF ReadHead, ReadNow, ResizeRing
<1> QED
  BY <1>4, <1>5, <1>6, <1>7, <1>8, <1>9, <1>10, <1>11 DEF RingNext, MessageLoop

LEMMA InvStep == RingInv /\ [RingNext]_ringVars => RingInv'
<1> SUFFICES ASSUME RingInv, [RingNext]_ringVars PROVE RingInv'
  OBVIOUS
<1>1. RingTypeOK' BY TypeStep DEF RingInv
<1>2. CASE RingNext
  BY <1>1, <1>2, PlainStep DEF RingInv
<1>3. CASE UNCHANGED ringVars
  BY <1>1, <1>3 DEF RingInv, PlainInv, HeadInv, CellsInv, TailInv, ringVars, pointers
<1> QED BY <1>2, <1>3

LEMMA RingInvariant == RingSpec => []RingInv
<1> QED BY InvInit, InvStep, PTL DEF RingSpec

-----------------------------------------------------------------------------
(* The theorems. *)

\* In a ring of any size every variable has its type, and a cell that message_loop
\* stores to or readring copies from is one of the ring's.
THEOREM RingTypeCorrect == RingSpec => []RingTypeOK
<1>1. RingInv => RingTypeOK BY DEF RingInv
<1> QED BY <1>1, RingInvariant, PTL

\* A program that asks readring for one message after another gets each at most once
\* and in order, and misses only whole rounds of the ring.
THEOREM ReadInOrder == RingSpec => ReadsInOrder
<1> DEFINE Order ==
      reading = "copy" /\ reading' # "copy" /\ plain
        => \E rounds \in 0 .. MaxMessages : last' = last + 1 + N * rounds
<1>1. ASSUME RingInv, [RingNext]_ringVars PROVE [Order]_ringVars
  <2>1. SUFFICES ASSUME RingNext, reading = "copy", reading' # "copy", plain
                 PROVE \E rounds \in 0 .. MaxMessages : last' = last + 1 + N * rounds
    BY <1>1
  <2>2. last' = message_ring[message_tail]
    BY <2>1 DEF RingNext, MessageLoop, MakeRing, BeginStore, EndStore, ReadNext, ReadHead,
         ReadNow, Look, TimeOut, Copy, CopyTorn, ClearRing, ResizeRing
  <2> QED BY <1>1, <2>1, <2>2, CopyNext DEF RingInv
<1> QED BY <1>1, RingInvariant, PTL DEF RingSpec, ReadsInOrder

\* What readring copies is being stored to only when the program has read none of
\* the last messages that fill the ring.
THEOREM TornLapped == RingSpec => []TornOnlyLapped
<1>1. ASSUME RingInv PROVE TornOnlyLapped
  <2> USE NatN
  <2>1. SUFFICES ASSUME plain, Torn PROVE written - last >= N
    BY DEF TornOnlyLapped
  <2>2. RingTypeOK /\ PlainInv BY <1>1, <2>1 DEF RingInv
  <2>3. reading = "copy" /\ message_tail = After(message_head)
    BY <2>1, <2>2 DEF Torn, PlainInv, HeadInv
  <2>4. message_head \in 0 .. N - 1 /\ written \in Nat /\ last \in Nat
    BY <2>2, <2>3, CopyNext DEF RingTypeOK
  <2>5. Behind(message_head, message_tail) = N - 1
    BY <2>3, <2>4 DEF Behind, After
  <2>6. Rounds(written - last - 1, N - 1)
    BY <2>2, <2>3, <2>5 DEF PlainInv, TailInv
  <2>7. written - last - 1 >= N - 1 BY <2>4, <2>6, RoundsAtLeast
  <2> QED BY <2>4, <2>7
<1> QED BY <1>1, RingInvariant, PTL

-----------------------------------------------------------------------------
(* The ring of agent_forward. *)

LEMMA ForwardStep == [Next]_allVars => [RingNext]_ringVars
<1> SUFFICES ASSUME [Next]_allVars PROVE [RingNext]_ringVars
  OBVIOUS
<1>1. CASE Next
  <2>1. ~crashed BY <1>1 DEF Next, Alive
  <2>2. CASE Hear \/ Store
    BY <2>1, <2>2 DEF Hear, Store, RingNext, MessageLoop
  <2>3. CASE MainReads \/ MainGets
    BY <2>1, <2>3 DEF MainReads, MainGets, RingNext
  <2>4. CASE MainSends \/ AddPeer \/ Publish \/ EndAdd \/ Dies
    BY <2>4 DEF MainSends, AddPeer, Publish, EndAdd, Dies
  <2>5. ASSUME NEW peer \in Peers, Incoming(peer) \/ BeginAdd(peer) PROVE UNCHANGED ringVars
    BY <2>5 DEF Incoming, BeginAdd
  <2> QED BY <1>1, <2>2, <2>3, <2>4, <2>5 DEF Next
<1>2. CASE UNCHANGED allVars
  BY <1>2 DEF allVars
<1> QED BY <1>1, <1>2

\* A forwarder is a program that uses the ring ...
THEOREM ForwardIsRing == Spec => RingSpec
<1>1. Init => RingInit BY DEF Init
<1> QED BY <1>1, ForwardStep, PTL DEF Spec, RingSpec

\* It never asks for anything but the next message ...
LEMMA AlwaysPlain == Spec => []plain
<1>1. Init => plain BY DEF Init, RingInit
<1>2. plain /\ [Next]_allVars => plain'
  <2> SUFFICES ASSUME plain, [Next]_allVars PROVE plain'
    OBVIOUS
  <2>1. CASE Next
    <3>1. CASE Hear \/ Store
      BY <3>1 DEF Hear, Store, MakeRing, BeginStore, EndStore
    <3>2. CASE MainReads \/ MainGets
      BY <3>2 DEF MainReads, MainGets, ReadNext, Look, TimeOut, CopyTorn, Copy
    <3>3. CASE MainSends \/ AddPeer \/ Publish \/ EndAdd \/ Dies
      BY <3>3 DEF MainSends, AddPeer, Publish, EndAdd, Dies, ringVars
    <3>4. ASSUME NEW peer \in Peers, Incoming(peer) \/ BeginAdd(peer) PROVE plain'
      BY <3>4 DEF Incoming, BeginAdd, ringVars
    <3> QED BY <2>1, <3>1, <3>2, <3>3, <3>4 DEF Next
  <2>2. CASE UNCHANGED allVars
    BY <2>2 DEF allVars, ringVars
  <2> QED BY <2>1, <2>2
<1> QED BY <1>1, <1>2, PTL DEF Spec

\* ... and so takes the messages of the local network in order, each at most once.
THEOREM ForwardsInOrder ==
  Spec => ReadsInOrder /\ [](plain /\ TornOnlyLapped)
<1> QED BY ForwardIsRing, AlwaysPlain, ReadInOrder, TornLapped, PTL
=============================================================================
