------------------------------ MODULE MessageRing ------------------------------
(***************************************************************************)
(* The ring of messages of an Agent: message_loop puts messages in, the    *)
(* program takes them out with readring, and neither looks at where the    *)
(* other is nor locks anything.  Messages are numbered in the order in     *)
(* which message_loop gets them; 0 stands for a cell nothing was put in.   *)
(***************************************************************************)
EXTENDS Naturals

CONSTANTS
  N,             \* MESSAGE_RING_SIZE
  MaxMessages    \* bound of the model

ASSUME RingAssumption == N \in Nat \ {0, 1} /\ MaxMessages \in Nat

VARIABLES
  sized,                          \* message_loop has made the ring of its size
  message_ring, message_head, message_tail,
  writing, new_position,          \* message_loop stores a message there
  reading,                        \* what the program does in readring
  crashed,                        \* it died of undefined behaviour
  \* history
  written,                        \* messages put in
  last,                           \* the last message the program read or gave up
  plain                           \* the program has only asked for the next message, with
                                  \* time to wait, and cleared the ring

pointers == <<message_head, message_tail>>
writer == <<sized, message_ring, message_head, writing, new_position, written>>
ringVars == <<sized, message_ring, pointers, writing, new_position, reading, crashed, written, last, plain>>

RingInit ==
  /\ sized = FALSE /\ message_ring = [i \in 0 .. N - 1 |-> 0]
  /\ message_head = N /\ message_tail = N
  /\ writing = FALSE /\ new_position = 0 /\ reading = "no" /\ crashed = FALSE
  /\ written = 0 /\ last = 0 /\ plain = TRUE

NoWrap(position) == IF position > N THEN 0 ELSE position + 1   \* mutant
After(position) == IF position + 1 >= N THEN 0 ELSE position + 1
Before(position) == IF position = 0 THEN N - 1 ELSE position - 1

-----------------------------------------------------------------------------
(* message_loop *)

MakeRing ==
  /\ ~sized /\ sized' = TRUE
  /\ UNCHANGED <<message_ring, pointers, writing, new_position, reading, crashed, written, last, plain>>

BeginStore ==
  /\ sized /\ ~writing /\ written < MaxMessages
  /\ writing' = TRUE /\ new_position' = After(message_head)
  /\ UNCHANGED <<sized, message_ring, pointers, reading, crashed, written, last, plain>>

EndStore ==
  /\ writing /\ writing' = FALSE /\ written' = written + 1
  /\ message_ring' = [message_ring EXCEPT ![new_position] = written + 1]
  /\ message_head' = new_position
  /\ UNCHANGED <<sized, message_tail, new_position, reading, crashed, last, plain>>

-----------------------------------------------------------------------------
(* readring *)

\* Where::TAIL, with time to wait
ReadNext ==
  /\ reading = "no" /\ reading' = "look"
  /\ UNCHANGED <<writer, message_tail, crashed, last, plain>>

\* Where::HEAD
ReadHead ==
  /\ reading = "no" /\ reading' = "look" /\ message_tail' = Before(message_head) /\ plain' = FALSE
  /\ UNCHANGED <<writer, crashed, last>>

AlwaysNew == TRUE   \* mutant: the head is not looked at
HasNew == message_head # message_tail

\* The tail moves on before the message is copied.  A ring that has no cells yet is
\* read all the same.
Advance ==
  IF sized THEN message_tail' = After(message_tail) /\ reading' = "copy" /\ UNCHANGED crashed
  ELSE crashed' = TRUE /\ UNCHANGED <<message_tail, reading>>

Look == reading = "look" /\ HasNew /\ Advance /\ UNCHANGED <<writer, last, plain>>

TimeOut ==
  /\ reading = "look" /\ ~HasNew /\ reading' = "no"
  /\ UNCHANGED <<writer, message_tail, crashed, last, plain>>

\* With no time to wait the head is not looked at.
ReadNow == reading = "no" /\ Advance /\ plain' = FALSE /\ UNCHANGED <<writer, last>>

\* A message of another type than was asked for is passed over, and readring looks on.
Copy ==
  /\ reading = "copy" /\ reading' \in {"no", "look"} /\ last' = message_ring[message_tail]
  /\ UNCHANGED <<writer, message_tail, crashed, plain>>

Torn == reading = "copy" /\ writing /\ message_tail = new_position

\* The strings of a message are copied while they are assigned.
CopyTorn ==
  /\ Torn /\ crashed' = TRUE
  /\ UNCHANGED <<writer, message_tail, reading, last, plain>>

-----------------------------------------------------------------------------
(* clearring and resizering *)

ClearRing ==
  /\ reading = "no" /\ message_tail' = message_head /\ last' = written
  /\ UNCHANGED <<writer, reading, crashed, plain>>

\* The ring keeps its cells.  N stands for the largest size_t there is, which is
\* what the tail becomes for a new size of 0; the one after it is 0 for both.
ResizeRing(newsize) ==
  /\ reading = "no" /\ plain' = FALSE
  /\ message_head' = IF message_head >= newsize THEN 0 ELSE message_head
  /\ message_tail' = IF message_tail < newsize THEN message_tail
                     ELSE IF newsize = 0 THEN N ELSE newsize - 1
  /\ UNCHANGED <<sized, message_ring, writing, new_position, reading, crashed, written, last>>

-----------------------------------------------------------------------------
MessageLoop == MakeRing \/ BeginStore \/ EndStore

RingNext ==
  /\ ~crashed
  /\ \/ MessageLoop
     \/ ReadNext \/ ReadHead \/ ReadNow \/ Look \/ TimeOut \/ Copy \/ CopyTorn
     \/ ClearRing
     \/ \E newsize \in 0 .. N + 1 : ResizeRing(newsize)

RingSpec == RingInit /\ [][RingNext]_ringVars

-----------------------------------------------------------------------------
(* Properties. *)

\* Every variable has its type, and whatever was done to the pointers a cell that
\* is stored to or copied from is one of the ring's.
RingTypeOK ==
  /\ sized \in BOOLEAN /\ message_ring \in [0 .. N - 1 -> 0 .. MaxMessages]
  /\ message_head \in 0 .. N /\ message_tail \in 0 .. N
  /\ writing \in BOOLEAN /\ new_position \in 0 .. N - 1
  /\ reading \in {"no", "look", "copy"} /\ crashed \in BOOLEAN
  /\ written \in 0 .. MaxMessages /\ last \in 0 .. MaxMessages /\ plain \in BOOLEAN
  /\ reading = "copy" => sized /\ message_tail < N
  /\ writing => sized /\ written < MaxMessages

\* A program that asks for one message after another gets each at most once and in
\* order; what it misses is always whole rounds of the ring.
ReadsInOrder ==
  [][reading = "copy" /\ reading' # "copy" /\ plain
       => \E rounds \in 0 .. MaxMessages : last' = last + 1 + N * rounds]_ringVars

\* The cell that is copied is stored to at the same time only if the program is a
\* whole round behind: it has not read any of the last N messages.
TornOnlyLapped == plain /\ Torn => written - last >= N
=============================================================================
