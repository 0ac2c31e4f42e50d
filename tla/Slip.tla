--------------------------------- MODULE Slip ---------------------------------
(***************************************************************************)
(* SLIP framing on a serial line: the octets cssl_putslip writes for a     *)
(* packet, and cssl_getslip octet by octet.  The line is read with VMIN 1  *)
(* and VTIME 0, so a read waits for ever and never times out.              *)
(***************************************************************************)
EXTENDS Naturals, SequencesExt

CONSTANTS
  Payload,   \* the octets that mean nothing to SLIP
  BufSize    \* TUN_BUF_SIZE

FEND == "FEND"
FESC == "FESC"
TFEND == "TFEND"
TFESC == "TFESC"
Octets == Payload \cup {FEND, FESC, TFEND, TFESC}

\* What a position of the buffer held before: nothing was written there.
Old == "old"

UnescapedFend(octet) == IF octet = FESC THEN <<FESC, TFESC>> ELSE <<octet>>   \* mutant

Escaped(octet) ==
  CASE octet = FEND -> <<FESC, TFEND>>
    [] octet = FESC -> <<FESC, TFESC>>
    [] OTHER -> <<octet>>

Frame(packet) ==
  <<FEND>> \o FlattenSeq([i \in DOMAIN packet |-> Escaped(packet[i])]) \o <<FEND>>

-----------------------------------------------------------------------------
(* The reader: it hunts for a delimiter, is in a frame, or behind a FESC.  *)

Hunting == [at |-> "hunt", buf |-> <<>>]

Store(reader, octet) == [at |-> "frame", buf |-> Append(reader.buf, octet)]

Unescaped(octet) ==
  CASE octet = TFEND -> FEND
    [] octet = TFESC -> FESC
    [] OTHER -> Old

Move(reader, octet) ==
  CASE reader.at = "hunt" -> IF octet = FEND THEN [reader EXCEPT !.at = "frame"] ELSE reader
    [] reader.at = "escape" -> Store(reader, Unescaped(octet))
    [] reader.at = "frame" /\ octet = FESC -> [reader EXCEPT !.at = "escape"]
    [] OTHER -> Store(reader, octet)

\* The reader after an octet that does not end the frame.  A full buffer takes no
\* more octets, and the rest of the frame is read and forgotten.
Step(reader, octet) ==
  IF reader.at = "frame" /\ Len(reader.buf) >= BufSize THEN reader ELSE Move(reader, octet)

EndsOnlyPlain(reader, octet) == reader.at = "frame" /\ octet = FEND  \* mutant: not behind a FESC
Ends(reader, octet) == reader.at # "hunt" /\ octet = FEND

\* What the reader returns with the delimiter.  One that follows a FESC leaves an
\* octet nobody wrote at the end.
Result(reader) == IF reader.at = "escape" THEN Append(reader.buf, Old) ELSE reader.buf
=============================================================================
