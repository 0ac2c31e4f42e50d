--------------------------- MODULE ChunkTransfer ----------------------------
(***************************************************************************)
(* One transfer at the level of bytes: the sender's list of requested      *)
(* ranges, the DATA and REQDATA packets, and the receiver's list of        *)
(* received ranges, its byte count and the contents of its temporary file. *)
(* How many bytes a DATA packet carries depends on the channel in use,     *)
(* which the use_channel request switches at any time.                     *)
(***************************************************************************)
EXTENDS FileChunks

CONSTANTS
  FileSize,       \* bytes of the file
  PacketSize,     \* PacketSize[c]: most bytes of a DATA packet on channel c
  \* bounds of the model
  Window,         \* packets in flight when a packet is sent spontaneously
  MaxSwitches, MaxLost

Channels == DOMAIN PacketSize

ASSUME ChunkAssumption ==
  /\ FileSize \in Position \ {0} /\ \A c \in Channels : PacketSize[c] \in Nat \ {0}
  /\ {Window, MaxSwitches, MaxLost} \subseteq Nat

VARIABLES
  pending,    \* sender: file_info, the ranges to send
  channel,    \* sender: use_channel
  info,       \* receiver: file_info, the ranges received
  total,      \* receiver: total_bytes
  content,    \* receiver: what each byte of the temporary file is: the number
              \* of a byte of the sent file, or -1 where nothing was written
  whole,      \* receiver: the transfer was found complete
  toReceiver, toSender,
  switches, lost

chunkVars == <<pending, channel, info, total, content, whole, toReceiver, toSender,
               switches, lost>>

Init ==
  /\ pending = <<>> /\ channel \in Channels
  /\ info = <<>> /\ total = 0 /\ content = [p \in 0 .. FileSize - 1 |-> -1]
  /\ whole = FALSE
  /\ toReceiver = <<>> /\ toSender = <<>>
  /\ switches = 0 /\ lost = 0

InFlight == Len(toReceiver) + Len(toSender)

-----------------------------------------------------------------------------
(* The sender. *)

\* request_use_channel
UseChannel(c) ==
  /\ switches < MaxSwitches /\ c # channel
  /\ switches' = switches + 1 /\ channel' = c
  /\ UNCHANGED <<pending, info, total, content, whole, toReceiver, toSender, lost>>

SendData ==
  /\ ~whole /\ pending # <<>> /\ InFlight < Window
  /\ LET first == pending[1]
         left == first.hi - first.lo + 1
         n == IF left > PacketSize[channel] THEN PacketSize[channel] ELSE left
     IN  /\ toReceiver' = Append(toReceiver, [lo |-> first.lo, hi |-> first.lo + n - 1])
         /\ pending' = FirstSent(pending, n)
  /\ UNCHANGED <<channel, info, total, content, whole, toSender, switches, lost>>

ReceiveReqData ==
  /\ toSender # <<>>
  /\ toSender' = Tail(toSender)
  /\ pending' = InsertHole(pending, Head(toSender))
  /\ UNCHANGED <<channel, info, total, content, whole, toReceiver, switches, lost>>

-----------------------------------------------------------------------------
(* The receiver. *)

IsWholeEarly(n) == n + PacketSize[1] >= FileSize   \* mutant: one packet early
IsWhole(n) == n = FileSize

Inside(d, e) == d.lo >= e.lo /\ d.hi <= e.hi

\* mutant: bytes received before count again
AbsorbedTwice(list, d) ==
  IF \E j \in 1 .. Len(list) : Inside(d, list[j])
    THEN [info |-> list, at |-> d.lo, n |-> d.hi - d.lo + 1]
    ELSE [info |-> InsertHole(list, d), at |-> d.lo, n |-> d.hi - d.lo + 1]

\* What a received range d does to the list: the new list, and the n bytes that
\* are written from position at on.  The walk stops at the first entry that holds
\* d, starts after it, or ends inside or right before it.
Absorbed(list, d) ==
  LET size == d.hi - d.lo + 1
      stops == { j \in 1 .. Len(list) :
                   Inside(d, list[j]) \/ StartsBefore(d, list[j]) \/ ExtendsEnd(d, list[j]) }
  IN  IF stops = {}
        THEN [info |-> Append(list, d), at |-> d.lo, n |-> size]
        ELSE LET j == Min(stops)
                 e == list[j]
             IN  CASE Inside(d, e) -> [info |-> list, at |-> d.lo, n |-> 0]
                   [] StartsBefore(d, e) /\ Succ(d.hi) < e.lo ->
                        [info |-> InsertAt(list, j, d), at |-> d.lo, n |-> size]
                   [] StartsBefore(d, e) /\ Succ(d.hi) >= e.lo ->
                        [info |-> [list EXCEPT ![j].lo = d.lo], at |-> d.lo, n |-> e.lo - d.lo]
                   [] ExtendsEnd(d, e) ->
                        [info |-> [list EXCEPT ![j].hi = d.hi],
                         at |-> e.hi + 1, n |-> d.hi - e.hi]

\* mutant: no fseek, the bytes go where the last write ended
WrittenAtEnd(old, d, at, n) ==
  LET end == Cardinality({ p \in DOMAIN old : old[p] # -1 })
  IN  [p \in DOMAIN old |-> IF end <= p /\ p < end + n THEN d.lo + (p - end) ELSE old[p]]

\* fwrite takes the first n bytes of the packet, wherever they go in the file.
Written(old, d, at, n) ==
  [p \in DOMAIN old |-> IF at <= p /\ p < at + n THEN d.lo + (p - at) ELSE old[p]]

ReceiveData ==
  /\ ~whole /\ toReceiver # <<>>
  /\ toReceiver' = Tail(toReceiver)
  /\ LET d == Head(toReceiver)
         a == Absorbed(info, d)
     IN  /\ info' = a.info
         /\ total' = total + a.n
         /\ content' = Written(content, d, a.at, a.n)
  /\ whole' = IsWhole(total')
  /\ UNCHANGED <<pending, channel, toSender, switches, lost>>

Bytes(list) == Cardinality(Positions(Range(list)))

\* mutant: nothing is asked for before the first range
MissingAfterFirst(list) ==
  { [lo |-> list[i].hi + 1,
     hi |-> (IF i = Len(list) THEN FileSize ELSE list[i + 1].lo) - 1] : i \in DOMAIN list }

\* What find_chunks_missing walks: the gaps between neighbours of the list.
Missing(list) ==
  IF list = <<>> THEN { [lo |-> 0, hi |-> FileSize - 1] }
  ELSE { [lo |-> 0, hi |-> list[1].lo - 1] : i \in { j \in {1} : list[1].lo # 0 } }
         \cup { [lo |-> list[i - 1].hi + 1, hi |-> list[i].lo - 1] :
                  i \in { j \in 2 .. Len(list) : list[j - 1].hi + 1 # list[j].lo } }
         \cup { [lo |-> list[Len(list)].hi + 1, hi |-> FileSize - 1] :
                  i \in { j \in {1} : list[Len(list)].hi + 1 # FileSize } }

\* next_incoming_tx for this transfer, on a QUEUE packet: merge the list, recount
\* the bytes, and ask for what is missing unless nothing is.
AskForMissing ==
  /\ InFlight < Window /\ ~whole
  /\ \E merged \in Ascending(Merged(Range(info))) :
       /\ info' = merged
       /\ total' = Bytes(merged)
       /\ IF IsWhole(total')
            THEN whole' = TRUE /\ UNCHANGED toSender
            ELSE /\ UNCHANGED whole
                 /\ \E holes \in Ascending(Missing(merged)) : toSender' = toSender \o holes
  /\ UNCHANGED <<pending, channel, content, toReceiver, switches, lost>>

LosePacket ==
  /\ lost < MaxLost /\ lost' = lost + 1
  /\ \/ \E i \in DOMAIN toReceiver :
          toReceiver' = RemoveAt(toReceiver, i) /\ UNCHANGED toSender
     \/ \E i \in DOMAIN toSender :
          toSender' = RemoveAt(toSender, i) /\ UNCHANGED toReceiver
  /\ UNCHANGED <<pending, channel, info, total, content, whole, switches>>

-----------------------------------------------------------------------------
ChunkNext ==
  \/ \E c \in Channels : UseChannel(c)
  \/ SendData \/ ReceiveReqData \/ ReceiveData \/ AskForMissing \/ LosePacket

ChunkSpec == Init /\ [][ChunkNext]_chunkVars

\* The threads of both ends never stop, and QUEUE packets come again and again.
\* The window is the model's: a step it holds up is taken in the end.
FairChunkSpec ==
  /\ ChunkSpec
  /\ SF_chunkVars(SendData) /\ SF_chunkVars(AskForMissing)
  /\ WF_chunkVars(ReceiveReqData) /\ WF_chunkVars(ReceiveData)

-----------------------------------------------------------------------------
(* Properties. *)

Span == { r \in Chunk : r.lo <= r.hi /\ r.hi < FileSize }

\* Every range, in the lists and in the packets, is a non-empty part of the file.
ChunkTypeOK ==
  /\ pending \in Seq(Span) /\ info \in Seq(Span)
  /\ toReceiver \in Seq(Span) /\ toSender \in Seq(Span)
  /\ channel \in Channels /\ total \in Nat /\ whole \in BOOLEAN
  /\ content \in [0 .. FileSize - 1 -> -1 .. FileSize - 1]
  /\ switches \in Nat /\ lost \in Nat

\* The progress list covers exactly the bytes that were written.
ListIsWritten ==
  Positions(Range(info)) = { p \in DOMAIN content : content[p] # -1 }

\* A transfer is found complete only when the temporary file is the sent file.
WholeIsRight == whole => \A p \in DOMAIN content : content[p] = p

\* A byte of the temporary file is the byte of the sent file at that place, or
\* nothing was written there, while all packets of the transfer have one size.
ContentRight == switches = 0 => \A p \in DOMAIN content : content[p] \in {-1, p}

\* In a transfer of at most three packets of one size, total_bytes, by which
\* alone a transfer is found complete, counts each received byte once ...
ThreePackets == switches = 0 /\ FileSize <= 3 * PacketSize[channel]
TotalExact == ThreePackets => total = Bytes(info)

\* ... and so a transfer found complete is the sent file.
ShortIsRight == ThreePackets => WholeIsRight

\* A packet of one byte does to the list, and to the byte count, what FileTransfer
\* takes a block to do.
OneByteIsBlock ==
  \A p \in 0 .. FileSize - 1 :
    LET a == Absorbed(info, [lo |-> p, hi |-> p])
        after == Absorb(Range(info), p)
    IN  Range(a.info) = after /\ a.n = IF after = Range(info) THEN 0 ELSE 1

\* What the receiver asks for after merging its list is what FileTransfer takes
\* it to ask for: Holes of the set of the bytes it has.
MissingIsHoles ==
  \A merged \in Ascending(Merged(Range(info))) :
    Missing(merged) = Holes(Positions(Range(info)), FileSize)

\* The transfer is found complete in the end, whatever packets were lost and
\* whichever channels were used.
EventuallyWhole == <>whole
=============================================================================
