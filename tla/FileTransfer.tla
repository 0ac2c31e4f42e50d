---------------------------- MODULE FileTransfer ----------------------------
(***************************************************************************)
(* The COSMOS file transfer protocol of agent_file, for one pair of nodes  *)
(* and one direction: the outgoing half of one agent_file (the sender) and *)
(* the incoming half of its peer (the receiver).  The other direction is   *)
(* the same protocol on disjoint state; all that reaches this one is the   *)
(* peer's QUEUE packet, by which the sender learns who its peer is.        *)
(*                                                                         *)
(* A file is cut in blocks, a block being what one DATA packet carries.    *)
(* What a receiver stores is a set of pairs <<block, file it came from>>.  *)
(* Whether write_meta writes depends on the clock (at most once per 5 s    *)
(* and transfer): the model lets each call write or not.                   *)
(*                                                                         *)
(* Calls to the file system fail, and agent_file goes on after most of     *)
(* them as if they had not: `broken' are the calls of a step that fail.    *)
(***************************************************************************)
EXTENDS FileChunks

CONSTANTS
  Files,          \* the names in the outgoing folder
  Size,           \* Size[f]: the blocks of f, as the user leaves it there
  MaxTxId,        \* the largest transaction id (255: an id is one byte)
  Limit,          \* TRANSFER_QUEUE_LIMIT, the ids one QUEUE packet can list
  NoTx, NoFile,   \* an empty slot or absent meta file; an unnamed entry
  Ordered,        \* TRUE when the links deliver in the order of sending
  \* bounds of the model
  Window,         \* packets in flight when the sender sends spontaneously
  MaxLost,        \* packets the links lose
  MaxDup,         \* packets the links duplicate
  SenderRestarts, ReceiverRestarts,
  Disturbed,      \* files another program may remove or shorten
  FailingCalls,   \* the calls to the file system that can fail
  MaxFailures     \* how many of them do

Ids == 1 .. MaxTxId

\* The sender reads a file to send, removes it and its meta file.  The receiver
\* opens and writes a temporary file, moves it to the incoming folder, removes it
\* and its meta file; METADATA writes a meta file too.
Calls == {"read", "remove", "removeMeta", "create", "write", "rename", "removeTemp"}

\* The blocks a file can have: a size is a position too.
Block == 0 .. MaxBlock - 1
Run == [lo : Block, hi : Block]

ASSUME SizeAssumption == Size \in [Files -> Position]
ASSUME TxIdAssumption == MaxTxId \in Nat /\ Limit \in Nat /\ 0 < Limit /\ Limit < MaxTxId
ASSUME NoFileAssumption == NoFile \notin Files
ASSUME BoundsAssumption ==
  /\ Ordered \in BOOLEAN
  /\ {Window, MaxLost, MaxDup, SenderRestarts, ReceiverRestarts, MaxFailures} \subseteq Nat
  /\ Disturbed \subseteq Files /\ FailingCalls \subseteq Calls

VARIABLES
  \* sender
  disk,        \* the outgoing folder: is the file there, how long is it
  out,         \* outgoing.progress: the occupied slots
  outSize,     \* outgoing.size
  nextId,      \* outgoing.next_id
  current,     \* outgoing.id, the transfer being sent (0: none)
  scan,        \* what is left of the last listing of the outgoing folder
  metaOut,     \* the files out_<slot>.meta
  peerKnown,   \* txq[node].node_id of the sender is set
  active,      \* active_node of the sender is this node
  \* receiver
  in,          \* incoming.progress: the occupied slots
  metaIn,      \* the files in_<slot>.meta
  temp,        \* the files in_<slot>.file ({} when absent)
  incoming,    \* the incoming folder ({} when absent)
  senderKnown, \* txq[node].node_id of the receiver is set
  reqmetaDue,  \* currentmjd() > next_reqmeta_time
  \* links, each with the transmit queue that feeds it
  toReceiver, toSender,
  \* history and bounds
  user,        \* what has happened to each file: put in the folder by the user,
               \* then disturbed by a program or failed by the file system
  failures, lost, dup, restarts

senderVars == <<out, outSize, nextId, current, scan, metaOut, peerKnown, active>>
receiverVars == <<in, metaIn, temp, incoming, senderKnown, reqmetaDue>>
fates == <<user, failures>>
boundVars == <<lost, dup, restarts>>
vars == <<disk, senderVars, receiverVars, toReceiver, toSender, fates, boundVars>>

-----------------------------------------------------------------------------
(* Packets. *)

Queue(ids)        == [type |-> "QUEUE", ids |-> ids]
Meta(tx, f, size) == [type |-> "METADATA", tx |-> tx, file |-> f, size |-> size]
Data(tx, f, b)    == [type |-> "DATA", tx |-> tx, file |-> f, block |-> b]
Cancel(tx)        == [type |-> "CANCEL", tx |-> tx]

PeerQueue         == [type |-> "PEERQUEUE"]
ReqMeta(ids)      == [type |-> "REQMETA", ids |-> ids]
ReqData(tx, h)    == [type |-> "REQDATA", tx |-> tx, hole |-> h]
Complete(tx)      == [type |-> "COMPLETE", tx |-> tx]

ToReceiver ==
  [type : {"QUEUE"}, ids : SUBSET Ids]
    \cup [type : {"METADATA"}, tx : Ids, file : Files, size : Position]
    \cup [type : {"DATA"}, tx : Ids, file : Files, block : Block]
    \cup [type : {"CANCEL"}, tx : Ids]

ToSender ==
  [type : {"PEERQUEUE"}]
    \cup [type : {"REQMETA"}, ids : SUBSET Ids]
    \cup [type : {"REQDATA"}, tx : Ids, hole : Chunk]
    \cup [type : {"COMPLETE"}, tx : Ids]

Repeat(s, i) == InsertAt(s, i, s[i])

\* The packets a receive may take next.
Arrivals(link) == IF Ordered THEN 1 .. (IF link = <<>> THEN 0 ELSE 1) ELSE 1 .. Len(link)

InFlight == Len(toReceiver) + Len(toSender)

\* The ids of S in ascending order (one sequence).
AscendingIds(S) ==
  { s \in [1 .. Cardinality(S) -> S] : \A i, j \in DOMAIN s : i < j => s[i] < s[j] }

-----------------------------------------------------------------------------
(* State. *)

OutTx == [file : Files, size : Position, pending : Seq(Chunk), open : BOOLEAN]
OutMeta == [file : Files, pending : Seq(Chunk), live : BOOLEAN]
InTx == [havemeta : BOOLEAN, file : Files \cup {NoFile}, size : Position,
         got : SUBSET Run, total : Nat, complete : BOOLEAN, open : BOOLEAN]
InMeta == [file : Files \cup {NoFile}, size : Position, got : SUBSET Run]

ASSUME NoTxAssumption == NoTx \notin OutTx \cup OutMeta \cup InTx \cup InMeta

OutIds == { tx \in Ids : out[tx] # NoTx }
InIds == { tx \in Ids : in[tx] # NoTx }

\* The contents of file f, and of a stored file's blocks.
Whole(f) == (0 .. Size[f] - 1) \X {f}
Blocks(stored) == { p[1] : p \in stored }

Init ==
  /\ disk = [f \in Files |-> [there |-> FALSE, len |-> 0]]
  /\ user = [f \in Files |-> "none"]
  /\ out = [tx \in Ids |-> NoTx] /\ outSize = 0 /\ nextId = 1 /\ current = 0
  /\ scan = {}
  /\ metaOut = [tx \in Ids |-> NoTx]
  /\ peerKnown = FALSE /\ active = FALSE
  /\ in = [tx \in Ids |-> NoTx]
  /\ metaIn = [tx \in Ids |-> NoTx]
  /\ temp = [tx \in Ids |-> {}]
  /\ incoming = [f \in Files |-> {}]
  /\ senderKnown = FALSE /\ reqmetaDue = TRUE
  /\ toReceiver = <<>> /\ toSender = <<>>
  /\ failures = 0 /\ lost = 0 /\ dup = 0
  /\ restarts = [sender |-> 0, receiver |-> 0]

-----------------------------------------------------------------------------
(* Failing calls. *)

\* What may fail in a step that makes these calls; those of one kind together.
Failures(calls) ==
  { broken \in SUBSET (calls \cap FailingCalls) : failures + Cardinality(broken) <= MaxFailures }

\* The failures of a step, and the files whose transfer they spoil.
Suffer(broken, files) ==
  /\ failures' = failures + Cardinality(broken)
  /\ user' = [f \in Files |-> IF f \in files THEN "failed" ELSE user[f]]

-----------------------------------------------------------------------------
(* The user and other programs on the sender's machine. *)

PutFile(f) ==
  /\ user[f] = "none"
  /\ user' = [user EXCEPT ![f] = "put"]
  /\ disk' = [disk EXCEPT ![f] = [there |-> TRUE, len |-> Size[f]]]
  /\ UNCHANGED <<senderVars, receiverVars, toReceiver, toSender, failures, boundVars>>

DisturbFile(f) ==
  /\ f \in Disturbed /\ user[f] = "put" /\ disk[f].there
  /\ user' = [user EXCEPT ![f] = "disturbed"]
  /\ \/ disk' = [disk EXCEPT ![f].there = FALSE]
     \/ \E n \in 0 .. Size[f] - 1 : disk' = [disk EXCEPT ![f].len = n]
  /\ UNCHANGED <<senderVars, receiverVars, toReceiver, toSender, failures, boundVars>>

-----------------------------------------------------------------------------
(* The sender's main thread: the outgoing folder. *)

QueuedNever(f) == FALSE   \* mutant: the check for a file already queued is lost
Queued(f) == \E tx \in OutIds : out[tx].file = f

HasRoomAtLimit == outSize <= Limit   \* mutant: off by one
HasRoom == outSize < Limit

\* The folder is listed every 10 s, and at once after a listing that found a
\* file not queued yet.
ListOutgoing ==
  /\ scan = {} /\ HasRoom
  /\ scan' = { [file |-> f, len |-> disk[f].len] : f \in { g \in Files : disk[g].there } }
  /\ UNCHANGED <<disk, out, outSize, nextId, current, metaOut, peerKnown, active>>
  /\ UNCHANGED <<receiverVars, toReceiver, toSender, fates, boundVars>>

FollowingIdUnbounded(id) == id + 1   \* mutant: an id wider than one byte
FollowingId(id) == (id + 1) % (MaxTxId + 1)

\* The free id that the search from next_id meets first, wrapping past 255 to 0,
\* which is skipped.
Distance(id) == (id - nextId) % (MaxTxId + 1)
NextFreeId(id) ==
  /\ id \in Ids \ OutIds
  /\ \A other \in Ids \ OutIds : Distance(id) <= Distance(other)

\* outgoing_tx_add(node, agent, file): the id is taken before the file is looked
\* at, so a file that is empty or gone, or cannot be opened, uses up an id.
AddOutgoing(f, broken) ==
  \E id \in Ids :
    /\ NextFreeId(id)
    /\ nextId' = FollowingId(id)
    /\ LET size == IF disk[f].there /\ "read" \notin broken THEN disk[f].len ELSE 0
       IN  \/ size = 0 /\ UNCHANGED <<out, outSize, metaOut>>
           \/ /\ size > 0
              /\ out' = [out EXCEPT ![id] =
                           [file |-> f, size |-> size, pending |-> <<>>, open |-> FALSE]]
              /\ outSize' = (outSize + 1) % (MaxTxId + 1)
              /\ \/ UNCHANGED metaOut
                 \/ metaOut' = [metaOut EXCEPT ![id] =
                                  [file |-> f, pending |-> <<>>, live |-> TRUE]]

\* One file of the listing, the smallest first.
ScanFile ==
  \E e \in scan :
    /\ \A other \in scan : e.len <= other.len
    /\ \/ ~HasRoom /\ scan' = {}
          /\ UNCHANGED <<out, outSize, nextId, metaOut, fates>>
       \/ HasRoom /\ scan' = scan \ {e}
          /\ \/ Queued(e.file) /\ UNCHANGED <<out, outSize, nextId, metaOut, fates>>
             \/ /\ ~Queued(e.file)
                /\ \E broken \in Failures({"read"}) : AddOutgoing(e.file, broken) /\ Suffer(broken, {})
    /\ UNCHANGED <<disk, current, peerKnown, active>>
    /\ UNCHANGED <<receiverVars, toReceiver, toSender, boundVars>>

-----------------------------------------------------------------------------
(* The sender's send thread. *)

\* outgoing_tx_del: free the slot, delete the file and its meta file; meta is
\* what is at the place of the meta file in the end.  A file that cannot be
\* deleted is in the outgoing folder still.
Deleted(tx, meta, broken) ==
  /\ out' = [out EXCEPT ![tx] = NoTx]
  /\ current' = 0
  /\ disk' = [disk EXCEPT ![out[tx].file].there = @ /\ "remove" \in broken]
  /\ metaOut' = IF meta = NoTx /\ "removeMeta" \in broken THEN metaOut
                ELSE [metaOut EXCEPT ![tx] = meta]
DeleteOutgoingTwice(tx, meta, broken) ==   \* mutant: the count is lowered twice
  Deleted(tx, meta, broken) /\ outSize' = IF outSize > 1 THEN outSize - 2 ELSE 0
DeleteOutgoing(tx, meta, broken) ==
  Deleted(tx, meta, broken) /\ outSize' = (outSize - 1) % (MaxTxId + 1)

WriteMetaOut(tx, r) ==
  \/ UNCHANGED metaOut
  \/ metaOut' = [metaOut EXCEPT ![tx] =
                   [file |-> r.file, pending |-> r.pending, live |-> TRUE]]

Sending ==
  /\ active /\ InFlight < Window
  /\ current \in OutIds /\ out[current].pending # <<>>

CanOpen(r) == r.open \/ disk[r.file].there
CanRead(r) == r.pending[1].lo < disk[r.file].len

SendBlock ==
  /\ Sending /\ CanOpen(out[current]) /\ CanRead(out[current])
  /\ LET r == out[current]
         rest == FirstSent(r.pending, 1)
         sent == [r EXCEPT !.pending = rest, !.open = Len(rest) = Len(r.pending)]
     IN  /\ toReceiver' = Append(toReceiver, Data(current, r.file, r.pending[1].lo))
         /\ out' = [out EXCEPT ![current] = sent]
         /\ WriteMetaOut(current, sent)
  /\ UNCHANGED <<disk, outSize, nextId, current, scan, peerKnown, active>>
  /\ UNCHANGED <<receiverVars, toSender, fates, boundVars>>

\* A file that cannot be opened or read, or a range past its end, ends the
\* transfer.  After a read that failed write_meta still runs, for a slot that is
\* free now: it leaves a meta file with transaction id 0.
EndTransfer(broken) ==
  /\ \/ DeleteOutgoing(current, NoTx, broken)
     \/ /\ CanOpen(out[current])
        /\ DeleteOutgoing(current, [file |-> out[current].file,
                                    pending |-> out[current].pending, live |-> FALSE], broken)
  /\ toReceiver' = Append(toReceiver, Cancel(current))
  /\ UNCHANGED <<nextId, scan, peerKnown, active>>
  /\ UNCHANGED <<receiverVars, toSender, boundVars>>

GiveUp ==
  /\ Sending /\ ~(CanOpen(out[current]) /\ CanRead(out[current]))
  /\ \E broken \in Failures({"remove", "removeMeta"}) : EndTransfer(broken) /\ Suffer(broken, {})

\* The same for a file that is there and as long as it should be.
ReadFails ==
  /\ Sending
  /\ \E broken \in Failures({"read", "remove", "removeMeta"}) :
       "read" \in broken /\ EndTransfer(broken) /\ Suffer(broken, {out[current].file})

\* Every 10 s: the occupied slots, the first Limit of them.
SendQueue ==
  /\ InFlight < Window
  /\ toReceiver' = Append(toReceiver,
       Queue({ tx \in OutIds : Cardinality({ u \in OutIds : u < tx }) < Limit }))
  /\ UNCHANGED <<disk, senderVars, receiverVars, toSender, fates, boundVars>>

\* The peer's own QUEUE packet.  Once the sender has seen one, more of them
\* change nothing and are left out.
PeerSendQueue ==
  /\ ~active /\ InFlight < Window
  /\ toSender' = Append(toSender, PeerQueue)
  /\ UNCHANGED <<disk, senderVars, receiverVars, toReceiver, fates, boundVars>>

-----------------------------------------------------------------------------
(* The sender's receive thread: one action per packet type. *)

SenderTakes(i, type) ==
  /\ toSender[i].type = type
  /\ toSender' = RemoveAt(toSender, i)
  /\ UNCHANGED <<nextId, scan, receiverVars, boundVars>>

HandlePeerQueue ==
  /\ peerKnown' = TRUE /\ active' = TRUE
  /\ UNCHANGED <<disk, out, outSize, current, metaOut, toReceiver, fates>>

\* One METADATA packet for each listed id that is occupied.
HandleReqMeta(m) ==
  /\ peerKnown' = TRUE
  /\ \E ids \in AscendingIds(m.ids \cap OutIds) :
       toReceiver' = toReceiver \o
         [i \in 1 .. Cardinality(m.ids \cap OutIds) |->
            Meta(ids[i], out[ids[i]].file, out[ids[i]].size)]
  /\ UNCHANGED <<disk, out, outSize, current, metaOut, active, fates>>

HandleReqData(m) ==
  /\ \/ /\ m.hole.lo <= m.hole.hi /\ m.tx \in OutIds
        /\ LET r == [out[m.tx] EXCEPT !.pending = InsertHole(@, m.hole)]
           IN  out' = [out EXCEPT ![m.tx] = r] /\ WriteMetaOut(m.tx, r)
        /\ current' = m.tx
     \/ /\ ~(m.hole.lo <= m.hole.hi /\ m.tx \in OutIds)
        /\ UNCHANGED <<out, metaOut, current>>
  /\ UNCHANGED <<disk, outSize, peerKnown, active, toReceiver, fates>>

HandleComplete(m) ==
  /\ \/ /\ m.tx \in OutIds /\ peerKnown
        /\ \E broken \in Failures({"remove", "removeMeta"}) :
             DeleteOutgoing(m.tx, NoTx, broken) /\ Suffer(broken, {})
        /\ toReceiver' = Append(toReceiver, Cancel(m.tx))
     \/ /\ ~(m.tx \in OutIds /\ peerKnown)
        /\ UNCHANGED <<out, outSize, current, disk, metaOut, toReceiver, fates>>
  /\ UNCHANGED <<peerKnown, active>>

ReceivePeerQueue ==
  \E i \in Arrivals(toSender) : SenderTakes(i, "PEERQUEUE") /\ HandlePeerQueue
ReceiveReqMeta ==
  \E i \in Arrivals(toSender) : SenderTakes(i, "REQMETA") /\ HandleReqMeta(toSender[i])
ReceiveReqData ==
  \E i \in Arrivals(toSender) : SenderTakes(i, "REQDATA") /\ HandleReqData(toSender[i])
ReceiveComplete ==
  \E i \in Arrivals(toSender) : SenderTakes(i, "COMPLETE") /\ HandleComplete(toSender[i])

-----------------------------------------------------------------------------
(* The receiver's receive thread. *)

NewEntry == [havemeta |-> FALSE, file |-> NoFile, size |-> 0,
             got |-> {}, total |-> 0, complete |-> FALSE, open |-> FALSE]
SavedIn(r) == [file |-> r.file, size |-> r.size, got |-> r.got]

IsWholeButOne(r) == r.havemeta /\ r.size <= r.total + 1   \* mutant: off by one
IsWhole(r) == r.havemeta /\ r.size = r.total

MovesAgain(r, content) == r.complete /\ content # {}   \* mutant: the test negated
Moves(r, content) == ~r.complete /\ content # {} /\ r.file # NoFile

\* mutant: the flag is never set, the transfer looks unfinished
FoundUnmarked(r) == [r EXCEPT !.open = @ /\ r.complete]
Found(r) == [r EXCEPT !.complete = TRUE, !.open = @ /\ r.complete]

\* A whole transfer is announced to the sender, and its temporary file moved to
\* the incoming folder the first time.  A rename that fails is taken for one that
\* does not: it is not tried again.
Finish(entries, stored, tx, broken) ==
  LET r == entries[tx]
      moved == Moves(r, stored[tx]) /\ "rename" \notin broken
  IN  /\ "rename" \in broken => Moves(r, stored[tx])
      /\ in' = [entries EXCEPT ![tx] = Found(r)]
      /\ \/ /\ moved
            /\ incoming' = [incoming EXCEPT ![r.file] = stored[tx]]
            /\ temp' = [stored EXCEPT ![tx] = {}]
         \/ ~moved /\ incoming' = incoming /\ temp' = stored

\* merge_chunks_overlap merges the ranges of every entry and counts what they
\* cover; the entry with meta data and the least left is chosen, the first of
\* several.  More than the file has leaves a huge remainder (unsigned subtraction).
Count(ranges) == Cardinality(Positions(ranges))
Recounted(entries) ==
  [tx \in Ids |-> IF entries[tx] = NoTx THEN NoTx
                  ELSE [entries[tx] EXCEPT !.got = Merged(@), !.total = Count(entries[tx].got)]]
Remaining(r) == (r.size - r.total) % (MaxBlock + 1)
Chosen(entries) ==
  LET eligible == { tx \in Ids : entries[tx] # NoTx /\ entries[tx].havemeta }
  IN  { tx \in eligible : \A u \in eligible :
          \/ Remaining(entries[tx]) < Remaining(entries[u])
          \/ Remaining(entries[tx]) = Remaining(entries[u]) /\ tx <= u }

\* next_incoming_tx, after the packets in replies: announce the chosen transfer
\* when it is whole, ask for its holes when it is not.
NextIncoming(entries, stored, known, replies, broken) ==
  LET now == Recounted(entries)
      nothing == /\ "rename" \notin broken /\ Suffer(broken, {})
                 /\ in' = now /\ temp' = stored /\ incoming' = incoming
  IN  \/ /\ Chosen(now) = {} \/ ~known
         /\ nothing
         /\ toSender' = toSender \o replies
      \/ \E tx \in Chosen(now) :
           /\ known /\ IsWhole(now[tx])
           /\ Finish(now, stored, tx, broken)
           /\ Suffer(broken, { f \in {now[tx].file} : "rename" \in broken })
           /\ toSender' = toSender \o Append(replies, Complete(tx))
      \/ \E tx \in Chosen(now) :
           /\ known /\ ~IsWhole(now[tx])
           /\ LET holes == Holes(Positions(now[tx].got), now[tx].size)
              IN  \E s \in Ascending(holes) :
                    toSender' = toSender \o replies \o
                      [i \in 1 .. Cardinality(holes) |-> ReqData(tx, s[i])]
           /\ nothing

ReceiverTakes(i, type) ==
  /\ toReceiver[i].type = type
  /\ toReceiver' = RemoveAt(toReceiver, i)
  /\ UNCHANGED <<disk, senderVars, boundVars>>

\* incoming_tx_update: only the first METADATA packet counts.
HandleMeta(m) ==
  /\ \/ /\ m.tx \in InIds /\ ~in[m.tx].havemeta
        /\ \E broken \in Failures({"write"}) :
             LET r == [in[m.tx] EXCEPT !.havemeta = TRUE, !.file = m.file, !.size = m.size,
                                       !.total = 0, !.open = FALSE]
             IN  /\ in' = [in EXCEPT ![m.tx] = r]
                 /\ metaIn' = IF "write" \in broken THEN metaIn
                              ELSE [metaIn EXCEPT ![m.tx] = SavedIn(r)]
                 /\ Suffer(broken, {})
     \/ /\ ~(m.tx \in InIds /\ ~in[m.tx].havemeta)
        /\ UNCHANGED <<in, metaIn, fates>>
  /\ UNCHANGED <<temp, incoming, senderKnown, reqmetaDue, toSender>>

\* The temporary file with one more block; fopen(.., "w") empties a file that is
\* not open yet.  Where fopen or fwrite fails the block is counted all the same.
Unwritten(broken) == broken \cap {"create", "write"} # {}
Opened(r, content, broken) == IF r.open \/ "create" \in broken THEN content ELSE {}
\* mutant: the file is opened each time
WithBlockReopened(r, content, m, broken) ==
  IF Unwritten(broken) THEN Opened(r, content, broken) ELSE {<<m.block, m.file>>}
WithBlock(r, content, m, broken) ==
  IF Unwritten(broken) THEN Opened(r, content, broken)
  ELSE { p \in Opened(r, content, broken) : p[1] # m.block } \cup {<<m.block, m.file>>}

WithData(r, m, broken) ==
  [r EXCEPT !.got = Absorb(@, m.block), !.total = @ + 1, !.open = @ \/ "create" \notin broken]

\* After a DATA packet: announce the transfer when it is whole.
Announce(entries, stored, tx, broken) ==
  \/ /\ senderKnown /\ IsWhole(entries[tx])
     /\ Finish(entries, stored, tx, broken)
     /\ toSender' = Append(toSender, Complete(tx))
  \/ /\ ~(senderKnown /\ IsWhole(entries[tx])) /\ "rename" \notin broken
     /\ in' = entries /\ temp' = stored /\ UNCHANGED <<incoming, toSender>>

\* Only a block that changes the list is written and counted; the file is opened
\* for the first.
Writing(r, m) ==
  IF Absorb(r.got, m.block) = r.got THEN {}
  ELSE IF r.open THEN {"write"} ELSE {"create", "write"}

HandleData(m) ==
  /\ \/ m.tx \notin InIds /\ UNCHANGED <<in, temp, incoming, metaIn, toSender, fates>>
     \/ /\ m.tx \in InIds
        /\ \E broken \in Failures(Writing(in[m.tx], m) \cup {"rename"}) :
             /\ ~({"create", "write"} \subseteq broken)
             /\ Suffer(broken, { f \in {m.file, in[m.tx].file} : broken # {} })
             /\ \/ /\ Writing(in[m.tx], m) = {}
                   /\ Announce(in, temp, m.tx, broken) /\ UNCHANGED metaIn
                \/ /\ Writing(in[m.tx], m) # {}
                   /\ LET r == WithData(in[m.tx], m, broken)
                      IN  /\ Announce([in EXCEPT ![m.tx] = r],
                                      [temp EXCEPT ![m.tx] = WithBlock(in[m.tx], @, m, broken)],
                                      m.tx, broken)
                          /\ \/ UNCHANGED metaIn
                             \/ /\ "create" \notin broken
                                /\ metaIn' = [metaIn EXCEPT ![m.tx] = SavedIn(r)]
  /\ UNCHANGED <<senderKnown, reqmetaDue>>

\* incoming_tx_del of some transfers: what is left in the slots of a table.
Without(table, txs, call, broken, none) ==
  [tx \in Ids |-> IF tx \in txs /\ call \notin broken THEN none ELSE table[tx]]
Deleting(txs) == IF txs = {} THEN {"rename"} ELSE {"rename", "removeTemp", "removeMeta"}

\* The transfers not listed are deleted with their files, the listed ones that
\* are new are added, and meta data is asked for where it is missing.
HandleQueue(m) ==
  LET entries == [tx \in Ids |-> IF tx \notin m.ids THEN NoTx
                                 ELSE IF in[tx] = NoTx THEN NewEntry ELSE in[tx]]
      dropped == InIds \ m.ids
      missing == { tx \in m.ids : ~entries[tx].havemeta }
      asked == reqmetaDue /\ missing # {}
  IN  /\ senderKnown' = TRUE
      /\ reqmetaDue' = (reqmetaDue /\ ~asked)
      /\ \E broken \in Failures(Deleting(dropped)) :
           /\ metaIn' = Without(metaIn, dropped, "removeMeta", broken, NoTx)
           /\ NextIncoming(entries, Without(temp, dropped, "removeTemp", broken, {}),
                           TRUE, IF asked THEN <<ReqMeta(missing)>> ELSE <<>>, broken)

HandleCancel(m) ==
  LET dropped == InIds \cap {m.tx}
  IN  /\ \E broken \in Failures(Deleting(dropped)) :
           /\ metaIn' = Without(metaIn, dropped, "removeMeta", broken, NoTx)
           /\ NextIncoming([in EXCEPT ![m.tx] = NoTx],
                           Without(temp, dropped, "removeTemp", broken, {}),
                           senderKnown, <<>>, broken)
      /\ UNCHANGED <<senderKnown, reqmetaDue>>

ReceiveMeta ==
  \E i \in Arrivals(toReceiver) : ReceiverTakes(i, "METADATA") /\ HandleMeta(toReceiver[i])
ReceiveData ==
  \E i \in Arrivals(toReceiver) : ReceiverTakes(i, "DATA") /\ HandleData(toReceiver[i])
ReceiveQueue ==
  \E i \in Arrivals(toReceiver) : ReceiverTakes(i, "QUEUE") /\ HandleQueue(toReceiver[i])
ReceiveCancel ==
  \E i \in Arrivals(toReceiver) : ReceiverTakes(i, "CANCEL") /\ HandleCancel(toReceiver[i])

\* The time for the METADATA packets asked for has passed.
ReqMetaTimeout ==
  /\ ~reqmetaDue /\ reqmetaDue' = TRUE
  /\ UNCHANGED <<disk, senderVars, in, metaIn, temp, incoming, senderKnown>>
  /\ UNCHANGED <<toReceiver, toSender, fates, boundVars>>

-----------------------------------------------------------------------------
(* Links and restarts. *)

OnALink(Change(_, _)) ==
  /\ \/ \E i \in DOMAIN toReceiver : toReceiver' = Change(toReceiver, i) /\ UNCHANGED toSender
     \/ \E i \in DOMAIN toSender : toSender' = Change(toSender, i) /\ UNCHANGED toReceiver
  /\ UNCHANGED <<disk, senderVars, receiverVars, fates, restarts>>

Lose == lost < MaxLost /\ lost' = lost + 1 /\ OnALink(RemoveAt) /\ UNCHANGED dup
Duplicate == dup < MaxDup /\ dup' = dup + 1 /\ OnALink(Repeat) /\ UNCHANGED lost

\* What a crash leaves of a link: the packets at its end were still in the
\* transmit queue of the process.
CutOff(link) == { SubSeq(link, 1, n) : n \in 0 .. Len(link) }

\* Each meta file fills one place of the queue until the queue is full, those
\* with transaction id 0 in the unused slot 0.  read_meta merges the ranges.
RestartSender ==
  /\ restarts.sender < SenderRestarts
  /\ restarts' = [restarts EXCEPT !.sender = @ + 1]
  /\ LET metas == { tx \in Ids : metaOut[tx] # NoTx }
     IN  \E read \in SUBSET metas :
           /\ Cardinality(read) <= Limit
           /\ read = metas \/ Cardinality(read) = Limit
           /\ outSize' = Cardinality(read)
           /\ LET live == { tx \in read : metaOut[tx].live }
                  lists(tx) == Ascending(Merged(Range(metaOut[tx].pending)))
              IN  \E list \in [live -> UNION { lists(tx) : tx \in live }] :
                    /\ \A tx \in live : list[tx] \in lists(tx)
                    /\ out' = [tx \in Ids |-> IF tx \notin live THEN NoTx ELSE
                         [file |-> metaOut[tx].file, pending |-> list[tx], open |-> FALSE,
                          size |-> IF disk[metaOut[tx].file].there
                                   THEN disk[metaOut[tx].file].len ELSE 0]]
  /\ nextId' = 1 /\ current' = 0 /\ scan' = {} /\ peerKnown' = FALSE /\ active' = FALSE
  /\ toReceiver' \in CutOff(toReceiver)
  /\ UNCHANGED <<disk, metaOut, receiverVars, toSender, fates, lost, dup>>

\* The flag complete of a restored entry is never set: it has any value.
RestartReceiver ==
  /\ restarts.receiver < ReceiverRestarts
  /\ restarts' = [restarts EXCEPT !.receiver = @ + 1]
  /\ LET metas == { tx \in Ids : metaIn[tx] # NoTx }
     IN  \E complete \in SUBSET metas :
           in' = [tx \in Ids |-> IF tx \notin metas THEN NoTx ELSE
                    [havemeta |-> TRUE, file |-> metaIn[tx].file, size |-> metaIn[tx].size,
                     got |-> Merged(metaIn[tx].got), total |-> Count(metaIn[tx].got),
                     complete |-> tx \in complete, open |-> FALSE]]
  /\ senderKnown' = FALSE /\ reqmetaDue' = TRUE
  /\ toSender' \in CutOff(toSender)
  /\ UNCHANGED <<disk, senderVars, metaIn, temp, incoming, toReceiver, fates, lost, dup>>

-----------------------------------------------------------------------------
Next ==
  \/ \E f \in Files : PutFile(f) \/ DisturbFile(f)
  \/ ListOutgoing \/ ScanFile
  \/ SendBlock \/ GiveUp \/ ReadFails \/ SendQueue \/ PeerSendQueue
  \/ ReceivePeerQueue \/ ReceiveReqMeta \/ ReceiveReqData \/ ReceiveComplete
  \/ ReceiveMeta \/ ReceiveData \/ ReceiveQueue \/ ReceiveCancel \/ ReqMetaTimeout
  \/ Lose \/ Duplicate
  \/ RestartSender \/ RestartReceiver

Spec == Init /\ [][Next]_vars

\* Every thread of agent_file is a loop that never stops, so each step it can
\* take stays on offer until it takes it.  The send thread looks for a block to
\* send in every turn of its loop, the QUEUE packet waits for its timer: the
\* packets the window admits cannot all be QUEUE packets.
Fairness ==
  /\ WF_vars(ListOutgoing) /\ WF_vars(ScanFile)
  /\ SF_vars(SendBlock) /\ SF_vars(GiveUp) /\ SF_vars(SendQueue) /\ SF_vars(PeerSendQueue)
  /\ WF_vars(ReceivePeerQueue) /\ WF_vars(ReceiveReqMeta)
  /\ WF_vars(ReceiveReqData) /\ WF_vars(ReceiveComplete)
  /\ WF_vars(ReceiveMeta) /\ WF_vars(ReceiveData)
  /\ WF_vars(ReceiveQueue) /\ WF_vars(ReceiveCancel) /\ WF_vars(ReqMetaTimeout)

FairSpec == Spec /\ Fairness

-----------------------------------------------------------------------------
(* Properties. *)

SenderTypeOK ==
  /\ disk \in [Files -> [there : BOOLEAN, len : Position]]
  /\ out \in [Ids -> OutTx \cup {NoTx}]
  /\ outSize \in 0 .. MaxTxId /\ nextId \in 0 .. MaxTxId /\ current \in 0 .. MaxTxId
  /\ scan \subseteq [file : Files, len : Position]
  /\ metaOut \in [Ids -> OutMeta \cup {NoTx}]
  /\ peerKnown \in BOOLEAN /\ active \in BOOLEAN

ReceiverTypeOK ==
  /\ in \in [Ids -> InTx \cup {NoTx}]
  /\ metaIn \in [Ids -> InMeta \cup {NoTx}]
  /\ temp \in [Ids -> SUBSET (Block \X Files)]
  /\ incoming \in [Files -> SUBSET (Block \X Files)]
  /\ senderKnown \in BOOLEAN /\ reqmetaDue \in BOOLEAN

LinkTypeOK ==
  /\ toReceiver \in Seq(ToReceiver) /\ toSender \in Seq(ToSender)
  /\ user \in [Files -> {"none", "put", "disturbed", "failed"}]
  /\ failures \in Nat /\ lost \in Nat /\ dup \in Nat
  /\ restarts \in [sender : Nat, receiver : Nat]

\* Every variable has its type; in particular no slot ever holds an entry that
\* is half of one transfer and half of another, no packet names a transaction
\* id out of range, and no hole or block lies past 32 bits.
TypeOK == SenderTypeOK /\ ReceiverTypeOK /\ LinkTypeOK

\* No other program touched f and no call spoilt its transfer.
Undisturbed(f) == user[f] = "put"
Failed(f) == user[f] = "failed"
Delivered(f) == incoming[f] = Whole(f)

\* A file leaves the outgoing folder only when the same file, whole, is in the
\* incoming folder of the peer: whatever becomes of the other files, unless a
\* program or a failing call spoils this one.
NeverLost ==
  \A f \in Files : Undisturbed(f) /\ ~disk[f].there => Delivered(f)

\* Whatever agent_file moves to the incoming folder is the whole file that was
\* sent under that name, unless it was spoilt itself.
DeliveredIntact ==
  \A f \in Files : Undisturbed(f) /\ incoming[f] # {} => Delivered(f)

\* A COMPLETE packet on its way to the sender speaks of the file that is in the
\* slot it names now, and of a file that has arrived, unless it was spoilt.
CompleteIsTrue ==
  \A i \in DOMAIN toSender :
    LET m == toSender[i]
    IN  m.type = "COMPLETE" /\ m.tx \in OutIds /\ Undisturbed(out[m.tx].file)
          => Delivered(out[m.tx].file)

\* Until a transfer is complete its progress list says exactly which blocks the
\* temporary file holds, unless one of them could not be written.
ProgressOnDisk ==
  \A tx \in InIds :
    ~in[tx].complete /\ (in[tx].file \in Files => ~Failed(in[tx].file))
      => Blocks(temp[tx]) = Positions(in[tx].got)

\* outgoing.size covers every occupied slot and never passes the limit, so that
\* each QUEUE packet lists every occupied slot: the receiver deletes the
\* transfers a QUEUE packet leaves out.
SlotsFit == Cardinality(OutIds) <= outSize /\ outSize <= Limit

\* No file is in two slots: the transfer that ends first would delete the file
\* under the other.
OneSlotPerFile ==
  \A tx, u \in OutIds : out[tx].file = out[u].file => tx = u

\* What file transfer promises its user, of the files that are not empty (an
\* empty file is never queued) and that no other program may touch: the folders
\* change as FileMove says.
MovedFiles == { f \in Files \ Disturbed : Size[f] > 0 }
Move == INSTANCE FileMove WITH
  Names <- MovedFiles,
  source <- { f \in MovedFiles : disk[f].there /\ ~Failed(f) },
  arrived <- { f \in MovedFiles : Delivered(f) /\ ~Failed(f) },
  failed <- { f \in MovedFiles : Failed(f) }

\* No step of the protocol shows the user anything but a put, a delivery, the
\* removal of a delivered file or the failure of one file ...
MovesSafely == Move!MoveSafety
\* ... and every other file is delivered and removed in the end.
MovesEverything == Move!MoveSpec

\* Both ends forget every transfer in the end.
EventuallyIdle ==
  \A tx \in Ids : /\ tx \in OutIds ~> tx \notin OutIds
                  /\ tx \in InIds ~> tx \notin InIds
=============================================================================
