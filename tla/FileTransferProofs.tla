------------------------- MODULE FileTransferProofs -------------------------
(***************************************************************************)
(* Theorems about FileTransfer, for any set of files, any number of        *)
(* transaction ids and any number of failing calls to the file system.     *)
(* The first half: types, slots, and, as long as no id is taken that is    *)
(* still spoken of, progress lists, for any number of faults.  The second  *)
(* half: why no file is lost but those on which a call failed, on links    *)
(* that keep their order, to a receiver that is not restarted from a       *)
(* sender that is at most once, for files of up to three blocks and any    *)
(* number of lost and duplicated packets.                                  *)
(***************************************************************************)
EXTENDS TransferInvariant, FileChunksTheorems

-----------------------------------------------------------------------------
(* Arithmetic of transaction ids, packets, and lists of ids. *)

\* Arithmetic of a fixed width stays in that width.
LEMMA ModType == ASSUME NEW a \in Int, NEW n \in Nat PROVE a % (n + 1) \in 0 .. n
  OBVIOUS

\* There are finitely many transaction ids.
LEMMA IdsFinite ==
  ASSUME NEW S, S \subseteq Ids
  PROVE  IsFiniteSet(S) /\ Cardinality(S) \in Nat
<1>1. IsFiniteSet(Ids)
  BY TxIdAssumption, FS_Interval DEF Ids
<1>2. IsFiniteSet(S)
  BY <1>1, FS_Subset
<1>. QED
  BY <1>2, FS_CardinalityType

\* What the sender makes are packets to the receiver ...
LEMMA ToReceiverType ==
  /\ \A ids \in SUBSET Ids : Queue(ids) \in ToReceiver
  /\ \A tx \in Ids, f \in Files, size \in Position : Meta(tx, f, size) \in ToReceiver
  /\ \A tx \in Ids, f \in Files, b \in Block : Data(tx, f, b) \in ToReceiver
  /\ \A tx \in Ids : Cancel(tx) \in ToReceiver
  BY DEF ToReceiver, Queue, Meta, Data, Cancel

\* ... and what the receiver makes are packets to the sender.
LEMMA ToSenderType ==
  /\ PeerQueue \in ToSender
  /\ \A ids \in SUBSET Ids : ReqMeta(ids) \in ToSender
  /\ \A tx \in Ids, h \in Chunk : ReqData(tx, h) \in ToSender
  /\ \A tx \in Ids : Complete(tx) \in ToSender
  BY DEF ToSender, PeerQueue, ReqMeta, ReqData, Complete

\* The fields of a packet to the receiver have their types ...
LEMMA ToReceiverFields ==
  ASSUME NEW m \in ToReceiver
  PROVE  /\ m.type = "QUEUE" => m.ids \in SUBSET Ids
         /\ m.type = "METADATA" => m.tx \in Ids /\ m.file \in Files /\ m.size \in Position
         /\ m.type = "DATA" => m.tx \in Ids /\ m.file \in Files /\ m.block \in Block
         /\ m.type = "CANCEL" => m.tx \in Ids
  BY DEF ToReceiver

\* ... and those of a packet to the sender too.
LEMMA ToSenderFields ==
  ASSUME NEW m \in ToSender
  PROVE  /\ m.type = "REQMETA" => m.ids \in SUBSET Ids
         /\ m.type = "REQDATA" => m.tx \in Ids /\ m.hole \in Chunk
         /\ m.type = "COMPLETE" => m.tx \in Ids
  BY DEF ToSender

\* A packet that arrives is one of the link, and what is left is a link.
LEMMA ArrivalsInDomain ==
  ASSUME NEW T, NEW link \in Seq(T), NEW i \in Arrivals(link)
  PROVE  i \in 1 .. Len(link) /\ link[i] \in T /\ RemoveAt(link, i) \in Seq(T)
<1>1. i \in 1 .. Len(link)
  <2>1. Len(link) \in Nat /\ (link # <<>> => Len(link) > 0)
    BY EmptySeq
  <2>. QED
    BY <2>1, BoundsAssumption DEF Arrivals
<1>. QED
  BY <1>1, ElementOfSeq, RemoveAtType

-----------------------------------------------------------------------------
(* Type correctness: one lemma per action. *)

\* Calls that fail are counted by a number, and spoil files.
FatesType ==
  user \in [Files -> {"none", "put", "disturbed", "failed"}] /\ failures \in Nat

LEMMA CallsFinite == IsFiniteSet(Calls)
<1> DEFINE one == {"read"} \cup {"remove"}
           two == one \cup {"removeMeta"}
           three == two \cup {"create"}
           four == three \cup {"write"}
           five == four \cup {"rename"}
<1>1. IsFiniteSet({"read"})
  BY FS_Singleton
<1>2. IsFiniteSet(one)
  BY <1>1, FS_AddElement
<1>. HIDE DEF one
<1>3. IsFiniteSet(two)
  BY <1>2, FS_AddElement
<1>. HIDE DEF two
<1>4. IsFiniteSet(three)
  BY <1>3, FS_AddElement
<1>. HIDE DEF three
<1>5. IsFiniteSet(four)
  BY <1>4, FS_AddElement
<1>. HIDE DEF four
<1>6. IsFiniteSet(five)
  BY <1>5, FS_AddElement
<1>. HIDE DEF five
<1>7. IsFiniteSet(five \cup {"removeTemp"})
  BY <1>6, FS_AddElement
<1>. QED
  BY <1>7 DEF Calls, one, two, three, four, five

\* The calls of a step that fail are so many.
LEMMA FailuresType ==
  ASSUME NEW calls, NEW broken \in Failures(calls)
  PROVE  broken \subseteq FailingCalls /\ Cardinality(broken) \in Nat
<1>1. broken \subseteq FailingCalls /\ broken \subseteq Calls
  BY BoundsAssumption DEF Failures
<1>. QED
  BY <1>1, CallsFinite, FS_Subset, FS_CardinalityType

LEMMA SufferType ==
  ASSUME FatesType, NEW calls, NEW broken \in Failures(calls), NEW files, Suffer(broken, files)
  PROVE  FatesType'
  BY FailuresType DEF FatesType, Suffer

\* The initial state is typed.
LEMMA InitType == Init => TypeOK
<1>. SUFFICES ASSUME Init PROVE TypeOK
  OBVIOUS
<1>1. SenderTypeOK
  <2>1. 0 \in Position /\ 0 \in 0 .. MaxTxId /\ 1 \in 0 .. MaxTxId
    BY MaxBlockAssumption, TxIdAssumption DEF Position
  <2>. QED
    BY <2>1 DEF Init, SenderTypeOK
<1>2. ReceiverTypeOK
  BY DEF Init, ReceiverTypeOK
<1>3. LinkTypeOK
  BY EmptySeq DEF Init, LinkTypeOK
<1>. QED
  BY <1>1, <1>2, <1>3 DEF TypeOK

\* A step that changes nothing keeps the types.
LEMMA StutterType == TypeOK /\ UNCHANGED vars => TypeOK'
  BY DEF TypeOK, SenderTypeOK, ReceiverTypeOK, LinkTypeOK, vars, senderVars, receiverVars,
         fates, boundVars

\* Files put, removed or shortened by others keep the types.
LEMMA UserType ==
  ASSUME TypeOK, NEW f \in Files, PutFile(f) \/ DisturbFile(f)
  PROVE  TypeOK'
<1>. USE DEF senderVars, receiverVars, fates, boundVars
<1>1. CASE PutFile(f)
  <2>1. Size[f] \in Position
    BY SizeAssumption
  <2>2. SenderTypeOK' /\ LinkTypeOK'
    BY <1>1, <2>1 DEF TypeOK, PutFile, SenderTypeOK, LinkTypeOK
  <2>. QED
    BY <1>1, <2>2 DEF TypeOK, PutFile, ReceiverTypeOK
<1>2. CASE DisturbFile(f)
  <2>1. \A n \in 0 .. Size[f] - 1 : n \in Position
    BY SizeAssumption, MaxBlockAssumption DEF Position
  <2>2. disk' \in [Files -> [there : BOOLEAN, len : Position]]
    BY <1>2, <2>1 DEF TypeOK, DisturbFile, SenderTypeOK
  <2>3. SenderTypeOK' /\ LinkTypeOK'
    BY <1>2, <2>2 DEF TypeOK, DisturbFile, SenderTypeOK, LinkTypeOK
  <2>. QED
    BY <1>2, <2>3 DEF TypeOK, DisturbFile, ReceiverTypeOK
<1>. QED
  BY <1>1, <1>2

\* An occupied slot holds an entry of the right type.
LEMMA OutSlot ==
  ASSUME SenderTypeOK, NEW tx \in OutIds
  PROVE  /\ tx \in Ids /\ out[tx] \in OutTx
         /\ out[tx].file \in Files /\ out[tx].size \in Position
         /\ out[tx].pending \in Seq(Chunk) /\ out[tx].open \in BOOLEAN
<1>1. tx \in Ids /\ out[tx] \in OutTx
  BY DEF OutIds, SenderTypeOK
<1>. QED
  BY <1>1 DEF OutTx

\* outgoing_tx_del keeps the types of what it changes.
LEMMA DeleteOutgoingType ==
  ASSUME SenderTypeOK, NEW tx \in OutIds, NEW meta \in OutMeta \cup {NoTx}, NEW broken,
         DeleteOutgoing(tx, meta, broken)
  PROVE  /\ disk' \in [Files -> [there : BOOLEAN, len : Position]]
         /\ out' \in [Ids -> OutTx \cup {NoTx}]
         /\ outSize' \in 0 .. MaxTxId /\ current' \in 0 .. MaxTxId
         /\ metaOut' \in [Ids -> OutMeta \cup {NoTx}]
<1>1. tx \in Ids /\ out[tx].file \in Files
  BY OutSlot
<1>2. outSize' \in 0 .. MaxTxId /\ current' \in 0 .. MaxTxId
  BY TxIdAssumption, ModType DEF DeleteOutgoing, Deleted, SenderTypeOK
<1>3. disk' \in [Files -> [there : BOOLEAN, len : Position]]
  <2>1. /\ disk' = [disk EXCEPT ![out[tx].file].there = @ /\ "remove" \in broken]
        /\ disk[out[tx].file] \in [there : BOOLEAN, len : Position]
    BY <1>1 DEF DeleteOutgoing, Deleted, SenderTypeOK
  <2>2. (disk[out[tx].file].there /\ "remove" \in broken) \in BOOLEAN
    OBVIOUS
  <2>. QED
    BY <1>1, <2>1, <2>2 DEF SenderTypeOK
<1>. QED
  BY <1>1, <1>2, <1>3 DEF DeleteOutgoing, Deleted, SenderTypeOK

\* write_meta leaves a typed meta file.
LEMMA WriteMetaOutType ==
  ASSUME SenderTypeOK, NEW tx \in Ids, NEW r \in OutTx, WriteMetaOut(tx, r)
  PROVE  metaOut' \in [Ids -> OutMeta \cup {NoTx}]
<1>1. [file |-> r.file, pending |-> r.pending, live |-> TRUE] \in OutMeta
  BY DEF OutTx, OutMeta
<1>. QED
  BY <1>1 DEF WriteMetaOut, SenderTypeOK

\* A listing of the outgoing folder keeps the types.
LEMMA ListOutgoingType == TypeOK /\ ListOutgoing => TypeOK'
<1>. SUFFICES ASSUME TypeOK, ListOutgoing PROVE TypeOK'
  OBVIOUS
<1>1. scan' \subseteq [file : Files, len : Position]
  BY DEF ListOutgoing, TypeOK, SenderTypeOK
<1>2. SenderTypeOK'
  BY <1>1 DEF ListOutgoing, TypeOK, SenderTypeOK
<1>3. ReceiverTypeOK' /\ LinkTypeOK'
  BY DEF ListOutgoing, TypeOK, ReceiverTypeOK, LinkTypeOK, receiverVars, fates, boundVars
<1>. QED
  BY <1>2, <1>3 DEF TypeOK

\* outgoing_tx_add stores a typed entry under an id in range.
LEMMA AddOutgoingType ==
  ASSUME SenderTypeOK, NEW f \in Files, NEW broken, AddOutgoing(f, broken)
  PROVE  /\ out' \in [Ids -> OutTx \cup {NoTx}]
         /\ outSize' \in 0 .. MaxTxId /\ nextId' \in 0 .. MaxTxId
         /\ metaOut' \in [Ids -> OutMeta \cup {NoTx}]
<1> DEFINE size == IF disk[f].there /\ "read" \notin broken THEN disk[f].len ELSE 0
           entry == [file |-> f, size |-> size, pending |-> <<>>, open |-> FALSE]
           meta == [file |-> f, pending |-> <<>>, live |-> TRUE]
<1>1. PICK id \in Ids :
        /\ nextId' = FollowingId(id)
        /\ \/ UNCHANGED <<out, outSize, metaOut>>
           \/ /\ out' = [out EXCEPT ![id] = entry]
              /\ outSize' = (outSize + 1) % (MaxTxId + 1)
              /\ UNCHANGED metaOut \/ metaOut' = [metaOut EXCEPT ![id] = meta]
  BY DEF AddOutgoing
<1>2. size \in Position
  BY MaxBlockAssumption DEF SenderTypeOK, Position
<1>3. entry \in OutTx /\ meta \in OutMeta
  BY <1>2, EmptySeq DEF OutTx, OutMeta
<1>4. nextId' \in 0 .. MaxTxId
  <2>1. nextId' = (id + 1) % (MaxTxId + 1) /\ id + 1 \in Int
    BY <1>1 DEF FollowingId, Ids
  <2>. QED
    BY <2>1, TxIdAssumption, ModType
<1>5. outSize' \in 0 .. MaxTxId
  BY <1>1, TxIdAssumption, ModType DEF SenderTypeOK
<1>. HIDE DEF entry, meta
<1>. QED
  BY <1>1, <1>3, <1>4, <1>5 DEF SenderTypeOK

\* Handling one file of the listing keeps the types.
LEMMA ScanFileType == TypeOK /\ ScanFile => TypeOK'
<1>. SUFFICES ASSUME TypeOK, ScanFile PROVE TypeOK'
  OBVIOUS
<1>1. /\ UNCHANGED <<disk, current, peerKnown, active>> /\ ReceiverTypeOK' /\ FatesType
      /\ UNCHANGED <<toReceiver, toSender, lost, dup, restarts>>
  BY DEF ScanFile, TypeOK, ReceiverTypeOK, LinkTypeOK, FatesType, receiverVars, boundVars
<1>2. scan' \subseteq scan
  BY DEF ScanFile
<1>3. CASE UNCHANGED <<out, outSize, nextId, metaOut, fates>>
  BY <1>1, <1>2, <1>3 DEF TypeOK, SenderTypeOK, LinkTypeOK, fates
<1>4. ASSUME NEW f \in Files, NEW broken \in Failures({"read"}),
             AddOutgoing(f, broken), Suffer(broken, {})
      PROVE  TypeOK'
  <2>1. FatesType'
    BY <1>1, <1>4, SufferType
  <2>2. SenderTypeOK'
    BY <1>1, <1>2, <1>4, AddOutgoingType DEF TypeOK, SenderTypeOK
  <2>. QED
    BY <1>1, <2>1, <2>2 DEF TypeOK, LinkTypeOK, FatesType
<1>5. \A e \in scan : e.file \in Files
  BY DEF TypeOK, SenderTypeOK
<1>. QED
  BY <1>3, <1>4, <1>5 DEF ScanFile

\* Sending a block keeps the types: the block has a position below the size on disk.
LEMMA SendBlockType == TypeOK /\ SendBlock => TypeOK'
<1>. SUFFICES ASSUME TypeOK, SendBlock PROVE TypeOK'
  OBVIOUS
<1> DEFINE r == out[current]
           rest == FirstSent(r.pending, 1)
           sent == [r EXCEPT !.pending = rest, !.open = Len(rest) = Len(r.pending)]
<1>1. /\ current \in OutIds /\ r.pending # <<>> /\ r.pending[1].lo < disk[r.file].len
      /\ toReceiver' = Append(toReceiver, Data(current, r.file, r.pending[1].lo))
      /\ out' = [out EXCEPT ![current] = sent]
      /\ WriteMetaOut(current, sent)
  BY DEF SendBlock, Sending, CanRead
<1>2. current \in Ids /\ r \in OutTx /\ r.file \in Files /\ r.pending \in Seq(Chunk)
  BY <1>1, OutSlot DEF TypeOK
<1>3. sent \in OutTx
  <2>1. rest \in Seq(Chunk)
    BY <1>1, <1>2, FirstSentType
  <2>. QED
    BY <1>2, <2>1 DEF OutTx
<1>4. r.pending[1].lo \in Block
  <2>1. r.pending[1] \in Chunk
    BY <1>1, <1>2, EmptySeq, ElementOfSeq
  <2>2. disk[r.file].len \in Position
    BY <1>2 DEF TypeOK, SenderTypeOK
  <2>. QED
    BY <1>1, <2>1, <2>2, MaxBlockAssumption DEF Chunk, Position, Block
<1>5. toReceiver' \in Seq(ToReceiver)
  BY <1>1, <1>2, <1>4, ToReceiverType, AppendProperties DEF TypeOK, LinkTypeOK
<1>6. out' \in [Ids -> OutTx \cup {NoTx}]
  BY <1>1, <1>2, <1>3 DEF TypeOK, SenderTypeOK
<1>7. metaOut' \in [Ids -> OutMeta \cup {NoTx}]
  BY <1>1, <1>2, <1>3, WriteMetaOutType DEF TypeOK
<1>8. UNCHANGED <<disk, outSize, nextId, current, scan, peerKnown, active, receiverVars,
                  toSender, fates, boundVars>>
  BY DEF SendBlock
<1>. QED
  BY <1>5, <1>6, <1>7, <1>8
  DEF TypeOK, SenderTypeOK, ReceiverTypeOK, LinkTypeOK, receiverVars, fates, boundVars

\* Ending a transfer keeps the types.
LEMMA EndTransferType ==
  ASSUME TypeOK, Sending, NEW calls, NEW broken \in Failures(calls), NEW files,
         EndTransfer(broken), Suffer(broken, files)
  PROVE  TypeOK'
<1>1. current \in OutIds /\ current \in Ids /\ out[current] \in OutTx
  BY OutSlot DEF Sending, TypeOK
<1>2. PICK meta \in OutMeta \cup {NoTx} : DeleteOutgoing(current, meta, broken)
  <2>1. [file |-> out[current].file, pending |-> out[current].pending, live |-> FALSE]
          \in OutMeta
    BY <1>1 DEF OutTx, OutMeta
  <2>. QED
    BY <2>1 DEF EndTransfer
<1>3. toReceiver' \in Seq(ToReceiver)
  BY <1>1, ToReceiverType, AppendProperties DEF EndTransfer, TypeOK, LinkTypeOK
<1>4. UNCHANGED <<nextId, scan, peerKnown, active, receiverVars, toSender, boundVars>>
  BY DEF EndTransfer
<1>5. SenderTypeOK'
  BY <1>1, <1>2, <1>4, DeleteOutgoingType DEF TypeOK, SenderTypeOK
<1>6. FatesType'
  BY SufferType DEF TypeOK, LinkTypeOK, FatesType
<1>. QED
  BY <1>3, <1>4, <1>5, <1>6
  DEF TypeOK, ReceiverTypeOK, LinkTypeOK, FatesType, receiverVars, boundVars

\* Giving up a transfer, and failing to read a file, keep the types.
LEMMA GiveUpType == TypeOK /\ (GiveUp \/ ReadFails) => TypeOK'
  BY EndTransferType DEF GiveUp, ReadFails

\* QUEUE packets of either end keep the types.
LEMMA SendQueueType == TypeOK /\ (SendQueue \/ PeerSendQueue) => TypeOK'
<1>. USE DEF TypeOK, SenderTypeOK, ReceiverTypeOK, LinkTypeOK, senderVars, receiverVars, fates, boundVars
<1>1. ASSUME TypeOK, SendQueue PROVE TypeOK'
  <2>1. { tx \in OutIds : Cardinality({ u \in OutIds : u < tx }) < Limit }
              \in SUBSET Ids
    BY DEF OutIds
  <2>2. toReceiver' \in Seq(ToReceiver)
    BY <1>1, <2>1, ToReceiverType, AppendProperties DEF SendQueue
  <2>. QED
    BY <1>1, <2>2 DEF SendQueue
<1>2. ASSUME TypeOK, PeerSendQueue PROVE TypeOK'
  <2>1. toSender' \in Seq(ToSender)
    BY <1>2, ToSenderType, AppendProperties DEF PeerSendQueue
  <2>. QED
    BY <1>2, <2>1 DEF PeerSendQueue
<1>. QED
  BY <1>1, <1>2

\* The sender's receive thread takes the packet at i, of the given type.
LEMMA SenderTakesType ==
  ASSUME TypeOK, NEW i \in Arrivals(toSender), NEW type, SenderTakes(i, type)
  PROVE  /\ toSender' \in Seq(ToSender)
         /\ toSender[i] \in ToSender /\ toSender[i].type = type
         /\ ReceiverTypeOK' /\ UNCHANGED <<nextId, scan, lost, dup, restarts>>
<1>1. toSender[i] \in ToSender /\ toSender' \in Seq(ToSender)
  BY ArrivalsInDomain DEF TypeOK, LinkTypeOK, SenderTakes
<1>. QED
  BY <1>1 DEF SenderTakes, TypeOK, ReceiverTypeOK, receiverVars, fates, boundVars

\* The peer's QUEUE packet keeps the sender's types.
LEMMA ReceivePeerQueueType == TypeOK /\ ReceivePeerQueue => TypeOK'
<1>. SUFFICES ASSUME TypeOK, NEW i \in Arrivals(toSender), SenderTakes(i, "PEERQUEUE"),
                     HandlePeerQueue
              PROVE  TypeOK'
  BY DEF ReceivePeerQueue
<1>. QED
  BY SenderTakesType DEF HandlePeerQueue, TypeOK, SenderTypeOK, LinkTypeOK, fates

\* Answering REQMETA keeps the types.
LEMMA ReceiveReqMetaType == TypeOK /\ ReceiveReqMeta => TypeOK'
<1>. SUFFICES ASSUME TypeOK, NEW i \in Arrivals(toSender), SenderTakes(i, "REQMETA"),
                     HandleReqMeta(toSender[i])
              PROVE  TypeOK'
  BY DEF ReceiveReqMeta
<1> DEFINE asked == toSender[i].ids \cap OutIds
           n == Cardinality(asked)
<1>1. PICK ids \in AscendingIds(asked) :
        toReceiver' = toReceiver \o
          [k \in 1 .. n |-> Meta(ids[k], out[ids[k]].file, out[ids[k]].size)]
  BY DEF HandleReqMeta
<1>2. asked \subseteq OutIds /\ asked \subseteq Ids /\ n \in Nat
  BY IdsFinite DEF OutIds
<1>3. ids \in [1 .. n -> asked]
  BY DEF AscendingIds
<1>4. \A k \in 1 .. n : Meta(ids[k], out[ids[k]].file, out[ids[k]].size) \in ToReceiver
  <2>. SUFFICES ASSUME NEW k \in 1 .. n
                PROVE  Meta(ids[k], out[ids[k]].file, out[ids[k]].size) \in ToReceiver
    OBVIOUS
  <2>1. ids[k] \in OutIds
    BY <1>2, <1>3
  <2>2. ids[k] \in Ids /\ out[ids[k]].file \in Files /\ out[ids[k]].size \in Position
    BY <2>1, OutSlot DEF TypeOK
  <2>. QED
    BY <2>2, ToReceiverType
<1>5. [k \in 1 .. n |-> Meta(ids[k], out[ids[k]].file, out[ids[k]].size)] \in Seq(ToReceiver)
  <2>1. [k \in 1 .. n |-> Meta(ids[k], out[ids[k]].file, out[ids[k]].size)]
          \in [1 .. n -> ToReceiver]
    BY <1>4
  <2>. QED
    BY <1>2, <2>1, FunctionIsSeq, Zenon
<1>6. toReceiver' \in Seq(ToReceiver)
  BY <1>1, <1>5, ConcatProperties DEF TypeOK, LinkTypeOK
<1>7. UNCHANGED <<disk, out, outSize, current, metaOut, active, fates>> /\ peerKnown' = TRUE
  BY DEF HandleReqMeta
<1>. QED
  BY <1>6, <1>7, SenderTakesType DEF TypeOK, SenderTypeOK, LinkTypeOK, fates

\* A requested hole becomes part of a typed list.
LEMMA ReceiveReqDataType == TypeOK /\ ReceiveReqData => TypeOK'
<1>. SUFFICES ASSUME TypeOK, NEW i \in Arrivals(toSender), SenderTakes(i, "REQDATA"),
                     HandleReqData(toSender[i])
              PROVE  TypeOK'
  BY DEF ReceiveReqData
<1> DEFINE m == toSender[i]
           r == [out[m.tx] EXCEPT !.pending = InsertHole(@, m.hole)]
<1>1. m.tx \in Ids /\ m.hole \in Chunk
  BY SenderTakesType, ToSenderFields
<1>2. CASE m.hole.lo <= m.hole.hi /\ m.tx \in OutIds
  <2>1. out' = [out EXCEPT ![m.tx] = r] /\ WriteMetaOut(m.tx, r) /\ current' = m.tx
    BY <1>2 DEF HandleReqData
  <2>2. out[m.tx] \in OutTx /\ out[m.tx].pending \in Seq(Chunk)
    BY <1>2, OutSlot DEF TypeOK
  <2>3. InsertHole(out[m.tx].pending, m.hole) \in Seq(Chunk)
    BY <1>1, <2>2, InsertHoleType
  <2>4. r \in OutTx
    BY <2>2, <2>3 DEF OutTx
  <2>5. out' \in [Ids -> OutTx \cup {NoTx}]
    BY <1>1, <2>1, <2>4 DEF TypeOK, SenderTypeOK
  <2>6. metaOut' \in [Ids -> OutMeta \cup {NoTx}]
    BY <1>1, <2>1, <2>4, WriteMetaOutType DEF TypeOK
  <2>7. current' \in 0 .. MaxTxId
    BY <1>1, <2>1, TxIdAssumption DEF Ids
  <2>8. UNCHANGED <<disk, outSize, peerKnown, active, toReceiver, fates>>
    BY DEF HandleReqData
  <2>. QED
    BY <2>5, <2>6, <2>7, <2>8, SenderTakesType DEF TypeOK, SenderTypeOK, LinkTypeOK, fates
<1>3. CASE ~(m.hole.lo <= m.hole.hi /\ m.tx \in OutIds)
  <2>1. UNCHANGED <<disk, out, metaOut, current, outSize, peerKnown, active, toReceiver, fates>>
    BY <1>3 DEF HandleReqData
  <2>. QED
    BY <2>1, SenderTakesType DEF TypeOK, SenderTypeOK, LinkTypeOK, fates
<1>. QED
  BY <1>2, <1>3

\* COMPLETE keeps the types.
LEMMA ReceiveCompleteType == TypeOK /\ ReceiveComplete => TypeOK'
<1>. SUFFICES ASSUME TypeOK, NEW i \in Arrivals(toSender), SenderTakes(i, "COMPLETE"),
                     HandleComplete(toSender[i])
              PROVE  TypeOK'
  BY DEF ReceiveComplete
<1> DEFINE m == toSender[i]
<1>1. UNCHANGED <<peerKnown, active>>
  BY DEF HandleComplete
<1>2. CASE m.tx \in OutIds /\ peerKnown
  <2>1. PICK broken \in Failures({"remove", "removeMeta"}) :
          /\ DeleteOutgoing(m.tx, NoTx, broken) /\ Suffer(broken, {})
          /\ toReceiver' = Append(toReceiver, Cancel(m.tx))
    BY <1>2 DEF HandleComplete
  <2>2. toReceiver' \in Seq(ToReceiver)
    BY <1>2, <2>1, ToReceiverType, AppendProperties DEF OutIds, TypeOK, LinkTypeOK
  <2>3. FatesType'
    BY <2>1, SufferType DEF TypeOK, LinkTypeOK, FatesType
  <2>4. SenderTypeOK'
    BY <1>1, <1>2, <2>1, DeleteOutgoingType, SenderTakesType DEF TypeOK, SenderTypeOK
  <2>. QED
    BY <2>2, <2>3, <2>4, SenderTakesType DEF TypeOK, LinkTypeOK, FatesType
<1>3. CASE ~(m.tx \in OutIds /\ peerKnown)
  <2>1. UNCHANGED <<out, outSize, current, disk, metaOut, toReceiver, fates>>
    BY <1>3 DEF HandleComplete
  <2>. QED
    BY <1>1, <2>1, SenderTakesType DEF TypeOK, SenderTypeOK, LinkTypeOK, fates
<1>. QED
  BY <1>2, <1>3

-----------------------------------------------------------------------------
(* The receiver's handlers. *)

Entries == [Ids -> InTx \cup {NoTx}]
Stores == [Ids -> SUBSET (Block \X Files)]

\* The state an action leaves to the receiver's table, temporary files, incoming
\* folder and replies.
TableType ==
  /\ in \in Entries /\ temp \in Stores
  /\ incoming \in [Files -> SUBSET (Block \X Files)]
  /\ toSender \in Seq(ToSender)

\* The receiver's table is typed when everything is.
LEMMA TableIsTyped == TypeOK => TableType
  BY DEF TypeOK, ReceiverTypeOK, LinkTypeOK, TableType, Entries, Stores

\* Announcing and moving a whole transfer keeps the receiver's table and folder typed.
LEMMA FinishType ==
  ASSUME TableType, NEW entries \in Entries, NEW stored \in Stores,
         NEW tx \in Ids, entries[tx] # NoTx, NEW broken, Finish(entries, stored, tx, broken)
  PROVE  /\ in' \in Entries /\ temp' \in Stores
         /\ incoming' \in [Files -> SUBSET (Block \X Files)]
<1> DEFINE r == entries[tx]
           done == Found(r)
<1>1. r \in InTx
  BY DEF Entries
<1>2. done \in InTx
  BY <1>1 DEF InTx, Found
<1>3. in' = [entries EXCEPT ![tx] = done]
  BY DEF Finish
<1>4. in' \in Entries
  <2>. HIDE DEF done
  <2>. QED
    BY <1>2, <1>3 DEF Entries
<1>5. CASE Moves(r, stored[tx]) /\ "rename" \notin broken
  <2>1. r.file \in Files
    BY <1>1, <1>5 DEF Moves, InTx
  <2>2. incoming' = [incoming EXCEPT ![r.file] = stored[tx]]
        /\ temp' = [stored EXCEPT ![tx] = {}]
    BY <1>5 DEF Finish
  <2>. QED
    BY <1>4, <2>1, <2>2 DEF TableType, Stores
<1>6. CASE ~(Moves(r, stored[tx]) /\ "rename" \notin broken)
  BY <1>4, <1>6 DEF Finish, TableType
<1>. QED
  BY <1>5, <1>6

\* The receiver's list stays within the blocks of a file: merged, extended by a
\* received block, and counted.
LEMMA PositionsType == ASSUME NEW got \in SUBSET Run PROVE Positions(got) \in SUBSET Block
<1>. SUFFICES ASSUME NEW n \in Positions(got) PROVE n \in Block
  OBVIOUS
<1>1. PICK c \in got : c.lo <= n /\ n <= c.hi
  BY DEF Positions, Covered
<1>2. c.lo \in 0 .. MaxBlock - 1 /\ c.hi \in 0 .. MaxBlock - 1 /\ n \in 0 .. MaxBlock
  BY DEF Run, Block, Positions, Position
<1>. QED
  BY <1>1, <1>2, MaxBlockAssumption DEF Block

\* Merging ranges of blocks leaves ranges of blocks.
LEMMA MergedRuns == ASSUME NEW got \in SUBSET Run PROVE Merged(got) \in SUBSET Run
<1>. SUFFICES ASSUME NEW h \in Merged(got) PROVE h \in Run
  OBVIOUS
<1>1. h \in Chunk /\ h.lo <= h.hi /\ \A n \in h.lo .. h.hi : Covered(got, n)
  BY DEF Merged
<1>2. h.lo \in Position /\ h.hi \in Position /\ h.lo \in h.lo .. h.hi /\ h.hi \in h.lo .. h.hi
  BY <1>1 DEF Chunk, Position
<1>3. h.lo \in Positions(got) /\ h.hi \in Positions(got)
  BY <1>1, <1>2 DEF Positions
<1>. QED
  BY <1>1, <1>3, PositionsType DEF Chunk, Run

\* A block taken into the list leaves ranges of blocks.
LEMMA AbsorbType ==
  ASSUME NEW got \in SUBSET Run, NEW b \in Block
  PROVE  Absorb(got, b) \in SUBSET Run
<1>1. \A c \in got : Grown(c, b) \in Run
  BY DEF Grown, Run
<1>2. [lo |-> b, hi |-> b] \in Run
  BY DEF Run
<1>. QED
  BY <1>1, <1>2 DEF Absorb

\* The number of blocks received is a natural number.
LEMMA CountType == ASSUME NEW got \in SUBSET Run PROVE Count(got) \in Nat
<1>1. IsFiniteSet(Block)
  BY MaxBlockAssumption, FS_Interval DEF Block
<1>2. IsFiniteSet(Positions(got))
  BY <1>1, PositionsType, FS_Subset
<1>. QED
  BY <1>2, FS_CardinalityType DEF Count

\* Merging and counting every list keeps the table typed.
LEMMA RecountedType ==
  ASSUME NEW entries \in Entries
  PROVE  /\ Recounted(entries) \in Entries
         /\ \A tx \in Ids : Recounted(entries)[tx] = NoTx <=> entries[tx] = NoTx
<1> DEFINE now(tx) == [entries[tx] EXCEPT !.got = Merged(@), !.total = Count(entries[tx].got)]
<1>1. ASSUME NEW tx \in Ids, entries[tx] # NoTx
      PROVE  now(tx) \in InTx
  <2>1. entries[tx] \in InTx
    BY <1>1 DEF Entries
  <2>2. Merged(entries[tx].got) \in SUBSET Run /\ Count(entries[tx].got) \in Nat
    BY <2>1, MergedRuns, CountType DEF InTx
  <2>. QED
    BY <2>1, <2>2 DEF InTx
<1>. HIDE DEF now
<1>2. Recounted(entries) = [tx \in Ids |-> IF entries[tx] = NoTx THEN NoTx ELSE now(tx)]
  BY DEF Recounted, now
<1>. QED
  BY <1>1, <1>2, NoTxAssumption DEF Entries

\* next_incoming_tx keeps the receiver's state and its packets typed.
LEMMA NextIncomingType ==
  ASSUME TableType, NEW entries \in Entries, NEW stored \in Stores, NEW known,
         NEW replies \in Seq(ToSender), NEW broken,
         NextIncoming(entries, stored, known, replies, broken)
  PROVE  TableType'
<1> DEFINE now == Recounted(entries)
<1>1. now \in Entries
  BY RecountedType
<1>2. toSender \o replies \in Seq(ToSender)
  BY ConcatProperties DEF TableType
<1>3. Chosen(now) \subseteq Ids /\ \A tx \in Chosen(now) : now[tx] # NoTx
  BY DEF Chosen
<1>4. CASE in' = now /\ temp' = stored /\ incoming' = incoming /\ toSender' = toSender \o replies
  BY <1>1, <1>2, <1>4 DEF TableType
<1>5. ASSUME NEW tx \in Chosen(now), Finish(now, stored, tx, broken),
             toSender' = toSender \o Append(replies, Complete(tx))
      PROVE  TableType'
  <2>1. tx \in Ids /\ now[tx] # NoTx
    BY <1>3
  <2>2. Append(replies, Complete(tx)) \in Seq(ToSender)
    BY <2>1, ToSenderType, AppendProperties
  <2>3. toSender' \in Seq(ToSender)
    BY <1>5, <2>2, ConcatProperties DEF TableType
  <2>. HIDE DEF now
  <2>4. /\ in' \in Entries /\ temp' \in Stores
        /\ incoming' \in [Files -> SUBSET (Block \X Files)]
    BY <1>1, <1>5, <2>1, FinishType
  <2>. QED
    BY <2>3, <2>4 DEF TableType
<1>6. ASSUME NEW tx \in Chosen(now), NEW holes, holes = Holes(Positions(now[tx].got), now[tx].size),
             NEW s \in Ascending(holes),
             toSender' = toSender \o replies \o
                           [k \in 1 .. Cardinality(holes) |-> ReqData(tx, s[k])],
             in' = now /\ temp' = stored /\ incoming' = incoming
      PROVE  TableType'
  <2> DEFINE asks == [k \in 1 .. Cardinality(holes) |-> ReqData(tx, s[k])]
  <2>1. tx \in Ids /\ now[tx] \in InTx
    BY <1>1, <1>3 DEF Entries
  <2>2. holes \subseteq Chunk
    BY <1>6, <2>1, PositionsType, HolesType DEF InTx, Block
  <2>3. s \in [1 .. Cardinality(holes) -> holes] /\ Cardinality(holes) \in Nat
    BY <2>2, AscendingType, ChunksFinite
  <2>4. asks \in [1 .. Cardinality(holes) -> ToSender]
    BY <2>1, <2>2, <2>3, ToSenderType
  <2>. HIDE DEF asks
  <2>5. asks \in Seq(ToSender)
    BY <2>3, <2>4, FunctionIsSeq
  <2>6. toSender \o replies \o asks \in Seq(ToSender)
    BY <1>2, <2>5, ConcatProperties
  <2>7. toSender' \in Seq(ToSender)
    BY <1>6, <2>6 DEF asks
  <2>. QED
    BY <1>1, <1>6, <2>7 DEF TableType
<1>. QED
  BY <1>4, <1>5, <1>6 DEF NextIncoming

\* Its failures are counted, and spoil files.
LEMMA NextIncomingFates ==
  ASSUME FatesType, NEW entries, NEW stored, NEW known, NEW replies,
         NEW calls, NEW broken \in Failures(calls),
         NextIncoming(entries, stored, known, replies, broken)
  PROVE  FatesType'
<1>1. \E files : Suffer(broken, files)
  BY DEF NextIncoming
<1>. QED
  BY <1>1, SufferType

\* The receiver's receive thread takes the packet at i, of the given type.
LEMMA ReceiverTakesType ==
  ASSUME TypeOK, NEW i \in Arrivals(toReceiver), NEW type, ReceiverTakes(i, type)
  PROVE  /\ toReceiver' \in Seq(ToReceiver)
         /\ toReceiver[i] \in ToReceiver /\ toReceiver[i].type = type
         /\ SenderTypeOK' /\ FatesType /\ UNCHANGED <<lost, dup, restarts>>
<1>1. toReceiver[i] \in ToReceiver /\ toReceiver' \in Seq(ToReceiver)
  BY ArrivalsInDomain DEF TypeOK, LinkTypeOK, ReceiverTakes
<1>. QED
  BY <1>1 DEF ReceiverTakes, TypeOK, SenderTypeOK, LinkTypeOK, FatesType, senderVars, boundVars

\* What is left to show of a receiver's step.
LEMMA ReceiverStepType ==
  ASSUME TypeOK, SenderTypeOK', toReceiver' \in Seq(ToReceiver),
         UNCHANGED <<lost, dup, restarts>>, FatesType',
         TableType', metaIn' \in [Ids -> InMeta \cup {NoTx}],
         senderKnown' \in BOOLEAN, reqmetaDue' \in BOOLEAN
  PROVE  TypeOK'
  BY DEF TypeOK, ReceiverTypeOK, LinkTypeOK, FatesType, TableType, Entries, Stores

\* What write_meta saves of an incoming transfer is a typed meta file.
LEMMA SavedInType == \A r \in InTx : SavedIn(r) \in InMeta
  BY DEF SavedIn, InTx, InMeta

\* METADATA keeps the types.
LEMMA ReceiveMetaType == TypeOK /\ ReceiveMeta => TypeOK'
<1>. SUFFICES ASSUME TypeOK, NEW i \in Arrivals(toReceiver), ReceiverTakes(i, "METADATA"),
                     HandleMeta(toReceiver[i])
              PROVE  TypeOK'
  BY DEF ReceiveMeta
<1> DEFINE m == toReceiver[i]
           r == [in[m.tx] EXCEPT !.havemeta = TRUE, !.file = m.file, !.size = m.size,
                                 !.total = 0, !.open = FALSE]
<1>1. m.tx \in Ids /\ m.file \in Files /\ m.size \in Position
  BY ReceiverTakesType, ToReceiverFields
<1>2. UNCHANGED <<temp, incoming, senderKnown, reqmetaDue, toSender>>
  BY DEF HandleMeta
<1>3. in' \in Entries /\ metaIn' \in [Ids -> InMeta \cup {NoTx}] /\ FatesType'
  <2>1. CASE m.tx \in InIds /\ ~in[m.tx].havemeta
    <3>1. PICK broken \in Failures({"write"}) :
            /\ in' = [in EXCEPT ![m.tx] = r]
            /\ UNCHANGED metaIn \/ metaIn' = [metaIn EXCEPT ![m.tx] = SavedIn(r)]
            /\ Suffer(broken, {})
      BY <2>1 DEF HandleMeta
    <3>4. FatesType'
      BY <3>1, ReceiverTakesType, SufferType
    <3>2. in[m.tx] \in InTx
      BY <2>1 DEF InIds, TypeOK, ReceiverTypeOK
    <3>3. r \in InTx
      BY <1>1, <3>2 DEF InTx
    <3>. HIDE DEF r
    <3>5. SavedIn(r) \in InMeta
      BY <3>3, SavedInType
    <3>. QED
      BY <1>1, <3>1, <3>3, <3>4, <3>5 DEF TypeOK, ReceiverTypeOK, Entries
  <2>2. CASE ~(m.tx \in InIds /\ ~in[m.tx].havemeta)
    <3>1. UNCHANGED <<in, metaIn, fates>>
      BY <2>2 DEF HandleMeta
    <3>. QED
      BY <3>1, ReceiverTakesType DEF TypeOK, ReceiverTypeOK, Entries, FatesType, fates
  <2>. QED
    BY <2>1, <2>2
<1>4. TableType'
  BY <1>2, <1>3, TableIsTyped DEF TableType
<1>5. senderKnown' \in BOOLEAN /\ reqmetaDue' \in BOOLEAN
  BY <1>2 DEF TypeOK, ReceiverTypeOK
<1>. QED
  BY <1>3, <1>4, <1>5, ReceiverTakesType, ReceiverStepType

\* The end of the DATA handler keeps the types.
LEMMA AnnounceType ==
  ASSUME TableType, NEW entries \in Entries, NEW stored \in Stores,
         NEW tx \in Ids, entries[tx] # NoTx, NEW broken, Announce(entries, stored, tx, broken)
  PROVE  TableType'
<1>1. CASE Finish(entries, stored, tx, broken) /\ toSender' = Append(toSender, Complete(tx))
  <2>1. toSender' \in Seq(ToSender)
    BY <1>1, ToSenderType, AppendProperties DEF TableType
  <2>. QED
    BY <1>1, <2>1, FinishType DEF TableType
<1>2. CASE in' = entries /\ temp' = stored /\ UNCHANGED <<incoming, toSender>>
  BY <1>2 DEF TableType
<1>. QED
  BY <1>1, <1>2 DEF Announce

\* An entry that takes in a block is an entry.
LEMMA WithDataType ==
  ASSUME NEW r \in InTx, NEW m, m.block \in Block, NEW broken
  PROVE  WithData(r, m, broken) \in InTx
<1>1. Absorb(r.got, m.block) \in SUBSET Run /\ r.total + 1 \in Nat
  BY AbsorbType DEF InTx
<1>. QED
  BY <1>1 DEF WithData, InTx

\* A temporary file holds blocks of files, whether or not one more is written.
LEMMA WithBlockType ==
  ASSUME NEW r, NEW content \in SUBSET (Block \X Files),
         NEW m, m.block \in Block, m.file \in Files, NEW broken
  PROVE  WithBlock(r, content, m, broken) \in SUBSET (Block \X Files)
<1>1. Opened(r, content, broken) \subseteq content
  BY DEF Opened
<1>. QED
  BY <1>1 DEF WithBlock

\* DATA keeps the types.
LEMMA ReceiveDataType == TypeOK /\ ReceiveData => TypeOK'
<1>. SUFFICES ASSUME TypeOK, NEW i \in Arrivals(toReceiver), ReceiverTakes(i, "DATA"),
                     HandleData(toReceiver[i])
              PROVE  TypeOK'
  BY DEF ReceiveData
<1> DEFINE m == toReceiver[i]
<1>1. m.tx \in Ids /\ m.file \in Files /\ m.block \in Block
  BY ReceiverTakesType, ToReceiverFields
<1>2. TableType /\ in \in Entries /\ temp \in Stores /\ metaIn \in [Ids -> InMeta \cup {NoTx}]
  BY TableIsTyped DEF TableType, TypeOK, ReceiverTypeOK
<1>3. senderKnown' \in BOOLEAN /\ reqmetaDue' \in BOOLEAN
  BY DEF HandleData, TypeOK, ReceiverTypeOK
<1>4. CASE UNCHANGED <<in, temp, incoming, metaIn, toSender, fates>>
  <2>1. TableType' /\ FatesType'
    BY <1>2, <1>4, ReceiverTakesType DEF TableType, FatesType, fates
  <2>. QED
    BY <1>2, <1>3, <1>4, <2>1, ReceiverTakesType, ReceiverStepType
<1>5. CASE m.tx \in InIds
  <2>1. PICK broken \in Failures(Writing(in[m.tx], m) \cup {"rename"}) :
          /\ Suffer(broken, { f \in {m.file, in[m.tx].file} : broken # {} })
          /\ \/ Announce(in, temp, m.tx, broken) /\ UNCHANGED metaIn
             \/ /\ Announce([in EXCEPT ![m.tx] = WithData(in[m.tx], m, broken)],
                            [temp EXCEPT ![m.tx] = WithBlock(in[m.tx], @, m, broken)],
                            m.tx, broken)
                /\ \/ UNCHANGED metaIn
                   \/ metaIn' = [metaIn EXCEPT ![m.tx] = SavedIn(WithData(in[m.tx], m, broken))]
    BY <1>5 DEF HandleData
  <2> DEFINE r == WithData(in[m.tx], m, broken)
             entries == [in EXCEPT ![m.tx] = r]
             stored == [temp EXCEPT ![m.tx] = WithBlock(in[m.tx], @, m, broken)]
  <2>2. in[m.tx] \in InTx /\ in[m.tx] # NoTx
    BY <1>2, <1>5 DEF InIds, Entries
  <2>3. r \in InTx
    BY <1>1, <2>2, WithDataType
  <2>4. stored \in Stores
    <3>1. WithBlock(in[m.tx], temp[m.tx], m, broken) \in SUBSET (Block \X Files)
      BY <1>1, <1>2, WithBlockType DEF Stores
    <3>. QED
      BY <1>2, <3>1 DEF Stores
  <2>5. entries \in Entries /\ entries[m.tx] # NoTx
    <3>. HIDE DEF r
    <3>. QED
      BY <1>1, <1>2, <2>3, NoTxAssumption DEF Entries
  <2>6. \/ Announce(in, temp, m.tx, broken) /\ UNCHANGED metaIn
        \/ /\ Announce(entries, stored, m.tx, broken)
           /\ UNCHANGED metaIn \/ metaIn' = [metaIn EXCEPT ![m.tx] = SavedIn(r)]
    BY <2>1
  <2>7. FatesType'
    BY <2>1, ReceiverTakesType, SufferType
  <2>. HIDE DEF entries, stored, r
  <2>8. TableType'
    BY <1>1, <1>2, <2>2, <2>4, <2>5, <2>6, AnnounceType
  <2>9. SavedIn(r) \in InMeta
    BY <2>3, SavedInType
  <2>10. metaIn' \in [Ids -> InMeta \cup {NoTx}]
    BY <1>2, <2>6, <2>9
  <2>. QED
    BY <1>3, <2>7, <2>8, <2>10, ReceiverTakesType, ReceiverStepType
<1>. QED
  BY <1>4, <1>5 DEF HandleData

\* Deleting transfers leaves typed temporary and meta files.
LEMMA WithoutType ==
  ASSUME TypeOK, NEW txs, NEW broken
  PROVE  /\ Without(temp, txs, "removeTemp", broken, {}) \in Stores
         /\ Without(metaIn, txs, "removeMeta", broken, NoTx) \in [Ids -> InMeta \cup {NoTx}]
  BY DEF Without, Stores, TypeOK, ReceiverTypeOK

\* QUEUE keeps the types: the table is rebuilt from the ids it lists.
LEMMA ReceiveQueueType == TypeOK /\ ReceiveQueue => TypeOK'
<1>. SUFFICES ASSUME TypeOK, NEW i \in Arrivals(toReceiver), ReceiverTakes(i, "QUEUE"),
                     HandleQueue(toReceiver[i])
              PROVE  TypeOK'
  BY DEF ReceiveQueue
<1> DEFINE m == toReceiver[i]
           entries == [tx \in Ids |-> IF tx \notin m.ids THEN NoTx
                                      ELSE IF in[tx] = NoTx THEN NewEntry ELSE in[tx]]
           dropped == InIds \ m.ids
           missing == { tx \in m.ids : ~entries[tx].havemeta }
           asked == reqmetaDue /\ missing # {}
           replies == IF asked THEN <<ReqMeta(missing)>> ELSE <<>>
<1>1. m.ids \in SUBSET Ids
  BY ReceiverTakesType, ToReceiverFields
<1>2. TableType
  BY TableIsTyped
<1>3. NewEntry \in InTx
  BY MaxBlockAssumption DEF NewEntry, InTx, Position
<1>4. entries \in Entries
  BY <1>2, <1>3 DEF TableType, Entries
<1>6. replies \in Seq(ToSender)
  <2>1. missing \in SUBSET Ids
    BY <1>1
  <2>. HIDE DEF missing
  <2>2. ReqMeta(missing) \in ToSender
    BY <2>1, ToSenderType
  <2>3. <<ReqMeta(missing)>> \in Seq(ToSender) /\ <<>> \in Seq(ToSender)
    BY <2>2, EmptySeq
  <2>. QED
    BY <2>3
<1>7. /\ senderKnown' = TRUE /\ reqmetaDue' = (reqmetaDue /\ ~asked)
      /\ \E broken \in Failures(Deleting(dropped)) :
           /\ metaIn' = Without(metaIn, dropped, "removeMeta", broken, NoTx)
           /\ NextIncoming(entries, Without(temp, dropped, "removeTemp", broken, {}),
                           TRUE, replies, broken)
  BY DEF HandleQueue
<1>8. senderKnown' \in BOOLEAN /\ reqmetaDue' \in BOOLEAN
  BY <1>7
<1>. HIDE DEF entries, replies, dropped
<1>9. PICK broken \in Failures(Deleting(dropped)) :
        /\ metaIn' = Without(metaIn, dropped, "removeMeta", broken, NoTx)
        /\ NextIncoming(entries, Without(temp, dropped, "removeTemp", broken, {}),
                        TRUE, replies, broken)
  BY <1>7
<1>10. TableType' /\ FatesType' /\ metaIn' \in [Ids -> InMeta \cup {NoTx}]
  BY <1>2, <1>4, <1>6, <1>9, WithoutType, ReceiverTakesType, NextIncomingType, NextIncomingFates
<1>. QED
  BY <1>8, <1>10, ReceiverTakesType, ReceiverStepType

\* CANCEL keeps the types.
LEMMA ReceiveCancelType == TypeOK /\ ReceiveCancel => TypeOK'
<1>. SUFFICES ASSUME TypeOK, NEW i \in Arrivals(toReceiver), ReceiverTakes(i, "CANCEL"),
                     HandleCancel(toReceiver[i])
              PROVE  TypeOK'
  BY DEF ReceiveCancel
<1> DEFINE m == toReceiver[i]
           entries == [in EXCEPT ![m.tx] = NoTx]
           dropped == InIds \cap {m.tx}
<1>1. m.tx \in Ids
  BY ReceiverTakesType, ToReceiverFields
<1>2. TableType
  BY TableIsTyped
<1>3. entries \in Entries
  BY <1>2 DEF TableType, Entries
<1>4. PICK broken \in Failures(Deleting(dropped)) :
        /\ metaIn' = Without(metaIn, dropped, "removeMeta", broken, NoTx)
        /\ NextIncoming(entries, Without(temp, dropped, "removeTemp", broken, {}),
                        senderKnown, <<>>, broken)
  BY DEF HandleCancel
<1>5. senderKnown' \in BOOLEAN /\ reqmetaDue' \in BOOLEAN
  BY DEF HandleCancel, TypeOK, ReceiverTypeOK
<1>. HIDE DEF entries, dropped
<1>6. <<>> \in Seq(ToSender)
  BY EmptySeq
<1>7. TableType' /\ FatesType' /\ metaIn' \in [Ids -> InMeta \cup {NoTx}]
  BY <1>2, <1>3, <1>4, <1>6, WithoutType, ReceiverTakesType, NextIncomingType, NextIncomingFates
<1>. QED
  BY <1>5, <1>7, ReceiverTakesType, ReceiverStepType

\* The timer of REQMETA keeps the types.
LEMMA ReqMetaTimeoutType == TypeOK /\ ReqMetaTimeout => TypeOK'
  BY DEF ReqMetaTimeout, TypeOK, SenderTypeOK, ReceiverTypeOK, LinkTypeOK, senderVars, fates, boundVars

-----------------------------------------------------------------------------
(* The links and the restarts. *)

\* A lost or a duplicated packet leaves typed links.
LEMMA LinkStepType == TypeOK /\ (Lose \/ Duplicate) => TypeOK'
<1>. SUFFICES ASSUME TypeOK, Lose \/ Duplicate PROVE TypeOK'
  OBVIOUS
<1>1. /\ UNCHANGED <<disk, senderVars, receiverVars, fates, restarts>>
      /\ lost' \in Nat /\ dup' \in Nat
  BY DEF Lose, Duplicate, OnALink, TypeOK, LinkTypeOK
<1>2. ASSUME NEW T, NEW link \in Seq(T), NEW i \in DOMAIN link
      PROVE  RemoveAt(link, i) \in Seq(T) /\ Repeat(link, i) \in Seq(T)
  <2>1. i \in 1 .. Len(link) /\ link[i] \in T
    BY LenProperties, ElementOfSeq
  <2>. QED
    BY <2>1, RemoveAtType, InsertAtType DEF Repeat
<1>3. toReceiver \in Seq(ToReceiver) /\ toSender \in Seq(ToSender)
  BY DEF TypeOK, LinkTypeOK
<1>4. toReceiver' \in Seq(ToReceiver) /\ toSender' \in Seq(ToSender)
  <2>1. CASE Lose
    BY <1>2, <1>3, <2>1 DEF Lose, OnALink
  <2>2. CASE Duplicate
    BY <1>2, <1>3, <2>2 DEF Duplicate, OnALink
  <2>. QED
    BY <2>1, <2>2
<1>. QED
  BY <1>1, <1>4
  DEF TypeOK, SenderTypeOK, ReceiverTypeOK, LinkTypeOK, senderVars, receiverVars, fates

\* What a crash leaves of a link is a link.
LEMMA CutOffType ==
  ASSUME NEW T, NEW link \in Seq(T), NEW cut \in CutOff(link)
  PROVE  cut \in Seq(T)
<1>1. PICK n \in 0 .. Len(link) : cut = SubSeq(link, 1, n)
  BY DEF CutOff
<1>2. \A i \in 1 .. n : link[i] \in T
  BY LenProperties, ElementOfSeq
<1>. QED
  BY <1>1, <1>2, LenProperties, SubSeqProperties

\* A sender restored from its meta files is typed.
LEMMA RestartSenderType == TypeOK /\ RestartSender => TypeOK'
<1>. SUFFICES ASSUME TypeOK, RestartSender PROVE TypeOK'
  OBVIOUS
<1> DEFINE metas == { tx \in Ids : metaOut[tx] # NoTx }
           lists(tx) == Ascending(Merged(Range(metaOut[tx].pending)))
           size(tx) == IF disk[metaOut[tx].file].there THEN disk[metaOut[tx].file].len ELSE 0
           entry(tx, list) == [file |-> metaOut[tx].file, pending |-> list[tx],
                               open |-> FALSE, size |-> size(tx)]
           Live(read) == { tx \in read : metaOut[tx].live }
<1>0. PICK read \in SUBSET metas :
        /\ Cardinality(read) <= Limit /\ outSize' = Cardinality(read)
        /\ \E list \in [Live(read) -> UNION { lists(tx) : tx \in Live(read) }] :
             /\ \A tx \in Live(read) : list[tx] \in lists(tx)
             /\ out' = [tx \in Ids |-> IF tx \notin Live(read) THEN NoTx ELSE entry(tx, list)]
  BY DEF RestartSender
<1>1. PICK list \in [Live(read) -> UNION { lists(tx) : tx \in Live(read) }] :
        /\ \A tx \in Live(read) : list[tx] \in lists(tx)
        /\ out' = [tx \in Ids |-> IF tx \notin Live(read) THEN NoTx ELSE entry(tx, list)]
  BY <1>0
<1> DEFINE live == Live(read)
<1>2. outSize' \in 0 .. MaxTxId
  <2>1. Cardinality(read) \in Nat
    BY IdsFinite
  <2>. QED
    BY <1>0, <2>1, TxIdAssumption
<1>3. ASSUME NEW tx \in live PROVE entry(tx, list) \in OutTx
  <2>1. tx \in Ids /\ metaOut[tx] \in OutMeta
    BY DEF TypeOK, SenderTypeOK
  <2>2. metaOut[tx].file \in Files
    BY <2>1 DEF OutMeta
  <2>3. size(tx) \in Position
    BY <2>2, MaxBlockAssumption DEF TypeOK, SenderTypeOK, Position
  <2>4. list[tx] \in Seq(Chunk)
    BY <1>1, MergedType, AscendingType
  <2>. HIDE DEF size
  <2>. QED
    BY <2>2, <2>3, <2>4 DEF OutTx
<1>. HIDE DEF entry
<1>4. out' \in [Ids -> OutTx \cup {NoTx}]
  BY <1>1, <1>3
<1>5. /\ nextId' = 1 /\ current' = 0 /\ scan' = {} /\ peerKnown' = FALSE /\ active' = FALSE
      /\ toReceiver' \in CutOff(toReceiver)
      /\ restarts' = [restarts EXCEPT !.sender = @ + 1]
      /\ UNCHANGED <<disk, metaOut, receiverVars, toSender, fates, lost, dup>>
  BY DEF RestartSender
<1>6. restarts' \in [sender : Nat, receiver : Nat]
  BY <1>5 DEF TypeOK, LinkTypeOK
<1>7. toReceiver' \in Seq(ToReceiver)
  BY <1>5, CutOffType DEF TypeOK, LinkTypeOK
<1>8. SenderTypeOK'
  <2>1. nextId' \in 0 .. MaxTxId /\ current' \in 0 .. MaxTxId
    BY <1>5, TxIdAssumption
  <2>. QED
    BY <1>2, <1>4, <1>5, <2>1 DEF TypeOK, SenderTypeOK
<1>. QED
  BY <1>5, <1>6, <1>7, <1>8 DEF TypeOK, ReceiverTypeOK, LinkTypeOK, receiverVars, fates

\* A receiver restored from its meta files is typed, whatever complete reads as.
LEMMA RestartReceiverType == TypeOK /\ RestartReceiver => TypeOK'
<1>. SUFFICES ASSUME TypeOK, RestartReceiver PROVE TypeOK'
  OBVIOUS
<1> DEFINE metas == { tx \in Ids : metaIn[tx] # NoTx }
           entry(tx, complete) ==
             [havemeta |-> TRUE, file |-> metaIn[tx].file, size |-> metaIn[tx].size,
              got |-> Merged(metaIn[tx].got), total |-> Count(metaIn[tx].got),
              complete |-> tx \in complete, open |-> FALSE]
<1>1. PICK complete \in SUBSET metas :
        in' = [tx \in Ids |-> IF tx \notin metas THEN NoTx ELSE entry(tx, complete)]
  BY DEF RestartReceiver
<1>2. ASSUME NEW tx \in metas PROVE entry(tx, complete) \in InTx
  <2>1. metaIn[tx] \in InMeta
    BY DEF TypeOK, ReceiverTypeOK
  <2>2. /\ metaIn[tx].file \in Files \cup {NoFile} /\ metaIn[tx].size \in Position
        /\ Merged(metaIn[tx].got) \in SUBSET Run /\ Count(metaIn[tx].got) \in Nat
    BY <2>1, MergedRuns, CountType DEF InMeta
  <2>. QED
    BY <2>2 DEF InTx
<1>. HIDE DEF entry
<1>3. in' \in [Ids -> InTx \cup {NoTx}]
  BY <1>1, <1>2
<1>4. /\ senderKnown' = FALSE /\ reqmetaDue' = TRUE /\ toSender' \in CutOff(toSender)
      /\ restarts' = [restarts EXCEPT !.receiver = @ + 1]
      /\ UNCHANGED <<disk, senderVars, metaIn, temp, incoming, toReceiver, fates, lost, dup>>
  BY DEF RestartReceiver
<1>5. restarts' \in [sender : Nat, receiver : Nat]
  BY <1>4 DEF TypeOK, LinkTypeOK
<1>6. toSender' \in Seq(ToSender)
  BY <1>4, CutOffType DEF TypeOK, LinkTypeOK
<1>. QED
  BY <1>3, <1>4, <1>5, <1>6
  DEF TypeOK, SenderTypeOK, ReceiverTypeOK, LinkTypeOK, senderVars, fates

-----------------------------------------------------------------------------

\* Every step keeps the types.
LEMMA NextType == TypeOK /\ [Next]_vars => TypeOK'
<1>. SUFFICES ASSUME TypeOK, [Next]_vars PROVE TypeOK'
  OBVIOUS
<1>. QED
  BY StutterType, UserType, ListOutgoingType, ScanFileType, SendBlockType, GiveUpType,
     SendQueueType, ReceivePeerQueueType, ReceiveReqMetaType, ReceiveReqDataType,
     ReceiveCompleteType, ReceiveMetaType, ReceiveDataType, ReceiveQueueType,
     ReceiveCancelType, ReqMetaTimeoutType, LinkStepType, RestartSenderType,
     RestartReceiverType
  DEF Next

\* In every run of the protocol, whatever is lost, duplicated, reordered,
\* disturbed or restarted and whichever calls fail, every table, file and packet
\* has its type: ids stay in the range of a byte and every requested hole is a
\* range of 32-bit positions.
THEOREM TypeCorrect == Spec => []TypeOK
<1>. QED
  BY InitType, NextType, PTL DEF Spec

-----------------------------------------------------------------------------
(* The slots of the outgoing queue. *)

\* The four things a step can do to the slots and their meta files: nothing but
\* rewrite entries and meta files of occupied slots in place, ...
SlotsKept ==
  /\ OutIds' = OutIds /\ UNCHANGED outSize
  /\ \A tx \in OutIds : out'[tx].file = out[tx].file
  /\ \A tx \in Ids : \/ metaOut'[tx] = metaOut[tx]
                     \/ tx \in OutIds /\ metaOut'[tx].file = out[tx].file

\* ... occupy the free slot id for the file f, which no slot holds, ...
SlotTaken(id, f) ==
  /\ HasRoom /\ ~Queued(f) /\ id \notin OutIds
  /\ OutIds' = OutIds \cup {id} /\ outSize' = (outSize + 1) % (MaxTxId + 1)
  /\ out'[id].file = f /\ \A tx \in OutIds : out'[tx] = out[tx]
  /\ \A tx \in Ids : metaOut'[tx] = metaOut[tx] \/ (tx = id /\ metaOut'[tx].file = f)

\* ... free the slot tx and its meta file, unless that cannot be removed, or
\* restore the slots from those files.
SlotFreed(tx) ==
  /\ OutIds' = OutIds \ {tx} /\ outSize' = (outSize - 1) % (MaxTxId + 1)
  /\ \A u \in OutIds \ {tx} : out'[u] = out[u]
  /\ \A u \in Ids : \/ metaOut'[u] = metaOut[u] /\ (u # tx \/ "removeMeta" \in FailingCalls)
                    \/ metaOut'[u] = NoTx \/ ~metaOut'[u].live

\* A changed entry whose meta file is written, or not, keeps the slots.
LEMMA KeptOrWritten ==
  ASSUME SenderTypeOK, NEW tx \in OutIds, NEW r \in OutTx, r.file = out[tx].file,
         out' = [out EXCEPT ![tx] = r], WriteMetaOut(tx, r), UNCHANGED outSize
  PROVE  SlotsKept
<1>1. tx \in Ids /\ r # NoTx
  BY OutSlot, NoTxAssumption
<1>2. OutIds' = OutIds
  BY <1>1 DEF OutIds, SenderTypeOK
<1>3. \A u \in OutIds : out'[u].file = out[u].file
  BY <1>1 DEF OutIds, SenderTypeOK
<1>4. \A u \in Ids : metaOut'[u] = metaOut[u] \/ (u = tx /\ metaOut'[u].file = out[tx].file)
  BY <1>1 DEF WriteMetaOut, SenderTypeOK
<1>. QED
  BY <1>2, <1>3, <1>4 DEF SlotsKept

\* outgoing_tx_del frees exactly one slot.
LEMMA DeleteFrees ==
  ASSUME SenderTypeOK, NEW tx \in OutIds, NEW meta, NEW broken, broken \subseteq FailingCalls,
         DeleteOutgoing(tx, meta, broken), meta = NoTx \/ ~meta.live
  PROVE  SlotFreed(tx)
<1>1. tx \in Ids
  BY OutSlot
<1>2. OutIds' = OutIds \ {tx}
  BY <1>1 DEF OutIds, DeleteOutgoing, Deleted, SenderTypeOK
<1>3. \A u \in OutIds \ {tx} : out'[u] = out[u]
  BY <1>1 DEF OutIds, DeleteOutgoing, Deleted, SenderTypeOK
<1>4. CASE metaOut' = [metaOut EXCEPT ![tx] = meta]
  <2>1. \A u \in Ids : metaOut'[u] = IF u = tx THEN meta ELSE metaOut[u]
    BY <1>1, <1>4 DEF SenderTypeOK
  <2>. QED
    BY <1>2, <1>3, <2>1 DEF SlotFreed, DeleteOutgoing
<1>5. CASE "removeMeta" \in broken /\ metaOut' = metaOut
  <2>1. "removeMeta" \in FailingCalls
    BY <1>5
  <2>. QED
    BY <1>2, <1>3, <1>5, <2>1 DEF SlotFreed, DeleteOutgoing
<1>. QED
  BY <1>4, <1>5 DEF DeleteOutgoing, Deleted

\* Handling one file of the listing takes one free slot for a file not queued, or none.
LEMMA ScanSlots ==
  ASSUME SenderTypeOK, ScanFile
  PROVE  SlotsKept \/ \E id \in Ids, f \in Files : SlotTaken(id, f)
<1>1. CASE UNCHANGED <<out, outSize, nextId, metaOut>>
  BY <1>1 DEF SlotsKept, OutIds
<1>2. ASSUME NEW f \in Files, HasRoom, ~Queued(f), NEW broken, AddOutgoing(f, broken)
      PROVE  SlotsKept \/ \E id \in Ids : SlotTaken(id, f)
  <2> DEFINE size == IF disk[f].there /\ "read" \notin broken THEN disk[f].len ELSE 0
             entry == [file |-> f, size |-> size, pending |-> <<>>, open |-> FALSE]
             meta == [file |-> f, pending |-> <<>>, live |-> TRUE]
  <2>1. PICK id \in Ids :
          /\ id \notin OutIds
          /\ \/ UNCHANGED <<out, outSize, metaOut>>
             \/ /\ out' = [out EXCEPT ![id] = entry]
                /\ outSize' = (outSize + 1) % (MaxTxId + 1)
                /\ UNCHANGED metaOut \/ metaOut' = [metaOut EXCEPT ![id] = meta]
    BY <1>2 DEF AddOutgoing, NextFreeId
  <2>2. CASE UNCHANGED <<out, outSize, metaOut>>
    BY <2>2 DEF SlotsKept, OutIds
  <2>3. CASE /\ out' = [out EXCEPT ![id] = entry]
             /\ outSize' = (outSize + 1) % (MaxTxId + 1)
             /\ UNCHANGED metaOut \/ metaOut' = [metaOut EXCEPT ![id] = meta]
    <3>1. size \in Position
      BY MaxBlockAssumption DEF SenderTypeOK, Position
    <3>2. entry # NoTx /\ entry.file = f /\ meta.file = f
      <4>1. entry \in OutTx
        BY <3>1, EmptySeq DEF OutTx
      <4>. QED
        BY <4>1, NoTxAssumption
    <3>. HIDE DEF entry, meta
    <3>3. OutIds' = OutIds \cup {id}
      BY <2>1, <2>3, <3>2 DEF OutIds, SenderTypeOK
    <3>4. out'[id].file = f /\ \A tx \in OutIds : out'[tx] = out[tx]
      BY <2>1, <2>3, <3>2 DEF OutIds, SenderTypeOK
    <3>5. \A tx \in Ids : metaOut'[tx] = metaOut[tx] \/ (tx = id /\ metaOut'[tx].file = f)
      BY <2>1, <2>3, <3>2 DEF SenderTypeOK
    <3>. QED
      BY <1>2, <2>1, <2>3, <3>3, <3>4, <3>5 DEF SlotTaken
  <2>. QED
    BY <2>1, <2>2, <2>3
<1>3. \A e \in scan : e.file \in Files
  BY DEF SenderTypeOK
<1>. QED
  BY <1>1, <1>2, <1>3 DEF ScanFile

SlotStep ==
  \/ SlotsKept
  \/ \E id \in Ids, f \in Files : SlotTaken(id, f)
  \/ \E tx \in OutIds : SlotFreed(tx)

\* A step that leaves the queue and the meta files alone keeps the slots.
LEMMA UntouchedSlots == UNCHANGED <<out, outSize, metaOut>> => SlotsKept
  BY DEF SlotsKept, OutIds

\* Every step but a restart of the sender is one of them.
LEMMA SlotSteps ==
  ASSUME TypeOK, [Next]_vars
  PROVE  RestartSender \/ (SlotStep /\ restarts'.sender = restarts.sender)
<1>. USE DEF senderVars, fates, boundVars
<1>1. CASE UNCHANGED <<out, outSize, metaOut, restarts>>
  BY <1>1, UntouchedSlots DEF SlotStep
<1>2. ASSUME NEW f \in Files, PutFile(f) \/ DisturbFile(f)
      PROVE  UNCHANGED <<out, outSize, metaOut, restarts>>
  BY <1>2 DEF PutFile, DisturbFile
<1>3. CASE ListOutgoing \/ SendQueue \/ PeerSendQueue \/ ReqMetaTimeout \/ Lose \/ Duplicate
  BY <1>1, <1>3 DEF ListOutgoing, SendQueue, PeerSendQueue, ReqMetaTimeout, Lose, Duplicate, OnALink
<1>4. CASE ScanFile
  BY <1>4, ScanSlots DEF SlotStep, ScanFile, TypeOK
<1>5. CASE SendBlock
  <2> DEFINE rest == FirstSent(out[current].pending, 1)
             sent == [out[current] EXCEPT !.pending = rest,
                                          !.open = Len(rest) = Len(out[current].pending)]
  <2>1. /\ current \in OutIds /\ out[current].pending # <<>>
        /\ out' = [out EXCEPT ![current] = sent] /\ WriteMetaOut(current, sent)
        /\ UNCHANGED <<outSize, restarts>>
    BY <1>5 DEF SendBlock, Sending
  <2>2. out[current] \in OutTx /\ out[current].pending \in Seq(Chunk)
    BY <2>1, OutSlot DEF TypeOK
  <2>3. rest \in Seq(Chunk)
    BY <2>1, <2>2, FirstSentType
  <2>4. sent \in OutTx /\ sent.file = out[current].file
    BY <2>2, <2>3 DEF OutTx
  <2>. HIDE DEF sent
  <2>. QED
    BY <2>1, <2>4, KeptOrWritten DEF SlotStep, TypeOK
<1>6. CASE GiveUp \/ ReadFails
  <2>1. current \in OutIds
    BY <1>6 DEF GiveUp, ReadFails, Sending
  <2>2. PICK broken : broken \subseteq FailingCalls /\ EndTransfer(broken)
    BY <1>6, FailuresType DEF GiveUp, ReadFails
  <2>3. restarts' = restarts
    BY <2>2 DEF EndTransfer
  <2>4. PICK meta : DeleteOutgoing(current, meta, broken) /\ (meta = NoTx \/ ~meta.live)
    BY <2>2 DEF EndTransfer
  <2>. QED
    BY <2>1, <2>2, <2>3, <2>4, DeleteFrees DEF SlotStep, TypeOK
<1>7. CASE ReceivePeerQueue \/ ReceiveReqMeta
  BY <1>1, <1>7 DEF ReceivePeerQueue, ReceiveReqMeta, SenderTakes, HandlePeerQueue, HandleReqMeta
<1>8. ASSUME NEW i \in Arrivals(toSender), SenderTakes(i, "REQDATA"), HandleReqData(toSender[i])
      PROVE  SlotStep /\ restarts'.sender = restarts.sender
  <2> DEFINE m == toSender[i]
             r == [out[m.tx] EXCEPT !.pending = InsertHole(@, m.hole)]
  <2>1. UNCHANGED <<outSize, restarts>> /\ m.hole \in Chunk
    BY <1>8, SenderTakesType, ToSenderFields DEF SenderTakes, HandleReqData
  <2>2. CASE m.hole.lo <= m.hole.hi /\ m.tx \in OutIds
    <3>1. out' = [out EXCEPT ![m.tx] = r] /\ WriteMetaOut(m.tx, r)
      BY <1>8, <2>2 DEF HandleReqData
    <3>2. out[m.tx] \in OutTx /\ out[m.tx].pending \in Seq(Chunk)
      BY <2>2, OutSlot DEF TypeOK
    <3>3. InsertHole(out[m.tx].pending, m.hole) \in Seq(Chunk)
      BY <2>1, <3>2, InsertHoleType
    <3>4. r \in OutTx /\ r.file = out[m.tx].file
      BY <3>2, <3>3 DEF OutTx
    <3>. HIDE DEF r
    <3>. QED
      BY <2>1, <2>2, <3>1, <3>4, KeptOrWritten DEF SlotStep, TypeOK
  <2>3. CASE ~(m.hole.lo <= m.hole.hi /\ m.tx \in OutIds)
    BY <1>8, <2>1, <2>3, UntouchedSlots DEF HandleReqData, SlotStep
  <2>. QED
    BY <2>2, <2>3
<1>9. ASSUME NEW i \in Arrivals(toSender), SenderTakes(i, "COMPLETE"), HandleComplete(toSender[i])
      PROVE  SlotStep /\ restarts'.sender = restarts.sender
  <2>1. restarts' = restarts
    BY <1>9 DEF SenderTakes
  <2>2. CASE toSender[i].tx \in OutIds /\ peerKnown
    <3>1. PICK broken : broken \subseteq FailingCalls /\ DeleteOutgoing(toSender[i].tx, NoTx, broken)
      BY <1>9, <2>2, FailuresType DEF HandleComplete
    <3>. QED
      BY <2>1, <2>2, <3>1, DeleteFrees DEF SlotStep, TypeOK
  <2>3. CASE ~(toSender[i].tx \in OutIds /\ peerKnown)
    BY <1>9, <2>1, <2>3, UntouchedSlots DEF HandleComplete, SlotStep
  <2>. QED
    BY <2>2, <2>3
<1>10. CASE ReceiveMeta \/ ReceiveData \/ ReceiveQueue \/ ReceiveCancel
  BY <1>1, <1>10 DEF ReceiveMeta, ReceiveData, ReceiveQueue, ReceiveCancel, ReceiverTakes
<1>11. CASE RestartReceiver
  <2>1. UNCHANGED <<out, outSize, metaOut>> /\ restarts'.sender = restarts.sender
    BY <1>11 DEF RestartReceiver, TypeOK, LinkTypeOK
  <2>. QED
    BY <2>1, UntouchedSlots DEF SlotStep
<1>12. CASE UNCHANGED vars
  BY <1>1, <1>12 DEF vars
<1>. QED
  BY <1>1, <1>2, <1>3, <1>4, <1>5, <1>6, <1>7, <1>8, <1>9, <1>10, <1>11, <1>12
  DEF Next, ReceiveReqData, ReceiveComplete

-----------------------------------------------------------------------------
(* What a step does to the meta files a restart of the sender reads. *)

\* Those of them it writes hold the ranges of their slots.
MetasFollow ==
  \A tx \in Ids : \/ metaOut'[tx] = metaOut[tx]
                  \/ metaOut'[tx] = NoTx \/ ~metaOut'[tx].live
                  \/ metaOut'[tx].pending = out'[tx].pending

\* A meta file that is written with its slot, ...
LEMMA WrittenFollows ==
  ASSUME SenderTypeOK, NEW tx \in Ids, NEW r,
         out' = [out EXCEPT ![tx] = r],
         \/ UNCHANGED metaOut
         \/ metaOut' = [metaOut EXCEPT ![tx] =
                          [file |-> r.file, pending |-> r.pending, live |-> TRUE]]
  PROVE  MetasFollow
<1>1. \A u \in Ids : u # tx => metaOut'[u] = metaOut[u]
  BY DEF SenderTypeOK
<1>2. out'[tx] = r
  BY DEF SenderTypeOK
<1>3. metaOut'[tx] = metaOut[tx] \/ metaOut'[tx].pending = r.pending
  BY DEF SenderTypeOK
<1> QED BY <1>1, <1>2, <1>3 DEF MetasFollow

\* ... one that is deleted or made useless.
LEMMA DeletedFollows ==
  ASSUME SenderTypeOK, NEW tx \in OutIds, NEW meta, NEW broken,
         DeleteOutgoing(tx, meta, broken), meta = NoTx \/ ~meta.live
  PROVE  MetasFollow
<1>1. tx \in Ids /\ (metaOut' = metaOut \/ metaOut' = [metaOut EXCEPT ![tx] = meta])
  BY OutSlot DEF DeleteOutgoing, Deleted
<1> QED BY <1>1 DEF MetasFollow, SenderTypeOK

\* No step but a restart does anything else to them.
LEMMA MetaSteps ==
  ASSUME TypeOK, [Next]_vars
  PROVE  MetasFollow \/ RestartSender
<1>. USE DEF senderVars
<1>1. UNCHANGED metaOut => MetasFollow
  BY DEF MetasFollow
<1>2. ASSUME NEW f \in Files, PutFile(f) \/ DisturbFile(f)
      PROVE  UNCHANGED metaOut
  BY <1>2 DEF PutFile, DisturbFile
<1>3. CASE ListOutgoing \/ SendQueue \/ PeerSendQueue \/ ReqMetaTimeout \/ Lose \/ Duplicate
  BY <1>1, <1>3 DEF ListOutgoing, SendQueue, PeerSendQueue, ReqMetaTimeout, Lose, Duplicate, OnALink
<1>4. CASE ScanFile
  <2>1. CASE UNCHANGED <<out, outSize, nextId, metaOut>>
    BY <1>1, <2>1
  <2>2. ASSUME NEW f \in Files, NEW broken, AddOutgoing(f, broken) PROVE MetasFollow
    <3> DEFINE size == IF disk[f].there /\ "read" \notin broken THEN disk[f].len ELSE 0
               entry == [file |-> f, size |-> size, pending |-> <<>>, open |-> FALSE]
    <3>1. PICK id \in Ids :
            \/ UNCHANGED <<out, outSize, metaOut>>
            \/ /\ out' = [out EXCEPT ![id] = entry]
               /\ \/ UNCHANGED metaOut
                  \/ metaOut' = [metaOut EXCEPT ![id] =
                                   [file |-> f, pending |-> <<>>, live |-> TRUE]]
      BY <2>2 DEF AddOutgoing
    <3>2. entry.file = f /\ entry.pending = <<>>
      OBVIOUS
    <3> HIDE DEF entry
    <3>3. CASE UNCHANGED metaOut
      BY <1>1, <3>3
    <3>4. CASE /\ out' = [out EXCEPT ![id] = entry]
               /\ metaOut' = [metaOut EXCEPT ![id] =
                                [file |-> entry.file, pending |-> entry.pending, live |-> TRUE]]
      BY <3>4, WrittenFollows DEF TypeOK
    <3> QED BY <3>1, <3>2, <3>3, <3>4
  <2>3. \A e \in scan : e.file \in Files
    BY DEF TypeOK, SenderTypeOK
  <2> QED BY <1>4, <2>1, <2>2, <2>3 DEF ScanFile
<1>5. CASE SendBlock
  <2> DEFINE rest == FirstSent(out[current].pending, 1)
             sent == [out[current] EXCEPT !.pending = rest,
                                          !.open = Len(rest) = Len(out[current].pending)]
  <2>1. /\ current \in Ids
        /\ out' = [out EXCEPT ![current] = sent] /\ WriteMetaOut(current, sent)
    BY <1>5 DEF SendBlock, Sending, OutIds
  <2>. HIDE DEF sent
  <2>. QED
    BY <2>1, WrittenFollows DEF WriteMetaOut, TypeOK
<1>6. CASE GiveUp \/ ReadFails
  <2>1. current \in OutIds
    BY <1>6 DEF GiveUp, ReadFails, Sending
  <2>2. PICK broken : EndTransfer(broken)
    BY <1>6 DEF GiveUp, ReadFails
  <2>3. PICK meta : DeleteOutgoing(current, meta, broken) /\ (meta = NoTx \/ ~meta.live)
    BY <2>2 DEF EndTransfer
  <2>. QED
    BY <2>1, <2>3, DeletedFollows DEF TypeOK
<1>7. CASE ReceivePeerQueue \/ ReceiveReqMeta
  BY <1>1, <1>7 DEF ReceivePeerQueue, ReceiveReqMeta, HandlePeerQueue, HandleReqMeta
<1>8. ASSUME NEW i \in Arrivals(toSender), HandleReqData(toSender[i])
      PROVE  MetasFollow
  <2> DEFINE m == toSender[i]
             r == [out[m.tx] EXCEPT !.pending = InsertHole(@, m.hole)]
  <2>1. CASE m.hole.lo <= m.hole.hi /\ m.tx \in OutIds
    <3>1. m.tx \in Ids /\ out' = [out EXCEPT ![m.tx] = r] /\ WriteMetaOut(m.tx, r)
      BY <1>8, <2>1 DEF HandleReqData, OutIds
    <3>. HIDE DEF r
    <3>. QED
      BY <3>1, WrittenFollows DEF WriteMetaOut, TypeOK
  <2>2. CASE ~(m.hole.lo <= m.hole.hi /\ m.tx \in OutIds)
    BY <1>1, <1>8, <2>2 DEF HandleReqData
  <2>. QED
    BY <2>1, <2>2
<1>9. ASSUME NEW i \in Arrivals(toSender), HandleComplete(toSender[i])
      PROVE  MetasFollow
  <2>1. CASE toSender[i].tx \in OutIds /\ peerKnown
    <3>1. PICK broken : DeleteOutgoing(toSender[i].tx, NoTx, broken)
      BY <1>9, <2>1 DEF HandleComplete
    <3>. QED
      BY <2>1, <3>1, DeletedFollows DEF TypeOK
  <2>2. CASE ~(toSender[i].tx \in OutIds /\ peerKnown)
    BY <1>1, <1>9, <2>2 DEF HandleComplete
  <2>. QED
    BY <2>1, <2>2
<1>10. CASE ReceiveMeta \/ ReceiveData \/ ReceiveQueue \/ ReceiveCancel
  BY <1>1, <1>10 DEF ReceiveMeta, ReceiveData, ReceiveQueue, ReceiveCancel, ReceiverTakes
<1>11. CASE RestartReceiver
  BY <1>1, <1>11 DEF RestartReceiver
<1>12. CASE UNCHANGED vars
  BY <1>1, <1>12 DEF vars
<1>. QED
  BY <1>1, <1>2, <1>3, <1>4, <1>5, <1>6, <1>7, <1>8, <1>9, <1>10, <1>11, <1>12
  DEF Next, ReceiveReqData, ReceiveComplete

-----------------------------------------------------------------------------
(* outgoing.size and the queue limit. *)

\* The empty queue fits.
LEMMA SlotsFitInit == Init => SlotsFit
<1>. SUFFICES ASSUME Init PROVE SlotsFit
  OBVIOUS
<1>1. OutIds = {} /\ outSize = 0
  BY DEF Init, OutIds
<1>. QED
  BY <1>1, FS_EmptySet, TxIdAssumption DEF SlotsFit

\* SlotsFit is inductive with the types: the count follows each slot taken, freed or restored.
LEMMA SlotsFitStep == TypeOK /\ SlotsFit /\ [Next]_vars => SlotsFit'
<1>. SUFFICES ASSUME TypeOK, SlotsFit, [Next]_vars PROVE SlotsFit'
  OBVIOUS
<1>1. IsFiniteSet(OutIds) /\ Cardinality(OutIds) \in Nat
  BY IdsFinite DEF OutIds
<1>2. outSize \in Nat /\ Cardinality(OutIds) <= outSize /\ outSize <= Limit
  BY TxIdAssumption DEF TypeOK, SenderTypeOK, SlotsFit
<1>3. CASE SlotsKept
  BY <1>2, <1>3 DEF SlotsKept, SlotsFit
<1>4. ASSUME NEW id \in Ids, NEW f \in Files, SlotTaken(id, f)
      PROVE  SlotsFit'
  <2>1. Cardinality(OutIds') = Cardinality(OutIds) + 1
    BY <1>1, <1>4, FS_AddElement DEF SlotTaken
  <2>2. outSize < Limit /\ outSize' = (outSize + 1) % (MaxTxId + 1)
    BY <1>4 DEF SlotTaken, HasRoom
  <2>3. outSize' = outSize + 1
    BY <1>2, <2>2, TxIdAssumption
  <2>. QED
    BY <1>1, <1>2, <2>1, <2>2, <2>3, TxIdAssumption DEF SlotsFit
<1>5. ASSUME NEW tx \in OutIds, SlotFreed(tx)
      PROVE  SlotsFit'
  <2>1. Cardinality(OutIds') = Cardinality(OutIds) - 1 /\ Cardinality(OutIds) # 0
    BY <1>1, <1>5, FS_RemoveElement, FS_EmptySet DEF SlotFreed
  <2>2. outSize' = (outSize - 1) % (MaxTxId + 1)
    BY <1>5 DEF SlotFreed
  <2>3. outSize' = outSize - 1
    BY <1>1, <1>2, <2>1, <2>2, TxIdAssumption
  <2>. QED
    BY <1>1, <1>2, <2>1, <2>3, TxIdAssumption DEF SlotsFit
<1>6. CASE RestartSender
  <2>1. PICK read \in SUBSET Ids :
          /\ Cardinality(read) <= Limit /\ outSize' = Cardinality(read)
          /\ OutIds' \subseteq read
    BY <1>6 DEF RestartSender, OutIds
  <2>2. IsFiniteSet(read)
    BY IdsFinite
  <2>3. Cardinality(OutIds') <= Cardinality(read)
    BY <2>1, <2>2, FS_Subset
  <2>. QED
    BY <2>1, <2>3 DEF SlotsFit
<1>. QED
  BY <1>3, <1>4, <1>5, <1>6, SlotSteps DEF SlotStep

\* However transfers come, go, are given up or are restored after a restart,
\* outgoing.size covers the occupied slots and stays within the queue limit:
\* every QUEUE packet has room for every transfer under way.
THEOREM QueueListsAll == Spec => []SlotsFit
<1>. QED
  BY InitType, NextType, SlotsFitInit, SlotsFitStep, PTL DEF Spec

-----------------------------------------------------------------------------
(* One slot per file. *)

\* Until the sender's last restart, each meta file that a restart would read tells
\* of the slot it belongs to.  (Afterwards the meta files that did not fit in the
\* queue stay behind, next to slots that are free or hold other files.)
MetaFollowsSlot ==
  restarts.sender < SenderRestarts =>
    \A tx \in Ids : metaOut[tx] # NoTx /\ metaOut[tx].live =>
      tx \in OutIds /\ out[tx].file = metaOut[tx].file

\* The inductive invariant.
SlotsDiffer ==
  OneSlotPerFile /\ MetaFollowsSlot /\ restarts.sender <= SenderRestarts

\* At the start no slot and no meta file is in use.
LEMMA SlotsDifferInit == Init => SlotsDiffer
<1>. SUFFICES ASSUME Init PROVE SlotsDiffer
  OBVIOUS
<1>1. OutIds = {} /\ (\A tx \in Ids : metaOut[tx] = NoTx) /\ restarts.sender = 0
  BY DEF Init, OutIds
<1>. QED
  BY <1>1, BoundsAssumption DEF SlotsDiffer, OneSlotPerFile, MetaFollowsSlot

\* The invariant is kept by every step, and by the one restart.
LEMMA SlotsDifferStep ==
  ASSUME RestartsSafely
  PROVE  TypeOK /\ SlotsDiffer /\ [Next]_vars => SlotsDiffer'
<1>. SUFFICES ASSUME TypeOK, SlotsDiffer, [Next]_vars PROVE SlotsDiffer'
  OBVIOUS
<1>1. OutIds \subseteq Ids
  BY DEF OutIds
<1>2. OneSlotPerFile /\ MetaFollowsSlot
  BY DEF SlotsDiffer
<1>3. ASSUME SlotsKept, restarts'.sender = restarts.sender
      PROVE  SlotsDiffer'
  <2>1. OneSlotPerFile'
    BY <1>2, <1>3 DEF SlotsKept, OneSlotPerFile
  <2>2. MetaFollowsSlot'
    BY <1>1, <1>2, <1>3 DEF SlotsKept, MetaFollowsSlot
  <2>. QED
    BY <1>3, <2>1, <2>2 DEF SlotsDiffer
<1>4. ASSUME NEW id \in Ids, NEW f \in Files, SlotTaken(id, f),
             restarts'.sender = restarts.sender
      PROVE  SlotsDiffer'
  <2>1. \A tx \in OutIds : out[tx].file # f /\ out'[tx] = out[tx]
    BY <1>4 DEF SlotTaken, Queued
  <2>2. OutIds' = OutIds \cup {id} /\ id \notin OutIds /\ out'[id].file = f
    BY <1>4 DEF SlotTaken
  <2>3. OneSlotPerFile'
    BY <1>2, <2>1, <2>2 DEF OneSlotPerFile
  <2>4. \A tx \in Ids : metaOut'[tx] = metaOut[tx] \/ (tx = id /\ metaOut'[tx].file = f)
    BY <1>4 DEF SlotTaken
  <2>5. MetaFollowsSlot'
    BY <1>2, <1>4, <2>1, <2>2, <2>4 DEF MetaFollowsSlot
  <2>. QED
    BY <1>4, <2>3, <2>5 DEF SlotsDiffer
<1>5. ASSUME NEW tx \in OutIds, SlotFreed(tx), restarts'.sender = restarts.sender
      PROVE  SlotsDiffer'
  <2>1. OutIds' = OutIds \ {tx} /\ \A u \in OutIds \ {tx} : out'[u] = out[u]
    BY <1>5 DEF SlotFreed
  <2>2. OneSlotPerFile'
    BY <1>2, <2>1 DEF OneSlotPerFile
  <2>3. MetaFollowsSlot'
    <3>1. CASE SenderRestarts = 0
      BY <3>1, <1>5 DEF MetaFollowsSlot, TypeOK, LinkTypeOK
    <3>2. CASE "removeMeta" \notin FailingCalls
      BY <1>2, <1>5, <2>1, <3>2 DEF SlotFreed, MetaFollowsSlot
    <3>. QED
      BY <3>1, <3>2 DEF RestartsSafely
  <2>. QED
    BY <1>5, <2>2, <2>3 DEF SlotsDiffer
<1>6. CASE RestartSender
  <2>1. restarts.sender \in Nat /\ restarts.sender < SenderRestarts
        /\ restarts'.sender = restarts.sender + 1
    BY <1>6 DEF RestartSender, TypeOK, LinkTypeOK
  <2>2. restarts.sender = 0 /\ restarts'.sender = 1 /\ SenderRestarts = 1
    BY <2>1, BoundsAssumption DEF RestartsSafely
  <2>3. \A tx \in OutIds' : metaOut[tx] # NoTx /\ metaOut[tx].live
                            /\ out'[tx].file = metaOut[tx].file
    BY <1>6 DEF RestartSender, OutIds
  <2>4. \A tx \in OutIds' : tx \in OutIds /\ out[tx].file = out'[tx].file
    BY <1>2, <2>1, <2>3 DEF MetaFollowsSlot, OutIds
  <2>5. OneSlotPerFile'
    BY <1>2, <2>4 DEF OneSlotPerFile
  <2>. QED
    BY <2>2, <2>5 DEF SlotsDiffer, MetaFollowsSlot
<1>. QED
  BY <1>3, <1>4, <1>5, <1>6, SlotSteps DEF SlotStep

\* No file is ever in two slots of the outgoing queue, even when the sender has
\* been restarted once and has taken its transfers up again from the meta files:
\* if no removal of a meta file can fail then.  A file that could not be removed
\* is queued again only after its slot has been freed.
THEOREM NoFileTwice ==
  ASSUME RestartsSafely
  PROVE  Spec => []OneSlotPerFile
<1>1. SlotsDiffer => OneSlotPerFile
  BY DEF SlotsDiffer
<1>. QED
  BY <1>1, InitType, NextType, SlotsDifferInit, SlotsDifferStep, PTL DEF Spec

-----------------------------------------------------------------------------
(* Packets on a link. *)

\* Two lists one behind the other.
LEMMA ConcatIs ==
  ASSUME NEW T, NEW s \in Seq(T), NEW t \in Seq(T)
  PROVE  /\ s \o t \in Seq(T) /\ Len(s \o t) = Len(s) + Len(t)
         /\ \A k \in 1 .. Len(s) : (s \o t)[k] = s[k]
         /\ \A k \in 1 .. Len(t) : (s \o t)[Len(s) + k] = t[k]
<1>1. /\ s \o t \in Seq(T) /\ Len(s \o t) = Len(s) + Len(t)
      /\ \A k \in 1 .. Len(s) + Len(t) : (s \o t)[k] = IF k <= Len(s) THEN s[k] ELSE t[k - Len(s)]
  BY ConcatProperties
<1>2. Len(s) \in Nat /\ Len(t) \in Nat
  BY LenProperties
<1>3. \A k \in 1 .. Len(t) : Len(s) + k \in 1 .. Len(s) + Len(t) /\ ~(Len(s) + k <= Len(s))
                            /\ Len(s) + k - Len(s) = k
  BY <1>2
<1>4. \A k \in 1 .. Len(s) : k \in 1 .. Len(s) + Len(t) /\ k <= Len(s)
  BY <1>2
<1>5. \A k \in 1 .. Len(s) : (s \o t)[k] = s[k]
  BY <1>1, <1>4
<1>6. \A k \in 1 .. Len(t) : (s \o t)[Len(s) + k] = t[k]
  BY <1>1, <1>3
<1> QED BY <1>1, <1>5, <1>6

\* What is on a list with one element removed ...
LEMMA RemoveAtIs ==
  ASSUME NEW T, NEW s \in Seq(T), NEW i \in 1 .. Len(s)
  PROVE  /\ RemoveAt(s, i) \in Seq(T) /\ Len(RemoveAt(s, i)) = Len(s) - 1
         /\ \A k \in 1 .. Len(s) - 1 : RemoveAt(s, i)[k] = IF k < i THEN s[k] ELSE s[k + 1]
<1> DEFINE before == SubSeq(s, 1, i - 1)
           after == SubSeq(s, i + 1, Len(s))
<1>1. Len(s) \in Nat
  BY LenProperties
<1>2. /\ before \in Seq(T) /\ Len(before) = i - 1
      /\ \A k \in 1 .. i - 1 : before[k] = s[k]
  <2>1. \A k \in 1 .. i - 1 : s[k] \in T BY <1>1, ElementOfSeq
  <2>2. /\ before \in Seq(T) /\ Len(before) = IF 1 <= i - 1 THEN i - 1 - 1 + 1 ELSE 0
        /\ \A k \in 1 .. i - 1 - 1 + 1 : before[k] = s[1 + k - 1]
    BY <1>1, <2>1, SubSeqProperties
  <2> QED BY <1>1, <2>2
<1>3. /\ after \in Seq(T) /\ Len(after) = Len(s) - i
      /\ \A k \in 1 .. Len(s) - i : after[k] = s[i + k]
  <2>1. \A k \in i + 1 .. Len(s) : s[k] \in T BY <1>1, ElementOfSeq
  <2>2. /\ after \in Seq(T)
        /\ Len(after) = IF i + 1 <= Len(s) THEN Len(s) - (i + 1) + 1 ELSE 0
        /\ \A k \in 1 .. Len(s) - (i + 1) + 1 : after[k] = s[i + 1 + k - 1]
    BY <1>1, <2>1, SubSeqProperties
  <2> QED BY <1>1, <2>2
<1>4. RemoveAt(s, i) = before \o after
  BY DEF RemoveAt
<1> HIDE DEF before, after
<1>5. /\ before \o after \in Seq(T) /\ Len(before \o after) = Len(s) - 1
      /\ \A k \in 1 .. i - 1 : (before \o after)[k] = before[k]
      /\ \A k \in 1 .. Len(s) - i : (before \o after)[i - 1 + k] = after[k]
  <2>1. /\ before \o after \in Seq(T) /\ Len(before \o after) = Len(before) + Len(after)
        /\ \A k \in 1 .. Len(before) : (before \o after)[k] = before[k]
        /\ \A k \in 1 .. Len(after) : (before \o after)[Len(before) + k] = after[k]
    <3>1. before \in Seq(T) /\ after \in Seq(T) BY <1>2, <1>3
    <3> QED BY <3>1, ConcatIs
  <2>2. Len(before) = i - 1 /\ Len(after) = Len(s) - i
    BY <1>2, <1>3
  <2>3. i - 1 + (Len(s) - i) = Len(s) - 1
    BY <1>1
  <2> QED BY <2>1, <2>2, <2>3, Zenon
<1>6. ASSUME NEW k \in 1 .. Len(s) - 1
      PROVE  (before \o after)[k] = IF k < i THEN s[k] ELSE s[k + 1]
  <2>1. CASE k < i BY <1>1, <1>2, <1>5, <2>1
  <2>2. CASE k >= i
    <3>2. /\ k - (i - 1) \in 1 .. Len(s) - i /\ i + (k - (i - 1)) = k + 1
          /\ i - 1 + (k - (i - 1)) = k
      BY <1>1, <2>2
    <3>1. (before \o after)[k] = after[k - (i - 1)] BY <1>5, <3>2
    <3>3. after[k - (i - 1)] = s[i + (k - (i - 1))] BY <1>3, <3>2
    <3> QED BY <1>1, <2>2, <3>1, <3>2, <3>3
  <2>3. k < i \/ k >= i BY <1>1
  <2> QED BY <2>1, <2>2, <2>3
<1> QED BY <1>4, <1>5, <1>6

\* ... and with one repeated.
LEMMA RepeatIs ==
  ASSUME NEW T, NEW s \in Seq(T), NEW i \in 1 .. Len(s)
  PROVE  /\ Repeat(s, i) \in Seq(T) /\ Len(Repeat(s, i)) = Len(s) + 1
         /\ \A k \in 1 .. Len(s) + 1 : Repeat(s, i)[k] = IF k <= i THEN s[k] ELSE s[k - 1]
<1> DEFINE before == SubSeq(s, 1, i - 1)
           after == SubSeq(s, i, Len(s))
           left == before \o <<s[i]>>
<1>1. Len(s) \in Nat /\ s[i] \in T
  BY LenProperties, ElementOfSeq
<1>2. /\ before \in Seq(T) /\ Len(before) = i - 1
      /\ \A k \in 1 .. i - 1 : before[k] = s[k]
  <2>1. \A k \in 1 .. i - 1 : s[k] \in T BY <1>1, ElementOfSeq
  <2>2. /\ before \in Seq(T) /\ Len(before) = IF 1 <= i - 1 THEN i - 1 - 1 + 1 ELSE 0
        /\ \A k \in 1 .. i - 1 - 1 + 1 : before[k] = s[1 + k - 1]
    BY <1>1, <2>1, SubSeqProperties
  <2> QED BY <1>1, <2>2
<1>3. /\ after \in Seq(T) /\ Len(after) = Len(s) - i + 1
      /\ \A k \in 1 .. Len(s) - i + 1 : after[k] = s[i + k - 1]
  <2>1. \A k \in i .. Len(s) : s[k] \in T BY <1>1, ElementOfSeq
  <2>2. /\ after \in Seq(T)
        /\ Len(after) = IF i <= Len(s) THEN Len(s) - i + 1 ELSE 0
        /\ \A k \in 1 .. Len(s) - i + 1 : after[k] = s[i + k - 1]
    BY <1>1, <2>1, SubSeqProperties
  <2> QED BY <1>1, <2>2
<1>4. <<s[i]>> \in Seq(T) /\ Len(<<s[i]>>) = 1 /\ <<s[i]>>[1] = s[i]
  BY <1>1
<1>5. Repeat(s, i) = left \o after
  BY DEF Repeat, InsertAt
<1>6. /\ left \in Seq(T) /\ Len(left) = i
      /\ \A k \in 1 .. i : left[k] = s[k]
  <2> DEFINE one == <<s[i]>>
  <2> HIDE DEF before, one
  <2>1. /\ before \o one \in Seq(T) /\ Len(before \o one) = i
        /\ \A k \in 1 .. i : (before \o one)[k] = IF k <= i - 1 THEN before[k] ELSE one[k - (i - 1)]
    BY <1>1, <1>2, <1>4, ConcatProperties DEF one
  <2>2. \A k \in 1 .. i : (before \o one)[k] = s[k]
    BY <1>1, <1>2, <1>4, <2>1 DEF one
  <2> QED BY <2>1, <2>2 DEF one
<1> HIDE DEF before, after, left
<1>7. /\ left \o after \in Seq(T) /\ Len(left \o after) = Len(s) + 1
      /\ \A k \in 1 .. i : (left \o after)[k] = left[k]
      /\ \A k \in 1 .. Len(s) - i + 1 : (left \o after)[i + k] = after[k]
  <2>1. /\ left \o after \in Seq(T) /\ Len(left \o after) = Len(left) + Len(after)
        /\ \A k \in 1 .. Len(left) : (left \o after)[k] = left[k]
        /\ \A k \in 1 .. Len(after) : (left \o after)[Len(left) + k] = after[k]
    <3>1. left \in Seq(T) /\ after \in Seq(T) BY <1>3, <1>6
    <3> QED BY <3>1, ConcatIs
  <2>2. Len(left) = i /\ Len(after) = Len(s) - i + 1
    BY <1>3, <1>6
  <2>3. i + (Len(s) - i + 1) = Len(s) + 1
    BY <1>1
  <2> QED BY <2>1, <2>2, <2>3, Zenon
<1>8. ASSUME NEW k \in 1 .. Len(s) + 1
      PROVE  (left \o after)[k] = IF k <= i THEN s[k] ELSE s[k - 1]
  <2>1. CASE k <= i BY <1>1, <1>6, <1>7, <2>1
  <2>2. CASE k > i
    <3>2. /\ k - i \in 1 .. Len(s) - i + 1 /\ i + (k - i) - 1 = k - 1
          /\ i + (k - i) = k
      BY <1>1, <2>2
    <3>1. (left \o after)[k] = after[k - i] BY <1>7, <3>2
    <3>3. after[k - i] = s[i + (k - i) - 1] BY <1>3, <3>2
    <3> QED BY <1>1, <2>2, <3>1, <3>2, <3>3
  <2>3. k <= i \/ k > i BY <1>1
  <2> QED BY <2>1, <2>2, <2>3
<1> QED BY <1>5, <1>7, <1>8

\* The elements of t are elements of s in the order of s, some of them missing,
\* some of them repeated on the spot.
Follows(t, s) ==
  \E g \in [1 .. Len(t) -> 1 .. Len(s)] :
    \A i, k \in 1 .. Len(t) : t[i] = s[g[i]] /\ (i <= k => g[i] <= g[k])

\* Removing or repeating a packet does that ...
LEMMA RemoveAtFollows ==
  ASSUME NEW T, NEW s \in Seq(T), NEW i \in 1 .. Len(s)
  PROVE  Follows(RemoveAt(s, i), s)
<1> DEFINE t == RemoveAt(s, i)
           g == [k \in 1 .. Len(s) - 1 |-> IF k < i THEN k ELSE k + 1]
<1>1. Len(s) \in Nat
  BY LenProperties
<1>2. Len(t) = Len(s) - 1 /\ \A k \in 1 .. Len(s) - 1 : t[k] = IF k < i THEN s[k] ELSE s[k + 1]
  BY RemoveAtIs
<1>3. /\ g \in [1 .. Len(s) - 1 -> 1 .. Len(s)]
      /\ \A k, l \in 1 .. Len(s) - 1 : k <= l => g[k] <= g[l]
  BY <1>1
<1>4. \A k \in 1 .. Len(s) - 1 : t[k] = s[g[k]]
  BY <1>2
<1> HIDE DEF t, g
<1>5. Follows(t, s)
  BY <1>2, <1>3, <1>4 DEF Follows
<1> QED BY <1>5 DEF t

\* Repeating one of its packets does too.
LEMMA RepeatFollows ==
  ASSUME NEW T, NEW s \in Seq(T), NEW i \in 1 .. Len(s)
  PROVE  Follows(Repeat(s, i), s)
<1> DEFINE t == Repeat(s, i)
           g == [k \in 1 .. Len(s) + 1 |-> IF k <= i THEN k ELSE k - 1]
<1>1. Len(s) \in Nat
  BY LenProperties
<1>2. Len(t) = Len(s) + 1 /\ \A k \in 1 .. Len(s) + 1 : t[k] = IF k <= i THEN s[k] ELSE s[k - 1]
  BY RepeatIs
<1>3. /\ g \in [1 .. Len(s) + 1 -> 1 .. Len(s)]
      /\ \A k, l \in 1 .. Len(s) + 1 : k <= l => g[k] <= g[l]
  BY <1>1
<1>4. \A k \in 1 .. Len(s) + 1 : t[k] = s[g[k]]
  BY <1>2
<1> HIDE DEF t, g
<1>5. Follows(t, s)
  BY <1>2, <1>3, <1>4 DEF Follows
<1> QED BY <1>5 DEF t

\* ... which brings no new packets.
LEMMA FollowsRange ==
  ASSUME NEW T, NEW s \in Seq(T), NEW t \in Seq(T), Follows(t, s)
  PROVE  Range(t) \subseteq Range(s)
  BY LenProperties DEF Follows, Range

\* The packets on a link: its places, its first place, one more, and more.
LEMMA RangeIs ==
  ASSUME NEW T, NEW s \in Seq(T)
  PROVE  /\ \A m : m \in Range(s) <=> \E i \in 1 .. Len(s) : m = s[i]
         /\ Range(s) \subseteq T
  BY LenProperties, ElementOfSeq DEF Range

\* One packet more.
LEMMA RangeAppend ==
  ASSUME NEW T, NEW s \in Seq(T), NEW m \in T
  PROVE  Range(Append(s, m)) = Range(s) \cup {m}
<1> DEFINE u == Append(s, m)
<1>1. /\ u \in Seq(T) /\ Len(u) = Len(s) + 1 /\ Len(s) \in Nat
      /\ \A i \in 1 .. Len(s) : u[i] = s[i]
      /\ u[Len(s) + 1] = m
  BY AppendProperties, LenProperties
<1> HIDE DEF u
<1>2. \A x : x \in Range(s) <=> \E i \in 1 .. Len(s) : x = s[i]
  BY RangeIs
<1>3. \A x : x \in Range(u) <=> \E i \in 1 .. Len(s) + 1 : x = u[i]
  <2>1. u \in Seq(T) /\ Len(u) = Len(s) + 1 BY <1>1
  <2>2. \A x : x \in Range(u) <=> \E i \in 1 .. Len(u) : x = u[i] BY <2>1, RangeIs
  <2> QED BY <2>1, <2>2
<1>4. /\ \A i \in 1 .. Len(s) + 1 : i \in 1 .. Len(s) \/ i = Len(s) + 1
      /\ \A i \in 1 .. Len(s) : i \in 1 .. Len(s) + 1
      /\ Len(s) + 1 \in 1 .. Len(s) + 1
  BY <1>1
<1>5. \A x \in Range(u) : x \in Range(s) \cup {m}
  BY <1>1, <1>2, <1>3, <1>4
<1>6. \A x \in Range(s) \cup {m} : x \in Range(u)
  BY <1>1, <1>2, <1>3, <1>4
<1> QED BY <1>5, <1>6 DEF u

\* Several packets more.
LEMMA RangeConcat ==
  ASSUME NEW T, NEW s \in Seq(T), NEW t \in Seq(T)
  PROVE  Range(s \o t) = Range(s) \cup Range(t)
<1> DEFINE u == s \o t
<1>1. /\ u \in Seq(T) /\ Len(u) = Len(s) + Len(t)
      /\ \A k \in 1 .. Len(s) : u[k] = s[k]
      /\ \A k \in 1 .. Len(t) : u[Len(s) + k] = t[k]
  BY ConcatIs
<1>2. Len(s) \in Nat /\ Len(t) \in Nat
  BY LenProperties
<1> HIDE DEF u
<1>3. /\ \A x : x \in Range(s) <=> \E i \in 1 .. Len(s) : x = s[i]
      /\ \A x : x \in Range(t) <=> \E i \in 1 .. Len(t) : x = t[i]
  BY RangeIs
<1>4. \A x : x \in Range(u) <=> \E i \in 1 .. Len(s) + Len(t) : x = u[i]
  <2>1. u \in Seq(T) /\ Len(u) = Len(s) + Len(t) BY <1>1
  <2>2. \A x : x \in Range(u) <=> \E i \in 1 .. Len(u) : x = u[i] BY <2>1, RangeIs
  <2> QED BY <2>1, <2>2
<1>5. ASSUME NEW x \in Range(u) PROVE x \in Range(s) \cup Range(t)
  <2>1. PICK i \in 1 .. Len(s) + Len(t) : x = u[i] BY <1>4
  <2>2. CASE i \in 1 .. Len(s) BY <1>1, <1>3, <2>1, <2>2
  <2>3. CASE i \notin 1 .. Len(s)
    <3>1. i - Len(s) \in 1 .. Len(t) /\ Len(s) + (i - Len(s)) = i BY <1>2, <2>3
    <3>2. u[i] = t[i - Len(s)] BY <1>1, <3>1
    <3> QED BY <1>3, <2>1, <3>1, <3>2
  <2> QED BY <2>2, <2>3
<1>6. ASSUME NEW x \in Range(s) PROVE x \in Range(u)
  <2>1. PICK i \in 1 .. Len(s) : x = s[i] BY <1>3
  <2>2. i \in 1 .. Len(s) + Len(t) BY <1>2
  <2>3. x = u[i] BY <1>1, <2>1
  <2> QED BY <1>4, <2>2, <2>3
<1>7. ASSUME NEW x \in Range(t) PROVE x \in Range(u)
  <2>1. PICK i \in 1 .. Len(t) : x = t[i] BY <1>3
  <2>2. Len(s) + i \in 1 .. Len(s) + Len(t) BY <1>2
  <2>3. x = u[Len(s) + i] BY <1>1, <2>1
  <2> QED BY <1>4, <2>2, <2>3
<1>8. Range(u) = Range(s) \cup Range(t)
  BY <1>5, <1>6, <1>7
<1> QED BY <1>8 DEF u

-----------------------------------------------------------------------------
(* The order on the link to the receiver. *)

\* Packets that are lost or duplicated do not change how transfers end, ...
LEMMA EndsFollow ==
  ASSUME NEW T, NEW s \in Seq(T), NEW t \in Seq(T), Follows(t, s),
         NEW tx, NEW there, NEW sending, EndsOnce(s, tx, there, sending)
  PROVE  EndsOnce(t, tx, there, sending)
<1>1. PICK g \in [1 .. Len(t) -> 1 .. Len(s)] :
        \A i, k \in 1 .. Len(t) : t[i] = s[g[i]] /\ (i <= k => g[i] <= g[k])
  BY DEF Follows
<1>2. Len(s) \in Nat /\ Len(t) \in Nat
  BY LenProperties
<1>3. ASSUME NEW i \in 1 .. Len(t), NEW k \in 1 .. Len(t), i < k, t[i] # t[k]
      PROVE  g[i] < g[k]
  <2>1. g[i] <= g[k] /\ g[i] # g[k] BY <1>1, <1>2, <1>3
  <2> QED BY <2>1
<1>4. ASSUME NEW i \in 1 .. Len(t), EndsAt(t, i, tx, there)
      PROVE  EndsAt(s, g[i], tx, there)
  <2>1. CASE Cancels(t[i], tx) BY <1>1, <2>1 DEF EndsAt
  <2>2. CASE LeavesOut(t[i], tx) /\ there BY <1>1, <2>2 DEF EndsAt
  <2>3. ASSUME LeavesOut(t[i], tx), NEW h \in 1 .. i - 1, Lists(t[h], tx)
        PROVE  EndsAt(s, g[i], tx, there)
    <3>1. h \in 1 .. Len(t) /\ h < i /\ t[h] # t[i]
      BY <1>2, <2>3 DEF Lists, LeavesOut
    <3>2. g[h] < g[i] /\ g[h] \in 1 .. Len(s)
      BY <1>3, <3>1
    <3>3. g[h] \in 1 .. g[i] - 1 BY <3>2
    <3> QED BY <1>1, <2>3, <3>1, <3>3 DEF EndsAt
  <2> QED BY <1>4, <2>1, <2>2, <2>3 DEF EndsAt
<1>5. ASSUME NEW i \in 1 .. Len(t), EndsAt(t, i, tx, there), NEW k \in i + 1 .. Len(t)
      PROVE  ~Lists(t[k], tx)
  <2>1. SUFFICES ASSUME Lists(t[k], tx) PROVE FALSE OBVIOUS
  <2>2. k \in 1 .. Len(t) /\ i < k /\ t[i] # t[k]
    BY <1>2, <1>5, <2>1 DEF EndsAt, Cancels, LeavesOut, Lists
  <2>3. g[i] < g[k] /\ g[k] \in 1 .. Len(s) /\ g[i] \in 1 .. Len(s) BY <1>3, <2>2
  <2>4. g[k] \in g[i] + 1 .. Len(s) BY <2>3
  <2>5. EndsAt(s, g[i], tx, there) BY <1>4, <1>5
  <2> QED BY <1>1, <2>1, <2>2, <2>3, <2>4, <2>5 DEF EndsOnce
<1>6. ASSUME NEW i \in 1 .. Len(t), EndsAt(t, i, tx, there) PROVE ~sending
  BY <1>4, <1>6 DEF EndsOnce
<1> QED BY <1>5, <1>6 DEF EndsOnce

\* ... nor do packets sent behind the others, if those that list tx come from a
\* sender that is still sending it and those that end it from one that is not, ...
LEMMA EndsExtend ==
  ASSUME NEW T, NEW s \in Seq(T), NEW t \in Seq(T),
         Len(s) <= Len(t), \A i \in 1 .. Len(s) : t[i] = s[i],
         NEW tx, NEW there, NEW before, NEW after, after => before,
         \A i \in Len(s) + 1 .. Len(t) : /\ Lists(t[i], tx) => after
                                         /\ Cancels(t[i], tx) \/ LeavesOut(t[i], tx) => ~after,
         EndsOnce(s, tx, there, before)
  PROVE  EndsOnce(t, tx, there, after)
<1>1. Len(s) \in Nat /\ Len(t) \in Nat
  BY LenProperties
<1>2. ASSUME NEW i \in 1 .. Len(t), EndsAt(t, i, tx, there) PROVE ~after
  <2>1. CASE i \in Len(s) + 1 .. Len(t) BY <1>2, <2>1 DEF EndsAt
  <2>2. CASE i \in 1 .. Len(s)
    <3>1. \A h \in 1 .. i - 1 : t[h] = s[h] BY <1>1, <2>2
    <3>2. EndsAt(s, i, tx, there) BY <1>2, <2>2, <3>1 DEF EndsAt
    <3> QED BY <2>2, <3>2 DEF EndsOnce
  <2> QED BY <1>1, <2>1, <2>2
<1>3. ASSUME NEW i \in 1 .. Len(t), EndsAt(t, i, tx, there), NEW k \in i + 1 .. Len(t)
      PROVE  ~Lists(t[k], tx)
  <2>1. CASE k \in Len(s) + 1 .. Len(t) BY <1>2, <1>3, <2>1
  <2>2. CASE k \in 1 .. Len(s)
    <3>1. i \in 1 .. Len(s) /\ k \in i + 1 .. Len(s) BY <1>1, <1>3, <2>2
    <3>2. \A h \in 1 .. i - 1 : t[h] = s[h] BY <1>1, <3>1
    <3>3. EndsAt(s, i, tx, there) BY <1>3, <3>1, <3>2 DEF EndsAt
    <3> QED BY <2>2, <3>1, <3>3 DEF EndsOnce
  <2> QED BY <1>1, <1>3, <2>1, <2>2
<1> QED BY <1>2, <1>3 DEF EndsOnce

\* ... nor the first packet arriving, when the receiver knows tx afterwards only
\* if it knew it before or the packet lists it.
LEMMA EndsArrive ==
  ASSUME NEW T, NEW s \in Seq(T), 1 \in 1 .. Len(s),
         NEW tx, NEW before, NEW after, NEW sending,
         after => before \/ Lists(s[1], tx),
         EndsOnce(s, tx, before, sending)
  PROVE  EndsOnce(RemoveAt(s, 1), tx, after, sending)
<1> DEFINE t == RemoveAt(s, 1)
<1>1. Len(s) \in Nat
  BY LenProperties
<1>2. Len(t) = Len(s) - 1 /\ \A k \in 1 .. Len(s) - 1 : t[k] = s[k + 1]
  <2>1. Len(t) = Len(s) - 1 /\ \A k \in 1 .. Len(s) - 1 : t[k] = IF k < 1 THEN s[k] ELSE s[k + 1]
    BY RemoveAtIs
  <2>2. \A k \in 1 .. Len(s) - 1 : ~(k < 1) BY <1>1
  <2> HIDE DEF t
  <2> QED BY <2>1, <2>2
<1> HIDE DEF t
<1>3. ASSUME NEW i \in 1 .. Len(s) - 1, EndsAt(t, i, tx, after)
      PROVE  EndsAt(s, i + 1, tx, before) /\ i + 1 \in 1 .. Len(s)
  <2>1. i + 1 \in 1 .. Len(s) /\ t[i] = s[i + 1] /\ 1 \in 1 .. i + 1 - 1 BY <1>1, <1>2
  <2>2. CASE Cancels(t[i], tx) BY <2>1, <2>2 DEF EndsAt
  <2>3. CASE LeavesOut(t[i], tx) /\ after BY <2>1, <2>3 DEF EndsAt
  <2>4. ASSUME LeavesOut(t[i], tx), NEW h \in 1 .. i - 1, Lists(t[h], tx)
        PROVE  EndsAt(s, i + 1, tx, before)
    <3>1. h + 1 \in 1 .. i + 1 - 1 /\ t[h] = s[h + 1] BY <1>1, <1>2
    <3> QED BY <2>1, <2>4, <3>1 DEF EndsAt
  <2> QED BY <1>3, <2>1, <2>2, <2>3, <2>4 DEF EndsAt
<1>4. ASSUME NEW i \in 1 .. Len(t), EndsAt(t, i, tx, after) PROVE ~sending
  BY <1>2, <1>3, <1>4 DEF EndsOnce
<1>5. ASSUME NEW i \in 1 .. Len(t), EndsAt(t, i, tx, after), NEW k \in i + 1 .. Len(t)
      PROVE  ~Lists(t[k], tx)
  <2>1. k + 1 \in (i + 1) + 1 .. Len(s) /\ t[k] = s[k + 1] BY <1>1, <1>2
  <2>2. EndsAt(s, i + 1, tx, before) /\ i + 1 \in 1 .. Len(s) BY <1>2, <1>3, <1>5
  <2> QED BY <2>1, <2>2 DEF EndsOnce
<1> QED BY <1>4, <1>5 DEF EndsOnce, t

\* A transfer the receiver knows that ends with the first packet is not sent any
\* more, and no packet behind lists it.
LEMMA EndsForGood ==
  ASSUME NEW T, NEW s \in Seq(T), 1 \in 1 .. Len(s), NEW tx, NEW sending,
         EndsOnce(s, tx, TRUE, sending), Cancels(s[1], tx) \/ LeavesOut(s[1], tx)
  PROVE  ~sending /\ \A m \in Range(RemoveAt(s, 1)) : ~Lists(m, tx)
<1>1. Len(s) \in Nat
  BY LenProperties
<1>2. /\ RemoveAt(s, 1) \in Seq(T) /\ Len(RemoveAt(s, 1)) = Len(s) - 1
      /\ \A k \in 1 .. Len(s) - 1 : RemoveAt(s, 1)[k] = IF k < 1 THEN s[k] ELSE s[k + 1]
  BY RemoveAtIs
<1>3. ~sending /\ \A k \in 1 + 1 .. Len(s) : ~Lists(s[k], tx)
  <2>1. EndsAt(s, 1, tx, TRUE) BY DEF EndsAt
  <2> QED BY <2>1 DEF EndsOnce
<1>4. \A k \in 1 .. Len(s) - 1 : k + 1 \in 1 + 1 .. Len(s) /\ ~(k < 1)
  BY <1>1
<1>5. \A k \in 1 .. Len(s) - 1 : ~Lists(RemoveAt(s, 1)[k], tx)
  BY <1>2, <1>3, <1>4
<1>6. \A m \in Range(RemoveAt(s, 1)) : \E k \in 1 .. Len(s) - 1 : m = RemoveAt(s, 1)[k]
  BY <1>2, RangeIs
<1> QED BY <1>3, <1>5, <1>6

-----------------------------------------------------------------------------
(* The receiver's list of blocks. *)

\* What a list covers are blocks.
LEMMA CoveredBlock ==
  ASSUME NEW R \in SUBSET Run, NEW n \in Int, Covered(R, n)
  PROVE  n \in Block /\ n \in Position
<1>1. PICK c \in R : c.lo <= n /\ n <= c.hi
  BY DEF Covered
<1>2. c.lo \in Nat /\ c.hi \in Nat /\ c.hi <= MaxBlock - 1
  BY MaxBlockAssumption DEF Run, Block
<1> QED BY <1>1, <1>2, MaxBlockAssumption DEF Block, Position

\* The bounds of a range of blocks.
LEMMA RunFacts ==
  ASSUME NEW c \in Run
  PROVE  c.lo \in Nat /\ c.hi \in Nat /\ c.lo < MaxBlock /\ c.hi < MaxBlock
  BY MaxBlockAssumption DEF Run, Block

NoneEmpty(R) == \A c \in R : c.lo <= c.hi

\* A range grows by a block next to it, and by nothing else.
LEMMA GrownCovers ==
  ASSUME NEW c \in Run, NEW b \in Nat, c.lo <= c.hi, b <= c.hi + 1, c.lo <= b + 1
  PROVE  /\ Grown(c, b).lo \in Nat /\ Grown(c, b).hi \in Nat /\ Grown(c, b).lo <= Grown(c, b).hi
         /\ Grown(c, b).lo <= c.lo /\ c.hi <= Grown(c, b).hi
         /\ \A n \in Int : Grown(c, b).lo <= n /\ n <= Grown(c, b).hi
                             <=> (c.lo <= n /\ n <= c.hi) \/ n = b
<1>1. c.lo \in Nat /\ c.hi \in Nat
  BY RunFacts
<1>2. /\ Grown(c, b).lo = IF b + 1 = c.lo THEN b ELSE c.lo
      /\ Grown(c, b).hi = IF b = c.hi + 1 THEN b ELSE c.hi
  BY DEF Grown
<1> QED BY <1>1, <1>2

\* The ranges at which the walk of a block stops.
Near(R, b) == { c \in R : b <= c.hi + 1 }
First(R, b) == { c \in Near(R, b) : \A other \in Near(R, b) : c.lo <= other.lo }

\* The ranges at which it stops start at one place.
LEMMA FirstFacts ==
  ASSUME NEW R \in SUBSET Run, NEW b \in Block
  PROVE  /\ First(R, b) \subseteq R
         /\ \A c \in First(R, b) : c.lo \in Nat /\ c.hi \in Nat /\ b <= c.hi + 1
         /\ \A c, d \in First(R, b) : c.lo = d.lo
<1>1. \A c \in First(R, b) : c.lo \in Nat /\ c.hi \in Nat /\ b <= c.hi + 1 /\ c \in R
  BY RunFacts DEF First, Near
<1>2. \A c, d \in First(R, b) : c.lo <= d.lo
  BY DEF First
<1> QED BY <1>1, <1>2

\* Either the ranges there grow by the block, or the block becomes a range.
LEMMA AbsorbIs ==
  ASSUME NEW R \in SUBSET Run, NEW b \in Block, NoneEmpty(R)
  PROVE  \/ /\ First(R, b) # {} /\ \A c \in First(R, b) : c.lo <= b + 1
            /\ Absorb(R, b) = (R \ First(R, b)) \cup { Grown(c, b) : c \in First(R, b) }
         \/ /\ \A c \in First(R, b) : b + 1 < c.lo
            /\ Absorb(R, b) = R \cup {[lo |-> b, hi |-> b]}
<1>1. b \in Nat
  BY MaxBlockAssumption DEF Block
<1>2. Absorb(R, b) = (R \ First(R, b)) \cup { Grown(c, b) : c \in First(R, b) }
        \cup { r \in {[lo |-> b, hi |-> b]} : \A c \in First(R, b) : b + 1 < c.lo }
  BY DEF Absorb, First, Near
<1>3. /\ First(R, b) \subseteq R
      /\ \A c \in First(R, b) : c.lo \in Nat /\ c.hi \in Nat
      /\ \A c, d \in First(R, b) : c.lo = d.lo
  BY FirstFacts
<1>4. CASE \A c \in First(R, b) : b + 1 < c.lo
  <2>1. ASSUME NEW c \in First(R, b) PROVE Grown(c, b) = c
    <3>1. c = [lo |-> c.lo, hi |-> c.hi] BY <1>3 DEF Run
    <3>2. b + 1 < c.lo /\ c.lo <= c.hi BY <1>3, <1>4 DEF NoneEmpty
    <3>3. b + 1 # c.lo /\ b # c.hi + 1 BY <1>1, <1>3, <3>2
    <3> QED BY <3>1, <3>3 DEF Grown
  <2> QED BY <1>2, <1>3, <1>4, <2>1
<1>5. CASE ~(\A c \in First(R, b) : b + 1 < c.lo)
  <2>1. PICK d \in First(R, b) : ~(b + 1 < d.lo) BY <1>5
  <2>2. \A c \in First(R, b) : c.lo <= b + 1 BY <1>1, <1>3, <2>1
  <2> QED BY <1>2, <1>5, <2>1, <2>2
<1> QED BY <1>4, <1>5

\* A block that is taken in is covered, with what was covered before.
LEMMA AbsorbCovers ==
  ASSUME NEW R \in SUBSET Run, NEW b \in Block, NoneEmpty(R)
  PROVE  /\ NoneEmpty(Absorb(R, b))
         /\ \A n \in Int : Covered(Absorb(R, b), n) <=> Covered(R, n) \/ n = b
<1>1. b \in Nat
  BY MaxBlockAssumption DEF Block
<1>2. CASE /\ First(R, b) # {} /\ \A c \in First(R, b) : c.lo <= b + 1
           /\ Absorb(R, b) = (R \ First(R, b)) \cup { Grown(c, b) : c \in First(R, b) }
  <2>1. ASSUME NEW c \in First(R, b)
        PROVE  /\ c \in R /\ Grown(c, b).lo <= Grown(c, b).hi
               /\ \A n \in Int : Grown(c, b).lo <= n /\ n <= Grown(c, b).hi
                                   <=> (c.lo <= n /\ n <= c.hi) \/ n = b
    BY <1>1, <1>2, FirstFacts, GrownCovers DEF NoneEmpty
  <2>2. NoneEmpty(Absorb(R, b))
    BY <1>2, <2>1 DEF NoneEmpty
  <2>3. ASSUME NEW n \in Int, Covered(Absorb(R, b), n) PROVE Covered(R, n) \/ n = b
    BY <1>2, <2>1, <2>3 DEF Covered
  <2>4. ASSUME NEW n \in Int, Covered(R, n) PROVE Covered(Absorb(R, b), n)
    <3>1. PICK c \in R : c.lo <= n /\ n <= c.hi BY <2>4 DEF Covered
    <3>2. CASE c \in First(R, b)
      <4>1. Grown(c, b) \in Absorb(R, b) BY <1>2, <3>2
      <4> QED BY <2>1, <3>1, <3>2, <4>1 DEF Covered
    <3>3. CASE c \notin First(R, b) BY <1>2, <3>1, <3>3 DEF Covered
    <3> QED BY <3>2, <3>3
  <2>5. Covered(Absorb(R, b), b)
    <3>1. PICK c \in First(R, b) : TRUE BY <1>2
    <3>2. Grown(c, b) \in Absorb(R, b) /\ b \in Int BY <1>1, <1>2
    <3> QED BY <2>1, <3>2 DEF Covered
  <2> QED BY <2>2, <2>3, <2>4, <2>5
<1>3. CASE Absorb(R, b) = R \cup {[lo |-> b, hi |-> b]}
  <2>1. NoneEmpty(Absorb(R, b)) BY <1>1, <1>3 DEF NoneEmpty
  <2>2. \A n \in Int : Covered(Absorb(R, b), n) <=> Covered(R, n) \/ Covered({[lo |-> b, hi |-> b]}, n)
    BY <1>3 DEF Covered
  <2>3. \A n \in Int : Covered({[lo |-> b, hi |-> b]}, n) <=> n = b
    BY <1>1 DEF Covered
  <2> QED BY <2>1, <2>2, <2>3
<1> QED BY <1>2, <1>3, AbsorbIs

\* So it adds that block to the positions covered, and no other.
LEMMA AbsorbPositions ==
  ASSUME NEW R \in SUBSET Run, NEW b \in Block, NoneEmpty(R)
  PROVE  NoneEmpty(Absorb(R, b)) /\ Positions(Absorb(R, b)) = Positions(R) \cup {b}
<1>1. b \in Position /\ Position \subseteq Int
  BY MaxBlockAssumption DEF Block, Position
<1>2. NoneEmpty(Absorb(R, b)) /\ \A n \in Int : Covered(Absorb(R, b), n) <=> Covered(R, n) \/ n = b
  BY AbsorbCovers
<1>3. \A n : n \in Positions(Absorb(R, b)) <=> n \in Positions(R) \/ n = b
  BY <1>1, <1>2 DEF Positions
<1> QED BY <1>2, <1>3

\* Merging keeps what is covered ...
LEMMA MergedPositions ==
  ASSUME NEW R \in SUBSET Run
  PROVE  Positions(Merged(R)) = Positions(R) /\ NoneEmpty(Merged(R))
<1>1. \A h \in Merged(R) : h.lo \in Nat /\ h.hi \in Nat /\ h.lo <= h.hi
  BY MergedRuns, RunFacts DEF Merged
<1>2. ASSUME NEW n \in Position, Covered(Merged(R), n) PROVE Covered(R, n)
  <2>1. PICK h \in Merged(R) : h.lo <= n /\ n <= h.hi
    BY <1>2 DEF Covered
  <2>2. n \in h.lo .. h.hi
    BY <1>1, <2>1, MaxBlockAssumption DEF Position
  <2> QED BY <2>2 DEF Merged
<1>3. ASSUME NEW n \in Position, Covered(R, n) PROVE Covered(Merged(R), n)
  <2>1. n \in Nat /\ n < MaxBlock
    BY <1>3, CoveredBlock, MaxBlockAssumption DEF Position, Block
  <2>2. ~Covered(R, MaxBlock)
    BY CoveredBlock, MaxBlockAssumption DEF Block
  <2> DEFINE starts == { l \in Nat : l <= n /\ \A m \in l .. n : Covered(R, m) }
             ends == { k \in Nat : n < k /\ ~Covered(R, k) }
             lo == Min(starts)
             end == Min(ends)
  <2>3. lo \in starts /\ \A x \in starts : lo <= x
    <3>1. n \in starts BY <1>3, <2>1
    <3>2. starts # {} /\ starts \subseteq Nat BY <3>1
    <3> HIDE DEF starts
    <3> QED BY <3>2, MinOfNat
  <2>4. MaxBlock \in ends
    BY <2>1, <2>2, MaxBlockAssumption
  <2>5. end \in ends /\ \A x \in ends : end <= x
    <3>1. ends # {} /\ ends \subseteq Nat BY <2>4
    <3> HIDE DEF ends
    <3> QED BY <3>1, MinOfNat
  <2>6. /\ lo \in Nat /\ lo <= n /\ end \in Nat /\ n < end /\ end <= MaxBlock
        /\ ~Covered(R, end) /\ \A m \in lo .. n : Covered(R, m)
    BY <2>3, <2>4, <2>5
  <2>7. ASSUME NEW m \in lo .. end - 1 PROVE Covered(R, m)
    <3>1. CASE m <= n BY <2>1, <2>6, <3>1
    <3>2. CASE m > n
      <4>1. m \in Nat /\ ~(end <= m) BY <2>1, <2>6, <3>2
      <4> QED BY <2>5, <3>2, <4>1
    <3> QED BY <2>1, <2>6, <3>1, <3>2
  <2>8. ~Covered(R, lo - 1)
    <3>1. CASE lo = 0
      <4>1. lo - 1 = -1 BY <3>1
      <4> QED BY <4>1, CoveredBlock, MaxBlockAssumption DEF Position
    <3>2. CASE lo # 0
      <4>1. SUFFICES ASSUME Covered(R, lo - 1) PROVE FALSE OBVIOUS
      <4>2. \A m \in lo - 1 .. n : m = lo - 1 \/ m \in lo .. n BY <2>1, <2>6
      <4>3. lo - 1 \in starts BY <2>1, <2>6, <3>2, <4>1, <4>2
      <4>4. lo <= lo - 1 BY <2>3, <4>3
      <4> QED BY <2>6, <4>4
    <3> QED BY <3>1, <3>2
  <2> HIDE DEF lo, end, starts, ends
  <2>9. [lo |-> lo, hi |-> end - 1] \in Merged(R)
    <3>1. [lo |-> lo, hi |-> end - 1] \in Chunk
      BY <2>1, <2>6, MaxBlockAssumption DEF Chunk, Position
    <3>2. lo <= end - 1 /\ end - 1 + 1 = end BY <2>1, <2>6
    <3> QED BY <2>6, <2>7, <2>8, <3>1, <3>2 DEF Merged
  <2>10. lo <= n /\ n <= end - 1 BY <2>1, <2>6
  <2> QED BY <2>9, <2>10 DEF Covered
<1>4. NoneEmpty(Merged(R))
  BY DEF NoneEmpty, Merged
<1> QED BY <1>2, <1>3, <1>4 DEF Positions

\* ... and leaves a gap between any two ranges.
LEMMA MergedSpaced == ASSUME NEW R \in SUBSET Run PROVE Spaced(Merged(R))
<1>1. \A h \in Merged(R) : h.lo \in Nat /\ h.hi \in Nat /\ h.lo <= h.hi
  BY MergedRuns, RunFacts DEF Merged
<1>2. ASSUME NEW h \in Merged(R), NEW k \in Merged(R), h.lo < k.lo
      PROVE  h.hi + 1 < k.lo
  <2>1. SUFFICES ASSUME k.lo <= h.hi + 1 PROVE FALSE
    BY <1>1
  <2>2. k.lo - 1 \in h.lo .. h.hi
    BY <1>1, <1>2, <2>1
  <2>3. Covered(R, k.lo - 1)
    BY <2>2 DEF Merged
  <2> QED BY <2>3 DEF Merged
<1>3. ASSUME NEW h \in Merged(R), NEW k \in Merged(R), h.lo = k.lo, h.hi < k.hi
      PROVE  FALSE
  <2>1. h.hi + 1 \in k.lo .. k.hi
    BY <1>1, <1>3
  <2>2. Covered(R, h.hi + 1)
    BY <2>1 DEF Merged
  <2> QED BY <2>2 DEF Merged
<1>4. \A h, k \in Merged(R) : h.lo = k.lo => h = k
  <2>1. \A h \in Merged(R) : h = [lo |-> h.lo, hi |-> h.hi]
    BY DEF Merged, Chunk
  <2>2. \A h, k \in Merged(R) : h.lo = k.lo => h.hi = k.hi
    BY <1>1, <1>3
  <2> QED BY <2>1, <2>2
<1>5. \A h, k \in Merged(R) : h.lo < k.lo \/ k.lo < h.lo \/ h.lo = k.lo
  BY <1>1
<1> QED BY <1>2, <1>4, <1>5 DEF Spaced

\* Nothing is covered by an empty list.
LEMMA NothingCovered == Positions({}) = {} /\ Merged({}) = {} /\ Count({}) = 0
<1>1. \A n : ~Covered({}, n)
  BY DEF Covered
<1>2. Positions({}) = {}
  BY <1>1 DEF Positions
<1>3. ASSUME NEW h \in Merged({}) PROVE FALSE
  <2>1. h.lo \in Nat /\ h.hi \in Nat /\ h.lo <= h.hi /\ \A n \in h.lo .. h.hi : Covered({}, n)
    BY MaxBlockAssumption DEF Merged, Chunk, Position
  <2>2. h.lo \in h.lo .. h.hi BY <2>1
  <2> QED BY <1>1, <2>1, <2>2
<1> QED BY <1>2, <1>3, FS_EmptySet DEF Count

-----------------------------------------------------------------------------
(* What a step may do on the sender's side: to the slots, ...                *)

\* t begins with s.
Extends(t, s) == Len(s) <= Len(t) /\ \A i \in 1 .. Len(s) : t[i] = s[i]

\* An occupied slot stays as it is, sends the first block of its list, or takes in a
\* range that is asked for ...
SlotGoesOn(tx) ==
  /\ tx \in OutIds /\ out'[tx].file = out[tx].file /\ out'[tx].size = out[tx].size
  /\ \/ out'[tx].pending = out[tx].pending
     \/ out[tx].pending # <<>> /\ out'[tx].pending = FirstSent(out[tx].pending, 1)
     \/ \E m \in Range(toSender) :
          /\ AsksFor(m, tx) /\ m.hole.lo <= m.hole.hi
          /\ out'[tx].pending = InsertHole(out[tx].pending, m.hole)

\* ... and an id that nothing speaks of is taken for a file that is there.
SlotBegins(tx) ==
  /\ Unused(tx) /\ UNCHANGED disk
  /\ out'[tx].file \in Files /\ disk[out'[tx].file].there
  /\ 0 < out'[tx].size /\ out'[tx].size = disk[out'[tx].file].len /\ out'[tx].pending = <<>>

\* ... to the link, ...
SlotSends(m, tx) ==
  \/ m = Cancel(tx) /\ tx \notin OutIds'
  \/ m = Meta(tx, out[tx].file, out[tx].size)
  \/ /\ out[tx].pending # <<>>
     /\ m = Data(tx, out[tx].file, out[tx].pending[1].lo)

\* What the sender sends: a QUEUE packet that lists the occupied slots, or a
\* packet of one of them.
SenderSends(m) ==
  \/ m = Queue(OutIds) /\ OutIds' = OutIds
  \/ \E tx \in OutIds : SlotSends(m, tx)

LinkGrows ==
  \/ Follows(toReceiver', toReceiver)
  \/ /\ Extends(toReceiver', toReceiver)
     /\ \A i \in Len(toReceiver) + 1 .. Len(toReceiver') : SenderSends(toReceiver'[i])

\* ... and, when a slot is freed, to the file on disk: it is removed, unless that
\* fails; if its transfer was neither complete nor hopeless, it is spoilt.
FreesFile(tx) ==
  /\ tx \in OutIds /\ tx \notin OutIds'
  /\ UNCHANGED disk \/ disk' = [disk EXCEPT ![out[tx].file].there = FALSE]
  /\ \/ /\ UNCHANGED user
        /\ \/ \E m \in Range(toSender) : Announces(m, tx)
           \/ out[tx].pending # <<>> /\ ~(CanOpen(out[tx]) /\ CanRead(out[tx]))
     \/ user' = [user EXCEPT ![out[tx].file] = "failed"]

\* A step of the sender, of the links, or of the timers.
SenderStep ==
  /\ UNCHANGED <<in, temp, incoming, senderKnown>>
  /\ \A tx \in OutIds' : SlotGoesOn(tx) \/ SlotBegins(tx)
  /\ LinkGrows
  /\ \A m \in Range(toSender') : m \in Range(toSender) \/ m.type = "PEERQUEUE"
  /\ UNCHANGED <<disk, user>> \/ \E tx \in OutIds : FreesFile(tx)

-----------------------------------------------------------------------------
(* Such steps keep the order on the link and what is known of each transfer.  *)

\* The packets on the link after a step of the sender.
LEMMA SenderLink ==
  ASSUME TypeOK, TypeOK', SenderStep
  PROVE  \A m \in Range(toReceiver') : m \in Range(toReceiver) \/ SenderSends(m)
<1>1. toReceiver \in Seq(ToReceiver) /\ toReceiver' \in Seq(ToReceiver)
  BY DEF TypeOK, LinkTypeOK
<1>2. CASE Follows(toReceiver', toReceiver)
  BY <1>1, <1>2, FollowsRange
<1>3. CASE /\ Extends(toReceiver', toReceiver)
           /\ \A i \in Len(toReceiver) + 1 .. Len(toReceiver') : SenderSends(toReceiver'[i])
  <2> SUFFICES ASSUME NEW m \in Range(toReceiver') PROVE m \in Range(toReceiver) \/ SenderSends(m)
    OBVIOUS
  <2>1. PICK i \in 1 .. Len(toReceiver') : m = toReceiver'[i]
    BY <1>1, RangeIs
  <2>2. Len(toReceiver) \in Nat /\ Len(toReceiver') \in Nat
    BY <1>1, LenProperties
  <2>3. CASE i \in 1 .. Len(toReceiver)
    <3>1. m = toReceiver[i] BY <1>3, <2>1, <2>3 DEF Extends
    <3> QED BY <1>1, <2>3, <3>1, RangeIs
  <2>4. CASE i \in Len(toReceiver) + 1 .. Len(toReceiver')
    BY <1>3, <2>1, <2>4
  <2> QED BY <2>2, <2>3, <2>4
<1> QED BY <1>2, <1>3 DEF SenderStep, LinkGrows

\* What a packet speaks of is in a slot when it is sent.
LEMMA SentIsUsed ==
  ASSUME NEW m, NEW tx, SenderSends(m),
         Lists(m, tx) \/ Describes(m, tx) \/ Carries(m, tx) \/ Cancels(m, tx)
  PROVE  tx \in OutIds
<1>1. CASE m = Queue(OutIds)
  BY <1>1 DEF Queue, Lists, Describes, Carries, Cancels
<1>2. ASSUME NEW u \in OutIds, SlotSends(m, u)
      PROVE  tx \in OutIds
  BY <1>2 DEF SlotSends, Cancel, Meta, Data, Lists, Describes, Carries, Cancels
<1> QED BY <1>1, <1>2 DEF SenderSends

\* The order on the link stays.
LEMMA SenderKeepsEnds ==
  ASSUME TypeOK, TypeOK', LinkEnds, SenderStep
  PROVE  LinkEnds'
<1> SUFFICES ASSUME NEW tx \in Ids
             PROVE  EndsOnce(toReceiver', tx, tx \in InIds', tx \in OutIds')
  BY DEF LinkEnds
<1>1. /\ toReceiver \in Seq(ToReceiver) /\ toReceiver' \in Seq(ToReceiver)
      /\ EndsOnce(toReceiver, tx, tx \in InIds, tx \in OutIds) /\ InIds' = InIds
  BY DEF TypeOK, LinkTypeOK, LinkEnds, InIds, SenderStep
<1>2. CASE tx \in OutIds' /\ tx \notin OutIds
  <2>1. Unused(tx)
    BY <1>2 DEF SenderStep, SlotGoesOn, SlotBegins
  <2>2. \A m \in Range(toReceiver') : ~Cancels(m, tx) /\ ~Lists(m, tx)
    BY <2>1, SentIsUsed, SenderLink DEF Unused
  <2>3. \A i \in 1 .. Len(toReceiver') : ~Cancels(toReceiver'[i], tx) /\ ~Lists(toReceiver'[i], tx)
    BY <1>1, <2>2, RangeIs
  <2>4. ASSUME NEW i \in 1 .. Len(toReceiver'), NEW h \in 1 .. i - 1
        PROVE  ~Lists(toReceiver'[h], tx)
    <3>1. Len(toReceiver') \in Nat BY <1>1, LenProperties
    <3>2. h \in 1 .. Len(toReceiver') BY <3>1
    <3> QED BY <2>3, <3>2
  <2>5. tx \notin InIds'
    BY <1>1, <2>1 DEF Unused
  <2>6. \A i \in 1 .. Len(toReceiver') : ~EndsAt(toReceiver', i, tx, tx \in InIds')
    BY <2>3, <2>4, <2>5 DEF EndsAt
  <2> QED BY <2>6 DEF EndsOnce
<1>3. CASE tx \in OutIds' => tx \in OutIds
  <2>1. CASE Follows(toReceiver', toReceiver)
    <3>1. EndsOnce(toReceiver', tx, tx \in InIds, tx \in OutIds)
      BY <1>1, <2>1, EndsFollow
    <3> QED BY <1>1, <1>3, <3>1 DEF EndsOnce
  <2>2. CASE /\ Extends(toReceiver', toReceiver)
             /\ \A i \in Len(toReceiver) + 1 .. Len(toReceiver') : SenderSends(toReceiver'[i])
    <3>1. ASSUME NEW i \in Len(toReceiver) + 1 .. Len(toReceiver')
          PROVE  LET m == toReceiver'[i]
                 IN  /\ Lists(m, tx) => tx \in OutIds'
                     /\ Cancels(m, tx) \/ LeavesOut(m, tx) => tx \notin OutIds'
      <4> DEFINE m == toReceiver'[i]
      <4>1. SenderSends(m) BY <2>2
      <4> HIDE DEF m
      <4>2. ASSUME m = Queue(OutIds), OutIds' = OutIds
            PROVE  ~Cancels(m, tx) /\ (Lists(m, tx) => tx \in OutIds')
                   /\ (LeavesOut(m, tx) => tx \notin OutIds')
        BY <4>2 DEF Queue, Lists, Cancels, LeavesOut
      <4>3. ASSUME NEW u \in OutIds, SlotSends(m, u)
            PROVE  ~Lists(m, tx) /\ ~LeavesOut(m, tx) /\ (Cancels(m, tx) => tx \notin OutIds')
        BY <4>3 DEF SlotSends, Cancel, Meta, Data, Lists, Cancels, LeavesOut
      <4>4. /\ Lists(m, tx) => tx \in OutIds'
            /\ Cancels(m, tx) \/ LeavesOut(m, tx) => tx \notin OutIds'
        BY <4>1, <4>2, <4>3 DEF SenderSends
      <4> QED BY <4>4 DEF m
    <3>2. Len(toReceiver) <= Len(toReceiver')
          /\ \A i \in 1 .. Len(toReceiver) : toReceiver'[i] = toReceiver[i]
      BY <2>2 DEF Extends
    <3>3. EndsOnce(toReceiver', tx, tx \in InIds, tx \in OutIds')
      <4> DEFINE s == toReceiver
                 t == toReceiver'
                 there == tx \in InIds
                 before == tx \in OutIds
                 after == tx \in OutIds'
      <4>1. /\ s \in Seq(ToReceiver) /\ t \in Seq(ToReceiver) /\ Len(s) <= Len(t)
            /\ \A i \in 1 .. Len(s) : t[i] = s[i]
            /\ after => before
            /\ \A i \in Len(s) + 1 .. Len(t) : /\ Lists(t[i], tx) => after
                                               /\ Cancels(t[i], tx) \/ LeavesOut(t[i], tx) => ~after
            /\ EndsOnce(s, tx, there, before)
        BY <1>1, <1>3, <3>1, <3>2
      <4> HIDE DEF s, t, there, before, after
      <4>2. EndsOnce(t, tx, there, after) BY <4>1, EndsExtend
      <4> QED BY <4>2 DEF t, there, after
    <3> QED BY <1>1, <3>3
  <2> QED BY <2>1, <2>2 DEF SenderStep, LinkGrows
<1> QED BY <1>2, <1>3

\* A transfer that is over stays so until its id is taken again.
LEMMA SenderKeepsOver ==
  ASSUME TypeOK, TypeOK', SenderStep, NEW tx \in Ids, Over(tx)
  PROVE  Over(tx)' \/ Unused(tx)
<1>1. CASE tx \notin OutIds'
  <2>1. tx \notin InIds'
    BY DEF Over, InIds, SenderStep
  <2>2. \A m \in Range(toReceiver') : ~Lists(m, tx)
    BY SenderLink, SentIsUsed DEF Over
  <2> QED BY <1>1, <2>1, <2>2 DEF Over
<1>2. CASE tx \in OutIds'
  BY <1>2 DEF Over, SenderStep, SlotGoesOn, SlotBegins
<1> QED BY <1>1, <1>2

\* Blocks still follow the meta data.
LEMMA SenderKeepsMeta ==
  ASSUME TypeOK, TypeOK', DataFollowsMeta, SenderStep
  PROVE  DataFollowsMeta'
<1> SUFFICES ASSUME NEW tx \in Ids PROVE Unasked(tx)' \/ Described(tx)' \/ Over(tx)'
  BY DEF DataFollowsMeta
<1>1. \A m \in Range(toReceiver') : m \in Range(toReceiver) \/ SenderSends(m)
  BY SenderLink
<1>2. CASE Unasked(tx)
  <2>1. ASSUME NEW m, SenderSends(m), Carries(m, tx) PROVE FALSE
    <3>1. PICK u \in OutIds : SlotSends(m, u)
      BY <2>1 DEF SenderSends, Queue, Carries
    <3>2. u = tx /\ out[u].pending # <<>>
      BY <2>1, <3>1 DEF SlotSends, Cancel, Meta, Data, Carries
    <3> QED BY <1>2, <3>2 DEF Unasked
  <2>2. \A m \in Range(toReceiver') : ~Carries(m, tx)
    BY <1>1, <1>2, <2>1 DEF Unasked
  <2>3. \A m \in Range(toSender') : ~AsksFor(m, tx)
    BY <1>2 DEF Unasked, SenderStep, AsksFor
  <2>4. tx \in OutIds' => out'[tx].pending = <<>>
    <3>1. tx \in OutIds' => SlotGoesOn(tx) \/ SlotBegins(tx) BY DEF SenderStep
    <3>2. SlotGoesOn(tx) => out'[tx].pending = <<>> BY <1>2 DEF SlotGoesOn, Unasked
    <3>3. SlotBegins(tx) => out'[tx].pending = <<>> BY DEF SlotBegins
    <3> QED BY <3>1, <3>2, <3>3
  <2> QED BY <2>2, <2>3, <2>4 DEF Unasked
<1>3. CASE Described(tx)
  BY <1>3 DEF Described, InIds, SenderStep
<1>4. CASE Unused(tx)
  BY <1>2, <1>4 DEF Unused, Unasked
<1>5. CASE Over(tx)
  BY <1>4, <1>5, SenderKeepsOver
<1> QED BY <1>2, <1>3, <1>5 DEF DataFollowsMeta

\* What fits still does when more is spoilt.
LEMMA MoreSpoilt ==
  ASSUME NEW entries, NEW stored, NEW some, TablesFit(entries, stored, some), NEW more,
         some \subseteq more
  PROVE  TablesFit(entries, stored, more)
  BY DEF TablesFit, ListFits

\* A step of the sender spoils the file of a slot at most.
LEMMA SenderSpoils ==
  ASSUME TypeOK, SenderStep
  PROVE  /\ FailedFiles \subseteq FailedFiles'
         /\ \A f \in Files : \/ user'[f] = user[f]
                             \/ user'[f] = "failed" /\ \E tx \in OutIds : out[tx].file = f
<1>1. \A f \in Files : \/ user'[f] = user[f]
                       \/ user'[f] = "failed" /\ \E tx \in OutIds : out[tx].file = f
  <2>1. CASE UNCHANGED user
    BY <2>1
  <2>2. ASSUME NEW tx \in OutIds, user' = [user EXCEPT ![out[tx].file] = "failed"], NEW f \in Files
        PROVE  user'[f] = user[f] \/ (user'[f] = "failed" /\ out[tx].file = f)
    BY <2>2 DEF TypeOK, LinkTypeOK
  <2> QED BY <2>1, <2>2 DEF SenderStep, FreesFile
<1> QED BY <1>1 DEF FailedFiles, Failed

\* A step of the sender leaves the receiver's tables alone.
LEMMA SenderKeepsIds ==
  ASSUME TypeOK, TypeOK', ListsRight, SenderStep PROVE ListsRight'
<1>1. ListsFit'
  <2>1. TablesFit(in', temp', FailedFiles)
    BY DEF ListsRight, ListsFit, SenderStep
  <2> QED BY <2>1, MoreSpoilt, SenderSpoils DEF ListsFit
<1>2. Leftovers'
  BY SenderKeepsOver DEF ListsRight, Leftovers, Unused, SenderStep, InIds
<1> QED BY <1>1, <1>2, SenderKeepsEnds, SenderKeepsMeta DEF ListsRight

-----------------------------------------------------------------------------
(* What the receiver's table keeps when transfers are announced and holes are *)
(* asked for.                                                                 *)

KeepsEntries(entries, stored) ==
  \A tx \in Ids :
    /\ in'[tx] = NoTx <=> entries[tx] = NoTx
    /\ entries[tx] # NoTx =>
         /\ in'[tx].havemeta = entries[tx].havemeta
         /\ in'[tx].file = entries[tx].file /\ in'[tx].size = entries[tx].size
    /\ temp'[tx] \subseteq stored[tx]

\* A transfer is announced: its entry is marked, its temporary file may be moved.
LEMMA FinishKeeps ==
  ASSUME NEW entries \in Entries, NEW stored \in Stores,
         NEW tx \in Ids, entries[tx] # NoTx, entries[tx].havemeta,
         NEW broken, Finish(entries, stored, tx, broken), NEW spoilt
  PROVE  /\ KeepsEntries(entries, stored)
         /\ TablesFit(entries, stored, spoilt) => TablesFit(in', temp', spoilt)
<1> DEFINE r == entries[tx]
           done == Found(r)
<1>1. r \in InTx
  BY DEF Entries
<1>2. /\ done \in InTx /\ done.havemeta = r.havemeta /\ done.file = r.file /\ done.size = r.size
      /\ done.got = r.got /\ done.complete
  BY <1>1 DEF InTx, Found
<1>3. in' = [entries EXCEPT ![tx] = done]
  BY DEF Finish
<1>4. done # NoTx
  BY <1>2, NoTxAssumption
<1> HIDE DEF done
<1>5. in'[tx] = done /\ \A u \in Ids \ {tx} : in'[u] = entries[u]
  BY <1>3 DEF Entries
<1>6. /\ \A u \in Ids \ {tx} : temp'[u] = stored[u]
      /\ temp'[tx] \subseteq stored[tx]
  <2>1. temp' = [stored EXCEPT ![tx] = {}] \/ temp' = stored
    BY DEF Finish
  <2> QED BY <2>1 DEF Stores
<1>7. KeepsEntries(entries, stored)
  BY <1>2, <1>4, <1>5, <1>6 DEF KeepsEntries
<1>8. ASSUME TablesFit(entries, stored, spoilt) PROVE TablesFit(in', temp', spoilt)
  <2>1. ListFits(r, stored[tx], spoilt) BY <1>8 DEF TablesFit
  <2>2. ListFits(done, temp'[tx], spoilt) BY <1>2, <2>1 DEF ListFits
  <2> QED BY <1>4, <1>5, <1>6, <1>8, <2>2 DEF TablesFit
<1> QED BY <1>7, <1>8

\* An entry whose list is merged and counted.
LEMMA RecountedIs ==
  ASSUME NEW entries \in Entries, NEW tx \in Ids, entries[tx] # NoTx
  PROVE  LET r == entries[tx]
             now == Recounted(entries)[tx]
         IN  /\ now # NoTx /\ now \in InTx
             /\ now.havemeta = r.havemeta /\ now.file = r.file /\ now.size = r.size
             /\ now.complete = r.complete /\ now.open = r.open
             /\ now.got = Merged(r.got) /\ now.total = Count(r.got)
<1> DEFINE r == entries[tx]
           now == [r EXCEPT !.got = Merged(@), !.total = Count(r.got)]
<1>1. r \in InTx
  BY DEF Entries
<1>2. Recounted(entries)[tx] = now
  BY DEF Recounted
<1>3. /\ now.havemeta = r.havemeta /\ now.file = r.file /\ now.size = r.size
      /\ now.complete = r.complete /\ now.open = r.open
      /\ now.got = Merged(r.got) /\ now.total = Count(r.got)
  BY <1>1 DEF InTx
<1>4. Recounted(entries)[tx] \in InTx /\ Recounted(entries)[tx] # NoTx
  BY RecountedType DEF Entries
<1> HIDE DEF now
<1> QED BY <1>2, <1>3, <1>4

\* Merging and counting the lists keeps what they cover.
LEMMA RecountedFits ==
  ASSUME NEW entries \in Entries, NEW stored, NEW spoilt, TablesFit(entries, stored, spoilt)
  PROVE  TablesFit(Recounted(entries), stored, spoilt)
<1> DEFINE now == Recounted(entries)
<1>1. \A tx \in Ids : entries[tx] = NoTx => now[tx] = NoTx
  BY DEF Recounted
<1>2. ASSUME NEW tx \in Ids, entries[tx] # NoTx
      PROVE  now[tx] # NoTx /\ ListFits(now[tx], stored[tx], spoilt)
  <2> DEFINE r == entries[tx]
             n == now[tx]
  <2>1. /\ n # NoTx /\ n.havemeta = r.havemeta /\ n.complete = r.complete /\ n.open = r.open
        /\ n.got = Merged(r.got) /\ n.file = r.file
    BY <1>2, RecountedIs
  <2>2. r.got \in SUBSET Run
    BY <1>2 DEF Entries, InTx
  <2>3. Positions(n.got) = Positions(r.got) /\ NoneEmpty(n.got) /\ (r.got = {} => n.got = {})
    BY <2>1, <2>2, MergedPositions, NothingCovered
  <2>4. ListFits(r, stored[tx], spoilt)
    BY <1>2 DEF TablesFit
  <2> HIDE DEF r, n
  <2>5. n # NoTx /\ ListFits(n, stored[tx], spoilt)
    BY <2>1, <2>3, <2>4 DEF ListFits, NoneEmpty
  <2> QED BY <2>5 DEF n
<1> HIDE DEF now
<1>3. TablesFit(now, stored, spoilt)
  BY <1>1, <1>2 DEF TablesFit
<1> QED BY <1>3 DEF now

\* What next_incoming_tx keeps, and what it sends.
NextAnswers(entries, replies) ==
  \A a \in Range(toSender') :
    a \in Range(toSender) \/ a \in Range(replies)
    \/ \E tx \in Ids : /\ AsksFor(a, tx) \/ Announces(a, tx)
                       /\ entries[tx] # NoTx /\ entries[tx].havemeta

\* It keeps the table but for merging, completing and moving, and sends besides the
\* replies only what is about transfers that have meta data.
LEMMA NextKeeps ==
  ASSUME toSender \in Seq(ToSender), NEW entries \in Entries, NEW stored \in Stores, NEW known,
         NEW replies \in Seq(ToSender), NEW broken,
         NextIncoming(entries, stored, known, replies, broken), NEW spoilt
  PROVE  /\ KeepsEntries(entries, stored)
         /\ TablesFit(entries, stored, spoilt) => TablesFit(in', temp', spoilt)
         /\ NextAnswers(entries, replies)
<1> DEFINE now == Recounted(entries)
<1>1. now \in Entries /\ (TablesFit(entries, stored, spoilt) => TablesFit(now, stored, spoilt))
  BY RecountedType, RecountedFits
<1>2. ASSUME NEW tx \in Ids
      PROVE  /\ now[tx] = NoTx <=> entries[tx] = NoTx
             /\ entries[tx] # NoTx =>
                  /\ now[tx].havemeta = entries[tx].havemeta
                  /\ now[tx].file = entries[tx].file /\ now[tx].size = entries[tx].size
  <2>1. CASE entries[tx] = NoTx BY <2>1 DEF Recounted
  <2>2. CASE entries[tx] # NoTx BY <2>2, RecountedIs
  <2> QED BY <2>1, <2>2
<1>3. \A tx \in Chosen(now) : tx \in Ids /\ now[tx] # NoTx /\ now[tx].havemeta
  BY DEF Chosen
<1>4. Range(toSender \o replies) = Range(toSender) \cup Range(replies)
      /\ toSender \o replies \in Seq(ToSender)
  BY RangeConcat, ConcatProperties
<1> HIDE DEF now
<1>5. KeepsEntries(now, stored) => KeepsEntries(entries, stored)
  BY <1>2 DEF KeepsEntries
<1>6. CASE in' = now /\ temp' = stored /\ toSender' = toSender \o replies
  <2>1. KeepsEntries(now, stored) BY <1>6 DEF KeepsEntries
  <2> QED BY <1>1, <1>4, <1>5, <1>6, <2>1 DEF NextAnswers
<1>7. ASSUME NEW tx \in Chosen(now), Finish(now, stored, tx, broken),
             toSender' = toSender \o Append(replies, Complete(tx))
      PROVE  /\ KeepsEntries(entries, stored)
             /\ TablesFit(entries, stored, spoilt) => TablesFit(in', temp', spoilt)
             /\ NextAnswers(entries, replies)
  <2>1. tx \in Ids /\ now[tx] # NoTx /\ now[tx].havemeta
    BY <1>3
  <2>2. /\ KeepsEntries(now, stored)
        /\ TablesFit(now, stored, spoilt) => TablesFit(in', temp', spoilt)
    BY <1>1, <1>7, <2>1, FinishKeeps
  <2>3. Complete(tx) \in ToSender
    BY <2>1, ToSenderType
  <2>4. Range(Append(replies, Complete(tx))) = Range(replies) \cup {Complete(tx)}
        /\ Append(replies, Complete(tx)) \in Seq(ToSender)
    BY <2>3, RangeAppend, AppendProperties
  <2>5. Range(toSender') = Range(toSender) \cup Range(replies) \cup {Complete(tx)}
    <3> DEFINE more == Append(replies, Complete(tx))
    <3> HIDE DEF more
    <3>1. more \in Seq(ToSender) /\ Range(more) = Range(replies) \cup {Complete(tx)}
      BY <2>4 DEF more
    <3>2. toSender' = toSender \o more
      BY <1>7 DEF more
    <3>3. Range(toSender \o more) = Range(toSender) \cup Range(more)
      BY <3>1, RangeConcat
    <3> QED BY <3>1, <3>2, <3>3
  <2>6. Announces(Complete(tx), tx) /\ entries[tx] # NoTx /\ entries[tx].havemeta
    BY <1>2, <2>1 DEF Announces, Complete
  <2>7. NextAnswers(entries, replies)
    BY <2>1, <2>5, <2>6 DEF NextAnswers
  <2> QED BY <1>1, <1>5, <2>2, <2>7
<1>8. ASSUME NEW tx \in Chosen(now), NEW holes, holes = Holes(Positions(now[tx].got), now[tx].size),
             NEW s \in Ascending(holes),
             toSender' = toSender \o replies \o
                           [k \in 1 .. Cardinality(holes) |-> ReqData(tx, s[k])],
             in' = now, temp' = stored
      PROVE  /\ KeepsEntries(entries, stored)
             /\ TablesFit(entries, stored, spoilt) => TablesFit(in', temp', spoilt)
             /\ NextAnswers(entries, replies)
  <2> DEFINE asks == [k \in 1 .. Cardinality(holes) |-> ReqData(tx, s[k])]
  <2>1. tx \in Ids /\ now[tx] \in InTx /\ now[tx] # NoTx /\ now[tx].havemeta
    BY <1>1, <1>3 DEF Entries
  <2>2. holes \subseteq Chunk
    BY <1>8, <2>1, PositionsType, HolesType DEF InTx, Block
  <2>3. s \in [1 .. Cardinality(holes) -> holes] /\ Cardinality(holes) \in Nat
    BY <2>2, AscendingType, ChunksFinite
  <2>4. asks \in [1 .. Cardinality(holes) -> ToSender]
    BY <2>1, <2>2, <2>3, ToSenderType
  <2>5. \A k \in 1 .. Cardinality(holes) : AsksFor(asks[k], tx)
    BY DEF AsksFor, ReqData
  <2> HIDE DEF asks
  <2>6. asks \in Seq(ToSender) /\ Len(asks) = Cardinality(holes)
    BY <2>3, <2>4, FunctionIsSeq, LenProperties
  <2>7. \A a \in Range(asks) : AsksFor(a, tx)
    BY <2>5, <2>6, RangeIs
  <2>8. Range(toSender') = Range(toSender) \cup Range(replies) \cup Range(asks)
    <3> DEFINE before == toSender \o replies
    <3>1. before \in Seq(ToSender) /\ Range(before) = Range(toSender) \cup Range(replies)
      BY <1>4
    <3>2. toSender' = before \o asks
      BY <1>8 DEF asks
    <3> HIDE DEF before
    <3>3. Range(before \o asks) = Range(before) \cup Range(asks)
      BY <2>6, <3>1, RangeConcat
    <3> QED BY <3>1, <3>2, <3>3
  <2>9. entries[tx] # NoTx /\ entries[tx].havemeta
    BY <1>2, <2>1
  <2>10. NextAnswers(entries, replies)
    BY <2>1, <2>7, <2>8, <2>9 DEF NextAnswers
  <2>11. KeepsEntries(now, stored) BY <1>8 DEF KeepsEntries
  <2> QED BY <1>1, <1>5, <1>8, <2>10, <2>11
<1> QED BY <1>6, <1>7, <1>8 DEF NextIncoming, now

-----------------------------------------------------------------------------
(* What a step may do on the receiver's side, with the first packet m of the  *)
(* link: to the entries and the temporary files, ...                          *)

TablesFollow(m, entries, stored, known) ==
  /\ \A tx \in Ids : entries[tx] # NoTx =>
       /\ tx \in InIds \/ (Lists(m, tx) /\ known)
       /\ entries[tx].havemeta =>
            \/ Described(tx) /\ entries[tx].file = in[tx].file
            \/ Describes(m, tx) /\ entries[tx].file = m.file
  /\ \A tx \in InIds : /\ entries[tx] = NoTx => Cancels(m, tx) \/ LeavesOut(m, tx)
                       /\ entries[tx] # NoTx /\ in[tx].havemeta => entries[tx].havemeta
  /\ \A tx \in Ids : \A p \in stored[tx] :
       p \in temp[tx] \/ (Carries(m, tx) /\ tx \in InIds /\ p[2] = m.file)

EntriesFollow(m) == TablesFollow(m, in', temp', senderKnown')

\* Announcing transfers and asking for holes does not change that.
LEMMA KeptFollows ==
  ASSUME NEW m, NEW entries, NEW stored, NEW known,
         TablesFollow(m, entries, stored, known), KeepsEntries(entries, stored)
  PROVE  TablesFollow(m, in', temp', known)
<1>1. ASSUME NEW tx \in Ids, in'[tx] # NoTx
      PROVE  /\ tx \in InIds \/ (Lists(m, tx) /\ known)
             /\ in'[tx].havemeta =>
                  \/ Described(tx) /\ in'[tx].file = in[tx].file
                  \/ Describes(m, tx) /\ in'[tx].file = m.file
  BY <1>1 DEF TablesFollow, KeepsEntries
<1>2. ASSUME NEW tx \in InIds
      PROVE  /\ in'[tx] = NoTx => Cancels(m, tx) \/ LeavesOut(m, tx)
             /\ in'[tx] # NoTx /\ in[tx].havemeta => in'[tx].havemeta
  BY <1>2 DEF TablesFollow, KeepsEntries, InIds
<1>3. ASSUME NEW tx \in Ids, NEW p \in temp'[tx]
      PROVE  p \in temp[tx] \/ (Carries(m, tx) /\ tx \in InIds /\ p[2] = m.file)
  BY <1>3 DEF TablesFollow, KeepsEntries
<1> QED BY <1>1, <1>2, <1>3 DEF TablesFollow

\* ... and in answer.
Answers(a) ==
  a.type = "REQMETA" \/ \E tx \in Ids : (AsksFor(a, tx) \/ Announces(a, tx)) /\ Described(tx)'

\* A failure spoils files of the transfers it knows.
Spoils ==
  \A f \in Files : user'[f] = user[f] \/ (user'[f] = "failed" /\ \E tx \in Ids : f \in FilesOf(tx))

\* A step of the receiver.
ReceiverStep ==
  /\ UNCHANGED <<disk, out, nextId>> /\ Spoils /\ (senderKnown => senderKnown')
  /\ 1 \in 1 .. Len(toReceiver) /\ toReceiver' = RemoveAt(toReceiver, 1)
  /\ EntriesFollow(toReceiver[1])
  /\ \A a \in Range(toSender') : a \in Range(toSender) \/ Answers(a)

\* The packets on the link after it.
LEMMA ReceiverLink ==
  ASSUME TypeOK, ReceiverStep
  PROVE  Range(toReceiver') \subseteq Range(toReceiver) /\ toReceiver[1] \in Range(toReceiver)
<1>1. toReceiver \in Seq(ToReceiver) /\ 1 \in 1 .. Len(toReceiver)
  BY DEF TypeOK, LinkTypeOK, ReceiverStep
<1>2. toReceiver' \in Seq(ToReceiver) /\ Follows(toReceiver', toReceiver)
  BY <1>1, RemoveAtFollows, RemoveAtType DEF ReceiverStep
<1> QED BY <1>1, <1>2, FollowsRange, RangeIs

\* Once the receiver has the packet the others are in the order they were in.
LEMMA ReceiverKeepsEnds ==
  ASSUME TypeOK, LinkEnds, ReceiverStep PROVE LinkEnds'
<1> SUFFICES ASSUME NEW tx \in Ids
             PROVE  EndsOnce(toReceiver', tx, tx \in InIds', tx \in OutIds')
  BY DEF LinkEnds
<1> DEFINE s == toReceiver
           before == tx \in InIds
           after == tx \in InIds'
           sending == tx \in OutIds
<1>1. /\ s \in Seq(ToReceiver) /\ 1 \in 1 .. Len(s) /\ toReceiver' = RemoveAt(s, 1)
      /\ EndsOnce(s, tx, before, sending)
      /\ OutIds' = OutIds
  BY DEF TypeOK, LinkTypeOK, ReceiverStep, LinkEnds, OutIds
<1>2. after => before \/ Lists(s[1], tx)
  BY DEF ReceiverStep, EntriesFollow, TablesFollow, InIds
<1>3. EndsOnce(RemoveAt(s, 1), tx, after, sending)
  <2> HIDE DEF s, before, after, sending
  <2> QED BY <1>1, <1>2, EndsArrive
<1>4. EndsOnce(toReceiver', tx, tx \in InIds', tx \in OutIds)
  BY <1>1, <1>3 DEF s
<1> QED BY <1>1, <1>4

\* A transfer the receiver drops is over, ...
LEMMA DroppedIsOver ==
  ASSUME TypeOK, LinkEnds, ReceiverStep, NEW tx \in InIds, tx \notin InIds' PROVE Over(tx)'
<1>1. UNCHANGED out /\ OutIds' = OutIds
  BY DEF ReceiverStep, OutIds
<1>2. Cancels(toReceiver[1], tx) \/ LeavesOut(toReceiver[1], tx)
  BY DEF ReceiverStep, EntriesFollow, TablesFollow, InIds
<1>3. toReceiver \in Seq(ToReceiver) /\ 1 \in 1 .. Len(toReceiver)
      /\ toReceiver' = RemoveAt(toReceiver, 1)
  BY DEF TypeOK, LinkTypeOK, ReceiverStep
<1>4. EndsOnce(toReceiver, tx, TRUE, tx \in OutIds)
  BY DEF LinkEnds, EndsOnce, EndsAt, InIds
<1>5. tx \notin OutIds /\ \A m \in Range(RemoveAt(toReceiver, 1)) : ~Lists(m, tx)
  <2> DEFINE sending == tx \in OutIds
  <2>1. EndsOnce(toReceiver, tx, TRUE, sending) BY <1>4
  <2> HIDE DEF sending
  <2>2. ~sending /\ \A m \in Range(RemoveAt(toReceiver, 1)) : ~Lists(m, tx)
    BY <1>2, <1>3, <2>1, EndsForGood
  <2> QED BY <2>2 DEF sending
<1> QED BY <1>1, <1>3, <1>5 DEF Over

\* ... and stays so.
LEMMA ReceiverKeepsOver ==
  ASSUME TypeOK, ReceiverStep, NEW tx \in Ids, Over(tx) PROVE Over(tx)'
<1>1. Range(toReceiver') \subseteq Range(toReceiver) /\ toReceiver[1] \in Range(toReceiver)
  BY ReceiverLink
<1>2. tx \notin InIds'
  BY <1>1 DEF Over, ReceiverStep, EntriesFollow, TablesFollow, InIds
<1>3. tx \notin OutIds'
  BY DEF Over, ReceiverStep, OutIds
<1> QED BY <1>1, <1>2, <1>3 DEF Over

\* So blocks still follow the meta data.
LEMMA ReceiverKeepsMeta ==
  ASSUME TypeOK, LinkEnds, DataFollowsMeta, ReceiverStep PROVE DataFollowsMeta'
<1> SUFFICES ASSUME NEW tx \in Ids PROVE Unasked(tx)' \/ Described(tx)' \/ Over(tx)'
  BY DEF DataFollowsMeta
<1>1. Range(toReceiver') \subseteq Range(toReceiver) /\ toReceiver[1] \in Range(toReceiver)
  BY ReceiverLink
<1>2. UNCHANGED <<out, nextId>> /\ OutIds' = OutIds
  BY DEF ReceiverStep, OutIds
<1>3. CASE Unasked(tx) /\ ~Described(tx)'
  <2>1. ASSUME NEW m \in Range(toSender'), AsksFor(m, tx) PROVE FALSE
    <3>1. Answers(m)
      BY <1>3, <2>1 DEF ReceiverStep, Unasked
    <3> QED BY <1>3, <2>1, <3>1 DEF Answers, AsksFor, Announces
  <2> QED BY <1>1, <1>2, <1>3, <2>1 DEF Unasked
<1>4. CASE Described(tx) /\ ~Described(tx)'
  <2>1. tx \in InIds /\ tx \notin InIds'
    BY <1>4 DEF Described, ReceiverStep, EntriesFollow, TablesFollow, InIds
  <2> QED BY <2>1, DroppedIsOver
<1>5. CASE Over(tx)
  BY <1>5, ReceiverKeepsOver
<1> QED BY <1>3, <1>4, <1>5 DEF DataFollowsMeta

\* What a step of the receiver keeps.
LEMMA ReceiverKeepsIds ==
  ASSUME TypeOK, ListsRight, ReceiverStep, ListsFit' PROVE ListsRight'
<1>1. ASSUME NEW tx \in Ids, tx \notin InIds' PROVE temp'[tx] = {} \/ Over(tx)'
  <2>1. CASE tx \in InIds
    BY <1>1, <2>1, DroppedIsOver DEF ListsRight
  <2>2. CASE tx \notin InIds /\ temp[tx] = {}
    BY <2>2 DEF ReceiverStep, EntriesFollow, TablesFollow
  <2>3. CASE Over(tx)
    BY <2>3, ReceiverKeepsOver
  <2> QED BY <2>1, <2>2, <2>3 DEF ListsRight, Leftovers
<1>2. Leftovers'
  BY <1>1 DEF Leftovers
<1> QED BY <1>2, ReceiverKeepsEnds, ReceiverKeepsMeta DEF ListsRight

-----------------------------------------------------------------------------
(* The receiver's handlers are such steps, on links that keep their order. *)

\* What is common to them.
LEMMA TakesFirst ==
  ASSUME TypeOK, Ordered, NEW i \in Arrivals(toReceiver), NEW type, ReceiverTakes(i, type)
  PROVE  /\ i = 1 /\ 1 \in 1 .. Len(toReceiver) /\ toReceiver' = RemoveAt(toReceiver, 1)
         /\ toReceiver[1] \in ToReceiver /\ toReceiver[1] \in Range(toReceiver)
         /\ toReceiver[1].type = type
         /\ UNCHANGED <<disk, out, nextId>>
<1>1. toReceiver \in Seq(ToReceiver)
  BY DEF TypeOK, LinkTypeOK
<1>2. i = 1 /\ i \in 1 .. Len(toReceiver) /\ toReceiver[i] \in ToReceiver
  BY <1>1, ArrivalsInDomain DEF Arrivals
<1> QED BY <1>1, <1>2, RangeIs DEF ReceiverTakes, senderVars

\* METADATA.
LEMMA ReceiveMetaStep ==
  ASSUME TypeOK, Ordered, ListsRight, ReceiveMeta PROVE ReceiverStep /\ ListsFit'
<1>1. PICK i \in Arrivals(toReceiver) : ReceiverTakes(i, "METADATA") /\ HandleMeta(toReceiver[i])
  BY DEF ReceiveMeta
<1> DEFINE m == toReceiver[1]
           r == [in[m.tx] EXCEPT !.havemeta = TRUE, !.file = m.file, !.size = m.size,
                                 !.total = 0, !.open = FALSE]
<1>2. /\ i = 1 /\ 1 \in 1 .. Len(toReceiver) /\ toReceiver' = RemoveAt(toReceiver, 1)
      /\ m \in ToReceiver /\ m.type = "METADATA"
      /\ UNCHANGED <<disk, out, nextId>>
  BY <1>1, TakesFirst
<1>3. m.tx \in Ids /\ m.file \in Files /\ m.size \in Position /\ Describes(m, m.tx)
  BY <1>2, ToReceiverFields DEF Describes
<1>4. UNCHANGED <<temp, senderKnown, toSender>> /\ Spoils /\ FailedFiles' = FailedFiles
  <2> HIDE DEF r
  <2>1. \A f \in Files : user'[f] = user[f]
    BY <1>1, <1>2 DEF HandleMeta, Suffer, fates
  <2> QED BY <1>1, <2>1 DEF HandleMeta, Spoils, FailedFiles, Failed
<1>5. in \in Entries
  BY DEF TypeOK, ReceiverTypeOK, Entries
<1>6. CASE m.tx \in InIds /\ ~in[m.tx].havemeta
  <2>1. in' = [in EXCEPT ![m.tx] = r]
    BY <1>1, <1>2, <1>6 DEF HandleMeta
  <2>2. in[m.tx] \in InTx
    BY <1>5, <1>6 DEF InIds, Entries
  <2>3. r \in InTx /\ r.havemeta /\ r.file = m.file /\ r.got = in[m.tx].got
        /\ r.complete = in[m.tx].complete
    BY <1>3, <2>2 DEF InTx
  <2>4. r # NoTx
    BY <2>3, NoTxAssumption
  <2> HIDE DEF r
  <2>5. in'[m.tx] = r /\ \A tx \in Ids \ {m.tx} : in'[tx] = in[tx]
    BY <1>3, <1>5, <2>1 DEF Entries
  <2>6. InIds' = InIds
    BY <1>6, <2>4, <2>5 DEF InIds
  <2>7. EntriesFollow(m)
    <3>1. \A tx \in InIds' : tx \in InIds
      BY <2>6
    <3>2. ASSUME NEW tx \in InIds', in'[tx].havemeta
          PROVE  \/ Described(tx) /\ in'[tx].file = in[tx].file
                 \/ Describes(m, tx) /\ in'[tx].file = m.file
      BY <1>3, <2>3, <2>5, <2>6, <3>2 DEF Described, InIds
    <3>3. \A tx \in InIds : tx \in InIds' /\ (in[tx].havemeta => in'[tx].havemeta)
      BY <2>3, <2>5, <2>6 DEF InIds
    <3>4. \A tx \in Ids : \A p \in temp'[tx] : p \in temp[tx]
      BY <1>4
    <3> HIDE DEF m
    <3> QED BY <3>1, <3>2, <3>3, <3>4 DEF EntriesFollow, TablesFollow, InIds
  <2>8. ListsFit'
    <3>1. ListFits(in[m.tx], temp[m.tx], FailedFiles) /\ ~in[m.tx].havemeta
      BY <1>3, <1>6 DEF ListsRight, ListsFit, TablesFit, InIds
    <3>2. in[m.tx].file \notin FailedFiles /\ m.file # NoFile
      BY <1>3, <3>1, NoFileAssumption DEF ListFits, FailedFiles
    <3>3. ListFits(r, temp[m.tx], FailedFiles)
      BY <2>3, <3>1, <3>2 DEF ListFits
    <3>4. TablesFit(in', temp, FailedFiles)
      BY <1>3, <2>4, <2>5, <3>3 DEF ListsRight, ListsFit, TablesFit
    <3> QED BY <1>4, <3>4 DEF ListsFit
  <2> QED BY <1>2, <1>4, <2>7, <2>8 DEF ReceiverStep
<1>7. CASE ~(m.tx \in InIds /\ ~in[m.tx].havemeta)
  <2>1. UNCHANGED in
    BY <1>1, <1>2, <1>7 DEF HandleMeta
  <2>2. EntriesFollow(m)
    BY <1>4, <2>1 DEF EntriesFollow, TablesFollow, InIds, Described
  <2>3. ListsFit'
    BY <1>4, <2>1 DEF ListsRight, ListsFit
  <2> QED BY <1>2, <1>4, <2>2, <2>3 DEF ReceiverStep
<1> QED BY <1>6, <1>7

\* The block a DATA packet carries is written where the list says.
LEMMA DataWritten ==
  ASSUME NEW r \in InTx, r.havemeta, NEW content \in SUBSET (Block \X Files), NEW spoilt,
         ListFits(r, content, spoilt), NEW m \in ToReceiver, m.type = "DATA",
         NEW broken, broken # {} => r.file \in spoilt
  PROVE  ListFits(WithData(r, m, broken), WithBlock(r, content, m, broken), spoilt)
<1> DEFINE b == m.block
           w == WithData(r, m, broken)
           after == WithBlock(r, content, m, broken)
<1>1. b \in Block
  BY ToReceiverFields
<1>2. r.got \in SUBSET Run /\ r.total \in Nat
  BY DEF InTx
<1>3. w.got = Absorb(r.got, b) /\ w.havemeta = r.havemeta /\ w.complete = r.complete
      /\ w.file = r.file
  BY DEF WithData, InTx
<1>4. NoneEmpty(w.got) /\ Positions(w.got) = Positions(r.got) \cup {b}
  <2>1. NoneEmpty(r.got) BY DEF ListFits, NoneEmpty
  <2> QED BY <1>1, <1>2, <1>3, <2>1, AbsorbPositions
<1>5. ASSUME ~r.complete, r.file \notin spoilt
      PROVE  Blocks(after) = Positions(r.got) \cup {b} /\ w.open
  <2>1. Blocks(content) = Positions(r.got) /\ (r.open \/ r.got = {}) /\ broken = {}
    BY <1>5 DEF ListFits
  <2>2. w.open /\ after = { p \in Opened(r, content, broken) : p[1] # b } \cup {<<b, m.file>>}
    BY <2>1 DEF WithBlock, Unwritten, WithData, InTx
  <2>3. CASE r.open
    <3>1. after = { p \in content : p[1] # b } \cup {<<b, m.file>>}
      BY <2>2, <2>3 DEF Opened
    <3>2. Blocks(after) = Blocks(content) \cup {b}
      <4>1. ASSUME NEW n \in Blocks(after) PROVE n \in Blocks(content) \cup {b}
        BY <3>1, <4>1 DEF Blocks
      <4>2. b \in Blocks(after)
        <5>1. <<b, m.file>> \in after BY <3>1
        <5> QED BY <5>1 DEF Blocks
      <4>3. ASSUME NEW n \in Blocks(content), n # b PROVE n \in Blocks(after)
        <5>1. PICK p \in content : n = p[1] BY <4>3 DEF Blocks
        <5>2. p \in after BY <3>1, <4>3, <5>1
        <5> QED BY <5>1, <5>2 DEF Blocks
      <4> QED BY <4>1, <4>2, <4>3
    <3> QED BY <2>1, <2>2, <3>2
  <2>4. CASE ~r.open
    <3>1. after = {<<b, m.file>>}
      BY <2>1, <2>2, <2>4 DEF Opened
    <3>2. Blocks(after) = {b}
      BY <3>1 DEF Blocks
    <3>3. r.got = {} BY <2>1, <2>4
    <3> QED BY <2>2, <3>2, <3>3, NothingCovered
  <2> QED BY <2>3, <2>4
<1> HIDE DEF w, after
<1>6. ListFits(w, after, spoilt)
  BY <1>3, <1>4, <1>5 DEF ListFits, NoneEmpty
<1> QED BY <1>6 DEF w, after

\* The end of the DATA handler.
LEMMA AnnounceKeeps ==
  ASSUME toSender \in Seq(ToSender), NEW entries \in Entries, NEW stored \in Stores,
         NEW tx \in Ids, entries[tx] # NoTx,
         NEW broken, Announce(entries, stored, tx, broken), NEW spoilt
  PROVE  /\ KeepsEntries(entries, stored)
         /\ TablesFit(entries, stored, spoilt) => TablesFit(in', temp', spoilt)
         /\ \A a \in Range(toSender') :
              a \in Range(toSender) \/ (Announces(a, tx) /\ entries[tx].havemeta)
<1>1. CASE Finish(entries, stored, tx, broken) /\ toSender' = Append(toSender, Complete(tx))
           /\ IsWhole(entries[tx])
  <2>1. Complete(tx) \in ToSender /\ Announces(Complete(tx), tx) /\ entries[tx].havemeta
    BY <1>1, ToSenderType DEF Announces, Complete, IsWhole
  <2>2. Range(toSender') = Range(toSender) \cup {Complete(tx)}
    BY <1>1, <2>1, RangeAppend
  <2>3. /\ KeepsEntries(entries, stored)
        /\ TablesFit(entries, stored, spoilt) => TablesFit(in', temp', spoilt)
    BY <1>1, <2>1, FinishKeeps
  <2> QED BY <2>1, <2>2, <2>3
<1>2. CASE in' = entries /\ temp' = stored /\ UNCHANGED toSender
  BY <1>2 DEF KeepsEntries
<1> QED BY <1>1, <1>2 DEF Announce

\* What a failure spoils is spoilt from then on.
LEMMA SufferSpoils ==
  ASSUME NEW broken, NEW files, Suffer(broken, files),
         \A f \in Files \cap files : \E tx \in Ids : f \in FilesOf(tx)
  PROVE  Spoils /\ FailedFiles \cup (Files \cap files) \subseteq FailedFiles'
<1>1. \A f \in Files : user'[f] = IF f \in files THEN "failed" ELSE user[f]
  BY DEF Suffer
<1> QED BY <1>1 DEF Spoils, FailedFiles, Failed

\* A packet, or an entry that has the meta data, tells of a file.
LEMMA TellsOfFile ==
  /\ \A m \in Range(toReceiver) :
       m.type = "DATA" /\ m.file \in Files => m.file \in FilesOf(m.tx)
  /\ \A tx \in Ids : Described(tx) /\ in[tx].file \in Files => in[tx].file \in FilesOf(tx)
  BY DEF FilesOf, Carries

\* DATA.
LEMMA ReceiveDataStep ==
  ASSUME TypeOK, Ordered, ListsRight, ReceiveData PROVE ReceiverStep /\ ListsFit'
<1>1. PICK i \in Arrivals(toReceiver) : ReceiverTakes(i, "DATA") /\ HandleData(toReceiver[i])
  BY DEF ReceiveData
<1> DEFINE m == toReceiver[1]
<1>2. /\ i = 1 /\ 1 \in 1 .. Len(toReceiver) /\ toReceiver' = RemoveAt(toReceiver, 1)
      /\ m \in ToReceiver /\ m.type = "DATA" /\ m \in Range(toReceiver)
      /\ UNCHANGED <<disk, out, nextId>>
  BY <1>1, TakesFirst
<1>3. m.tx \in Ids /\ m.file \in Files /\ m.block \in Block /\ Carries(m, m.tx)
  BY <1>2, ToReceiverFields DEF Carries
<1>4. UNCHANGED senderKnown
  BY <1>1 DEF HandleData
<1>5. in \in Entries /\ temp \in Stores /\ toSender \in Seq(ToSender)
      /\ TablesFit(in, temp, FailedFiles)
  BY DEF TypeOK, ReceiverTypeOK, LinkTypeOK, Entries, Stores, ListsRight, ListsFit
<1>6. m.tx \in InIds => Described(m.tx)
  BY <1>2, <1>3 DEF ListsRight, DataFollowsMeta, Unasked, Over
<1>7. TablesFollow(m, in, temp, senderKnown')
  <2> HIDE DEF m
  <2> QED BY DEF TablesFollow, InIds, Described
<1>8. ASSUME NEW e, NEW s, NEW broken, e \in Entries, s \in Stores, Spoils,
             TablesFit(e, s, FailedFiles'),
             TablesFollow(m, e, s, senderKnown'), e[m.tx] # NoTx, Announce(e, s, m.tx, broken)
      PROVE  ReceiverStep /\ ListsFit'
  <2> DEFINE spoilt == FailedFiles'
  <2>1. TablesFit(e, s, spoilt)
    BY <1>8
  <2> HIDE DEF spoilt
  <2>2. /\ KeepsEntries(e, s) /\ TablesFit(in', temp', spoilt)
        /\ \A a \in Range(toSender') :
             a \in Range(toSender) \/ (Announces(a, m.tx) /\ e[m.tx].havemeta)
    BY <1>3, <1>5, <1>8, <2>1, AnnounceKeeps
  <2>3. EntriesFollow(m)
    BY <1>8, <2>2, KeptFollows DEF EntriesFollow
  <2>4. \A tx \in Ids : tx = m.tx /\ e[tx].havemeta => Described(tx)'
    BY <1>3, <1>8, <2>2 DEF KeepsEntries, Described, InIds
  <2>5. \A a \in Range(toSender') : a \in Range(toSender) \/ Answers(a)
    BY <1>3, <2>2, <2>4 DEF Answers
  <2>6. ReceiverStep
    BY <1>2, <1>4, <1>8, <2>3, <2>5 DEF ReceiverStep
  <2> QED BY <2>2, <2>6 DEF ListsFit, spoilt
<1>9. CASE m.tx \notin InIds /\ UNCHANGED <<in, temp, toSender, fates>>
  <2>1. EntriesFollow(m)
    BY <1>7, <1>9 DEF EntriesFollow
  <2>2. Spoils /\ FailedFiles' = FailedFiles
    BY <1>9 DEF Spoils, FailedFiles, Failed, fates
  <2>3. ListsFit'
    BY <1>5, <1>9, <2>2 DEF ListsFit
  <2> QED BY <1>2, <1>4, <1>9, <2>1, <2>2, <2>3 DEF ReceiverStep
<1>10. CASE m.tx \in InIds
  <2> DEFINE hit(broken) == { f \in {m.file, in[m.tx].file} : broken # {} }
             R(broken) == WithData(in[m.tx], m, broken)
             E(broken) == [in EXCEPT ![m.tx] = R(broken)]
             S(broken) == [temp EXCEPT ![m.tx] = WithBlock(in[m.tx], @, m, broken)]
  <2>1. PICK broken \in Failures(Writing(in[m.tx], m) \cup {"rename"}) :
          /\ Suffer(broken, hit(broken))
          /\ \/ Announce(in, temp, m.tx, broken)
             \/ Announce(E(broken), S(broken), m.tx, broken)
    BY <1>1, <1>2, <1>10 DEF HandleData
  <2>2. /\ Described(m.tx) /\ in[m.tx] \in InTx /\ in[m.tx] # NoTx /\ in[m.tx].havemeta
        /\ temp[m.tx] \in SUBSET (Block \X Files) /\ ListFits(in[m.tx], temp[m.tx], FailedFiles)
    BY <1>3, <1>5, <1>6, <1>10 DEF Described, InIds, Entries, Stores, TablesFit
  <2>3. in[m.tx].file \in Files
    BY <2>2 DEF ListFits, InTx
  <2>4. Spoils /\ FailedFiles \subseteq FailedFiles' /\ (broken # {} => in[m.tx].file \in FailedFiles')
    <3>1. \A f \in Files \cap hit(broken) : \E tx \in Ids : f \in FilesOf(tx)
      BY <1>2, <1>3, <2>2, <2>3, TellsOfFile
    <3> HIDE DEF m
    <3>2. Spoils /\ FailedFiles \cup (Files \cap hit(broken)) \subseteq FailedFiles'
      BY <2>1, <3>1, SufferSpoils
    <3> QED BY <2>3, <3>2
  <2> DEFINE spoilt == FailedFiles'
  <2>5. TablesFit(in, temp, spoilt) /\ ListFits(in[m.tx], temp[m.tx], spoilt)
        /\ (broken # {} => in[m.tx].file \in spoilt)
    <3>1. FailedFiles \subseteq spoilt BY <2>4
    <3>2. broken # {} => in[m.tx].file \in spoilt BY <2>4
    <3> HIDE DEF spoilt, m
    <3>3. TablesFit(in, temp, spoilt) BY <1>5, <3>1, MoreSpoilt
    <3> QED BY <1>3, <2>2, <3>2, <3>3 DEF TablesFit, m
  <2>6. CASE Announce(in, temp, m.tx, broken)
    BY <1>5, <1>7, <1>8, <2>2, <2>4, <2>5, <2>6
  <2>7. CASE Announce(E(broken), S(broken), m.tx, broken)
    <3> DEFINE r == R(broken)
               c == WithBlock(in[m.tx], temp[m.tx], m, broken)
               entries == E(broken)
               stored == S(broken)
    <3>1. r \in InTx /\ r # NoTx
      BY <1>3, <2>2, WithDataType, NoTxAssumption
    <3>2. r.havemeta /\ r.file = in[m.tx].file
      BY <2>2 DEF WithData, InTx
    <3>3. ListFits(r, c, spoilt)
      <4> HIDE DEF spoilt
      <4> QED BY <1>2, <2>2, <2>5, DataWritten
    <3>4. c \in SUBSET (Block \X Files) /\ \A p \in c : p \in temp[m.tx] \/ p[2] = m.file
      <4>1. c \in SUBSET (Block \X Files)
        BY <1>3, <2>2, WithBlockType
      <4>2. \A p \in c : p \in temp[m.tx] \/ p[2] = m.file
        BY DEF WithBlock, Opened
      <4> QED BY <4>1, <4>2
    <3>5. entries = [in EXCEPT ![m.tx] = r] /\ stored = [temp EXCEPT ![m.tx] = c]
      OBVIOUS
    <3> HIDE DEF r, c, entries, stored, spoilt
    <3>6. /\ entries \in Entries /\ entries[m.tx] = r
          /\ \A tx \in Ids \ {m.tx} : entries[tx] = in[tx]
      BY <1>3, <1>5, <3>1, <3>5 DEF Entries
    <3>7. /\ stored \in Stores /\ stored[m.tx] = c
          /\ \A tx \in Ids \ {m.tx} : stored[tx] = temp[tx]
      BY <1>3, <1>5, <3>4, <3>5 DEF Stores
    <3>8. TablesFit(entries, stored, spoilt)
      BY <1>3, <2>5, <3>3, <3>6, <3>7 DEF TablesFit
    <3>9. TablesFollow(m, entries, stored, senderKnown')
      <4>1. ASSUME NEW tx \in Ids, entries[tx] # NoTx
            PROVE  tx \in InIds /\ (entries[tx].havemeta => Described(tx) /\ entries[tx].file = in[tx].file)
        <5>1. CASE tx = m.tx BY <1>6, <1>10, <3>2, <3>6, <5>1
        <5>2. CASE tx # m.tx BY <3>6, <4>1, <5>2 DEF InIds, Described
        <5> QED BY <5>1, <5>2
      <4>2. ASSUME NEW tx \in InIds
            PROVE  entries[tx] # NoTx /\ (in[tx].havemeta => entries[tx].havemeta)
        <5>1. CASE tx = m.tx BY <3>1, <3>2, <3>6, <5>1
        <5>2. CASE tx # m.tx BY <3>6, <5>2 DEF InIds
        <5> QED BY <5>1, <5>2
      <4>3. ASSUME NEW tx \in Ids, NEW p \in stored[tx]
            PROVE  p \in temp[tx] \/ (Carries(m, tx) /\ tx \in InIds /\ p[2] = m.file)
        <5>1. CASE tx = m.tx BY <1>3, <1>10, <3>4, <3>7, <4>3, <5>1
        <5>2. CASE tx # m.tx BY <3>7, <4>3, <5>2
        <5> QED BY <5>1, <5>2
      <4> HIDE DEF m
      <4> QED BY <4>1, <4>2, <4>3 DEF TablesFollow
    <3>10. Announce(entries, stored, m.tx, broken) BY <2>7 DEF entries, stored
    <3>11. entries[m.tx] # NoTx BY <3>1, <3>6
    <3>12. TablesFit(entries, stored, FailedFiles') BY <3>8 DEF spoilt
    <3> QED BY <1>8, <2>4, <3>6, <3>7, <3>9, <3>10, <3>11, <3>12
  <2> QED BY <2>1, <2>6, <2>7
<1> QED BY <1>1, <1>2, <1>9, <1>10 DEF HandleData

\* QUEUE and CANCEL: the table is changed, then the next transfer is looked at.
LEMMA NextStep ==
  ASSUME TypeOK, NEW m, m = toReceiver[1], 1 \in 1 .. Len(toReceiver),
         toReceiver' = RemoveAt(toReceiver, 1), UNCHANGED <<disk, out, nextId>>,
         senderKnown => senderKnown',
         NEW entries \in Entries, NEW stored \in Stores, TablesFit(entries, stored, FailedFiles),
         TablesFollow(m, entries, stored, senderKnown'),
         \A tx \in Ids : entries[tx] # NoTx /\ entries[tx].havemeta =>
           Described(tx) /\ entries[tx].file = in[tx].file,
         NEW known, NEW replies \in Seq(ToSender), \A a \in Range(replies) : a.type = "REQMETA",
         NEW broken, NextIncoming(entries, stored, known, replies, broken)
  PROVE  ReceiverStep /\ ListsFit'
<1> DEFINE spoilt == FailedFiles'
<1>0. Spoils /\ FailedFiles \subseteq spoilt
  <2> DEFINE now == Recounted(entries)
  <2>1. \/ Suffer(broken, {})
        \/ \E tx \in Chosen(now) : Suffer(broken, { f \in {now[tx].file} : "rename" \in broken })
    BY DEF NextIncoming
  <2>2. CASE Suffer(broken, {})
    BY <2>2, SufferSpoils
  <2>3. ASSUME NEW tx \in Chosen(now),
               Suffer(broken, { f \in {now[tx].file} : "rename" \in broken })
        PROVE  Spoils /\ FailedFiles \subseteq spoilt
    <3>1. tx \in Ids /\ now[tx] # NoTx /\ now[tx].havemeta
      BY DEF Chosen
    <3>2. entries[tx] # NoTx
      BY <3>1 DEF Recounted
    <3>3. entries[tx].havemeta /\ now[tx].file = entries[tx].file
      BY <3>1, <3>2, RecountedIs
    <3>4. Described(tx) /\ now[tx].file = in[tx].file
      BY <3>1, <3>2, <3>3
    <3> DEFINE files == { f \in {now[tx].file} : "rename" \in broken }
    <3>5. \A f \in Files \cap files : f \in FilesOf(tx)
      BY <3>1, <3>4, TellsOfFile
    <3> HIDE DEF files
    <3> QED BY <2>3, <3>1, <3>5, SufferSpoils DEF files
  <2> QED BY <2>1, <2>2, <2>3
<1> HIDE DEF spoilt
<1>1. /\ KeepsEntries(entries, stored) /\ TablesFit(in', temp', spoilt)
      /\ NextAnswers(entries, replies)
  <2>1. toSender \in Seq(ToSender)
    BY DEF TypeOK, LinkTypeOK
  <2>2. TablesFit(entries, stored, spoilt)
    BY <1>0, MoreSpoilt
  <2> QED BY <2>1, <2>2, NextKeeps
<1>2. EntriesFollow(m)
  BY <1>1, KeptFollows DEF EntriesFollow
<1>3. \A tx \in Ids : entries[tx] # NoTx /\ entries[tx].havemeta => Described(tx)'
  BY <1>1 DEF KeepsEntries, Described, InIds
<1>4. \A a \in Range(toSender') : a \in Range(toSender) \/ Answers(a)
  BY <1>1, <1>3 DEF NextAnswers, Answers
<1> QED BY <1>0, <1>1, <1>2, <1>4 DEF ReceiverStep, ListsFit, spoilt

\* What a QUEUE packet makes of the table and of the temporary files.
QueueEntries(m) == [tx \in Ids |-> IF tx \notin m.ids THEN NoTx
                                   ELSE IF in[tx] = NoTx THEN NewEntry ELSE in[tx]]
QueueStored(m, broken) == Without(temp, InIds \ m.ids, "removeTemp", broken, {})

\* Both have their types, fit each other, and hold nothing the packet did not bring.
LEMMA QueueTables ==
  ASSUME TypeOK, ListsRight, NEW m \in ToReceiver, m.type = "QUEUE", m \in Range(toReceiver),
         NEW broken
  PROVE  /\ QueueEntries(m) \in Entries /\ QueueStored(m, broken) \in Stores
         /\ TablesFit(QueueEntries(m), QueueStored(m, broken), FailedFiles)
         /\ TablesFollow(m, QueueEntries(m), QueueStored(m, broken), TRUE)
         /\ \A tx \in Ids : QueueEntries(m)[tx] # NoTx /\ QueueEntries(m)[tx].havemeta =>
              Described(tx) /\ QueueEntries(m)[tx].file = in[tx].file
<1> DEFINE entries == QueueEntries(m)
           stored == QueueStored(m, broken)
<1>1. in \in Entries /\ temp \in Stores /\ TablesFit(in, temp, FailedFiles) /\ m.ids \subseteq Ids
  BY ToReceiverFields DEF TypeOK, ReceiverTypeOK, Entries, Stores, ListsRight, ListsFit
<1>2. NewEntry \in InTx /\ NewEntry # NoTx /\ ~NewEntry.havemeta
  <2>1. NewEntry \in InTx BY MaxBlockAssumption DEF NewEntry, InTx, Position
  <2> QED BY <2>1, NoTxAssumption DEF NewEntry
<1>3. ListFits(NewEntry, {}, FailedFiles)
  <2>1. Blocks({}) = {} BY DEF Blocks
  <2> QED BY <2>1, NothingCovered DEF NewEntry, ListFits
<1>4. entries \in Entries /\ stored \in Stores
  BY <1>1, <1>2 DEF QueueEntries, QueueStored, Without, Entries, Stores
<1>5. \A tx \in Ids :
        /\ tx \notin m.ids => entries[tx] = NoTx
        /\ tx \in m.ids /\ in[tx] = NoTx => entries[tx] = NewEntry
        /\ tx \in m.ids /\ in[tx] # NoTx => entries[tx] = in[tx]
        /\ tx \in m.ids => stored[tx] = temp[tx]
  BY DEF QueueEntries, QueueStored, Without
<1>6. \A tx \in Ids : stored[tx] \subseteq temp[tx]
  BY DEF QueueStored, Without
<1> HIDE DEF entries, stored
<1>7. TablesFit(entries, stored, FailedFiles)
  <2>1. ASSUME NEW tx \in Ids, tx \in m.ids, in[tx] = NoTx
        PROVE  ListFits(entries[tx], stored[tx], FailedFiles)
    <3>1. ~Over(tx) /\ tx \notin InIds
      BY <2>1 DEF Over, Lists, InIds
    <3>2. temp[tx] = {}
      BY <3>1 DEF ListsRight, Leftovers
    <3> QED BY <1>3, <1>5, <2>1, <3>2
  <2>2. ASSUME NEW tx \in Ids, tx \in m.ids, in[tx] # NoTx
        PROVE  ListFits(entries[tx], stored[tx], FailedFiles)
    BY <1>1, <1>5, <2>2 DEF TablesFit
  <2> QED BY <1>5, <2>1, <2>2 DEF TablesFit
<1>8. TablesFollow(m, entries, stored, TRUE)
  <2>1. ASSUME NEW tx \in Ids, entries[tx] # NoTx
        PROVE  /\ tx \in InIds \/ Lists(m, tx)
               /\ entries[tx].havemeta => Described(tx) /\ entries[tx].file = in[tx].file
    <3>1. tx \in m.ids BY <1>5, <2>1
    <3>2. CASE in[tx] = NoTx BY <1>2, <1>5, <3>1, <3>2 DEF Lists
    <3>3. CASE in[tx] # NoTx BY <1>5, <3>1, <3>3 DEF InIds, Described
    <3> QED BY <3>2, <3>3
  <2>2. ASSUME NEW tx \in InIds
        PROVE  /\ entries[tx] = NoTx => LeavesOut(m, tx)
               /\ entries[tx] # NoTx /\ in[tx].havemeta => entries[tx].havemeta
    BY <1>5 DEF InIds, LeavesOut
  <2>3. \A tx \in Ids : \A p \in stored[tx] : p \in temp[tx]
    BY <1>6
  <2> QED BY <2>1, <2>2, <2>3 DEF TablesFollow
<1>9. ASSUME NEW tx \in Ids, entries[tx] # NoTx, entries[tx].havemeta
      PROVE  Described(tx) /\ entries[tx].file = in[tx].file
  BY <1>2, <1>5, <1>9 DEF Described, InIds
<1> QED BY <1>4, <1>7, <1>8, <1>9 DEF entries, stored

\* So a QUEUE packet is a step of the receiver.
LEMMA ReceiveQueueStep ==
  ASSUME TypeOK, Ordered, ListsRight, ReceiveQueue PROVE ReceiverStep /\ ListsFit'
<1>1. PICK i \in Arrivals(toReceiver) : ReceiverTakes(i, "QUEUE") /\ HandleQueue(toReceiver[i])
  BY DEF ReceiveQueue
<1>2. PICK m : m = toReceiver[1]
  OBVIOUS
<1> DEFINE entries == QueueEntries(m)
           missing == { tx \in m.ids : ~entries[tx].havemeta }
           replies == IF reqmetaDue /\ missing # {} THEN <<ReqMeta(missing)>> ELSE <<>>
<1>3. /\ i = 1 /\ 1 \in 1 .. Len(toReceiver) /\ toReceiver' = RemoveAt(toReceiver, 1)
      /\ m \in ToReceiver /\ m.type = "QUEUE" /\ m \in Range(toReceiver)
      /\ UNCHANGED <<disk, out, nextId>>
  BY <1>1, <1>2, TakesFirst
<1>4. /\ senderKnown' = TRUE
      /\ \E broken : NextIncoming(entries, QueueStored(m, broken), TRUE, replies, broken)
  BY <1>1, <1>2, <1>3 DEF HandleQueue, QueueEntries, QueueStored
<1> PICK broken : NextIncoming(entries, QueueStored(m, broken), TRUE, replies, broken)
  BY <1>4
<1> DEFINE stored == QueueStored(m, broken)
<1>5. /\ entries \in Entries /\ stored \in Stores /\ TablesFit(entries, stored, FailedFiles)
      /\ TablesFollow(m, entries, stored, senderKnown')
      /\ \A tx \in Ids : entries[tx] # NoTx /\ entries[tx].havemeta =>
           Described(tx) /\ entries[tx].file = in[tx].file
  BY <1>3, <1>4, QueueTables
<1>6. missing \in SUBSET Ids
  BY <1>3, ToReceiverFields
<1>7. replies \in Seq(ToSender) /\ \A a \in Range(replies) : a.type = "REQMETA"
  <2> HIDE DEF missing
  <2>1. ReqMeta(missing) \in ToSender /\ ReqMeta(missing).type = "REQMETA"
    BY <1>6, ToSenderType DEF ReqMeta
  <2> DEFINE a == ReqMeta(missing)
  <2> HIDE DEF a
  <2>2. a \in ToSender /\ a.type = "REQMETA" BY <2>1 DEF a
  <2>3. <<a>> \in Seq(ToSender) /\ \A x \in Range(<<a>>) : x = a
    BY <2>2 DEF Range
  <2>4. <<>> \in Seq(ToSender) /\ \A x \in Range(<<>>) : FALSE
    BY DEF Range
  <2> QED BY <2>2, <2>3, <2>4 DEF a
<1>8. NextIncoming(entries, stored, TRUE, replies, broken)
  BY DEF stored
<1> HIDE DEF entries, stored, replies
<1> QED BY <1>2, <1>3, <1>4, <1>5, <1>7, <1>8, NextStep

\* What a CANCEL packet makes of them.
LEMMA ReceiveCancelStep ==
  ASSUME TypeOK, Ordered, ListsRight, ReceiveCancel PROVE ReceiverStep /\ ListsFit'
<1>1. PICK i \in Arrivals(toReceiver) : ReceiverTakes(i, "CANCEL") /\ HandleCancel(toReceiver[i])
  BY DEF ReceiveCancel
<1>2. PICK m : m = toReceiver[1]
  OBVIOUS
<1> DEFINE entries == [in EXCEPT ![m.tx] = NoTx]
           left(broken) == Without(temp, InIds \cap {m.tx}, "removeTemp", broken, {})
<1>3. /\ i = 1 /\ 1 \in 1 .. Len(toReceiver) /\ toReceiver' = RemoveAt(toReceiver, 1)
      /\ m \in ToReceiver /\ m.type = "CANCEL"
      /\ UNCHANGED <<disk, out, nextId>>
  BY <1>1, <1>2, TakesFirst
<1>4. /\ UNCHANGED senderKnown
      /\ \E broken : NextIncoming(entries, left(broken), senderKnown, <<>>, broken)
  BY <1>1, <1>2, <1>3 DEF HandleCancel
<1> PICK broken : NextIncoming(entries, left(broken), senderKnown, <<>>, broken)
  BY <1>4
<1> DEFINE stored == left(broken)
<1>5. m.tx \in Ids /\ Cancels(m, m.tx)
  BY <1>3, ToReceiverFields DEF Cancels
<1>6. in \in Entries /\ temp \in Stores /\ TablesFit(in, temp, FailedFiles)
  BY DEF TypeOK, ReceiverTypeOK, Entries, Stores, ListsRight, ListsFit
<1>7. /\ entries \in Entries /\ entries[m.tx] = NoTx
      /\ \A tx \in Ids \ {m.tx} : entries[tx] = in[tx]
  BY <1>5, <1>6 DEF Entries
<1>8. /\ stored \in Stores /\ stored[m.tx] \subseteq temp[m.tx]
      /\ \A tx \in Ids \ {m.tx} : stored[tx] = temp[tx]
  BY <1>5, <1>6 DEF Stores, Without
<1> HIDE DEF entries, stored, left
<1>9. TablesFit(entries, stored, FailedFiles)
  BY <1>5, <1>6, <1>7, <1>8 DEF TablesFit
<1>10. TablesFollow(m, entries, stored, senderKnown')
  BY <1>5, <1>7, <1>8 DEF TablesFollow, InIds, Described
<1>11. <<>> \in Seq(ToSender) /\ \A a \in Range(<<>>) : a.type = "REQMETA"
  BY DEF Range
<1>12. \A tx \in Ids : entries[tx] # NoTx /\ entries[tx].havemeta =>
         Described(tx) /\ entries[tx].file = in[tx].file
  BY <1>7 DEF Described, InIds
<1>13. NextIncoming(entries, stored, senderKnown, <<>>, broken)
  BY DEF stored
<1> QED BY <1>2, <1>3, <1>4, <1>7, <1>8, <1>9, <1>10, <1>11, <1>12, <1>13, NextStep

-----------------------------------------------------------------------------
(* The other actions are steps of the sender. *)

\* A link that nothing or one packet is sent to.
LEMMA LinkSame == ASSUME TypeOK, UNCHANGED toReceiver PROVE LinkGrows
<1>1. Len(toReceiver) \in Nat
  BY LenProperties DEF TypeOK, LinkTypeOK
<1> QED BY <1>1 DEF LinkGrows, Extends

\* ... or one packet is sent to.
LEMMA LinkAppended ==
  ASSUME TypeOK, NEW m \in ToReceiver, toReceiver' = Append(toReceiver, m), SenderSends(m)
  PROVE  LinkGrows
<1> DEFINE s == toReceiver
           t == Append(s, m)
<1>1. s \in Seq(ToReceiver)
  BY DEF TypeOK, LinkTypeOK
<1>2. /\ Len(s) \in Nat /\ Len(t) = Len(s) + 1 /\ t[Len(s) + 1] = m
      /\ \A i \in 1 .. Len(s) : t[i] = s[i]
  BY <1>1, LenProperties, AppendProperties
<1> HIDE DEF t
<1>3. Extends(t, s) /\ \A i \in Len(s) + 1 .. Len(t) : t[i] = m
  <2>1. \A i \in Len(s) + 1 .. Len(t) : i = Len(s) + 1 BY <1>2
  <2> QED BY <1>2, <2>1 DEF Extends
<1>4. toReceiver' = t
  BY DEF t
<1> QED BY <1>3, <1>4 DEF LinkGrows

\* Slots that are left alone.
LEMMA SlotsSame == UNCHANGED out => \A tx \in OutIds' : SlotGoesOn(tx)
  BY DEF OutIds, SlotGoesOn

\* A step that touches neither the slots nor the link to the receiver.
LEMMA QuietStep ==
  ASSUME TypeOK, UNCHANGED <<in, temp, incoming, senderKnown, user, disk, out, toReceiver>>,
         \A m \in Range(toSender') : m \in Range(toSender) \/ m.type = "PEERQUEUE"
  PROVE  SenderStep
  BY LinkSame, SlotsSame DEF SenderStep

\* A listing, and the timer of the receiver, change nothing that is looked at here.
LEMMA ListOutgoingStep ==
  ASSUME TypeOK, ListOutgoing \/ ReqMetaTimeout PROVE SenderStep
<1>1. UNCHANGED <<in, temp, incoming, senderKnown, user, disk, out, nextId, toReceiver, toSender>>
  BY DEF ListOutgoing, ReqMetaTimeout, senderVars, receiverVars, fates
<1> QED BY <1>1, QuietStep

\* The peer's own QUEUE packet.
LEMMA PeerSendQueueStep == ASSUME TypeOK, PeerSendQueue PROVE SenderStep
<1>1. UNCHANGED <<in, temp, incoming, senderKnown, user, disk, out, nextId, toReceiver>>
      /\ toSender' = Append(toSender, PeerQueue)
  BY DEF PeerSendQueue, senderVars, receiverVars, fates
<1>2. Range(toSender') = Range(toSender) \cup {PeerQueue} /\ PeerQueue.type = "PEERQUEUE"
  BY <1>1, RangeAppend, ToSenderType DEF TypeOK, LinkTypeOK, PeerQueue
<1> QED BY <1>1, <1>2, QuietStep

\* Packets that are lost or duplicated.
LEMMA LinkChanges ==
  ASSUME NEW T, NEW s \in Seq(T), NEW i \in DOMAIN s
  PROVE  /\ Follows(RemoveAt(s, i), s) /\ Follows(Repeat(s, i), s)
         /\ Range(RemoveAt(s, i)) \subseteq Range(s) /\ Range(Repeat(s, i)) \subseteq Range(s)
<1>1. i \in 1 .. Len(s)
  BY LenProperties
<1>2. Follows(RemoveAt(s, i), s) /\ Follows(Repeat(s, i), s)
  BY <1>1, RemoveAtFollows, RepeatFollows
<1>3. RemoveAt(s, i) \in Seq(T) /\ Repeat(s, i) \in Seq(T)
  BY <1>1, RemoveAtIs, RepeatIs
<1> QED BY <1>2, <1>3, FollowsRange

\* A packet that is lost or duplicated changes only the order and number of what is on its link.
LEMMA LinkStep == ASSUME TypeOK, Lose \/ Duplicate PROVE SenderStep
<1>1. UNCHANGED <<in, temp, incoming, senderKnown, user, disk, out, nextId>>
  BY DEF Lose, Duplicate, OnALink, senderVars, receiverVars, fates
<1>2. toReceiver \in Seq(ToReceiver) /\ toSender \in Seq(ToSender)
  BY DEF TypeOK, LinkTypeOK
<1>3. \/ Follows(toReceiver', toReceiver) /\ UNCHANGED toSender
      \/ Range(toSender') \subseteq Range(toSender) /\ UNCHANGED toReceiver
  <2>1. CASE Lose BY <1>2, <2>1, LinkChanges DEF Lose, OnALink
  <2>2. CASE Duplicate BY <1>2, <2>2, LinkChanges DEF Duplicate, OnALink
  <2> QED BY <2>1, <2>2
<1>4. CASE Range(toSender') \subseteq Range(toSender) /\ UNCHANGED toReceiver
  BY <1>1, <1>4, QuietStep
<1>5. CASE Follows(toReceiver', toReceiver) /\ UNCHANGED toSender
  <2>1. LinkGrows BY <1>5 DEF LinkGrows
  <2>2. \A m \in Range(toSender') : m \in Range(toSender) BY <1>5
  <2> QED BY <1>1, <2>1, <2>2, SlotsSame DEF SenderStep
<1> QED BY <1>3, <1>4, <1>5

\* A failure that spoils nothing.
LEMMA SpoilsNone ==
  ASSUME TypeOK, NEW broken, Suffer(broken, {}) PROVE UNCHANGED user
  BY DEF Suffer, TypeOK, LinkTypeOK

\* A file of the listing takes an id that nothing speaks of, or none.
LEMMA ScanFileStep ==
  ASSUME TypeOK, TakesUnused, ScanFile PROVE SenderStep
<1>1. UNCHANGED <<in, temp, incoming, senderKnown, user, disk, toReceiver, toSender>>
  <2>1. UNCHANGED user
    BY SpoilsNone DEF ScanFile, fates
  <2> QED BY <2>1 DEF ScanFile, receiverVars
<1>2. CASE UNCHANGED out
  BY <1>1, <1>2, QuietStep
<1>3. ASSUME NEW f \in Files, NEW broken, AddOutgoing(f, broken)
      PROVE  SenderStep
  <2> DEFINE size == IF disk[f].there /\ "read" \notin broken THEN disk[f].len ELSE 0
             entry == [file |-> f, size |-> size, pending |-> <<>>, open |-> FALSE]
  <2>1. PICK id \in Ids :
          /\ NextFreeId(id)
          /\ UNCHANGED out \/ (size > 0 /\ out' = [out EXCEPT ![id] = entry])
    BY <1>3 DEF AddOutgoing
  <2>2. id \notin OutIds
    BY <2>1 DEF NextFreeId
  <2>3. \A tx \in OutIds' : SlotGoesOn(tx) \/ SlotBegins(tx)
    <3>1. CASE UNCHANGED out BY <3>1, SlotsSame
    <3>2. CASE size > 0 /\ out' = [out EXCEPT ![id] = entry]
      <4>1. disk[f].there /\ size = disk[f].len /\ 0 < size
        <5>1. disk[f].there /\ size = disk[f].len BY <3>2
        <5>2. size \in Nat
          BY <5>1, MaxBlockAssumption DEF TypeOK, SenderTypeOK, Position
        <5> QED BY <3>2, <5>1, <5>2
      <4>2. out'[id] = entry /\ \A tx \in Ids \ {id} : out'[tx] = out[tx]
        BY <2>1, <3>2 DEF TypeOK, SenderTypeOK
      <4>3. SlotBegins(id)
        <5>1. out'[id].file = f /\ out'[id].size = size /\ out'[id].pending = <<>>
          BY <4>2
        <5>2. out'[id] # NoTx
          <6>1. size \in Position
            BY <4>1 DEF TypeOK, SenderTypeOK
          <6> HIDE DEF size
          <6>2. entry \in OutTx
            BY <6>1 DEF OutTx
          <6> HIDE DEF entry
          <6> QED BY <4>2, <6>2, NoTxAssumption
        <5>3. Unused(id)
          BY <2>2, <5>2 DEF TakesUnused, OutIds
        <5> HIDE DEF size
        <5> QED BY <1>1, <4>1, <5>1, <5>3 DEF SlotBegins
      <4>4. \A tx \in OutIds' : tx # id => SlotGoesOn(tx)
        BY <4>2 DEF SlotGoesOn, OutIds
      <4> QED BY <4>3, <4>4
    <3> QED BY <2>1, <3>1, <3>2
  <2> QED BY <1>1, <2>3, LinkSame DEF SenderStep
<1>4. \A e \in scan : e.file \in Files
  BY DEF TypeOK, SenderTypeOK
<1> QED BY <1>2, <1>3, <1>4 DEF ScanFile

\* One slot changes, and it goes on.
LEMMA OneSlotGoesOn ==
  ASSUME TypeOK, NEW tx \in OutIds, NEW r, out' = [out EXCEPT ![tx] = r],
         r.file = out[tx].file, r.size = out[tx].size,
         \/ out[tx].pending # <<>> /\ r.pending = FirstSent(out[tx].pending, 1)
         \/ \E m \in Range(toSender) :
              /\ AsksFor(m, tx) /\ m.hole.lo <= m.hole.hi
              /\ r.pending = InsertHole(out[tx].pending, m.hole)
  PROVE  \A u \in OutIds' : SlotGoesOn(u)
<1>1. tx \in Ids
  BY DEF OutIds
<1>2. out'[tx] = r /\ \A u \in Ids \ {tx} : out'[u] = out[u]
  BY <1>1 DEF TypeOK, SenderTypeOK
<1>3. SlotGoesOn(tx)
  BY <1>2 DEF SlotGoesOn
<1>4. \A u \in OutIds' : u # tx => SlotGoesOn(u)
  BY <1>2 DEF SlotGoesOn, OutIds
<1> QED BY <1>3, <1>4

\* A block is sent.
LEMMA SendBlockStep == ASSUME TypeOK, SendBlock PROVE SenderStep
<1> DEFINE r == out[current]
           rest == FirstSent(r.pending, 1)
           sent == [r EXCEPT !.pending = rest, !.open = Len(rest) = Len(r.pending)]
           m == Data(current, r.file, r.pending[1].lo)
<1>1. /\ current \in OutIds /\ r.pending # <<>> /\ r.pending[1].lo < disk[r.file].len
      /\ toReceiver' = Append(toReceiver, m) /\ out' = [out EXCEPT ![current] = sent]
      /\ UNCHANGED <<in, temp, incoming, senderKnown, user, disk, nextId, toSender>>
  BY DEF SendBlock, Sending, CanRead, receiverVars, fates
<1>2. current \in Ids /\ r \in OutTx /\ r.file \in Files /\ r.pending \in Seq(Chunk)
  BY <1>1, OutSlot DEF TypeOK
<1>3. sent.file = r.file /\ sent.size = r.size /\ sent.pending = rest
  BY <1>2 DEF OutTx
<1>4. r.pending[1].lo \in Block
  <2>1. r.pending[1] \in Chunk
    BY <1>1, <1>2, EmptySeq, ElementOfSeq
  <2>2. disk[r.file].len \in Position
    BY <1>2 DEF TypeOK, SenderTypeOK
  <2> QED BY <1>1, <2>1, <2>2, MaxBlockAssumption DEF Chunk, Position, Block
<1>5. m \in ToReceiver /\ SenderSends(m)
  BY <1>1, <1>2, <1>4, ToReceiverType DEF SenderSends, SlotSends
<1>6. LinkGrows
  <2> HIDE DEF m
  <2> QED BY <1>1, <1>5, LinkAppended
<1>7. \A tx \in OutIds' : SlotGoesOn(tx)
  <2> HIDE DEF sent
  <2> QED BY <1>1, <1>3, OneSlotGoesOn
<1> QED BY <1>1, <1>6, <1>7 DEF SenderStep

\* A slot is freed and the receiver is told.
LEMMA DeleteStep ==
  ASSUME TypeOK, NEW tx \in OutIds, NEW meta, NEW broken, DeleteOutgoing(tx, meta, broken),
         toReceiver' = Append(toReceiver, Cancel(tx)),
         UNCHANGED <<in, temp, incoming, senderKnown, nextId>>,
         \A m \in Range(toSender') : m \in Range(toSender),
         \/ /\ Suffer(broken, {})
            /\ \/ \E m \in Range(toSender) : Announces(m, tx)
               \/ out[tx].pending # <<>> /\ ~(CanOpen(out[tx]) /\ CanRead(out[tx]))
         \/ Suffer(broken, {out[tx].file})
  PROVE  SenderStep
<1>1. tx \in Ids
  BY DEF OutIds
<1>2. out'[tx] = NoTx /\ \A u \in Ids \ {tx} : out'[u] = out[u]
  BY <1>1 DEF DeleteOutgoing, Deleted, TypeOK, SenderTypeOK
<1>3. tx \notin OutIds' /\ \A u \in OutIds' : SlotGoesOn(u)
  BY <1>2 DEF OutIds, SlotGoesOn
<1>4. FreesFile(tx)
  <2>1. UNCHANGED disk \/ disk' = [disk EXCEPT ![out[tx].file].there = FALSE]
    <3> DEFINE f == out[tx].file
    <3>1. disk' = [disk EXCEPT ![f].there = @ /\ "remove" \in broken]
      BY DEF DeleteOutgoing, Deleted
    <3>2. f \in Files /\ disk \in [Files -> [there : BOOLEAN, len : Position]]
      BY <1>1, OutSlot DEF TypeOK, SenderTypeOK
    <3> HIDE DEF f
    <3>3. CASE "remove" \in broken
      <4>1. \A g \in Files : disk'[g] = disk[g]
        BY <3>1, <3>2, <3>3
      <4>2. disk' \in [Files -> [there : BOOLEAN, len : Position]]
        BY <3>1, <3>2
      <4> QED BY <3>2, <4>1, <4>2
    <3>4. CASE "remove" \notin broken
      <4>1. disk' = [disk EXCEPT ![f].there = FALSE]
        BY <3>1, <3>2, <3>4, Zenon
      <4> QED BY <4>1 DEF f
    <3> QED BY <3>3, <3>4
  <2>2. CASE /\ Suffer(broken, {})
             /\ \/ \E m \in Range(toSender) : Announces(m, tx)
                \/ out[tx].pending # <<>> /\ ~(CanOpen(out[tx]) /\ CanRead(out[tx]))
    <3>1. UNCHANGED user
      BY <2>2, SpoilsNone
    <3> QED BY <1>3, <2>1, <2>2, <3>1 DEF FreesFile
  <2>3. CASE Suffer(broken, {out[tx].file})
    <3>1. user' = [user EXCEPT ![out[tx].file] = "failed"]
      BY <2>3 DEF Suffer, TypeOK, LinkTypeOK
    <3> QED BY <1>3, <2>1, <3>1 DEF FreesFile
  <2> QED BY <2>2, <2>3
<1>5. LinkGrows
  <2>1. SenderSends(Cancel(tx)) BY <1>3 DEF SenderSends, SlotSends
  <2>2. Cancel(tx) \in ToReceiver BY <1>1, ToReceiverType
  <2> QED BY <2>1, <2>2, LinkAppended
<1> QED BY <1>3, <1>4, <1>5 DEF SenderStep

\* A transfer that is given up.
LEMMA GiveUpStep == ASSUME TypeOK, GiveUp \/ ReadFails PROVE SenderStep
<1>1. PICK broken :
        /\ EndTransfer(broken)
        /\ \/ /\ Suffer(broken, {})
              /\ ~(CanOpen(out[current]) /\ CanRead(out[current]))
           \/ Suffer(broken, {out[current].file})
  BY DEF GiveUp, ReadFails
<1>2. /\ current \in OutIds /\ out[current].pending # <<>>
      /\ toReceiver' = Append(toReceiver, Cancel(current))
      /\ UNCHANGED <<in, temp, incoming, senderKnown, nextId, toSender>>
  BY <1>1 DEF GiveUp, ReadFails, EndTransfer, Sending, receiverVars
<1>3. PICK meta : DeleteOutgoing(current, meta, broken)
  BY <1>1 DEF EndTransfer
<1>4. \A m \in Range(toSender') : m \in Range(toSender)
  BY <1>2
<1> QED BY <1>1, <1>2, <1>3, <1>4, DeleteStep

\* Every occupied slot is among the first Limit of them.
LEMMA QueueListsThem ==
  ASSUME TypeOK, SlotsFit
  PROVE  { tx \in OutIds : Cardinality({ u \in OutIds : u < tx }) < Limit } = OutIds
<1> SUFFICES ASSUME NEW tx \in OutIds PROVE Cardinality({ u \in OutIds : u < tx }) < Limit
  OBVIOUS
<1> DEFINE S == { u \in OutIds : u < tx }
<1>1. IsFiniteSet(OutIds) /\ Cardinality(OutIds) \in Nat /\ Cardinality(S) \in Nat
      /\ IsFiniteSet(S)
  BY IdsFinite DEF OutIds
<1>2. tx \notin S /\ S \cup {tx} \subseteq OutIds
  BY DEF OutIds, Ids
<1> HIDE DEF S
<1>3. Cardinality(S \cup {tx}) = Cardinality(S) + 1
  BY <1>1, <1>2, FS_AddElement
<1>4. Cardinality(S \cup {tx}) <= Cardinality(OutIds)
  BY <1>1, <1>2, FS_Subset
<1>5. Cardinality(OutIds) <= outSize /\ outSize <= Limit /\ outSize \in Nat /\ Limit \in Nat
  BY TxIdAssumption DEF SlotsFit, TypeOK, SenderTypeOK
<1>6. Cardinality(S) < Limit
  BY <1>1, <1>3, <1>4, <1>5
<1> QED BY <1>6 DEF S

\* A QUEUE packet.
LEMMA SendQueueStep == ASSUME TypeOK, SlotsFit, SendQueue PROVE SenderStep
<1>1. UNCHANGED <<in, temp, incoming, senderKnown, user, disk, out, nextId, toSender>>
  BY DEF SendQueue, senderVars, receiverVars, fates
<1>2. toReceiver' = Append(toReceiver, Queue(OutIds))
  BY QueueListsThem DEF SendQueue
<1>3. OutIds' = OutIds /\ OutIds \in SUBSET Ids
  BY <1>1 DEF OutIds
<1>4. Queue(OutIds) \in ToReceiver /\ SenderSends(Queue(OutIds))
  BY <1>3, ToReceiverType DEF SenderSends
<1>5. LinkGrows
  BY <1>2, <1>4, LinkAppended
<1>6. \A m \in Range(toSender') : m \in Range(toSender)
  BY <1>1
<1> QED BY <1>1, <1>5, <1>6, SlotsSame DEF SenderStep

\* What the handlers of the sender's receive thread have in common.
LEMMA SenderTakesStep ==
  ASSUME TypeOK, NEW i \in Arrivals(toSender), NEW type, SenderTakes(i, type)
  PROVE  /\ UNCHANGED <<in, temp, incoming, senderKnown, nextId>>
         /\ \A m \in Range(toSender') : m \in Range(toSender)
         /\ toSender[i] \in Range(toSender) /\ toSender[i] \in ToSender /\ toSender[i].type = type
<1>1. toSender \in Seq(ToSender)
  BY DEF TypeOK, LinkTypeOK
<1>2. i \in 1 .. Len(toSender) /\ toSender[i] \in ToSender
  BY <1>1, ArrivalsInDomain
<1>3. i \in DOMAIN toSender
  BY <1>1, <1>2, LenProperties
<1>4. Range(RemoveAt(toSender, i)) \subseteq Range(toSender)
  BY <1>1, <1>3, LinkChanges
<1> QED BY <1>1, <1>2, <1>4, RangeIs DEF SenderTakes, receiverVars

\* The peer's QUEUE packet when it arrives.
LEMMA ReceivePeerQueueStep == ASSUME TypeOK, ReceivePeerQueue PROVE SenderStep
<1>1. PICK i \in Arrivals(toSender) : SenderTakes(i, "PEERQUEUE") /\ HandlePeerQueue
  BY DEF ReceivePeerQueue
<1>2. UNCHANGED <<disk, out, toReceiver, user>>
  BY <1>1 DEF HandlePeerQueue, fates
<1> QED BY <1>1, <1>2, SenderTakesStep, QuietStep

\* The meta data asked for.
LEMMA ReceiveReqMetaStep == ASSUME TypeOK, ReceiveReqMeta PROVE SenderStep
<1>1. PICK i \in Arrivals(toSender) : SenderTakes(i, "REQMETA") /\ HandleReqMeta(toSender[i])
  BY DEF ReceiveReqMeta
<1> DEFINE asked == toSender[i].ids \cap OutIds
           n == Cardinality(asked)
<1>2. PICK ids \in AscendingIds(asked) :
        toReceiver' = toReceiver \o
          [k \in 1 .. n |-> Meta(ids[k], out[ids[k]].file, out[ids[k]].size)]
  BY <1>1 DEF HandleReqMeta
<1>3. UNCHANGED <<disk, out, user>>
  BY <1>1 DEF HandleReqMeta, fates
<1>4. asked \subseteq OutIds /\ n \in Nat
  BY IdsFinite DEF OutIds
<1>5. ids \in [1 .. n -> asked]
  BY DEF AscendingIds
<1> DEFINE told == [k \in 1 .. n |-> Meta(ids[k], out[ids[k]].file, out[ids[k]].size)]
<1>6. \A k \in 1 .. n : told[k] \in ToReceiver /\ SenderSends(told[k])
  <2> SUFFICES ASSUME NEW k \in 1 .. n PROVE told[k] \in ToReceiver /\ SenderSends(told[k])
    OBVIOUS
  <2>1. ids[k] \in OutIds
    BY <1>4, <1>5
  <2>2. ids[k] \in Ids /\ out[ids[k]].file \in Files /\ out[ids[k]].size \in Position
    BY <2>1, OutSlot DEF TypeOK
  <2>3. told[k] = Meta(ids[k], out[ids[k]].file, out[ids[k]].size)
    OBVIOUS
  <2> HIDE DEF told
  <2>4. told[k] \in ToReceiver
    BY <2>2, <2>3, ToReceiverType
  <2> QED BY <2>1, <2>3, <2>4 DEF SenderSends, SlotSends
<1>7. told \in [1 .. n -> ToReceiver]
  BY <1>6
<1>8. toReceiver' = toReceiver \o told
  BY <1>2
<1> HIDE DEF told, n, asked
<1>9. told \in Seq(ToReceiver) /\ Len(told) = n
  BY <1>4, <1>7, FunctionIsSeq, LenProperties
<1>10. toReceiver \in Seq(ToReceiver) /\ Len(toReceiver) \in Nat
  BY LenProperties DEF TypeOK, LinkTypeOK
<1>11. LinkGrows
  <2> DEFINE s == toReceiver
             t == s \o told
  <2>1. /\ Len(t) = Len(s) + n
        /\ \A k \in 1 .. Len(s) : t[k] = s[k]
        /\ \A k \in 1 .. n : t[Len(s) + k] = told[k]
    <3> HIDE DEF s
    <3>1. s \in Seq(ToReceiver) /\ told \in Seq(ToReceiver)
      BY <1>9, <1>10 DEF s
    <3>2. /\ Len(s \o told) = Len(s) + Len(told)
          /\ \A k \in 1 .. Len(s) : (s \o told)[k] = s[k]
          /\ \A k \in 1 .. Len(told) : (s \o told)[Len(s) + k] = told[k]
      BY <3>1, ConcatIs
    <3>3. Len(told) = n
      BY <1>9
    <3> QED BY <3>2, <3>3, Zenon
  <2> HIDE DEF t
  <2>2. Extends(t, s)
    BY <1>4, <1>10, <2>1 DEF Extends
  <2>3. ASSUME NEW k \in Len(s) + 1 .. Len(t) PROVE SenderSends(t[k])
    <3>1. k - Len(s) \in 1 .. n /\ Len(s) + (k - Len(s)) = k BY <1>4, <1>10, <2>1
    <3>2. t[k] = told[k - Len(s)] BY <2>1, <3>1
    <3> QED BY <1>6, <3>1, <3>2
  <2>4. toReceiver' = t
    BY <1>8 DEF t
  <2> QED BY <2>2, <2>3, <2>4 DEF LinkGrows
<1>12. UNCHANGED <<in, temp, incoming, senderKnown, nextId>>
       /\ \A m \in Range(toSender') : m \in Range(toSender)
  BY <1>1, SenderTakesStep
<1> QED BY <1>3, <1>11, <1>12, SlotsSame DEF SenderStep

\* A hole asked for.
LEMMA ReceiveReqDataStep == ASSUME TypeOK, ReceiveReqData PROVE SenderStep
<1>1. PICK i \in Arrivals(toSender) : SenderTakes(i, "REQDATA") /\ HandleReqData(toSender[i])
  BY DEF ReceiveReqData
<1>2. PICK m : m = toSender[i]
  OBVIOUS
<1>3. /\ UNCHANGED <<in, temp, incoming, senderKnown, nextId>>
      /\ \A a \in Range(toSender') : a \in Range(toSender)
      /\ m \in Range(toSender) /\ AsksFor(m, m.tx)
  BY <1>1, <1>2, SenderTakesStep DEF AsksFor
<1>4. UNCHANGED <<disk, toReceiver, user>>
  BY <1>1 DEF HandleReqData, fates
<1>5. CASE m.hole.lo <= m.hole.hi /\ m.tx \in OutIds
  <2> DEFINE r == [out[m.tx] EXCEPT !.pending = InsertHole(@, m.hole)]
  <2>1. out' = [out EXCEPT ![m.tx] = r]
    BY <1>1, <1>2, <1>5 DEF HandleReqData
  <2>2. out[m.tx] \in OutTx
    BY <1>5, OutSlot DEF TypeOK
  <2>3. r.file = out[m.tx].file /\ r.size = out[m.tx].size
        /\ r.pending = InsertHole(out[m.tx].pending, m.hole)
    BY <2>2 DEF OutTx
  <2> HIDE DEF r
  <2>4. \A u \in OutIds' : SlotGoesOn(u)
    BY <1>3, <1>5, <2>1, <2>3, OneSlotGoesOn
  <2> QED BY <1>3, <1>4, <2>4, LinkSame DEF SenderStep
<1>6. CASE ~(m.hole.lo <= m.hole.hi /\ m.tx \in OutIds)
  <2>1. UNCHANGED out
    BY <1>1, <1>2, <1>6 DEF HandleReqData
  <2> QED BY <1>3, <1>4, <2>1, QuietStep
<1> QED BY <1>5, <1>6

\* A transfer that is complete.
LEMMA ReceiveCompleteStep == ASSUME TypeOK, ReceiveComplete PROVE SenderStep
<1>1. PICK i \in Arrivals(toSender) : SenderTakes(i, "COMPLETE") /\ HandleComplete(toSender[i])
  BY DEF ReceiveComplete
<1>2. PICK m : m = toSender[i]
  OBVIOUS
<1>3. /\ UNCHANGED <<in, temp, incoming, senderKnown, nextId>>
      /\ \A a \in Range(toSender') : a \in Range(toSender)
      /\ m \in Range(toSender) /\ Announces(m, m.tx)
  BY <1>1, <1>2, SenderTakesStep DEF Announces
<1>4. CASE m.tx \in OutIds /\ peerKnown
  <2>1. PICK broken : DeleteOutgoing(m.tx, NoTx, broken) /\ Suffer(broken, {})
    BY <1>1, <1>2, <1>4 DEF HandleComplete
  <2>2. toReceiver' = Append(toReceiver, Cancel(m.tx))
    BY <1>1, <1>2, <1>4 DEF HandleComplete
  <2> QED BY <1>3, <1>4, <2>1, <2>2, DeleteStep
<1>5. CASE ~(m.tx \in OutIds /\ peerKnown)
  <2>1. UNCHANGED <<out, disk, toReceiver, user>>
    BY <1>1, <1>2, <1>5 DEF HandleComplete, fates
  <2> QED BY <1>3, <2>1, QuietStep
<1> QED BY <1>4, <1>5

-----------------------------------------------------------------------------
(* A restart of the sender, while each meta file tells of its slot. *)

\* What a crash leaves of a link follows the link.
LEMMA CutOffFollows ==
  ASSUME NEW T, NEW link \in Seq(T), NEW cut \in CutOff(link)
  PROVE  Follows(cut, link)
<1>1. PICK n \in 0 .. Len(link) : cut = SubSeq(link, 1, n)
  BY DEF CutOff
<1>2. Len(link) \in Nat /\ \A i \in 1 .. n : link[i] \in T
  BY LenProperties, ElementOfSeq
<1>3. Len(cut) = n /\ \A i \in 1 .. n : cut[i] = link[i]
  BY <1>1, <1>2, SubSeqProperties
<1> DEFINE g == [i \in 1 .. n |-> i]
<1>4. g \in [1 .. n -> 1 .. Len(link)] /\ \A i \in 1 .. n : g[i] = i
  BY <1>2
<1> HIDE DEF g
<1>5. \A i, k \in 1 .. n : cut[i] = link[g[i]] /\ (i <= k => g[i] <= g[k])
  BY <1>3, <1>4
<1> QED BY <1>3, <1>4, <1>5 DEF Follows

\* The ranges merged are covered by the ranges, ...
LEMMA MergedCovered ==
  ASSUME NEW R, NEW h \in Merged(R)
  PROVE  /\ h \in Chunk /\ h.lo <= h.hi
         /\ \E c \in R : c.lo <= h.hi /\ h.hi <= c.hi
<1>1. h \in Chunk /\ h.lo <= h.hi /\ \A n \in h.lo .. h.hi : Covered(R, n)
  BY DEF Merged
<1>2. h.lo \in Int /\ h.hi \in Int
  BY <1>1, MaxBlockAssumption DEF Chunk, Position
<1>3. h.hi \in h.lo .. h.hi
  BY <1>1, <1>2
<1> QED BY <1>1, <1>3 DEF Covered

\* ... so that the list read from a meta file is empty, or within the file, when
\* the list saved is.
LEMMA RestoredList ==
  ASSUME NEW saved \in Seq(Chunk), NEW list \in Ascending(Merged(Range(saved)))
  PROVE  /\ saved = <<>> => list = <<>>
         /\ \A f \in Files : (\A c \in Range(saved) : Within(c, f)) =>
                             (\A c \in Range(list) : Within(c, f))
<1> DEFINE R == Range(saved)
<1>1. /\ list \in Seq(Chunk) /\ Len(list) = Cardinality(Merged(R))
      /\ list \in [1 .. Cardinality(Merged(R)) -> Merged(R)]
  BY MergedType, AscendingType
<1>2. R \subseteq Chunk
  BY RangeIs
<1>3. ASSUME saved = <<>> PROVE list = <<>>
  <2>1. R = {}
    BY <1>3 DEF Range
  <2>2. Merged(R) = {}
    BY <2>1, NothingCovered
  <2> QED BY <1>1, <2>2, FS_EmptySet, EmptySeq, LenProperties
<1>4. ASSUME NEW f \in Files, \A c \in R : Within(c, f), NEW h \in Range(list)
      PROVE  Within(h, f)
  <2>1. h \in Merged(R)
    BY <1>1, <1>4 DEF Range
  <2>2. h \in Chunk /\ h.lo <= h.hi /\ \E c \in R : h.hi <= c.hi
    BY <2>1, MergedCovered
  <2>3. PICK c \in R : h.hi <= c.hi
    BY <2>2
  <2>4. c.hi \in Nat /\ h.hi \in Nat /\ Size[f] \in Nat
    BY <1>2, <2>2, SizeAssumption, MaxBlockAssumption DEF Chunk, Position
  <2>5. c.hi < Size[f]
    BY <1>4 DEF Within
  <2> QED BY <2>2, <2>3, <2>4, <2>5 DEF Within
<1> QED BY <1>3, <1>4

\* The slot tx after a restart is what its meta file tells of it.
SlotRestored(tx) ==
  /\ tx \in OutIds /\ Saved(tx) /\ metaOut[tx] \in OutMeta
  /\ out'[tx].file = out[tx].file /\ metaOut[tx].file = out[tx].file
  /\ out'[tx].pending \in Ascending(Merged(Range(metaOut[tx].pending)))
  /\ out'[tx].size = IF disk[out[tx].file].there THEN disk[out[tx].file].len ELSE 0

\* A restart does this to slots, and cuts off the end of the link.
RestartStep ==
  /\ UNCHANGED <<disk, in, temp, incoming, senderKnown, toSender, user>>
  /\ toReceiver' \in CutOff(toReceiver)
  /\ \A tx \in OutIds' : SlotRestored(tx)
  /\ restarts.sender < SenderRestarts /\ restarts'.sender = SenderRestarts

\* The first restart does.
LEMMA FirstRestart ==
  ASSUME RestartsSafely, TypeOK, SlotsDiffer, RestartSender
  PROVE  RestartStep
<1> DEFINE lists(tx) == Ascending(Merged(Range(metaOut[tx].pending)))
           size(tx) == IF disk[metaOut[tx].file].there THEN disk[metaOut[tx].file].len ELSE 0
           entry(tx, list) == [file |-> metaOut[tx].file, pending |-> list[tx],
                               open |-> FALSE, size |-> size(tx)]
           metas == { tx \in Ids : metaOut[tx] # NoTx }
           Live(read) == { tx \in read : metaOut[tx].live }
<1>1. restarts.sender < SenderRestarts /\ restarts'.sender = SenderRestarts
  <2>1. restarts.sender \in Nat /\ restarts.sender < SenderRestarts
        /\ restarts'.sender = restarts.sender + 1
    BY DEF RestartSender, TypeOK, LinkTypeOK
  <2>2. SenderRestarts = 0 \/ SenderRestarts = 1
    BY DEF RestartsSafely
  <2> QED BY <2>1, <2>2
<1>2. PICK read \in SUBSET metas :
        \E list \in [Live(read) -> UNION { lists(tx) : tx \in Live(read) }] :
          /\ \A tx \in Live(read) : list[tx] \in lists(tx)
          /\ out' = [tx \in Ids |-> IF tx \notin Live(read) THEN NoTx ELSE entry(tx, list)]
  BY DEF RestartSender
<1>3. PICK list \in [Live(read) -> UNION { lists(tx) : tx \in Live(read) }] :
        /\ \A tx \in Live(read) : list[tx] \in lists(tx)
        /\ out' = [tx \in Ids |-> IF tx \notin Live(read) THEN NoTx ELSE entry(tx, list)]
  BY <1>2
<1>4. ASSUME NEW tx \in OutIds' PROVE SlotRestored(tx)
  <2>1. tx \in Ids /\ tx \in Live(read) /\ out'[tx] = entry(tx, list)
    BY <1>3, <1>4 DEF OutIds
  <2>2. metaOut[tx] # NoTx /\ metaOut[tx].live
    BY <2>1
  <2>3. tx \in OutIds /\ out[tx].file = metaOut[tx].file
    BY <1>1, <2>1, <2>2 DEF SlotsDiffer, MetaFollowsSlot
  <2>4. metaOut[tx] \in OutMeta
    BY <2>1, <2>2 DEF TypeOK, SenderTypeOK
  <2>5. list[tx] \in lists(tx)
    BY <1>3, <2>1
  <2> QED BY <2>1, <2>2, <2>3, <2>4, <2>5 DEF Saved, SlotRestored
<1> QED BY <1>1, <1>4 DEF RestartStep, RestartSender, receiverVars, fates

\* What is left on the link was on it.
LEMMA RestartLink ==
  ASSUME TypeOK, RestartStep
  PROVE  Follows(toReceiver', toReceiver) /\ Range(toReceiver') \subseteq Range(toReceiver)
<1>1. toReceiver \in Seq(ToReceiver)
  BY DEF TypeOK, LinkTypeOK
<1>2. toReceiver' \in Seq(ToReceiver) /\ Follows(toReceiver', toReceiver)
  BY <1>1, CutOffType, CutOffFollows DEF RestartStep
<1> QED BY <1>1, <1>2, FollowsRange

\* A restored list that is not empty is that of a transfer the receiver has the
\* meta data of.
LEMMA RestartKeepsIds ==
  ASSUME TypeOK, ListsRight, SavedRight, RestartStep PROVE ListsRight'
<1>1. Range(toReceiver') \subseteq Range(toReceiver) /\ OutIds' \subseteq OutIds /\ InIds' = InIds
  BY RestartLink DEF RestartStep, SlotRestored, InIds
<1>2. LinkEnds'
  <2> SUFFICES ASSUME NEW tx \in Ids
               PROVE  EndsOnce(toReceiver', tx, tx \in InIds', tx \in OutIds')
    BY DEF LinkEnds
  <2> DEFINE s == toReceiver
             t == toReceiver'
             there == tx \in InIds
             sending == tx \in OutIds
  <2>1. s \in Seq(ToReceiver) /\ t \in Seq(ToReceiver) /\ Follows(t, s)
        /\ EndsOnce(s, tx, there, sending)
    BY RestartLink, CutOffType DEF TypeOK, LinkTypeOK, ListsRight, LinkEnds, RestartStep
  <2>2. EndsOnce(t, tx, there, sending)
    <3> HIDE DEF s, t, there, sending
    <3> QED BY <2>1, EndsFollow
  <2> QED BY <1>1, <2>2 DEF EndsOnce
<1>3. DataFollowsMeta'
  <2> SUFFICES ASSUME NEW tx \in Ids PROVE Unasked(tx)' \/ Described(tx)' \/ Over(tx)'
    BY DEF DataFollowsMeta
  <2>1. CASE Described(tx)
    BY <1>1, <2>1 DEF Described, RestartStep
  <2>2. CASE Over(tx)
    BY <1>1, <2>2 DEF Over
  <2>3. CASE Unasked(tx) /\ ~Described(tx)
    <3>1. ASSUME tx \in OutIds' PROVE out'[tx].pending = <<>>
      <4>1. SlotRestored(tx)
        BY <3>1 DEF RestartStep
      <4>2. metaOut[tx].pending = <<>>
        BY <2>3, <4>1 DEF Saved, SavedRight, SlotRestored, RestartStep
      <4>3. metaOut[tx].pending \in Seq(Chunk)
        BY <4>1 DEF SlotRestored, OutMeta
      <4> QED BY <4>1, <4>2, <4>3, RestoredList DEF SlotRestored
    <3> QED BY <1>1, <2>3, <3>1 DEF Unasked, RestartStep
  <2> QED BY <2>1, <2>2, <2>3 DEF ListsRight, DataFollowsMeta
<1>4. ListsFit'
  BY DEF ListsRight, ListsFit, FailedFiles, Failed, RestartStep
<1>5. Leftovers'
  BY <1>1 DEF ListsRight, Leftovers, Over, RestartStep
<1> QED BY <1>2, <1>3, <1>4, <1>5 DEF ListsRight

-----------------------------------------------------------------------------
(* Every step but a restart, as long as the links keep their order and no id  *)
(* is taken that is still spoken of.                                          *)

UserStep ==
  /\ UNCHANGED <<out, nextId, in, temp, incoming, senderKnown, toReceiver, toSender>>
  /\ \E f \in Files : PutFile(f) \/ DisturbFile(f)

ReceiverHandles == ReceiveMeta \/ ReceiveData \/ ReceiveQueue \/ ReceiveCancel

ProtocolStep ==
  UserStep \/ SenderStep \/ (ReceiverHandles /\ ReceiverStep /\ ListsFit')

\* What the proofs below look at in a step.
LEMMA StepIsOne ==
  ASSUME Ordered, TypeOK, SlotsFit, ListsRight, [TakesUnused]_vars, [Next]_vars,
         ~RestartSender, ~RestartReceiver
  PROVE  ProtocolStep
<1>1. ASSUME NEW f \in Files, PutFile(f) \/ DisturbFile(f) PROVE ProtocolStep
  BY <1>1 DEF ProtocolStep, UserStep, PutFile, DisturbFile, senderVars, receiverVars
<1>2. CASE UNCHANGED vars
  <2>1. UNCHANGED <<in, temp, incoming, senderKnown, user, disk, out, nextId, toReceiver, toSender>>
    BY <1>2 DEF vars, senderVars, receiverVars, fates
  <2>2. \A m \in Range(toSender') : m \in Range(toSender)
    BY <2>1
  <2> QED BY <2>1, <2>2, QuietStep DEF ProtocolStep
<1>3. CASE ListOutgoing \/ ReqMetaTimeout \/ PeerSendQueue \/ SendQueue \/ Lose \/ Duplicate
  BY <1>3, ListOutgoingStep, PeerSendQueueStep, SendQueueStep, LinkStep DEF ProtocolStep
<1>4. CASE (TakesUnused /\ ScanFile) \/ SendBlock \/ GiveUp \/ ReadFails
  BY <1>4, ScanFileStep, SendBlockStep, GiveUpStep DEF ProtocolStep
<1>5. CASE ReceivePeerQueue \/ ReceiveReqMeta \/ ReceiveReqData \/ ReceiveComplete
  BY <1>5, ReceivePeerQueueStep, ReceiveReqMetaStep, ReceiveReqDataStep, ReceiveCompleteStep
  DEF ProtocolStep
<1>6. CASE ReceiveMeta \/ ReceiveData \/ ReceiveQueue \/ ReceiveCancel
  BY <1>6, ReceiveMetaStep, ReceiveDataStep, ReceiveQueueStep, ReceiveCancelStep
  DEF ProtocolStep, ReceiverHandles
<1> QED BY <1>1, <1>2, <1>3, <1>4, <1>5, <1>6 DEF Next

\* Nothing is listed at the start ...
LEMMA ListsRightInit == Init => ListsRight
<1> SUFFICES ASSUME Init PROVE ListsRight
  OBVIOUS
<1>1. /\ OutIds = {} /\ InIds = {} /\ toReceiver = <<>> /\ toSender = <<>>
      /\ \A tx \in Ids : in[tx] = NoTx /\ temp[tx] = {}
  BY DEF Init, OutIds, InIds
<1>2. Range(toReceiver) = {} /\ Range(toSender) = {}
  BY <1>1 DEF Range
<1>3. DataFollowsMeta
  BY <1>1, <1>2 DEF DataFollowsMeta, Unasked
<1>4. LinkEnds
  BY <1>1 DEF LinkEnds, EndsOnce
<1>5. ListsFit
  BY <1>1 DEF ListsFit, TablesFit
<1>6. Leftovers
  BY <1>1 DEF Leftovers
<1> QED BY <1>3, <1>4, <1>5, <1>6 DEF ListsRight

\* The user and other programs fail no file and take no failure back.
LEMMA UserFailsNone == ASSUME TypeOK, UserStep PROVE FailedFiles' = FailedFiles
<1>1. PICK f \in Files : PutFile(f) \/ DisturbFile(f)
  BY DEF UserStep
<1>2. /\ user[f] # "failed" /\ user'[f] # "failed"
      /\ \A g \in Files \ {f} : user'[g] = user[g]
  BY <1>1 DEF PutFile, DisturbFile, TypeOK, LinkTypeOK
<1> QED BY <1>2 DEF FailedFiles, Failed

\* ... and each step keeps what is listed right.
LEMMA ListsRightStep ==
  ASSUME TypeOK, TypeOK', ListsRight, ProtocolStep PROVE ListsRight'
<1>1. CASE UserStep
  <2>1. LinkEnds'
    BY <1>1 DEF UserStep, ListsRight, LinkEnds, OutIds, InIds
  <2>2. DataFollowsMeta'
    BY <1>1 DEF UserStep, ListsRight, DataFollowsMeta, Unasked, Described, Over, OutIds, InIds
  <2>3. ListsFit'
    BY <1>1, UserFailsNone DEF UserStep, ListsRight, ListsFit
  <2>4. Leftovers'
    BY <1>1 DEF UserStep, ListsRight, Leftovers, Over, OutIds, InIds
  <2> QED BY <2>1, <2>2, <2>3, <2>4 DEF ListsRight
<1> QED BY <1>1, SenderKeepsIds, ReceiverKeepsIds DEF ProtocolStep

\* A transfer whose id is in a slot keeps the meta data at the receiver.
LEMMA DescribedStays ==
  ASSUME TypeOK, ListsRight, ProtocolStep, NEW tx \in Ids, Described(tx), tx \in OutIds'
  PROVE  Described(tx)'
<1>1. CASE UserStep \/ SenderStep
  BY <1>1 DEF UserStep, SenderStep, Described, InIds
<1>2. CASE ReceiverStep
  <2>1. tx \in OutIds /\ tx \in InIds /\ in[tx].havemeta
    BY <1>2 DEF ReceiverStep, OutIds, Described
  <2>2. ASSUME in'[tx] = NoTx PROVE FALSE
    <3>1. Cancels(toReceiver[1], tx) \/ LeavesOut(toReceiver[1], tx)
      BY <1>2, <2>1, <2>2 DEF ReceiverStep, EntriesFollow, TablesFollow
    <3>2. EndsAt(toReceiver, 1, tx, tx \in InIds)
      BY <2>1, <3>1 DEF EndsAt
    <3>3. 1 \in 1 .. Len(toReceiver)
      BY <1>2 DEF ReceiverStep
    <3> QED BY <2>1, <3>2, <3>3 DEF ListsRight, LinkEnds, EndsOnce
  <2> QED BY <1>2, <2>1, <2>2 DEF ReceiverStep, EntriesFollow, TablesFollow, Described, InIds
<1> QED BY <1>1, <1>2 DEF ProtocolStep

\* So what a restart would read stays right.
LEMMA SavedRightStep ==
  ASSUME TypeOK, ListsRight, ListsRight', SlotsDiffer', SavedRight, MetasFollow, ProtocolStep,
         restarts'.sender = restarts.sender
  PROVE  SavedRight'
<1> SUFFICES ASSUME restarts.sender < SenderRestarts, NEW tx \in Ids, metaOut'[tx] # NoTx, metaOut'[tx].live,
                    metaOut'[tx].pending # <<>>
             PROVE  Described(tx)'
  BY DEF Saved, SavedRight
<1>1. tx \in OutIds'
  BY DEF SlotsDiffer, MetaFollowsSlot
<1>2. CASE metaOut'[tx] = metaOut[tx]
  <2>1. Described(tx)
    BY <1>2 DEF Saved, SavedRight
  <2> QED BY <1>1, <2>1, DescribedStays
<1>3. CASE metaOut'[tx].pending = out'[tx].pending
  BY <1>1, <1>3 DEF ListsRight, DataFollowsMeta, Unasked, Over
<1> QED BY <1>2, <1>3 DEF MetasFollow

\* What is invariant of ids and lists, with files of any size.
Listed == TypeOK /\ SlotsFit /\ SlotsDiffer /\ ListsRight /\ SavedRight

\* A step that is no restart, and leaves the meta files in line with the slots.
RunningStep == ProtocolStep /\ MetasFollow /\ restarts'.sender = restarts.sender

\* It holds at the start ...
LEMMA ListedInit == Init => Listed
<1>1. Init => SavedRight
  BY DEF Init, SavedRight, Saved
<1> QED BY <1>1, InitType, SlotsFitInit, SlotsDifferInit, ListsRightInit DEF Listed

\* ... and every step keeps it, the one restart of the sender included.
LEMMA ListedStep ==
  ASSUME Ordered, RestartsSafely, ReceiverRestarts = 0,
         Listed, [TakesUnused]_vars, [Next]_vars
  PROVE  Listed' /\ (RunningStep \/ RestartStep)
<1>1. TypeOK' /\ SlotsFit' /\ SlotsDiffer'
  BY NextType, SlotsFitStep, SlotsDifferStep DEF Listed
<1>2. ~RestartReceiver
  BY DEF Listed, TypeOK, LinkTypeOK, RestartReceiver
<1>3. CASE RestartSender
  <2>1. RestartStep
    BY <1>3, FirstRestart DEF Listed
  <2>2. ListsRight'
    BY <2>1, RestartKeepsIds DEF Listed
  <2>3. SavedRight'
    BY <2>1, BoundsAssumption DEF SavedRight, RestartStep
  <2> QED BY <1>1, <2>1, <2>2, <2>3 DEF Listed
<1>4. CASE ~RestartSender
  <2>1. ProtocolStep
    BY <1>2, <1>4, StepIsOne DEF Listed
  <2>2. RunningStep
    BY <1>4, <2>1, MetaSteps, SlotSteps DEF Listed, RunningStep
  <2>3. ListsRight'
    BY <1>1, <2>1, ListsRightStep DEF Listed
  <2>4. SavedRight'
    BY <1>1, <2>2, <2>3, SavedRightStep DEF Listed, RunningStep
  <2> QED BY <1>1, <2>2, <2>3, <2>4 DEF Listed
<1> QED BY <1>3, <1>4

\* As long as a file is only given a transaction id that is spoken of nowhere, a
\* progress list says exactly which blocks the temporary file of its transfer
\* holds, whatever is lost, duplicated or disturbed, when the sender is restarted
\* once, and however many calls fail: but for the file on which one failed.
THEOREM ListsTellTheTruth ==
  ASSUME Ordered, RestartsSafely, ReceiverRestarts = 0
  PROVE  Spec /\ [][TakesUnused]_vars => []ProgressOnDisk
<1>1. Listed /\ [TakesUnused]_vars /\ [Next]_vars => Listed'
  BY ListedStep
<1>2. Listed => ProgressOnDisk
  BY NoFileAssumption
  DEF Listed, ListsRight, ListsFit, TablesFit, ListFits, FailedFiles, ProgressOnDisk, InIds
<1> QED BY <1>1, <1>2, ListedInit, PTL DEF Spec

-----------------------------------------------------------------------------
(* Ranges within a file: what is asked for, and what is sent. *)

\* The bounds of a range that may be asked for.
LEMMA ChunkFacts ==
  ASSUME NEW c \in Chunk
  PROVE  c.lo \in Nat /\ c.hi \in Nat /\ c.lo <= MaxBlock /\ c.hi <= MaxBlock
  BY MaxBlockAssumption DEF Chunk, Position

\* An element is inserted in a list.
LEMMA InsertAtIs ==
  ASSUME NEW T, NEW s \in Seq(T), NEW i \in 1 .. Len(s), NEW e \in T
  PROVE  /\ InsertAt(s, i, e) \in Seq(T)
         /\ Range(InsertAt(s, i, e)) \subseteq Range(s) \cup {e}
<1> DEFINE before == SubSeq(s, 1, i - 1)
           after == SubSeq(s, i, Len(s))
           one == <<e>>
<1>1. Len(s) \in Nat
  BY LenProperties
<1>2. before \in Seq(T) /\ Range(before) \subseteq Range(s)
  <2>1. \A k \in 1 .. i - 1 : s[k] \in T BY <1>1, ElementOfSeq
  <2>2. /\ before \in Seq(T) /\ Len(before) = IF 1 <= i - 1 THEN i - 1 - 1 + 1 ELSE 0
        /\ \A k \in 1 .. i - 1 - 1 + 1 : before[k] = s[1 + k - 1]
    BY <1>1, <2>1, SubSeqProperties
  <2>3. Len(before) = i - 1 /\ \A k \in 1 .. i - 1 : before[k] = s[k] /\ k \in 1 .. Len(s)
    BY <1>1, <2>2
  <2> HIDE DEF before
  <2>4. \A x \in Range(before) : \E k \in 1 .. i - 1 : x = before[k]
    BY <2>2, <2>3, RangeIs
  <2>5. \A k \in 1 .. Len(s) : s[k] \in Range(s)
    BY RangeIs
  <2> QED BY <2>2, <2>3, <2>4, <2>5
<1>3. after \in Seq(T) /\ Range(after) \subseteq Range(s)
  <2>1. \A k \in i .. Len(s) : s[k] \in T BY <1>1, ElementOfSeq
  <2>2. /\ after \in Seq(T)
        /\ Len(after) = IF i <= Len(s) THEN Len(s) - i + 1 ELSE 0
        /\ \A k \in 1 .. Len(s) - i + 1 : after[k] = s[i + k - 1]
    BY <1>1, <2>1, SubSeqProperties
  <2>3. Len(after) = Len(s) - i + 1
        /\ \A k \in 1 .. Len(s) - i + 1 : after[k] = s[i + k - 1] /\ i + k - 1 \in 1 .. Len(s)
    BY <1>1, <2>2
  <2> HIDE DEF after
  <2>4. \A x \in Range(after) : \E k \in 1 .. Len(s) - i + 1 : x = after[k]
    BY <2>2, <2>3, RangeIs
  <2>5. \A k \in 1 .. Len(s) - i + 1 : s[i + k - 1] \in Range(s)
    <3>1. \A k \in 1 .. Len(s) : s[k] \in Range(s)
      BY RangeIs
    <3> QED BY <2>3, <3>1
  <2> QED BY <2>2, <2>3, <2>4, <2>5
<1>4. one \in Seq(T) /\ Range(one) = {e}
  BY DEF Range
<1>5. InsertAt(s, i, e) = before \o one \o after
  BY DEF InsertAt
<1> HIDE DEF before, after, one
<1>6. before \o one \in Seq(T) /\ Range(before \o one) = Range(before) \cup {e}
  BY <1>2, <1>4, RangeConcat, ConcatIs
<1> DEFINE left == before \o one
<1> HIDE DEF left
<1>7. left \o after \in Seq(T) /\ Range(left \o after) = Range(left) \cup Range(after)
  <2>1. left \in Seq(T) /\ after \in Seq(T) BY <1>3, <1>6 DEF left
  <2>2. Range(left \o after) = Range(left) \cup Range(after) BY <2>1, RangeConcat
  <2>3. left \o after \in Seq(T) BY <2>1, ConcatIs
  <2> QED BY <2>2, <2>3
<1>8. InsertAt(s, i, e) = left \o after /\ Range(left) = Range(before) \cup {e}
  BY <1>4, <1>5, <1>6 DEF left
<1> QED BY <1>2, <1>3, <1>7, <1>8

\* A hole asked for is merged into a list: all stays within the file.
LEMMA InsertHoleWithin ==
  ASSUME NEW f \in Files, NEW info \in Seq(Chunk), NEW h \in Chunk,
         \A c \in Range(info) : Within(c, f), Within(h, f)
  PROVE  \A c \in Range(InsertHole(info, h)) : Within(c, f)
<1>1. CASE Stops(info, h) = {}
  <2>1. InsertHole(info, h) = Append(info, h) BY <1>1 DEF InsertHole
  <2> QED BY <2>1, RangeAppend
<1>2. CASE Stops(info, h) # {}
  <2> DEFINE j == Min(Stops(info, h))
             e == info[j]
  <2>0. Stops(info, h) \subseteq 1 .. Len(info) /\ Stops(info, h) \subseteq Nat
    BY DEF Stops
  <2>1. j \in 1 .. Len(info) /\ j \in Stops(info, h)
    BY <1>2, <2>0, MinOfNat
  <2>2. e \in Chunk /\ Within(e, f)
    BY <2>1, ElementOfSeq, RangeIs
  <2>3. h = e \/ StartsBefore(h, e) \/ ExtendsEnd(h, e)
    BY <2>1 DEF Stops
  <2>4. /\ e.lo \in Nat /\ e.hi \in Nat /\ h.lo \in Nat /\ h.hi \in Nat
        /\ Succ(h.hi) \in Int /\ Size[f] \in Nat
    BY <2>2, ChunkFacts, SizeAssumption, MaxBlockAssumption DEF Succ, Position
  <2>5. InsertHole(info, h) =
          CASE h = e -> info
            [] StartsBefore(h, e) /\ Succ(h.hi) < e.lo -> InsertAt(info, j, h)
            [] StartsBefore(h, e) /\ Succ(h.hi) >= e.lo -> [info EXCEPT ![j].lo = h.lo]
            [] ExtendsEnd(h, e) -> [info EXCEPT ![j].hi = h.hi]
    BY <1>2 DEF InsertHole
  <2>6. ASSUME NEW d \in Chunk, Within(d, f)
        PROVE  \A c \in Range([info EXCEPT ![j] = d]) : Within(c, f)
    <3> DEFINE u == [info EXCEPT ![j] = d]
    <3>1. u \in Seq(Chunk) /\ Len(u) = Len(info)
          /\ \A k \in 1 .. Len(info) : u[k] = IF k = j THEN d ELSE info[k]
      BY <2>1, ExceptSeq
    <3> HIDE DEF u
    <3>2. \A c \in Range(u) : \E k \in 1 .. Len(info) : c = u[k]
      BY <3>1, RangeIs
    <3>3. \A k \in 1 .. Len(info) : info[k] \in Range(info)
      BY RangeIs
    <3> QED BY <2>6, <3>1, <3>2, <3>3 DEF u
  <2>7. StartsBefore(h, e) => Within([e EXCEPT !.lo = h.lo], f) /\ [e EXCEPT !.lo = h.lo] \in Chunk
    <3>1. [e EXCEPT !.lo = h.lo] \in Chunk /\ [e EXCEPT !.lo = h.lo].lo = h.lo
          /\ [e EXCEPT !.lo = h.lo].hi = e.hi
      BY <2>2 DEF Chunk
    <3> QED BY <2>2, <2>4, <3>1 DEF StartsBefore, Within
  <2>8. ExtendsEnd(h, e) => Within([e EXCEPT !.hi = h.hi], f) /\ [e EXCEPT !.hi = h.hi] \in Chunk
    <3>1. [e EXCEPT !.hi = h.hi] \in Chunk /\ [e EXCEPT !.hi = h.hi].lo = e.lo
          /\ [e EXCEPT !.hi = h.hi].hi = h.hi
      BY <2>2 DEF Chunk
    <3> QED BY <2>2, <2>4, <3>1 DEF ExtendsEnd, Within
  <2>9. \A c \in Range(InsertAt(info, j, h)) : Within(c, f)
    BY <2>1, InsertAtIs
  <2>10. /\ [info EXCEPT ![j].lo = h.lo] = [info EXCEPT ![j] = [e EXCEPT !.lo = h.lo]]
         /\ [info EXCEPT ![j].hi = h.hi] = [info EXCEPT ![j] = [e EXCEPT !.hi = h.hi]]
    OBVIOUS
  <2>11. Succ(h.hi) < e.lo \/ Succ(h.hi) >= e.lo
    BY <2>4
  <2>12. ~StartsBefore(h, e) \/ ~ExtendsEnd(h, e)
    BY <2>4 DEF StartsBefore, ExtendsEnd
  <2> DEFINE near == [info EXCEPT ![j] = [e EXCEPT !.lo = h.lo]]
             far == [info EXCEPT ![j] = [e EXCEPT !.hi = h.hi]]
  <2>13. /\ StartsBefore(h, e) => \A c \in Range(near) : Within(c, f)
         /\ ExtendsEnd(h, e) => \A c \in Range(far) : Within(c, f)
    BY <2>6, <2>7, <2>8
  <2>14. InsertHole(info, h) =
           CASE h = e -> info
             [] StartsBefore(h, e) /\ Succ(h.hi) < e.lo -> InsertAt(info, j, h)
             [] StartsBefore(h, e) /\ Succ(h.hi) >= e.lo -> near
             [] ExtendsEnd(h, e) -> far
    BY <2>5, <2>10
  <2> HIDE DEF j, e, near, far
  <2> QED BY <2>3, <2>9, <2>11, <2>12, <2>13, <2>14
<1> QED BY <1>1, <1>2

\* So does what is left after a block is sent.
LEMMA FirstSentWithin ==
  ASSUME NEW f \in Files, NEW info \in Seq(Chunk), info # <<>>,
         \A c \in Range(info) : Within(c, f)
  PROVE  \A c \in Range(FirstSent(info, 1)) : Within(c, f)
<1>1. 1 \in 1 .. Len(info) /\ Len(info) \in Nat /\ info[1] \in Chunk /\ Within(info[1], f)
  <2>1. 1 \in 1 .. Len(info) /\ Len(info) \in Nat BY EmptySeq, LenProperties
  <2> QED BY <2>1, ElementOfSeq, RangeIs
<1>2. CASE info[1].lo + 1 > info[1].hi
  <2>1. FirstSent(info, 1) = Tail(info) BY <1>2 DEF FirstSent
  <2>2. /\ Tail(info) \in Seq(Chunk) /\ Len(Tail(info)) = Len(info) - 1
        /\ \A i \in 1 .. Len(Tail(info)) : Tail(info)[i] = info[i + 1]
    BY HeadTailProperties
  <2>3. \A i \in 1 .. Len(Tail(info)) : i + 1 \in 1 .. Len(info)
    BY <1>1, <2>2
  <2>4. \A c \in Range(Tail(info)) : \E i \in 1 .. Len(Tail(info)) : c = Tail(info)[i]
    BY <2>2, RangeIs
  <2>5. \A i \in 1 .. Len(Tail(info)) : info[i + 1] \in Range(info)
    <3>1. \A i \in 1 .. Len(info) : info[i] \in Range(info)
      BY RangeIs
    <3> QED BY <2>3, <3>1
  <2> QED BY <2>1, <2>2, <2>4, <2>5
<1>3. CASE ~(info[1].lo + 1 > info[1].hi)
  <2> DEFINE d == [info[1] EXCEPT !.lo = info[1].lo + 1]
             u == [info EXCEPT ![1] = d]
  <2>1. FirstSent(info, 1) = u BY <1>3 DEF FirstSent
  <2>2. d.lo = info[1].lo + 1 /\ d.hi = info[1].hi
    BY <1>1 DEF Chunk
  <2>3. info[1].lo \in Nat /\ info[1].hi \in Nat /\ info[1].lo + 1 <= MaxBlock
    BY <1>1, <1>3, ChunkFacts, MaxBlockAssumption
  <2>4. d \in Chunk /\ Within(d, f)
    BY <1>1, <1>3, <2>2, <2>3, MaxBlockAssumption DEF Chunk, Position, Within
  <2>5. u \in Seq(Chunk) /\ Len(u) = Len(info)
        /\ \A k \in 1 .. Len(info) : u[k] = IF k = 1 THEN d ELSE info[k]
    <3> HIDE DEF d
    <3> QED BY <1>1, <2>4, ExceptSeq
  <2> HIDE DEF u, d
  <2>6. \A c \in Range(u) : \E k \in 1 .. Len(info) : c = u[k]
    BY <2>5, RangeIs
  <2>7. \A k \in 1 .. Len(info) : info[k] \in Range(info)
    BY RangeIs
  <2> QED BY <2>1, <2>4, <2>5, <2>6, <2>7
<1> QED BY <1>2, <1>3

\* What the receiver asks for lies within the file.
LEMMA HolesWithin ==
  ASSUME NEW f \in Files, 0 < Size[f], NEW got, got \subseteq 0 .. Size[f] - 1
  PROVE  \A h \in Holes(got, Size[f]) : Within(h, f)
<1> DEFINE n == Size[f]
           from == got \cup {-1}
           inner == { p \in from \X got : Consecutive(got, p[1], p[2]) /\ p[1] + 1 # p[2] }
           last == { a \in from : (\A c \in got : c <= a) /\ a + 1 # n }
<1>1. n \in Nat /\ 0 < n
  BY SizeAssumption, MaxBlockAssumption DEF Position
<1>2. ASSUME NEW p \in inner
      PROVE  Within([lo |-> p[1] + 1, hi |-> p[2] - 1], f)
  <2>0. p[1] \in from /\ p[2] \in got /\ p[1] < p[2] /\ p[1] + 1 # p[2]
    BY DEF Consecutive
  <2>1. p[1] \in -1 .. n - 1 /\ p[2] \in 0 .. n - 1 /\ p[1] < p[2] /\ p[1] + 1 # p[2]
    <3>1. got \subseteq 0 .. n - 1 OBVIOUS
    <3>2. \A x \in from : x \in -1 .. n - 1 BY <1>1, <3>1
    <3> QED BY <2>0, <3>1, <3>2
  <2>2. p[1] + 1 <= p[2] - 1 /\ p[2] - 1 < n
    BY <1>1, <2>1
  <2> QED BY <2>2 DEF Within
<1>3. ASSUME NEW a \in last
      PROVE  Within([lo |-> a + 1, hi |-> Pred(n)], f)
  <2>1. a \in -1 .. n - 1 /\ a + 1 # n
    BY <1>1
  <2>2. Pred(n) = n - 1
    BY <1>1 DEF Pred
  <2>3. a + 1 <= Pred(n) /\ Pred(n) < n
    BY <1>1, <2>1, <2>2
  <2> QED BY <2>3 DEF Within
<1>4. Holes(got, n) = { [lo |-> p[1] + 1, hi |-> p[2] - 1] : p \in inner }
                           \cup { [lo |-> a + 1, hi |-> Pred(n)] : a \in last }
  BY DEF Holes
<1> HIDE DEF inner, last
<1> QED BY <1>2, <1>3, <1>4

-----------------------------------------------------------------------------
(* The list of what has been received of a file of at most three blocks.      *)

\* In a list with a gap between any two ranges the walk stops at one range at
\* most, the one that holds the block if there is one.
LEMMA SpacedFirst ==
  ASSUME NEW R \in SUBSET Run, NEW b \in Block, NoneEmpty(R), Spaced(R)
  PROVE  /\ \A c, d \in First(R, b) : c = d
         /\ \A c \in R : c.lo <= b /\ b <= c.hi => First(R, b) = {c}
<1>1. b \in Nat /\ \A c \in R : c.lo \in Nat /\ c.hi \in Nat /\ c.lo <= c.hi
  BY RunFacts, MaxBlockAssumption DEF Block, NoneEmpty
<1>2. First(R, b) \subseteq R /\ \A c, d \in First(R, b) : c.lo = d.lo
  BY FirstFacts
<1>3. \A c, d \in R : c = d \/ c.hi + 1 < d.lo \/ d.hi + 1 < c.lo
  BY DEF Spaced
<1>4. ASSUME NEW c \in First(R, b), NEW d \in First(R, b) PROVE c = d
  <2>1. c \in R /\ d \in R /\ c.lo = d.lo BY <1>2
  <2>2. ~(c.hi + 1 < d.lo) /\ ~(d.hi + 1 < c.lo) BY <1>1, <2>1
  <2> QED BY <1>3, <2>1, <2>2
<1>5. ASSUME NEW c \in R, c.lo <= b, b <= c.hi PROVE First(R, b) = {c}
  <2>1. c \in Near(R, b) BY <1>1, <1>5 DEF Near
  <2>2. ASSUME NEW d \in Near(R, b), d # c PROVE c.lo <= d.lo
    <3>1. d \in R /\ b <= d.hi + 1 BY DEF Near
    <3>2. ~(d.hi + 1 < c.lo) BY <1>1, <1>5, <3>1
    <3>3. c.hi + 1 < d.lo BY <1>3, <2>2, <3>1, <3>2
    <3> QED BY <1>1, <3>1, <3>3
  <2>3. c \in First(R, b)
    <3>1. c.lo <= c.lo BY <1>1
    <3> QED BY <2>1, <2>2, <3>1 DEF First
  <2> QED BY <1>4, <2>3
<1> QED BY <1>4, <1>5

\* A block that changes such a list was not there before, and counts for one.
LEMMA AbsorbFresh ==
  ASSUME NEW R \in SUBSET Run, NEW b \in Block, NoneEmpty(R), Spaced(R), Absorb(R, b) # R
  PROVE  b \notin Positions(R) /\ Count(Absorb(R, b)) = Count(R) + 1
<1>1. b \in Nat /\ \A c \in R : c.lo \in Nat /\ c.hi \in Nat /\ c.lo <= c.hi
  BY RunFacts, MaxBlockAssumption DEF Block, NoneEmpty
<1>2. ASSUME NEW c \in R, c.lo <= b, b <= c.hi PROVE FALSE
  <2>1. First(R, b) = {c}
    BY <1>2, SpacedFirst
  <2>2. c = [lo |-> c.lo, hi |-> c.hi]
    BY DEF Run
  <2>3. Grown(c, b) = c
    <3>1. b + 1 # c.lo /\ b # c.hi + 1 BY <1>1, <1>2
    <3> QED BY <2>2, <3>1 DEF Grown
  <2>4. ~(b + 1 < c.lo)
    BY <1>1, <1>2
  <2>5. Absorb(R, b) = (R \ First(R, b)) \cup { Grown(d, b) : d \in First(R, b) }
    BY <2>1, <2>4, AbsorbIs
  <2> QED BY <2>1, <2>3, <2>5
<1>3. b \notin Positions(R)
  BY <1>2 DEF Positions, Covered
<1>4. Positions(Absorb(R, b)) = Positions(R) \cup {b}
  BY AbsorbPositions
<1>5. IsFiniteSet(Positions(R))
  <2>1. Positions(R) \in SUBSET Position BY DEF Positions
  <2>2. IsFiniteSet(Position) BY FS_Interval, MaxBlockAssumption DEF Position
  <2> QED BY <2>1, <2>2, FS_Subset
<1>6. Cardinality(Positions(R) \cup {b}) = Cardinality(Positions(R)) + 1
  BY <1>3, <1>5, FS_AddElement
<1> QED BY <1>3, <1>4, <1>6 DEF Count

\* The ranges stay apart, unless the block is what was missing of three.
LEMMA AbsorbSpaced ==
  ASSUME NEW R \in SUBSET Run, NEW b \in Block, NoneEmpty(R), Spaced(R), b \notin Positions(R),
         NEW n \in Nat, n <= 3, b < n, \A c \in R : c.hi < n
  PROVE  Spaced(Absorb(R, b)) \/ \A k \in 0 .. n - 1 : Covered(Absorb(R, b), k)
<1>1. b \in Nat /\ b \in Position
      /\ \A c \in R : c.lo \in Nat /\ c.hi \in Nat /\ c.lo <= c.hi /\ c.hi < n
  BY RunFacts, MaxBlockAssumption DEF Block, NoneEmpty, Position
<1>2. \A c, d \in R : c = d \/ c.hi + 1 < d.lo \/ d.hi + 1 < c.lo
  BY DEF Spaced
<1>3. First(R, b) \subseteq R /\ \A c \in First(R, b) : b <= c.hi + 1
  BY FirstFacts
<1>4. \A c \in R : b < c.lo \/ c.hi < b
  BY <1>1 DEF Positions, Covered
<1>5. CASE /\ First(R, b) # {} /\ \A c \in First(R, b) : c.lo <= b + 1
           /\ Absorb(R, b) = (R \ First(R, b)) \cup { Grown(c, b) : c \in First(R, b) }
  <2>1. PICK c \in R : First(R, b) = {c} /\ b <= c.hi + 1 /\ c.lo <= b + 1
    BY <1>3, <1>5, SpacedFirst
  <2> DEFINE g == Grown(c, b)
  <2>2. Absorb(R, b) = (R \ {c}) \cup {g}
    BY <1>5, <2>1
  <2>3. /\ g.lo \in Nat /\ g.hi \in Nat /\ g.lo <= c.lo
        /\ g.lo = c.lo \/ g.lo = b
        /\ g.hi = c.hi \/ (g.hi = b /\ b = c.hi + 1)
    <3>1. g.lo \in Nat /\ g.hi \in Nat /\ g.lo <= c.lo
      BY <1>1, <2>1, GrownCovers
    <3>2. /\ g.lo = IF b + 1 = c.lo THEN b ELSE c.lo
          /\ g.hi = IF b = c.hi + 1 THEN b ELSE c.hi
      BY DEF Grown
    <3> HIDE DEF g
    <3> QED BY <3>1, <3>2
  <2> HIDE DEF g
  <2>4. CASE \A r \in R \ {c} : r.hi + 1 < g.lo \/ g.hi + 1 < r.lo
    <3>1. \A r, s \in Absorb(R, b) : r = s \/ r.hi + 1 < s.lo \/ s.hi + 1 < r.lo
      BY <1>2, <2>2, <2>4
    <3> QED BY <3>1 DEF Spaced
  <2>5. ASSUME NEW r \in R \ {c}, ~(r.hi + 1 < g.lo \/ g.hi + 1 < r.lo)
        PROVE  \A k \in 0 .. n - 1 : Covered(Absorb(R, b), k)
    <3>1. r \in R /\ (r.hi + 1 < c.lo \/ c.hi + 1 < r.lo)
      BY <1>2
    <3>2. ASSUME r.hi + 1 < c.lo PROVE FALSE
      <4>1. r \notin Near(R, b)
        <5>1. c \in First(R, b) BY <2>1
        <5>2. r \in Near(R, b) => c.lo <= r.lo BY <5>1 DEF First
        <5> QED BY <1>1, <3>1, <3>2, <5>2
      <4>2. r.hi + 1 < b
        BY <1>1, <3>1, <4>1 DEF Near
      <4> QED BY <1>1, <2>3, <2>5, <3>1, <3>2, <4>2
    <3>3. c.hi + 1 < r.lo
      BY <3>1, <3>2
    <3>4. b = c.hi + 1 /\ r.lo = b + 1
      BY <1>1, <1>4, <2>1, <2>3, <2>5, <3>1, <3>3
    <3>5. b = 1 /\ c.lo = 0 /\ c.hi = 0 /\ r.lo = 2 /\ r.hi = 2 /\ n = 3
      BY <1>1, <3>1, <3>4
    <3>6. Covered(R, 0) /\ Covered(R, 2)
      BY <3>1, <3>5 DEF Covered
    <3>7. Covered(Absorb(R, b), 0) /\ Covered(Absorb(R, b), 1) /\ Covered(Absorb(R, b), 2)
      <4>1. \A k \in Int : Covered(Absorb(R, b), k) <=> Covered(R, k) \/ k = b
        BY AbsorbCovers
      <4> QED BY <3>5, <3>6, <4>1
    <3>8. \A k \in 0 .. n - 1 : k = 0 \/ k = 1 \/ k = 2
      BY <3>5
    <3> QED BY <3>7, <3>8
  <2> QED BY <2>4, <2>5
<1>6. CASE /\ \A c \in First(R, b) : b + 1 < c.lo
           /\ Absorb(R, b) = R \cup {[lo |-> b, hi |-> b]}
  <2>1. ASSUME NEW r \in R PROVE r.hi + 1 < b \/ b + 1 < r.lo
    <3>1. CASE r \notin Near(R, b)
      BY <1>1, <3>1 DEF Near
    <3>2. CASE r \in Near(R, b)
      <4> DEFINE S == { c.lo : c \in Near(R, b) }
      <4>1. S \subseteq Nat /\ r.lo \in S
        BY <1>1, <3>2 DEF Near
      <4> HIDE DEF S
      <4>2. Min(S) \in S /\ \A x \in S : Min(S) <= x
        BY <4>1, MinOfNat
      <4>3. PICK c \in Near(R, b) : c.lo = Min(S)
        BY <4>2 DEF S
      <4>4. \A d \in Near(R, b) : c.lo <= d.lo
        BY <4>2, <4>3 DEF S
      <4>5. c \in First(R, b)
        BY <4>4 DEF First
      <4>6. b + 1 < c.lo /\ c.lo <= r.lo /\ c \in R
        BY <1>3, <1>6, <3>2, <4>4, <4>5
      <4> QED BY <1>1, <4>6
    <3> QED BY <3>1, <3>2
  <2> DEFINE one == [lo |-> b, hi |-> b]
  <2>2. one.lo = b /\ one.hi = b /\ Absorb(R, b) = R \cup {one}
    BY <1>6
  <2> HIDE DEF one
  <2>3. \A r, s \in Absorb(R, b) : r = s \/ r.hi + 1 < s.lo \/ s.hi + 1 < r.lo
    BY <1>2, <2>1, <2>2
  <2> QED BY <2>3 DEF Spaced
<1> QED BY <1>5, <1>6, AbsorbIs

\* All ranges lie within the file: so does what they cover, and the ranges that
\* are merged or grow.
AllWithin(R, f) == \A c \in R : Within(c, f)

\* What they cover.
LEMMA WithinPositions ==
  ASSUME NEW f \in Files, NEW R \in SUBSET Run, AllWithin(R, f)
  PROVE  Positions(R) \subseteq 0 .. Size[f] - 1
<1>1. Size[f] \in Nat
  BY SizeAssumption, MaxBlockAssumption DEF Position
<1>2. ASSUME NEW n \in Positions(R) PROVE n \in 0 .. Size[f] - 1
  <2>1. PICK c \in R : c.lo <= n /\ n <= c.hi
    BY DEF Positions, Covered
  <2>2. n \in Nat /\ c.hi \in Nat /\ c.hi < Size[f]
    BY RunFacts, MaxBlockAssumption DEF Positions, Position, AllWithin, Within
  <2> QED BY <1>1, <2>1, <2>2
<1> QED BY <1>2

\* The ranges merged.
LEMMA MergedWithin ==
  ASSUME NEW f \in Files, NEW R \in SUBSET Run, AllWithin(R, f)
  PROVE  AllWithin(Merged(R), f)
<1> SUFFICES ASSUME NEW h \in Merged(R) PROVE Within(h, f)
  BY DEF AllWithin
<1>1. h.lo \in Nat /\ h.hi \in Nat /\ h.lo <= h.hi
  BY MergedRuns, RunFacts DEF Merged
<1>2. Covered(R, h.hi)
  <2>1. h.hi \in h.lo .. h.hi BY <1>1
  <2> QED BY <2>1 DEF Merged
<1>3. PICK c \in R : h.hi <= c.hi
  BY <1>2 DEF Covered
<1>4. c.hi \in Nat /\ c.hi < Size[f] /\ Size[f] \in Nat
  BY RunFacts, SizeAssumption, MaxBlockAssumption DEF AllWithin, Within, Position
<1> QED BY <1>1, <1>3, <1>4 DEF Within

\* A range that grows by a block of the file.
LEMMA AbsorbWithin ==
  ASSUME NEW f \in Files, NEW R \in SUBSET Run, NEW b \in Block, NoneEmpty(R),
         AllWithin(R, f), b < Size[f]
  PROVE  AllWithin(Absorb(R, b), f)
<1>1. b \in Nat /\ Size[f] \in Nat
      /\ \A c \in R : c.lo \in Nat /\ c.hi \in Nat /\ c.lo <= c.hi /\ c.hi < Size[f]
  BY RunFacts, SizeAssumption, MaxBlockAssumption DEF Block, NoneEmpty, Position, AllWithin, Within
<1>2. CASE /\ First(R, b) # {} /\ \A c \in First(R, b) : c.lo <= b + 1
           /\ Absorb(R, b) = (R \ First(R, b)) \cup { Grown(c, b) : c \in First(R, b) }
  <2>1. ASSUME NEW c \in First(R, b) PROVE Within(Grown(c, b), f)
    <3>1. c \in R /\ b <= c.hi + 1 /\ c.lo <= b + 1
      BY <1>2, FirstFacts
    <3>2. /\ Grown(c, b).lo \in Nat /\ Grown(c, b).hi \in Nat
          /\ Grown(c, b).lo <= Grown(c, b).hi
      BY <1>1, <3>1, GrownCovers
    <3>3. Grown(c, b).hi = b \/ Grown(c, b).hi = c.hi
      BY DEF Grown
    <3> QED BY <1>1, <3>1, <3>2, <3>3 DEF Within
  <2>2. \A r \in Absorb(R, b) : r \in R \/ \E c \in First(R, b) : r = Grown(c, b)
    BY <1>2
  <2> QED BY <2>1, <2>2 DEF AllWithin
<1>3. CASE Absorb(R, b) = R \cup {[lo |-> b, hi |-> b]}
  <2>1. Within([lo |-> b, hi |-> b], f) BY <1>1 DEF Within
  <2> QED BY <1>3, <2>1 DEF AllWithin
<1> QED BY <1>2, <1>3, AbsorbIs

\* All blocks of f, and nothing else, make up the whole of f.
LEMMA WholeFile ==
  ASSUME NEW f \in Files, NEW R \in SUBSET Run, AllWithin(R, f), Count(R) = Size[f],
         NEW content \in SUBSET (Block \X {f}), Blocks(content) = Positions(R)
  PROVE  content = Whole(f)
<1> DEFINE all == 0 .. Size[f] - 1
<1>1. Size[f] \in Nat
  BY SizeAssumption, MaxBlockAssumption DEF Position
<1>2. IsFiniteSet(all) /\ Cardinality(all) = Size[f]
  <2>1. 0 \in Int /\ Size[f] - 1 \in Int BY <1>1
  <2>2. IsFiniteSet(all) /\ Cardinality(all) = IF 0 > Size[f] - 1 THEN 0 ELSE Size[f] - 1 - 0 + 1
    BY <2>1, FS_Interval
  <2> QED BY <1>1, <2>2
<1>3. Positions(R) \in SUBSET all /\ Cardinality(Positions(R)) = Size[f]
  BY WithinPositions DEF Count
<1> HIDE DEF all
<1>4. Positions(R) = all
  BY <1>2, <1>3, FS_Subset
<1>5. ASSUME NEW p \in content PROVE p \in all \X {f}
  <2>1. p \in Block \X {f} /\ p[1] \in Blocks(content) BY DEF Blocks
  <2> QED BY <1>4, <2>1
<1>6. ASSUME NEW p \in all \X {f} PROVE p \in content
  <2>1. p[1] \in Blocks(content) /\ p = <<p[1], f>> BY <1>4
  <2>2. PICK q \in content : q[1] = p[1] BY <2>1 DEF Blocks
  <2>3. q = <<q[1], f>> OBVIOUS
  <2> QED BY <2>1, <2>2, <2>3
<1> QED BY <1>5, <1>6 DEF Whole, all

-----------------------------------------------------------------------------
(* Whose blocks go under which id: steps of the user and of the sender.       *)

\* Nothing of a file is kept under an id that nothing speaks of.
LEMMA UnusedHasNoFile ==
  ASSUME NEW tx \in Ids, Unused(tx) PROVE FilesOf(tx) = {}
<1>1. temp[tx] = {}
  BY DEF Unused
<1>2. ~Described(tx) /\ tx \notin OutIds
  BY DEF Described, Unused
<1>3. \A m \in Range(toReceiver) : ~Describes(m, tx) /\ ~Carries(m, tx)
  BY DEF Unused
<1> QED BY <1>1, <1>2, <1>3 DEF FilesOf

\* A new transfer begins under such an id.
LEMMA BeginsUnused ==
  ASSUME NEW tx \in Ids, SlotBegins(tx)
  PROVE  Unused(tx) /\ FilesOf(tx) = {} /\ tx \notin OutIds /\ tx \notin InIds
  BY UnusedHasNoFile DEF SlotBegins, Unused

\* What the sender sends of tx is about the file in the slot.
LEMMA SentIsOfSlot ==
  ASSUME NEW m, NEW tx, SenderSends(m), Describes(m, tx) \/ Carries(m, tx)
  PROVE  /\ tx \in OutIds /\ m.file = out[tx].file
         /\ Describes(m, tx) => m.size = out[tx].size
         /\ Carries(m, tx) => out[tx].pending # <<>> /\ m.block = out[tx].pending[1].lo
<1>1. PICK u \in OutIds : SlotSends(m, u)
  BY DEF SenderSends, Queue, Describes, Carries
<1>2. CASE m = Meta(u, out[u].file, out[u].size)
  BY <1>1, <1>2 DEF Meta, Describes, Carries
<1>3. CASE out[u].pending # <<>> /\ m = Data(u, out[u].file, out[u].pending[1].lo)
  BY <1>1, <1>3 DEF Data, Describes, Carries
<1>4. m # Cancel(u)
  BY DEF Cancel, Describes, Carries
<1> QED BY <1>1, <1>2, <1>3, <1>4 DEF SlotSends

\* The file a transfer is about stays, and a new transfer is about one file.
LEMMA SenderFiles ==
  ASSUME TypeOK, TypeOK', ListsRight, SenderStep, NEW tx \in Ids, NEW f \in FilesOf(tx)'
  PROVE  \/ f \in FilesOf(tx) /\ ~SlotBegins(tx)
         \/ SlotBegins(tx) /\ f = out'[tx].file /\ tx \in OutIds'
<1>1. f \in Files /\ UNCHANGED <<in, temp>> /\ (Described(tx)' <=> Described(tx))
  BY DEF FilesOf, SenderStep, Described, InIds
<1>2. CASE SlotBegins(tx)
  <2>1. Unused(tx) /\ FilesOf(tx) = {} /\ tx \notin OutIds
    BY <1>2, BeginsUnused
  <2>2. ASSUME NEW m \in Range(toReceiver'), Describes(m, tx) \/ Carries(m, tx) PROVE FALSE
    <3>1. SenderSends(m) BY <2>1, <2>2, SenderLink DEF Unused
    <3> QED BY <2>1, <2>2, <3>1, SentIsOfSlot
  <2>3. ~Described(tx) /\ temp[tx] = {}
    BY <2>1 DEF Unused, Described
  <2>4. tx \in OutIds' /\ out'[tx].file = f
    BY <1>1, <2>2, <2>3 DEF FilesOf
  <2> QED BY <1>2, <2>4
<1>3. CASE ~SlotBegins(tx)
  <2>1. tx \in OutIds' => tx \in OutIds /\ out'[tx].file = out[tx].file
    BY <1>3 DEF SenderStep, SlotGoesOn
  <2>2. ASSUME NEW m \in Range(toReceiver'), Describes(m, tx) \/ Carries(m, tx), m.file = f
        PROVE  f \in FilesOf(tx)
    <3>1. CASE m \in Range(toReceiver) BY <1>1, <2>2, <3>1 DEF FilesOf
    <3>2. CASE SenderSends(m)
      <4>1. tx \in OutIds /\ out[tx].file = f BY <2>2, <3>2, SentIsOfSlot
      <4> QED BY <1>1, <4>1 DEF FilesOf
    <3> QED BY <3>1, <3>2, SenderLink
  <2>3. \/ tx \in OutIds' /\ out'[tx].file = f
        \/ Described(tx) /\ in[tx].file = f
        \/ \E m \in Range(toReceiver') : (Describes(m, tx) \/ Carries(m, tx)) /\ m.file = f
        \/ \E p \in temp[tx] : p[2] = f
    BY <1>1 DEF FilesOf
  <2>4. f \in FilesOf(tx)
    BY <1>1, <2>1, <2>2, <2>3 DEF FilesOf
  <2> QED BY <1>3, <2>4
<1> QED BY <1>2, <1>3

\* So a transfer is about one file still, which the user has put.
LEMMA SenderKeepsFile ==
  ASSUME TypeOK, TypeOK', ListsRight, FilesRight, SenderStep
  PROVE  OneFileEach'
<1> SUFFICES ASSUME NEW tx \in Ids
             PROVE  /\ \A f, g \in FilesOf(tx)' : f = g
                    /\ \A f \in FilesOf(tx)' : user'[f] # "none"
                    /\ Described(tx)' => in'[tx].file \in Files
  BY DEF OneFileEach
<1>1. UNCHANGED in /\ (Described(tx)' <=> Described(tx))
  BY DEF SenderStep, Described, InIds
<1>2. \A f, g \in FilesOf(tx)' : f = g
  <2>1. \A f, g \in FilesOf(tx) : f = g
    BY DEF FilesRight, OneFileEach
  <2> QED BY <2>1, SenderFiles
<1>3. ASSUME NEW f \in FilesOf(tx)' PROVE user'[f] # "none"
  <2>1. f \in Files
    BY DEF FilesOf
  <2>2. f \in FilesOf(tx) => user[f] # "none"
    BY DEF FilesRight, OneFileEach
  <2>3. SlotBegins(tx) /\ f = out'[tx].file => user[f] # "none"
    BY <2>1 DEF SlotBegins, FilesRight, FolderRight
  <2>4. user[f] # "none"
    BY <2>2, <2>3, SenderFiles
  <2> QED BY <2>1, <2>4, SenderSpoils
<1>4. Described(tx) => in[tx].file \in Files
  BY DEF FilesRight, OneFileEach
<1> QED BY <1>1, <1>2, <1>3, <1>4

\* The ranges of a slot stay within the file.
LEMMA SlotStaysWithin ==
  ASSUME TypeOK, NEW tx \in OutIds, NEW f \in Files, SlotGoesOn(tx),
         \A c \in Range(out[tx].pending) : Within(c, f),
         \A m \in Range(toSender) : AsksFor(m, tx) => Within(m.hole, f)
  PROVE  \A c \in Range(out'[tx].pending) : Within(c, f)
<1>1. out[tx].pending \in Seq(Chunk)
  BY OutSlot DEF TypeOK
<1>2. CASE out'[tx].pending = out[tx].pending
  BY <1>2
<1>3. CASE out[tx].pending # <<>> /\ out'[tx].pending = FirstSent(out[tx].pending, 1)
  BY <1>1, <1>3, FirstSentWithin
<1>4. ASSUME NEW m \in Range(toSender), AsksFor(m, tx),
             out'[tx].pending = InsertHole(out[tx].pending, m.hole)
      PROVE  \A c \in Range(out'[tx].pending) : Within(c, f)
  <2>1. m \in ToSender
    BY RangeIs DEF TypeOK, LinkTypeOK
  <2>2. m.hole \in Chunk
    BY <1>4, <2>1, ToSenderFields DEF AsksFor
  <2> QED BY <1>1, <1>4, <2>2, InsertHoleWithin
<1> QED BY <1>2, <1>3, <1>4 DEF SlotGoesOn

\* The first block of a slot's list is a block of the file.
LEMMA FirstIsWithin ==
  ASSUME TypeOK, NEW tx \in OutIds, NEW f \in Files, out[tx].pending # <<>>,
         \A c \in Range(out[tx].pending) : Within(c, f)
  PROVE  out[tx].pending[1].lo < Size[f]
<1>1. out[tx].pending \in Seq(Chunk)
  BY OutSlot DEF TypeOK
<1>2. out[tx].pending[1] \in Chunk /\ Within(out[tx].pending[1], f)
  <2>1. 1 \in 1 .. Len(out[tx].pending) BY <1>1, EmptySeq, LenProperties
  <2> QED BY <1>1, <2>1, ElementOfSeq, RangeIs
<1> QED BY <1>2, ChunkFacts, SizeAssumption, MaxBlockAssumption DEF Within, Position

\* What is sent of an undisturbed file is right.
LEMMA SenderKeepsContent ==
  ASSUME TypeOK, TypeOK', ListsRight, FilesRight, SenderStep
  PROVE  FilesAreSent'
<1> SUFFICES ASSUME NEW tx \in Ids, NEW f \in FilesOf(tx)', Undisturbed(f)'
             PROVE  FileIsSent(tx, f)'
  BY DEF FilesAreSent
<1>1. /\ UNCHANGED <<in, incoming>> /\ Undisturbed(f) /\ f \in Files
      /\ (Described(tx)' <=> Described(tx)) /\ (Delivered(f)' <=> Delivered(f))
  <2>1. f \in Files /\ user'[f] = "put"
    BY DEF FilesOf, Undisturbed
  <2>2. Undisturbed(f)
    BY <2>1, SenderSpoils DEF Undisturbed
  <2> QED BY <2>1, <2>2 DEF SenderStep, Described, InIds, Delivered
<1>2. \A m \in Range(toReceiver') : m \in Range(toReceiver) \/ SenderSends(m)
  BY SenderLink
<1>3. \A m \in Range(toSender') :
        m \in Range(toSender) \/ (~AsksFor(m, tx) /\ ~Announces(m, tx))
  BY DEF SenderStep, AsksFor, Announces
<1>4. CASE f \in FilesOf(tx) /\ ~SlotBegins(tx)
  <2>1. /\ 0 < Size[f] /\ SendsOnly(tx, f)
        /\ Described(tx) => Receives(in[tx], f)
    BY <1>1, <1>4 DEF FilesRight, FilesAreSent, FileIsSent
  <2>2. tx \in OutIds' => tx \in OutIds /\ SlotGoesOn(tx)
    BY <1>4 DEF SenderStep, SlotGoesOn
  <2>3. tx \in OutIds' => /\ out'[tx].size = Size[f]
                          /\ \A c \in Range(out'[tx].pending) : Within(c, f)
    <3> SUFFICES ASSUME tx \in OutIds'
                 PROVE  /\ out'[tx].size = Size[f]
                        /\ \A c \in Range(out'[tx].pending) : Within(c, f)
      OBVIOUS
    <3>1. /\ out[tx].size = Size[f]
          /\ \A c \in Range(out[tx].pending) : Within(c, f)
          /\ \A m \in Range(toSender) : AsksFor(m, tx) => Within(m.hole, f)
      BY <2>1, <2>2 DEF SendsOnly
    <3>2. out'[tx].size = out[tx].size
      BY <2>2 DEF SlotGoesOn
    <3> QED BY <1>1, <2>2, <3>1, <3>2, SlotStaysWithin
  <2>4. ASSUME NEW m \in Range(toReceiver')
        PROVE  (Describes(m, tx) => m.size = Size[f]) /\ (Carries(m, tx) => m.block < Size[f])
    <3>1. CASE m \in Range(toReceiver) BY <2>1, <3>1 DEF SendsOnly
    <3>2. ASSUME SenderSends(m), Describes(m, tx) PROVE m.size = Size[f]
      <4>1. tx \in OutIds /\ m.size = out[tx].size BY <3>2, SentIsOfSlot
      <4> QED BY <2>1, <4>1 DEF SendsOnly
    <3>3. ASSUME SenderSends(m), Carries(m, tx) PROVE m.block < Size[f]
      <4>1. tx \in OutIds /\ out[tx].pending # <<>> /\ m.block = out[tx].pending[1].lo
        BY <3>3, SentIsOfSlot
      <4>2. \A c \in Range(out[tx].pending) : Within(c, f)
        BY <2>1, <4>1 DEF SendsOnly
      <4> QED BY <1>1, <4>1, <4>2, FirstIsWithin
    <3> QED BY <1>2, <3>1, <3>2, <3>3
  <2>5. ASSUME NEW m \in Range(toSender')
        PROVE  (AsksFor(m, tx) => Within(m.hole, f)) /\ (Announces(m, tx) => Delivered(f))
    BY <1>3, <2>1 DEF SendsOnly
  <2>6. SendsOnly(tx, f)'
    BY <1>1, <2>3, <2>4, <2>5 DEF SendsOnly, Within
  <2>7. Described(tx) => Receives(in[tx], f)'
    BY <1>1, <2>1 DEF Receives, Counts, Within, Spaced
  <2> QED BY <1>1, <2>1, <2>6, <2>7 DEF FileIsSent
<1>5. CASE SlotBegins(tx) /\ f = out'[tx].file
  <2>1. Unused(tx) /\ tx \notin OutIds /\ tx \notin InIds
    BY <1>5, BeginsUnused
  <2>2. out'[tx].size = Size[f] /\ 0 < Size[f] /\ out'[tx].pending = <<>>
    BY <1>1, <1>5 DEF SlotBegins, FilesRight, FolderRight
  <2>3. \A c \in Range(out'[tx].pending) : Within(c, f)
    BY <2>2 DEF Range
  <2>4. \A m \in Range(toReceiver') : ~Describes(m, tx) /\ ~Carries(m, tx)
    BY <1>2, <2>1, SentIsOfSlot DEF Unused
  <2>5. \A m \in Range(toSender') : ~AsksFor(m, tx) /\ ~Announces(m, tx)
    BY <1>3, <2>1 DEF Unused
  <2>6. SendsOnly(tx, f)'
    BY <2>2, <2>3, <2>4, <2>5 DEF SendsOnly, Within
  <2>7. ~Described(tx)
    BY <2>1 DEF Described
  <2> QED BY <1>1, <2>2, <2>6, <2>7 DEF FileIsSent
<1> QED BY <1>4, <1>5, SenderFiles

\* A file leaves the folder only when it has arrived.
LEMMA SenderKeepsFolder ==
  ASSUME TypeOK, ListsRight, FilesRight, SenderStep, NEW f \in Files
  PROVE  FolderRight(f)'
<1>1. UNCHANGED incoming /\ (Delivered(f)' <=> Delivered(f)) /\ FolderRight(f)
  BY DEF SenderStep, Delivered, FilesRight
<1>2. ASSUME disk'[f] = disk[f], user'[f] = user[f] PROVE FolderRight(f)'
  BY <1>1, <1>2 DEF FolderRight, Undisturbed
<1>3. ASSUME NEW tx \in OutIds, FreesFile(tx), out[tx].file # f
      PROVE  disk'[f] = disk[f] /\ user'[f] = user[f]
  BY <1>3 DEF FreesFile, TypeOK, SenderTypeOK, LinkTypeOK
<1>4. ASSUME NEW tx \in OutIds, FreesFile(tx), out[tx].file = f
      PROVE  FolderRight(f)'
  <2>1. /\ disk'[f].len = disk[f].len
        /\ disk'[f] = disk[f] \/ ~disk'[f].there
    BY <1>4 DEF FreesFile, TypeOK, SenderTypeOK
  <2>2. f \in FilesOf(tx) /\ tx \in Ids
    BY <1>4 DEF FilesOf, OutIds
  <2>3. CASE user' = [user EXCEPT ![out[tx].file] = "failed"]
    <3>1. user'[f] = "failed" BY <1>4, <2>3 DEF TypeOK, LinkTypeOK
    <3> QED BY <3>1 DEF FolderRight, Undisturbed
  <2>4. CASE UNCHANGED user
    <3>1. \/ \E m \in Range(toSender) : Announces(m, tx)
          \/ out[tx].pending # <<>> /\ ~(CanOpen(out[tx]) /\ CanRead(out[tx]))
          \/ user[f] = "failed"
      <4>1. user' = [user EXCEPT ![out[tx].file] = "failed"] => user[f] = "failed"
        BY <1>4, <2>4 DEF TypeOK, LinkTypeOK
      <4> QED BY <1>4, <4>1 DEF FreesFile
    <3>2. ASSUME Undisturbed(f) PROVE Delivered(f)
      <4>1. SendsOnly(tx, f)
        BY <2>2, <3>2 DEF FilesRight, FilesAreSent, FileIsSent
      <4>2. CASE \E m \in Range(toSender) : Announces(m, tx)
        BY <4>1, <4>2 DEF SendsOnly
      <4>3. CASE out[tx].pending # <<>> /\ ~(CanOpen(out[tx]) /\ CanRead(out[tx]))
        <5>1. out[tx].pending[1].lo < Size[f]
          BY <4>1, <4>3, FirstIsWithin DEF SendsOnly
        <5>2. disk[f].len = Size[f]
          BY <1>1, <3>2 DEF FolderRight
        <5>3. CanRead(out[tx])
          BY <1>4, <5>1, <5>2 DEF CanRead
        <5>4. ~disk[f].there
          BY <1>4, <4>3, <5>3 DEF CanOpen
        <5> QED BY <1>1, <3>2, <5>4 DEF FolderRight
      <4> QED BY <3>1, <3>2, <4>2, <4>3 DEF Undisturbed
    <3>3. user[f] # "none"
      BY <2>2 DEF FilesRight, OneFileEach
    <3> QED BY <1>1, <2>1, <2>4, <3>2, <3>3 DEF FolderRight, Undisturbed
  <2> QED BY <1>4, <2>3, <2>4 DEF FreesFile
<1>5. UNCHANGED <<disk, user>> \/ \E tx \in OutIds : FreesFile(tx)
  BY DEF SenderStep
<1> QED BY <1>2, <1>3, <1>4, <1>5

\* Together: a step of the sender keeps what is right of the files.
LEMMA SenderKeepsAll ==
  ASSUME TypeOK, TypeOK', ListsRight, FilesRight, SenderStep
  PROVE  FilesRight'
<1>1. SenderMet'
  BY DEF FilesRight, SenderMet, SenderStep, InIds
<1> QED BY <1>1, SenderKeepsFile, SenderKeepsContent, SenderKeepsFolder DEF FilesRight

\* A file that is put in the folder is not in transfer yet; one that another
\* program touches is no longer asked about.
LEMMA UserKeepsAll ==
  ASSUME TypeOK, FilesRight, UserStep PROVE FilesRight'
<1>1. /\ UNCHANGED <<out, in, temp, incoming, senderKnown, toReceiver, toSender>>
      /\ \A tx \in Ids : FilesOf(tx)' = FilesOf(tx) /\ (Described(tx)' <=> Described(tx))
      /\ \A f \in Files : Delivered(f)' <=> Delivered(f)
  BY DEF UserStep, FilesOf, OutIds, Described, InIds, Delivered
<1>2. PICK f \in Files : PutFile(f) \/ DisturbFile(f)
  BY DEF UserStep
<1>3. /\ \A g \in Files : g # f => user'[g] = user[g] /\ disk'[g] = disk[g]
      /\ user'[f] # "none"
      /\ user'[f] = "put" => user[f] = "none"
  BY <1>2 DEF PutFile, DisturbFile, TypeOK, SenderTypeOK, LinkTypeOK
<1>4. OneFileEach'
  <2>1. \A tx \in Ids : FilesOf(tx) \subseteq Files
    BY DEF FilesOf
  <2>2. \A g \in Files : user[g] # "none" => user'[g] # "none"
    BY <1>3
  <2> QED BY <1>1, <2>1, <2>2 DEF FilesRight, OneFileEach
<1>5. FilesAreSent'
  <2> SUFFICES ASSUME NEW tx \in Ids, NEW g \in FilesOf(tx), user'[g] = "put"
               PROVE  FileIsSent(tx, g)'
    BY <1>1 DEF FilesAreSent, Undisturbed
  <2>1. g \in Files /\ user[g] # "none"
    BY DEF FilesOf, FilesRight, OneFileEach
  <2>2. Undisturbed(g)
    BY <1>3, <2>1 DEF Undisturbed
  <2>3. FileIsSent(tx, g)
    BY <2>2 DEF FilesRight, FilesAreSent
  <2>4. OutIds' = OutIds BY <1>1 DEF OutIds
  <2>5. Delivered(g)' <=> Delivered(g) BY <1>1, <2>1
  <2>6. SendsOnly(tx, g)'
    BY <1>1, <2>3, <2>4, <2>5 DEF FileIsSent, SendsOnly, Within
  <2>7. Described(tx) => Receives(in[tx], g)'
    BY <1>1, <2>3, <2>5 DEF FileIsSent, Receives, Counts, Within, Spaced
  <2> QED BY <1>1, <2>3, <2>6, <2>7 DEF FileIsSent
<1>6. ASSUME NEW g \in Files PROVE FolderRight(g)'
  <2>1. FolderRight(g) /\ (Delivered(g)' <=> Delivered(g)) BY <1>1 DEF FilesRight
  <2>2. CASE g # f
    BY <1>1, <1>3, <2>1, <2>2 DEF FolderRight, Undisturbed
  <2>3. CASE g = f /\ PutFile(f)
    <3>1. user[f] = "none" /\ user'[f] = "put" /\ disk'[f].there /\ disk'[f].len = Size[f]
      BY <2>3 DEF PutFile, TypeOK, SenderTypeOK, LinkTypeOK
    <3>2. incoming'[f] = {} BY <1>1, <2>1, <2>3, <3>1 DEF FolderRight
    <3> QED BY <2>3, <3>1, <3>2 DEF FolderRight, Undisturbed
  <2>4. CASE g = f /\ DisturbFile(f)
    <3>1. user'[f] = "disturbed" /\ f \in Disturbed
      BY <2>4 DEF DisturbFile, LinkTypeOK, TypeOK
    <3> QED BY <2>4, <3>1 DEF FolderRight, Undisturbed
  <2> QED BY <1>2, <2>2, <2>3, <2>4
<1>7. SenderMet'
  BY <1>1 DEF FilesRight, SenderMet, InIds
<1> QED BY <1>4, <1>5, <1>6, <1>7 DEF FilesRight

-----------------------------------------------------------------------------
(* What the receiver keeps of undisturbed files, and what it delivers.        *)

\* The whole file is in the incoming folder after the step.
Arrives(f) == incoming'[f] = Whole(f)

\* And nothing has spoilt it.
Unspoilt(f) == user'[f] = "put"

\* The step is about one file.
AboutOnly(f) == \A g \in Files : g # f => incoming'[g] = incoming[g] /\ user'[g] = user[g]

\* A step delivers or spoils one file at most, and delivers an unspoilt one whole.
OneArrives == UNCHANGED <<incoming, user>> \/ \E f \in Files : AboutOnly(f)

Delivers ==
  /\ OneArrives
  /\ \A f \in Files :
       incoming'[f] = incoming[f] \/ (user[f] # "none" /\ (Unspoilt(f) => Arrives(f)))

\* What an entry holds of a file is a part of it.
RightEntry(r, content, f) ==
  0 < Size[f] /\ Counts(r, f) /\ \A p \in content : p[2] = f

\* That holds of the tables a handler works with, ...
TablesRight(entries, stored) ==
  \A tx \in Ids : entries[tx] # NoTx /\ entries[tx].havemeta =>
    /\ entries[tx].file \in Files /\ user[entries[tx].file] # "none"
    /\ Unspoilt(entries[tx].file) => RightEntry(entries[tx], stored[tx], entries[tx].file)

\* ... and no two ranges of an unfinished transfer meet.
SpacedAt(r) == r.havemeta /\ Unspoilt(r.file) /\ ~r.complete => Spaced(r.got)

\* The same of an entry after the step.
ReceivesThen(r, f) ==
  /\ r.size = Size[f] /\ AllWithin(r.got, f)
  /\ r.complete => Arrives(f)
  /\ ~r.complete => r.total = Count(r.got) /\ Spaced(r.got)

\* The tables after the step, ...
TablesEnd(entries) ==
  \A tx \in Ids : entries[tx] # NoTx /\ entries[tx].havemeta =>
    /\ entries[tx].file \in Files
    /\ Unspoilt(entries[tx].file) => ReceivesThen(entries[tx], entries[tx].file)

\* ... a packet sent in it, which asks for blocks of the file or says that it has
\* arrived, ...
RightAnswer(a, tx) ==
  \E f \in Files :
    /\ in'[tx] # NoTx /\ in'[tx].havemeta /\ in'[tx].file = f
    /\ AsksFor(a, tx) \/ Announces(a, tx)
    /\ Unspoilt(f) => /\ AsksFor(a, tx) => Within(a.hole, f)
                      /\ Announces(a, tx) => Arrives(f)

\* ... and all of them.
AnswersRight ==
  \A a \in Range(toSender') :
    a \in Range(toSender) \/ a.type = "REQMETA" \/ \E tx \in Ids : RightAnswer(a, tx)

ReceiverRight == Delivers /\ TablesEnd(in') /\ AnswersRight

\* A file the step does not spoil was not spoilt before.
LEMMA SpoilsSpares ==
  ASSUME Spoils
  PROVE  /\ FailedFiles \subseteq FailedFiles'
         /\ \A f \in Files : Unspoilt(f) => Undisturbed(f) /\ f \notin FailedFiles'
  BY DEF Spoils, FailedFiles, Failed, Unspoilt, Undisturbed

\* What the failures of a step say of a file.
LEMMA SufferTells ==
  ASSUME TypeOK, NEW broken, NEW files, Suffer(broken, files), NEW f \in Files
  PROVE  (f \in files => ~Unspoilt(f)) /\ (f \notin files => user'[f] = user[f])
  BY DEF Suffer, Unspoilt

\* Merging and counting the lists keeps that.
LEMMA RecountedRight ==
  ASSUME NEW entries \in Entries, NEW stored, TablesRight(entries, stored)
  PROVE  /\ TablesRight(Recounted(entries), stored)
         /\ \A tx \in Ids : Recounted(entries)[tx] # NoTx => SpacedAt(Recounted(entries)[tx])
<1> DEFINE now == Recounted(entries)
<1>1. ASSUME NEW tx \in Ids, now[tx] # NoTx
      PROVE  /\ SpacedAt(now[tx])
             /\ now[tx].havemeta =>
                  /\ now[tx].file \in Files /\ user[now[tx].file] # "none"
                  /\ Unspoilt(now[tx].file) => RightEntry(now[tx], stored[tx], now[tx].file)
  <2> DEFINE r == entries[tx]
             n == now[tx]
  <2>1. r # NoTx
    BY <1>1 DEF Recounted
  <2>2. r.got \in SUBSET Run
    BY <2>1 DEF Entries, InTx
  <2>3. /\ n.havemeta = r.havemeta /\ n.file = r.file /\ n.size = r.size
        /\ n.complete = r.complete /\ n.got = Merged(r.got) /\ n.total = Count(r.got)
    BY <2>1, RecountedIs
  <2>4. Spaced(n.got) /\ Positions(n.got) = Positions(r.got)
    BY <2>2, <2>3, MergedSpaced, MergedPositions
  <2>5. n.total = Count(n.got)
    BY <2>3, <2>4 DEF Count
  <2>6. r.havemeta => /\ r.file \in Files /\ user[r.file] # "none"
                      /\ Unspoilt(r.file) => RightEntry(r, stored[tx], r.file)
    BY <2>1 DEF TablesRight
  <2> HIDE DEF r, n
  <2>7. ASSUME r.havemeta, Unspoilt(r.file) PROVE RightEntry(n, stored[tx], r.file)
    <3>1. RightEntry(r, stored[tx], r.file) /\ r.file \in Files
      BY <2>6, <2>7
    <3>2. AllWithin(r.got, r.file)
      BY <3>1 DEF RightEntry, Counts, AllWithin
    <3>3. AllWithin(n.got, r.file)
      BY <2>2, <2>3, <3>1, <3>2, MergedWithin
    <3> QED BY <2>3, <2>5, <3>1, <3>3 DEF RightEntry, Counts, AllWithin
  <2>8. SpacedAt(n)
    BY <2>4 DEF SpacedAt
  <2> QED BY <2>3, <2>6, <2>7, <2>8 DEF n
<1> HIDE DEF now
<1>2. TablesRight(now, stored)
  BY <1>1 DEF TablesRight
<1> QED BY <1>1, <1>2 DEF now

\* What is right and apart before a step that delivers nothing wrong is so after it.
LEMMA StaysRight ==
  ASSUME Delivers, NEW r, NEW content, NEW f \in Files, Unspoilt(f), RightEntry(r, content, f),
         ~r.complete => Spaced(r.got)
  PROVE  ReceivesThen(r, f)
<1>1. Delivered(f) => Arrives(f)
  BY DEF Delivers, Arrives, Delivered
<1> QED BY <1>1 DEF RightEntry, Counts, ReceivesThen, AllWithin

\* The same of all entries of a table.
LEMMA TablesStay ==
  ASSUME Delivers, NEW entries, NEW stored, TablesRight(entries, stored),
         \A tx \in Ids : entries[tx] # NoTx => SpacedAt(entries[tx])
  PROVE  TablesEnd(entries)
<1> SUFFICES ASSUME NEW tx \in Ids, entries[tx] # NoTx, entries[tx].havemeta
             PROVE  /\ entries[tx].file \in Files
                    /\ Unspoilt(entries[tx].file) => ReceivesThen(entries[tx], entries[tx].file)
  BY DEF TablesEnd
<1> DEFINE r == entries[tx]
<1>1. /\ r.file \in Files
      /\ Unspoilt(r.file) => RightEntry(r, stored[tx], r.file)
  BY DEF TablesRight
<1>2. Unspoilt(r.file) /\ ~r.complete => Spaced(r.got)
  BY DEF SpacedAt
<1> HIDE DEF r
<1>3. r.file \in Files /\ (Unspoilt(r.file) => ReceivesThen(r, r.file))
  BY <1>1, <1>2, StaysRight
<1> QED BY <1>3 DEF r

\* Nothing is delivered.
LEMMA DeliversNothing ==
  ASSUME incoming' = incoming, UNCHANGED user \/ \E f \in Files : AboutOnly(f)
  PROVE  Delivers
  BY DEF Delivers, OneArrives

\* A whole transfer is announced and moved: what arrives is the whole file.
LEMMA FinishRight ==
  ASSUME incoming \in [Files -> SUBSET (Block \X Files)],
         NEW entries \in Entries, NEW stored \in Stores, Spoils,
         TablesFit(entries, stored, FailedFiles'), TablesRight(entries, stored),
         NEW tx \in Ids, entries[tx] # NoTx, IsWhole(entries[tx]),
         \A u \in Ids \ {tx} : entries[u] # NoTx => SpacedAt(entries[u]),
         NEW broken, Finish(entries, stored, tx, broken),
         "rename" \in broken => ~Unspoilt(entries[tx].file),
         \A g \in Files : g # entries[tx].file => user'[g] = user[g]
  PROVE  /\ Delivers /\ TablesEnd(in')
         /\ in'[tx] # NoTx /\ in'[tx].havemeta /\ in'[tx].file \in Files
         /\ Unspoilt(in'[tx].file) => Arrives(in'[tx].file)
<1> DEFINE r == entries[tx]
           f == r.file
           content == stored[tx]
           done == Found(r)
<1>1. r \in InTx /\ r.havemeta /\ r.size = r.total /\ content \in SUBSET (Block \X Files)
  BY DEF Entries, Stores, IsWhole
<1>2. f \in Files /\ user[f] # "none" /\ f # NoFile
      /\ (Unspoilt(f) => RightEntry(r, content, f))
  BY <1>1, NoFileAssumption DEF TablesRight
<1>3. ListFits(r, content, FailedFiles')
  BY DEF TablesFit
<1>4. /\ done.havemeta /\ done.file = f /\ done.size = r.size
      /\ done.got = r.got /\ done.complete /\ done \in InTx
  BY <1>1 DEF InTx, Found
<1>5. in' = [entries EXCEPT ![tx] = done]
      /\ \/ Moves(r, content) /\ incoming' = [incoming EXCEPT ![f] = content]
         \/ ~Moves(r, content) /\ incoming' = incoming
         \/ ~Unspoilt(f) /\ incoming' = incoming
  BY DEF Finish
<1>6. done # NoTx
  BY <1>4, NoTxAssumption
<1> HIDE DEF done
<1>7. in'[tx] = done /\ \A u \in Ids \ {tx} : in'[u] = entries[u]
  BY <1>5 DEF Entries
<1> HIDE DEF r, f, content
<1>8. ASSUME Unspoilt(f), ~r.complete PROVE content = Whole(f) /\ content # {}
  <2>1. /\ 0 < Size[f] /\ r.size = Size[f] /\ AllWithin(r.got, f)
        /\ r.total = Count(r.got) /\ \A p \in content : p[2] = f
    BY <1>2, <1>8 DEF RightEntry, Counts, AllWithin
  <2>2. r.got \in SUBSET Run /\ Count(r.got) = Size[f]
    BY <1>1, <2>1 DEF InTx
  <2>3. Blocks(content) = Positions(r.got)
    <3>1. f \notin FailedFiles' BY <1>2, <1>8, SpoilsSpares
    <3> QED BY <1>3, <1>8, <3>1 DEF ListFits, f
  <2>4. content \in SUBSET (Block \X {f})
    BY <1>1, <2>1
  <2>5. content = Whole(f)
    BY <1>2, <2>1, <2>2, <2>3, <2>4, WholeFile
  <2>6. <<0, f>> \in Whole(f)
    <3>1. Size[f] \in Nat BY <1>2, SizeAssumption, MaxBlockAssumption DEF Position
    <3>2. 0 \in 0 .. Size[f] - 1 BY <2>1, <3>1
    <3> QED BY <3>2 DEF Whole
  <2> QED BY <2>5, <2>6
<1>9. Unspoilt(f) => Arrives(f)
  <2>1. CASE Moves(r, content) /\ incoming' = [incoming EXCEPT ![f] = content]
    <3>1. incoming'[f] = content BY <1>2, <2>1
    <3> QED BY <1>8, <2>1, <3>1 DEF Moves, Arrives
  <2>2. CASE ~Moves(r, content) /\ incoming' = incoming
    <3>1. Unspoilt(f) => r.complete
      BY <1>2, <1>8, <2>2 DEF Moves, f
    <3>2. Unspoilt(f) => Delivered(f)
      BY <1>2, <3>1 DEF RightEntry, Counts
    <3> QED BY <2>2, <3>2 DEF Delivered, Arrives
  <2>3. CASE ~Unspoilt(f)
    BY <2>3
  <2> QED BY <1>5, <2>1, <2>2, <2>3 DEF f, r, content
<1>10. Delivers
  <2>1. \A g \in Files : g # f => incoming'[g] = incoming[g]
    BY <1>5
  <2>2. \A g \in Files : g # f => user'[g] = user[g]
    BY DEF f, r
  <2> QED BY <1>2, <1>9, <2>1, <2>2 DEF Delivers, OneArrives, AboutOnly
<1>11. Unspoilt(f) => ReceivesThen(done, f)
  <2> SUFFICES ASSUME Unspoilt(f) PROVE ReceivesThen(done, f)
    OBVIOUS
  <2>1. r.size = Size[f] /\ AllWithin(r.got, f)
    BY <1>2 DEF RightEntry, Counts, AllWithin
  <2> QED BY <1>4, <1>9, <2>1 DEF ReceivesThen
<1>12. ASSUME NEW u \in Ids, u # tx, entries[u] # NoTx, entries[u].havemeta
       PROVE  /\ entries[u].file \in Files
              /\ Unspoilt(entries[u].file) => ReceivesThen(entries[u], entries[u].file)
  <2> DEFINE e == entries[u]
  <2>1. e.file \in Files /\ (Unspoilt(e.file) => RightEntry(e, stored[u], e.file))
    BY <1>12 DEF TablesRight
  <2>2. Unspoilt(e.file) /\ ~e.complete => Spaced(e.got)
    BY <1>12 DEF SpacedAt
  <2> HIDE DEF e
  <2>3. Unspoilt(e.file) => ReceivesThen(e, e.file)
    BY <1>10, <2>1, <2>2, StaysRight
  <2> QED BY <2>1, <2>3 DEF e
<1>13. TablesEnd(in')
  <2>1. ASSUME NEW u \in Ids, in'[u] # NoTx, in'[u].havemeta
        PROVE  /\ in'[u].file \in Files
               /\ Unspoilt(in'[u].file) => ReceivesThen(in'[u], in'[u].file)
    <3>1. CASE u = tx BY <1>2, <1>4, <1>7, <1>11, <3>1
    <3>2. CASE u # tx BY <1>7, <1>12, <2>1, <3>2
    <3> QED BY <3>1, <3>2
  <2> QED BY <2>1 DEF TablesEnd
<1> QED BY <1>2, <1>4, <1>6, <1>7, <1>9, <1>10, <1>13

\* What next_incoming_tx delivers, asks for and announces is right.
LEMMA NextRight ==
  ASSUME TypeOK, Spoils,
         NEW entries \in Entries, NEW stored \in Stores,
         TablesFit(entries, stored, FailedFiles), TablesRight(entries, stored),
         NEW known, NEW replies \in Seq(ToSender), \A a \in Range(replies) : a.type = "REQMETA",
         NEW broken, NextIncoming(entries, stored, known, replies, broken)
  PROVE  ReceiverRight
<1> DEFINE now == Recounted(entries)
<1>1. /\ now \in Entries /\ TablesFit(now, stored, FailedFiles') /\ TablesRight(now, stored)
      /\ \A tx \in Ids : now[tx] # NoTx => SpacedAt(now[tx])
  <2>1. TablesFit(entries, stored, FailedFiles')
    BY SpoilsSpares, MoreSpoilt
  <2> QED BY <2>1, RecountedType, RecountedFits, RecountedRight
<1>2. \A tx \in Chosen(now) : tx \in Ids /\ now[tx] # NoTx /\ now[tx].havemeta
  BY DEF Chosen
<1>3. Range(toSender \o replies) = Range(toSender) \cup Range(replies)
      /\ toSender \o replies \in Seq(ToSender)
  <2>1. toSender \in Seq(ToSender) BY DEF TypeOK, LinkTypeOK
  <2> QED BY <2>1, RangeConcat, ConcatProperties
<1> HIDE DEF now
<1>4. ASSUME in' = now, incoming' = incoming, Suffer(broken, {})
      PROVE  Delivers /\ TablesEnd(in')
  BY <1>1, <1>4, SpoilsNone, DeliversNothing, TablesStay
<1>5. CASE /\ in' = now /\ incoming' = incoming /\ Suffer(broken, {})
           /\ toSender' = toSender \o replies
  BY <1>3, <1>4, <1>5 DEF ReceiverRight, AnswersRight
<1>6. ASSUME NEW tx \in Chosen(now), IsWhole(now[tx]), Finish(now, stored, tx, broken),
             Suffer(broken, { f \in {now[tx].file} : "rename" \in broken }),
             toSender' = toSender \o Append(replies, Complete(tx))
      PROVE  ReceiverRight
  <2>1. tx \in Ids /\ now[tx] # NoTx /\ now[tx].file \in Files
    BY <1>1, <1>2 DEF TablesRight
  <2>2. /\ Delivers /\ TablesEnd(in')
        /\ in'[tx] # NoTx /\ in'[tx].havemeta /\ in'[tx].file \in Files
        /\ Unspoilt(in'[tx].file) => Arrives(in'[tx].file)
    <3>1. \A u \in Ids \ {tx} : now[u] # NoTx => SpacedAt(now[u])
      BY <1>1
    <3>2. "rename" \in broken => ~Unspoilt(now[tx].file)
      BY <1>6, <2>1, SufferTells
    <3>3. \A g \in Files : g # now[tx].file => user'[g] = user[g]
      BY <1>6, SufferTells
    <3>4. incoming \in [Files -> SUBSET (Block \X Files)]
      BY DEF TypeOK, ReceiverTypeOK
    <3> QED BY <1>1, <1>6, <2>1, <3>1, <3>2, <3>3, <3>4, FinishRight
  <2> DEFINE a == Complete(tx)
  <2>3. a \in ToSender /\ Announces(a, tx) /\ ~AsksFor(a, tx)
    BY <2>1, ToSenderType DEF Announces, AsksFor, Complete
  <2> HIDE DEF a
  <2> DEFINE more == Append(replies, a)
  <2>4. Range(more) = Range(replies) \cup {a} /\ more \in Seq(ToSender)
    BY <2>3, RangeAppend, AppendProperties
  <2>5. toSender' = toSender \o more
    BY <1>6 DEF a
  <2> HIDE DEF more
  <2>6. Range(toSender') = Range(toSender) \cup Range(replies) \cup {a}
    <3>1. Range(toSender \o more) = Range(toSender) \cup Range(more)
      BY <2>4, RangeConcat DEF TypeOK, LinkTypeOK
    <3> QED BY <2>4, <2>5, <3>1
  <2>7. RightAnswer(a, tx)
    BY <2>2, <2>3 DEF RightAnswer
  <2> QED BY <2>1, <2>2, <2>6, <2>7 DEF ReceiverRight, AnswersRight
<1>7. ASSUME NEW tx \in Chosen(now), ~IsWhole(now[tx]),
             NEW holes, holes = Holes(Positions(now[tx].got), now[tx].size),
             NEW s \in Ascending(holes),
             toSender' = toSender \o replies \o
                           [k \in 1 .. Cardinality(holes) |-> ReqData(tx, s[k])],
             in' = now, incoming' = incoming, Suffer(broken, {})
      PROVE  ReceiverRight
  <2> DEFINE asks == [k \in 1 .. Cardinality(holes) |-> ReqData(tx, s[k])]
             r == now[tx]
             f == r.file
  <2>1. tx \in Ids /\ r \in InTx /\ r # NoTx /\ r.havemeta /\ in'[tx] = r
    BY <1>1, <1>2, <1>7 DEF Entries
  <2>2. f \in Files /\ (Unspoilt(f) => RightEntry(r, stored[tx], f))
    BY <1>1, <2>1 DEF TablesRight
  <2>3. holes \subseteq Chunk
    BY <1>7, <2>1, PositionsType, HolesType DEF InTx, Block
  <2>4. s \in [1 .. Cardinality(holes) -> holes] /\ Cardinality(holes) \in Nat
    BY <2>3, AscendingType, ChunksFinite
  <2>5. holes = Holes(Positions(r.got), r.size)
    BY <1>7
  <2> HIDE DEF r, f
  <2>6. Unspoilt(f) => \A h \in holes : Within(h, f)
    <3> SUFFICES ASSUME Unspoilt(f) PROVE \A h \in holes : Within(h, f)
      OBVIOUS
    <3>1. 0 < Size[f] /\ r.size = Size[f] /\ AllWithin(r.got, f) /\ r.got \in SUBSET Run
      BY <2>1, <2>2 DEF RightEntry, Counts, AllWithin, InTx
    <3>2. Positions(r.got) \subseteq 0 .. Size[f] - 1
      BY <2>2, <3>1, WithinPositions
    <3> DEFINE got == Positions(r.got)
    <3>3. holes = Holes(got, Size[f]) /\ got \subseteq 0 .. Size[f] - 1
      BY <2>5, <3>1, <3>2
    <3> HIDE DEF got
    <3> QED BY <2>2, <3>1, <3>3, HolesWithin
  <2>7. \A k \in 1 .. Cardinality(holes) : asks[k] = ReqData(tx, s[k]) /\ s[k] \in holes
    BY <2>4
  <2>8. asks \in [1 .. Cardinality(holes) -> ToSender]
    BY <2>1, <2>3, <2>4, ToSenderType
  <2> HIDE DEF asks
  <2>9. asks \in Seq(ToSender) /\ Len(asks) = Cardinality(holes)
    <3> DEFINE n == Cardinality(holes)
    <3>1. n \in Nat /\ asks \in [1 .. n -> ToSender]
      BY <2>4, <2>8
    <3> HIDE DEF n
    <3>2. asks \in Seq(ToSender)
      BY <3>1, FunctionIsSeq
    <3>3. Len(asks) = n
      BY <3>1, <3>2, LenProperties
    <3> QED BY <3>2, <3>3 DEF n
  <2>10. ASSUME NEW h \in holes PROVE RightAnswer(ReqData(tx, h), tx)
    <3> DEFINE a == ReqData(tx, h)
    <3>1. AsksFor(a, tx) /\ ~Announces(a, tx) /\ a.hole = h
      BY DEF AsksFor, Announces, ReqData
    <3> HIDE DEF a
    <3>2. RightAnswer(a, tx)
      BY <2>1, <2>2, <2>6, <3>1 DEF RightAnswer, f
    <3> QED BY <3>2 DEF a
  <2>11. \A a \in Range(asks) : RightAnswer(a, tx)
    <3>1. \A a \in Range(asks) : \E k \in 1 .. Cardinality(holes) : a = asks[k]
      BY <2>9, RangeIs
    <3> QED BY <2>7, <2>10, <3>1
  <2>12. Range(toSender') = Range(toSender) \cup Range(replies) \cup Range(asks)
    <3> DEFINE before == toSender \o replies
    <3>1. before \in Seq(ToSender) /\ Range(before) = Range(toSender) \cup Range(replies)
      BY <1>3
    <3>2. toSender' = before \o asks
      BY <1>7 DEF asks
    <3> HIDE DEF before
    <3>3. Range(before \o asks) = Range(before) \cup Range(asks)
      BY <2>9, <3>1, RangeConcat
    <3> QED BY <3>1, <3>2, <3>3
  <2>13. AnswersRight
    BY <2>1, <2>11, <2>12 DEF AnswersRight
  <2> QED BY <1>4, <1>7, <2>13 DEF ReceiverRight
<1> QED BY <1>5, <1>6, <1>7 DEF NextIncoming, now

\* So is what the DATA handler does with a table that is right.
LEMMA AnnounceRight ==
  ASSUME incoming \in [Files -> SUBSET (Block \X Files)], toSender \in Seq(ToSender), Spoils,
         NEW entries \in Entries, NEW stored \in Stores,
         TablesFit(entries, stored, FailedFiles'), TablesRight(entries, stored),
         NEW tx \in Ids, entries[tx] # NoTx, entries[tx].file \in Files, senderKnown,
         \A u \in Ids \ {tx} : entries[u] # NoTx => SpacedAt(entries[u]),
         ~IsWhole(entries[tx]) => SpacedAt(entries[tx]),
         NEW broken, Announce(entries, stored, tx, broken),
         "rename" \in broken => ~Unspoilt(entries[tx].file),
         \A g \in Files : g # entries[tx].file => user'[g] = user[g]
  PROVE  ReceiverRight
<1>1. CASE IsWhole(entries[tx]) /\ Finish(entries, stored, tx, broken)
           /\ toSender' = Append(toSender, Complete(tx))
  <2>1. /\ Delivers /\ TablesEnd(in')
        /\ in'[tx] # NoTx /\ in'[tx].havemeta /\ in'[tx].file \in Files
        /\ Unspoilt(in'[tx].file) => Arrives(in'[tx].file)
    BY <1>1, FinishRight
  <2> DEFINE a == Complete(tx)
  <2>2. a \in ToSender /\ Announces(a, tx) /\ ~AsksFor(a, tx)
    BY ToSenderType DEF Announces, AsksFor, Complete
  <2>3. toSender' = Append(toSender, a)
    BY <1>1
  <2> HIDE DEF a
  <2>4. Range(toSender') = Range(toSender) \cup {a}
    BY <2>2, <2>3, RangeAppend
  <2>5. RightAnswer(a, tx)
    BY <2>1, <2>2 DEF RightAnswer
  <2> QED BY <2>1, <2>4, <2>5 DEF ReceiverRight, AnswersRight
<1>2. CASE ~IsWhole(entries[tx]) /\ in' = entries /\ UNCHANGED <<incoming, toSender>>
  <2>1. \A u \in Ids : entries[u] # NoTx => SpacedAt(entries[u])
    BY <1>2
  <2>2. Delivers BY <1>2, DeliversNothing DEF AboutOnly
  <2>3. TablesEnd(in') BY <1>2, <2>1, <2>2, TablesStay
  <2>4. AnswersRight BY <1>2 DEF AnswersRight
  <2> QED BY <2>2, <2>3, <2>4 DEF ReceiverRight
<1> QED BY <1>1, <1>2 DEF Announce

\* A block of an undisturbed file of at most three: the list is still right, and
\* when the file is not whole its ranges are still apart.
LEMMA DataRight ==
  ASSUME NEW f \in Files, Size[f] <= 3, NEW r \in InTx, NEW content,
         r.havemeta, r.file = f, NEW spoilt, ListFits(r, content, spoilt),
         RightEntry(r, content, f),
         ~r.complete => Spaced(r.got),
         NEW m, m.block \in Block, m.block < Size[f], m.file = f,
         NEW broken, WithData(r, m, broken).got # r.got
  PROVE  /\ RightEntry(WithData(r, m, broken), WithBlock(r, content, m, broken), f)
         /\ IsWhole(WithData(r, m, broken)) \/ SpacedAt(WithData(r, m, broken))
<1> DEFINE b == m.block
           w == WithData(r, m, broken)
           after == WithBlock(r, content, m, broken)
<1>1. /\ w.got = Absorb(r.got, b) /\ w.havemeta /\ w.complete = r.complete
      /\ w.total = r.total + 1 /\ w.size = r.size /\ w.file = f
  BY DEF WithData, InTx
<1>2. r.got \in SUBSET Run /\ r.total \in Nat /\ b \in Block /\ b < Size[f] /\ NoneEmpty(r.got)
      /\ Size[f] \in Nat
  BY SizeAssumption, MaxBlockAssumption DEF InTx, ListFits, NoneEmpty, Position
<1>3. /\ 0 < Size[f] /\ r.size = Size[f] /\ AllWithin(r.got, f)
      /\ r.complete => Delivered(f)
      /\ ~r.complete => r.total = Count(r.got)
      /\ \A p \in content : p[2] = f
  BY DEF RightEntry, Counts, AllWithin
<1>4. \A p \in after : p[2] = f
  <2>1. \A p \in after : p \in content \/ p = <<m.block, m.file>>
    BY DEF WithBlock, Opened
  <2> QED BY <1>3, <2>1
<1>5. Absorb(r.got, b) # r.got
  BY <1>1
<1> HIDE DEF b, w, after
<1>6. AllWithin(w.got, f)
  BY <1>1, <1>2, <1>3, AbsorbWithin
<1>7. ASSUME ~r.complete
      PROVE  /\ w.total = Count(w.got)
             /\ IsWhole(w) \/ Spaced(w.got)
  <2>1. b \notin Positions(r.got) /\ Count(w.got) = Count(r.got) + 1
    BY <1>1, <1>2, <1>5, <1>7, AbsorbFresh
  <2>2. w.total = Count(w.got)
    BY <1>1, <1>3, <1>7, <2>1
  <2>3. \A c \in r.got : c.hi < Size[f]
    BY <1>3 DEF AllWithin, Within
  <2>4. Spaced(w.got) \/ \A k \in 0 .. Size[f] - 1 : Covered(w.got, k)
    BY <1>1, <1>2, <1>7, <2>1, <2>3, AbsorbSpaced
  <2>5. ASSUME \A k \in 0 .. Size[f] - 1 : Covered(w.got, k) PROVE IsWhole(w)
    <3> DEFINE all == 0 .. Size[f] - 1
    <3>1. w.got \in SUBSET Run
      BY <1>1, <1>2, AbsorbType
    <3>2. Positions(w.got) \subseteq all
      BY <1>6, <3>1, WithinPositions
    <3>3. all \subseteq Positions(w.got)
      <4>1. all \subseteq Position
        BY <1>2, SizeAssumption, MaxBlockAssumption DEF Position
      <4> QED BY <2>5, <4>1 DEF Positions
    <3>4. Count(w.got) = Cardinality(all)
      BY <3>2, <3>3 DEF Count
    <3>5. Cardinality(all) = Size[f]
      <4>1. 0 \in Int /\ Size[f] - 1 \in Int /\ ~(0 > Size[f] - 1) BY <1>2, <1>3
      <4>2. Cardinality(all) = Size[f] - 1 - 0 + 1 BY <4>1, FS_Interval
      <4> QED BY <1>2, <4>2
    <3> QED BY <1>1, <1>3, <2>2, <3>4, <3>5 DEF IsWhole
  <2> QED BY <2>2, <2>4, <2>5
<1>8. RightEntry(w, after, f)
  BY <1>1, <1>3, <1>4, <1>6, <1>7 DEF RightEntry, Counts, AllWithin
<1>9. IsWhole(w) \/ SpacedAt(w)
  BY <1>1, <1>7 DEF SpacedAt
<1> QED BY <1>8, <1>9 DEF w, after

-----------------------------------------------------------------------------
(* The receiver's handlers do that, for files of at most three blocks.        *)

SmallFiles == \A f \in Files : Size[f] <= 3

\* The tables before the step.
LEMMA TablesAreRight ==
  ASSUME TypeOK, FilesRight, Spoils
  PROVE  /\ TablesRight(in, temp)
         /\ \A tx \in Ids : in[tx] # NoTx => SpacedAt(in[tx])
<1> SUFFICES ASSUME NEW tx \in Ids, in[tx] # NoTx, in[tx].havemeta
             PROVE  /\ in[tx].file \in Files /\ user[in[tx].file] # "none"
                    /\ Unspoilt(in[tx].file) =>
                         /\ RightEntry(in[tx], temp[tx], in[tx].file)
                         /\ ~in[tx].complete => Spaced(in[tx].got)
  BY DEF TablesRight, SpacedAt
<1> DEFINE f == in[tx].file
<1>1. Described(tx) /\ f \in FilesOf(tx) /\ f \in Files
  BY DEF Described, InIds, FilesOf, FilesRight, OneFileEach
<1>2. user[f] # "none"
  BY <1>1 DEF FilesRight, OneFileEach
<1>3. ASSUME NEW p \in temp[tx] PROVE p[2] = f
  <2>1. p[2] \in Files
    BY <1>3 DEF TypeOK, ReceiverTypeOK
  <2>2. p[2] \in FilesOf(tx)
    BY <1>3, <2>1 DEF FilesOf
  <2> QED BY <1>1, <2>2 DEF FilesRight, OneFileEach
<1>4. Unspoilt(f) => 0 < Size[f] /\ Receives(in[tx], f)
  BY <1>1, SpoilsSpares DEF FilesRight, FilesAreSent, FileIsSent
<1> HIDE DEF f
<1>5. Unspoilt(f) => /\ RightEntry(in[tx], temp[tx], f)
                     /\ ~in[tx].complete => Spaced(in[tx].got)
  BY <1>3, <1>4 DEF RightEntry, Receives
<1> QED BY <1>1, <1>2, <1>5 DEF f

\* The types the handlers need.
LEMMA TablesAreTyped ==
  ASSUME TypeOK
  PROVE  /\ in \in Entries /\ temp \in Stores /\ toSender \in Seq(ToSender)
         /\ incoming \in [Files -> SUBSET (Block \X Files)]
  BY DEF TypeOK, ReceiverTypeOK, LinkTypeOK, Entries, Stores

\* A step that changes nothing of this is right.
LEMMA QuietIsRight ==
  ASSUME TypeOK, FilesRight, Spoils, UNCHANGED <<in, incoming, toSender, user>>
  PROVE  ReceiverRight
<1>1. Delivers
  BY DeliversNothing
<1>2. TablesEnd(in)
  BY <1>1, TablesAreRight, TablesStay
<1> QED BY <1>1, <1>2 DEF ReceiverRight, AnswersRight

\* A METADATA packet.
LEMMA ReceiveMetaRight ==
  ASSUME TypeOK, Ordered, ListsRight, FilesRight, Spoils, ReceiveMeta
  PROVE  ReceiverRight
<1>1. PICK i \in Arrivals(toReceiver) : ReceiverTakes(i, "METADATA") /\ HandleMeta(toReceiver[i])
  BY DEF ReceiveMeta
<1>2. PICK m : m = toReceiver[1]
  OBVIOUS
<1>3. i = 1 /\ m \in ToReceiver /\ m.type = "METADATA" /\ m \in Range(toReceiver)
  BY <1>1, <1>2, TakesFirst
<1>4. m.tx \in Ids /\ m.file \in Files /\ m.size \in Position /\ Describes(m, m.tx)
  BY <1>3, ToReceiverFields DEF Describes
<1>5. UNCHANGED <<incoming, toSender, user>>
  BY <1>1, SpoilsNone DEF HandleMeta, fates
<1>6. CASE m.tx \in InIds /\ ~in[m.tx].havemeta
  <2> DEFINE r == [in[m.tx] EXCEPT !.havemeta = TRUE, !.file = m.file, !.size = m.size,
                                   !.total = 0, !.open = FALSE]
  <2>1. in' = [in EXCEPT ![m.tx] = r]
    BY <1>1, <1>2, <1>3, <1>6 DEF HandleMeta
  <2>2. in[m.tx] \in InTx /\ ListFits(in[m.tx], temp[m.tx], FailedFiles)
    BY <1>4, <1>6, TablesAreTyped DEF InIds, Entries, ListsRight, ListsFit, TablesFit
  <2>3. r.havemeta /\ r.file = m.file /\ r.size = m.size /\ r.total = 0
        /\ r.got = in[m.tx].got /\ r.complete = in[m.tx].complete
    BY <1>4, <2>2 DEF InTx
  <2> HIDE DEF r
  <2>4. r.got = {} /\ ~r.complete
    BY <1>6, <2>2, <2>3 DEF ListFits
  <2>5. in'[m.tx] = r /\ \A tx \in Ids \ {m.tx} : in'[tx] = in[tx]
    BY <1>4, <2>1, TablesAreTyped DEF Entries
  <2>6. Unspoilt(m.file) => m.size = Size[m.file]
    <3>1. m.file \in FilesOf(m.tx)
      BY <1>3, <1>4 DEF FilesOf
    <3> QED BY <1>3, <1>4, <3>1, SpoilsSpares DEF FilesRight, FilesAreSent, FileIsSent, SendsOnly
  <2>7. Unspoilt(m.file) => ReceivesThen(r, m.file)
    BY <2>3, <2>4, <2>6, NothingCovered DEF ReceivesThen, AllWithin, Spaced
  <2>8. Delivers
    BY <1>5, DeliversNothing
  <2>9. TablesEnd(in)
    BY <2>8, TablesAreRight, TablesStay
  <2>10. TablesEnd(in')
    <3>1. ASSUME NEW u \in Ids, in'[u] # NoTx, in'[u].havemeta
          PROVE  /\ in'[u].file \in Files
                 /\ Unspoilt(in'[u].file) => ReceivesThen(in'[u], in'[u].file)
      <4>1. CASE u = m.tx BY <1>4, <2>3, <2>5, <2>7, <4>1
      <4>2. CASE u # m.tx BY <2>5, <2>9, <3>1, <4>2 DEF TablesEnd
      <4> QED BY <4>1, <4>2
    <3> QED BY <3>1 DEF TablesEnd
  <2> QED BY <1>5, <2>8, <2>10 DEF ReceiverRight, AnswersRight
<1>7. CASE ~(m.tx \in InIds /\ ~in[m.tx].havemeta)
  <2>1. UNCHANGED in
    BY <1>1, <1>2, <1>3, <1>7 DEF HandleMeta
  <2> QED BY <1>5, <2>1, QuietIsRight
<1> QED BY <1>6, <1>7

\* A DATA packet: a block that comes again, or a new one.
LEMMA ReceiveDataRight ==
  ASSUME SmallFiles, TypeOK, Ordered, ListsRight, FilesRight, Spoils, ReceiveData
  PROVE  ReceiverRight
<1>1. PICK i \in Arrivals(toReceiver) : ReceiverTakes(i, "DATA") /\ HandleData(toReceiver[i])
  BY DEF ReceiveData
<1>2. PICK m : m = toReceiver[1]
  OBVIOUS
<1> DEFINE e == in[m.tx]
           f == e.file
           r(broken) == WithData(e, m, broken)
           entries(broken) == [in EXCEPT ![m.tx] = r(broken)]
           stored(broken) == [temp EXCEPT ![m.tx] = WithBlock(e, @, m, broken)]
<1>3. i = 1 /\ m \in ToReceiver /\ m.type = "DATA" /\ m \in Range(toReceiver)
  BY <1>1, <1>2, TakesFirst
<1>4. m.tx \in Ids /\ m.file \in Files /\ m.block \in Block /\ Carries(m, m.tx)
  BY <1>3, ToReceiverFields DEF Carries
<1>5. /\ in \in Entries /\ temp \in Stores /\ toSender \in Seq(ToSender)
      /\ incoming \in [Files -> SUBSET (Block \X Files)]
      /\ TablesFit(in, temp, FailedFiles') /\ TablesRight(in, temp)
      /\ \A tx \in Ids : in[tx] # NoTx => SpacedAt(in[tx])
  <2>1. TablesFit(in, temp, FailedFiles')
    BY SpoilsSpares, MoreSpoilt DEF ListsRight, ListsFit
  <2> QED BY <2>1, TablesAreTyped, TablesAreRight
<1>6. m.tx \in InIds => e.havemeta /\ senderKnown /\ e \in InTx /\ e # NoTx
  <2>1. m.tx \in InIds => Described(m.tx)
    BY <1>3, <1>4 DEF ListsRight, DataFollowsMeta, Unasked, Over
  <2> QED BY <1>4, <1>5, <2>1 DEF Described, FilesRight, SenderMet, Entries, InIds
<1>7. CASE m.tx \notin InIds /\ UNCHANGED <<in, incoming, toSender, user>>
  BY <1>7, QuietIsRight
<1>8. ASSUME m.tx \in InIds, NEW broken, Suffer(broken, { g \in {m.file, f} : broken # {} })
      PROVE  /\ f \in Files /\ m.file = f /\ (Unspoilt(f) => m.block < Size[f])
             /\ broken # {} => ~Unspoilt(f)
             /\ \A g \in Files : g # f => user'[g] = user[g]
  <2>1. f \in Files
    BY <1>4, <1>5, <1>6, <1>8 DEF TablesRight
  <2>2. m.file \in FilesOf(m.tx) /\ f \in FilesOf(m.tx)
    BY <1>3, <1>4, <1>6, <1>8, <2>1 DEF FilesOf, Described
  <2>3. m.file = f
    BY <1>4, <2>2 DEF FilesRight, OneFileEach
  <2>4. Unspoilt(f) => m.block < Size[f]
    BY <1>3, <1>4, <2>1, <2>2, SpoilsSpares DEF FilesRight, FilesAreSent, FileIsSent, SendsOnly
  <2> HIDE DEF f
  <2>5. broken # {} => ~Unspoilt(f)
    BY <1>8, <2>1, SufferTells
  <2>6. \A g \in Files : g # f => user'[g] = user[g]
    BY <1>8, <2>3, SufferTells
  <2> QED BY <2>1, <2>3, <2>4, <2>5, <2>6
<1>9. ASSUME m.tx \in InIds, NEW broken, Suffer(broken, { g \in {m.file, f} : broken # {} }),
             Announce(in, temp, m.tx, broken)
      PROVE  ReceiverRight
  <2>1. /\ e # NoTx /\ f \in Files /\ senderKnown
        /\ "rename" \in broken => ~Unspoilt(f)
        /\ \A g \in Files : g # f => user'[g] = user[g]
    BY <1>6, <1>8, <1>9
  <2> QED BY <1>4, <1>5, <1>9, <2>1, AnnounceRight
<1>10. ASSUME m.tx \in InIds, NEW broken, Suffer(broken, { g \in {m.file, f} : broken # {} }),
              r(broken).got # e.got, Announce(entries(broken), stored(broken), m.tx, broken)
       PROVE  ReceiverRight
  <2> DEFINE content == temp[m.tx]
             c == WithBlock(e, content, m, broken)
             w == r(broken)
             allEntries == entries(broken)
             allStored == stored(broken)
  <2>1. e \in InTx /\ e # NoTx /\ e.havemeta /\ content \in SUBSET (Block \X Files)
        /\ ListFits(e, content, FailedFiles') /\ senderKnown
    BY <1>4, <1>5, <1>6, <1>10 DEF Stores, TablesFit
  <2>2. /\ f \in Files /\ user[f] # "none" /\ (Unspoilt(f) => RightEntry(e, content, f))
        /\ SpacedAt(e)
    BY <1>4, <1>5, <2>1 DEF TablesRight
  <2>3. /\ m.file = f /\ (Unspoilt(f) => m.block < Size[f])
        /\ broken # {} => ~Unspoilt(f)
        /\ \A g \in Files : g # f => user'[g] = user[g]
    BY <1>8, <1>10
  <2>4. w \in InTx /\ w # NoTx /\ w.havemeta /\ w.file = f
    <3>1. w \in InTx BY <1>4, <2>1, WithDataType
    <3>2. w.havemeta /\ w.file = f BY <2>1 DEF WithData, InTx
    <3> QED BY <3>1, <3>2, NoTxAssumption
  <2>5. ListFits(w, c, FailedFiles')
    <3>1. broken # {} => f \in FailedFiles'
      <4>1. broken # {} => user'[f] = "failed"
        BY <1>10, <2>2 DEF Suffer
      <4> QED BY <2>2, <4>1 DEF FailedFiles, Failed
    <3> QED BY <1>3, <2>1, <3>1, DataWritten
  <2>6. c \in SUBSET (Block \X Files)
    BY <1>4, <2>1 DEF WithBlock, Opened
  <2>7. ASSUME Unspoilt(f) PROVE RightEntry(w, c, f) /\ (IsWhole(w) \/ SpacedAt(w))
    <3>1. Size[f] <= 3 /\ RightEntry(e, content, f) /\ m.block < Size[f] /\ m.file = f
      BY <2>2, <2>3, <2>7 DEF SmallFiles
    <3>2. ~e.complete => Spaced(e.got)
      BY <2>1, <2>2, <2>7 DEF SpacedAt
    <3>3. WithData(e, m, broken).got # e.got
      BY <1>10
    <3> DEFINE g == f
    <3>4. g \in Files /\ e.file = g /\ RightEntry(e, content, g) /\ m.block < Size[g]
          /\ m.file = g /\ Size[g] <= 3
      BY <2>2, <3>1
    <3> HIDE DEF e, f, g, content, w, c, r
    <3>5. /\ RightEntry(WithData(e, m, broken), WithBlock(e, content, m, broken), g)
          /\ IsWhole(WithData(e, m, broken)) \/ SpacedAt(WithData(e, m, broken))
      BY <1>4, <2>1, <3>2, <3>3, <3>4, DataRight
    <3> QED BY <3>5 DEF w, r, c, e, g
  <2>8. IsWhole(w) \/ SpacedAt(w)
    BY <2>4, <2>7 DEF SpacedAt
  <2>9. allEntries = [in EXCEPT ![m.tx] = w] /\ allStored = [temp EXCEPT ![m.tx] = c]
    OBVIOUS
  <2>10. Announce(allEntries, allStored, m.tx, broken)
    BY <1>10
  <2> HIDE DEF r, c, w, entries, stored, allEntries, allStored, e, content
  <2>11. /\ allEntries \in Entries /\ allEntries[m.tx] = w
         /\ \A tx \in Ids \ {m.tx} : allEntries[tx] = in[tx]
    BY <1>4, <1>5, <2>4, <2>9 DEF Entries
  <2>12. /\ allStored \in Stores /\ allStored[m.tx] = c
         /\ \A tx \in Ids \ {m.tx} : allStored[tx] = temp[tx]
    BY <1>4, <1>5, <2>6, <2>9 DEF Stores
  <2>13. TablesFit(allEntries, allStored, FailedFiles')
    BY <1>4, <1>5, <2>4, <2>5, <2>11, <2>12 DEF TablesFit
  <2> HIDE DEF f
  <2>14. TablesRight(allEntries, allStored)
    <3>1. ASSUME NEW tx \in Ids, allEntries[tx] # NoTx, allEntries[tx].havemeta
          PROVE  /\ allEntries[tx].file \in Files /\ user[allEntries[tx].file] # "none"
                 /\ Unspoilt(allEntries[tx].file) =>
                      RightEntry(allEntries[tx], allStored[tx], allEntries[tx].file)
      <4>1. CASE tx = m.tx BY <2>2, <2>4, <2>7, <2>11, <2>12, <4>1
      <4>2. CASE tx # m.tx BY <1>5, <2>11, <2>12, <3>1, <4>2 DEF TablesRight
      <4> QED BY <4>1, <4>2
    <3> QED BY <3>1 DEF TablesRight
  <2>15. \A u \in Ids \ {m.tx} : allEntries[u] # NoTx => SpacedAt(allEntries[u])
    BY <1>5, <2>11
  <2>16. /\ allEntries[m.tx] # NoTx /\ allEntries[m.tx].file \in Files
         /\ ~IsWhole(allEntries[m.tx]) => SpacedAt(allEntries[m.tx])
    BY <2>2, <2>4, <2>8, <2>11
  <2>17. /\ "rename" \in broken => ~Unspoilt(allEntries[m.tx].file)
         /\ \A g \in Files : g # allEntries[m.tx].file => user'[g] = user[g]
    BY <2>3, <2>4, <2>11
  <2> QED BY <1>4, <1>5, <2>1, <2>10, <2>11, <2>12, <2>13, <2>14, <2>15, <2>16, <2>17, AnnounceRight
<1>11. CASE m.tx \in InIds
  <2>1. PICK broken :
          /\ Suffer(broken, { g \in {m.file, f} : broken # {} })
          /\ \/ Announce(in, temp, m.tx, broken)
             \/ r(broken).got # e.got /\ Announce(entries(broken), stored(broken), m.tx, broken)
    <3>1. \A broken : r(broken).got = Absorb(e.got, m.block)
      BY <1>6, <1>11 DEF WithData, InTx
    <3>2. Writing(e, m) # {} => Absorb(e.got, m.block) # e.got
      BY DEF Writing
    <3> HIDE DEF r
    <3> QED BY <1>1, <1>2, <1>3, <1>11, <3>1, <3>2 DEF HandleData, r
  <2> QED BY <1>9, <1>10, <1>11, <2>1
<1>12. m.tx \notin InIds => UNCHANGED <<in, incoming, toSender, user>>
  BY <1>1, <1>2, <1>3 DEF HandleData, fates
<1> QED BY <1>7, <1>11, <1>12

\* Entries that are left out, and new ones, change nothing of the others.
LEMMA FewerRight ==
  ASSUME TablesRight(in, temp), NEW entries, NEW stored,
         \A tx \in Ids : entries[tx] # NoTx /\ entries[tx].havemeta =>
           entries[tx] = in[tx] /\ stored[tx] = temp[tx]
  PROVE  TablesRight(entries, stored)
  BY DEF TablesRight

\* A QUEUE packet.
LEMMA ReceiveQueueRight ==
  ASSUME TypeOK, Ordered, ListsRight, FilesRight, Spoils, ReceiveQueue
  PROVE  ReceiverRight
<1>1. PICK i \in Arrivals(toReceiver) : ReceiverTakes(i, "QUEUE") /\ HandleQueue(toReceiver[i])
  BY DEF ReceiveQueue
<1>2. PICK m : m = toReceiver[1]
  OBVIOUS
<1> DEFINE entries == QueueEntries(m)
           stored(broken) == QueueStored(m, broken)
           missing == { tx \in m.ids : ~entries[tx].havemeta }
           replies == IF reqmetaDue /\ missing # {} THEN <<ReqMeta(missing)>> ELSE <<>>
<1>3. i = 1 /\ m \in ToReceiver /\ m.type = "QUEUE" /\ m \in Range(toReceiver)
  BY <1>1, <1>2, TakesFirst
<1>4. PICK broken : NextIncoming(entries, stored(broken), TRUE, replies, broken)
  BY <1>1, <1>2, <1>3 DEF HandleQueue, QueueEntries, QueueStored
<1>5. /\ entries \in Entries /\ stored(broken) \in Stores
      /\ TablesFit(entries, stored(broken), FailedFiles)
  BY <1>3, QueueTables
<1>6. TablesRight(entries, stored(broken))
  <2>1. ~NewEntry.havemeta
    BY DEF NewEntry
  <2>2. ASSUME NEW tx \in Ids, entries[tx] # NoTx, entries[tx].havemeta
        PROVE  entries[tx] = in[tx] /\ stored(broken)[tx] = temp[tx]
    BY <2>1, <2>2 DEF QueueEntries, QueueStored, Without
  <2> HIDE DEF entries, stored
  <2> QED BY <2>2, TablesAreRight, FewerRight
<1>7. missing \in SUBSET Ids
  BY <1>3, ToReceiverFields
<1>8. replies \in Seq(ToSender) /\ \A a \in Range(replies) : a.type = "REQMETA"
  <2> HIDE DEF missing
  <2>1. ReqMeta(missing) \in ToSender /\ ReqMeta(missing).type = "REQMETA"
    BY <1>7, ToSenderType DEF ReqMeta
  <2> DEFINE a == ReqMeta(missing)
  <2> HIDE DEF a
  <2>2. a \in ToSender /\ a.type = "REQMETA" BY <2>1 DEF a
  <2>3. <<a>> \in Seq(ToSender) /\ \A x \in Range(<<a>>) : x = a
    BY <2>2 DEF Range
  <2>4. <<>> \in Seq(ToSender) /\ \A x \in Range(<<>>) : FALSE
    BY DEF Range
  <2> QED BY <2>2, <2>3, <2>4 DEF a
<1> HIDE DEF entries, stored, replies
<1> QED BY <1>4, <1>5, <1>6, <1>8, TablesAreTyped, NextRight

\* A CANCEL packet.
LEMMA ReceiveCancelRight ==
  ASSUME TypeOK, Ordered, ListsRight, FilesRight, Spoils, ReceiveCancel
  PROVE  ReceiverRight
<1>1. PICK i \in Arrivals(toReceiver) : ReceiverTakes(i, "CANCEL") /\ HandleCancel(toReceiver[i])
  BY DEF ReceiveCancel
<1>2. PICK m : m = toReceiver[1]
  OBVIOUS
<1> DEFINE entries == [in EXCEPT ![m.tx] = NoTx]
           stored(broken) == Without(temp, InIds \cap {m.tx}, "removeTemp", broken, {})
<1>3. i = 1 /\ m \in ToReceiver /\ m.type = "CANCEL"
  BY <1>1, <1>2, TakesFirst
<1>4. PICK broken : NextIncoming(entries, stored(broken), senderKnown, <<>>, broken)
  BY <1>1, <1>2, <1>3 DEF HandleCancel
<1>5. m.tx \in Ids
  BY <1>3, ToReceiverFields
<1>6. /\ in \in Entries /\ temp \in Stores /\ TablesFit(in, temp, FailedFiles)
      /\ TablesRight(in, temp)
  BY TablesAreTyped, TablesAreRight DEF ListsRight, ListsFit
<1>7. /\ entries \in Entries /\ entries[m.tx] = NoTx
      /\ \A tx \in Ids \ {m.tx} : entries[tx] = in[tx]
  BY <1>5, <1>6 DEF Entries
<1>8. /\ stored(broken) \in Stores
      /\ \A tx \in Ids \ {m.tx} : stored(broken)[tx] = temp[tx]
  BY <1>5, <1>6 DEF Stores, Without
<1> HIDE DEF entries, stored
<1>9. TablesFit(entries, stored(broken), FailedFiles)
  BY <1>5, <1>6, <1>7, <1>8 DEF TablesFit
<1>10. TablesRight(entries, stored(broken))
  BY <1>6, <1>7, <1>8, FewerRight
<1>11. <<>> \in Seq(ToSender) /\ \A a \in Range(<<>>) : a.type = "REQMETA"
  BY DEF Range
<1> QED BY <1>4, <1>7, <1>8, <1>9, <1>10, <1>11, TablesAreTyped, NextRight

\* So no handler of the receiver does anything wrong to an undisturbed file.
LEMMA HandlersAreRight ==
  ASSUME SmallFiles, TypeOK, Ordered, ListsRight, FilesRight, Spoils, ReceiverHandles
  PROVE  ReceiverRight
  BY ReceiveMetaRight, ReceiveDataRight, ReceiveQueueRight, ReceiveCancelRight DEF ReceiverHandles

-----------------------------------------------------------------------------
(* Whose blocks go under which id: steps of the receiver.                     *)

\* A step of the receiver brings no transfer a file it was not about.
LEMMA ReceiverFiles ==
  ASSUME TypeOK, ReceiverStep, NEW tx \in Ids, NEW f \in FilesOf(tx)'
  PROVE  f \in FilesOf(tx)
<1>1. PICK m : m = toReceiver[1]
  OBVIOUS
<1>2. m \in Range(toReceiver) /\ Range(toReceiver') \subseteq Range(toReceiver)
  BY <1>1, ReceiverLink
<1>3. f \in Files /\ out' = out
  BY DEF FilesOf, ReceiverStep
<1>4. TablesFollow(m, in', temp', senderKnown')
  BY <1>1 DEF ReceiverStep, EntriesFollow
<1>5. CASE tx \in OutIds' /\ out'[tx].file = f
  BY <1>3, <1>5 DEF FilesOf, OutIds
<1>6. CASE Described(tx)' /\ in'[tx].file = f
  <2>1. in'[tx] # NoTx /\ in'[tx].havemeta
    BY <1>6 DEF Described, InIds
  <2>2. \/ Described(tx) /\ in[tx].file = f
        \/ Describes(m, tx) /\ m.file = f
    BY <1>4, <1>6, <2>1 DEF TablesFollow
  <2> QED BY <1>2, <1>3, <2>2 DEF FilesOf
<1>7. CASE \E k \in Range(toReceiver') : (Describes(k, tx) \/ Carries(k, tx)) /\ k.file = f
  BY <1>2, <1>3, <1>7 DEF FilesOf
<1>8. CASE \E p \in temp'[tx] : p[2] = f
  <2>1. \/ \E p \in temp[tx] : p[2] = f
        \/ Carries(m, tx) /\ m.file = f
    BY <1>4, <1>8 DEF TablesFollow
  <2> QED BY <1>2, <1>3, <2>1 DEF FilesOf
<1> QED BY <1>5, <1>6, <1>7, <1>8 DEF FilesOf

\* What a transfer holds after a step, of the meta data it has.
LEMMA DescribedThen ==
  ASSUME NEW tx \in Ids, Described(tx)'
  PROVE  in'[tx] # NoTx /\ in'[tx].havemeta
  BY DEF Described, InIds

\* A transfer is about one file still, ...
LEMMA ReceiverKeepsFile ==
  ASSUME TypeOK, FilesRight, ReceiverStep, ReceiverRight
  PROVE  OneFileEach'
<1> SUFFICES ASSUME NEW tx \in Ids
             PROVE  /\ \A f, g \in FilesOf(tx)' : f = g
                    /\ \A f \in FilesOf(tx)' : user'[f] # "none"
                    /\ Described(tx)' => in'[tx].file \in Files
  BY DEF OneFileEach
<1>1. \A f \in Files : user[f] # "none" => user'[f] # "none"
  BY DEF ReceiverStep, Spoils
<1>2. Described(tx)' => in'[tx].file \in Files
  BY DescribedThen DEF ReceiverRight, TablesEnd
<1>3. \A f, g \in FilesOf(tx) : f = g
  BY DEF FilesRight, OneFileEach
<1>4. \A f \in FilesOf(tx) : user[f] # "none"
  BY DEF FilesRight, OneFileEach
<1>5. \A f \in FilesOf(tx) : f \in Files
  BY DEF FilesOf
<1> QED BY <1>1, <1>2, <1>3, <1>4, <1>5, ReceiverFiles

\* ... what arrived has arrived, ...
LEMMA DeliveredStays ==
  ASSUME Delivers, NEW f \in Files, Unspoilt(f), Delivered(f)
  PROVE  Delivered(f)'
  BY DEF Delivers, Delivered, Arrives, Whole

\* ... what is sent of an undisturbed file and asked for is right, ...
LEMMA ReceiverKeepsContent ==
  ASSUME TypeOK, FilesRight, ReceiverStep, ReceiverRight
  PROVE  FilesAreSent'
<1> SUFFICES ASSUME NEW tx \in Ids, NEW f \in FilesOf(tx)', Undisturbed(f)'
             PROVE  FileIsSent(tx, f)'
  BY DEF FilesAreSent
<1>1. UNCHANGED out /\ OutIds' = OutIds
  BY DEF ReceiverStep, OutIds
<1>2. f \in FilesOf(tx) /\ f \in Files /\ Unspoilt(f) /\ Undisturbed(f)
  <2>1. f \in FilesOf(tx) /\ f \in Files /\ Unspoilt(f)
    BY ReceiverFiles DEF FilesOf, Undisturbed, Unspoilt
  <2> QED BY <2>1, SpoilsSpares DEF ReceiverStep
<1>3. 0 < Size[f] /\ SendsOnly(tx, f)
  BY <1>2 DEF FilesRight, FilesAreSent, FileIsSent
<1>4. Delivered(f) => Delivered(f)'
  BY <1>2, DeliveredStays DEF ReceiverRight
<1>5. ASSUME NEW m \in Range(toReceiver')
      PROVE  (Describes(m, tx) => m.size = Size[f]) /\ (Carries(m, tx) => m.block < Size[f])
  BY <1>3, <1>5, ReceiverLink DEF SendsOnly
<1>6. ASSUME NEW a \in Range(toSender')
      PROVE  (AsksFor(a, tx) => Within(a.hole, f)) /\ (Announces(a, tx) => Delivered(f)')
  <2>1. CASE a \in Range(toSender)
    BY <1>3, <1>4, <2>1 DEF SendsOnly
  <2>2. CASE a.type = "REQMETA"
    BY <2>2 DEF AsksFor, Announces
  <2>3. ASSUME NEW u \in Ids, RightAnswer(a, u), AsksFor(a, tx) \/ Announces(a, tx)
        PROVE  (AsksFor(a, tx) => Within(a.hole, f)) /\ (Announces(a, tx) => Delivered(f)')
    <3>1. u = tx
      BY <2>3 DEF RightAnswer, AsksFor, Announces
    <3>2. PICK g \in Files :
            /\ in'[tx] # NoTx /\ in'[tx].havemeta /\ in'[tx].file = g
            /\ Unspoilt(g) => /\ AsksFor(a, tx) => Within(a.hole, g)
                              /\ Announces(a, tx) => Arrives(g)
      BY <2>3, <3>1 DEF RightAnswer
    <3>3. g \in FilesOf(tx)'
      BY <3>2 DEF FilesOf, Described, InIds
    <3>4. g = f
      BY <3>3, ReceiverKeepsFile DEF OneFileEach
    <3>5. Arrives(f) => Delivered(f)'
      BY DEF Arrives, Delivered, Whole
    <3> QED BY <1>2, <3>2, <3>4, <3>5
  <2> QED BY <2>1, <2>2, <2>3 DEF ReceiverRight, AnswersRight
<1>7. SendsOnly(tx, f)'
  <2>1. tx \in OutIds => out[tx].size = Size[f] /\ \A c \in Range(out[tx].pending) : Within(c, f)
    BY <1>3 DEF SendsOnly
  <2> QED BY <1>1, <1>5, <1>6, <2>1 DEF SendsOnly, Within
<1>8. Described(tx)' => Receives(in[tx], f)'
  <2> SUFFICES ASSUME Described(tx)' PROVE Receives(in[tx], f)'
    OBVIOUS
  <2>1. in'[tx] # NoTx /\ in'[tx].havemeta
    BY DescribedThen
  <2>2. in'[tx].file \in Files
    BY <2>1 DEF ReceiverRight, TablesEnd
  <2>3. in'[tx].file = f
    <3>1. in'[tx].file \in FilesOf(tx)' BY <2>2 DEF FilesOf
    <3> QED BY <3>1, ReceiverKeepsFile DEF OneFileEach
  <2>4. ReceivesThen(in'[tx], f)
    BY <1>2, <2>1, <2>3 DEF ReceiverRight, TablesEnd
  <2> QED BY <2>4
      DEF ReceivesThen, Receives, Counts, AllWithin, Within, Arrives, Delivered, Whole, Spaced,
          Count, Positions
<1> QED BY <1>3, <1>7, <1>8 DEF FileIsSent

\* ... and so is the incoming folder.
LEMMA ReceiverKeepsFolder ==
  ASSUME FilesRight, ReceiverStep, ReceiverRight, NEW f \in Files
  PROVE  FolderRight(f)'
<1>1. UNCHANGED disk /\ FolderRight(f) /\ (Undisturbed(f)' <=> Unspoilt(f))
  BY DEF ReceiverStep, FilesRight, Undisturbed, Unspoilt
<1>2. \/ incoming'[f] = incoming[f]
      \/ user[f] # "none" /\ (Unspoilt(f) => Arrives(f))
  BY DEF ReceiverRight, Delivers
<1>3. Arrives(f) => Delivered(f)'
  BY DEF Arrives, Delivered, Whole
<1>4. Unspoilt(f) /\ Delivered(f) => Delivered(f)'
  BY DeliveredStays DEF ReceiverRight
<1>5. user'[f] = user[f] \/ user'[f] = "failed"
  BY DEF ReceiverStep, Spoils
<1>6. Unspoilt(f) => Undisturbed(f)
  BY SpoilsSpares DEF ReceiverStep
<1> QED BY <1>1, <1>2, <1>3, <1>4, <1>5, <1>6 DEF FolderRight

\* Together: a step of the receiver that is right keeps what is right of the files.
LEMMA ReceiverKeepsAll ==
  ASSUME TypeOK, FilesRight, ReceiverStep, ReceiverRight
  PROVE  FilesRight'
<1>1. SenderMet'
  <2>1. PICK m : m = toReceiver[1]
    OBVIOUS
  <2>2. \A tx \in Ids : in'[tx] # NoTx => tx \in InIds \/ senderKnown'
    BY <2>1 DEF ReceiverStep, EntriesFollow, TablesFollow
  <2>3. senderKnown => senderKnown'
    BY DEF ReceiverStep
  <2> QED BY <2>2, <2>3 DEF FilesRight, SenderMet, InIds
<1> QED BY <1>1, ReceiverKeepsFile, ReceiverKeepsContent, ReceiverKeepsFolder DEF FilesRight

-----------------------------------------------------------------------------
(* What the user is promised, of the files no other program touches.          *)

\* All is right at the start ...
LEMMA ContentInit == Init => FilesRight
<1> SUFFICES ASSUME Init PROVE FilesRight
  OBVIOUS
<1>1. /\ OutIds = {} /\ InIds = {} /\ \A tx \in Ids : temp[tx] = {}
      /\ toReceiver = <<>> /\ toSender = <<>>
      /\ \A f \in Files : user[f] = "none" /\ ~disk[f].there /\ incoming[f] = {}
  BY DEF Init, OutIds, InIds
<1>2. Range(toReceiver) = {} /\ Range(toSender) = {}
  BY <1>1 DEF Range
<1>3. \A tx \in Ids : FilesOf(tx) = {} /\ ~Described(tx)
  BY <1>1, <1>2 DEF FilesOf, Described
<1>4. \A f \in Files : FolderRight(f)
  BY <1>1 DEF FolderRight, Undisturbed
<1> QED BY <1>1, <1>3, <1>4 DEF FilesRight, OneFileEach, FilesAreSent, SenderMet

\* ... and stays so.
LEMMA ContentStep ==
  ASSUME SmallFiles, TypeOK, TypeOK', Ordered, ListsRight, FilesRight, ProtocolStep
  PROVE  FilesRight'
<1>1. ReceiverStep => Spoils
  BY DEF ReceiverStep
<1> QED BY <1>1, UserKeepsAll, SenderKeepsAll, HandlersAreRight, ReceiverKeepsAll DEF ProtocolStep

\* Every file in a slot that no other program touches is there.
LEMMA SlotsOnDiskStep ==
  ASSUME TypeOK, SlotsDiffer, SlotsOnDisk, ProtocolStep
  PROVE  SlotsOnDisk'
<1> SUFFICES ASSUME NEW tx \in OutIds', user'[out'[tx].file] = "put"
             PROVE  disk'[out'[tx].file].there
  BY DEF SlotsOnDisk, Undisturbed
<1>1. ASSUME UserStep PROVE disk'[out'[tx].file].there
  <2>1. out' = out /\ tx \in OutIds
    BY <1>1 DEF UserStep, OutIds
  <2>2. PICK f \in Files : PutFile(f) \/ DisturbFile(f)
    BY <1>1 DEF UserStep
  <2>3. out[tx].file \in Files
    BY <2>1, OutSlot DEF TypeOK
  <2>4. CASE out[tx].file = f
    <3>1. PutFile(f)
      BY <2>1, <2>2, <2>3, <2>4 DEF DisturbFile, Undisturbed, TypeOK, LinkTypeOK
    <3> QED BY <2>1, <2>3, <2>4, <3>1 DEF PutFile, TypeOK, SenderTypeOK
  <2>5. CASE out[tx].file # f
    <3>1. user'[out[tx].file] = user[out[tx].file] /\ disk'[out[tx].file] = disk[out[tx].file]
      BY <2>2, <2>3, <2>5
      DEF PutFile, DisturbFile, TypeOK, SenderTypeOK, LinkTypeOK
    <3> QED BY <2>1, <3>1 DEF SlotsOnDisk, Undisturbed
  <2> QED BY <2>4, <2>5
<1>2. ASSUME SenderStep PROVE disk'[out'[tx].file].there
  <2>1. \A f \in Files : user'[f] = "put" => user[f] = "put"
    BY <1>2, SenderSpoils
  <2>2. CASE SlotBegins(tx)
    BY <2>2 DEF SlotBegins
  <2>3. CASE SlotGoesOn(tx)
    <3>1. tx \in OutIds /\ out'[tx].file = out[tx].file /\ out[tx].file \in Files
      BY <2>3, OutSlot DEF SlotGoesOn, TypeOK
    <3>2. disk[out[tx].file].there
      BY <2>1, <3>1 DEF SlotsOnDisk, Undisturbed
    <3>3. ASSUME NEW u \in OutIds, FreesFile(u) PROVE disk'[out[tx].file] = disk[out[tx].file]
      <4>1. u # tx
        BY <3>3 DEF FreesFile
      <4>2. out[u].file # out[tx].file
        BY <3>1, <4>1 DEF SlotsDiffer, OneSlotPerFile
      <4> QED BY <3>1, <3>3, <4>2 DEF FreesFile, TypeOK, SenderTypeOK
    <3> QED BY <1>2, <3>1, <3>2, <3>3 DEF SenderStep
  <2> QED BY <1>2, <2>2, <2>3 DEF SenderStep
<1>3. ASSUME ReceiverStep PROVE disk'[out'[tx].file].there
  <2>1. UNCHANGED <<disk, out>> /\ tx \in OutIds
    BY <1>3 DEF ReceiverStep, OutIds
  <2>2. out[tx].file \in Files
    BY <2>1, OutSlot DEF TypeOK
  <2>3. user[out[tx].file] = "put"
    BY <1>3, <2>1, <2>2 DEF ReceiverStep, Spoils
  <2> QED BY <2>1, <2>3 DEF SlotsOnDisk, Undisturbed
<1> QED BY <1>1, <1>2, <1>3 DEF ProtocolStep

\* The ranges a restart would read stay within the file.
LEMMA SavedWithinStep ==
  ASSUME TypeOK, TypeOK', SlotsDiffer, SlotsDiffer', FilesRight, FilesRight', SavedWithin,
         MetasFollow, ProtocolStep, restarts'.sender = restarts.sender
  PROVE  SavedWithin'
<1> SUFFICES ASSUME restarts.sender < SenderRestarts,
                    NEW tx \in Ids, metaOut'[tx] # NoTx, metaOut'[tx].live,
                    user'[metaOut'[tx].file] = "put", NEW c \in Range(metaOut'[tx].pending)
             PROVE  Within(c, metaOut'[tx].file)
  BY DEF Saved, SavedWithin, Undisturbed, Within
<1>1. tx \in OutIds' /\ out'[tx].file = metaOut'[tx].file
  BY DEF SlotsDiffer, MetaFollowsSlot
<1>2. CASE metaOut'[tx] = metaOut[tx]
  <2>1. tx \in OutIds /\ out[tx].file = metaOut[tx].file
    BY <1>2 DEF SlotsDiffer, MetaFollowsSlot
  <2>2. metaOut[tx].file \in Files /\ metaOut[tx].file \in FilesOf(tx)
    BY <2>1, OutSlot DEF TypeOK, FilesOf
  <2>3. user[metaOut[tx].file] # "none"
    BY <2>2 DEF FilesRight, OneFileEach
  <2>4. Undisturbed(metaOut[tx].file)
    <3>1. CASE UserStep
      BY <1>2, <2>2, <2>3, <3>1
      DEF UserStep, PutFile, DisturbFile, Undisturbed, TypeOK, LinkTypeOK
    <3>2. CASE SenderStep
      BY <1>2, <2>2, <3>2, SenderSpoils DEF Undisturbed
    <3>3. CASE ReceiverStep
      BY <1>2, <2>2, <3>3 DEF ReceiverStep, Spoils, Undisturbed
    <3> QED BY <3>1, <3>2, <3>3 DEF ProtocolStep
  <2> QED BY <1>2, <2>4 DEF Saved, SavedWithin
<1>3. CASE metaOut'[tx].pending = out'[tx].pending
  <2>1. PICK f \in Files : f = out'[tx].file
    BY <1>1 DEF TypeOK, OutIds, SenderTypeOK, OutTx
  <2>2. f \in FilesOf(tx)'
    BY <1>1, <2>1 DEF FilesOf
  <2>3. SendsOnly(tx, f)'
    BY <1>1, <2>1, <2>2 DEF FilesRight, FilesAreSent, FileIsSent, Undisturbed
  <2> QED BY <1>1, <1>3, <2>1, <2>3 DEF SendsOnly, Within
<1> QED BY <1>2, <1>3 DEF MetasFollow

\* A restored slot sends of its file what it sent before.
LEMMA RestartKeepsAll ==
  ASSUME TypeOK, FilesRight, SavedWithin, SlotsOnDisk, RestartStep PROVE FilesRight'
<1>1. /\ Range(toReceiver') \subseteq Range(toReceiver) /\ InIds' = InIds
      /\ UNCHANGED <<disk, in, temp, incoming, senderKnown, toSender, user>>
      /\ \A tx \in OutIds' : SlotRestored(tx) /\ tx \in OutIds
  BY RestartLink DEF RestartStep, SlotRestored, InIds
<1>2. ASSUME NEW tx \in Ids
      PROVE  FilesOf(tx)' \subseteq FilesOf(tx) /\ (Described(tx)' <=> Described(tx))
  BY <1>1 DEF FilesOf, Described, SlotRestored
<1>3. OneFileEach'
  BY <1>1, <1>2 DEF FilesRight, OneFileEach
<1>4. ASSUME NEW tx \in Ids, NEW f \in FilesOf(tx)', Undisturbed(f)'
      PROVE  FileIsSent(tx, f)'
  <2>1. f \in Files /\ f \in FilesOf(tx) /\ Undisturbed(f)
    BY <1>1, <1>2, <1>4 DEF FilesOf, Undisturbed
  <2>2. 0 < Size[f] /\ SendsOnly(tx, f) /\ (Described(tx) => Receives(in[tx], f))
    BY <2>1 DEF FilesRight, FilesAreSent, FileIsSent
  <2>3. ASSUME tx \in OutIds'
        PROVE  out'[tx].size = Size[f] /\ \A c \in Range(out'[tx].pending) : Within(c, f)
    <3>1. SlotRestored(tx) /\ out[tx].file \in Files /\ tx \in OutIds
      BY <1>1, <2>3, OutSlot DEF TypeOK
    <3>2. out[tx].file = f
      <4>1. out[tx].file \in FilesOf(tx)
        BY <3>1 DEF FilesOf
      <4> QED BY <2>1, <4>1 DEF FilesRight, OneFileEach
    <3>3. out'[tx].size = Size[f]
      BY <2>1, <3>1, <3>2 DEF SlotRestored, SlotsOnDisk, FilesRight, FolderRight
    <3>4. \A c \in Range(metaOut[tx].pending) : Within(c, f)
      BY <2>1, <3>1, <3>2 DEF Saved, SlotRestored, SavedWithin, RestartStep
    <3>5. metaOut[tx].pending \in Seq(Chunk)
      BY <3>1 DEF SlotRestored, OutMeta
    <3> QED BY <2>1, <3>1, <3>3, <3>4, <3>5, RestoredList DEF SlotRestored
  <2>4. SendsOnly(tx, f)'
    BY <1>1, <2>2, <2>3 DEF SendsOnly, Within, Delivered
  <2> QED BY <1>1, <1>2, <2>2, <2>4 DEF FileIsSent, Receives, Counts, Within, Spaced, Delivered
<1>5. \A f \in Files : FolderRight(f)'
  BY <1>1 DEF FilesRight, FolderRight, Undisturbed, Delivered
<1>6. SenderMet'
  BY <1>1 DEF FilesRight, SenderMet
<1> QED BY <1>3, <1>4, <1>5, <1>6 DEF FilesRight, FilesAreSent

\* All of the above.
Safe == Listed /\ FilesRight /\ SavedWithin /\ SlotsOnDisk

\* It holds at the start.
LEMMA SafeInit == Init => Safe
<1>1. Init => SavedWithin /\ SlotsOnDisk
  BY DEF Init, SavedWithin, Saved, SlotsOnDisk, OutIds
<1> QED BY <1>1, ListedInit, ContentInit DEF Safe

\* Every step keeps it, as long as no id is taken that is spoken of.
LEMMA SafeStep ==
  ASSUME Ordered, SmallFiles, RestartsSafely, ReceiverRestarts = 0,
         Safe, [TakesUnused]_vars, [Next]_vars
  PROVE  Safe' /\ (ProtocolStep \/ RestartStep)
<1>1. Listed' /\ (RunningStep \/ RestartStep)
  BY ListedStep DEF Safe
<1>2. CASE RestartStep
  <2>1. FilesRight'
    BY <1>2, RestartKeepsAll DEF Safe, Listed
  <2>2. SavedWithin' /\ SlotsOnDisk'
    BY <1>2, BoundsAssumption
    DEF Safe, SavedWithin, SlotsOnDisk, RestartStep, SlotRestored, Undisturbed
  <2> QED BY <1>1, <1>2, <2>1, <2>2 DEF Safe
<1>3. CASE RunningStep
  <2>1. FilesRight'
    BY <1>1, <1>3, ContentStep DEF Safe, Listed, RunningStep
  <2>2. SlotsOnDisk'
    BY <1>3, SlotsOnDiskStep DEF Safe, Listed, RunningStep
  <2>3. SavedWithin'
    BY <1>1, <1>3, <2>1, SavedWithinStep DEF Safe, Listed, RunningStep
  <2> QED BY <1>1, <1>3, <2>1, <2>2, <2>3 DEF Safe, RunningStep
<1> QED BY <1>1, <1>2, <1>3

\* So it holds in every state.
LEMMA SafeAlways ==
  ASSUME Ordered, SmallFiles, RestartsSafely, ReceiverRestarts = 0
  PROVE  Spec /\ [][TakesUnused]_vars => []Safe
<1>1. Safe /\ [TakesUnused]_vars /\ [Next]_vars => Safe'
  BY SafeStep
<1> QED BY <1>1, SafeInit, PTL DEF Spec

\* As long as a file is only given a transaction id that is spoken of nowhere, and
\* the receiver is not restarted and the sender at most once, a file of at most
\* three blocks leaves the outgoing folder only after it has arrived, whole,
\* unless another program touches it or a call fails on it: whatever the links
\* lose or duplicate and whatever fails for other files.
THEOREM NothingIsLost ==
  ASSUME Ordered, SmallFiles, RestartsSafely, ReceiverRestarts = 0
  PROVE  Spec /\ [][TakesUnused]_vars => []NeverLost
<1>1. Safe => NeverLost
  BY DEF Safe, FilesRight, FolderRight, NeverLost
<1> QED BY <1>1, SafeAlways, PTL

\* Under the same hypotheses, whatever is in the incoming folder under the name
\* of such a file is that file, whole.
THEOREM WhatArrivesIsWhole ==
  ASSUME Ordered, SmallFiles, RestartsSafely, ReceiverRestarts = 0
  PROVE  Spec /\ [][TakesUnused]_vars => []DeliveredIntact
<1>1. Safe => DeliveredIntact
  BY DEF Safe, FilesRight, FolderRight, DeliveredIntact
<1> QED BY <1>1, SafeAlways, PTL

\* Under the same hypotheses, a COMPLETE packet on its way speaks of a file that
\* has arrived: the slot it frees is never that of another file.
THEOREM CompleteTellsTheTruth ==
  ASSUME Ordered, SmallFiles, RestartsSafely, ReceiverRestarts = 0
  PROVE  Spec /\ [][TakesUnused]_vars => []CompleteIsTrue
<1>1. Safe => CompleteIsTrue
  <2> SUFFICES ASSUME Safe, NEW i \in DOMAIN toSender, toSender[i].type = "COMPLETE",
                      toSender[i].tx \in OutIds, Undisturbed(out[toSender[i].tx].file)
               PROVE  Delivered(out[toSender[i].tx].file)
    BY DEF CompleteIsTrue
  <2> DEFINE a == toSender[i]
             tx == a.tx
             f == out[tx].file
  <2>1. a \in Range(toSender) /\ Announces(a, tx)
    BY DEF Range, Announces
  <2>2. tx \in Ids /\ tx \in OutIds /\ out[tx] \in OutTx
    BY OutSlot DEF OutIds, Safe, Listed, TypeOK
  <2>3. f \in FilesOf(tx) /\ Undisturbed(f)
    BY <2>2 DEF FilesOf, OutTx
  <2> HIDE DEF a, tx, f
  <2>4. SendsOnly(tx, f)
    BY <2>2, <2>3 DEF Safe, FilesRight, FilesAreSent, FileIsSent
  <2>5. Delivered(f)
    BY <2>1, <2>4 DEF SendsOnly
  <2> QED BY <2>5 DEF f, tx, a
<1> QED BY <1>1, SafeAlways, PTL

-----------------------------------------------------------------------------
(* The steps the user sees are the steps of FileMove.                         *)

Present == { f \in MovedFiles : disk[f].there /\ ~Failed(f) }
Moved == { f \in MovedFiles : Delivered(f) /\ ~Failed(f) }
Fallen == { f \in MovedFiles : Failed(f) }

NothingMoves == Present' = Present /\ Moved' = Moved /\ Fallen' = Fallen

\* A step in which nothing happens to any file but f.
AllButFor(f) ==
  \A g \in Files : g # f => disk'[g] = disk[g] /\ incoming'[g] = incoming[g] /\ user'[g] = user[g]

\* One of the files of FileMove changes, or none does.
LEMMA MoveIs ==
  ASSUME NEW f \in MovedFiles,
         \/ /\ f \notin Present \cup Moved \cup Fallen
            /\ Present' = Present \cup {f} /\ Moved' = Moved /\ Fallen' = Fallen
         \/ /\ f \in Present \ Moved
            /\ Moved' = Moved \cup {f} /\ Present' = Present /\ Fallen' = Fallen
         \/ /\ f \in Present \cap Moved
            /\ Present' = Present \ {f} /\ Moved' = Moved /\ Fallen' = Fallen
         \/ /\ f \in Present \cup Moved
            /\ Present' = Present \ {f} /\ Moved' = Moved \ {f} /\ Fallen' = Fallen \cup {f}
  PROVE  Move!MoveNext
  BY DEF Present, Moved, Fallen, Move!MoveNext, Move!Put, Move!Deliver, Move!Remove, Move!Fail

\* A file of FileMove is one that no other program touches, of at least one block.
LEMMA MovedFacts ==
  ASSUME NEW f \in MovedFiles
  PROVE  /\ f \in Files /\ f \notin Disturbed /\ 0 < Size[f]
         /\ incoming[f] = {} => ~Delivered(f)
         /\ TypeOK /\ (\A g \in Files : FolderRight(g)) =>
              (user[f] = "none" \/ Undisturbed(f) \/ Failed(f))
<1>1. f \in Files /\ f \notin Disturbed /\ 0 < Size[f]
  BY DEF MovedFiles
<1>2. <<0, f>> \in Whole(f)
  <2>1. Size[f] \in Nat BY <1>1, SizeAssumption, MaxBlockAssumption DEF Position
  <2>2. 0 \in 0 .. Size[f] - 1 BY <1>1, <2>1
  <2> QED BY <2>2 DEF Whole
<1>3. TypeOK /\ (\A g \in Files : FolderRight(g)) =>
        (user[f] = "none" \/ Undisturbed(f) \/ Failed(f))
  BY <1>1 DEF FolderRight, Undisturbed, Failed, TypeOK, LinkTypeOK
<1> QED BY <1>1, <1>2, <1>3 DEF Delivered

\* What a file is to FileMove depends on what happens to it alone.
LEMMA OthersDoNotMove ==
  ASSUME NEW f \in Files, AllButFor(f)
  PROVE  /\ \A g \in MovedFiles : g # f =>
              /\ g \in Present' <=> g \in Present
              /\ g \in Moved' <=> g \in Moved
              /\ g \in Fallen' <=> g \in Fallen
         /\ f \notin MovedFiles => NothingMoves
<1>1. \A g \in MovedFiles : g # f =>
        /\ disk'[g] = disk[g] /\ (Delivered(g)' <=> Delivered(g)) /\ (Failed(g)' <=> Failed(g))
  BY MovedFacts DEF AllButFor, Delivered, Whole, Failed
<1>2. \A g \in MovedFiles : g # f =>
        /\ g \in Present' <=> g \in Present
        /\ g \in Moved' <=> g \in Moved
        /\ g \in Fallen' <=> g \in Fallen
  BY <1>1 DEF Present, Moved, Fallen
<1>3. /\ Present \subseteq MovedFiles /\ Moved \subseteq MovedFiles /\ Fallen \subseteq MovedFiles
      /\ Present' \subseteq MovedFiles /\ Moved' \subseteq MovedFiles /\ Fallen' \subseteq MovedFiles
  BY DEF Present, Moved, Fallen
<1> QED BY <1>2, <1>3 DEF NothingMoves

\* A file fails: for the first time, or again.
LEMMA FileFails ==
  ASSUME TypeOK, FilesRight, NEW f \in Files, AllButFor(f), user[f] # "none", user'[f] = "failed"
  PROVE  Move!MoveNext \/ NothingMoves
<1>1. CASE f \notin MovedFiles
  BY <1>1, OthersDoNotMove
<1>2. CASE f \in MovedFiles
  <2>1. f \notin Present' /\ f \notin Moved' /\ f \in Fallen'
    BY <1>2 DEF Present, Moved, Fallen, Failed
  <2>2. /\ Present' = Present \ {f} /\ Moved' = Moved \ {f} /\ Fallen' = Fallen \cup {f}
    <3>1. /\ Present \subseteq MovedFiles /\ Moved \subseteq MovedFiles /\ Fallen \subseteq MovedFiles
          /\ Present' \subseteq MovedFiles /\ Moved' \subseteq MovedFiles
          /\ Fallen' \subseteq MovedFiles
      BY DEF Present, Moved, Fallen
    <3> QED BY <1>2, <2>1, <3>1, OthersDoNotMove
  <2>3. CASE Failed(f)
    <3>1. f \notin Present /\ f \notin Moved /\ f \in Fallen
      BY <1>2, <2>3 DEF Present, Moved, Fallen
    <3> QED BY <2>2, <3>1 DEF NothingMoves
  <2>4. CASE ~Failed(f)
    <3>1. Undisturbed(f)
      BY <1>2, <2>4, MovedFacts DEF FilesRight
    <3>2. f \in Present \cup Moved
      BY <1>2, <2>4, <3>1 DEF FilesRight, FolderRight, Present, Moved
    <3> QED BY <1>2, <2>2, <3>2, MoveIs
  <2> QED BY <2>3, <2>4
<1> QED BY <1>1, <1>2

\* The user puts a file.
LEMMA UserMoves ==
  ASSUME TypeOK, FilesRight, UserStep
  PROVE  Move!MoveNext \/ NothingMoves
<1>1. PICK f \in Files : PutFile(f) \/ DisturbFile(f)
  BY DEF UserStep
<1>2. UNCHANGED incoming /\ (Delivered(f)' <=> Delivered(f))
  BY DEF UserStep, Delivered
<1>3. AllButFor(f)
  BY <1>1, <1>2 DEF AllButFor, PutFile, DisturbFile, TypeOK, SenderTypeOK, LinkTypeOK
<1>4. CASE f \notin MovedFiles
  BY <1>3, <1>4, OthersDoNotMove
<1>5. CASE f \in MovedFiles
  <2>1. user[f] = "none" /\ user'[f] = "put" /\ disk'[f].there
    BY <1>1, <1>5, MovedFacts DEF PutFile, DisturbFile, TypeOK, SenderTypeOK, LinkTypeOK
  <2>2. ~disk[f].there /\ ~Delivered(f)
    BY <1>5, <2>1, MovedFacts DEF FilesRight, FolderRight
  <2>3. /\ f \notin Present \cup Moved \cup Fallen
        /\ f \in Present' /\ f \notin Moved' /\ f \notin Fallen'
    BY <1>2, <1>5, <2>1, <2>2 DEF Present, Moved, Fallen, Failed
  <2>4. Present' = Present \cup {f} /\ Moved' = Moved /\ Fallen' = Fallen
    <3>1. /\ Present \subseteq MovedFiles /\ Moved \subseteq MovedFiles /\ Fallen \subseteq MovedFiles
          /\ Present' \subseteq MovedFiles /\ Moved' \subseteq MovedFiles
          /\ Fallen' \subseteq MovedFiles
      BY DEF Present, Moved, Fallen
    <3> QED BY <1>3, <1>5, <2>3, <3>1, OthersDoNotMove
  <2> QED BY <1>5, <2>3, <2>4, MoveIs
<1> QED BY <1>4, <1>5

\* The sender removes a file that has arrived, or one that is gone already; or the
\* file cannot be read.
LEMMA SenderMoves ==
  ASSUME TypeOK, FilesRight, FilesRight', SenderStep
  PROVE  Move!MoveNext \/ NothingMoves
<1>1. UNCHANGED incoming
  BY DEF SenderStep
<1>2. CASE UNCHANGED <<disk, user>>
  BY <1>1, <1>2 DEF NothingMoves, Present, Moved, Fallen, Delivered, Failed
<1>3. ASSUME NEW tx \in OutIds, FreesFile(tx) PROVE Move!MoveNext \/ NothingMoves
  <2>1. PICK f : f = out[tx].file
    OBVIOUS
  <2>2. f \in Files /\ tx \in Ids /\ f \in FilesOf(tx)
    BY <2>1, OutSlot DEF TypeOK, FilesOf
  <2>3. user[f] # "none"
    BY <2>2 DEF FilesRight, OneFileEach
  <2>4. AllButFor(f)
    BY <1>1, <1>3, <2>1, <2>2 DEF AllButFor, FreesFile, TypeOK, SenderTypeOK, LinkTypeOK
  <2>5. user'[f] = "failed" \/ user' = user
    BY <1>3, <2>1, <2>2 DEF FreesFile, TypeOK, LinkTypeOK
  <2>6. disk' = disk \/ ~disk'[f].there
    BY <1>3, <2>1, <2>2 DEF FreesFile, TypeOK, SenderTypeOK
  <2>7. CASE user'[f] = "failed"
    BY <2>2, <2>3, <2>4, <2>7, FileFails
  <2>8. CASE user' = user /\ disk' = disk
    BY <1>2, <2>8
  <2>9. CASE user' = user /\ ~disk'[f].there
    <3>1. \A g \in Files : (Delivered(g)' <=> Delivered(g)) /\ (Failed(g)' <=> Failed(g))
      BY <1>1, <2>9 DEF Delivered, Whole, Failed
    <3>2. MovedFiles \subseteq Files
      BY DEF MovedFiles
    <3>3. Moved' = Moved /\ Fallen' = Fallen
      BY <3>1, <3>2 DEF Moved, Fallen
    <3>4. Present' = Present \ {f}
      <4>1. f \notin Present' BY <2>9 DEF Present
      <4>2. Present \subseteq MovedFiles /\ Present' \subseteq MovedFiles BY DEF Present
      <4> QED BY <2>2, <2>4, <4>1, <4>2, OthersDoNotMove
    <3>5. CASE f \notin Present
      BY <3>3, <3>4, <3>5 DEF NothingMoves
    <3>6. CASE f \in Present
      <4>1. f \in MovedFiles /\ ~Failed(f)
        BY <3>6 DEF Present
      <4>2. Undisturbed(f)
        BY <2>3, <4>1, MovedFacts DEF FilesRight
      <4>3. Undisturbed(f)' /\ FolderRight(f)'
        BY <2>2, <2>9, <4>2 DEF Undisturbed, FilesRight
      <4>4. Delivered(f)
        BY <2>2, <2>9, <3>1, <4>3 DEF FolderRight
      <4>5. f \in Moved
        BY <4>1, <4>4 DEF Moved
      <4> QED BY <3>3, <3>4, <3>6, <4>1, <4>5, MoveIs
    <3> QED BY <3>5, <3>6
  <2> QED BY <2>5, <2>6, <2>7, <2>8, <2>9
<1> QED BY <1>2, <1>3 DEF SenderStep

\* The receiver moves a file, or the same file again; or a call fails it.
LEMMA ReceiverMoves ==
  ASSUME TypeOK, FilesRight, ReceiverStep, ReceiverRight
  PROVE  Move!MoveNext \/ NothingMoves
<1>1. UNCHANGED disk /\ Spoils
  BY DEF ReceiverStep
<1>2. Delivers
  BY DEF ReceiverRight
<1>3. CASE UNCHANGED <<incoming, user>>
  BY <1>1, <1>3 DEF NothingMoves, Present, Moved, Fallen, Delivered, Failed
<1>4. ASSUME NEW f \in Files, AboutOnly(f) PROVE Move!MoveNext \/ NothingMoves
  <2>1. AllButFor(f)
    BY <1>1, <1>4 DEF AboutOnly, AllButFor
  <2>2. user'[f] = user[f] \/ (user'[f] = "failed" /\ user[f] # "none")
    BY <1>1 DEF Spoils, FilesRight, OneFileEach
  <2>3. CASE user'[f] = "failed" /\ user[f] # "none"
    BY <2>1, <2>3, FileFails
  <2>4. CASE user'[f] = user[f] /\ f \in MovedFiles
    <3>1. /\ Present \subseteq MovedFiles /\ Moved \subseteq MovedFiles /\ Fallen \subseteq MovedFiles
          /\ Present' \subseteq MovedFiles /\ Moved' \subseteq MovedFiles
          /\ Fallen' \subseteq MovedFiles
      BY DEF Present, Moved, Fallen
    <3>2. (Failed(f)' <=> Failed(f)) /\ (f \in Present' <=> f \in Present)
          /\ (f \in Fallen' <=> f \in Fallen)
      BY <1>1, <2>4 DEF Failed, Present, Fallen
    <3>3. Present' = Present /\ Fallen' = Fallen
      BY <2>1, <3>1, <3>2, OthersDoNotMove
    <3>4. CASE f \in Moved' <=> f \in Moved
      <4>1. Moved' = Moved BY <2>1, <3>1, <3>4, OthersDoNotMove
      <4> QED BY <3>3, <4>1 DEF NothingMoves
    <3>5. CASE ~(f \in Moved' <=> f \in Moved)
      <4>1. ~Failed(f) /\ incoming'[f] # incoming[f]
        BY <2>4, <3>2, <3>5 DEF Moved, Delivered, Whole
      <4>2. user[f] # "none" /\ (Unspoilt(f) => Arrives(f))
        BY <1>2, <4>1 DEF Delivers
      <4>3. Undisturbed(f) /\ Unspoilt(f)
        BY <2>4, <4>1, <4>2, MovedFacts DEF FilesRight, Undisturbed, Unspoilt
      <4>4. Delivered(f)'
        BY <4>2, <4>3 DEF Arrives, Delivered, Whole
      <4>5. f \in Moved' /\ f \notin Moved
        BY <2>4, <3>2, <3>5, <4>1, <4>4 DEF Moved
      <4>6. f \in Present
        <5>1. ~Delivered(f) BY <2>4, <4>1, <4>5 DEF Moved
        <5> QED BY <2>4, <4>1, <4>3, <5>1 DEF FilesRight, FolderRight, Present
      <4>7. Moved' = Moved \cup {f}
        BY <2>1, <3>1, <4>5, OthersDoNotMove
      <4> QED BY <2>4, <3>3, <4>5, <4>6, <4>7, MoveIs
    <3> QED BY <3>4, <3>5
  <2>5. CASE f \notin MovedFiles
    BY <2>1, <2>5, OthersDoNotMove
  <2> QED BY <2>2, <2>3, <2>4, <2>5
<1> QED BY <1>2, <1>3, <1>4 DEF Delivers, OneArrives

\* Under the same hypotheses the protocol shows the user nothing but a file put in
\* the outgoing folder, a file delivered, a delivered file removed, and a file
\* given up to a call that failed on it: it implements the safety of FileMove,
\* however many calls fail.
THEOREM MovesAreSafe ==
  ASSUME Ordered, SmallFiles, RestartsSafely, ReceiverRestarts = 0
  PROVE  Spec /\ [][TakesUnused]_vars => MovesSafely
<1>1. Init => Move!MoveInit
  <2> SUFFICES ASSUME Init PROVE Present = {} /\ Moved = {} /\ Fallen = {}
    BY DEF Move!MoveInit, Present, Moved, Fallen
  <2>1. \A f \in Files : ~disk[f].there /\ incoming[f] = {} /\ ~Failed(f)
    BY DEF Init, Failed
  <2>2. \A f \in MovedFiles : ~disk[f].there /\ ~Delivered(f) /\ ~Failed(f)
    BY <2>1, MovedFacts
  <2> QED BY <2>2 DEF Present, Moved, Fallen
<1>2. Safe /\ [TakesUnused]_vars /\ [Next]_vars => [Move!MoveNext]_(Move!moveVars)
  <2> SUFFICES ASSUME Safe, [TakesUnused]_vars, [Next]_vars
               PROVE  Move!MoveNext \/ NothingMoves
    BY DEF Move!moveVars, NothingMoves, Present, Moved, Fallen
  <2>1. (ProtocolStep \/ RestartStep) /\ Safe'
    BY SafeStep
  <2>2. TypeOK /\ ListsRight /\ FilesRight /\ FilesRight'
    BY <2>1 DEF Safe, Listed
  <2>3. CASE UserStep
    BY <2>2, <2>3, UserMoves
  <2>4. CASE SenderStep
    BY <2>2, <2>4, SenderMoves
  <2>5. CASE ReceiverHandles /\ ReceiverStep
    <3>1. Spoils BY <2>5 DEF ReceiverStep
    <3> QED BY <2>2, <2>5, <3>1, HandlersAreRight, ReceiverMoves
  <2>6. CASE RestartStep
    BY <2>6 DEF RestartStep, NothingMoves, Present, Moved, Fallen, Delivered, Failed
  <2> QED BY <2>1, <2>3, <2>4, <2>5, <2>6 DEF ProtocolStep
<1> QED BY <1>1, <1>2, SafeAlways, PTL DEF Spec, MovesSafely, Move!MoveSafety

-----------------------------------------------------------------------------
(* The ids last: where they do, the theorems above hold of every behaviour.   *)

\* Undisturbed files of one block at least, and more than two ids for each and one
\* for each failure.
IdsSuffice ==
  /\ IsFiniteSet(Files) /\ 2 * Cardinality(Files) + MaxFailures < MaxTxId
  /\ Disturbed = {} /\ \A f \in Files : 0 < Size[f]

\* What all steps but those of the folder scan and the user do to the slots: the
\* file of a freed slot is gone, but for one slot when a call fails, ...
ScanStays ==
  /\ UNCHANGED <<nextId, scan>>
  /\ OutIds' \subseteq OutIds
  /\ \E kept : \A tx \in OutIds :
       \/ tx \in OutIds' /\ out'[tx].file = out[tx].file
       \/ ~disk'[out[tx].file].there
       \/ tx = kept /\ failures < failures'

\* ... to the fates of the files ...
FatesGo ==
  /\ failures <= failures' /\ (failures <= MaxFailures => failures' <= MaxFailures)
  /\ \A f \in Files : user'[f] = user[f] \/ user'[f] = "failed"

\* ... and to the folder.
FolderKept ==
  FatesGo /\ \A f \in Files : /\ disk'[f].len = disk[f].len
                              /\ disk'[f].there => disk[f].there

\* A step without failures, ...
LEMMA FatesRest == ASSUME TypeOK, UNCHANGED fates PROVE FatesGo
  BY DEF TypeOK, LinkTypeOK, FatesGo, fates

\* ... and one with some.
LEMMA FatesSuffer ==
  ASSUME TypeOK, NEW calls, NEW broken \in Failures(calls), NEW files, Suffer(broken, files)
  PROVE  FatesGo /\ (broken # {} => failures < failures')
<1>1. IsFiniteSet(broken)
  <2>1. broken \subseteq Calls BY BoundsAssumption DEF Failures
  <2> QED BY <2>1, CallsFinite, FS_Subset
<1>2. Cardinality(broken) \in Nat /\ (broken # {} => Cardinality(broken) # 0)
  BY <1>1, FS_CardinalityType, FS_EmptySet
<1>3. failures \in Nat /\ failures' = failures + Cardinality(broken) /\ failures' <= MaxFailures
  BY DEF TypeOK, LinkTypeOK, Suffer, Failures
<1>4. \A f \in Files : user'[f] = user[f] \/ user'[f] = "failed"
  BY DEF Suffer
<1> QED BY <1>2, <1>3, <1>4, BoundsAssumption DEF FatesGo

\* next_incoming_tx may fail.
LEMMA FatesNext ==
  ASSUME TypeOK, NEW calls, NEW broken \in Failures(calls), NEW entries, NEW stored,
         NEW known, NEW replies, NextIncoming(entries, stored, known, replies, broken)
  PROVE  FatesGo
<1>1. \E files : Suffer(broken, files)
  BY DEF NextIncoming
<1> QED BY <1>1, FatesSuffer

\* A slot is freed and its file deleted, unless that fails.
LEMMA FreedStays ==
  ASSUME TypeOK, NEW tx \in OutIds, NEW meta, NEW broken, DeleteOutgoing(tx, meta, broken),
         UNCHANGED <<nextId, scan>>, FatesGo, broken # {} => failures < failures'
  PROVE  ScanStays /\ FolderKept
<1>1. tx \in Ids /\ out[tx].file \in Files
  BY OutSlot DEF TypeOK
<1>2. /\ out'[tx] = NoTx /\ \A u \in Ids : u # tx => out'[u] = out[u]
      /\ disk' = [disk EXCEPT ![out[tx].file].there = @ /\ "remove" \in broken]
  BY <1>1 DEF DeleteOutgoing, Deleted, TypeOK, SenderTypeOK
<1>3. /\ disk'[out[tx].file].len = disk[out[tx].file].len
      /\ \A f \in Files : f # out[tx].file => disk'[f] = disk[f]
  BY <1>1, <1>2 DEF TypeOK, SenderTypeOK
<1>4. disk'[out[tx].file].there => disk[out[tx].file].there /\ "remove" \in broken
  <2>1. disk'[out[tx].file] = [disk[out[tx].file] EXCEPT !.there = @ /\ "remove" \in broken]
    BY <1>1, <1>2 DEF TypeOK, SenderTypeOK
  <2> QED BY <1>1, <2>1 DEF TypeOK, SenderTypeOK
<1>5. FolderKept
  BY <1>3, <1>4 DEF FolderKept
<1>6. OutIds' = OutIds \ {tx}
  BY <1>1, <1>2 DEF OutIds
<1>7. \A u \in OutIds : \/ u \in OutIds' /\ out'[u].file = out[u].file
                        \/ ~disk'[out[u].file].there
                        \/ u = tx /\ failures < failures'
  BY <1>2, <1>4, <1>6 DEF OutIds
<1> QED BY <1>5, <1>6, <1>7 DEF ScanStays

\* The list of a slot changes.
LEMMA ListedStays ==
  ASSUME TypeOK, NEW tx \in OutIds, NEW r, r # NoTx, r.file = out[tx].file,
         out' = [out EXCEPT ![tx] = r], UNCHANGED <<nextId, scan, disk, fates>>
  PROVE  ScanStays /\ FolderKept
<1>1. tx \in Ids
  BY DEF OutIds
<1>2. out'[tx] = r /\ \A u \in Ids : u # tx => out'[u] = out[u]
  BY <1>1 DEF TypeOK, SenderTypeOK
<1>3. OutIds' = OutIds
  BY <1>1, <1>2 DEF OutIds
<1>4. \A u \in OutIds : out'[u].file = out[u].file
  BY <1>2 DEF OutIds
<1> QED BY <1>3, <1>4, FatesRest DEF ScanStays, FolderKept

\* Nothing changes there.
LEMMA QuietStays ==
  ASSUME UNCHANGED <<out, nextId, scan, disk>>, FatesGo PROVE ScanStays /\ FolderKept
  BY DEF ScanStays, FolderKept, OutIds

\* Each step but a restart of the sender and those of the scan and the user.
LEMMA OthersStay ==
  ASSUME TypeOK, [Next]_vars
  PROVE  \/ ScanStays /\ FolderKept
         \/ ListOutgoing \/ ScanFile \/ RestartSender
         \/ \E f \in Files : PutFile(f) \/ DisturbFile(f)
<1> USE DEF senderVars, boundVars
<1>1. CASE UNCHANGED <<out, nextId, scan, disk, fates>>
  BY <1>1, FatesRest, QuietStays
<1>2. CASE SendQueue \/ PeerSendQueue \/ ReqMetaTimeout \/ Lose \/ Duplicate \/ RestartReceiver
  BY <1>1, <1>2 DEF SendQueue, PeerSendQueue, ReqMetaTimeout, Lose, Duplicate, OnALink, RestartReceiver
<1>3. CASE ReceiveMeta \/ ReceiveData \/ ReceiveQueue \/ ReceiveCancel
  <2>1. UNCHANGED <<out, nextId, scan, disk>>
    BY <1>3 DEF ReceiveMeta, ReceiveData, ReceiveQueue, ReceiveCancel, ReceiverTakes
  <2>2. ReceiveMeta => FatesGo
    BY FatesSuffer, FatesRest DEF ReceiveMeta, HandleMeta
  <2>3. ReceiveData => FatesGo
    BY FatesSuffer, FatesRest DEF ReceiveData, HandleData
  <2>4. ReceiveQueue => FatesGo
    BY FatesNext DEF ReceiveQueue, HandleQueue
  <2>5. ReceiveCancel => FatesGo
    BY FatesNext DEF ReceiveCancel, HandleCancel
  <2> QED BY <1>3, <2>1, <2>2, <2>3, <2>4, <2>5, QuietStays
<1>4. CASE ReceivePeerQueue \/ ReceiveReqMeta
  BY <1>1, <1>4 DEF ReceivePeerQueue, ReceiveReqMeta, SenderTakes, HandlePeerQueue, HandleReqMeta
<1>5. CASE SendBlock
  <2> DEFINE rest == FirstSent(out[current].pending, 1)
             sent == [out[current] EXCEPT !.pending = rest,
                                          !.open = Len(rest) = Len(out[current].pending)]
  <2>1. /\ current \in OutIds /\ out[current].pending # <<>>
        /\ out' = [out EXCEPT ![current] = sent] /\ UNCHANGED <<nextId, scan, disk, fates>>
    BY <1>5 DEF SendBlock, Sending
  <2>2. out[current] \in OutTx /\ out[current].pending \in Seq(Chunk)
    BY <2>1, OutSlot DEF TypeOK
  <2>3. rest \in Seq(Chunk)
    BY <2>1, <2>2, FirstSentType
  <2>4. sent \in OutTx /\ sent.file = out[current].file
    BY <2>2, <2>3 DEF OutTx
  <2>5. sent # NoTx
    BY <2>4, NoTxAssumption
  <2> HIDE DEF sent
  <2> QED BY <2>1, <2>4, <2>5, ListedStays
<1>6. CASE GiveUp \/ ReadFails
  <2>1. PICK calls : \E broken \in Failures(calls) : \E files :
          current \in OutIds /\ EndTransfer(broken) /\ Suffer(broken, files)
    BY <1>6 DEF GiveUp, ReadFails, Sending
  <2>2. PICK broken \in Failures(calls) : \E files :
          current \in OutIds /\ EndTransfer(broken) /\ Suffer(broken, files)
    BY <2>1
  <2>3. UNCHANGED <<nextId, scan>>
    BY <2>2 DEF EndTransfer
  <2>4. \E meta : DeleteOutgoing(current, meta, broken)
    BY <2>2 DEF EndTransfer
  <2>5. FatesGo /\ (broken # {} => failures < failures')
    BY <2>2, FatesSuffer
  <2> QED BY <2>2, <2>3, <2>4, <2>5, FreedStays
<1>7. ASSUME NEW i \in Arrivals(toSender), SenderTakes(i, "REQDATA"), HandleReqData(toSender[i])
      PROVE  ScanStays /\ FolderKept
  <2> DEFINE m == toSender[i]
             r == [out[m.tx] EXCEPT !.pending = InsertHole(@, m.hole)]
  <2>1. UNCHANGED <<nextId, scan, disk, fates>> /\ m.hole \in Chunk
    BY <1>7, SenderTakesType, ToSenderFields DEF SenderTakes, HandleReqData
  <2>2. CASE m.hole.lo <= m.hole.hi /\ m.tx \in OutIds
    <3>1. out' = [out EXCEPT ![m.tx] = r]
      BY <1>7, <2>2 DEF HandleReqData
    <3>2. out[m.tx] \in OutTx /\ out[m.tx].pending \in Seq(Chunk)
      BY <2>2, OutSlot DEF TypeOK
    <3>3. InsertHole(out[m.tx].pending, m.hole) \in Seq(Chunk)
      BY <2>1, <3>2, InsertHoleType
    <3>4. r \in OutTx /\ r.file = out[m.tx].file
      BY <3>2, <3>3 DEF OutTx
    <3>5. r # NoTx
      BY <3>4, NoTxAssumption
    <3> HIDE DEF r
    <3> QED BY <2>1, <2>2, <3>1, <3>4, <3>5, ListedStays
  <2>3. CASE ~(m.hole.lo <= m.hole.hi /\ m.tx \in OutIds)
    <3>1. UNCHANGED <<out, disk>> BY <1>7, <2>3 DEF HandleReqData
    <3> QED BY <2>1, <3>1, FatesRest, QuietStays
  <2> QED BY <2>2, <2>3
<1>8. ASSUME NEW i \in Arrivals(toSender), SenderTakes(i, "COMPLETE"), HandleComplete(toSender[i])
      PROVE  ScanStays /\ FolderKept
  <2>1. UNCHANGED <<nextId, scan>>
    BY <1>8 DEF SenderTakes
  <2>2. CASE toSender[i].tx \in OutIds /\ peerKnown
    <3>1. PICK broken \in Failures({"remove", "removeMeta"}) :
            DeleteOutgoing(toSender[i].tx, NoTx, broken) /\ Suffer(broken, {})
      BY <1>8, <2>2 DEF HandleComplete
    <3>2. FatesGo /\ (broken # {} => failures < failures')
      BY <3>1, FatesSuffer
    <3> QED BY <2>1, <2>2, <3>1, <3>2, FreedStays
  <2>3. CASE ~(toSender[i].tx \in OutIds /\ peerKnown)
    <3>1. UNCHANGED <<out, disk, fates>> BY <1>8, <2>3 DEF HandleComplete
    <3> QED BY <2>1, <3>1, FatesRest, QuietStays
  <2> QED BY <2>2, <2>3
<1>9. CASE UNCHANGED vars
  BY <1>1, <1>9 DEF vars
<1> QED
  BY <1>2, <1>3, <1>4, <1>5, <1>6, <1>7, <1>8, <1>9 DEF Next, ReceiveReqData, ReceiveComplete

\* The numbers that IdsLeft adds up, and what they become.
LEMMA CountsOf ==
  ASSUME IdsSuffice
  PROVE  /\ IsFiniteSet(ToQueue) /\ IsFiniteSet(ToMiss)
         /\ Cardinality(ToQueue) \in Nat /\ Cardinality(ToMiss) \in Nat
         /\ Cardinality(Files) \in Nat
         /\ ToMiss' \subseteq ToMiss =>
              /\ Cardinality(ToMiss') \in Nat /\ Cardinality(ToMiss') <= Cardinality(ToMiss)
              /\ ToMiss' # ToMiss => Cardinality(ToMiss') < Cardinality(ToMiss)
         /\ ToQueue' \subseteq ToQueue =>
              /\ Cardinality(ToQueue') \in Nat /\ Cardinality(ToQueue') <= Cardinality(ToQueue)
              /\ ToQueue' # ToQueue => Cardinality(ToQueue') < Cardinality(ToQueue)
<1>1. IsFiniteSet(ToQueue) /\ IsFiniteSet(ToMiss)
  BY FS_Subset DEF IdsSuffice, ToQueue, ToMiss
<1>2. ASSUME NEW S, IsFiniteSet(S), NEW T \in SUBSET S
      PROVE  /\ Cardinality(T) \in Nat /\ Cardinality(S) \in Nat
             /\ Cardinality(T) <= Cardinality(S)
             /\ T # S => Cardinality(T) < Cardinality(S)
  BY <1>2, FS_Subset, FS_CardinalityType
<1>3. /\ Cardinality(ToQueue) \in Nat /\ Cardinality(ToMiss) \in Nat
      /\ Cardinality(Files) \in Nat
  BY <1>1, FS_CardinalityType DEF IdsSuffice
<1>4. ASSUME ToMiss' \subseteq ToMiss
      PROVE  /\ Cardinality(ToMiss') \in Nat /\ Cardinality(ToMiss') <= Cardinality(ToMiss)
             /\ ToMiss' # ToMiss => Cardinality(ToMiss') < Cardinality(ToMiss)
  BY <1>1, <1>2, <1>4
<1>5. ASSUME ToQueue' \subseteq ToQueue
      PROVE  /\ Cardinality(ToQueue') \in Nat /\ Cardinality(ToQueue') <= Cardinality(ToQueue)
             /\ ToQueue' # ToQueue => Cardinality(ToQueue') < Cardinality(ToQueue)
  BY <1>1, <1>2, <1>5
<1> QED BY <1>1, <1>3, <1>4, <1>5

\* Fewer files that may take an id, as many ids.
LEMMA FewerFiles ==
  ASSUME IdsSuffice, IdsLeft, nextId \in Nat, nextId' = nextId,
         failures \in Nat, failures' \in Nat, failures <= failures',
         ToQueue' \subseteq ToQueue, ToMiss' \subseteq ToMiss
  PROVE  IdsLeft'
  BY CountsOf DEF IdsLeft

\* One file fewer, one id fewer.
LEMMA OneFileFewer ==
  ASSUME IdsSuffice, IdsLeft, nextId \in Nat, nextId' = nextId + 1,
         failures \in Nat, failures' \in Nat, failures <= failures',
         ToQueue' \subseteq ToQueue, ToMiss' \subseteq ToMiss,
         ToQueue' # ToQueue \/ ToMiss' # ToMiss \/ failures < failures'
  PROVE  IdsLeft'
  BY CountsOf DEF IdsLeft

\* A failure leaves a file to be queued again, with an id for it.
LEMMA OneFileMore ==
  ASSUME IdsSuffice, IdsLeft, nextId \in Nat, nextId' = nextId,
         failures \in Nat, failures' \in Nat, failures < failures',
         NEW f, ToQueue' \subseteq ToQueue \cup {f}, ToMiss' \subseteq ToMiss
  PROVE  IdsLeft'
<1>1. /\ IsFiniteSet(ToQueue \cup {f})
      /\ Cardinality(ToQueue \cup {f}) \in Nat
      /\ Cardinality(ToQueue \cup {f}) <= Cardinality(ToQueue) + 1
  BY CountsOf, FS_AddElement, FS_CardinalityType
<1>2. Cardinality(ToQueue') \in Nat /\ Cardinality(ToQueue') <= Cardinality(ToQueue \cup {f})
  BY <1>1, FS_Subset, FS_CardinalityType
<1> QED BY <1>1, <1>2, CountsOf DEF IdsLeft

\* At the start each file may use two ids.
LEMMA EnoughInit ==
  ASSUME IdsSuffice, Init PROVE EnoughIds
<1>1. /\ nextId = 1 /\ scan = {} /\ OutIds = {} /\ failures = 0
      /\ \A f \in Files : user[f] = "none" /\ ~disk[f].there
  BY DEF Init, OutIds
<1>2. ToQueue = Files /\ ToMiss = Files
  BY <1>1 DEF ToQueue, ToMiss
<1>3. IdsLeft
  BY <1>1, <1>2, FS_CardinalityType DEF IdsLeft, IdsSuffice
<1> QED
  BY <1>1, <1>3, BoundsAssumption DEF EnoughIds, FirstRound, SlotsPast, FolderFits, ScanFits

\* The steps that take no id.
LEMMA EnoughStays ==
  ASSUME TypeOK, TypeOK', IdsSuffice, EnoughIds, ScanStays, FolderKept
  PROVE  EnoughIds'
<1>1. /\ UNCHANGED <<nextId, scan>> /\ OutIds' \subseteq OutIds /\ nextId \in Nat
      /\ \A f \in Files : /\ disk'[f].there => disk[f].there
                          /\ disk'[f].len = disk[f].len
                          /\ user'[f] = user[f] \/ user'[f] = "failed"
      /\ failures \in Nat /\ failures' \in Nat /\ failures' <= MaxFailures
  BY TxIdAssumption
  DEF ScanStays, FolderKept, FatesGo, EnoughIds, TypeOK, SenderTypeOK, LinkTypeOK
<1>2. \A e \in scan : e.file \in Files
  BY DEF TypeOK, SenderTypeOK
<1>3. FolderFits' /\ ScanFits' /\ SlotsPast' /\ FirstRound'
  BY <1>1, <1>2 DEF EnoughIds, FolderFits, ScanFits, SlotsPast, FirstRound
<1>4. ToMiss' \subseteq ToMiss
  BY <1>1 DEF ToMiss
<1>5. PICK kept : \A tx \in OutIds :
        \/ tx \in OutIds' /\ out'[tx].file = out[tx].file
        \/ ~disk'[out[tx].file].there
        \/ tx = kept /\ failures < failures'
  BY DEF ScanStays
<1>6. ASSUME NEW f \in Files, f \in ToQueue', f \notin ToQueue
      PROVE  f = out[kept].file /\ failures < failures'
  <2>1. disk'[f].there /\ ~Queued(f)' /\ Queued(f)
    BY <1>1, <1>6 DEF ToQueue
  <2>2. PICK tx \in OutIds : out[tx].file = f
    BY <2>1 DEF Queued
  <2>3. ~(tx \in OutIds' /\ out'[tx].file = out[tx].file)
    BY <2>1, <2>2 DEF Queued
  <2> QED BY <1>5, <2>1, <2>2, <2>3
<1>7. ToQueue' \subseteq Files
  BY DEF ToQueue
<1>8. CASE failures < failures'
  <2>1. ToQueue' \subseteq ToQueue \cup {out[kept].file}
    BY <1>6, <1>7
  <2>2. IdsLeft'
    BY <1>1, <1>4, <1>8, <2>1, OneFileMore DEF EnoughIds
  <2> QED BY <1>1, <1>3, <2>2 DEF EnoughIds
<1>9. CASE ~(failures < failures')
  <2>1. ToQueue' \subseteq ToQueue
    BY <1>6, <1>7, <1>9
  <2>2. IdsLeft'
    <3>1. failures <= failures' BY DEF FolderKept, FatesGo
    <3> QED BY <1>1, <1>4, <2>1, <3>1, FewerFiles DEF EnoughIds
  <2> QED BY <1>1, <1>3, <2>2 DEF EnoughIds
<1> QED BY <1>8, <1>9

\* A file that is put may use its two ids still.
LEMMA EnoughUser ==
  ASSUME TypeOK, IdsSuffice, EnoughIds, NEW f \in Files, PutFile(f) \/ DisturbFile(f)
  PROVE  EnoughIds'
<1>1. PutFile(f) /\ UNCHANGED <<nextId, scan, out, failures>> /\ OutIds' = OutIds
  BY DEF IdsSuffice, DisturbFile, PutFile, senderVars, OutIds
<1>2. /\ user[f] = "none" /\ user'[f] = "put" /\ disk'[f].there /\ disk'[f].len = Size[f]
      /\ \A g \in Files : g # f => user'[g] = user[g] /\ disk'[g] = disk[g]
  BY <1>1 DEF PutFile, TypeOK, SenderTypeOK, LinkTypeOK
<1>3. FolderFits'
  BY <1>2 DEF EnoughIds, FolderFits
<1>4. \A e \in scan : e.file \in Files
  BY DEF TypeOK, SenderTypeOK
<1>5. ScanFits' /\ SlotsPast' /\ FirstRound'
  BY <1>1, <1>2, <1>4 DEF EnoughIds, ScanFits, SlotsPast, FirstRound
<1>6. \A g \in Files : Queued(g)' <=> Queued(g)
  BY <1>1 DEF Queued
<1>7. ToQueue' \subseteq ToQueue /\ ToMiss' \subseteq ToMiss
  BY <1>1, <1>2, <1>6 DEF ToQueue, ToMiss
<1>8. IdsLeft'
  <2>1. nextId \in Nat /\ failures \in Nat /\ nextId' = nextId /\ failures' = failures
    BY <1>1, TxIdAssumption DEF TypeOK, SenderTypeOK, LinkTypeOK
  <2> QED BY <1>7, <2>1, FewerFiles DEF EnoughIds
<1> QED BY <1>1, <1>3, <1>5, <1>8 DEF EnoughIds

\* A listing names files that are there.
LEMMA EnoughListing ==
  ASSUME TypeOK, IdsSuffice, EnoughIds, ListOutgoing
  PROVE  EnoughIds'
<1>1. /\ UNCHANGED <<nextId, out, disk, fates>> /\ OutIds' = OutIds /\ scan = {}
      /\ scan' = { [file |-> f, len |-> disk[f].len] : f \in { g \in Files : disk[g].there } }
  BY DEF ListOutgoing, OutIds
<1>2. \A e \in scan' : /\ e.file \in Files /\ disk[e.file].there
                       /\ e = [file |-> e.file, len |-> disk[e.file].len]
  BY <1>1
<1>3. ScanFits'
  BY <1>1, <1>2 DEF EnoughIds, FolderFits, ScanFits, fates
<1>4. FolderFits' /\ SlotsPast' /\ FirstRound'
  BY <1>1 DEF EnoughIds, FolderFits, SlotsPast, FirstRound, fates
<1>5. ToQueue' \subseteq ToQueue /\ ToMiss' \subseteq ToMiss
  BY <1>1, <1>2 DEF ToQueue, ToMiss, Queued, fates
<1>6. IdsLeft'
  <2>1. nextId \in Nat /\ failures \in Nat /\ nextId' = nextId /\ failures' = failures
    BY <1>1, TxIdAssumption DEF TypeOK, SenderTypeOK, LinkTypeOK, fates
  <2> QED BY <1>5, <2>1, FewerFiles DEF EnoughIds
<1> QED BY <1>1, <1>3, <1>4, <1>6 DEF EnoughIds, fates

\* As long as the search has not wrapped it finds next_id itself.
LEMMA NextIdIsFree ==
  ASSUME TypeOK, FirstRound, SlotsPast, NEW id \in Ids, NextFreeId(id)
  PROVE  id = nextId /\ id \notin OutIds
<1>1. MaxTxId \in Nat /\ id \in 1 .. MaxTxId /\ nextId \in 1 .. MaxTxId /\ nextId \in Ids
  BY TxIdAssumption DEF TypeOK, SenderTypeOK, FirstRound, Ids
<1>2. nextId \notin OutIds
  BY <1>1 DEF SlotsPast
<1>3. Distance(id) <= Distance(nextId) /\ id \notin OutIds
  BY <1>1, <1>2 DEF NextFreeId
<1>4. (id - nextId) % (MaxTxId + 1) <= (nextId - nextId) % (MaxTxId + 1)
  BY <1>3 DEF Distance
<1>5. (nextId - nextId) % (MaxTxId + 1) = 0
  BY <1>1
<1>6. (id - nextId) % (MaxTxId + 1)
        = IF id >= nextId THEN id - nextId ELSE id - nextId + (MaxTxId + 1)
  BY <1>1
<1> QED BY <1>1, <1>3, <1>4, <1>5, <1>6

\* One file of the listing is taken: it had not used up its ids.
LEMMA EnoughScan ==
  ASSUME TypeOK, TypeOK', IdsSuffice, EnoughIds, ScanFile
  PROVE  EnoughIds'
<1>0. FatesGo /\ UNCHANGED user
  BY FatesSuffer, FatesRest, SpoilsNone DEF ScanFile, fates
<1>1. /\ UNCHANGED <<user, disk>> /\ nextId \in Nat /\ nextId \in Ids
      /\ failures \in Nat /\ failures' \in Nat /\ failures <= failures' /\ failures' <= MaxFailures
  BY <1>0, TxIdAssumption
  DEF ScanFile, EnoughIds, FirstRound, TypeOK, SenderTypeOK, LinkTypeOK, Ids, FatesGo
<1>2. FolderFits'
  BY <1>1 DEF EnoughIds, FolderFits
<1>3. CASE UNCHANGED <<nextId, out>> /\ scan' \subseteq scan
  <2>1. OutIds' = OutIds
    BY <1>3 DEF OutIds
  <2>2. ScanFits' /\ SlotsPast' /\ FirstRound'
    BY <1>1, <1>3, <2>1 DEF EnoughIds, ScanFits, SlotsPast, FirstRound
  <2>3. ToQueue' \subseteq ToQueue /\ ToMiss' \subseteq ToMiss
    BY <1>1, <1>3, <2>1 DEF ToQueue, ToMiss, Queued
  <2> QED BY <1>0, <1>1, <1>2, <1>3, <2>2, <2>3, FewerFiles DEF EnoughIds
<1>4. ASSUME NEW e \in scan, scan' = scan \ {e}, ~Queued(e.file),
             NEW broken, AddOutgoing(e.file, broken), broken # {} => failures < failures'
      PROVE  EnoughIds'
  <2> DEFINE f == e.file
             size == IF disk[f].there /\ "read" \notin broken THEN disk[f].len ELSE 0
             entry == [file |-> f, size |-> size, pending |-> <<>>, open |-> FALSE]
  <2>1. f \in Files /\ user[f] # "none" /\ (disk[f].there => disk[f].len = Size[f])
        /\ 0 < Size[f] /\ \A d \in scan' : d.file # f
    BY <1>4 DEF TypeOK, SenderTypeOK, EnoughIds, ScanFits, FolderFits, IdsSuffice
  <2>2. PICK id \in Ids :
          /\ NextFreeId(id) /\ nextId' = FollowingId(id)
          /\ \/ size = 0 /\ UNCHANGED out
             \/ size > 0 /\ out' = [out EXCEPT ![id] = entry]
    BY <1>4 DEF AddOutgoing
  <2>3. nextId < MaxTxId
    <3>1. IsFiniteSet(ToQueue) /\ IsFiniteSet(ToMiss) /\ f \in ToMiss
      BY <1>4, <2>1, FS_Subset DEF IdsSuffice, ToQueue, ToMiss
    <3>2. /\ Cardinality(ToQueue) \in Nat /\ Cardinality(ToMiss) \in Nat
          /\ Cardinality(Files) \in Nat /\ Cardinality(ToMiss) # 0
      BY <3>1, FS_CardinalityType, FS_EmptySet DEF IdsSuffice
    <3> QED BY <1>1, <3>2, TxIdAssumption, BoundsAssumption DEF EnoughIds, IdsLeft, IdsSuffice
  <2>4. id = nextId /\ nextId' = nextId + 1 /\ id \notin OutIds
    <3>1. id = nextId /\ id \notin OutIds
      BY <2>2, NextIdIsFree DEF EnoughIds
    <3>2. nextId' = (nextId + 1) % (MaxTxId + 1)
      BY <2>2, <3>1 DEF FollowingId
    <3>3. nextId' = nextId + 1
      BY <1>1, <2>3, <3>2, TxIdAssumption
    <3> QED BY <3>1, <3>3
  <2>5. FirstRound'
    BY <1>1, <2>4 DEF FirstRound
  <2>6. ScanFits'
    BY <1>1, <1>4 DEF EnoughIds, ScanFits
  <2>7. ToMiss' \subseteq ToMiss
    BY <1>1, <1>4 DEF ToMiss
  <2>8. CASE ~disk[f].there
    <3>1. size = 0 /\ out' = out
      BY <2>2, <2>8
    <3>2. OutIds' = OutIds
      BY <3>1 DEF OutIds
    <3>3. ToQueue' = ToQueue
      BY <1>1, <3>1, <3>2 DEF ToQueue, Queued
    <3>4. f \in ToMiss /\ f \notin ToMiss'
      BY <1>1, <1>4, <2>1, <2>8 DEF ToMiss
    <3>5. SlotsPast'
      BY <1>1, <2>4, <3>2, TxIdAssumption DEF EnoughIds, SlotsPast, OutIds, Ids
    <3>6. IdsLeft'
      BY <1>1, <2>4, <2>7, <3>3, <3>4, OneFileFewer DEF EnoughIds
    <3> QED BY <1>1, <1>2, <2>5, <2>6, <3>5, <3>6 DEF EnoughIds
  <2>9. CASE disk[f].there /\ "read" \in broken
    <3>1. size = 0 /\ out' = out
      BY <2>2, <2>9
    <3>2. OutIds' = OutIds
      BY <3>1 DEF OutIds
    <3>3. ToQueue' = ToQueue
      BY <1>1, <3>1, <3>2 DEF ToQueue, Queued
    <3>4. failures < failures'
      BY <1>4, <2>9
    <3>5. SlotsPast'
      BY <1>1, <2>4, <3>2, TxIdAssumption DEF EnoughIds, SlotsPast, OutIds, Ids
    <3>6. IdsLeft'
      BY <1>1, <2>4, <2>7, <3>3, <3>4, OneFileFewer DEF EnoughIds
    <3> QED BY <1>1, <1>2, <2>5, <2>6, <3>5, <3>6 DEF EnoughIds
  <2>10. CASE disk[f].there /\ "read" \notin broken
    <3>1. size > 0 /\ size = Size[f] /\ Size[f] \in Nat
      BY <2>1, <2>10, SizeAssumption, MaxBlockAssumption DEF Position
    <3>2. out' = [out EXCEPT ![id] = entry]
      BY <2>2, <3>1
    <3>3. entry \in OutTx /\ entry # NoTx /\ entry.file = f
      <4>1. size \in Position BY <2>1, <3>1, SizeAssumption
      <4> HIDE DEF size, f
      <4>2. entry \in OutTx /\ entry.file = f BY <2>1, <4>1 DEF OutTx, f
      <4> QED BY <4>2, NoTxAssumption
    <3> HIDE DEF entry
    <3>4. out'[id] = entry /\ \A u \in Ids : u # id => out'[u] = out[u]
      BY <3>2 DEF TypeOK, SenderTypeOK
    <3>5. OutIds' = OutIds \cup {id}
      BY <3>3, <3>4 DEF OutIds
    <3>6. \A g \in Files : Queued(g)' <=> (Queued(g) \/ g = f)
      <4>1. ASSUME NEW g \in Files, Queued(g) PROVE Queued(g)'
        <5>1. PICK u \in OutIds : out[u].file = g BY <4>1 DEF Queued
        <5>2. u \in OutIds' /\ u # id /\ u \in Ids BY <2>4, <3>5 DEF OutIds
        <5>3. out'[u].file = g BY <3>4, <5>1, <5>2
        <5> QED BY <5>2, <5>3 DEF Queued
      <4>2. Queued(f)'
        <5>1. id \in OutIds' /\ out'[id].file = f BY <3>3, <3>4, <3>5
        <5> HIDE DEF f
        <5> QED BY <5>1 DEF Queued
      <4>3. ASSUME NEW g \in Files, Queued(g)', g # f PROVE Queued(g)
        <5>1. PICK u \in OutIds' : out'[u].file = g BY <4>3 DEF Queued
        <5>2. u # id BY <3>3, <3>4, <4>3, <5>1
        <5>3. u \in OutIds /\ u \in Ids BY <3>5, <5>2 DEF OutIds
        <5>4. out[u].file = g BY <3>4, <5>1, <5>2, <5>3
        <5> QED BY <5>3, <5>4 DEF Queued
      <4> QED BY <4>1, <4>2, <4>3
    <3>7. ToQueue' \subseteq ToQueue /\ f \in ToQueue /\ f \notin ToQueue'
      BY <1>1, <1>4, <2>1, <2>10, <3>6 DEF ToQueue
    <3>8. SlotsPast'
      BY <1>1, <2>4, <3>5, TxIdAssumption DEF EnoughIds, SlotsPast, OutIds, Ids
    <3>9. IdsLeft'
      BY <1>1, <2>4, <2>7, <3>7, OneFileFewer DEF EnoughIds
    <3> QED BY <1>1, <1>2, <2>5, <2>6, <3>8, <3>9 DEF EnoughIds
  <2> QED BY <2>8, <2>9, <2>10
<1>5. \/ UNCHANGED <<nextId, out>> /\ scan' \subseteq scan
      \/ \E e \in scan : \E broken :
           /\ scan' = scan \ {e} /\ ~Queued(e.file) /\ AddOutgoing(e.file, broken)
           /\ broken # {} => failures < failures'
  BY FatesSuffer DEF ScanFile
<1> QED BY <1>3, <1>4, <1>5

\* Ids that nothing speaks of stay so until they are taken: of the sender ...
LEMMA SenderKeepsFresh ==
  ASSUME TypeOK, TypeOK', IdsFresh, SenderStep, nextId <= nextId', SlotsPast' PROVE IdsFresh'
<1> SUFFICES ASSUME NEW tx \in Ids, tx >= nextId' PROVE Unused(tx)'
  BY DEF IdsFresh
<1>1. nextId \in Nat /\ nextId' \in Nat /\ tx \in Nat /\ nextId' >= nextId
  BY TxIdAssumption DEF TypeOK, SenderTypeOK, Ids
<1>2. Unused(tx)
  <2>1. tx >= nextId BY <1>1
  <2> QED BY <2>1 DEF IdsFresh
<1>3. tx \notin OutIds'
  BY <1>1 DEF SlotsPast, OutIds, Ids
<1>4. tx \notin InIds' /\ temp'[tx] = {}
  BY <1>2 DEF Unused, InIds, SenderStep
<1>5. \A m \in Range(toReceiver') :
        ~(Lists(m, tx) \/ Describes(m, tx) \/ Carries(m, tx) \/ Cancels(m, tx))
  BY <1>2, SentIsUsed, SenderLink DEF Unused
<1>6. \A m \in Range(toSender') : ~(AsksFor(m, tx) \/ Announces(m, tx))
  BY <1>2 DEF SenderStep, Unused, AsksFor, Announces
<1> QED BY <1>3, <1>4, <1>5, <1>6 DEF Unused

\* ... and of the receiver, which answers only what it is told.
LEMMA ReceiverKeepsFresh ==
  ASSUME TypeOK, IdsFresh, ReceiverStep PROVE IdsFresh'
<1> SUFFICES ASSUME NEW tx \in Ids, tx >= nextId PROVE Unused(tx)'
  BY DEF IdsFresh, ReceiverStep
<1>1. Unused(tx)
  BY DEF IdsFresh
<1>2. tx \notin OutIds'
  BY <1>1 DEF Unused, OutIds, ReceiverStep
<1>3. Range(toReceiver') \subseteq Range(toReceiver) /\ toReceiver[1] \in Range(toReceiver)
  BY ReceiverLink
<1>4. tx \notin InIds' /\ temp'[tx] = {}
  BY <1>1, <1>3 DEF Unused, ReceiverStep, EntriesFollow, TablesFollow, InIds
<1>5. ASSUME NEW m \in Range(toSender'), AsksFor(m, tx) \/ Announces(m, tx) PROVE FALSE
  <2>1. Answers(m)
    BY <1>1, <1>5 DEF ReceiverStep, Unused
  <2>2. Described(tx)'
    BY <1>5, <2>1 DEF Answers, AsksFor, Announces
  <2> QED BY <1>4, <2>2 DEF Described
<1> QED BY <1>1, <1>2, <1>3, <1>4, <1>5 DEF Unused

\* While there are ids enough a file takes one that nothing speaks of ...
LEMMA EnoughTakesUnused ==
  ASSUME TypeOK, EnoughIds, IdsFresh, [Next]_vars, ~RestartSender
  PROVE  TakesUnused /\ nextId \in Nat
<1>1. nextId \in Nat /\ nextId \in Ids
  BY TxIdAssumption DEF EnoughIds, FirstRound, TypeOK, SenderTypeOK, Ids
<1>2. CASE OutIds' \subseteq OutIds
  BY <1>1, <1>2 DEF TakesUnused
<1>3. CASE UNCHANGED out
  BY <1>2, <1>3 DEF OutIds
<1>4. CASE ScanFile
  <2>1. ASSUME NEW f \in Files, NEW broken, AddOutgoing(f, broken)
        PROVE  OutIds' \subseteq OutIds \cup {nextId}
    <3>1. PICK id \in Ids : NextFreeId(id) /\ \A tx \in Ids : tx # id => out'[tx] = out[tx]
      BY <2>1 DEF AddOutgoing, TypeOK, SenderTypeOK
    <3>2. id = nextId
      BY <3>1, NextIdIsFree DEF EnoughIds
    <3> QED BY <3>1, <3>2 DEF OutIds
  <2>2. UNCHANGED out \/ OutIds' \subseteq OutIds \cup {nextId}
    BY <1>4, <2>1 DEF ScanFile, TypeOK, SenderTypeOK
  <2>3. Unused(nextId)
    BY <1>1 DEF IdsFresh
  <2> QED BY <1>1, <1>3, <2>2, <2>3 DEF TakesUnused
<1>5. CASE ScanStays
  BY <1>2, <1>5 DEF ScanStays
<1>6. CASE ListOutgoing \/ \E f \in Files : PutFile(f) \/ DisturbFile(f)
  BY <1>3, <1>6 DEF ListOutgoing, PutFile, DisturbFile, senderVars
<1> QED BY <1>4, <1>5, <1>6, OthersStay

\* ... and the search goes on from there.
LEMMA EnoughGoesOn ==
  ASSUME TypeOK, TypeOK', IdsSuffice, EnoughIds, [Next]_vars, ~RestartSender
  PROVE  EnoughIds' /\ nextId <= nextId'
<1>1. EnoughIds'
  BY OthersStay, EnoughStays, EnoughUser, EnoughListing, EnoughScan
<1>2. nextId \in Nat /\ nextId' \in Nat /\ MaxTxId \in Nat
  BY TxIdAssumption DEF TypeOK, SenderTypeOK
<1>3. CASE ScanFile
  <2>1. ASSUME NEW f \in Files, NEW broken, AddOutgoing(f, broken), nextId' # 0
        PROVE  nextId <= nextId'
    <3>1. nextId' = (nextId + 1) % (MaxTxId + 1)
      BY <2>1, NextIdIsFree DEF AddOutgoing, FollowingId, EnoughIds
    <3>2. nextId <= MaxTxId
      BY TxIdAssumption DEF TypeOK, SenderTypeOK
    <3>3. CASE nextId = MaxTxId
      <4>1. (MaxTxId + 1) % (MaxTxId + 1) = 0 BY <1>2
      <4> QED BY <2>1, <3>1, <3>3, <4>1
    <3>4. CASE nextId < MaxTxId
      BY <1>2, <3>1, <3>4
    <3> QED BY <1>2, <3>2, <3>3, <3>4
  <2>2. UNCHANGED nextId \/ \E f \in Files : \E broken : AddOutgoing(f, broken)
    BY <1>3 DEF ScanFile, TypeOK, SenderTypeOK
  <2> QED BY <1>1, <1>2, <2>1, <2>2 DEF EnoughIds, FirstRound
<1>4. CASE UNCHANGED nextId
  BY <1>1, <1>2, <1>4
<1>5. CASE ScanStays \/ ListOutgoing \/ \E f \in Files : PutFile(f) \/ DisturbFile(f)
  BY <1>4, <1>5 DEF ScanStays, ListOutgoing, PutFile, DisturbFile, senderVars
<1> QED BY <1>1, <1>3, <1>5, OthersStay

\* Where there are more than two ids for each file and one for each failing call,
\* none is given to a file that is spoken of already: a file takes one id when it
\* is queued, one more at most when it is gone before its place in a listing
\* comes, and one more when it could not be opened or not be removed, so that the
\* search for a free id never comes back to the first one.
THEOREM IdsLast ==
  ASSUME IdsSuffice, Ordered, SenderRestarts = 0, ReceiverRestarts = 0
  PROVE  Spec => [][TakesUnused]_vars
<1> DEFINE Inv == TypeOK /\ SlotsFit /\ ListsRight /\ EnoughIds /\ IdsFresh
<1>1. Init => Inv
  <2>1. Init => IdsFresh
    <3> SUFFICES ASSUME Init PROVE IdsFresh
      OBVIOUS
    <3>1. /\ OutIds = {} /\ InIds = {} /\ toReceiver = <<>> /\ toSender = <<>>
          /\ \A tx \in Ids : temp[tx] = {}
      BY DEF Init, OutIds, InIds
    <3>2. Range(toReceiver) = {} /\ Range(toSender) = {}
      BY <3>1 DEF Range
    <3> QED BY <3>1, <3>2 DEF IdsFresh, Unused
  <2> QED BY <2>1, InitType, SlotsFitInit, ListsRightInit, EnoughInit
<1>2. Inv /\ [Next]_vars => Inv' /\ TakesUnused
  <2> SUFFICES ASSUME Inv, [Next]_vars PROVE Inv' /\ TakesUnused
    OBVIOUS
  <2>1. TypeOK' /\ SlotsFit'
    BY NextType, SlotsFitStep
  <2>2. ~RestartSender /\ ~RestartReceiver
    BY DEF TypeOK, LinkTypeOK, RestartSender, RestartReceiver
  <2>3. TakesUnused
    BY <2>2, EnoughTakesUnused
  <2>4. ProtocolStep
    BY <2>2, <2>3, StepIsOne
  <2>5. ListsRight'
    BY <2>1, <2>4, ListsRightStep
  <2>6. EnoughIds' /\ nextId <= nextId'
    BY <2>1, <2>2, EnoughGoesOn
  <2>7. IdsFresh'
    <3>1. CASE UserStep
      BY <3>1 DEF UserStep, IdsFresh, Unused, OutIds, InIds
    <3>2. CASE SenderStep
      BY <2>1, <2>6, <3>2, SenderKeepsFresh DEF EnoughIds
    <3>3. CASE ReceiverStep
      BY <3>3, ReceiverKeepsFresh
    <3> QED BY <2>4, <3>1, <3>2, <3>3 DEF ProtocolStep
  <2> QED BY <2>1, <2>3, <2>5, <2>6, <2>7
<1> HIDE DEF Inv
<1>3. Inv /\ [Next]_vars => Inv' /\ [TakesUnused]_vars
  BY <1>2
<1> QED BY <1>1, <1>3, PTL DEF Spec

\* There, with files of up to three blocks, nobody restarting and links in
\* order, file transfer does what it promises whatever is lost or duplicated, of
\* each file on which no call fails: what arrives is whole, nothing is lost,
\* COMPLETE is true, lists tell the truth, and the folders change as FileMove says.
THEOREM TransfersAreSafe ==
  ASSUME IdsSuffice, SmallFiles, Ordered, SenderRestarts = 0, ReceiverRestarts = 0
  PROVE  Spec => /\ [](NeverLost /\ DeliveredIntact /\ CompleteIsTrue /\ ProgressOnDisk)
                 /\ MovesSafely
<1>0. RestartsSafely
  BY DEF RestartsSafely
<1>1. Spec => [][TakesUnused]_vars
  BY IdsLast
<1>2. Spec /\ [][TakesUnused]_vars => []NeverLost
  BY <1>0, NothingIsLost
<1>3. Spec /\ [][TakesUnused]_vars => []DeliveredIntact
  BY <1>0, WhatArrivesIsWhole
<1>4. Spec /\ [][TakesUnused]_vars => []CompleteIsTrue
  BY <1>0, CompleteTellsTheTruth
<1>5. Spec /\ [][TakesUnused]_vars => []ProgressOnDisk
  BY <1>0, ListsTellTheTruth
<1>6. Spec /\ [][TakesUnused]_vars => MovesSafely
  BY <1>0, MovesAreSafe
<1> QED BY <1>1, <1>2, <1>3, <1>4, <1>5, <1>6, PTL
=============================================================================
