------------------------- MODULE TransferInvariant -------------------------
(***************************************************************************)
(* Why the safety properties of FileTransfer hold when no transaction id   *)
(* is given to a file while it is still spoken of, the links keep their    *)
(* order, the receiver is not restarted and the sender at most once: the   *)
(* inductive invariants of FileTransferProofs.                             *)
(***************************************************************************)
EXTENDS FileTransfer

-----------------------------------------------------------------------------
(* What a packet says of the transaction tx. *)

Lists(m, tx) == m.type = "QUEUE" /\ tx \in m.ids
LeavesOut(m, tx) == m.type = "QUEUE" /\ tx \notin m.ids
Describes(m, tx) == m.type = "METADATA" /\ m.tx = tx
Carries(m, tx) == m.type = "DATA" /\ m.tx = tx
Cancels(m, tx) == m.type = "CANCEL" /\ m.tx = tx
AsksFor(m, tx) == m.type = "REQDATA" /\ m.tx = tx
Announces(m, tx) == m.type = "COMPLETE" /\ m.tx = tx

-----------------------------------------------------------------------------
(* Ids. *)

\* Nothing but old meta files speaks of tx: no slot, no entry, no packet, and no
\* temporary file that could not be removed.
Unused(tx) ==
  /\ tx \notin OutIds /\ tx \notin InIds /\ temp[tx] = {}
  /\ \A m \in Range(toReceiver) :
       ~(Lists(m, tx) \/ Describes(m, tx) \/ Carries(m, tx) \/ Cancels(m, tx))
  /\ \A m \in Range(toSender) : ~(AsksFor(m, tx) \/ Announces(m, tx))

\* The sender looks for a slot that is free at its own end only. This is a step
\* after which no slot bears an id that was still spoken of.
TakesUnused == \A tx \in OutIds' \ OutIds : Unused(tx)

-----------------------------------------------------------------------------
(* The link to the receiver: once a packet on it ends a transfer that the     *)
(* receiver knows when it gets there, nobody sends that transfer any more and *)
(* no QUEUE packet behind it brings it back.                                  *)

EndsAt(link, i, tx, there) ==
  \/ Cancels(link[i], tx)
  \/ LeavesOut(link[i], tx) /\ (there \/ \E h \in 1 .. i - 1 : Lists(link[h], tx))

EndsOnce(link, tx, there, sending) ==
  \A i \in 1 .. Len(link) : EndsAt(link, i, tx, there) =>
    ~sending /\ \A k \in i + 1 .. Len(link) : ~Lists(link[k], tx)

LinkEnds == \A tx \in Ids : EndsOnce(toReceiver, tx, tx \in InIds, tx \in OutIds)

-----------------------------------------------------------------------------
(* Blocks are on the move only after the receiver has had the meta data.      *)

Unasked(tx) ==
  /\ \A m \in Range(toReceiver) : ~Carries(m, tx)
  /\ \A m \in Range(toSender) : ~AsksFor(m, tx)
  /\ tx \in OutIds => out[tx].pending = <<>>

Described(tx) == tx \in InIds /\ in[tx].havemeta

Over(tx) ==
  /\ tx \notin InIds /\ tx \notin OutIds
  /\ \A m \in Range(toReceiver) : ~Lists(m, tx)

DataFollowsMeta == \A tx \in Ids : Unasked(tx) \/ Described(tx) \/ Over(tx)

-----------------------------------------------------------------------------
(* The receiver's entries and their temporary files. *)

\* Where a block could not be written the list and the file differ.
ListFits(r, stored, spoilt) ==
  /\ \A c \in r.got : c.lo <= c.hi
  /\ IF r.havemeta THEN r.file # NoFile ELSE r.file = NoFile /\ r.got = {} /\ ~r.complete
  /\ ~r.complete /\ r.file \notin spoilt =>
       Blocks(stored) = Positions(r.got) /\ (r.open \/ r.got = {})

TablesFit(entries, stored, spoilt) ==
  \A tx \in Ids : entries[tx] # NoTx => ListFits(entries[tx], stored[tx], spoilt)

FailedFiles == { f \in Files : Failed(f) }

ListsFit == TablesFit(in, temp, FailedFiles)

\* What is left of a transfer that is over is a temporary file at most.
Leftovers == \A tx \in Ids : tx \notin InIds => temp[tx] = {} \/ Over(tx)

\* With these, for files of any size.
ListsRight == LinkEnds /\ DataFollowsMeta /\ ListsFit /\ Leftovers

-----------------------------------------------------------------------------
(* The files a transaction is about. *)

FilesOf(tx) ==
  { f \in Files :
      \/ tx \in OutIds /\ out[tx].file = f
      \/ Described(tx) /\ in[tx].file = f
      \/ \E m \in Range(toReceiver) : (Describes(m, tx) \/ Carries(m, tx)) /\ m.file = f
      \/ \E p \in temp[tx] : p[2] = f }

OneFileEach ==
  \A tx \in Ids : /\ \A f, g \in FilesOf(tx) : f = g
                  /\ \A f \in FilesOf(tx) : user[f] # "none"
                  /\ Described(tx) => in[tx].file \in Files

-----------------------------------------------------------------------------
(* Sizes and contents, of files of up to three blocks. *)

Within(h, f) == h.lo <= h.hi /\ h.hi < Size[f]

Spaced(ranges) == \A r, s \in ranges : r = s \/ r.hi + 1 < s.lo \/ s.hi + 1 < r.lo

SendsOnly(tx, f) ==
  /\ tx \in OutIds => out[tx].size = Size[f] /\ \A c \in Range(out[tx].pending) : Within(c, f)
  /\ \A m \in Range(toReceiver) : /\ Describes(m, tx) => m.size = Size[f]
                                  /\ Carries(m, tx) => m.block < Size[f]
  /\ \A m \in Range(toSender) : /\ AsksFor(m, tx) => Within(m.hole, f)
                                /\ Announces(m, tx) => Delivered(f)

Counts(r, f) ==
  /\ r.size = Size[f] /\ \A c \in r.got : Within(c, f)
  /\ r.complete => Delivered(f)
  /\ ~r.complete => r.total = Count(r.got)

Receives(r, f) == Counts(r, f) /\ (~r.complete => Spaced(r.got))

FileIsSent(tx, f) ==
  /\ 0 < Size[f] /\ SendsOnly(tx, f)
  /\ Described(tx) => Receives(in[tx], f)

FilesAreSent ==
  \A tx \in Ids : \A f \in FilesOf(tx) : Undisturbed(f) => FileIsSent(tx, f)

FolderRight(f) ==
  /\ user[f] = "none" => ~disk[f].there /\ incoming[f] = {}
  /\ Undisturbed(f) => disk[f].len = Size[f]
  /\ Undisturbed(f) /\ ~disk[f].there => Delivered(f)
  /\ Undisturbed(f) /\ incoming[f] # {} => Delivered(f)
  /\ user[f] = "disturbed" => f \in Disturbed

SenderMet == InIds # {} => senderKnown

FilesRight == OneFileEach /\ FilesAreSent /\ (\A f \in Files : FolderRight(f)) /\ SenderMet

-----------------------------------------------------------------------------
(* How often the sender may be restarted, and on what meta files.             *)

RestartsSafely ==
  \/ SenderRestarts = 0
  \/ SenderRestarts = 1 /\ "removeMeta" \notin FailingCalls

-----------------------------------------------------------------------------
(* What the meta files would tell a sender that is restarted once more.       *)
(* (After the last restart some may be left of transfers that did not fit in  *)
(* the queue, or that are over.)                                              *)

Saved(tx) == metaOut[tx] # NoTx /\ metaOut[tx].live

\* Ranges are saved only of a transfer the receiver has the meta data of, ...
SavedRight ==
  restarts.sender < SenderRestarts =>
    \A tx \in Ids : Saved(tx) => metaOut[tx].pending = <<>> \/ Described(tx)

\* ... and within the file, ...
SavedWithin ==
  restarts.sender < SenderRestarts =>
    \A tx \in Ids : Saved(tx) /\ Undisturbed(metaOut[tx].file) =>
      \A c \in Range(metaOut[tx].pending) : Within(c, metaOut[tx].file)

\* ... whose size is read again from the folder.
SlotsOnDisk == \A tx \in OutIds : Undisturbed(out[tx].file) => disk[out[tx].file].there

-----------------------------------------------------------------------------
(* How many ids files use up: one when a file is queued, and one more when it *)
(* is gone before its place in a listing comes.  A failure costs one more:    *)
(* the file cannot be opened, or not removed.                                 *)

ToQueue == { f \in Files : user[f] = "none" \/ (disk[f].there /\ ~Queued(f)) }
ToMiss == { f \in Files : user[f] = "none" \/ disk[f].there \/ \E e \in scan : e.file = f }

IdsLeft ==
  nextId + Cardinality(ToQueue) + Cardinality(ToMiss) <= 2 * Cardinality(Files) + 1 + failures

FolderFits ==
  \A f \in Files : IF user[f] = "none" THEN ~disk[f].there
                   ELSE user[f] \in {"put", "failed"} /\ (disk[f].there => disk[f].len = Size[f])

ScanFits ==
  /\ \A e \in scan : user[e.file] # "none"
  /\ \A e, d \in scan : e.file = d.file => e = d

\* The search for a free id has not gone past the largest one, back to 0, and
\* none that is still to come is spoken of.
FirstRound == nextId # 0
IdsFresh == \A tx \in Ids : tx >= nextId => Unused(tx)

SlotsPast == \A tx \in OutIds : tx < nextId

EnoughIds ==
  FirstRound /\ SlotsPast /\ FolderFits /\ ScanFits /\ IdsLeft /\ failures <= MaxFailures
=============================================================================
