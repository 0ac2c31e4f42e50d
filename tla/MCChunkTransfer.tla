-------------------------- MODULE MCChunkTransfer ---------------------------
(* Instances of ChunkTransfer for TLC. *)
EXTENDS ChunkTransfer

\* The bytes of a DATA packet on the slow and on the fast channel.
TwoThree == <<2, 3>>
=============================================================================
