--------------------------- MODULE MCTransmitQueue ---------------------------
(* Instances of TransmitQueue for TLC. *)
EXTENDS TransmitQueue

CONSTANTS data, complete, metadata
=============================================================================
