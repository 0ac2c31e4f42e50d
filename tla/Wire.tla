--------------------------------- MODULE Wire ---------------------------------
(***************************************************************************)
(* What a tunnel promises in one direction: as long as the line damages    *)
(* nothing, packets come out whole, once, and in the order they went in.   *)
(* Once an octet was damaged it promises nothing of what comes out.        *)
(***************************************************************************)
EXTENDS Naturals, SequencesExt

CONSTANT Packets

VARIABLES
  taken,       \* the packets that went in, in order
  delivered,   \* what came out
  damaged      \* the line has damaged an octet

wireVars == <<taken, delivered, damaged>>

WireInit == taken = <<>> /\ delivered = <<>> /\ damaged = FALSE

TakeIn ==
  /\ \E p \in Packets : taken' = Append(taken, p)
  /\ UNCHANGED <<delivered, damaged>>

BringOut ==
  /\ Len(delivered') = Len(delivered) + 1 /\ IsPrefix(delivered, delivered')
  /\ damaged \/ IsPrefix(delivered', taken)
  /\ UNCHANGED <<taken, damaged>>

Damage == damaged' = TRUE /\ UNCHANGED <<taken, delivered>>

WireSpec == WireInit /\ [][TakeIn \/ BringOut \/ Damage]_wireVars
=============================================================================
