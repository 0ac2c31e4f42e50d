------------------------------- MODULE MCTunnel -------------------------------
(* Instances of Tunnel for TLC. *)
EXTENDS Tunnel

CONSTANTS ip, other

\* Packets that need each of the escapes.
TwoPackets == { <<ip, FEND>>, <<ip, FESC, other>> }
=============================================================================
