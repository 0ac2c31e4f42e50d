------------------------------ MODULE MCForward ------------------------------
(* Instances of Forward for TLC, and of the ring for a program that uses it  *)
(* in any way it can.                                                        *)
EXTENDS Forward

CONSTANTS p, q

VARIABLE program

Alone == <<>>
Lines == { Alone, <<p>> }

MCInit == Init /\ program \in {"agent_forward", "client"} /\ (program = "client" => sendchan = Alone)

MCNext ==
  /\ UNCHANGED program
  /\ \/ program = "agent_forward" /\ Next
     \/ program = "client" /\ RingNext /\ UNCHANGED forwardVars

MCSpec == MCInit /\ [][MCNext]_<<allVars, program>> /\ Fairness
=============================================================================
