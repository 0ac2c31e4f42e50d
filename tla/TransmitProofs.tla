---------------------------- MODULE TransmitProofs ----------------------------
(***************************************************************************)
(* Safety of TransmitQueue and of the Agent it runs in, for any packets,   *)
(* any bound on the queue and any number of requests.                      *)
(***************************************************************************)
EXTENDS TransmitQueue, SequenceTheorems, TLAPS

\* What the constructor, the request thread and the state know of each other: once the
\* state is SHUTDOWN no request is waited for.
AgentInv ==
  /\ stage \in {"starting", "refused"} => requests = "none"
  /\ stage = "starting" => stateflag = "INIT"
  /\ stage = "serving" => stateflag = "INIT"
  /\ requests = "none" => stage \in {"starting", "refused", "gone"}
  /\ stage = "known" /\ stateflag = "SHUTDOWN" => early
  /\ requests = "ended" => stateflag = "SHUTDOWN" \/ early
  /\ stateflag = "SHUTDOWN" => requests \notin {"opening", "wait"}

\* main is past its loop only after a shutdown that nothing takes back.
MainInv ==
  /\ main # "setup" => stage \in {"ready", "joining", "gone"}
  /\ main \in {"joinQueuers", "joinTransmit", "shutdown", "ended"} => stateflag = "SHUTDOWN"

\* A packet that two threads tore needs a collision, and the packet transmit_loop has
\* copied stays the first in the queue until it is removed.
PacketInv ==
  /\ torn # {} => clash # "none"
  /\ transmit = "pop" => transmit_queue # <<>> /\ entry = Head(transmit_queue)

Inv == TransmitTypeOK /\ AgentInv /\ MainInv /\ PacketInv /\ NothingVanishes

LEMMA PacketSets ==
  /\ QueuePacket \in Packets /\ Garbage \notin Packets /\ Tracked \subseteq Packets
  /\ Answers \subseteq Packets
BY TransmitAssumption DEF Packets, Tracked

LEMMA InitInv == Init => Inv
<1> SUFFICES ASSUME Init PROVE Inv
  OBVIOUS
<1> USE DEF Init, AgentInit
<1>1. AgentTypeOK
  <2>1. 0 \in 0 .. MaxRequests BY RequestAssumption DEF RequestAssumption
  <2> QED BY <2>1 DEF AgentTypeOK
<1>2. TransmitTypeOK
  BY <1>1, PacketSets DEF TransmitTypeOK
<1>3. AgentInv /\ MainInv /\ PacketInv /\ NothingVanishes
  BY DEF AgentInv, MainInv, PacketInv, NothingVanishes
<1> QED BY <1>2, <1>3 DEF Inv

-----------------------------------------------------------------------------
(* Steps of the Agent. *)

LEMMA AgentSteps ==
  ASSUME AgentTypeOK, AgentInv, MainInv, AgentMoves
  PROVE  AgentTypeOK' /\ AgentInv' /\ MainInv'
<1> USE RequestAssumption DEF AgentTypeOK, AgentInv, MainInv, threads
<1>0. main' = main
  BY DEF AgentMoves, transmitVars
<1>1. CASE Refuse
  BY <1>0, <1>1 DEF Refuse
<1>2. CASE StartThreads
  BY <1>0, <1>2 DEF StartThreads
<1>3. CASE AddBuiltInRequests
  BY <1>0, <1>3 DEF AddBuiltInRequests
<1>4. CASE SetRun
  BY <1>0, <1>4 DEF SetRun
<1>5. CASE AddOwnRequests
  BY <1>0, <1>5 DEF AddOwnRequests
<1>6. CASE MessageLoopEnds \/ HeartbeatLoopEnds
  BY <1>0, <1>6 DEF MessageLoopEnds, HeartbeatLoopEnds
<1>7. CASE RequestLoopOpens \/ RequestLoopLooks
  BY <1>0, <1>7 DEF RequestLoopOpens, RequestLoopLooks, Stops
<1>8. ASSUME NEW state \in {"RUN", "IDLE", "SHUTDOWN"}, Handle(state)
      PROVE  AgentTypeOK' /\ AgentInv' /\ MainInv'
  <2>1. early' \in BOOLEAN /\ (early => early') BY <1>8 DEF Handle
  <2>2. arrived' \in 0 .. MaxRequests BY <1>8 DEF Handle, RequestAssumption
  <2>3. /\ requests = "wait" /\ stage # "serving" /\ stateflag' = state
        /\ requests' = IF state = "SHUTDOWN" THEN "look" ELSE "wait"
        /\ UNCHANGED <<stage, messages, heartbeat, dead>>
    BY <1>8 DEF Handle
  <2>4. stage = "known" /\ stateflag' = "SHUTDOWN" => early' BY <1>8 DEF Handle
  <2>5. AgentTypeOK' BY <2>1, <2>2, <2>3
  <2>6. AgentInv' BY <2>3, <2>4
  <2> QED BY <1>0, <2>3, <2>5, <2>6
<1>9. CASE LookUpWhileAdding
  BY <1>0, <1>9 DEF LookUpWhileAdding
<1>10. CASE EndShutdown
  BY <1>0, <1>10 DEF EndShutdown
<1>11. CASE main = "shutdown" /\ BeginShutdown
  BY <1>0, <1>11 DEF BeginShutdown
<1> QED
  BY <1>1, <1>2, <1>3, <1>4, <1>5, <1>6, <1>7, <1>8, <1>9, <1>10, <1>11
  DEF AgentMoves, AgentNext, Construct

-----------------------------------------------------------------------------
(* Steps of the threads around the queue. *)

\* What main does to itself keeps MainInv.
LEMMA MainStays ==
  ASSUME MainInv, Threads
  PROVE  MainInv'
<1> USE DEF MainInv
<1>0. UNCHANGED <<stage, stateflag>>
  BY DEF Threads, agentVars, threads
<1>1. CASE main' = main
  BY <1>0, <1>1
<1>2. CASE MainSteps
  BY <1>0, <1>2 DEF MainSteps, StartLoops, LeaveLoop, NotifyTransmit, JoinTransmit, MainEnds
<1>3. main' = main \/ MainSteps
  BY DEF Threads, QueuerSteps, Look, BeginPush, EndPush, NothingToAnswer, TransmitSteps,
         SpuriousWake, TransmitLooks, TransmitWaits, TakeFront, PopAndSend
<1> QED BY <1>1, <1>2, <1>3

\* The parts of the invariant that a step on the queue can disturb.
QueueInv ==
  /\ queuer \in [Queuers -> {"none", "look", "ready", "push", "ended"}]
  /\ pushing \in [Queuers -> Packets]
  /\ \A t \in Queuers : queuer[t] = "push" /\ pushing[t] \notin Answers => lock = t
  /\ transmit \in {"none", "look", "armed", "wait", "drain", "pop", "ended"}
  /\ entry \in Packets \cup {Garbage} /\ transmit_queue \in Seq(Packets \cup {Garbage})
  /\ torn \subseteq Queuers /\ clash \in {"none", "answer", "locked"}
  /\ PacketInv /\ NothingVanishes

LEMMA LookKeeps ==
  ASSUME QueueInv, NEW t \in Queuers, Look(t) \/ (t = "recv" /\ NothingToAnswer)
  PROVE  QueueInv'
BY DEF QueueInv, Look, NothingToAnswer, PacketInv, NothingVanishes

\* Two threads in queuesendto at the same time cannot both hold outgoing_tx_lock.
LEMMA BeginPushKeeps ==
  ASSUME QueueInv, NEW t \in Queuers, NEW p \in Packets, BeginPush(t, p)
  PROVE  QueueInv'
<1> DEFINE others == { s \in Queuers \ {t} : queuer[s] = "push" }
<1> USE DEF QueueInv
<1>1. /\ queuer' = [queuer EXCEPT ![t] = "push"] /\ pushing' = [pushing EXCEPT ![t] = p]
      /\ p \in Answers \/ lock = "free"
      /\ lock' = IF p \in Answers THEN lock ELSE t
      /\ UNCHANGED <<transmit, entry, transmit_queue>>
  BY DEF BeginPush, Unlocked
<1>2. \A s \in Queuers : queuer'[s] = "push" /\ pushing'[s] \notin Answers => lock' = s
  <2> SUFFICES ASSUME NEW s \in Queuers, queuer'[s] = "push", pushing'[s] \notin Answers
               PROVE  lock' = s
    OBVIOUS
  <2>1. CASE s = t
    BY <1>1, <2>1
  <2>2. CASE s # t
    <3>1. queuer[s] = "push" /\ pushing[s] \notin Answers BY <1>1, <2>2
    <3>2. lock = s /\ lock # "free" BY <3>1 DEF Queuers
    <3> QED BY <1>1, <3>2
  <2> QED BY <2>1, <2>2
<1>3. CASE others = {}
  <2>1. UNCHANGED <<torn, unsent, clash>> BY <1>3 DEF BeginPush
  <2> QED BY <1>1, <1>2, <2>1 DEF PacketInv, NothingVanishes
<1>4. CASE others # {}
  <2>1. PICK s \in others : TRUE BY <1>4
  <2>2. \E u \in others \cup {t} : pushing'[u] \in Answers
    <3>1. CASE p \in Answers BY <1>1, <3>1
    <3>2. CASE p \notin Answers
      <4>1. lock # s BY <1>1, <2>1, <3>2 DEF Queuers
      <4>2. pushing[s] \in Answers BY <2>1, <4>1
      <4> QED BY <1>1, <2>1, <4>2
    <3> QED BY <3>1, <3>2
  <2>3. clash' = "answer" /\ torn' = torn \cup others \cup {t}
    BY <1>4, <2>2 DEF BeginPush
  <2> QED BY <1>1, <1>2, <2>3 DEF PacketInv, NothingVanishes
<1> QED BY <1>3, <1>4

LEMMA EndPushKeeps ==
  ASSUME QueueInv, NEW t \in Queuers, EndPush(t)
  PROVE  QueueInv'
<1> USE DEF QueueInv
<1> DEFINE All == Packets \cup {Garbage}
<1>1. /\ queuer[t] = "push" /\ queuer' = [queuer EXCEPT ![t] = "look"]
      /\ pushing' = [pushing EXCEPT ![t] = QueuePacket]
      /\ lock' = IF lock = t THEN "free" ELSE lock
      /\ torn' = torn \ {t} /\ UNCHANGED <<entry, clash>>
  BY DEF EndPush
<1>2. transmit' = Woken BY DEF EndPush
<1>3. \A s \in Queuers : queuer'[s] = "push" /\ pushing'[s] \notin Answers => lock' = s
  BY <1>1
<1>4. \/ transmit_queue' = transmit_queue
      \/ \E p \in All : transmit_queue' = Append(transmit_queue, p)
  BY DEF EndPush
<1>5. /\ transmit_queue' \in Seq(All)
      /\ transmit_queue # <<>> =>
           transmit_queue' # <<>> /\ Head(transmit_queue') = Head(transmit_queue)
  <2>1. ASSUME NEW p \in All, transmit_queue' = Append(transmit_queue, p)
        PROVE  /\ transmit_queue' \in Seq(All)
               /\ transmit_queue # <<>> =>
                    transmit_queue' # <<>> /\ Head(transmit_queue') = Head(transmit_queue)
    BY <2>1, AppendProperties
  <2> QED BY <1>4, <2>1
<1>6. PacketInv'
  <2>1. transmit' = "pop" => transmit = "pop" BY <1>2 DEF Woken
  <2> QED BY <1>1, <1>5, <2>1 DEF PacketInv
<1>7. NothingVanishes'
  <2>1. CASE clash = "none"
    <3>1. t \notin torn BY <2>1 DEF PacketInv
    <3>2. transmit_queue' = Append(transmit_queue, pushing[t])
      BY <3>1 DEF EndPush
    <3>3. unsent' = Append(unsent, pushing[t]) BY <2>1 DEF EndPush
    <3> QED BY <1>1, <2>1, <3>2, <3>3 DEF NothingVanishes
  <2>2. CASE clash # "none"
    BY <1>1, <2>2 DEF NothingVanishes
  <2> QED BY <2>1, <2>2
<1> QED BY <1>1, <1>2, <1>3, <1>5, <1>6, <1>7, PacketSets DEF Woken

\* transmit_loop removes the packet it has copied, for nothing is put in before it.
LEMMA TransmitKeeps ==
  ASSUME QueueInv, TransmitSteps \/ SpuriousWake
  PROVE  QueueInv'
<1> USE DEF QueueInv
<1>1. CASE TransmitLooks \/ TransmitWaits \/ SpuriousWake
  BY <1>1 DEF TransmitLooks, TransmitWaits, SpuriousWake, PacketInv, NothingVanishes
<1>2. CASE TakeFront
  <2>1. transmit_queue # <<>> => Head(transmit_queue) \in Packets \cup {Garbage}
    BY HeadTailProperties
  <2> QED BY <1>2, <2>1 DEF TakeFront, PacketInv, NothingVanishes
<1>3. CASE PopAndSend
  <2>1. transmit_queue # <<>> /\ entry = Head(transmit_queue)
    BY <1>3 DEF PopAndSend, PacketInv
  <2>2. Tail(transmit_queue) \in Seq(Packets \cup {Garbage})
    BY <2>1, HeadTailProperties
  <2>3. NothingVanishes'
    <3>1. CASE clash = "none"
      <4>1. unsent = transmit_queue BY <3>1 DEF NothingVanishes
      <4>2. unsent' = Tail(unsent) BY <1>3, <2>1, <3>1, <4>1 DEF PopAndSend, WithoutFirst
      <4> QED BY <1>3, <3>1, <4>1, <4>2 DEF PopAndSend, AfterPop, NothingVanishes
    <3>2. CASE clash # "none"
      BY <1>3, <3>2 DEF PopAndSend, NothingVanishes
    <3> QED BY <3>1, <3>2
  <2> QED BY <1>3, <2>2, <2>3, PacketSets DEF PopAndSend, AfterPop, PacketInv
<1> QED BY <1>1, <1>2, <1>3 DEF TransmitSteps

LEMMA MainKeeps ==
  ASSUME QueueInv, MainSteps
  PROVE  QueueInv'
<1> USE DEF QueueInv, PacketInv, NothingVanishes
<1>1. CASE StartLoops BY <1>1 DEF StartLoops
<1>2. CASE LeaveLoop \/ JoinTransmit \/ MainEnds
  BY <1>2 DEF LeaveLoop, JoinTransmit, MainEnds
<1>3. CASE NotifyTransmit BY <1>3 DEF NotifyTransmit, Woken
<1> QED BY <1>1, <1>2, <1>3 DEF MainSteps

-----------------------------------------------------------------------------
LEMMA NextInv == Inv /\ [Next]_allVars => Inv'
<1> SUFFICES ASSUME Inv, [Next]_allVars PROVE Inv'
  OBVIOUS
<1>0. QueueInv BY DEF Inv, QueueInv, TransmitTypeOK
<1>1. CASE Threads
  <2>1. QueueInv'
    BY <1>0, <1>1, LookKeeps, BeginPushKeeps, EndPushKeeps, TransmitKeeps, MainKeeps
    DEF Threads, QueuerSteps, Queuers
  <2>2. MainInv' BY <1>1, MainStays DEF Inv
  <2>3. AgentTypeOK' /\ AgentInv'
    BY <1>1 DEF Threads, agentVars, threads, Inv, TransmitTypeOK, AgentTypeOK, AgentInv
  <2>4. main' \in {"setup", "loop", "joinQueuers", "joinTransmit", "shutdown", "ended"}
    BY <1>1 DEF Threads, QueuerSteps, Look, BeginPush, EndPush, NothingToAnswer, TransmitSteps,
         SpuriousWake, TransmitLooks, TransmitWaits, TakeFront, PopAndSend, MainSteps,
         StartLoops, LeaveLoop, NotifyTransmit, JoinTransmit, MainEnds, Inv, TransmitTypeOK
  <2> QED BY <2>1, <2>2, <2>3, <2>4 DEF Inv, QueueInv, TransmitTypeOK
<1>2. CASE Dies
  BY <1>2 DEF Dies, transmitVars, threads, Inv, TransmitTypeOK, AgentTypeOK, AgentInv, MainInv,
       PacketInv, NothingVanishes
<1>3. CASE AgentMoves
  <2>1. AgentTypeOK' /\ AgentInv' /\ MainInv' BY <1>3, AgentSteps DEF Inv, TransmitTypeOK
  <2>2. UNCHANGED transmitVars BY <1>3 DEF AgentMoves
  <2> QED BY <2>1, <2>2 DEF transmitVars, Inv, TransmitTypeOK, PacketInv, NothingVanishes
<1>4. CASE UNCHANGED allVars
  BY <1>4 DEF allVars, agentVars, transmitVars, threads, Inv, TransmitTypeOK, AgentTypeOK,
       AgentInv, MainInv, PacketInv, NothingVanishes
<1> QED BY <1>1, <1>2, <1>3, <1>4 DEF Next

LEMMA Invariant == Spec => []Inv
BY InitInv, NextInv, PTL DEF Spec

\* For any packets and bounds every variable keeps its type, and a packet that needs
\* outgoing_tx_lock is put in under it.
THEOREM TransmitTypeCorrect == Spec => []TransmitTypeOK
BY Invariant, PTL DEF Inv

\* Packets of the queue collide only when an answer is queued under the other lock,
\* and until then none vanishes, comes twice or overtakes another.
THEOREM NothingLost == Spec => []NothingVanishes
BY Invariant, PTL DEF Inv

\* The request thread of an Agent that got its socket and its buffer never ends while
\* the Agent is running, unless the constructor has taken back a shutdown.
THEOREM StillAnswers == Spec => []KeepsAnswering
<1>1. Inv => KeepsAnswering
  BY DEF Inv, AgentInv, TransmitTypeOK, AgentTypeOK, KeepsAnswering
<1> QED BY <1>1, Invariant, PTL

\* No request takes back a shutdown.
THEOREM ShutdownKept == Spec => ShutdownStays
<1>1. Inv /\ [Next]_allVars
        => [stateflag = "SHUTDOWN" /\ ~(early /\ stage = "known") => stateflag' = "SHUTDOWN"]_allVars
  <2> SUFFICES ASSUME Inv, Next, stateflag = "SHUTDOWN", ~(early /\ stage = "known")
               PROVE  stateflag' = "SHUTDOWN"
    OBVIOUS
  <2>0. AgentInv BY DEF Inv
  <2>1. CASE Threads \/ Dies
    BY <2>1 DEF Threads, Dies, agentVars
  <2>2. CASE AgentMoves
    <3>1. requests # "wait" /\ stage # "known" /\ stage # "serving" BY <2>0 DEF AgentInv
    <3>2. ~SetRun /\ \A state \in {"RUN", "IDLE", "SHUTDOWN"} : ~Handle(state)
      BY <3>1 DEF SetRun, Handle
    <3> QED
      BY <2>2, <3>2 DEF AgentMoves, AgentNext, Construct, Refuse, StartThreads, AddBuiltInRequests,
         AddOwnRequests, MessageLoopEnds, HeartbeatLoopEnds, RequestLoopOpens, RequestLoopLooks,
         LookUpWhileAdding, EndShutdown, BeginShutdown
  <2> QED BY <2>1, <2>2 DEF Next
<1> QED BY <1>1, Invariant, PTL DEF Spec, ShutdownStays
=============================================================================
