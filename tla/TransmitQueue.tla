---------------------------- MODULE TransmitQueue ----------------------------
(***************************************************************************)
(* The threads of agent_file around transmit_queue.  send_loop queues      *)
(* packets under outgoing_tx_lock; recv_loop queues some answers under     *)
(* that lock and others under incoming_tx_lock; transmit_loop takes them   *)
(* out under no lock at all (the mutex it waits with is a local of its     *)
(* own) and waits without a predicate; main joins the three threads.  The  *)
(* run state is the Agent's.                                               *)
(***************************************************************************)
EXTENDS Agent, SequencesExt

CONSTANTS
  DataPackets,     \* send_loop queues each once
  LockedAnswers,   \* recv_loop queues each once, under outgoing_tx_lock
  Answers,         \* recv_loop queues each once, under incoming_tx_lock
  QueuePacket,     \* send_loop queues it again and again
  Garbage,         \* what two packets put in the same place leave there, and
                   \* what a place nobody has written to holds
  MaxQueue         \* bound of the model: nothing is put in a longer queue, but to wake transmit_loop

ASSUME TransmitAssumption ==
  /\ MaxQueue \in Nat \ {0}
  /\ QueuePacket \notin DataPackets \cup LockedAnswers \cup Answers
  /\ Garbage \notin DataPackets \cup LockedAnswers \cup Answers \cup {QueuePacket}
  /\ DataPackets \cap (LockedAnswers \cup Answers) = {} /\ LockedAnswers \cap Answers = {}

VARIABLES
  main,
  queuer,          \* send_loop and recv_loop
  pushing,         \* the packet each of them is putting in
  lock,            \* who holds outgoing_tx_lock
  transmit,        \* transmit_loop
  entry,           \* the packet it has taken a copy of
  transmit_queue,
  torn,            \* threads that are putting in a packet at the same place
  \* history
  queued,          \* packets put in
  unsent,          \* those not yet sent, in order; not followed after a collision
  clash,           \* two packets collided, one of them from Answers or none
  missed           \* main's only notify came just before transmit_loop's wait

transmitVars ==
  <<main, queuer, pushing, lock, transmit, entry, transmit_queue, torn, queued, unsent, clash, missed>>
allVars == <<agentVars, transmitVars>>

Queuers == {"send", "recv"}
Tracked == DataPackets \cup LockedAnswers \cup Answers
Packets == Tracked \cup {QueuePacket}

Init ==
  /\ AgentInit
  /\ main = "setup" /\ transmit = "none" /\ entry = QueuePacket
  /\ queuer = [t \in Queuers |-> "none"] /\ pushing = [t \in Queuers |-> QueuePacket]
  /\ lock = "free" /\ transmit_queue = <<>> /\ torn = {}
  /\ queued = {} /\ unsent = <<>> /\ clash = "none" /\ missed = FALSE

-----------------------------------------------------------------------------
(* send_loop and recv_loop *)

\* In state IDLE a thread sleeps and looks again.
Look(t) ==
  /\ queuer[t] = "look" /\ stateflag # "IDLE"
  /\ queuer' = [queuer EXCEPT ![t] = IF stateflag = "SHUTDOWN" THEN "ended" ELSE "ready"]
  /\ UNCHANGED <<main, pushing, lock, transmit, entry, transmit_queue, torn, queued>>
  /\ UNCHANGED <<unsent, clash, missed>>

\* recv_loop got no packet, or one it does not answer.
NothingToAnswer ==
  /\ queuer["recv"] = "ready" /\ queuer' = [queuer EXCEPT !["recv"] = "look"]
  /\ UNCHANGED <<main, pushing, lock, transmit, entry, transmit_queue, torn, queued>>
  /\ UNCHANGED <<unsent, clash, missed>>

NeedsNoLock(p) == p \in Answers \cup LockedAnswers   \* mutant: METADATA queued unlocked
Unlocked(p) == p \in Answers

\* What thread t may queue next, and whether there is room for it in the model.
\* A full queue never keeps transmit_loop asleep: there is room for one more when
\* it waits, and for what comes after it ended.
MayQueue(t, p) ==
  /\ p \notin queued
  /\ p \in IF t = "send" THEN DataPackets \cup {QueuePacket} ELSE LockedAnswers \cup Answers
  /\ \/ Len(transmit_queue) < MaxQueue \/ transmit = "ended"
     \/ transmit = "wait" /\ Len(transmit_queue) <= MaxQueue + 1   \* two can pass the test above

\* queuesendto begins: the packet is copied to the place behind the last one.  Two
\* threads that are there at the same time use the same place.
BeginPush(t, p) ==
  /\ queuer[t] = "ready" /\ MayQueue(t, p)
  /\ Unlocked(p) \/ lock = "free"
  /\ lock' = IF Unlocked(p) THEN lock ELSE t
  /\ queuer' = [queuer EXCEPT ![t] = "push"] /\ pushing' = [pushing EXCEPT ![t] = p]
  /\ LET others == { s \in Queuers \ {t} : queuer[s] = "push" }
     IN  /\ others = {} \/ clash = "none"   \* bound of the model: one collision
         /\ torn' = IF others = {} THEN torn ELSE torn \cup others \cup {t}
         /\ unsent' = IF others = {} THEN unsent ELSE <<>>
         /\ clash' = IF others = {} THEN clash
                     ELSE IF (\E s \in others \cup {t} : pushing'[s] \in Answers) THEN "answer"
                     ELSE "locked"
  /\ UNCHANGED <<main, transmit, entry, transmit_queue, queued, missed>>

NotWoken == transmit   \* mutant: no notify

\* notify_one wakes transmit_loop if it waits, and is forgotten if it does not.
Woken == IF transmit = "wait" THEN "drain" ELSE transmit

\* The end of the queue moves on and transmit_loop is notified.  After a collision
\* the end moves once for two packets, or over a place nobody has written.  (A notify
\* later than the packet was taken out makes for one more look at the queue, as
\* SpuriousWake does.)
EndPush(t) ==
  /\ queuer[t] = "push" /\ queuer' = [queuer EXCEPT ![t] = "look"]
  /\ \/ t \notin torn /\ transmit_queue' = Append(transmit_queue, pushing[t])
     \/ t \in torn
        /\ transmit_queue' \in {transmit_queue, Append(transmit_queue, Garbage)}
  /\ torn' = torn \ {t}
  /\ queued' = queued \cup ({pushing[t]} \cap Tracked)
  /\ unsent' = (IF clash = "none" THEN Append(unsent, pushing[t]) ELSE <<>>)
  /\ pushing' = [pushing EXCEPT ![t] = QueuePacket]
  /\ lock' = (IF lock = t THEN "free" ELSE lock)
  /\ transmit' = Woken
  /\ UNCHANGED <<main, entry, clash, missed>>

-----------------------------------------------------------------------------
(* transmit_loop *)

TransmitLooks ==
  /\ transmit = "look" /\ stateflag # "IDLE"
  /\ transmit' = IF stateflag = "SHUTDOWN" THEN "ended" ELSE "armed"
  /\ UNCHANGED <<main, queuer, pushing, lock, entry, transmit_queue, torn, queued>>
  /\ UNCHANGED <<unsent, clash, missed>>

TransmitWaits ==
  /\ transmit = "armed" /\ transmit' = "wait"
  /\ UNCHANGED <<main, queuer, pushing, lock, entry, transmit_queue, torn, queued>>
  /\ UNCHANGED <<unsent, clash, missed>>

\* Nothing in the code excludes it.
SpuriousWake ==
  /\ transmit = "wait" /\ transmit' = "drain"
  /\ UNCHANGED <<main, queuer, pushing, lock, entry, transmit_queue, torn, queued>>
  /\ UNCHANGED <<unsent, clash, missed>>

TakeFront ==
  /\ transmit = "drain"
  /\ IF transmit_queue = <<>>
       THEN transmit' = "look" /\ UNCHANGED entry
       ELSE transmit' = "pop" /\ entry' = Head(transmit_queue)
  /\ UNCHANGED <<main, queuer, pushing, lock, transmit_queue, torn, queued>>
  /\ UNCHANGED <<unsent, clash, missed>>

\* The packet leaves if it is its turn.
WithoutFirst(p) ==
  IF unsent # <<>> /\ Head(unsent) = p THEN Tail(unsent) ELSE Append(unsent, Garbage)

PopLast == Front(transmit_queue)   \* mutant: the entry at the other end
AfterPop == Tail(transmit_queue)

\* The entry is removed and sent.
PopAndSend ==
  /\ transmit = "pop" /\ transmit' = "drain"
  /\ transmit_queue' = AfterPop
  /\ unsent' = (IF clash = "none" THEN WithoutFirst(entry) ELSE <<>>) /\ entry' = QueuePacket
  /\ UNCHANGED <<main, queuer, pushing, lock, torn, queued, clash, missed>>

\* A pop and a push that leave and reach a block of the queue at the same time may
\* damage it, and sending what no push wrote reads memory nobody owns.
Damaged == transmit = "pop" /\ (entry = Garbage \/ \E t \in Queuers : queuer[t] = "push")

-----------------------------------------------------------------------------
(* main *)

StartLoops ==
  /\ main = "setup" /\ stage = "ready" /\ main' = "loop"
  /\ queuer' = [t \in Queuers |-> "look"] /\ transmit' = "look"
  /\ UNCHANGED <<pushing, lock, entry, transmit_queue, torn, queued, unsent, clash, missed>>

LeaveLoop ==
  /\ main = "loop" /\ stateflag = "SHUTDOWN" /\ main' = "joinQueuers"
  /\ UNCHANGED <<queuer, pushing, lock, transmit, entry, transmit_queue, torn, queued>>
  /\ UNCHANGED <<unsent, clash, missed>>

NotifyTransmit ==
  /\ main = "joinQueuers" /\ (\A t \in Queuers : queuer[t] = "ended") /\ main' = "joinTransmit"
  /\ transmit' = Woken
  /\ missed' = (transmit = "armed")
  /\ UNCHANGED <<queuer, pushing, lock, entry, transmit_queue, torn, queued, unsent, clash>>

JoinTransmit ==
  /\ main = "joinTransmit" /\ transmit = "ended" /\ main' = "shutdown"
  /\ UNCHANGED <<queuer, pushing, lock, transmit, entry, transmit_queue, torn, queued>>
  /\ UNCHANGED <<unsent, clash, missed>>

\* An Agent that was refused has no cinfo, and the loops look at it.
NoAgent == main = "setup" /\ stage = "gone"

MainEnds ==
  /\ main = "shutdown" /\ stage = "gone" /\ main' = "ended"
  /\ UNCHANGED <<queuer, pushing, lock, transmit, entry, transmit_queue, torn, queued>>
  /\ UNCHANGED <<unsent, clash, missed>>

-----------------------------------------------------------------------------
QueuerSteps(t) == Look(t) \/ (\E p \in Packets : BeginPush(t, p)) \/ EndPush(t)
TransmitSteps == TransmitLooks \/ TransmitWaits \/ TakeFront \/ PopAndSend
MainSteps == StartLoops \/ LeaveLoop \/ NotifyTransmit \/ JoinTransmit \/ MainEnds

Alive == ~dead /\ main # "ended"

Threads ==
  /\ Alive
  /\ \/ \E t \in Queuers : QueuerSteps(t)
     \/ NothingToAnswer
     \/ TransmitSteps \/ SpuriousWake
     \/ MainSteps
  /\ UNCHANGED agentVars

Dies ==
  /\ Alive /\ (Damaged \/ NoAgent)
  /\ dead' = TRUE
  /\ UNCHANGED <<stateflag, stage, threads, early, arrived, transmitVars>>

AgentMoves ==
  /\ Alive /\ UNCHANGED transmitVars
  /\ \/ AgentNext
     \/ main = "shutdown" /\ BeginShutdown

Next == Threads \/ Dies \/ AgentMoves

Spec == Init /\ [][Next]_allVars

Does(step) == Alive /\ step /\ UNCHANGED agentVars
AgentDoes(step) == Alive /\ step /\ UNCHANGED transmitVars

\* Every thread goes on.  Nobody need send a packet to recv_loop or a request to
\* the Agent; send_loop makes a QUEUE packet every 10 s.
FairSpec ==
  /\ Spec
  /\ WF_allVars(Does(QueuerSteps("send")))
  /\ WF_allVars(Does(Look("recv") \/ NothingToAnswer \/ EndPush("recv")))
  /\ WF_allVars(Does(TransmitSteps)) /\ WF_allVars(Does(MainSteps))
  /\ WF_allVars(AgentDoes(Construct)) /\ WF_allVars(AgentDoes(MessageLoopEnds))
  /\ WF_allVars(AgentDoes(HeartbeatLoopEnds)) /\ WF_allVars(AgentDoes(RequestLoopOpens \/ RequestLoopLooks))
  /\ WF_allVars(AgentDoes(EndShutdown))
  /\ WF_allVars(AgentDoes(main = "shutdown" /\ BeginShutdown)) /\ WF_allVars(NoAgent /\ Dies)

-----------------------------------------------------------------------------
(* Properties. *)

\* Every variable has its type, and the lock is held while a packet that needs it
\* is put in.
TransmitTypeOK ==
  /\ AgentTypeOK
  /\ main \in {"setup", "loop", "joinQueuers", "joinTransmit", "shutdown", "ended"}
  /\ queuer \in [Queuers -> {"none", "look", "ready", "push", "ended"}]
  /\ pushing \in [Queuers -> Packets]
  /\ \A t \in Queuers : queuer[t] = "push" /\ pushing[t] \notin Answers => lock = t
  /\ transmit \in {"none", "look", "armed", "wait", "drain", "pop", "ended"}
  /\ entry \in Packets \cup {Garbage} /\ transmit_queue \in Seq(Packets \cup {Garbage})
  /\ torn \subseteq Queuers /\ clash \in {"none", "answer", "locked"}

\* Two packets collide in the queue only when recv_loop answers one of them under
\* incoming_tx_lock.  Until that happens every packet that was put in is still in the
\* queue or has been sent, once, in the order they were put in.
NothingVanishes ==
  clash # "answer" => clash = "none" /\ unsent = transmit_queue

\* The request thread of an Agent that was not told to shut down, or whose constructor
\* had ended when it was told, goes on as long as the Agent is running, unless it
\* could not get its socket or its buffer when it began: then the Agent runs and
\* answers no request at all.
KeepsAnswering ==
  stage \in {"running", "ready"} /\ stateflag # "SHUTDOWN" /\ ~early
    => requests \in {"opening", "look", "wait"} \/ requests = "failed"

\* A request to shut down is not taken back, except by the constructor.
ShutdownStays ==
  [][stateflag = "SHUTDOWN" /\ ~(early /\ stage = "known") => stateflag' = "SHUTDOWN"]_allVars

\* As long as the Agent runs, a packet in the queue is sent in the end, for the
\* next QUEUE packet wakes transmit_loop when a notify was lost.
EventuallySent ==
  <>[](stateflag = "RUN") =>
    \A p \in Tracked : p \in Range(unsent) ~> p \notin Range(unsent) \/ clash # "none" \/ dead

\* After a request to shut down the program ends, unless main's notify fell between
\* transmit_loop's look at the state and its wait.
EndsAfterShutdown ==
  stateflag = "SHUTDOWN" ~> main = "ended" \/ missed \/ early \/ dead
=============================================================================
