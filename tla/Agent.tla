-------------------------------- MODULE Agent --------------------------------
(***************************************************************************)
(* The life of an Agent: the constructor, which starts a message thread,   *)
(* then a heartbeat and a request thread, and only then sets the state to  *)
(* RUN; the requests that change the state; and shutdown(), which joins    *)
(* the threads.  A thread that only looks at the state from time to time   *)
(* is one step here: the look at which it ends.                            *)
(***************************************************************************)
EXTENDS Naturals

CONSTANT MaxRequests   \* bound of the model: requests that reach the agent

ASSUME RequestAssumption == MaxRequests \in Nat

VARIABLES
  stateflag,   \* cinfo->pdata.agent[0].stateflag; MONITOR counts as RUN
  stage,       \* how far the constructor (known: the request "shutdown" is there, others
               \* are still being added), main's setup or shutdown() has come
  messages, heartbeat, requests,   \* the three threads
  dead,        \* the process died of undefined behaviour
  \* history and bound
  early,       \* a shutdown was asked for before the constructor set RUN
  arrived

agentVars == <<stateflag, stage, messages, heartbeat, requests, dead, early, arrived>>
threads == <<messages, heartbeat, requests>>

AgentTypeOK ==
  /\ stateflag \in {"INIT", "RUN", "IDLE", "SHUTDOWN"}
  /\ stage \in {"starting", "serving", "known", "running", "ready", "joining", "refused", "gone"}
  /\ messages \in {"on", "ended"} /\ heartbeat \in {"none", "on", "ended"}
  /\ requests \in {"none", "opening", "look", "wait", "ended", "failed"}
  /\ dead \in BOOLEAN /\ early \in BOOLEAN /\ arrived \in 0 .. MaxRequests

AgentInit ==
  /\ stateflag = "INIT" /\ stage = "starting"
  /\ messages = "on" /\ heartbeat = "none" /\ requests = "none"
  /\ dead = FALSE /\ early = FALSE /\ arrived = 0

-----------------------------------------------------------------------------
(* The constructor, and main until it has added its own requests. *)

\* Another agent of this name runs: shutdown() joins the message thread and
\* frees cinfo.
Refuse ==
  /\ stage = "starting" /\ stage' = "refused" /\ stateflag' = "SHUTDOWN"
  /\ UNCHANGED <<threads, dead, early, arrived>>

StartThreads ==
  /\ stage = "starting" /\ stage' = "serving"
  /\ heartbeat' = "on" /\ requests' = "opening"
  /\ UNCHANGED <<stateflag, messages, dead, early, arrived>>

AddBuiltInRequests ==
  /\ stage = "serving" /\ stage' = "known"
  /\ UNCHANGED <<stateflag, threads, dead, early, arrived>>

SetRun ==
  /\ stage = "known" /\ stage' = "running" /\ stateflag' = "RUN"
  /\ UNCHANGED <<threads, dead, early, arrived>>

AddOwnRequests ==
  /\ stage = "running" /\ stage' = "ready"
  /\ UNCHANGED <<stateflag, threads, dead, early, arrived>>

-----------------------------------------------------------------------------
(* The threads. *)

\* These two end some time after they may.  Nobody looks at them before shutdown()
\* joins them, so their end waits for it here, unless the state changes back.
MessageLoopEnds ==
  /\ messages = "on" /\ stateflag = "SHUTDOWN" /\ stage # "ready" /\ messages' = "ended"
  /\ UNCHANGED <<stateflag, stage, heartbeat, requests, dead, early, arrived>>

HeartbeatLoopEnds ==
  /\ heartbeat = "on" /\ stateflag = "SHUTDOWN" /\ stage # "ready" /\ heartbeat' = "ended"
  /\ UNCHANGED <<stateflag, stage, messages, requests, dead, early, arrived>>

\* request_loop returns at once when its socket cannot be opened or its buffer cannot
\* be had; nobody is told, and the constructor goes on.
RequestLoopOpens ==
  /\ requests = "opening" /\ requests' \in {"look", "failed"}
  /\ UNCHANGED <<stateflag, stage, messages, heartbeat, dead, early, arrived>>

StopsNotRunning(state) == state # "RUN"   \* mutant: IDLE ends the loop
StopsNever(state) == FALSE                \* mutant: the loop does not look
Stops(state) == state = "SHUTDOWN"

\* request_loop looks at the state after each request it handled, and whenever none
\* came for 2 s.  A request that comes while it waits is handled, whatever the state
\* has become since it looked.
RequestLoopLooks ==
  /\ requests \in {"look", "wait"}
  /\ requests' = IF Stops(stateflag) THEN "ended" ELSE "wait"
  /\ UNCHANGED <<stateflag, stage, messages, heartbeat, dead, early, arrived>>

\* req_run (and req_monitor), req_idle, req_shutdown
Handle(state) ==
  /\ requests = "wait" /\ stage # "serving"
  /\ arrived < MaxRequests /\ arrived' = arrived + 1
  /\ stateflag' = state /\ requests' = (IF state = "SHUTDOWN" THEN "look" ELSE "wait")
  /\ early' = (early \/ (state = "SHUTDOWN" /\ stage = "known"))
  /\ UNCHANGED <<stage, messages, heartbeat, dead>>

\* A request that arrives while requests are being added is looked up in a vector
\* that grows at the same time: when it is not lost, the lookup may follow a pointer
\* to memory the vector has left.
LookUpWhileAdding ==
  /\ requests = "wait" /\ stage \in {"serving", "known", "running"} /\ dead' = TRUE
  /\ UNCHANGED <<stateflag, stage, threads, early, arrived>>

-----------------------------------------------------------------------------
(* shutdown(): set the state, then join the threads and free cinfo. *)

BeginShutdown ==
  /\ stage = "ready" /\ stage' = "joining" /\ stateflag' = "SHUTDOWN"
  /\ UNCHANGED <<threads, dead, early, arrived>>

EndShutdown ==
  /\ \/ stage = "joining" /\ heartbeat = "ended" /\ requests \in {"ended", "failed"}
     \/ stage = "refused"
  /\ messages = "ended" /\ stage' = "gone"
  /\ UNCHANGED <<stateflag, threads, dead, early, arrived>>

Construct == StartThreads \/ AddBuiltInRequests \/ SetRun \/ AddOwnRequests

AgentNext ==
  \/ Construct \/ Refuse
  \/ MessageLoopEnds \/ HeartbeatLoopEnds \/ RequestLoopOpens \/ RequestLoopLooks
  \/ \E state \in {"RUN", "IDLE", "SHUTDOWN"} : Handle(state)
  \/ LookUpWhileAdding \/ EndShutdown
=============================================================================
