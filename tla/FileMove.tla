------------------------------ MODULE FileMove ------------------------------
(***************************************************************************)
(* What file transfer promises the user: files put in the outgoing folder  *)
(* of one node appear in the incoming folder of the other, and a file      *)
(* leaves the first only after it has arrived in the second.  A file may   *)
(* fail, by the file system of a node: nothing is promised of it then.     *)
(***************************************************************************)
CONSTANT Names

VARIABLES source,   \* the files in the outgoing folder
          arrived,  \* the files that are, whole, in the incoming folder
          failed    \* the files given up to a failure: neither any more

moveVars == <<source, arrived, failed>>

MoveInit == source = {} /\ arrived = {} /\ failed = {}

Put(f) ==
  /\ f \notin source \cup arrived \cup failed
  /\ source' = source \cup {f} /\ UNCHANGED <<arrived, failed>>

Deliver(f) ==
  f \in source \ arrived /\ arrived' = arrived \cup {f} /\ UNCHANGED <<source, failed>>

Remove(f) ==
  f \in source \cap arrived /\ source' = source \ {f} /\ UNCHANGED <<arrived, failed>>

Fail(f) ==
  /\ f \in source \cup arrived
  /\ source' = source \ {f} /\ arrived' = arrived \ {f} /\ failed' = failed \cup {f}

MoveNext == \E f \in Names : Put(f) \/ Deliver(f) \/ Remove(f) \/ Fail(f)

\* Safety alone, and with the promise that every file is moved in the end.
MoveSafety == MoveInit /\ [][MoveNext]_moveVars
MoveSpec == MoveSafety /\ \A f \in Names : WF_moveVars(Deliver(f) \/ Remove(f))
=============================================================================
