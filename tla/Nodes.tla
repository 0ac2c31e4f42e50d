--------------------------------- MODULE Nodes ---------------------------------
(***************************************************************************)
(* The numbers by which two agent_file programs name nodes to each other.  *)
(* A program handles the nodes whose folders it finds when it starts, in   *)
(* the order in which the file system lists them.  Only QUEUE and REQMETA  *)
(* packets carry a node's name; all others carry the number that the node  *)
(* has at their destination, as far as the sender has been told.           *)
(***************************************************************************)
EXTENDS Integers, SequencesExt

CONSTANTS
  Names,        \* the nodes
  Ends, Peer,   \* two programs, each the other's peer
  Listings,     \* Listings[e]: what end e may find when it lists the nodes' folders
  \* bounds of the model
  MaxRestarts, MaxFaults,   \* MaxFaults: packets that are lost or duplicated
  Window        \* a packet is sent only to an end which has fewer on the way to it

ASSUME NodesAssumption ==
  /\ Peer \in [Ends -> Ends] /\ \A e \in Ends : Peer[e] # e /\ Peer[Peer[e]] = e
  /\ Listings \in [Ends -> SUBSET Seq(Names)]
  /\ \A e \in Ends : \A t \in Listings[e] : IsInjective(t)
  /\ MaxRestarts \in Nat /\ MaxFaults \in Nat /\ Window \in Nat

VARIABLES
  table,      \* table[e][i]: txq[i].node_name, counted from 1
  number,     \* number[e][i]: txq[i].node_id, the number of the node at the peer, 0 if not known
  active,     \* active[e]: active_node, 0 if none
  link,       \* link[e]: the packets under way to e
  \* history and bounds
  moved,      \* moved[e]: e has started again and found its nodes in another order
  mistaken,   \* mistaken[e]: e has used a packet for another node than it was meant for
  restarts, faults

nodesVars == <<table, number, active, link, moved, mistaken, restarts, faults>>

\* DATA, METADATA, CANCEL, REQDATA and COMPLETE are treated alike as far as the
\* node is concerned: "numbered".  What they do to a transfer is in FileTransfer. The name
\* in them is the node they were meant for, which is not sent.
Packet == [type : {"queue", "reqmeta", "numbered"}, node : Nat \ {0}, name : Names]

Unknown(t) == [i \in DOMAIN t |-> 0]

NodesInit ==
  /\ table \in [Ends -> UNION { Listings[e] : e \in Ends }] /\ \A e \in Ends : table[e] \in Listings[e]
  /\ number = [e \in Ends |-> Unknown(table[e])]
  /\ active = [e \in Ends |-> 0]
  /\ link = [e \in Ends |-> {}]
  /\ moved = [e \in Ends |-> FALSE] /\ mistaken = [e \in Ends |-> FALSE]
  /\ restarts = 0 /\ faults = 0

Room(e) == Cardinality(link[Peer[e]]) < Window

\* mutant: the number is kept once it is known
FirstNumber(e, i, k) == [number EXCEPT ![e][i] = IF @ = 0 THEN k ELSE @]
Learned(e, i, k) == [number EXCEPT ![e][i] = k]

\* mutant: a packet is sent with the number the node has here
OwnNumber(known, e, i) == { [type |-> "numbered", node |-> i, name |-> table[e][i]] }

\* A packet about the i-th node of e, if the peer's number for it is known.
Numbered(known, e, i) ==
  { [type |-> "numbered", node |-> k, name |-> table[e][i]] : k \in {known[e][i]} \ {0} }

Announce(e, kind, i) == [type |-> kind, node |-> i, name |-> table[e][i]]

\* Every ten seconds send_loop sends a QUEUE packet for each node.
SendQueue(e) ==
  /\ Room(e)
  /\ link' = [link EXCEPT ![Peer[e]] = @ \cup { Announce(e, "queue", i) : i \in DOMAIN table[e] }]
  /\ UNCHANGED <<table, number, active, moved, mistaken, restarts, faults>>

\* send_loop sends data of the node whose QUEUE packet came last, and of no other.
SendData(e) ==
  /\ active[e] # 0 /\ Room(e)
  /\ link' = [link EXCEPT ![Peer[e]] = @ \cup Numbered(number, e, active[e])]
  /\ UNCHANGED <<table, number, active, moved, mistaken, restarts, faults>>

\* The packet m leaves the link to e, unless it is a duplicate, and what is sent
\* in reply goes to the peer.  Whether there is a reply depends on the transfers.
Replies(e, m, replies) ==
  \E sent \in { {}, replies } :
    /\ sent # {} => Room(e)
    /\ \/ link' = [link EXCEPT ![e] = @ \ {m}, ![Peer[e]] = @ \cup sent] /\ UNCHANGED faults
       \/ /\ link' = [link EXCEPT ![Peer[e]] = @ \cup sent]
          /\ faults < MaxFaults /\ faults' = faults + 1

\* The node is looked up by its name, and the number noted.
ReceiveQueue(e, m) ==
  /\ m.type = "queue" /\ m \in link[e]
  /\ \/ /\ m.name \notin Range(table[e]) /\ Replies(e, m, {}) /\ UNCHANGED <<number, active>>
     \/ \E i \in DOMAIN table[e] :
          /\ table[e][i] = m.name
          /\ number' = Learned(e, i, m.node)
          /\ active' = [active EXCEPT ![e] = i]
          /\ \E asked \in { {}, {Announce(e, "reqmeta", i)} } :
               Replies(e, m, asked \cup Numbered(number', e, i))
  /\ UNCHANGED <<table, moved, mistaken, restarts>>

ReceiveReqmeta(e, m) ==
  /\ m.type = "reqmeta" /\ m \in link[e]
  /\ \/ m.name \notin Range(table[e]) /\ Replies(e, m, {}) /\ UNCHANGED number
     \/ \E i \in DOMAIN table[e] :
          /\ table[e][i] = m.name
          /\ number' = Learned(e, i, m.node)
          /\ Replies(e, m, Numbered(number', e, i))
  /\ UNCHANGED <<table, active, moved, mistaken, restarts>>

\* check_node_id(node_id) only compares the number with the size of the table.
ReceiveNumbered(e, m) ==
  /\ m.type = "numbered" /\ m \in link[e]
  /\ \/ m.node \notin DOMAIN table[e] /\ Replies(e, m, {}) /\ UNCHANGED mistaken
     \/ /\ m.node \in DOMAIN table[e] /\ Replies(e, m, Numbered(number, e, m.node))
        /\ mistaken' = [mistaken EXCEPT ![e] = @ \/ table[e][m.node] # m.name]
  /\ UNCHANGED <<table, number, active, moved, restarts>>

Receive(e, m) == ReceiveQueue(e, m) \/ ReceiveReqmeta(e, m) \/ ReceiveNumbered(e, m)

Lose(e) ==
  /\ faults < MaxFaults /\ faults' = faults + 1
  /\ \E m \in link[e] : link' = [link EXCEPT ![e] = @ \ {m}]
  /\ UNCHANGED <<table, number, active, moved, mistaken, restarts>>

\* What had not left the program is lost.
RestartEnd(e) ==
  /\ restarts < MaxRestarts /\ restarts' = restarts + 1
  /\ \E t \in Listings[e] :
       /\ table' = [table EXCEPT ![e] = t]
       /\ number' = [number EXCEPT ![e] = Unknown(t)]
       /\ moved' = [moved EXCEPT ![e] = @ \/ t # table[e]]
  /\ active' = [active EXCEPT ![e] = 0]
  /\ \E left \in SUBSET link[Peer[e]] : link' = [link EXCEPT ![Peer[e]] = left]
  /\ UNCHANGED <<mistaken, faults>>

NodesNext ==
  \E e \in Ends :
    \/ SendQueue(e) \/ SendData(e)
    \/ \E m \in link[e] : Receive(e, m)
    \/ Lose(e) \/ RestartEnd(e)

NodesSpec == NodesInit /\ [][NodesNext]_nodesVars

\* The packets that may be under way: no listing is longer than the set of nodes.
Likely == [type : {"queue", "reqmeta", "numbered"}, node : 1 .. Cardinality(Names), name : Names]

\* send_loop comes to its next QUEUE packets, and each packet arrives.
FairNodesSpec ==
  /\ NodesSpec
  /\ \A e \in Ends : SF_nodesVars(SendQueue(e)) /\ \A m \in Likely : WF_nodesVars(Receive(e, m))

-----------------------------------------------------------------------------
(* Properties. *)

\* A packet is used for the node it was meant for, unless the end that it reaches has
\* started again and found its nodes in another order: nothing that the sending end
\* goes through makes the numbers wrong.
RightNode == \A e \in Ends : mistaken[e] => moved[e]

\* Each node that both ends have is, again and again, the one whose data is sent, with
\* the number that it has at the peer now: what a restart left wrong is put right by
\* the next QUEUE packet, and no node keeps the others from being served.
NodesServed ==
  \A e \in Ends, n \in Names :
    []<>(n \in Range(table[e]) \cap Range(table[Peer[e]])
           => \E i \in DOMAIN table[e], k \in DOMAIN table[Peer[e]] :
                /\ table[e][i] = n /\ table[Peer[e]][k] = n
                /\ active[e] = i /\ number[e][i] = k)
=============================================================================
