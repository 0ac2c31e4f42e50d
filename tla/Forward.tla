-------------------------------- MODULE Forward --------------------------------
(***************************************************************************)
(* agent_forward: main takes the messages of the local network from the    *)
(* ring of its Agent and sends each to every channel it has; the incoming  *)
(* thread takes datagrams from other forwarders, opens a channel to those  *)
(* it does not know and publishes the datagrams on the local network; the  *)
(* request add_forward opens a channel.  Three threads use the vector      *)
(* sendchan without a lock.  What is published may be heard by the         *)
(* program's own message_loop: poll's test for its own address compares    *)
(* the port a datagram was sent from with the port it was sent to.         *)
(***************************************************************************)
EXTENDS MessageRing, SequencesExt

CONSTANTS
  Peers,          \* addresses of other forwarders
  CommandLines,   \* the channels it may be started with
  MaxChannels, MaxDatagrams   \* bounds of the model

ASSUME ForwardAssumption ==
  /\ \A given \in CommandLines : given \in Seq(Peers) /\ Len(given) <= MaxChannels
  /\ MaxChannels \in Nat /\ MaxDatagrams \in Nat

VARIABLES
  sendchan,
  sending,        \* the channel main sends to next; 0: it sends nothing
  incoming,       \* the datagram the incoming thread is about to open a channel for or to
                  \* publish
  adding,         \* the address request_add_forward is opening a channel to
  heard,          \* published by this program and not yet received by its own poll
  dead,           \* the program died of undefined behaviour that is not the ring's
  \* history
  source,         \* where each message put in the ring, or being put in, is from
  sent,           \* what was sent: <<message, address>>
  datagrams,
  unopened,       \* the forwarders to which the incoming thread could not open a channel
  lapped          \* the ring's writer was a whole round ahead of main once

forwardVars ==
  <<sendchan, sending, incoming, adding, heard, dead, source, sent,
    datagrams, unopened, lapped>>
allVars == <<ringVars, forwardVars>>

Local == "local"
Nobody == "nobody"
Resting == [from |-> Nobody, todo |-> "receive"]

Init ==
  /\ RingInit
  /\ sendchan \in CommandLines /\ sending = 0 /\ incoming = Resting /\ adding = Nobody
  /\ heard = <<>> /\ dead = FALSE
  /\ source = <<>> /\ sent = {} /\ datagrams = 0 /\ unopened = {} /\ lapped = FALSE

-----------------------------------------------------------------------------
(* message_loop *)

\* A message of a local agent, or what this program has published itself.
Hear ==
  /\ BeginStore
  /\ \/ source' = Append(source, Local) /\ UNCHANGED heard
     \/ heard # <<>> /\ source' = Append(source, Head(heard)) /\ heard' = Tail(heard)
  /\ UNCHANGED <<sendchan, sending, incoming, adding, dead, sent,
                 datagrams, unopened, lapped>>

\* The other steps of message_loop.
Store ==
  /\ MakeRing \/ EndStore
  /\ lapped' = (lapped \/ written' - last >= N)
  /\ UNCHANGED <<sendchan, sending, incoming, adding, heard, dead, source, sent,
                 datagrams, unopened>>

-----------------------------------------------------------------------------
(* main *)

MainReads ==
  /\ sending = 0 /\ (ReadNext \/ Look \/ TimeOut \/ CopyTorn)
  /\ UNCHANGED forwardVars

MainGets ==
  /\ Copy /\ reading' = "no" /\ sending' = 1
  /\ UNCHANGED <<sendchan, incoming, adding, heard, dead, source, sent,
                 datagrams, unopened, lapped>>

MoreAlready == sending < Len(sendchan)   \* mutant: off by one
More == sending <= Len(sendchan)

\* sendto does not fail for a while: a full buffer makes it wait.
MainSends ==
  /\ sending # 0
  /\ IF More
       THEN sending' = sending + 1 /\ sent' = sent \cup {<<last, sendchan[sending]>>}
       ELSE sending' = 0 /\ UNCHANGED sent
  /\ UNCHANGED <<ringVars, sendchan, incoming, adding, heard, dead, source,
                 datagrams, unopened, lapped>>

-----------------------------------------------------------------------------
(* incoming_thread *)

Known(address) == address \in Range(sendchan)

Incoming(peer) ==
  /\ incoming = Resting /\ datagrams < MaxDatagrams /\ datagrams' = datagrams + 1
  /\ incoming' = [from |-> peer, todo |-> IF Known(peer) THEN "publish" ELSE "add"]
  /\ UNCHANGED <<ringVars, sendchan, sending, adding, heard, dead, source,
                 sent, unopened, lapped>>

\* socket_open may fail, and then there is no channel.
Open(address) ==
  \/ UNCHANGED sendchan
  \/ Len(sendchan) < MaxChannels /\ sendchan' = Append(sendchan, address)

\* The datagram is published whether its sender has a channel now or not.
AddPeer ==
  /\ incoming.todo = "add" /\ incoming' = [incoming EXCEPT !.todo = "publish"]
  /\ Open(incoming.from)
  /\ unopened' = IF sendchan' = sendchan THEN unopened \cup {incoming.from} ELSE unopened
  /\ UNCHANGED <<ringVars, sending, adding, heard, dead, source, sent, datagrams, lapped>>

\* The datagram goes to the program's own publication channel, from a port the
\* kernel chose, and so past poll's test; whether it reaches the program itself
\* depends on the kind of network.
Publish ==
  /\ incoming.todo = "publish" /\ incoming' = Resting
  /\ heard' \in {heard, Append(heard, incoming.from)}
  /\ UNCHANGED <<ringVars, sendchan, sending, adding, dead, source, sent,
                 datagrams, unopened, lapped>>

-----------------------------------------------------------------------------
(* request_add_forward *)

BeginAdd(address) ==
  /\ adding = Nobody /\ adding' = address
  /\ UNCHANGED <<ringVars, sendchan, sending, incoming, heard, dead, source, sent,
                 datagrams, unopened, lapped>>

EndAdd ==
  /\ adding # Nobody /\ adding' = Nobody /\ Open(adding)
  /\ UNCHANGED <<ringVars, sending, incoming, heard, dead, source, sent, datagrams, unopened, lapped>>

\* A vector that grows while another thread uses it leaves that thread with memory
\* that was given back.
Dies ==
  /\ Cardinality({ t \in {"main", "incoming", "request"} :
       \/ t = "main" /\ sending # 0
       \/ t = "incoming" /\ incoming.todo = "add"
       \/ t = "request" /\ adding # Nobody }) > 1
  /\ dead' = TRUE
  /\ UNCHANGED <<ringVars, sendchan, sending, incoming, adding, heard, source, sent,
                 datagrams, unopened, lapped>>

Alive == ~crashed /\ ~dead

Next ==
  /\ Alive
  /\ \/ Hear \/ Store
     \/ MainReads \/ MainGets \/ MainSends
     \/ (\E peer \in Peers : Incoming(peer)) \/ AddPeer \/ Publish
     \/ (\E address \in Peers : BeginAdd(address)) \/ EndAdd
     \/ Dies

Spec == Init /\ [][Next]_allVars

Does(step) == Alive /\ step

\* Every thread of the program goes on; nobody need send it anything.
Fairness ==
  /\ WF_allVars(Does(Store)) /\ WF_allVars(Does(MainReads \/ MainGets \/ MainSends))
  /\ WF_allVars(Does(AddPeer \/ Publish)) /\ WF_allVars(Does(EndAdd))

FairSpec == Spec /\ Fairness

-----------------------------------------------------------------------------
(* Properties. *)

From(message, address) == message \in DOMAIN source /\ source[message] = address

Due(message, address) ==
  /\ last < message /\ message <= written
  /\ \/ Known(address)
     \/ From(message, address) /\ address \notin unopened

\* A message that main has not yet read is sent to every channel there is and, when
\* it is one that this program published for another forwarder to which a channel
\* could be opened, back to that one, unless the ring's writer gets a round ahead.
\* So two forwarders that hear themselves send one message to and fro for ever.
EveryChannel ==
  \A message \in 1 .. MaxMessages, address \in Peers :
    Due(message, address) ~> <<message, address>> \in sent \/ lapped \/ ~Alive
=============================================================================
