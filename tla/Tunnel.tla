-------------------------------- MODULE Tunnel --------------------------------
(***************************************************************************)
(* One direction of a tunnel between two agent_tunnel programs: packets    *)
(* read from the tunnel device of one go through its tcv_fifo, the serial  *)
(* line and the tun_fifo of the other to its tunnel device.  The writer    *)
(* of each fifo notifies its reader, which waits without a predicate, and  *)
(* nobody locks a fifo.  The line may lose an octet or change it.          *)
(***************************************************************************)
EXTENDS Slip, FiniteSets

CONSTANTS
  Packets,      \* the packets that are sent, each at most once
  Version,      \* the octets an IP packet begins with: the kernel takes no others
  MaxFaults     \* bound of the model: octets the line damages

ASSUME TunnelAssumption ==
  /\ BufSize \in Nat /\ MaxFaults \in Nat /\ Version \subseteq Payload
  /\ Payload \cap {FEND, FESC, TFEND, TFESC, Old} = {}
  /\ \A p \in Packets :
       p \in Seq(Octets) /\ Len(p) \in 1 .. BufSize /\ p[1] \in Version

VARIABLES
  taken,        \* history: the packets the device gave tun_read_loop
  tcv_fifo,
  sender,       \* tcv_write_loop
  line,         \* for each frame on the line, its octets that are yet to come
  reader,       \* cssl_getslip in tcv_read_loop
  tun_fifo,
  deliverer,    \* tun_write_loop
  delivered,    \* history: the packets the device took from tun_write_loop
  dead,         \* a program died of undefined behaviour
  \* history and bound
  faults,       \* octets the line damaged
  slipped,      \* an odd number of delimiters was lost or made
  log,          \* for each frame that has begun to arrive: slipped and what the reader held
                \* when it began, is it undamaged, what was read in it
  lost          \* fifos whose last notify was forgotten

tunnelVars ==
  <<taken, tcv_fifo, sender, line, reader, tun_fifo, deliverer, delivered, dead, faults,
    slipped, log, lost>>

Init ==
  /\ taken = <<>> /\ tcv_fifo = <<>> /\ sender = "armed" /\ line = <<>> /\ reader = Hunting
  /\ tun_fifo = <<>> /\ deliverer = "armed" /\ delivered = <<>> /\ dead = FALSE
  /\ faults = 0 /\ slipped = FALSE /\ log = <<>> /\ lost = {}

-----------------------------------------------------------------------------
(* Both fifos: a thread waits, drains the fifo and waits again. *)

NotWoken(thread) == thread   \* mutant: no notify
Woken(thread) == IF thread = "wait" THEN "drain" ELSE thread

\* A notify that finds the thread before its wait is forgotten.
Notified(fifo, thread) == IF thread = "armed" THEN lost \cup {fifo} ELSE lost \ {fifo}

\* running() is true until main ends the process.
SenderWaits ==
  /\ \/ sender = "armed" /\ sender' = "wait"
     \/ sender = "drain" /\ tcv_fifo = <<>> /\ sender' = "armed"
  /\ UNCHANGED <<taken, tcv_fifo, line, reader, tun_fifo, deliverer, delivered>>
  /\ UNCHANGED <<dead, faults, slipped, log, lost>>

DelivererWaits ==
  /\ \/ deliverer = "armed" /\ deliverer' = "wait"
     \/ deliverer = "drain" /\ tun_fifo = <<>> /\ deliverer' = "armed"
  /\ UNCHANGED <<taken, tcv_fifo, sender, line, reader, tun_fifo, delivered>>
  /\ UNCHANGED <<dead, faults, slipped, log, lost>>

SpuriousWake ==
  /\ \/ sender = "wait" /\ sender' = "drain" /\ UNCHANGED deliverer
     \/ deliverer = "wait" /\ deliverer' = "drain" /\ UNCHANGED sender
  /\ UNCHANGED <<taken, tcv_fifo, line, reader, tun_fifo, delivered, dead, faults, slipped, log, lost>>

-----------------------------------------------------------------------------
(* tun_read_loop and tcv_write_loop *)

Take(p) ==
  /\ p \notin Range(taken)
  /\ taken' = Append(taken, p) /\ tcv_fifo' = Append(tcv_fifo, p)
  /\ sender' = Woken(sender) /\ lost' = Notified("tcv", sender)
  /\ UNCHANGED <<line, reader, tun_fifo, deliverer, delivered, dead, faults, slipped, log>>

\* The packet is taken out and its octets are written.
Send ==
  /\ sender = "drain" /\ tcv_fifo # <<>>
  /\ tcv_fifo' = Tail(tcv_fifo) /\ line' = Append(line, Frame(Head(tcv_fifo)))
  /\ UNCHANGED <<taken, sender, reader, tun_fifo, deliverer, delivered, dead, faults, slipped, log, lost>>

-----------------------------------------------------------------------------
(* The line and tcv_read_loop *)

NextOctet == Head(Head(line))

\* The line brings the octet, loses it or makes another of it.
Brought == { <<octet>> : octet \in Octets } \cup { <<>> }

Remaining == IF Len(Head(line)) = 1 THEN Tail(line) ELSE <<Tail(Head(line))>> \o Tail(line)

\* The number of the frame that arrives, or will arrive next.
Current == Len(taken) - Len(tcv_fifo) - Len(line) + 1

Slips(arrival) == (arrival = <<FEND>>) # (NextOctet = FEND)

\* The log after an arrival that made the reader return the packets got.
Logged(arrival, got) ==
  LET begun == IF Len(log) < Current
                 THEN Append(log, [slipped |-> slipped, whole |-> TRUE, held |-> Result(reader), got |-> {}])
                 ELSE log
  IN  [begun EXCEPT ![Current].whole = (@ /\ arrival = <<NextOctet>>),
                    ![Current].got = @ \cup got]

\* An octet, if one arrives, reaches the reader.  With a delimiter it returns, and a
\* result that is not empty goes to tun_fifo.
Arrive(arrival) ==
  /\ line # <<>> /\ line' = Remaining
  /\ \/ arrival = <<NextOctet>> /\ UNCHANGED faults
     \/ arrival # <<NextOctet>> /\ faults < MaxFaults /\ faults' = faults + 1
  /\ slipped' = (slipped # Slips(arrival))
  /\ IF arrival # <<>> /\ Ends(reader, arrival[1])
       THEN LET result == Result(reader)
                got == { r \in {result} : r # <<>> }
            IN  /\ reader' = Hunting /\ log' = Logged(arrival, got)
                /\ tun_fifo' = IF got = {} THEN tun_fifo ELSE Append(tun_fifo, result)
                /\ deliverer' = IF got = {} THEN deliverer ELSE Woken(deliverer)
                /\ lost' = IF got = {} THEN lost ELSE Notified("tun", deliverer)
       ELSE /\ reader' = (IF arrival = <<>> THEN reader ELSE Step(reader, arrival[1]))
            /\ log' = Logged(arrival, {}) /\ UNCHANGED <<tun_fifo, deliverer, lost>>
  /\ UNCHANGED <<taken, tcv_fifo, sender, delivered, dead>>

-----------------------------------------------------------------------------
(* tun_write_loop *)

\* A packet the device does not accept is written again and again.
Goes == tun_fifo # <<>> /\ Head(tun_fifo)[1] \in Version

Deliver ==
  /\ deliverer = "drain" /\ Goes
  /\ tun_fifo' = Tail(tun_fifo) /\ delivered' = Append(delivered, Head(tun_fifo))
  /\ UNCHANGED <<taken, tcv_fifo, sender, line, reader, deliverer, dead, faults, slipped, log, lost>>

\* A push and a pop of one fifo that reach the end of a block of it at the same time.
Dies ==
  /\ \/ sender = "drain" /\ tcv_fifo # <<>> /\ \E p \in Packets : p \notin Range(taken)
     \/ deliverer = "drain" /\ Goes /\ line # <<>> /\ reader.at # "hunt"
  /\ dead' = TRUE
  /\ UNCHANGED <<taken, tcv_fifo, sender, line, reader, tun_fifo, deliverer, delivered>>
  /\ UNCHANGED <<faults, slipped, log, lost>>

Next ==
  /\ ~dead
  /\ \/ \E p \in Packets : Take(p)
     \/ SenderWaits \/ Send
     \/ \E arrival \in Brought : Arrive(arrival)
     \/ DelivererWaits \/ Deliver
     \/ SpuriousWake \/ Dies

Spec == Init /\ [][Next]_tunnelVars

Does(step) == ~dead /\ step

\* Every thread goes on, and the line brings octets or loses them.  The device need
\* not have a packet.
FairSpec ==
  /\ Spec
  /\ WF_tunnelVars(Does(SenderWaits \/ Send))
  /\ WF_tunnelVars(Does(DelivererWaits \/ Deliver))
  /\ WF_tunnelVars(Does(\E arrival \in Brought : Arrive(arrival)))

-----------------------------------------------------------------------------
(* Properties. *)

\* As long as the line damages nothing, the packets that come out are those that
\* went in, in order, each once.
wire == INSTANCE Wire WITH damaged <- faults > 0
WireSpec == wire!WireSpec

\* Between two frames the reader hunts for a delimiter unless an odd number of
\* delimiters was lost or made: then it takes the end of a frame for the beginning
\* of one, and only another such fault ever brings it back.
InPhase == Len(log) < Current => (reader.at = "hunt" <=> ~slipped)

\* A frame that arrives undamaged gives its packet and nothing else if it begins in
\* phase.  Out of phase its packet is lost, although nothing happened to it, and what
\* the reader held before comes out instead.
FrameByFrame ==
  \A n \in 1 .. Current - 1 :
    log[n].whole => log[n].got = IF log[n].slipped THEN {log[n].held} \ {<<>>}
                                 ELSE {taken[n]}

\* A packet is brought to the other end, and what is read there goes to the device,
\* unless the last notify is forgotten or the device refuses a packet before it.
EventuallyDelivered ==
  /\ <>[]("tcv" \notin lost /\ ~dead) =>
       \A n \in 1 .. Cardinality(Packets) : Len(taken) >= n ~> Current > n
  /\ <>[]("tun" \notin lost /\ ~dead) => []<>~Goes
=============================================================================
