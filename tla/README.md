# Verification of COSMOS core

COSMOS core is a C++ framework for running small satellites. Its agents are
processes that share an `Agent` class (heartbeat, requests, messages) and do one
job each. This directory holds TLA+ models of the agents whose control is hardest to
test: `agent_file` (file transfer between nodes over UDP), `agent_exec` (the command
queue of a node), `agent_forward` and `agent_tunnel` (which carry messages and IP packets
from one network to another), and of the parts of the `Agent` class they stand on;
TLC configurations that check small instances of them; and TLAPS proofs of
properties that hold for every instance.

## 1. The system

| Component | State | Operations | Hard behaviour |
|---|---|---|---|
| **agent_file**, protocol (`programs/agents/agent_file.cpp`, `libraries/support/transferlib.*`) | per node an incoming and an outgoing queue (`txq`): 256 slots, count, `next_id`, the transfer being sent; the outgoing, temporary and incoming folders; meta files | `main` scans the outgoing folder; `recv_loop` handles seven packet types; `send_loop` sends DATA and QUEUE; requests | loss, duplication, reordering; restart of either end; retries; one-byte ids that come round; 32-bit positions; another program that touches the folder |
| **agent_file**, transmit queue (`queuesendto`, `transmit_loop`) | `transmit_queue`, two mutexes, a condition variable | two threads push, one pops | push under one of two locks, pop under none; wait without predicate; one notify at shutdown |
| **agent_exec** with `CommandQueue`, `Event` (`libraries/support/command_queue.*`, `event.*`) | the list of commands, `queue_changed`, `.command` and `.queue` files | load, run, save in the main loop; `add_event`, `del_event`, `del_event_id` in the request thread | two threads on one list without a lock; a crash between the steps of a pass; system calls that fail |
| **Agent** (`libraries/agent/agentclass.*`) | run state `stateflag`, three threads, the message ring | constructor, heartbeat, request loop, message loop, shutdown, `readring`, `send_request` | start against shutdown; a ring whose reader is lapped; waits against notifies |
| **Scheduler** (`libraries/agent/scheduler.*`) | none | builds requests for `agent_exec` | one request, one answer |
| **agent_forward** (`programs/agents/agent_forward.cpp`) | the channels `sendchan` | main sends what the ring of its Agent brings to every channel; a thread takes datagrams of other forwarders, opens channels to them and publishes the datagrams; a request opens channels | three threads on one vector without a lock; a message that comes back to where it was sent from |
| **agent_tunnel** (`programs/agents/agent_tunnel.cpp`), SLIP of the serial line (`libraries/device/general/cssl_lib.cpp`) | `tun_fifo`, `tcv_fifo` | four loops: tunnel device to fifo to line, and line to fifo to device | fifos without a lock, waits without a predicate; damaged octets; a packet the device refuses |
| **agent_route** | none | forwards datagrams | |
| other agents, support, mathematics, physics, devices, third-party | | devices, formats, numerics | little control; out of scope |

How they interact. Two `agent_file` processes exchange seven kinds of packet: the
sender announces its transfers (QUEUE), describes them (METADATA), sends blocks
(DATA) and ends them (CANCEL); the receiver asks for descriptions (REQMETA) and
holes (REQDATA), and announces success (COMPLETE). Inside a process the three threads
share `txq` under one mutex for each direction and the transmit queue. `agent_exec`
is fed by files that other programs (file transfer among them) leave in a folder, and
by requests that the Agent's request thread runs as callbacks, without a lock shared
with the main loop.

What makes each component correct:

* file transfer: a user's file leaves the outgoing folder only when the peer has it,
  whole and unchanged; whatever is delivered is what was sent; every file is delivered
  in the end; both ends forget a finished transfer; a queue never outgrows its packet;
* command queue: a command runs when it is due, in the order of time, as often as it
  should; the saved queue is the queue; a saved command survives a crash;
* transmit queue: what is queued is sent, once and in order, and the program ends;
* agent: a shutdown request ends the process; no thread waits for ever; the reader of
  the ring sees messages in order, and none while it is being overwritten;
* forwarder: each local message goes to each channel; tunnel: each packet comes out whole,
  in order, once, and a damaged frame harms no other one (which is not so, see below).

`PROJECT.json` lists every component with its status, and every hazard with its line.

## 2. Modules

| Module | What it is |
|---|---|
| `FileChunks` | pure: lists of ranges: what is missing, how a requested hole is merged, how sent and received positions change a list, 32-bit wrap-around |
| `FileMove` | abstract: what file transfer promises its user |
| `FileTransfer` | the protocol between a sender and a receiver, in blocks |
| `ChunkTransfer` | one transfer in bytes, with channels of different packet sizes |
| `Nodes` | the numbers by which two `agent_file` programs name several nodes to each other |
| `CommandQueue` | the command queue of `agent_exec` |
| `Agent` | the life of an Agent: constructor, threads, state requests, shutdown |
| `TransmitQueue` | extends `Agent`: the threads of `agent_file` around `transmit_queue`, from the start of the program to its end |
| `MessageRing` | the ring of messages of an Agent, its writer and any use of it |
| `Forward` | extends `MessageRing`: `agent_forward`, a program that uses the ring in one way |
| `Slip` | pure: SLIP frames, written and read octet by octet |
| `Wire` | abstract: what a tunnel promises in one direction |
| `Tunnel` | extends `Slip`: one direction between two `agent_tunnel` programs over a serial line |
| `MCFileTransfer`, `MCChunkTransfer`, `MCNodes`, `MCCommandQueue`, `MCTransmitQueue`, `MCForward`, `MCTunnel` | constants of the instances TLC checks |
| `TransferInvariant` | why `FileTransfer` is safe: its inductive invariants, in named parts |
| `FileChunksTheorems`, `FileTransferProofs`, `ChunkTransferProofs`, `NodesProofs`, `CommandQueueProofs`, `TransmitProofs`, `ForwardProofs`, `TunnelProofs` | lemmas and theorems, checked by TLAPS |

A definition marked *mutant* in a comment is a deliberate error next to the definition
it varies (an off-by-one, a lost guard). No specification uses it; put in the other's
place it makes a property fail, which shows that the property says something.

### FileTransfer

One pair of nodes and one direction. The other direction runs on disjoint state; all
that reaches this one is the peer's own QUEUE packet, by which the sender learns which
number its peer has (`PeerSendQueue`, `HandlePeerQueue`). Packets that the sender
could only answer for a peer it does not know are not produced: `active` implies that
the peer is known, so DATA and the CANCEL of a given-up transfer need no guard.

| State | Code |
|---|---|
| `out`, `outSize`, `nextId`, `current` | `txq[node].outgoing`: `progress[]`, `size`, `next_id`, `id` |
| `in` | `txq[node].incoming.progress[]`; `got` is the list `file_info`, `total` is `total_bytes` |
| `disk`, `temp`, `incoming` | the outgoing folder; the `in_<slot>.file` files and the incoming folder, with the content of each block |
| `metaOut`, `metaIn` | the `out_<slot>.meta` and `in_<slot>.meta` files |
| `peerKnown`, `senderKnown`, `active` | `node_id` of each end, `active_node` |
| `reqmetaDue` | `currentmjd() > next_reqmeta_time` |
| `toReceiver`, `toSender` | the transmit queue of each end followed by the network |

A packet handler is one action, from the `recvfrom` to the end of its `case`. The folder
scan is two: a listing, then one file at a time, in order of size, between which the other
threads run; `scan` is the listing that grows stale. `AddOutgoing` joins the lock sections
of `outgoing_tx_add`: the ones in between only read the disk and the fresh slot.
`write_meta` writes at most once in 5 seconds per transfer; each call writes or does not.
A file that another program removes or shortens at any time is in `Disturbed`. The
receiver's list is kept sorted with different starts, so it is a set of ranges here;
`OneByteIsBlock` and `MissingIsHoles` of the byte model, both proved, say that this set, and what is
asked for, is what the lists give. A block stands for what one DATA packet carries.

`RestartSender` and `RestartReceiver` are crash and start in one step: the volatile state
goes, the meta files are read (as many as the queue takes, in any order, those with id 0
filling places too), and the packets still in the process' transmit queue are lost
(`CutOff`). `complete` of a restored entry is not initialised, so it is any value.

*Failing calls.* `agent_file` prints an error after a failing call to the file system and mostly goes on. The
model lets the kinds of call in `FailingCalls` fail, `MaxFailures` times in all; a step chooses which of its calls are `broken`:

| Call | In the code | In the model |
|---|---|---|
| `create`, `write` | `fopen` and `fwrite` of the temporary file (`agent_file.cpp:574`, `:584`): the block is in the list and in `total_bytes` before, and stays there | `WithData` counts what `WithBlock` does not store; no meta file is written after a failed `fopen` |
| `rename` | `:615`, `:2081`: COMPLETE is queued before (`:604`, `:2070`) and `complete` set afterwards, whatever it returns | `Finish` announces the transfer and leaves the file in `temp`; the sender removes its own |
| `remove`, `removeMeta` | `:1788`, `:1795`: the slot is freed, the file is in the outgoing folder still and queued again under another id | `Deleted` |
| `removeTemp` | `:1928` and the meta file after it: what is left is found by the next transfer with that id | `Without` |
| `read` | the file cannot be opened to see its size, or read to be sent (`:1017` to `:1049`) | `AddOutgoing`, `ReadFails`: CANCEL, and the file is removed undelivered |
| `write` of a meta file on METADATA | `write_meta` returns an error nobody looks at | `HandleMeta` |

So a single failing `create`, `write`, `rename` or `read` may lose a file: it is the file `user` then calls "failed" (`Suffer`), and the promises are about every
*other* file. What the properties show is that the damage stays there: a block that is counted and not
written, a file that was left behind in `temp` or in the outgoing folder, a meta file that outlives its transfer, and the ids
that are used up by trying again, spoil no other file. A failing `remove`, `removeMeta` or `removeTemp`
spoils no file at all. Not modelled: a listing of the folder that fails, a meta file that is torn or cannot be read, and a crash in the middle of a handler (say, between
COMPLETE and the rename).

### ChunkTransfer

The same transfer in bytes. `Absorbed` is the loop of `recv_loop` over `file_info` with
its three ways to stop; `Written` is `fseek` and `fwrite`, which always takes the first
bytes of the packet; `UseChannel` is the `use_channel` request, which changes the size of
the packets in the middle of a transfer.

### Nodes

The programs at the two ends, with the entries of `txq` that `FileTransfer` takes one of. `table` is
`txq[].node_name`, in the order in which `data_list_nodes` found the folders (`Listings` says what it may find);
`number` is `txq[].node_id`, one more than the index at the peer; `active` is `active_node`. Indices count
from 1 here, so 0 is "not known" for both. QUEUE and REQMETA packets bear the name of their node
and teach the number. The other five kinds bear only a number and are one kind here (`Numbered`): which of them
is sent, and whether, is up to the transfers, so the model sends or does not. A packet of the model also says which
node it was meant for, which no handler of a numbered packet reads; `mistaken` compares it with the node it was used for.

The packets under way are a set, so they overtake each other. Two equal ones are one, which loses no behaviour, since a
packet may also stay when it is received (a duplicate). A restart is crash and start in one
step. That the index is one byte, which is too few for 256 nodes, is not modelled.

### CommandQueue

The main loop is cut where the request thread can come in with an effect: list the
folder, one `.command` file, sort, one entry of the run, open the queue file, write one entry to it.
`here` marks the entry at which the iterator of `run_commands` or of `save_commands` is. A request is cut between
the change of the list, the flag, and the sort. So a sort or an erase may come between two
entries of a run and of a save. `std::list` keeps an iterator valid when other entries are erased or the list is sorted, so the
walk goes on behind the *entry* it is at, wherever that is now: a save may leave entries out or write them twice. A request
that does so sets `mixed`, and `reread` tells that the process was then started with such a file; both are
history, and name what the properties must except. The sort itself, and each
other operation on the list, is one step: two that truly overlap are a data race, whose outcomes are not
enumerated; one that kills the process is a `Crash`. An iterator that `del_event` leaves dangling is followed: the process dies, or the
walk ends there (an assumption on what a freed list node reads like).

A `.command` file holds one command. `condition_true` is a stub that returns
true, so a conditional command runs once when due, and a repeatable one is not run
again while the flag `already_ran` says so; that it runs again once its condition has become false (`agent_exec.cpp:63`) cannot happen with the stub.
Failing system calls (`opendir`, `open`, `remove`, `fork`, `fopen`, `fprintf`, and the `open` of the queue file at the start) are counted by `failures`.

### Agent and TransmitQueue

`stage` follows the constructor and `shutdown()`; `AgentInit` is the moment the message
thread has been started. The states DEBUG and MONITOR act as RUN does. The request thread
looks at the state after each request and after each time out, and handles what comes
while it waits whatever the state has become: `requests` tells the two apart. Before that it opens its socket and takes
its buffer; when it gets none it returns, and the constructor goes on to RUN (`RequestLoopOpens`, `agentclass.cpp:785`): an Agent
that runs and answers nobody, which `KeepsAnswering` names as its exception. The heartbeat
and the message thread end some time after they may; as only `shutdown()` waits for them,
the model lets them end no earlier than the program could notice. Requests arrive at any
time; `MaxRequests` bounds those that change the state. While the constructor or `main` still
adds requests, a lookup may follow a pointer the vector has left: `LookUpWhileAdding`.

`send_loop` and `recv_loop` are *queuers*: they look at the state, are ready, put one packet in
(a step that begins and a step that ends, so that two can overlap), and look again.
`Answers` are the packets queued under `incoming_tx_lock` (REQMETA, REQDATA,
COMPLETE), `LockedAnswers` those queued under `outgoing_tx_lock` (METADATA, CANCEL). Two pushes that overlap write the same place: the end of the
queue then moves once or twice, and what lies there is `Garbage`. A push and a pop
share no element, but the block bookkeeping of the standard library's deque: when they overlap the
process may die, or nothing happens. `transmit_loop` looks, is *armed* (has looked, does not
yet wait), waits, drains. `notify_one` is merged with the end of the push it follows, which loses
no behaviour, since a later notify only makes for one more look, as a spurious wake does.
`missed` is true once main's only notify has fallen between the look and the wait.

### MessageRing and Forward

`BeginStore` and `EndStore` are the two ends of the assignment `message_ring[new_position] = mess`;
a reader that copies the same cell in between may die (`CopyTorn`) or get what the cell held.
Messages are numbers in the order of their arrival. The initial pointers are
`MESSAGE_RING_SIZE`, one past the last cell, as in `agentclass.h`; before `MakeRing` there are no cells.
`plain` says that the program has used the ring only by reading one message after
another with time to wait and by clearing it. A message is one value: what a reader that copies while
the writer writes may get of two messages at once is not told apart from the first or the death of the program. `MCForward` runs `agent_forward` or, as *client*, a
program that does anything: reads from the head, reads without waiting,
clears, resizes. The filter of types is not modelled but any message may be passed
over; the list of agents that `message_loop` also keeps is left out.

`agent_forward` reads the ring in `main`, and `sending` is its walk over `sendchan`. `poll` means to
drop what the program itself has published, but compares the port of the sender (chosen by the
kernel) with the port it sent to; so `heard` may come back to it as a message like any
other. Where `socket_open` fails there is no channel, and the datagram is published all the same (`Open`, `unopened`).
`request_del_forward` is in the source and never registered.

### Slip and Tunnel

Octets are the four of SLIP and a small alphabet of others; packets are sequences of
them. `Frame` is `cssl_putslip`; `Move`, `Step`, `Ends`, `Result` are the loop of `cssl_getslip`, which
first skips to a delimiter and then reads to the next one. A full buffer takes no more,
and after an escape that is none the octet in the buffer stays what it was (`Old`). The line
is read with VMIN 1 and VTIME 0, so a read never times out. The line loses an octet or makes
another of it, `MaxFaults` times; added octets are not modelled. A fault strikes when the octet
would arrive. A packet is accepted by the tunnel device if it begins like an IP packet
(`Version`). Both loops that drain a fifo wait without a predicate and share it without a lock,
as in `agent_file`; `lost` names the fifos whose last notify was forgotten.

## 3. What the runs check

Passing runs:

| Run | Instance | What it shows |
|---|---|---|
| `FifoLossy` | files of 1 and 2 blocks, 4 ids, limit 2, window 2; links in order, 1 packet lost, 1 duplicated, 1 call of any kind fails | `NeverLost`, `DeliveredIntact`, `CompleteIsTrue`, `ProgressOnDisk`, and that the protocol implements the safety of `FileMove` (`MovesSafely`) |
| `Restarts` | two files of 1 block, 3 ids, limit 2, window 1, one restart of each end, one file disturbed, one meta file that cannot be removed | `TypeOK`, `SlotsFit`, `OneSlotPerFile` |
| `Live` | two files of 1 and 2 blocks in a queue of two places, between which the receiver chooses; window 1, 1 packet lost, 1 `remove` or `rename` fails | under fairness the protocol implements all of `FileMove` (`MovesEverything`) |
| `LiveRestarts` | one file, reordering, 1 lost, 1 duplicated, one restart of each end, one meta file that cannot be removed | `EventuallyIdle`, whatever the faults leave behind |
| `ChunkSwitch` | 6 bytes, packets of 2 or 3, positions 0..7, 1 switch, 1 packet lost | lists stay well formed; the list is what was written; contents, count and end of the transfer; the two properties that tie the byte lists to the block sets |
| `Commands` | two commands, one repeatable, times 0..2, 1 crash, 1 failure | how often commands run, in which order and that they do; the saved queue is the queue, and only a crash or a request in the middle of a save loses what was saved (`SavedNeverLost`); the iterator is at one entry exactly during a run |
| `Transmit` | one packet of each kind and QUEUE packets without end, 2 requests | `NothingVanishes`: packets collide only by the answers queued under the other lock, and until then none is lost, repeated or overtaken; `EventuallySent`; `KeepsAnswering`, `ShutdownStays`: an Agent that got its socket answers while it runs, and no request takes a shutdown back; `EndsAfterShutdown`: the program ends unless the one notify is missed |
| `Forward` | ring of 3 cells, 4 messages, 2 peers, 1 datagram; `agent_forward` or any other use of the ring | `RingTypeOK`: no use leads outside the ring; `ReadsInOrder`; `TornOnlyLapped`; `EveryChannel`: every message goes to every channel, and back to the forwarder it came from if it is heard again and a channel could be opened |
| `Nodes` | 2 nodes; one end always finds them in one order, the other in either order or only one of them; 1 restart, 1 packet lost or duplicated, any order, window 1 | `RightNode`: a packet serves another node than it was meant for only at an end that has started again with its nodes in another order; `NodesServed`: each node both ends have is, again and again, the one whose data is sent, under its number at the peer. (The formula says that it is the active one for a moment, again and again; that data is sent then is up to the transfers) |
| `Tunnel` | two packets of 2 and 3 octets that need every escape, a buffer of 3, 2 damaged octets | without damage the tunnel implements `Wire` (`WireSpec`); `InPhase` and `FrameByFrame` say what a damaged octet does to the frames after it; `EventuallyDelivered` |

Runs that end in a violation, each a disagreement of the code with what it says of itself
(quoted under `findings` in `PROJECT.json`):

| Run | What happens |
|---|---|
| `FourBlocks` | links in order, one packet lost. A hole is requested again while its blocks are under way. A block that arrives again right after the end of one range is counted as new though the next range holds it: `total_bytes` reaches the size before the last block has come, the file is delivered without it and deleted at its source (`agent_file.cpp:546`) |
| `ReceiverRestartTruncates` | after a restart the first new block empties the temporary file whose blocks the restored list still counts (`:574`) |

So the safety results for file transfer have limits, and the instances show where they
lie: they hold of a file on which no call to the file system fails (after a failed rename the sender deletes a file that never arrived, `:604`, `:615`), on links that keep the order, without a restart of the receiver, on one channel, for files
of up to three packets (`FifoLossy` for two blocks, `TotalExact` and `ShortIsRight` in the
byte model for three packets). Known behaviour without a run of its own: a restart of the sender begins with id 1 again, and a COMPLETE of the
earlier run may end the transfer of another file (`agent_file.cpp:287`; `CompleteIsTrue` fails when `SenderRestarts` is 1, unless `TakesUnused` holds, see below); after a switch of channels a packet that
overlaps a received range is written shifted (`agent_file.cpp:584`; `WholeIsRight` of `ChunkTransfer` states what
would hold otherwise, and `ShortIsRight` what does); a crash while the queue file is rewritten loses commands that were
saved before (`command_queue.cpp:158`); a request that sorts the list during a save leaves the file with entries missing or
repeated until the next change, since `add_event` sets the flag before it sorts (`agent_exec.cpp:474`), and a process that is started with such a file runs an entry twice; with reordered
packets an old QUEUE packet deletes a transfer under way, and the blocks are sent again;
a lost CANCEL and ids that come round end the transfer of another file (section 4);
an empty file is never queued, makes the main thread list the folder without a pause,
and uses up an id each time; a command that ran just before a crash runs again
(`RunsBounded` counts these).

The new models show more of it; the properties name each as their exception:

* a shutdown that is requested before the constructor has set RUN is overwritten, and the
  request thread may have ended by then (`early`; `agentclass.cpp:250`);
* `agent_file` never ends when main's notify comes between the look at the state and the wait
  (`missed`; `agent_file.cpp:424`), and an Agent that could not be set up is used all the same (`NoAgent`);
* a reader that is lapped by exactly one round sees no message at all, since head and tail
  are equal; one further behind misses whole rounds;
* `readring` without time to wait returns old messages again, and from the head before the first message
  skips that one. `agentclass.cpp:2009` says "If 0, return last message in ring
  immediatelly". `resizering` moves the pointers and does not resize;
* after a restart that finds the nodes in another order, packets that bear the old numbers serve the wrong
  node: an id of one node's transfer is looked up among another's (`moved`; `agent_file.cpp:478`, `:845`), until
  the next QUEUE packet tells the peer the new numbers;
* two forwarders on networks that deliver a program its own multicast send one message to and fro for ever;
* SLIP frames begin and end alike. After one delimiter was lost or made, the reader
  takes gaps for frames, every packet is lost though nothing happens to it any more, and only
  a second such fault brings it back (`InPhase`). What comes out then are damaged
  packets, and one the device refuses is written again for ever (`agent_tunnel.cpp:252`).

**Bounds.** *Ids and limit*: 3 or 4 ids with a limit of 2 (the code: 255 ids, and as many of
them as fit in a packet of 225 bytes) are enough for ids to wrap and skip 0, and to be used again: after a restart in
`Restarts`, and in `FifoLossy` by a file that fails to be read or removed. With two files a queue of two places is
full and keeps nobody waiting; that a waiting file takes its turn was checked with a limit of 1 instead. *Failing calls*: one of any kind, combined with every loss and
duplication; two of them were checked with two files of one block (section 4). The restarts runs take the one call whose failure a restart can see,
`removeMeta`. *View*: `FifoLossy` leaves the meta files out of what tells two states apart; only a restart reads them, and it has none. `Restarts` leaves out the incoming folder, which is written and never read and is no matter of its
properties (but for its type, which is proved). *Window*: the sender sends of its own accord (QUEUE,
DATA) only when fewer than `Window` packets are in flight; answers are never held back,
so more can be under way. *Faults*: one loss and one duplication are combined in every
order with everything else. *Blocks*: two blocks give a hole before, after and between;
four are the least for the double count. *Bytes*: 6 bytes in packets of 2 and 3 give every
kind of overlap: inside, before, touching, across an end. *Positions*: `MaxBlock` is
just above the size, so that arithmetic at the edge (`Succ`, `Pred`, the unsigned
remainder) wraps within reach. The restarts run has window 1, because two restarts times a
larger window is out of TLC's reach in minutes; its properties are proved for all bounds.
In `Chosen` the remainder of a transfer with more bytes than the file has is huge, as in
the code; the one value 2^32 - 1 the code excludes by its strict comparison needs a file
one byte over its size and is not told apart.

*Transmit*: one packet under each lock and one that repeats are enough for each pair of threads to meet
in the queue; two requests give every order of a shutdown and another one; one collision is
followed. *Nodes*: two nodes are enough to swap, to shift a number by one, and to compete for `active_node`; the window of 1
bounds what is sent at a time, and a QUEUE round of several packets or an answer that finds room may still pass it; the proof holds for all. *Ring*: 3 cells and 4 messages let the writer pass the reader; the proofs hold for
all. *Tunnel*: two faults are enough to lose the phase and to find it again; the buffer is as
long as the longer packet, so that two frames taken for one overflow it.

**Deadlock** is checked in all runs of `FileTransfer` (the receiver always can receive a QUEUE
packet), of `CommandQueue` and of `Nodes`. `ChunkTransfer` models one transfer and ends with it, so
its runs do not check deadlock; nor do those of `Transmit`, whose program ends, and of `Forward` and `Tunnel`, whose
messages and packets are bounded and whose programs may die.

**Fairness.** Each thread of `agent_file` is a loop without an exit, so what it can do
it does in the end: weak fairness for the scan, the handlers and the timer. The four steps the
window holds up (`SendBlock`, `GiveUp`, `SendQueue`, `PeerSendQueue`) get strong fairness:
the window is the model's, and in the code nothing keeps a thread from its step. No
fairness is assumed of losses, duplications, restarts or users; and failing calls are finitely many, for a file
that can never be removed is queued and sent for ever. `CommandQueue`: the clock
advances, the main loop goes on, a request ends, and a process that died is started again. `Nodes`: each packet under way
arrives (a loss takes it first, `MaxFaults` times), and `SendQueue`, which the window of the model holds up, gets strong
fairness, since `send_loop` comes to it every 10 s. No fairness is given to data, restarts or losses. `TransmitQueue`, `Forward`
and `Tunnel`: every thread goes on, weakly fair, as each is a loop of its own and no step depends on another
thread's except by a lock or a notify. Nobody need send anything: neither a request, nor a packet to `recv_loop`, nor a
datagram, nor a packet at the tunnel device. `send_loop` queues a QUEUE packet every 10 s, which wakes
`transmit_loop` when a notify was lost; nothing of the kind exists in `agent_tunnel`.

## 4. What is proved

`FileChunksTheorems` proves what the list operators keep, for every width of a position:
merging a requested hole (`InsertHoleType`), sending from a list (`FirstSentType`), the holes asked
for (`HolesType`, which needs that no block lies at the last position), and listing and merging.

`FileTransferProofs` proves for all files, sizes, limits, numbers of ids, of faults and of failing calls of any kind, with
links that keep the order or not:

* `TypeCorrect`: `Spec => []TypeOK`. `TypeOK` is inductive. One lemma per action; the
  laborious parts are the handlers that build several packets and `next_incoming_tx`,
  whose lemma is shared by QUEUE and CANCEL.
* `QueueListsAll`: `Spec => []SlotsFit`. Every step does one of four things to the slots
  (`SlotSteps`): keeps them, takes one, frees one, or restores them. `SlotsFit` with
  `TypeOK` is inductive: `outgoing.size` may be *larger* than the number of occupied
  slots (meta files with id 0, read at a start, are counted), never smaller, so the 8-bit
  decrement never goes below zero.
* `NoFileTwice`: with at most one restart of the sender, and none if the removal of a meta file can fail
  (`RestartsSafely`), `Spec => []OneSlotPerFile`.
  `OneSlotPerFile` is not inductive, since a restart builds the slots from the meta files.
  The invariant adds `MetaFollowsSlot`: before a restart each live meta file tells of an
  occupied slot and its file. It ends with the first restart, when meta files beyond the
  limit stay behind next to slots that will hold other files: hence the assumption. A file that could not be removed is queued again, but only when its
  slot is free. If its meta file could not be removed either, a restart would find two meta files of it.
* `ListsTellTheTruth`: `Spec /\ [][TakesUnused]_vars => []ProgressOnDisk` for files of any size, on links in order,
  with restarts of the sender as in `RestartsSafely` and none of the receiver. `TakesUnused` says of a step that no file is given an id that is still spoken of: by an entry of the
  receiver, a packet under way, or a temporary file that could not be removed. The code never asks whether the entry a DATA packet falls on has its meta data, or is
  that of the same file; that it has, and is, follows from the order of the link alone. The invariant (`ListsRight`)
  says for every id: behind a packet that ends a transfer the receiver has (CANCEL, or a QUEUE that leaves it
  out) nothing lists it again and the sender has let go of it (`LinkEnds`); a block is asked for or under way only once
  the receiver has the meta data, or when all is over (`DataFollowsMeta`); the temporary file is what the list says (`ListsFit`), unless a call failed on the file.
  Of a transfer that is over a temporary file may be left, if it could not be removed (`Leftovers`).
  A restart of the sender takes ranges to send from the meta files and cuts off the end of the link (`RestartStep`). So before it each meta file must
  hold what its slot may hold: no ranges, unless the receiver has the meta data (`SavedRight`, kept because `write_meta` copies
  a slot, and because the receiver does not drop an entry while its id is in a slot, `DescribedStays`).

The second half of `FileTransferProofs` proves what users of file transfer rely on, for any number of files of up to three blocks and any number
of lost and duplicated packets, failing calls, disturbances of the folder and windows, with the same restarts. A call that fails spoils the
file it is made for and no other one:

* `NothingIsLost` (`NeverLost`), `WhatArrivesIsWhole` (`DeliveredIntact`), `CompleteTellsTheTruth` (`CompleteIsTrue`). The invariant
  is `ListsRight` with `FilesRight`: whatever bears an id is about one file (`OneFileEach`: slot, entry,
  METADATA and DATA packets, blocks stored); for a file nobody disturbs the sizes, blocks and holes are inside it, the
  count of a transfer is the number of blocks in its list, and a COMPLETE under way, or an entry that is complete,
  is of a delivered file (`FilesAreSent`); a file that is gone has been delivered (`FolderRight`). A handler of the receiver changes
  entries one by one, and a block may end the transfer; the proof follows one
  block into list, count and temporary file, and the file from there to the incoming folder. For the restart of the sender, saved ranges
  lie within the file (`SavedWithin`, as merging them in `read_meta` does not go further), and the size it takes from the folder anew is right,
  since a file in a slot is in the folder until the slot is freed (`SlotsOnDisk`, from `OneSlotPerFile`). That a file is "failed" is remembered for good, so each part of the
  invariant is about the files that are not, and a failing call can only take a file out of it; what it leaves behind (a slot freed
  with the file still in the folder, an old temporary file or meta file) has to satisfy the rest. TLC checked the invariants of this
  half with two files of one block and window 1, once with one failing call of any kind but `removeMeta`, a lost packet and a restart of the sender
  (1.06 million states, every step with `TakesUnused`), and once with two failing calls of any kind, a lost packet and 7 ids
  (97 thousand states, with the invariant of `IdsLast`).
* `MovesAreSafe` (`MovesSafely`): each step maps to a step of `FileMove` (with `Fail` for a file on which a call fails) or a stutter. Every step is one of the user, of
  the sender or of the receiver; only the receiver touches the incoming folder, and no step puts more than one
  file there (`OneArrives`).
* `IdsLast` and `TransfersAreSafe`: the results above again, without a hypothesis on behaviours. `IdsLast` shows
  `Spec => [][TakesUnused]_vars` if there are more than two ids for each file and one for each failing call (127 files in the life of the process
  if nothing fails, as there are 255 ids), no file is empty and none is touched by other programs. A file uses up an id when it is queued, and another one if it is gone
  before its place in a listing comes: `outgoing_tx_add` takes the id before it looks at the file (`agent_file.cpp:1719`). A file that could not be opened or removed uses up one more when it is tried again. The
  invariant (`EnoughIds`) counts the ids that files can still use up (`IdsLeft`), so that the search does not wrap (`FirstRound`), and what
  it has not come to is unused (`IdsFresh`). TLC finds that two files do use 4 ids, and a fifth one in `FifoLossy`, where a call fails, so the count is exact.

The hypotheses are where the properties end, not where the proof does:

| Hypothesis | Without it |
|---|---|
| no call failed on the file (in the properties) | `NeverLost` and `DeliveredIntact` fail: see the table of failing calls in section 2 |
| `Ordered` | an old QUEUE or CANCEL deletes a transfer, or an old DATA packet comes to an entry that has no meta data |
| no restart of the receiver | `ProgressOnDisk` fails (`ReceiverRestartTruncates`) |
| `RestartsSafely`: no restart of the sender if `removeMeta` can fail | two failures, to remove a file and its meta file, let a restart find two meta files of one file (`OneSlotPerFile` fails) |
| `RestartsSafely`: at most one restart of the sender | not proved: the first restart may leave meta files of transfers that did not fit in the queue, and the second reads them |
| no restart of the sender (`IdsLast`, `TransfersAreSafe`) | ids begin at 1 again and may still be spoken of: an old COMPLETE ends another transfer (`CompleteIsTrue` fails) |
| `SmallFiles`: up to three blocks (for all but `ProgressOnDisk`) | `NeverLost` fails (`FourBlocks`): `total_bytes` counts a block twice |
| `TakesUnused`: no id is taken that is still spoken of | `NeverLost` fails, see below |

What the last line stands for was found when the proof asked for it. `outgoing_tx_add` looks for an id that is free at its own
end only. Say the CANCEL that answers a COMPLETE is lost, and the ids come round before the next QUEUE packet arrives (every 10 s; an empty
file in the folder makes them come round in no time): the next file gets the id of a transfer the receiver still holds as complete. The
QUEUE packet that lists it is answered with COMPLETE, and the sender deletes a file of which no
block was sent. TLC finds this in 25 steps with three files (of 1, 1 and 2 blocks), 3 ids, a limit of 2, window 1 and one lost
packet: `CompleteIsTrue` and `NeverLost` fail. With `TakesUnused` as a conjunct of every step the same instance, with windows 1
and 2, satisfies `ListsRight`, `FilesRight` and all properties, though ids are used again in it. No run of the project reaches it: in `FifoLossy` the ids come round
only when a call fails, and two files with one lost packet are too few.

`ChunkTransferProofs` proves for every size of the file, any packet sizes and any number of faults:

* `ChunksTypeCorrect` and `ListMatchesFile`: `ChunkTypeOK` and `ListIsWritten`, inductive together (`ChunkInv`). The
  three ways in which `Absorbed` ends are followed one by one; each adds to what the list
  covers exactly the positions that `Written` writes, and merging a list changes nothing of what it covers.
* `OneSizeIsRight`: without a switch of channels each byte lies where it was in the sent file, for every packet size `P`.
  `fwrite` takes the first bytes of a packet, so this needs that a packet that makes a range longer begins
  right behind it. That holds because all ranges, at either end and on the way, begin at multiples of
  `P` and end before one or at the end of the file (`OneSize`), which sending, receiving, asking
  and the merge of a requested hole keep.
* `AsksForTheHoles`: what `find_chunks_missing` finds in the merged list and what `FileTransfer` takes for it are both
  shown to be the gaps of the list (`Gaps`): the stretches that it does not cover, between neighbours that it does.
* `BytesAreBlocks`: `OneByteIsBlock`, so what is found with blocks in `FileTransfer` holds of the walk over
  a list of bytes. The invariant says that the ranges are in the order of their starts (`StartsAscend`), which is why the
  walk stops at the first one that does not end before the byte (`AbsorbedAt`, `AbsorbFirst`).
* `ShortIsCounted` and `ShortIsWhole`: `TotalExact` and `ShortIsRight`, for every packet size and every file of at most three such
  packets (with four they fail, see `FourBlocks`). The count is right as long as there is a byte between any two ranges (`Tidy`):
  then no byte of a packet that grows a range is in the next one. A packet can make two ranges meet, but in three packets
  only by filling the one gap there is, and then the list covers the file and the transfer is over (`TidyAbsorbed`).
  The invariant (`CountInv`) therefore asks for `Tidy` only until then. A merge leaves gaps again (`MergedApart`).

`NodesProofs` proves `MeantNode`, `NodesSpec => []RightNode`, for any nodes and listings and any number of restarts and faults. The
invariant (`NumbersRight`) says of an end that has not started again with another order that three kinds of numbers
are those of its table: what its peer remembers, what packets tell the peer of it, and what packets to it
bear. Every step but a restart only passes such numbers on (`Tells`); a restart of the *peer* forgets them.

`CommandQueueProofs` proves for any commands, times, crashes and failures `QueueTypeCorrect`, `SavedStays`, `SavedAsListed`,
`RunInOrder` and `RunOftenAtMost`. The invariant (`QueueInv`) says that the iterator of `run_commands` or `save_commands` is in the list during its walk and
only then (`HereInv`: what `del_event` takes from under it ends the walk); that what was saved is in memory unless
the process is down *and* in the file unless the file is being written (`KeptInv`); that a save no request got into has written
the entries before the iterator, in order, and will write the rest; that the list of an undisturbed
run is sorted and nothing behind the iterator is due before what was run (`OrderInv`); and that the
flag is set, or a request is about to set it, whenever the file differs from the list (`SaveInv`). The
lemmas on lists say that `std::list::sort` and the erasing loop of `del_command` only rearrange what stays
(`ArrangedRearranges`), so that the multiset of entries and the iterator's entry are kept.
`RunOftenAtMost` (`RunsBounded`) needs a second invariant, `RunInv`, because the number of runs alone says nothing of the runs to
come. It counts three things of each command: the entries that may ever have been made of its file or
request (`Loads`: one, and one more for each failure to remove the file, none of which is counted before the file is loaded),
the entries that list and file hold now (no more than that), and the entries this life of
the process may still run (`Ready`); the runs so far and the ready entries stay below `Loads` times the number of lives. A run
uses up a ready entry (`DoneFewer`); sorting, deleting and saving make none (`Fewer`); a restart makes each
saved entry ready again, which the crash before it paid for. A save that a request got into may write an entry twice (as many entries as the
walk meets), so the bound ends with a process that was started with such a file (`reread`).

`TransmitProofs` proves for any packets, bound on the queue and number of requests that
`TransmitTypeOK`, `NothingVanishes` and `KeepsAnswering` are invariants and that `ShutdownStays` holds. The
invariant adds what the constructor, the request thread and the state know of each other (`AgentInv`:
with the state SHUTDOWN the request thread is not opening its socket or waiting, so no request takes it back), that main is past
its loop only after such a shutdown (`MainInv`), and that the packet `transmit_loop` has copied
stays the first of the queue (`PacketInv`). That two threads under one lock do not collide is the
case split of `BeginPushKeeps`.

`ForwardProofs` proves for every size of the ring and any number of messages:
`RingTypeCorrect` for any use of the ring; `ReadInOrder` and `TornLapped` for a program that
asks for one message after another. The argument is an invariant that relates cells to
history: the cell `k` places behind the head holds message `written - k`, and the reader is at the
cell of `last`, or of a message whole rounds later. The tail alone does not say how many rounds
the reader is behind, which is why the property speaks of rounds. It then shows that every step of
`agent_forward` is a step or a stutter of the ring (`ForwardIsRing`) and concludes that both properties
hold of it (`ForwardsInOrder`).

`TunnelProofs` proves for any packets, any size of the buffer and any number of damaged octets `TunnelInPhase`,
`TunnelFrameByFrame` and `TunnelIsWire`. The invariant (`TunnelInv`) says that the packets in `tcv_fifo` and the frames on the line are
those taken last, in order (`Waiting`); that what is yet to come of the frame that arrives has its end as its only delimiter, and
that the reader, if the frame is undamaged and in phase, has read it so far (`Arriving`); that the reader hunts between two
frames if it is in phase and within a frame if it is not (`Phase`: an octet that is lost or made changes this only if it is a
delimiter); and that without damage what was read is what was taken (`Undamaged`). A frame is a fold over the octets of its packet.
What the fold computes is found by induction on the length of the packet: the library's induction rule takes an operator and
cannot be used, but that a non-empty set of natural numbers has a least element can, and gives induction
for a set of numbers (`NatInduct`). The reader is followed through what is left (`Left`): the octets before it were read, and the reader may
stand between a FESC and the octet that belongs to it (`Reads`, `ReadsOn`). This invariant was checked with TLC on the instance of
the run `Tunnel` before it was proved.

Assumptions are those on the constants, named in the modules (`MaxBlockAssumption`,
`SizeAssumption`, `TxIdAssumption`: the limit is below the number of ids; `NoFileAssumption`,
`BoundsAssumption`, `NoTxAssumption`, `RequestAssumption`, `TransmitAssumption`, `RingAssumption`: at least two cells, `ForwardAssumption`,
`ChunkAssumption`, `NodesAssumption`, `CommandAssumption`, `TunnelAssumption`: the octets of a packet, its size and how it begins); TLC evaluates them in the runs.

Only model-checked: liveness (`MovesEverything`, `EventuallyIdle`, `EventuallyWhole`,
`EventuallyRun`, `NodesServed`, `EventuallySent`, `EndsAfterShutdown`, `EveryChannel`, `EventuallyDelivered`; the prover does not treat fairness or ENABLED) and what `FileTransfer` does beyond the hypotheses in the table above
(`Restarts`, `LiveRestarts`).

## 5. Not modelled

How the transfers of several nodes of an `agent_file` share the channel (which numbers they use is in `Nodes`); in
`FileTransfer` the run state IDLE and the transmit queue as a data structure (both are in
`TransmitQueue`); requests that only print (`ls`, `list_incoming`, `list_outgoing`, `debug`)
and `remove_file`, which does nothing; throughput and the pacing of packets; logging,
formatting and the state-of-health part of `agent_exec`; `utcexec`. Of the Agent: sockets,
`send_request`, `get_server` and the other requests, which read or print. Of `agent_forward` the exits when a socket
cannot be opened at the start; of `agent_tunnel` the set-up of device and lines and the exit without a join.

Most of the repository is numerical or format code (physics, mathematics, the name space of
`jsonlib`, time and coordinate conversions), drivers, and third-party libraries: sequential functions of
floating-point numbers and strings, for which a model of states and steps has nothing to tell apart.
They are listed as `not_modelled` in `PROJECT.json`, each with its reason.

## 6. Plan

1 to 8 are done; 9 is what could still be proved.

1. `FileChunks`, `FileMove`, `FileTransfer`, `ChunkTransfer` with their runs; `CommandQueue`.
2. Proofs of `TypeCorrect`, `QueueListsAll`, `NoFileTwice`.
3. `Agent` and `TransmitQueue`; proofs of their safety.
4. `MessageRing` and `Forward`; proofs for every size of the ring, and the refinement.
5. `Slip`, `Wire`, `Tunnel`; proofs for every packet and any number of damaged octets, and the refinement.
6. Proofs for `ChunkTransfer` and `CommandQueue`.
7. `Nodes`: the stale index of a node, with its proof.
8. `TransferInvariant`: `ProgressOnDisk`, `NeverLost`, `DeliveredIntact`, `CompleteIsTrue` and the refinement of
   `FileMove`, while no id is taken that is still spoken of; that there are ids enough.
9. A weaker hypothesis than `TakesUnused`: on links in order an id may be taken again once the CANCEL is under way, if what
   the receiver has answered by then is told apart. And more restarts of the sender.
