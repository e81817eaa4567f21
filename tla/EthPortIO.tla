----------------------------- MODULE EthPortIO -----------------------------
(***************************************************************************)
(* EthPortIO.c: the table of Ethernet ports, the message queue and the     *)
(* receiver thread of each port, and the calls of the main thread on them. *)
(*                                                                         *)
(* Actors: the main thread, which opens ports, waits for packets and at    *)
(* the end closes everything; one receiver thread per open port; the       *)
(* network, which delivers packets to the sockets.  The kernel objects     *)
(* (socket buffer, POSIX message queue, thread cancellation) are external. *)
(* EthPortSend and a call on a port that is not open leave this state      *)
(* alone, and so does a failing recvfrom: its -1 becomes a huge length,    *)
(* which mq_send refuses.                                                  *)
(***************************************************************************)
EXTENDS Integers, Sequences

CONSTANTS
  Names,            \* names of Ethernet interfaces
  NoName,           \* portName of an unused slot: the empty string
  MaxEthPortCount,  \* MAX_ETH_PORT_COUNT
  MqMaxMsg,         \* messages a POSIX queue holds (mq_maxmsg)
  SockBuf,          \* packets a socket buffer holds
  Filtering,        \* EnableBroadcastPacketFiltering, cleared by -f
  Promiscuous,      \* PromiscuousModeEnabled, set by -p
  BindFilters,      \* SO_BINDTODEVICE keeps other interfaces' packets out
  MaxArrivals       \* bound: packets seen on the network in one run

ASSUME EthPortIOAssumption ==
  /\ NoName \notin Names
  /\ MaxEthPortCount \in Nat \ {0}
  /\ MqMaxMsg \in Nat \ {0}
  /\ SockBuf \in Nat \ {0}
  /\ {Filtering, Promiscuous, BindFilters} \subseteq BOOLEAN
  /\ MaxArrivals \in Nat

VARIABLES
  pc,        \* the call the main thread is in, and how far it is
  cur,       \* portIdx of that call
  table,     \* EthPortInfoTable
  count,     \* EthPortCount
  rx,        \* where the receiver thread of each slot is
  cancel,    \* pthread_cancel has been called on it
  held,      \* what its pkt buffer holds after recvfrom: no packet or one
  sockbuf,   \* packets in the buffer of each slot's socket
  mq,        \* packets in each slot's message queue
  arrivals,  \* packets seen on the network so far (bounded)
  received   \* history: packets handed to the main thread, per slot

mainVars == <<pc, cur, table, count>>
rxVars   == <<rx, cancel, held>>
vars     == <<mainVars, rxVars, sockbuf, mq, arrivals, received>>

Slots == 0 .. MaxEthPortCount - 1

\* What isPacketToBeFiltered and the address check tell apart: an ordinary
\* packet for this host, a background protocol (ARP, LLDP, ...), another
\* host's packet.
Kinds   == {"plain", "background", "foreign"}
Packets == [id : 1 .. MaxArrivals, on : Names, kind : Kinds]

Unused == [portName |-> NoName, socket |-> "closed", mqRcv |-> FALSE, mqSend |-> FALSE,
           thread |-> "none"]

Init ==
  /\ pc = "idle"
  /\ cur = 0
  /\ table = [i \in Slots |-> Unused]
  /\ count = 0
  /\ rx = [i \in Slots |-> "none"]
  /\ cancel = [i \in Slots |-> FALSE]
  /\ held = [i \in Slots |-> <<>>]
  /\ sockbuf = [i \in Slots |-> <<>>]
  /\ mq = [i \in Slots |-> <<>>]
  /\ arrivals = 0
  /\ received = [i \in Slots |-> <<>>]

-----------------------------------------------------------------------------
(* ethPortIdxFindByName and ethPortClose.                                  *)

\* Mutant of FoundAt: the search stops one slot early.
FoundAtShort(i, name) == i \in Slots /\ i < count - 1 /\ table[i].portName = name

\* The slots in use are 0 .. EthPortCount-1.
FoundAt(i, name) == i \in Slots /\ i < count /\ table[i].portName = name
IsOpen(name) == \E i \in Slots : FoundAt(i, name)

\* The socket and the queue go, with the packets in them.
CloseEntry(i) ==
  /\ table' = [table EXCEPT ![i] = Unused]
  /\ sockbuf' = [sockbuf EXCEPT ![i] = <<>>]
  /\ mq' = [mq EXCEPT ![i] = <<>>]

-----------------------------------------------------------------------------
(* EthPortOpen.  A port that is open already is only looked up.            *)

\* The slot is at the end of the table, but nothing compares EthPortCount with
\* MAX_ETH_PORT_COUNT: the name is written past the table.
TableOverrun(name) ==
  /\ pc = "idle"
  /\ ~IsOpen(name)
  /\ count \notin Slots
  /\ pc' = "overrun"
  /\ UNCHANGED <<cur, table, count, rxVars, sockbuf, mq, arrivals, received>>

\* socket(AF_PACKET, SOCK_RAW, ETH_P_ALL): from here on it captures packets.
OpenSocket(name) ==
  /\ pc = "idle"
  /\ ~IsOpen(name)
  /\ count \in Slots
  /\ table' = [table EXCEPT ![count].portName = name, ![count].socket = "unbound"]
  /\ pc' = "unbound"
  /\ UNCHANGED <<cur, count, rxVars, sockbuf, mq, arrivals, received>>

SocketFails(name) ==
  /\ pc = "idle"
  /\ ~IsOpen(name)
  /\ count \in Slots
  /\ table' = [table EXCEPT ![count].portName = name]
  /\ UNCHANGED <<pc, cur, count, rxVars, sockbuf, mq, arrivals, received>>

\* The ioctl calls and setsockopt(SO_BINDTODEVICE) succeed.
BindDevice ==
  /\ pc = "unbound"
  /\ table' = [table EXCEPT ![count].socket = "bound"]
  /\ pc' = "bound"
  /\ UNCHANGED <<cur, count, rxVars, sockbuf, mq, arrivals, received>>

\* mq_open(O_CREAT | O_RDONLY): the end the main thread reads.
OpenRcvQueue ==
  /\ pc = "bound"
  /\ table' = [table EXCEPT ![count].mqRcv = TRUE]
  /\ pc' = "rcvqueue"
  /\ UNCHANGED <<cur, count, rxVars, sockbuf, mq, arrivals, received>>

\* mq_open(O_WRONLY | O_NONBLOCK): the end the receiver writes.
OpenSendQueue ==
  /\ pc = "rcvqueue"
  /\ table' = [table EXCEPT ![count].mqSend = TRUE]
  /\ pc' = "queues"
  /\ UNCHANGED <<cur, count, rxVars, sockbuf, mq, arrivals, received>>

\* Mutant of OpenFails: the port is not closed when only its second mq_open fails.
OpenFailsUncleaned ==
  /\ pc \in {"unbound", "bound", "rcvqueue"}
  /\ pc' = "idle"
  /\ IF pc = "rcvqueue" THEN UNCHANGED <<table, sockbuf, mq>> ELSE CloseEntry(count)
  /\ UNCHANGED <<cur, count, rxVars, arrivals, received>>

\* Mutant of OpenFails: EthPortCount is taken back although not yet advanced.
OpenFailsUncounts ==
  /\ pc \in {"unbound", "bound", "rcvqueue"}
  /\ pc' = "idle"
  /\ CloseEntry(count)
  /\ count' = count - 1
  /\ UNCHANGED <<cur, rxVars, arrivals, received>>

\* A step after socket() fails; what was opened so far is closed.
OpenFails ==
  /\ pc \in {"unbound", "bound", "rcvqueue"}
  /\ pc' = "idle"
  /\ CloseEntry(count)
  /\ UNCHANGED <<cur, count, rxVars, arrivals, received>>

\* pthread_create succeeds.
StartReceiver ==
  /\ pc = "queues"
  /\ table' = [table EXCEPT ![count].thread = "running"]
  /\ rx' = [rx EXCEPT ![count] = "recvfrom"]
  /\ count' = count + 1
  /\ pc' = "idle"
  /\ UNCHANGED <<cur, cancel, held, sockbuf, mq, arrivals, received>>

\* pthread_create fails with a positive error number, which the test
\* (0 > retVal) misses: the port counts as open.  pThread is then unspecified:
\* still -1, or the handle of a thread that does not exist.
StartReceiverFails ==
  /\ pc = "queues"
  /\ \E handle \in {"none", "stale"} :
       table' = [table EXCEPT ![count].thread = handle]
  /\ count' = count + 1
  /\ pc' = "idle"
  /\ UNCHANGED <<cur, rxVars, sockbuf, mq, arrivals, received>>

-----------------------------------------------------------------------------
(* EthPortReceive, EthPortReceiveAny and EthPortCloseAll.                  *)

EthPortReceive(name) ==
  /\ pc = "idle"
  /\ \E i \in Slots : FoundAt(i, name) /\ cur' = i
  /\ pc' = "receive"
  /\ UNCHANGED <<table, count, rxVars, sockbuf, mq, arrivals, received>>

EthPortReceiveAny ==
  /\ pc = "idle"
  /\ cur' = 0
  /\ pc' = "scan"
  /\ UNCHANGED <<table, count, rxVars, sockbuf, mq, arrivals, received>>

Reading == pc = "receive" \/ (pc = "scan" /\ cur < count)

\* mq_timedreceive returns the oldest packet of the queue.
TakePacket ==
  /\ Reading
  /\ mq[cur] # <<>>
  /\ received' = [received EXCEPT ![cur] = Append(@, Head(mq[cur]))]
  /\ mq' = [mq EXCEPT ![cur] = Tail(@)]
  /\ pc' = "idle"
  /\ UNCHANGED <<cur, table, count, rxVars, sockbuf, arrivals>>

\* Mutant of TimedOut: mq_receive, which has no timeout.
NeverTimesOut == FALSE

\* mq_timedreceive gives up on an empty queue, sooner or later.
TimedOut == mq[cur] = <<>>

ReceiveTimeout ==
  /\ pc = "receive"
  /\ TimedOut
  /\ pc' = "idle"
  /\ UNCHANGED <<cur, table, count, rxVars, sockbuf, mq, arrivals, received>>

\* EthPortReceiveAny waits for 0 seconds on each port in turn.
ScanNext ==
  /\ pc = "scan"
  /\ cur < count
  /\ mq[cur] = <<>>
  /\ cur' = cur + 1
  /\ UNCHANGED <<pc, table, count, rxVars, sockbuf, mq, arrivals, received>>

ScanEnd ==
  /\ pc = "scan"
  /\ cur >= count
  /\ pc' = "idle"
  /\ UNCHANGED <<cur, table, count, rxVars, sockbuf, mq, arrivals, received>>

EthPortCloseAll ==
  /\ pc = "idle"
  /\ cur' = 0
  /\ pc' = "closing"
  /\ UNCHANGED <<table, count, rxVars, sockbuf, mq, arrivals, received>>

\* Mutant of ClosePort: the thread is not cancelled.
ClosePortUncancelled ==
  /\ pc = "closing"
  /\ cur < count
  /\ cur' = cur + 1
  /\ CloseEntry(cur)
  /\ UNCHANGED <<pc, count, rxVars, arrivals, received>>

\* ethPortClose: pthread_cancel asks the thread to stop and does not wait.
ClosePort ==
  /\ pc = "closing"
  /\ cur < count
  /\ cancel' = [cancel EXCEPT ![cur] = (table[cur].thread = "running")]
  /\ cur' = cur + 1
  /\ CloseEntry(cur)
  /\ UNCHANGED <<pc, count, rx, held, arrivals, received>>

\* pthread_cancel on the handle of a thread that does not exist.
CancelCrashes ==
  /\ pc = "closing"
  /\ cur < count
  /\ table[cur].thread = "stale"
  /\ pc' = "crashed"
  /\ UNCHANGED <<cur, table, count, rxVars, sockbuf, mq, arrivals, received>>

\* main() closes the log and the report file, and is about to exit.
CloseLogs ==
  /\ pc = "closing"
  /\ cur >= count
  /\ pc' = "closed"
  /\ UNCHANGED <<cur, table, count, rxVars, sockbuf, mq, arrivals, received>>

-----------------------------------------------------------------------------
(* ReceiverPthreadFunc, the thread of slot i.  Its cancellation points are *)
(* recvfrom and mq_send.                                                   *)

Alive == pc \notin {"overrun", "crashed"}

RecvFrom(i) ==
  /\ Alive
  /\ rx[i] = "recvfrom"
  /\ ~cancel[i]
  /\ sockbuf[i] # <<>>
  /\ held' = [held EXCEPT ![i] = <<Head(sockbuf[i])>>]
  /\ sockbuf' = [sockbuf EXCEPT ![i] = Tail(@)]
  /\ rx' = [rx EXCEPT ![i] = "inspect"]
  /\ UNCHANGED <<mainVars, cancel, mq, arrivals, received>>

\* isPacketToBeFiltered, and the check of the destination address.
Discarded(pkt) ==
  \/ Promiscuous /\ pkt.kind = "foreign"
  \/ Filtering /\ pkt.kind = "background"

DiscardPacket(i) ==
  /\ Alive
  /\ rx[i] = "inspect"
  /\ Discarded(held[i][1])
  /\ held' = [held EXCEPT ![i] = <<>>]
  /\ rx' = [rx EXCEPT ![i] = "recvfrom"]
  /\ UNCHANGED <<mainVars, cancel, sockbuf, mq, arrivals, received>>

\* Mutant of QueuePacket: the packet is put before those already queued, as
\* with a higher mq_send priority.
QueuePacketFirst(i) ==
  /\ Alive
  /\ rx[i] = "inspect"
  /\ ~cancel[i]
  /\ ~Discarded(held[i][1])
  /\ mq' = [mq EXCEPT ![i] = IF Len(@) < MqMaxMsg THEN held[i] \o @ ELSE @]
  /\ held' = [held EXCEPT ![i] = <<>>]
  /\ rx' = [rx EXCEPT ![i] = "recvfrom"]
  /\ UNCHANGED <<mainVars, cancel, sockbuf, arrivals, received>>

\* Mutant of QueuePacket: the packet is kept for another try after a success.
QueuePacketAgain(i) ==
  /\ Alive
  /\ rx[i] = "inspect"
  /\ ~cancel[i]
  /\ ~Discarded(held[i][1])
  /\ mq' = [mq EXCEPT ![i] = IF Len(@) < MqMaxMsg THEN @ \o held[i] ELSE @]
  /\ UNCHANGED <<mainVars, rxVars, sockbuf, arrivals, received>>

\* Mutant of QueuePacket: the thread returns when mq_send fails.
QueuePacketOrQuit(i) ==
  /\ Alive
  /\ rx[i] = "inspect"
  /\ ~cancel[i]
  /\ ~Discarded(held[i][1])
  /\ mq' = [mq EXCEPT ![i] = IF Len(@) < MqMaxMsg THEN @ \o held[i] ELSE @]
  /\ held' = [held EXCEPT ![i] = <<>>]
  /\ rx' = [rx EXCEPT ![i] = IF Len(mq[i]) < MqMaxMsg THEN "recvfrom" ELSE "dead"]
  /\ UNCHANGED <<mainVars, cancel, sockbuf, arrivals, received>>

\* mq_send: the queue is open with O_NONBLOCK, so a packet that finds it full
\* is dropped.
QueuePacket(i) ==
  /\ Alive
  /\ rx[i] = "inspect"
  /\ ~cancel[i]
  /\ ~Discarded(held[i][1])
  /\ mq' = [mq EXCEPT ![i] = IF Len(@) < MqMaxMsg THEN @ \o held[i] ELSE @]
  /\ held' = [held EXCEPT ![i] = <<>>]
  /\ rx' = [rx EXCEPT ![i] = "recvfrom"]
  /\ UNCHANGED <<mainVars, cancel, sockbuf, arrivals, received>>

\* The cancelled thread reaches a cancellation point.
Stop(i) ==
  /\ Alive
  /\ cancel[i]
  /\ \/ rx[i] = "recvfrom"
     \/ rx[i] = "inspect" /\ ~Discarded(held[i][1])
  /\ held' = [held EXCEPT ![i] = <<>>]
  /\ rx' = [rx EXCEPT ![i] = "dead"]
  /\ UNCHANGED <<mainVars, cancel, sockbuf, mq, arrivals, received>>

-----------------------------------------------------------------------------
(* The network.                                                            *)

\* The socket of slot i captures what interface name sees: of an unbound
\* packet socket, everything.
Captures(i, name) ==
  \/ table[i].socket = "unbound"
  \/ table[i].socket = "bound" /\ (BindFilters => table[i].portName = name)

\* A packet reaches the sockets that capture it and have room.
Arrive(name, kind) ==
  /\ Alive
  /\ arrivals < MaxArrivals
  /\ arrivals' = arrivals + 1
  /\ LET pkt == [id |-> arrivals + 1, on |-> name, kind |-> kind]
     IN sockbuf' = [i \in Slots |-> IF Captures(i, name) /\ Len(sockbuf[i]) < SockBuf
                                    THEN Append(sockbuf[i], pkt) ELSE sockbuf[i]]
  /\ UNCHANGED <<mainVars, rxVars, mq, received>>

-----------------------------------------------------------------------------
\* The calls packet.c and main() make ...
Call ==
  \/ \E name \in Names : \/ TableOverrun(name) \/ OpenSocket(name) \/ SocketFails(name)
                         \/ EthPortReceive(name)
  \/ EthPortReceiveAny \/ EthPortCloseAll

\* ... and how they go on.
Continue ==
  \/ BindDevice \/ OpenRcvQueue \/ OpenSendQueue \/ OpenFails
  \/ StartReceiver \/ StartReceiverFails
  \/ TakePacket \/ ReceiveTimeout \/ ScanNext \/ ScanEnd
  \/ ClosePort \/ CancelCrashes \/ CloseLogs

Receiver(i) == RecvFrom(i) \/ DiscardPacket(i) \/ QueuePacket(i) \/ Stop(i)

Network == \E name \in Names, kind \in Kinds : Arrive(name, kind)

Next == Call \/ Continue \/ Network \/ \E i \in Slots : Receiver(i)

Spec == Init /\ [][Next]_vars

\* The operating system runs every thread, and a timed wait expires.  No call
\* has to be made, and no packet has to arrive.
FairSpec == Spec /\ WF_vars(Continue) /\ \A i \in Slots : WF_vars(Receiver(i))

-----------------------------------------------------------------------------
TypeOK ==
  /\ pc \in {"idle", "unbound", "bound", "rcvqueue", "queues", "receive", "scan", "closing",
             "closed", "overrun", "crashed"}
  /\ cur \in 0 .. MaxEthPortCount
  /\ table \in [Slots -> [portName : Names \cup {NoName},
                          socket : {"closed", "unbound", "bound"},
                          mqRcv : BOOLEAN, mqSend : BOOLEAN,
                          thread : {"none", "running", "stale"}]]
  /\ count \in 0 .. MaxEthPortCount
  /\ rx \in [Slots -> {"none", "recvfrom", "inspect", "dead"}]
  /\ cancel \in [Slots -> BOOLEAN]
  /\ held \in [Slots -> Seq(Packets)]
  /\ sockbuf \in [Slots -> Seq(Packets)]
  /\ mq \in [Slots -> Seq(Packets)]
  /\ arrivals \in 0 .. MaxArrivals
  /\ received \in [Slots -> Seq(Packets)]

Opening == pc \in {"unbound", "bound", "rcvqueue", "queues"}
Ending  == pc \in {"closing", "closed", "crashed"}

\* Until the end every slot below EthPortCount is a fully opened port, each
\* interface has one slot, and whoever finds a name finds usable descriptors:
\* EthPortReceive and EthPortSend use them unchecked.
OpenPortsUsable ==
  ~Ending =>
    \A i \in Slots : i < count =>
      /\ table[i].portName \in Names
      /\ table[i].socket = "bound" /\ table[i].mqRcv /\ table[i].mqSend
      /\ \A j \in Slots : j < count /\ table[j].portName = table[i].portName => j = i

Released(i) ==
  /\ table[i].socket = "closed" /\ ~table[i].mqRcv /\ ~table[i].mqSend
  /\ table[i].thread = "none"
  /\ sockbuf[i] = <<>> /\ mq[i] = <<>>

\* An open that fails halfway leaks nothing: a slot from EthPortCount on holds
\* no socket, queue or thread, so the next open of the slot starts clean, and
\* no packet of the failed attempt is handed to the next owner of the slot.
FailedOpenLeaksNothing ==
  \A i \in Slots : i > count \/ (i = count /\ ~Opening) => Released(i) /\ rx[i] = "none"

\* Once the run has closed its ports nothing is left behind, and no receiver
\* goes on for ever.
CloseReleasesAll ==
  pc = "closed" => \A i \in Slots : Released(i) /\ (rx[i] \in {"none", "dead"} \/ cancel[i])

\* The packets of a slot, from the oldest handed over to the youngest captured.
Pipeline(i) == received[i] \o mq[i] \o held[i] \o sockbuf[i]

\* The script sees the packets of a port in the order in which they reached
\* it, none of them twice, through socket buffer, thread and message queue.
InOrder ==
  \A i \in Slots : LET s == Pipeline(i) IN
    \A j, k \in DOMAIN s : j < k => s[j].id < s[k].id

Ids(s) == [n \in DOMAIN s |-> s[n].id]

\* Every slot of the table implements a LossyFifo path.
Fifo == INSTANCE LossyFifo WITH
  Paths <- Slots, captured <- arrivals,
  queue <- [i \in Slots |-> Ids(mq[i] \o held[i] \o sockbuf[i])],
  received <- [i \in Slots |-> Ids(received[i])]
RefinesLossyFifo == Fifo!Spec

\* The ports that count as open; EthPortCloseAll goes through them from slot 0.
OpenNames ==
  LET first == IF Ending THEN cur ELSE 0
  IN [n \in 1 .. count - first |-> table[first + n - 1].portName]

\* The slots, threads and descriptors together are what the script engine takes
\* the ports to be: a port is open for the engine only when it can be read and
\* sent on, its queue starts empty, loses nothing it has taken, and is not
\* disturbed by another port that is opened, fails to open or is read.
Queues == INSTANCE PortQueues WITH
  Messages <- Packets, Capacity <- MqMaxMsg, open <- OpenNames,
  queue <- [p \in Names |-> IF \E i \in Slots : FoundAt(i, p)
                            THEN mq[CHOOSE i \in Slots : FoundAt(i, p)] ELSE <<>>]
RefinesPortQueues == Queues!Spec

\* A call on the ports returns, whatever the network does: a wait for a packet
\* ends with a packet or a timeout, a scan comes to its end.
CallsReturn ==
  pc # "idle" ~> pc \in {"idle", "closed", "overrun", "crashed"}

\* As long as its thread runs, a port's socket is read, also while the queue
\* is full and nobody takes packets out of it.
SocketsAreRead ==
  \A i \in Slots : rx[i] # "none" /\ sockbuf[i] # <<>> ~> sockbuf[i] = <<>> \/ ~Alive

\* A receiver that was told to stop does stop, wherever it was.
ReceiversEnd ==
  pc = "closed" ~> \A i \in Slots : rx[i] \in {"none", "dead"}

-----------------------------------------------------------------------------
(* What the documentation and the comments say, and the code does not do.  *)

\* README.md:43 "receives a specified packet sequence from a specified
\* interface": what the script receives on a port was seen by its interface.
RightInterface ==
  \A i \in Slots : \A n \in DOMAIN received[i] :
    ~Ending => received[i][n].on = table[i].portName
=============================================================================
