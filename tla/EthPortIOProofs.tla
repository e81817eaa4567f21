-------------------------- MODULE EthPortIOProofs --------------------------
(***************************************************************************)
(* What holds of the port table, its queues and its receiver threads for   *)
(* every number of slots and interfaces, every queue length and any number *)
(* of packets.                                                             *)
(***************************************************************************)
EXTENDS EthPortIO, SequenceTheorems, TLAPS

-----------------------------------------------------------------------------
(* Type correctness.                                                       *)

Entries == [portName : Names \cup {NoName}, socket : {"closed", "unbound", "bound"},
            mqRcv : BOOLEAN, mqSend : BOOLEAN, thread : {"none", "running", "stale"}]

\* TypeOK is inductive with this: a port is opened in a slot of the table, and
\* a receive waits at a slot in use.
CallInv ==
  /\ Opening => count < MaxEthPortCount
  /\ pc = "receive" => cur < count

\* An unused slot is a table entry.
LEMMA UnusedIsEntry == Unused \in Entries
  BY DEF Unused, Entries

\* Closing a slot keeps the types of what it resets.
LEMMA CloseEntryType ==
  ASSUME TypeOK, NEW i \in Slots, CloseEntry(i)
  PROVE  /\ table' \in [Slots -> Entries]
         /\ sockbuf' \in [Slots -> Seq(Packets)]
         /\ mq' \in [Slots -> Seq(Packets)]
  BY UnusedIsEntry DEF TypeOK, CloseEntry, Entries

\* A field of a table entry is assigned a value of its type.
LEMMA TableUpdate ==
  ASSUME NEW t \in [Slots -> Entries], NEW i \in Slots
  PROVE  /\ \A name \in Names : [t EXCEPT ![i].portName = name] \in [Slots -> Entries]
         /\ \A s \in {"closed", "unbound", "bound"} :
              [t EXCEPT ![i].socket = s] \in [Slots -> Entries]
         /\ \A b \in BOOLEAN : [t EXCEPT ![i].mqRcv = b] \in [Slots -> Entries]
         /\ \A b \in BOOLEAN : [t EXCEPT ![i].mqSend = b] \in [Slots -> Entries]
         /\ \A h \in {"none", "running", "stale"} :
              [t EXCEPT ![i].thread = h] \in [Slots -> Entries]
  BY DEF Entries

\* The initial state is well typed.
LEMMA InitType == Init => TypeOK /\ CallInv
  BY EthPortIOAssumption, UnusedIsEntry DEF Init, TypeOK, CallInv, Opening, Entries

\* Opening a port keeps every type.
LEMMA OpeningType ==
  ASSUME TypeOK, CallInv,
         \/ \E name \in Names : TableOverrun(name) \/ OpenSocket(name) \/ SocketFails(name)
         \/ BindDevice \/ OpenRcvQueue \/ OpenSendQueue \/ OpenFails
         \/ StartReceiver \/ StartReceiverFails
  PROVE  TypeOK' /\ CallInv'
<1> USE EthPortIOAssumption DEF CallInv, Opening
<1>1. table \in [Slots -> Entries] /\ count \in 0 .. MaxEthPortCount
  BY DEF TypeOK, Entries
<1>2. CASE \E name \in Names : TableOverrun(name)
  BY <1>2 DEF TableOverrun, TypeOK, rxVars
<1>3. ASSUME NEW name \in Names, OpenSocket(name)
      PROVE  TypeOK' /\ CallInv'
  <2> DEFINE named == [table EXCEPT ![count].portName = name]
  <2>1. named \in [Slots -> Entries]
    BY <1>1, <1>3, TableUpdate DEF OpenSocket
  <2>2. table' = [named EXCEPT ![count].socket = "unbound"]
    BY <1>3 DEF OpenSocket
  <2> HIDE DEF named
  <2>3. table' \in [Slots -> Entries]
    <3>1. count \in Slots
      BY <1>3 DEF OpenSocket
    <3>2. [named EXCEPT ![count].socket = "unbound"] \in [Slots -> Entries]
      BY <2>1, <3>1, TableUpdate
    <3>3. QED
      BY <2>2, <3>2
  <2>4. count < MaxEthPortCount
    <3>1. count \in Slots
      BY <1>3 DEF OpenSocket
    <3>2. QED
      BY <3>1, <1>1 DEF Slots
  <2>5. QED
    BY <1>3, <2>3, <2>4 DEF OpenSocket, TypeOK, Entries, rxVars
<1>4. ASSUME NEW name \in Names, SocketFails(name)
      PROVE  TypeOK' /\ CallInv'
  <2>1. table' \in [Slots -> Entries]
    BY <1>1, <1>4, TableUpdate DEF SocketFails
  <2>2. QED
    BY <1>4, <2>1 DEF SocketFails, TypeOK, Entries, rxVars
<1>5. ASSUME Opening
      PROVE  count \in Slots
  BY <1>1, <1>5 DEF Slots
<1>6. CASE BindDevice
  <2>1. table' \in [Slots -> Entries]
    BY <1>1, <1>5, <1>6, TableUpdate DEF BindDevice
  <2>2. QED
    BY <1>6, <2>1 DEF BindDevice, TypeOK, Entries, rxVars
<1>7. CASE OpenRcvQueue
  <2>1. table' \in [Slots -> Entries]
    BY <1>1, <1>5, <1>7, TableUpdate DEF OpenRcvQueue
  <2>2. QED
    BY <1>7, <2>1 DEF OpenRcvQueue, TypeOK, Entries, rxVars
<1>8. CASE OpenSendQueue
  <2>1. table' \in [Slots -> Entries]
    BY <1>1, <1>5, <1>8, TableUpdate DEF OpenSendQueue
  <2>2. QED
    BY <1>8, <2>1 DEF OpenSendQueue, TypeOK, Entries, rxVars
<1>9. CASE OpenFails
  BY <1>5, <1>9, CloseEntryType DEF OpenFails, TypeOK, Entries, rxVars
<1>10. CASE StartReceiver
  <2>1. table' \in [Slots -> Entries]
    BY <1>1, <1>5, <1>10, TableUpdate DEF StartReceiver
  <2>2. QED
    BY <1>5, <1>10, <2>1 DEF StartReceiver, TypeOK, Entries
<1>11. CASE StartReceiverFails
  <2>1. PICK handle \in {"none", "stale"} : table' = [table EXCEPT ![count].thread = handle]
    BY <1>11 DEF StartReceiverFails
  <2>2. table' \in [Slots -> Entries]
    BY <1>1, <1>5, <1>11, <2>1, TableUpdate DEF StartReceiverFails
  <2>3. QED
    BY <1>11, <2>2 DEF StartReceiverFails, TypeOK, Entries, rxVars
<1>12. QED
  BY <1>2, <1>3, <1>4, <1>6, <1>7, <1>8, <1>9, <1>10, <1>11

\* Waiting for packets and closing the ports keeps every type.
LEMMA CallType ==
  ASSUME TypeOK, CallInv,
         \/ \E name \in Names : EthPortReceive(name)
         \/ EthPortReceiveAny \/ TakePacket \/ ReceiveTimeout \/ ScanNext \/ ScanEnd
         \/ EthPortCloseAll \/ ClosePort \/ CancelCrashes \/ CloseLogs
  PROVE  TypeOK' /\ CallInv'
<1> USE EthPortIOAssumption DEF CallInv, Opening
<1>1. CASE \E name \in Names : EthPortReceive(name)
  <2>1. PICK name \in Names, i \in Slots :
          /\ i < count /\ cur' = i /\ pc' = "receive"
          /\ UNCHANGED <<table, count, rxVars, sockbuf, mq, arrivals, received>>
    BY <1>1 DEF EthPortReceive, FoundAt
  <2>2. cur' \in 0 .. MaxEthPortCount /\ cur' < count'
    BY <2>1 DEF Slots
  <2>3. QED
    BY <2>1, <2>2 DEF TypeOK, rxVars
<1>2. CASE EthPortReceiveAny \/ EthPortCloseAll \/ ReceiveTimeout \/ ScanEnd \/ CloseLogs
           \/ CancelCrashes
  BY <1>2 DEF EthPortReceiveAny, EthPortCloseAll, ReceiveTimeout, ScanEnd, CloseLogs,
              CancelCrashes, TypeOK, rxVars
<1>3. ASSUME cur < count
      PROVE  cur \in Slots /\ cur + 1 \in 0 .. MaxEthPortCount
  BY <1>3 DEF TypeOK, Slots
<1>4. CASE TakePacket
  <2>1. cur \in Slots
    BY <1>3, <1>4 DEF TakePacket, Reading
  <2>2. Head(mq[cur]) \in Packets /\ Tail(mq[cur]) \in Seq(Packets)
    BY <1>4, <2>1 DEF TakePacket, TypeOK
  <2>3. received' \in [Slots -> Seq(Packets)] /\ mq' \in [Slots -> Seq(Packets)]
    BY <1>4, <2>1, <2>2 DEF TakePacket, TypeOK
  <2>4. QED
    BY <1>4, <2>3 DEF TakePacket, TypeOK, rxVars
<1>5. CASE ScanNext
  BY <1>3, <1>5 DEF ScanNext, TypeOK, rxVars
<1>6. CASE ClosePort
  <2>1. cur \in Slots /\ cur + 1 \in 0 .. MaxEthPortCount
    BY <1>3, <1>6 DEF ClosePort
  <2>2. QED
    BY <1>6, <2>1, CloseEntryType DEF ClosePort, TypeOK, Entries
<1>7. QED
  BY <1>1, <1>2, <1>4, <1>5, <1>6

\* The receiver threads keep every type.
LEMMA ReceiverType ==
  ASSUME TypeOK, CallInv, NEW i \in Slots, Receiver(i)
  PROVE  TypeOK' /\ CallInv'
<1> USE DEF CallInv, Opening, mainVars
<1>1. CASE RecvFrom(i)
  <2>1. <<Head(sockbuf[i])>> \in Seq(Packets) /\ Tail(sockbuf[i]) \in Seq(Packets)
    BY <1>1 DEF RecvFrom, TypeOK
  <2>2. held' \in [Slots -> Seq(Packets)] /\ sockbuf' \in [Slots -> Seq(Packets)]
    BY <1>1, <2>1 DEF RecvFrom, TypeOK
  <2>3. QED
    BY <1>1, <2>2 DEF RecvFrom, TypeOK
<1>2. CASE DiscardPacket(i)
  BY <1>2 DEF DiscardPacket, TypeOK
<1>3. CASE QueuePacket(i)
  <2>1. mq[i] \o held[i] \in Seq(Packets)
    BY DEF TypeOK
  <2>2. mq' \in [Slots -> Seq(Packets)]
    BY <1>3, <2>1 DEF QueuePacket, TypeOK
  <2>3. QED
    BY <1>3, <2>2 DEF QueuePacket, TypeOK
<1>4. CASE Stop(i)
  BY <1>4 DEF Stop, TypeOK
<1>5. QED
  BY <1>1, <1>2, <1>3, <1>4 DEF Receiver

\* A packet that arrives keeps every type.
LEMMA ArriveType ==
  ASSUME TypeOK, CallInv, NEW name \in Names, NEW kind \in Kinds, Arrive(name, kind)
  PROVE  TypeOK' /\ CallInv'
<1> DEFINE pkt == [id |-> arrivals + 1, on |-> name, kind |-> kind]
<1>1. pkt \in Packets
  BY EthPortIOAssumption DEF Packets, Arrive, TypeOK
<1>2. sockbuf' = [i \in Slots |-> IF Captures(i, name) /\ Len(sockbuf[i]) < SockBuf
                                  THEN Append(sockbuf[i], pkt) ELSE sockbuf[i]]
  BY DEF Arrive
<1> HIDE DEF pkt
<1>3. sockbuf' \in [Slots -> Seq(Packets)]
  BY <1>1, <1>2 DEF TypeOK
<1>4. QED
  BY <1>3, EthPortIOAssumption DEF Arrive, TypeOK, CallInv, Opening, mainVars, rxVars

\* TypeOK and CallInv are inductive.
LEMMA NextType == TypeOK /\ CallInv /\ [Next]_vars => TypeOK' /\ CallInv'
<1> SUFFICES ASSUME TypeOK, CallInv, [Next]_vars
             PROVE  TypeOK' /\ CallInv'
  OBVIOUS
<1>1. CASE Call
  BY <1>1, OpeningType, CallType DEF Call
<1>2. CASE Continue
  BY <1>2, OpeningType, CallType DEF Continue
<1>3. CASE Network
  BY <1>3, ArriveType DEF Network
<1>4. CASE \E i \in Slots : Receiver(i)
  BY <1>4, ReceiverType
<1>5. CASE UNCHANGED vars
  BY <1>5 DEF TypeOK, CallInv, Opening, vars, mainVars, rxVars
<1>6. QED
  BY <1>1, <1>2, <1>3, <1>4, <1>5 DEF Next

\* The variables keep their types: EthPortCount and portIdx never leave the
\* table in a step that goes on, and buffers and queues hold packets only.
THEOREM TypeCorrect == Spec => []TypeOK
<1>1. Spec => [](TypeOK /\ CallInv)
  BY InitType, NextType, PTL DEF Spec
<1>2. QED
  BY <1>1, PTL

-----------------------------------------------------------------------------
(* The slots of the table.                                                 *)

\* EthPortCloseAll has closed the slots below this one.
FirstOpen == IF Ending THEN cur ELSE 0

\* A slot that counts as open has its own interface and all its descriptors.
LiveSlots ==
  \A i \in Slots : FirstOpen <= i /\ i < count =>
    /\ table[i].portName \in Names
    /\ table[i].socket = "bound" /\ table[i].mqRcv /\ table[i].mqSend
    /\ \A j \in Slots : FirstOpen <= j /\ j < count /\ table[j].portName = table[i].portName
         => j = i

\* A slot that has been closed is empty, and its thread is told to stop.
ClosedSlots ==
  \A i \in Slots : i < FirstOpen =>
    /\ Released(i) /\ table[i].portName = NoName
    /\ rx[i] \in {"none", "dead"} \/ cancel[i]

\* While a port is opened its slot already has what the steps so far have
\* opened, an interface that no other slot has, and nothing else.
SlotBeingOpened ==
  Opening =>
    /\ table[count].portName \in Names
    /\ \A j \in Slots : j < count => table[j].portName # table[count].portName
    /\ pc \in {"bound", "rcvqueue", "queues"} => table[count].socket = "bound"
    /\ pc \in {"rcvqueue", "queues"} => table[count].mqRcv
    /\ pc = "queues" => table[count].mqSend
    /\ mq[count] = <<>> /\ rx[count] = "none"

\* A thread that exists has its handle in the table until it is cancelled, and
\* only the threads of closed slots are.
ThreadsKnown ==
  \A i \in Slots : /\ rx[i] # "none" => table[i].thread = "running" \/ cancel[i]
                   /\ cancel[i] => i < FirstOpen

\* What OpenPortsUsable, FailedOpenLeaksNothing and CloseReleasesAll rest on.
SlotsInv ==
  /\ LiveSlots
  /\ ClosedSlots
  /\ SlotBeingOpened
  /\ ThreadsKnown
  /\ FailedOpenLeaksNothing
  /\ FirstOpen <= count
  /\ pc = "closed" => FirstOpen >= count

\* Between two calls of EthPortOpen the open slot is in the table.
LEMMA OpeningInTable ==
  ASSUME TypeOK, CallInv
  PROVE  Opening => count \in Slots
  BY EthPortIOAssumption DEF CallInv, TypeOK, Slots

\* A closed slot is below those that count as open, a free one above.
LEMMA SlotOrder ==
  ASSUME TypeOK
  PROVE  FirstOpen \in Nat /\ count \in Nat /\ Slots \subseteq Nat
  BY EthPortIOAssumption DEF TypeOK, FirstOpen, Slots

\* All that a step may change without touching SlotsInv: packets under way in
\* slots that count as open, and what threads do that are there.
LEMMA SlotsKept ==
  ASSUME TypeOK, CallInv, SlotsInv, UNCHANGED <<table, count, cancel>>,
         UNCHANGED FirstOpen, pc' = pc \/ (~Opening /\ ~Opening'), pc' = "closed" => pc = "closed",
         \A i \in Slots : Released(i) => mq'[i] = mq[i] /\ sockbuf'[i] = sockbuf[i],
         Opening => mq'[count] = mq[count],
         \A i \in Slots : rx[i] = "none" <=> rx'[i] = "none",
         \A i \in Slots : rx[i] = "dead" => rx'[i] = "dead"
  PROVE  SlotsInv'
<1> USE DEF SlotsInv
<1>1. \A i \in Slots : Released(i) => Released(i)'
  BY DEF Released
<1>2. LiveSlots'
  BY DEF LiveSlots
<1>3. ClosedSlots'
  BY <1>1 DEF ClosedSlots
<1>4. SlotBeingOpened'
  BY OpeningInTable DEF SlotBeingOpened, Opening
<1>5. ThreadsKnown'
  BY DEF ThreadsKnown
<1>6. FailedOpenLeaksNothing'
  BY <1>1 DEF FailedOpenLeaksNothing, Opening
<1>7. QED
  BY <1>2, <1>3, <1>4, <1>5, <1>6

\* A call that starts, waits or returns, with all ports as they are.
LEMMA CallSlots ==
  ASSUME TypeOK, CallInv, SlotsInv,
         \/ \E name \in Names : TableOverrun(name) \/ EthPortReceive(name)
         \/ EthPortReceiveAny \/ TakePacket \/ ReceiveTimeout \/ ScanNext \/ ScanEnd
         \/ CancelCrashes
  PROVE  SlotsInv'
<1>1. CASE TakePacket
  <2>1. cur \in Slots /\ cur < count /\ pc' = "idle" /\ pc \in {"receive", "scan"}
    BY <1>1, EthPortIOAssumption DEF TakePacket, Reading, CallInv, TypeOK, Slots
  <2>2. UNCHANGED <<table, count, rx, cancel, sockbuf>>
    BY <1>1 DEF TakePacket, rxVars
  <2>3. \A i \in Slots : i # cur => mq'[i] = mq[i]
    BY <1>1 DEF TakePacket, TypeOK
  <2>4. mq[cur] # <<>>
    BY <1>1 DEF TakePacket
  <2>5. UNCHANGED FirstOpen
    BY <2>1 DEF FirstOpen, Ending
  <2>6. QED
    BY <2>1, <2>2, <2>3, <2>4, <2>5, SlotsKept DEF Opening, Released
<1>2. CASE \/ \E name \in Names : TableOverrun(name) \/ EthPortReceive(name)
           \/ EthPortReceiveAny \/ ReceiveTimeout \/ ScanNext \/ ScanEnd \/ CancelCrashes
  <2>1. UNCHANGED <<table, count, rx, cancel, sockbuf, mq>>
    BY <1>2 DEF TableOverrun, EthPortReceive, EthPortReceiveAny, ReceiveTimeout, ScanNext,
                ScanEnd, CancelCrashes, rxVars
  <2>2. UNCHANGED FirstOpen /\ ~Opening /\ ~Opening' /\ pc' # "closed"
    BY <1>2 DEF TableOverrun, EthPortReceive, EthPortReceiveAny, ReceiveTimeout, ScanNext,
                ScanEnd, CancelCrashes, FirstOpen, Ending, Opening
  <2>3. QED
    BY <2>1, <2>2, SlotsKept
<1>3. QED
  BY <1>1, <1>2

\* A receiver thread touches only the queue of a slot that counts as open.
LEMMA ReceiverSlots ==
  ASSUME TypeOK, CallInv, SlotsInv, NEW i \in Slots, Receiver(i)
  PROVE  SlotsInv'
<1>1. rx[i] \in {"recvfrom", "inspect"} /\ UNCHANGED <<pc, cur, table, count, cancel>>
  BY DEF Receiver, RecvFrom, DiscardPacket, QueuePacket, Stop, mainVars
<1>2. UNCHANGED FirstOpen
  BY <1>1 DEF FirstOpen, Ending
<1>3. /\ \A j \in Slots : rx[j] = "none" <=> rx'[j] = "none"
      /\ \A j \in Slots : rx[j] = "dead" => rx'[j] = "dead"
  BY <1>1 DEF Receiver, RecvFrom, DiscardPacket, QueuePacket, Stop, TypeOK
<1>4. \A j \in Slots : j # i => mq'[j] = mq[j] /\ sockbuf'[j] = sockbuf[j]
  BY DEF Receiver, RecvFrom, DiscardPacket, QueuePacket, Stop, TypeOK
<1>5. Opening => count # i /\ mq'[count] = mq[count]
  BY <1>1, <1>4, OpeningInTable DEF SlotsInv, SlotBeingOpened
<1>6. Released(i) => mq'[i] = mq[i] /\ sockbuf'[i] = sockbuf[i]
  <2>1. CASE RecvFrom(i)
    BY <2>1 DEF RecvFrom, Released
  <2>2. CASE DiscardPacket(i) \/ Stop(i)
    BY <2>2 DEF DiscardPacket, Stop
  <2>3. CASE QueuePacket(i)
    <3>1. table[i].thread = "running"
      BY <1>1, <2>3 DEF QueuePacket, SlotsInv, ThreadsKnown
    <3>2. QED
      BY <3>1 DEF Released
  <2>4. QED
    BY <2>1, <2>2, <2>3 DEF Receiver
<1>7. QED
  BY <1>1, <1>2, <1>3, <1>4, <1>5, <1>6, SlotsKept

\* A packet gets into open sockets only.
LEMMA ArriveSlots ==
  ASSUME TypeOK, CallInv, SlotsInv, NEW name \in Names, NEW kind \in Kinds, Arrive(name, kind)
  PROVE  SlotsInv'
<1>1. UNCHANGED <<pc, cur, table, count, rx, cancel, mq>>
  BY DEF Arrive, mainVars, rxVars
<1>2. UNCHANGED FirstOpen
  BY <1>1 DEF FirstOpen, Ending
<1>3. \A i \in Slots : Released(i) => sockbuf'[i] = sockbuf[i]
  BY DEF Arrive, Released, Captures
<1>4. QED
  BY <1>1, <1>2, <1>3, SlotsKept

\* A step that changes nothing but the table entry of the slot being opened,
\* or closes it again.
LEMMA OpenStepSlots ==
  ASSUME TypeOK, CallInv, SlotsInv,
         \/ \E name \in Names : OpenSocket(name) \/ SocketFails(name)
         \/ BindDevice \/ OpenRcvQueue \/ OpenSendQueue \/ OpenFails
  PROVE  SlotsInv'
<1> USE DEF SlotsInv
<1>1. count \in Slots /\ ~Ending /\ ~Ending' /\ UNCHANGED <<count, rx, cancel>>
  BY OpeningInTable
  DEF OpenSocket, SocketFails, BindDevice, OpenRcvQueue, OpenSendQueue, OpenFails, Opening, Ending, rxVars
<1>2. FirstOpen = 0 /\ FirstOpen' = 0
  BY <1>1 DEF FirstOpen
<1>3. \A i \in Slots : i # count =>
        table'[i] = table[i] /\ mq'[i] = mq[i] /\ sockbuf'[i] = sockbuf[i]
  BY <1>1 DEF OpenSocket, SocketFails, BindDevice, OpenRcvQueue, OpenSendQueue, OpenFails, CloseEntry,
              TypeOK
<1>4. rx[count] = "none" /\ mq'[count] = <<>>
  BY <1>1 DEF OpenSocket, SocketFails, BindDevice, OpenRcvQueue, OpenSendQueue, OpenFails, CloseEntry,
              Opening, SlotBeingOpened, FailedOpenLeaksNothing, Released, TypeOK
<1>5. \A i \in Slots : i # count => (Released(i) => Released(i)')
  BY <1>3 DEF Released
<1>6. LiveSlots'
  BY <1>1, <1>2, <1>3, SlotOrder DEF LiveSlots
<1>7. ClosedSlots' /\ ThreadsKnown'
  <2>1. \A i \in Slots : ~(i < FirstOpen')
    BY <1>2, SlotOrder
  <2>2. \A i \in Slots : rx'[i] # "none" => table'[i].thread = "running" \/ cancel'[i]
    BY <1>1, <1>3, <1>4 DEF ThreadsKnown
  <2>3. \A i \in Slots : ~cancel'[i]
    BY <1>1, <1>2, <2>1 DEF ThreadsKnown
  <2>4. QED
    BY <2>1, <2>2, <2>3 DEF ClosedSlots, ThreadsKnown
<1>8. CASE pc' = "idle"
  <2>1. Released(count)'
    <3>1. CASE OpenFails
      BY <1>1, <3>1 DEF OpenFails, CloseEntry, Released, Unused, TypeOK
    <3>2. CASE \E name \in Names : SocketFails(name)
      <4>1. Released(count)
        BY <1>1, <3>2 DEF SocketFails, FailedOpenLeaksNothing, Opening
      <4>2. QED
        BY <1>1, <3>2, <4>1 DEF SocketFails, Released, TypeOK
    <3>3. QED
      BY <1>8, <3>1, <3>2 DEF OpenSocket, BindDevice, OpenRcvQueue, OpenSendQueue
  <2>2. ~Opening'
    BY <1>8 DEF Opening
  <2>3. FailedOpenLeaksNothing'
    BY <1>1, <1>4, <1>5, <2>1, SlotOrder DEF FailedOpenLeaksNothing
  <2>4. QED
    BY <1>1, <1>2, <1>6, <1>7, <1>8, <2>2, <2>3, SlotOrder DEF SlotBeingOpened
<1>9. CASE pc' \in {"unbound", "bound", "rcvqueue", "queues"}
  <2>1. FailedOpenLeaksNothing'
    BY <1>1, <1>5, <1>9, SlotOrder DEF FailedOpenLeaksNothing, Opening
  <2>2. SlotBeingOpened'
    <3>1. CASE \E name \in Names : OpenSocket(name)
      <4>1. PICK name \in Names : OpenSocket(name)
        BY <3>1
      <4>2. \A j \in Slots : j < count => table[j].portName # name
        BY <4>1 DEF OpenSocket, IsOpen, FoundAt
      <4>3. table'[count].portName = name /\ pc' = "unbound"
        <5>1. /\ table' = [table EXCEPT ![count].portName = name, ![count].socket = "unbound"]
              /\ count \in Slots /\ pc' = "unbound"
          BY <4>1 DEF OpenSocket
        <5>2. table \in [Slots -> Entries] /\ table[count] \in Entries
          BY <1>1, <5>1 DEF TypeOK, Entries
        <5>3. QED
          BY <5>1, <5>2 DEF Entries
      <4>4. QED
        BY <1>1, <1>3, <1>4, <4>2, <4>3, SlotOrder DEF SlotBeingOpened
    <3>2. CASE BindDevice
      <4>1. table'[count] = [table[count] EXCEPT !.socket = "bound"] /\ pc' = "bound"
        BY <1>1, <3>2 DEF BindDevice, TypeOK
      <4>2. table[count] \in Entries
        BY <1>1 DEF TypeOK, Entries
      <4>3. table'[count].portName = table[count].portName /\ table'[count].socket = "bound"
        BY <4>1, <4>2 DEF Entries
      <4>4. QED
        BY <1>1, <1>3, <1>4, <3>2, <4>1, <4>3, SlotOrder DEF BindDevice, SlotBeingOpened, Opening
    <3>3. CASE OpenRcvQueue
      <4>1. pc' = "rcvqueue" /\ pc = "bound"
            /\ table'[count] = [table[count] EXCEPT !.mqRcv = TRUE]
        BY <1>1, <3>3 DEF OpenRcvQueue, TypeOK
      <4>2. table[count] \in Entries
        BY <1>1 DEF TypeOK, Entries
      <4>3. /\ table'[count].portName = table[count].portName
            /\ table'[count].socket = table[count].socket
            /\ table'[count].mqRcv
        BY <4>1, <4>2 DEF Entries
      <4>4. QED
        BY <1>1, <1>3, <1>4, <4>1, <4>3, SlotOrder DEF SlotBeingOpened, Opening
    <3>4. CASE OpenSendQueue
      <4>1. pc' = "queues" /\ pc = "rcvqueue"
            /\ table'[count] = [table[count] EXCEPT !.mqSend = TRUE]
        BY <1>1, <3>4 DEF OpenSendQueue, TypeOK
      <4>2. table[count] \in Entries
        BY <1>1 DEF TypeOK, Entries
      <4>3. /\ table'[count].portName = table[count].portName
            /\ table'[count].socket = table[count].socket
            /\ table'[count].mqRcv = table[count].mqRcv
            /\ table'[count].mqSend
        BY <4>1, <4>2 DEF Entries
      <4>4. QED
        BY <1>1, <1>3, <1>4, <4>1, <4>3, SlotOrder DEF SlotBeingOpened, Opening
    <3>5. QED
      BY <1>9, <3>1, <3>2, <3>3, <3>4 DEF SocketFails, OpenFails
  <2>3. QED
    BY <1>1, <1>2, <1>6, <1>7, <1>9, <2>1, <2>2, SlotOrder
<1>10. QED
  BY <1>8, <1>9 DEF OpenSocket, SocketFails, BindDevice, OpenRcvQueue, OpenSendQueue, OpenFails

\* A port whose open has come to its end counts as open, also when it has no
\* receiver thread.
LEMMA StartSlots ==
  ASSUME TypeOK, CallInv, SlotsInv, StartReceiver \/ StartReceiverFails
  PROVE  SlotsInv'
<1> USE DEF SlotsInv
<1>1. /\ count \in Slots /\ pc = "queues" /\ pc' = "idle" /\ count' = count + 1
      /\ UNCHANGED <<cancel, mq, sockbuf>>
  BY OpeningInTable DEF StartReceiver, StartReceiverFails, Opening, rxVars
<1>2. FirstOpen = 0 /\ FirstOpen' = 0 /\ Opening /\ ~Opening'
  BY <1>1 DEF FirstOpen, Ending, Opening
<1>3. PICK handle \in {"running", "none", "stale"} :
        table' = [table EXCEPT ![count].thread = handle]
  BY DEF StartReceiver, StartReceiverFails
<1>4. /\ table'[count].portName = table[count].portName
      /\ table'[count].socket = "bound" /\ table'[count].mqRcv /\ table'[count].mqSend
  <2>1. table[count] \in Entries /\ table'[count] = [table[count] EXCEPT !.thread = handle]
    BY <1>1, <1>3 DEF TypeOK, Entries
  <2>2. table[count].socket = "bound" /\ table[count].mqRcv /\ table[count].mqSend
    BY <1>1, <1>2 DEF SlotBeingOpened
  <2>3. QED
    BY <2>1, <2>2 DEF Entries
<1>5. \A i \in Slots : i # count => table'[i] = table[i] /\ rx'[i] = rx[i]
  BY <1>3 DEF StartReceiver, StartReceiverFails, TypeOK, rxVars
<1>6. \A i \in Slots : i < count' <=> i < count \/ i = count
  BY <1>1, SlotOrder
<1>7. LiveSlots'
  <2>1. table[count].portName \in Names
        /\ \A j \in Slots : j < count => table[j].portName # table[count].portName
    BY <1>2 DEF SlotBeingOpened
  <2>2. \A i \in Slots : FirstOpen <= i /\ FirstOpen' <= i
    BY <1>2, SlotOrder
  <2>3. \A i \in Slots : i < count => i # count
    BY SlotOrder
  <2>4. ASSUME NEW i \in Slots, i < count'
        PROVE  /\ table'[i].portName \in Names
               /\ table'[i].socket = "bound" /\ table'[i].mqRcv /\ table'[i].mqSend
    BY <1>4, <1>5, <1>6, <2>1, <2>2, <2>3, <2>4 DEF LiveSlots
  <2>5. ASSUME NEW i \in Slots, i < count', NEW j \in Slots, j < count',
               table'[j].portName = table'[i].portName
        PROVE  j = i
    <3>1. CASE i = count
      BY <1>4, <1>5, <1>6, <2>1, <2>3, <2>5, <3>1
    <3>2. CASE j = count
      BY <1>4, <1>5, <1>6, <2>1, <2>3, <2>5, <3>2
    <3>3. CASE i # count /\ j # count
      BY <1>5, <1>6, <2>2, <2>5, <3>3 DEF LiveSlots
    <3>4. QED
      BY <3>1, <3>2, <3>3
  <2>6. QED
    BY <2>4, <2>5 DEF LiveSlots
<1>8. ClosedSlots'
  BY <1>2, SlotOrder DEF ClosedSlots
<1>9. ThreadsKnown'
  <2>1. \A i \in Slots : ~cancel'[i]
    BY <1>1, <1>2, SlotOrder DEF ThreadsKnown
  <2>2. rx'[count] # "none" => table'[count].thread = "running"
    <3>1. CASE StartReceiver
      BY <1>1, <3>1 DEF StartReceiver, TypeOK
    <3>2. CASE StartReceiverFails
      BY <1>2, <3>2 DEF StartReceiverFails, rxVars, SlotBeingOpened
    <3>3. QED
      BY <3>1, <3>2
  <2>3. \A i \in Slots : i # count => (rx'[i] # "none" => table'[i].thread = "running")
    BY <1>1, <1>5, <2>1 DEF ThreadsKnown
  <2>4. QED
    BY <2>1, <2>2, <2>3 DEF ThreadsKnown
<1>10. FailedOpenLeaksNothing'
  <2>1. ASSUME NEW i \in Slots, i >= count'
        PROVE  Released(i)' /\ rx'[i] = "none"
    <3>1. i > count /\ i # count
      BY <1>1, <2>1, SlotOrder
    <3>2. Released(i) /\ rx[i] = "none"
      BY <3>1 DEF FailedOpenLeaksNothing
    <3>3. QED
      BY <1>1, <1>5, <3>1, <3>2 DEF Released
  <2>2. QED
    BY <1>1, <2>1, SlotOrder DEF FailedOpenLeaksNothing
<1>11. QED
  BY <1>1, <1>2, <1>7, <1>8, <1>9, <1>10, SlotOrder DEF SlotBeingOpened

\* Closing the ports goes through the table from slot 0, and what it leaves
\* behind is empty slots and threads that have been told to stop.
LEMMA CloseSlots ==
  ASSUME TypeOK, CallInv, SlotsInv, EthPortCloseAll \/ ClosePort \/ CloseLogs
  PROVE  SlotsInv'
<1> USE DEF SlotsInv
<1>1. CASE EthPortCloseAll
  <2>1. /\ UNCHANGED <<table, count, rx, cancel, mq, sockbuf>>
        /\ pc = "idle" /\ pc' = "closing" /\ cur' = 0
    BY <1>1 DEF EthPortCloseAll, rxVars
  <2>2. UNCHANGED FirstOpen
    BY <2>1 DEF FirstOpen, Ending
  <2>3. QED
    BY <2>1, <2>2, SlotsKept DEF Opening
<1>2. CASE CloseLogs
  <2>1. /\ UNCHANGED <<table, count, rx, cancel, mq, sockbuf, cur>>
        /\ pc = "closing" /\ pc' = "closed" /\ cur >= count
    BY <1>2 DEF CloseLogs, rxVars
  <2>2. FirstOpen = cur /\ FirstOpen' = cur /\ ~Opening /\ ~Opening'
    BY <2>1 DEF FirstOpen, Ending, Opening
  <2>3. QED
    BY <2>1, <2>2 DEF LiveSlots, ClosedSlots, SlotBeingOpened, ThreadsKnown,
                      FailedOpenLeaksNothing, Released
<1>3. CASE ClosePort
  <2>1. /\ cur \in Slots /\ cur < count /\ cur' = cur + 1 /\ pc = "closing" /\ pc' = pc
        /\ UNCHANGED <<count, rx>>
        /\ cancel' = [cancel EXCEPT ![cur] = (table[cur].thread = "running")]
        /\ CloseEntry(cur)
    BY <1>3, EthPortIOAssumption DEF ClosePort, TypeOK, Slots
  <2>2. FirstOpen = cur /\ FirstOpen' = cur + 1 /\ ~Opening /\ ~Opening'
    BY <2>1 DEF FirstOpen, Ending, Opening
  <2>3. \A i \in Slots : i # cur => /\ table'[i] = table[i] /\ mq'[i] = mq[i]
                                    /\ sockbuf'[i] = sockbuf[i] /\ cancel'[i] = cancel[i]
    BY <2>1 DEF CloseEntry, TypeOK
  <2>4. \A i \in Slots : i < FirstOpen' <=> i < FirstOpen \/ i = cur
    BY <2>1, <2>2, SlotOrder
  <2>5. \A i \in Slots : FirstOpen' <= i => FirstOpen <= i /\ i # cur
    BY <2>1, <2>2, SlotOrder
  <2>6. \A i \in Slots : i = cur => Released(i)' /\ table'[i].portName = NoName
    <3>1. table'[cur] = Unused /\ mq'[cur] = <<>> /\ sockbuf'[cur] = <<>>
      BY <2>1 DEF CloseEntry, TypeOK
    <3>2. QED
      BY <3>1 DEF Released, Unused
  <2>7. rx[cur] = "none" \/ cancel'[cur]
    <3>1. ~cancel[cur]
      BY <2>1, <2>2, SlotOrder DEF ThreadsKnown
    <3>2. rx[cur] = "none" \/ table[cur].thread = "running"
      BY <2>1, <3>1 DEF ThreadsKnown
    <3>3. QED
      BY <2>1, <3>2 DEF TypeOK
  <2>8. \A i \in Slots : i # cur => (Released(i) => Released(i)')
    BY <2>3 DEF Released
  <2>9. LiveSlots'
    BY <2>1, <2>3, <2>5 DEF LiveSlots
  <2>10. ClosedSlots'
    <3> SUFFICES ASSUME NEW i \in Slots, i < FirstOpen'
                 PROVE  /\ Released(i)' /\ table'[i].portName = NoName
                        /\ rx'[i] \in {"none", "dead"} \/ cancel'[i]
      BY DEF ClosedSlots
    <3>1. CASE i = cur
      BY <2>1, <2>6, <2>7, <3>1
    <3>2. CASE i # cur
      BY <2>1, <2>3, <2>4, <2>8, <3>2 DEF ClosedSlots
    <3>3. QED
      BY <3>1, <3>2
  <2>11. ThreadsKnown'
    BY <2>1, <2>3, <2>4, <2>7 DEF ThreadsKnown
  <2>12. FailedOpenLeaksNothing'
    BY <2>1, <2>2, <2>8, SlotOrder DEF FailedOpenLeaksNothing
  <2>13. QED
    BY <2>1, <2>2, <2>9, <2>10, <2>11, <2>12, SlotOrder DEF SlotBeingOpened
<1>4. QED
  BY <1>1, <1>2, <1>3

\* The table is empty when a run starts.
LEMMA InitSlots == Init => SlotsInv
  BY EthPortIOAssumption
  DEF Init, SlotsInv, LiveSlots, ClosedSlots, SlotBeingOpened, ThreadsKnown,
      FailedOpenLeaksNothing, FirstOpen, Ending, Opening, Released, Unused, Slots

\* SlotsInv is inductive, given the types.
LEMMA NextSlots == TypeOK /\ CallInv /\ SlotsInv /\ [Next]_vars => SlotsInv'
<1> SUFFICES ASSUME TypeOK, CallInv, SlotsInv, [Next]_vars
             PROVE  SlotsInv'
  OBVIOUS
<1>1. CASE Call
  BY <1>1, CallSlots, OpenStepSlots, CloseSlots DEF Call
<1>2. CASE Continue
  BY <1>2, CallSlots, OpenStepSlots, StartSlots, CloseSlots DEF Continue
<1>3. CASE Network
  BY <1>3, ArriveSlots DEF Network
<1>4. CASE \E i \in Slots : Receiver(i)
  BY <1>4, ReceiverSlots
<1>5. CASE UNCHANGED vars
  <2>1. UNCHANGED <<pc, cur, table, count, rx, cancel, mq, sockbuf>>
    BY <1>5 DEF vars, mainVars, rxVars
  <2>2. UNCHANGED FirstOpen
    BY <2>1 DEF FirstOpen, Ending
  <2>3. QED
    BY <2>1, <2>2, SlotsKept DEF SlotsInv
<1>6. QED
  BY <1>1, <1>2, <1>3, <1>4, <1>5 DEF Next

\* The invariant of the port table: free slots hold nothing, the slot being
\* opened holds what the steps so far opened, slots that count as open are
\* complete and have an interface of their own, closed slots are empty.
THEOREM SlotsInvariant == Spec => [](TypeOK /\ CallInv /\ SlotsInv)
  BY InitType, NextType, InitSlots, NextSlots, PTL DEF Spec

\* Whoever finds an interface in the table finds descriptors that can be used,
\* until the end of the run, and no interface has two slots.
THEOREM OpenPortsAreUsable == Spec => []OpenPortsUsable
<1>1. TypeOK /\ SlotsInv => OpenPortsUsable
  BY SlotOrder DEF SlotsInv, LiveSlots, FirstOpen, OpenPortsUsable
<1>2. QED
  BY <1>1, SlotsInvariant, PTL

\* However an open fails, the next one finds the slot as if nothing had been
\* tried: no descriptor, no thread and no packet is left in it.
THEOREM FailedOpensLeakNothing == Spec => []FailedOpenLeaksNothing
<1>1. SlotsInv => FailedOpenLeaksNothing
  BY DEF SlotsInv
<1>2. QED
  BY <1>1, SlotsInvariant, PTL

\* After EthPortCloseAll every slot is empty, and a receiver that is still
\* there has been told to stop.
THEOREM CloseAllReleases == Spec => []CloseReleasesAll
<1>1. TypeOK /\ SlotsInv => CloseReleasesAll
  <2> SUFFICES ASSUME TypeOK, SlotsInv, pc = "closed", NEW i \in Slots
               PROVE  Released(i) /\ (rx[i] \in {"none", "dead"} \/ cancel[i])
    BY DEF CloseReleasesAll
  <2>1. CASE i < FirstOpen
    BY <2>1 DEF SlotsInv, ClosedSlots
  <2>2. CASE i >= count
    BY <2>2, SlotOrder DEF SlotsInv, FailedOpenLeaksNothing, Opening
  <2>3. QED
    BY <2>1, <2>2, SlotOrder DEF SlotsInv
<1>2. QED
  BY <1>1, SlotsInvariant, PTL

-----------------------------------------------------------------------------
(* The order of the packets of a slot.                                     *)

Increasing(s) == \A j, k \in DOMAIN s : j < k => s[j].id < s[k].id
Before(s, t)  == \A j \in DOMAIN s, k \in DOMAIN t : s[j].id < t[k].id
SeenBy(s, n)  == \A j \in DOMAIN s : s[j].id <= n

\* What InOrder says of the whole path of a slot, said of its four pieces: each
\* is in order, and all of one piece is older than all of the next.
OrderedPath(rcvd, queued, hold, buf, n) ==
  /\ Increasing(rcvd) /\ Increasing(queued) /\ Increasing(hold) /\ Increasing(buf)
  /\ Before(rcvd, queued) /\ Before(rcvd, hold) /\ Before(rcvd, buf)
  /\ Before(queued, hold) /\ Before(queued, buf) /\ Before(hold, buf)
  /\ SeenBy(rcvd, n) /\ SeenBy(queued, n) /\ SeenBy(hold, n) /\ SeenBy(buf, n)

OrderInv == \A i \in Slots : OrderedPath(received[i], mq[i], held[i], sockbuf[i], arrivals)

\* The number of a packet is a number.
LEMMA PacketIds == \A pkt \in Packets : pkt.id \in Nat
  BY DEF Packets

\* The elements of a sequence are where one puts them.
LEMMA ConcatAt ==
  ASSUME NEW S, NEW s \in Seq(S), NEW t \in Seq(S)
  PROVE  /\ s \o t \in Seq(S)
         /\ DOMAIN (s \o t) = 1 .. Len(s) + Len(t)
         /\ \A j \in DOMAIN s : (s \o t)[j] = s[j]
         /\ \A j \in DOMAIN (s \o t) : j > Len(s) => /\ j - Len(s) \in DOMAIN t
                                                     /\ (s \o t)[j] = t[j - Len(s)]
  OBVIOUS

\* Two sequences in order, the first before the second, make one in order.
LEMMA ConcatIncreasing ==
  ASSUME NEW s \in Seq(Packets), NEW t \in Seq(Packets),
         Increasing(s), Increasing(t), Before(s, t)
  PROVE  Increasing(s \o t)
<1> DEFINE u == s \o t
<1>1. /\ DOMAIN u = 1 .. Len(s) + Len(t)
      /\ \A j \in DOMAIN s : u[j] = s[j]
      /\ \A j \in DOMAIN u : j > Len(s) => j - Len(s) \in DOMAIN t /\ u[j] = t[j - Len(s)]
  BY ConcatAt
<1> HIDE DEF u
<1> SUFFICES ASSUME NEW j \in DOMAIN u, NEW k \in DOMAIN u, j < k
             PROVE  u[j].id < u[k].id
  BY DEF Increasing, u
<1>2. CASE k <= Len(s)
  BY <1>1, <1>2 DEF Increasing
<1>3. CASE j > Len(s)
  <2>1. j - Len(s) < k - Len(s) /\ k > Len(s)
    BY <1>1, <1>3
  <2>2. QED
    BY <1>1, <1>3, <2>1 DEF Increasing
<1>4. CASE j <= Len(s) /\ k > Len(s)
  BY <1>1, <1>4 DEF Before
<1>5. QED
  BY <1>1, <1>2, <1>3, <1>4

\* What is before or after two sequences is before or after them together.
LEMMA ConcatBefore ==
  ASSUME NEW s \in Seq(Packets), NEW t \in Seq(Packets), NEW u \in Seq(Packets)
  PROVE  /\ Before(s, u) /\ Before(t, u) => Before(s \o t, u)
         /\ Before(u, s) /\ Before(u, t) => Before(u, s \o t)
         /\ \A n : SeenBy(s, n) /\ SeenBy(t, n) => SeenBy(s \o t, n)
<1> DEFINE v == s \o t
<1>1. \A j \in DOMAIN v : \/ j \in DOMAIN s /\ v[j] = s[j]
                          \/ j - Len(s) \in DOMAIN t /\ v[j] = t[j - Len(s)]
  BY ConcatAt
<1> HIDE DEF v
<1>2. Before(s, u) /\ Before(t, u) => Before(v, u)
  BY <1>1 DEF Before
<1>3. Before(u, s) /\ Before(u, t) => Before(u, v)
  BY <1>1 DEF Before
<1>4. \A n : SeenBy(s, n) /\ SeenBy(t, n) => SeenBy(v, n)
  BY <1>1 DEF SeenBy
<1>5. QED
  BY <1>2, <1>3, <1>4 DEF v

\* The rest of a sequence has the order of the whole.
LEMMA TailOrder ==
  ASSUME NEW s \in Seq(Packets), s # <<>>
  PROVE  /\ Increasing(s) => Increasing(Tail(s)) /\ Before(<<Head(s)>>, Tail(s))
         /\ \A u \in Seq(Packets) : Before(s, u) => Before(Tail(s), u) /\ Before(<<Head(s)>>, u)
         /\ \A u \in Seq(Packets) : Before(u, s) => Before(u, Tail(s)) /\ Before(u, <<Head(s)>>)
         /\ \A n : SeenBy(s, n) => SeenBy(Tail(s), n) /\ SeenBy(<<Head(s)>>, n)
<1> DEFINE t == Tail(s)
           h == <<Head(s)>>
<1>1. /\ \A j \in DOMAIN t : j + 1 \in DOMAIN s /\ j + 1 > 1 /\ t[j] = s[j + 1]
      /\ \A j \in DOMAIN h : j = 1 /\ h[j] = s[1]
      /\ 1 \in DOMAIN s /\ DOMAIN t \subseteq Int
  OBVIOUS
<1> HIDE DEF t, h
<1>2. Increasing(s) => Increasing(t) /\ Before(h, t)
  <2>1. \A j, k \in DOMAIN t : j < k => j + 1 < k + 1
    BY <1>1
  <2>2. QED
    BY <1>1, <2>1 DEF Increasing, Before
<1>3. \A u \in Seq(Packets) : Before(s, u) => Before(t, u) /\ Before(h, u)
  BY <1>1 DEF Before
<1>4. \A u \in Seq(Packets) : Before(u, s) => Before(u, t) /\ Before(u, h)
  BY <1>1 DEF Before
<1>5. \A n : SeenBy(s, n) => SeenBy(t, n) /\ SeenBy(h, n)
  BY <1>1 DEF SeenBy
<1>6. QED
  BY <1>2, <1>3, <1>4, <1>5 DEF t, h

\* A single packet, and no packet at all, are in order.
LEMMA ShortOrder ==
  /\ \A x : Increasing(<<x>>)
  /\ Increasing(<<>>)
  /\ \A s : Before(<<>>, s) /\ Before(s, <<>>)
  /\ \A n : SeenBy(<<>>, n)
  BY DEF Increasing, Before, SeenBy

\* Packets that are thrown away leave the others in order.
LEMMA LossOrder ==
  ASSUME NEW r, NEW m, NEW h, NEW b, NEW n, OrderedPath(r, m, h, b, n),
         NEW m2 \in {m, <<>>}, NEW h2 \in {h, <<>>}, NEW b2 \in {b, <<>>}
  PROVE  OrderedPath(r, m2, h2, b2, n)
<1>1. OrderedPath(r, m2, h, b, n)
  BY ShortOrder DEF OrderedPath
<1>2. OrderedPath(r, m2, h2, b, n)
  BY <1>1, ShortOrder DEF OrderedPath
<1>3. QED
  BY <1>2, ShortOrder DEF OrderedPath

\* A step that moves or loses packets of one slot keeps the order in all.
LEMMA OneSlotOrder ==
  ASSUME TypeOK, OrderInv, NEW i \in Slots, UNCHANGED arrivals,
         \A j \in Slots : j # i => /\ received'[j] = received[j] /\ mq'[j] = mq[j]
                                   /\ held'[j] = held[j] /\ sockbuf'[j] = sockbuf[j],
         OrderedPath(received'[i], mq'[i], held'[i], sockbuf'[i], arrivals)
  PROVE  OrderInv'
  BY DEF OrderInv

\* The main thread takes the oldest packet of a queue.
LEMMA TakeOrder ==
  ASSUME TypeOK, OrderInv, NEW i \in Slots, mq[i] # <<>>, UNCHANGED <<held, sockbuf, arrivals>>,
         received' = [received EXCEPT ![i] = Append(@, Head(mq[i]))],
         mq' = [mq EXCEPT ![i] = Tail(@)]
  PROVE  OrderInv'
<1> DEFINE r == received[i]
           m == mq[i]
           first == <<Head(m)>>
<1>1. r \in Seq(Packets) /\ m \in Seq(Packets) /\ first \in Seq(Packets)
      /\ Tail(m) \in Seq(Packets) /\ held[i] \in Seq(Packets) /\ sockbuf[i] \in Seq(Packets)
  BY DEF TypeOK
<1>2. received'[i] = r \o first /\ mq'[i] = Tail(m)
  BY <1>1 DEF TypeOK
<1>3. OrderedPath(r, m, held[i], sockbuf[i], arrivals) /\ m # <<>>
  BY DEF OrderInv
<1>4. /\ Increasing(first) /\ Increasing(Tail(m)) /\ Before(first, Tail(m))
      /\ Before(r, first) /\ Before(r, Tail(m))
      /\ Before(first, held[i]) /\ Before(first, sockbuf[i])
      /\ Before(Tail(m), held[i]) /\ Before(Tail(m), sockbuf[i])
      /\ SeenBy(first, arrivals) /\ SeenBy(Tail(m), arrivals)
  BY <1>1, <1>3, TailOrder, ShortOrder DEF OrderedPath
<1> HIDE DEF r, m, first
<1>5. /\ Increasing(r \o first) /\ SeenBy(r \o first, arrivals)
      /\ Before(r \o first, Tail(m)) /\ Before(r \o first, held[i])
      /\ Before(r \o first, sockbuf[i])
  BY <1>1, <1>3, <1>4, ConcatIncreasing, ConcatBefore DEF OrderedPath
<1>6. OrderedPath(r \o first, Tail(m), held[i], sockbuf[i], arrivals)
  BY <1>3, <1>4, <1>5 DEF OrderedPath
<1>7. \A j \in Slots : j # i => received'[j] = received[j] /\ mq'[j] = mq[j]
  BY DEF TypeOK
<1>8. QED
  BY <1>2, <1>6, <1>7, OneSlotOrder

\* A receiver thread takes the oldest packet of its socket, and queues it or
\* loses it.
LEMMA ReceiverOrder ==
  ASSUME TypeOK, OrderInv, NEW i \in Slots, Receiver(i)
  PROVE  OrderInv'
<1> DEFINE r == received[i]
           m == mq[i]
           h == held[i]
           b == sockbuf[i]
<1>1. r \in Seq(Packets) /\ m \in Seq(Packets) /\ h \in Seq(Packets) /\ b \in Seq(Packets)
  BY DEF TypeOK
<1>2. OrderedPath(r, m, h, b, arrivals)
  BY DEF OrderInv
<1>3. \A j \in Slots : j # i => /\ received'[j] = received[j] /\ mq'[j] = mq[j]
                                /\ held'[j] = held[j] /\ sockbuf'[j] = sockbuf[j]
  BY DEF Receiver, RecvFrom, DiscardPacket, QueuePacket, Stop, TypeOK
<1>4. UNCHANGED arrivals /\ received'[i] = r
  BY DEF Receiver, RecvFrom, DiscardPacket, QueuePacket, Stop
<1>5. CASE RecvFrom(i)
  <2>1. b # <<>> /\ held'[i] = <<Head(b)>> /\ sockbuf'[i] = Tail(b) /\ mq'[i] = m
    BY <1>5 DEF RecvFrom, TypeOK
  <2> DEFINE first == <<Head(b)>>
  <2>2. first \in Seq(Packets) /\ Tail(b) \in Seq(Packets)
    BY <1>1, <2>1
  <2> HIDE DEF r, m, h, b
  <2>3. /\ Increasing(first) /\ Increasing(Tail(b)) /\ Before(first, Tail(b))
        /\ Before(r, first) /\ Before(r, Tail(b))
        /\ Before(m, first) /\ Before(m, Tail(b))
        /\ SeenBy(first, arrivals) /\ SeenBy(Tail(b), arrivals)
    BY <1>1, <1>2, <2>1, TailOrder, ShortOrder DEF OrderedPath
  <2>4. OrderedPath(r, m, first, Tail(b), arrivals)
    BY <1>2, <2>3 DEF OrderedPath
  <2>5. QED
    BY <1>3, <1>4, <2>1, <2>4, OneSlotOrder
<1>6. CASE DiscardPacket(i) \/ Stop(i)
  <2>1. held'[i] = <<>> /\ mq'[i] = m /\ sockbuf'[i] = b
    BY <1>6 DEF DiscardPacket, Stop, TypeOK
  <2>2. OrderedPath(r, m, <<>>, b, arrivals)
    BY <1>2, LossOrder
  <2>3. QED
    BY <1>3, <1>4, <2>1, <2>2, OneSlotOrder
<1>7. CASE QueuePacket(i)
  <2>1. mq'[i] \in {m, m \o h} /\ held'[i] = <<>> /\ sockbuf'[i] = b
    BY <1>7 DEF QueuePacket, TypeOK
  <2>2. OrderedPath(r, m, <<>>, b, arrivals)
    BY <1>2, LossOrder
  <2> HIDE DEF r, m, h, b
  <2>3. /\ Increasing(m \o h) /\ Before(r, m \o h) /\ Before(m \o h, b)
        /\ SeenBy(m \o h, arrivals)
    BY <1>1, <1>2, ConcatIncreasing, ConcatBefore DEF OrderedPath
  <2>4. OrderedPath(r, m \o h, <<>>, b, arrivals)
    BY <2>2, <2>3, ShortOrder DEF OrderedPath
  <2>5. OrderedPath(r, mq'[i], <<>>, b, arrivals)
    BY <2>1, <2>2, <2>4
  <2>6. QED
    BY <1>3, <1>4, <2>1, <2>5, OneSlotOrder
<1>8. QED
  BY <1>5, <1>6, <1>7 DEF Receiver

\* A packet that arrives is younger than all seen before.
LEMMA ArriveOrder ==
  ASSUME TypeOK, OrderInv, NEW name \in Names, NEW kind \in Kinds, Arrive(name, kind)
  PROVE  OrderInv'
<1> DEFINE pkt == [id |-> arrivals + 1, on |-> name, kind |-> kind]
<1>1. pkt \in Packets /\ pkt.id = arrivals + 1 /\ arrivals \in Nat
  BY EthPortIOAssumption DEF Packets, Arrive, TypeOK
<1>2. sockbuf' = [i \in Slots |-> IF Captures(i, name) /\ Len(sockbuf[i]) < SockBuf
                                  THEN Append(sockbuf[i], pkt) ELSE sockbuf[i]]
      /\ arrivals' = arrivals + 1 /\ UNCHANGED <<received, mq, held>>
  BY DEF Arrive, rxVars
<1> HIDE DEF pkt
<1>3. ASSUME NEW i \in Slots
      PROVE  OrderedPath(received[i], mq[i], held[i], sockbuf'[i], arrivals')
  <2> DEFINE r == received[i]
             m == mq[i]
             h == held[i]
             b == sockbuf[i]
             new == <<pkt>>
  <2>1. /\ r \in Seq(Packets) /\ m \in Seq(Packets) /\ h \in Seq(Packets)
        /\ b \in Seq(Packets) /\ new \in Seq(Packets)
    BY <1>1 DEF TypeOK
  <2>2. sockbuf'[i] \in {b, b \o new}
    <3>1. Append(b, pkt) = b \o new
      BY <1>1, <2>1
    <3>2. sockbuf'[i] \in {b, Append(b, pkt)}
      BY <1>2
    <3>3. QED
      BY <3>1, <3>2
  <2>3. OrderedPath(r, m, h, b, arrivals)
    BY DEF OrderInv
  <2> HIDE DEF r, m, h, b
  <2>4. \A s \in Seq(Packets) : SeenBy(s, arrivals) => SeenBy(s, arrivals')
    <3> SUFFICES ASSUME NEW s \in Seq(Packets), SeenBy(s, arrivals), NEW j \in DOMAIN s
                 PROVE  s[j].id <= arrivals + 1
      BY <1>2 DEF SeenBy
    <3>1. s[j] \in Packets /\ s[j].id <= arrivals
      BY DEF SeenBy
    <3>2. QED
      BY <1>1, <3>1, PacketIds
  <2>5. \A s \in Seq(Packets) : SeenBy(s, arrivals) => Before(s, new)
    <3> SUFFICES ASSUME NEW s \in Seq(Packets), SeenBy(s, arrivals), NEW j \in DOMAIN s
                 PROVE  s[j].id < pkt.id
      BY DEF Before
    <3>1. s[j] \in Packets /\ s[j].id <= arrivals
      BY DEF SeenBy
    <3>2. QED
      BY <1>1, <3>1, PacketIds
  <2>6. Increasing(new) /\ SeenBy(new, arrivals')
    BY <1>1, <1>2, ShortOrder DEF SeenBy
  <2> HIDE DEF new
  <2>7. OrderedPath(r, m, h, b, arrivals')
    BY <2>1, <2>3, <2>4 DEF OrderedPath
  <2>8. /\ Increasing(b \o new) /\ SeenBy(b \o new, arrivals')
        /\ Before(r, b \o new) /\ Before(m, b \o new) /\ Before(h, b \o new)
    BY <2>1, <2>3, <2>5, <2>6, <2>7, ConcatIncreasing, ConcatBefore DEF OrderedPath
  <2>9. OrderedPath(r, m, h, b \o new, arrivals')
    BY <2>7, <2>8 DEF OrderedPath
  <2>10. QED
    BY <2>2, <2>7, <2>9 DEF r, m, h, b
<1>4. QED
  BY <1>2, <1>3 DEF OrderInv

\* No other step moves packets, but closing a slot throws them away.
LEMMA MainOrder ==
  ASSUME TypeOK, CallInv, OrderInv, Call \/ Continue
  PROVE  OrderInv'
<1>1. CASE TakePacket
  <2>1. cur \in Slots
    BY <1>1, EthPortIOAssumption DEF TakePacket, Reading, CallInv, TypeOK, Slots
  <2>2. QED
    BY <1>1, <2>1, TakeOrder DEF TakePacket, rxVars
<1>2. ASSUME NEW i \in Slots, CloseEntry(i), UNCHANGED <<held, arrivals, received>>
      PROVE  OrderInv'
  <2>1. mq'[i] = <<>> /\ sockbuf'[i] = <<>>
    BY <1>2 DEF CloseEntry, TypeOK
  <2>2. \A j \in Slots : j # i => mq'[j] = mq[j] /\ sockbuf'[j] = sockbuf[j]
    BY <1>2 DEF CloseEntry, TypeOK
  <2>3. OrderedPath(received[i], <<>>, held[i], <<>>, arrivals)
    BY LossOrder DEF OrderInv
  <2>4. QED
    BY <1>2, <2>1, <2>2, <2>3, OneSlotOrder
<1>3. CASE OpenFails
  BY <1>2, <1>3, OpeningInTable DEF OpenFails, Opening, rxVars
<1>4. CASE ClosePort
  <2>1. cur \in Slots
    BY <1>4, EthPortIOAssumption DEF ClosePort, TypeOK, Slots
  <2>2. QED
    BY <1>2, <1>4, <2>1 DEF ClosePort
<1>5. CASE UNCHANGED <<received, mq, held, sockbuf, arrivals>>
  BY <1>5 DEF OrderInv
<1>6. QED
  BY <1>1, <1>3, <1>4, <1>5
  DEF Call, Continue, TableOverrun, OpenSocket, SocketFails, EthPortReceive, EthPortReceiveAny,
      EthPortCloseAll, BindDevice, OpenRcvQueue, OpenSendQueue, StartReceiver, StartReceiverFails,
      ReceiveTimeout, ScanNext, ScanEnd, CancelCrashes, CloseLogs, rxVars

\* No packet is under way when a run starts.
LEMMA InitOrder == Init => OrderInv
  BY ShortOrder DEF Init, OrderInv, OrderedPath

\* OrderInv is inductive, given the types.
LEMMA NextOrder == TypeOK /\ CallInv /\ OrderInv /\ [Next]_vars => OrderInv'
<1> SUFFICES ASSUME TypeOK, CallInv, OrderInv, [Next]_vars
             PROVE  OrderInv'
  OBVIOUS
<1>1. CASE Network
  BY <1>1, ArriveOrder DEF Network
<1>2. CASE \E i \in Slots : Receiver(i)
  BY <1>2, ReceiverOrder
<1>3. CASE UNCHANGED vars
  BY <1>3 DEF OrderInv, vars, rxVars
<1>4. QED
  BY <1>1, <1>2, <1>3, MainOrder DEF Next

\* Through socket buffer, thread and message queue the packets of a port stay
\* in the order in which they came, and none is seen twice.
THEOREM PacketsInOrder == Spec => []InOrder
<1>1. TypeOK /\ OrderInv => InOrder
  <2> SUFFICES ASSUME TypeOK, OrderInv, NEW i \in Slots
               PROVE  Increasing(Pipeline(i))
    BY DEF InOrder, Increasing
  <2> DEFINE r == received[i]
             m == mq[i]
             h == held[i]
             b == sockbuf[i]
  <2>1. r \in Seq(Packets) /\ m \in Seq(Packets) /\ h \in Seq(Packets) /\ b \in Seq(Packets)
    BY DEF TypeOK
  <2>2. OrderedPath(r, m, h, b, arrivals)
    BY DEF OrderInv
  <2> HIDE DEF r, m, h, b
  <2>3. r \o m \in Seq(Packets) /\ r \o m \o h \in Seq(Packets)
    BY <2>1
  <2>4. Increasing(r \o m) /\ Before(r \o m, h) /\ Before(r \o m, b)
    BY <2>1, <2>2, ConcatIncreasing, ConcatBefore DEF OrderedPath
  <2>5. Increasing(r \o m \o h) /\ Before(r \o m \o h, b)
    BY <2>1, <2>2, <2>3, <2>4, ConcatIncreasing, ConcatBefore DEF OrderedPath
  <2>6. Increasing(r \o m \o h \o b)
    BY <2>1, <2>2, <2>3, <2>5, ConcatIncreasing DEF OrderedPath
  <2>7. QED
    BY <2>6 DEF Pipeline, r, m, h, b
<1>2. QED
  BY <1>1, InitType, NextType, InitOrder, NextOrder, PTL DEF Spec

-----------------------------------------------------------------------------
(* Every slot is a LossyFifo path.                                         *)

\* The packets of a slot that are under way.
UnderWay(i) == mq[i] \o held[i] \o sockbuf[i]

\* The buffer of a thread holds a packet only while the thread inspects it.
HeldInv == \A i \in Slots : IF rx[i] = "inspect" THEN Len(held[i]) = 1 ELSE held[i] = <<>>

\* HeldInv is inductive: recvfrom is called with an empty buffer, and a new
\* thread begins with one.
LEMMA NextHeld == TypeOK /\ CallInv /\ SlotsInv /\ HeldInv /\ [Next]_vars => HeldInv'
<1> SUFFICES ASSUME TypeOK, CallInv, SlotsInv, HeldInv, [Next]_vars
             PROVE  HeldInv'
  OBVIOUS
<1>1. ASSUME NEW i \in Slots, Receiver(i)
      PROVE  HeldInv'
  <2>1. \A j \in Slots : j # i => rx'[j] = rx[j] /\ held'[j] = held[j]
    BY <1>1 DEF Receiver, RecvFrom, DiscardPacket, QueuePacket, Stop, TypeOK
  <2>2. IF rx'[i] = "inspect" THEN Len(held'[i]) = 1 ELSE held'[i] = <<>>
    BY <1>1 DEF Receiver, RecvFrom, DiscardPacket, QueuePacket, Stop, TypeOK
  <2>3. QED
    BY <2>1, <2>2 DEF HeldInv
<1>2. CASE StartReceiver
  <2>1. count \in Slots /\ rx[count] = "none" /\ UNCHANGED held
    BY <1>2, OpeningInTable DEF StartReceiver, Opening, SlotsInv, SlotBeingOpened
  <2>2. held[count] = <<>> /\ rx' = [rx EXCEPT ![count] = "recvfrom"]
    BY <1>2, <2>1 DEF HeldInv, StartReceiver
  <2>3. QED
    BY <2>1, <2>2 DEF HeldInv, TypeOK
<1>3. CASE UNCHANGED <<rx, held>>
  BY <1>3 DEF HeldInv
<1>4. QED
  BY <1>1, <1>2, <1>3
  DEF Next, Call, Continue, Network, Arrive, TableOverrun, OpenSocket, SocketFails,
      EthPortReceive, EthPortReceiveAny, EthPortCloseAll, BindDevice, OpenRcvQueue, OpenSendQueue,
      OpenFails, StartReceiverFails, TakePacket, ReceiveTimeout, ScanNext, ScanEnd, ClosePort,
      CancelCrashes, CloseLogs, rxVars, vars

\* The numbers of a sequence of packets.
LEMMA IdsOf ==
  ASSUME NEW s \in Seq(Packets)
  PROVE  /\ Ids(s) \in Seq(Nat) /\ Len(Ids(s)) = Len(s)
         /\ \A n \in 1 .. Len(s) : Ids(s)[n] = s[n].id
         /\ \A pkt \in Packets : Ids(Append(s, pkt)) = Append(Ids(s), pkt.id)
         /\ s # <<>> => Ids(s) # <<>> /\ Head(Ids(s)) = Head(s).id /\ Tail(Ids(s)) = Ids(Tail(s))
<1>1. \A n \in 1 .. Len(s) : s[n].id \in Nat
  BY PacketIds
<1>2. Ids(s) = [n \in 1 .. Len(s) |-> s[n].id]
  BY DEF Ids
<1>3. /\ Ids(s) \in Seq(Nat) /\ Len(Ids(s)) = Len(s)
      /\ \A n \in 1 .. Len(s) : Ids(s)[n] = s[n].id
  BY <1>1, <1>2
<1>4. ASSUME NEW pkt \in Packets
      PROVE  Ids(Append(s, pkt)) = Append(Ids(s), pkt.id)
  <2> DEFINE t == Append(s, pkt)
  <2>1. /\ t \in Seq(Packets) /\ Len(t) = Len(s) + 1 /\ t[Len(s) + 1] = pkt
        /\ \A n \in 1 .. Len(s) : t[n] = s[n]
    OBVIOUS
  <2> HIDE DEF t
  <2>2. Ids(t) = [n \in 1 .. Len(s) + 1 |-> t[n].id]
    BY <2>1 DEF Ids
  <2>3. pkt.id \in Nat /\ \A n \in 1 .. Len(s) + 1 : t[n].id \in Nat
    BY <2>1, PacketIds
  <2>4. Ids(t) \in Seq(Nat) /\ Len(Ids(t)) = Len(s) + 1
    BY <2>2, <2>3
  <2>5. Append(Ids(s), pkt.id) \in Seq(Nat) /\ Len(Append(Ids(s), pkt.id)) = Len(s) + 1
    BY <1>3, <2>3
  <2>6. \A n \in 1 .. Len(s) + 1 : Ids(t)[n] = Append(Ids(s), pkt.id)[n]
    BY <1>3, <2>1, <2>2, <2>3
  <2>7. QED
    BY <2>4, <2>5, <2>6, SeqEqual DEF t
<1>5. ASSUME s # <<>>
      PROVE  Ids(s) # <<>> /\ Head(Ids(s)) = Head(s).id /\ Tail(Ids(s)) = Ids(Tail(s))
  <2> DEFINE t == Tail(s)
  <2>1. /\ t \in Seq(Packets) /\ Len(t) = Len(s) - 1
        /\ \A n \in 1 .. Len(t) : t[n] = s[n + 1]
    BY <1>5
  <2> HIDE DEF t
  <2>2. Ids(t) = [n \in 1 .. Len(t) |-> t[n].id]
    BY <2>1 DEF Ids
  <2>3. \A n \in 1 .. Len(t) : t[n].id \in Nat
    BY <2>1, PacketIds
  <2>4. Ids(t) \in Seq(Nat) /\ Len(Ids(t)) = Len(t)
    BY <2>1, <2>2, <2>3
  <2>5. Ids(s) # <<>> /\ Head(Ids(s)) = Head(s).id
    BY <1>3, <1>5
  <2>6. /\ Tail(Ids(s)) \in Seq(Nat) /\ Len(Tail(Ids(s))) = Len(t)
        /\ \A n \in 1 .. Len(t) : Tail(Ids(s))[n] = Ids(s)[n + 1]
    BY <1>3, <2>1, <2>5
  <2>7. \A n \in 1 .. Len(t) : Tail(Ids(s))[n] = Ids(t)[n]
    <3>1. \A n \in 1 .. Len(t) : n + 1 \in 1 .. Len(s)
      BY <2>1
    <3>2. QED
      BY <1>3, <2>1, <2>2, <2>6, <3>1
  <2>8. QED
    BY <2>4, <2>5, <2>6, <2>7, SeqEqual DEF t
<1>6. QED
  BY <1>3, <1>4, <1>5

\* What is under way in a slot is a sequence of packets.
LEMMA UnderWayType ==
  ASSUME TypeOK, NEW i \in Slots
  PROVE  UnderWay(i) \in Seq(Packets)
  BY DEF TypeOK, UnderWay

\* A step that LossyFifo does not see.
LEMMA FifoStutters ==
  ASSUME UNCHANGED <<arrivals, received>>, \A i \in Slots : UnderWay(i)' = UnderWay(i)
  PROVE  UNCHANGED Fifo!fifoVars
  BY DEF UnderWay, Fifo!fifoVars

\* A step in which one slot keeps but some of its packets, in their order.
LEMMA FifoLoses ==
  ASSUME TypeOK, TypeOK', UNCHANGED <<arrivals, received>>, NEW i \in Slots,
         \A j \in Slots : j # i => UnderWay(j)' = UnderWay(j),
         NEW kept, kept \in [1 .. Len(UnderWay(i)') -> 1 .. Len(UnderWay(i))],
         \A j, k \in 1 .. Len(UnderWay(i)') : j < k => kept[j] < kept[k],
         \A k \in 1 .. Len(UnderWay(i)') : UnderWay(i)'[k] = UnderWay(i)[kept[k]],
         Len(UnderWay(i)') <= Len(UnderWay(i))
  PROVE  Fifo!Lose(i)
<1> DEFINE s == UnderWay(i)
           t == UnderWay(i)'
           n == Len(t)
           Q == [j \in Slots |-> Ids(UnderWay(j))]
<1>1. s \in Seq(Packets) /\ t \in Seq(Packets) /\ n \in 0 .. Len(s)
  BY UnderWayType DEF TypeOK, UnderWay
<1>2. Len(Ids(s)) = Len(s) /\ Ids(s) \in Seq(Nat) /\ \A k \in 1 .. Len(s) : Ids(s)[k] = s[k].id
  BY <1>1, IdsOf
<1>3. Ids(t) = [k \in 1 .. n |-> t[k].id]
  BY <1>1 DEF Ids
<1>4. DOMAIN Ids(s) = 1 .. Len(s)
  BY <1>1, <1>2
<1>5. \A k \in 1 .. n : t[k].id = Ids(s)[kept[k]]
  <2>1. \A k \in 1 .. n : kept[k] \in 1 .. Len(s) /\ t[k] = s[kept[k]]
    OBVIOUS
  <2>2. QED
    BY <1>2, <2>1
<1> HIDE DEF s, t, n
<1>6. Ids(t) = [k \in 1 .. n |-> Ids(s)[kept[k]]]
  BY <1>3, <1>5
<1>7. Q' = [Q EXCEPT ![i] = Ids(t)]
  BY DEF t
<1>8. Q[i] = Ids(s)
  BY DEF s
<1> HIDE DEF Q
<1>9. Q' = [Q EXCEPT ![i] = [k \in 1 .. n |-> Q[i][kept[k]]]]
  BY <1>6, <1>7, <1>8
<1>10. n \in 0 .. Len(Q[i]) /\ kept \in [1 .. n -> DOMAIN Q[i]]
  BY <1>1, <1>2, <1>4, <1>8 DEF s, t, n
<1>11. \A j, k \in 1 .. n : j < k => kept[j] < kept[k]
  BY DEF n, t
<1>12. \E m \in 0 .. Len(Q[i]) : \E f \in [1 .. m -> DOMAIN Q[i]] :
         /\ \A j, k \in 1 .. m : j < k => f[j] < f[k]
         /\ Q' = [Q EXCEPT ![i] = [k \in 1 .. m |-> Q[i][f[k]]]]
  BY <1>9, <1>10, <1>11
<1>13. QED
  BY <1>12 DEF Fifo!Lose, Q, UnderWay

\* Three sequences of packets in a row: their length, their ends, their elements.
LEMMA InARow ==
  ASSUME NEW m \in Seq(Packets), NEW h \in Seq(Packets), NEW b \in Seq(Packets)
  PROVE  m \o h \o b \in Seq(Packets) /\ Len(m \o h \o b) = Len(m) + Len(h) + Len(b)
  OBVIOUS

\* The first leaves from the front.
LEMMA InARowFirst ==
  ASSUME NEW m \in Seq(Packets), NEW h \in Seq(Packets), NEW b \in Seq(Packets), m # <<>>
  PROVE  /\ m \o h \o b # <<>> /\ Head(m \o h \o b) = Head(m)
         /\ Tail(m \o h \o b) = Tail(m) \o h \o b
<1>1. m \o h \o b # <<>> /\ Head(m \o h \o b) = Head(m)
  OBVIOUS
<1>2. Tail(m \o h \o b) = Tail(m) \o h \o b
  OBVIOUS
<1>3. QED
  BY <1>1, <1>2

\* A new one comes last.
LEMMA InARowLast ==
  ASSUME NEW m \in Seq(Packets), NEW h \in Seq(Packets), NEW b \in Seq(Packets),
         NEW x \in Packets
  PROVE  m \o h \o Append(b, x) = Append(m \o h \o b, x)
  OBVIOUS

\* The elements of the first and of the last sequence.
LEMMA InARowElements ==
  ASSUME NEW m \in Seq(Packets), NEW h \in Seq(Packets), NEW b \in Seq(Packets)
  PROVE  /\ \A k \in 1 .. Len(m) : (m \o h \o b)[k] = m[k]
         /\ \A k \in 1 .. Len(b) : (m \o h \o b)[Len(m) + Len(h) + k] = b[k]
<1>1. \A k \in 1 .. Len(m) : (m \o h \o b)[k] = m[k]
  OBVIOUS
<1>2. \A k \in 1 .. Len(b) : (m \o h \o b)[Len(m) + Len(h) + k] = b[k]
  OBVIOUS
<1>3. QED
  BY <1>1, <1>2

\* Taking the oldest packet of a queue is handing over the oldest under way.
LEMMA TakeHandsOver ==
  ASSUME TypeOK, NEW i \in Slots, mq[i] # <<>>, UNCHANGED <<held, sockbuf, arrivals>>,
         received' = [received EXCEPT ![i] = Append(@, Head(mq[i]))],
         mq' = [mq EXCEPT ![i] = Tail(@)]
  PROVE  Fifo!HandOver(i)
<1> DEFINE Q == [j \in Slots |-> Ids(UnderWay(j))]
           R == [j \in Slots |-> Ids(received[j])]
<1>1. /\ mq[i] \in Seq(Packets) /\ held[i] \in Seq(Packets) /\ sockbuf[i] \in Seq(Packets)
      /\ received[i] \in Seq(Packets)
      /\ mq \in [Slots -> Seq(Packets)] /\ received \in [Slots -> Seq(Packets)]
  BY DEF TypeOK
<1>2. UnderWay(i) # <<>> /\ Head(UnderWay(i)) = Head(mq[i]) /\ Head(mq[i]) \in Packets
      /\ UnderWay(i) \in Seq(Packets)
  <2>1. Head(mq[i]) \in Packets
    BY <1>1
  <2>2. UnderWay(i) = mq[i] \o held[i] \o sockbuf[i]
    BY DEF UnderWay
  <2>3. mq[i] \o held[i] \o sockbuf[i] \in Seq(Packets)
    BY <1>1, InARow
  <2>4. /\ mq[i] \o held[i] \o sockbuf[i] # <<>>
        /\ Head(mq[i] \o held[i] \o sockbuf[i]) = Head(mq[i])
    <3>1. \A m \in Seq(Packets), h \in Seq(Packets), b \in Seq(Packets) :
            m # <<>> => m \o h \o b # <<>> /\ Head(m \o h \o b) = Head(m)
      BY InARowFirst
    <3>2. QED
      BY <1>1, <3>1
  <2>5. QED
    BY <2>1, <2>2, <2>3, <2>4
<1>3. UnderWay(i)' = Tail(UnderWay(i))
  <2>1. Tail(mq[i] \o held[i] \o sockbuf[i]) = Tail(mq[i]) \o held[i] \o sockbuf[i]
    <3>1. PICK m, h, b : m = mq[i] /\ h = held[i] /\ b = sockbuf[i]
      OBVIOUS
    <3>2. m \in Seq(Packets) /\ h \in Seq(Packets) /\ b \in Seq(Packets) /\ m # <<>>
      BY <1>1, <3>1
    <3>3. Tail(m \o h \o b) = Tail(m) \o h \o b
      BY <3>2, InARowFirst, ZenonT(30)
    <3>4. QED
      BY <3>1, <3>3
  <2>2. QED
    BY <1>1, <2>1 DEF UnderWay
<1>4. \A j \in Slots : j # i => UnderWay(j)' = UnderWay(j) /\ received'[j] = received[j]
  BY <1>1 DEF UnderWay
<1>5. received'[i] = Append(received[i], Head(mq[i]))
  BY <1>1
<1>6. Q[i] # <<>> /\ Head(Q[i]) = Head(mq[i]).id /\ Tail(Q[i]) = Ids(Tail(UnderWay(i)))
  BY <1>2, IdsOf
<1>7. Q' = [Q EXCEPT ![i] = Tail(@)]
  BY <1>3, <1>4, <1>6
<1>8. Ids(received'[i]) = Append(R[i], Head(Q[i]))
  BY <1>1, <1>2, <1>5, <1>6, IdsOf
<1> HIDE DEF Q
<1>9. R' = [R EXCEPT ![i] = Append(@, Head(Q[i]))]
  <2> DEFINE x == Append(R[i], Head(Q[i]))
  <2>1. \A j \in Slots : Ids(received'[j]) = IF j = i THEN x ELSE R[j]
    <3>1. \A j \in Slots : j # i => received'[j] = received[j]
      BY <1>4
    <3>2. ASSUME NEW j \in Slots, j # i
          PROVE  Ids(received'[j]) = R[j]
      BY <3>1, <3>2
    <3>3. Ids(received'[i]) = x
      BY <1>8
    <3> HIDE DEF x, R
    <3>4. QED
      BY <3>2, <3>3
  <2> HIDE DEF x
  <2>2. R' = [j \in Slots |-> Ids(received'[j])]
    BY DEF Ids
  <2>3. R' = [R EXCEPT ![i] = x]
    BY <2>1, <2>2
  <2>4. QED
    BY <2>3 DEF x
<1>10. QED
  BY <1>6, <1>7, <1>9 DEF Fifo!HandOver, UnderWay, Q

\* A packet that arrives is captured by the slots that have room for it.
LEMMA ArriveCaptures ==
  ASSUME TypeOK, NEW name \in Names, NEW kind \in Kinds, Arrive(name, kind)
  PROVE  \E S \in SUBSET Slots : Fifo!Capture(S)
<1> DEFINE pkt == [id |-> arrivals + 1, on |-> name, kind |-> kind]
           S == {i \in Slots : Captures(i, name) /\ Len(sockbuf[i]) < SockBuf}
           Q == [j \in Slots |-> Ids(UnderWay(j))]
<1>1. pkt \in Packets /\ pkt.id = arrivals + 1
  BY EthPortIOAssumption DEF Packets, Arrive, TypeOK
<1>2. sockbuf' = [i \in Slots |-> IF i \in S THEN Append(sockbuf[i], pkt) ELSE sockbuf[i]]
      /\ arrivals' = arrivals + 1 /\ UNCHANGED <<received, mq, held>>
  BY DEF Arrive, rxVars
<1> HIDE DEF pkt, S
<1>3. ASSUME NEW i \in Slots
      PROVE  Ids(UnderWay(i))' = IF i \in S THEN Append(Ids(UnderWay(i)), arrivals')
                                 ELSE Ids(UnderWay(i))
  <2>1. UnderWay(i) \in Seq(Packets)
    BY UnderWayType
  <2>2. CASE i \in S
    <3>1. mq[i] \in Seq(Packets) /\ held[i] \in Seq(Packets) /\ sockbuf[i] \in Seq(Packets)
      BY DEF TypeOK
    <3>2. mq[i] \o held[i] \o Append(sockbuf[i], pkt)
          = Append(mq[i] \o held[i] \o sockbuf[i], pkt)
      BY <1>1, <3>1, InARowLast
    <3>3. UnderWay(i)' = Append(UnderWay(i), pkt)
      BY <1>2, <2>2, <3>2 DEF UnderWay
    <3>4. Ids(UnderWay(i))' = Ids(UnderWay(i)')
      BY DEF Ids
    <3>5. QED
      BY <1>1, <1>2, <2>1, <2>2, <3>3, <3>4, IdsOf
  <2>3. CASE i \notin S
    BY <1>2, <2>3 DEF UnderWay, Ids
  <2>4. QED
    BY <2>2, <2>3
<1>4. Q' = [i \in Slots |-> IF i \in S THEN Append(Q[i], arrivals') ELSE Q[i]]
  BY <1>3
<1>5. Fifo!Capture(S)
  BY <1>2, <1>4 DEF Fifo!Capture, UnderWay
<1>6. S \in SUBSET Slots
  BY DEF S
<1>7. QED
  BY <1>5, <1>6

\* A receiver thread moves a packet along its slot's path, or loses it.
LEMMA ReceiverMovesOrLoses ==
  ASSUME TypeOK, TypeOK', HeldInv, NEW i \in Slots, Receiver(i)
  PROVE  UNCHANGED Fifo!fifoVars \/ Fifo!Lose(i)
<1> DEFINE m == mq[i]
           h == held[i]
           b == sockbuf[i]
<1>1. m \in Seq(Packets) /\ h \in Seq(Packets) /\ b \in Seq(Packets)
  BY DEF TypeOK
<1>2. UNCHANGED <<arrivals, received>>
  BY DEF Receiver, RecvFrom, DiscardPacket, QueuePacket, Stop
<1>3. \A j \in Slots : j # i => UnderWay(j)' = UnderWay(j)
  BY DEF Receiver, RecvFrom, DiscardPacket, QueuePacket, Stop, TypeOK, UnderWay
<1>4. UnderWay(i) = m \o h \o b
  BY DEF UnderWay
<1>5. ASSUME Len(h) = 1, mq'[i] = m, held'[i] = <<>>, sockbuf'[i] = b
      PROVE  Fifo!Lose(i)
  <2>1. UnderWay(i)' = m \o <<>> \o b
    BY <1>5 DEF UnderWay
  <2> DEFINE t == m \o <<>> \o b
             s == m \o h \o b
             kept == [k \in 1 .. Len(t) |-> IF k <= Len(m) THEN k ELSE k + 1]
  <2> HIDE DEF m, h, b
  <2>2. <<>> \in Seq(Packets) /\ Len(<<>>) = 0
    OBVIOUS
  <2>3. /\ Len(t) = Len(m) + Len(b) /\ Len(s) = Len(m) + 1 + Len(b)
        /\ Len(m) \in Nat /\ Len(b) \in Nat
    <3>1. Len(t) = Len(m) + Len(<<>>) + Len(b)
      BY <1>1, <2>2, InARow
    <3>2. Len(s) = Len(m) + Len(h) + Len(b)
      BY <1>1, InARow
    <3>3. Len(m) \in Nat /\ Len(b) \in Nat
      BY <1>1
    <3>4. QED
      BY <1>5, <2>2, <3>1, <3>2, <3>3
  <2>4. kept \in [1 .. Len(t) -> 1 .. Len(s)]
    BY <2>3
  <2>5. \A j, k \in 1 .. Len(t) : j < k => kept[j] < kept[k]
    BY <2>3
  <2>6. ASSUME NEW k \in 1 .. Len(t)
        PROVE  t[k] = s[kept[k]]
    <3>1. CASE k <= Len(m)
      <4>1. k \in 1 .. Len(m) /\ kept[k] = k
        BY <2>3, <3>1
      <4>2. t[k] = m[k] /\ s[k] = m[k]
        BY <1>1, <2>2, <4>1, InARowElements
      <4>3. QED
        BY <4>1, <4>2
    <3>2. CASE k > Len(m)
      <4> DEFINE n == k - Len(m)
      <4>1. n \in 1 .. Len(b) /\ kept[k] = Len(m) + 1 + n /\ k = Len(m) + 0 + n
        BY <2>3, <3>2
      <4> HIDE DEF n
      <4>2. t[Len(m) + 0 + n] = b[n] /\ s[Len(m) + 1 + n] = b[n]
        <5>1. t[Len(m) + Len(<<>>) + n] = b[n]
          BY <1>1, <2>2, <4>1, InARowElements
        <5>2. s[Len(m) + Len(h) + n] = b[n]
          BY <1>1, <4>1, InARowElements
        <5>3. QED
          BY <1>5, <2>2, <5>1, <5>2
      <4>3. QED
        BY <4>1, <4>2
    <3>3. QED
      BY <2>3, <3>1, <3>2
  <2> HIDE DEF kept, s, t
  <2>7. UnderWay(i) = s /\ UnderWay(i)' = t
    BY <1>4, <2>1 DEF s, t
  <2>8. Len(t) <= Len(s)
    BY <2>3
  <2>9. QED
    BY <1>2, <1>3, <2>4, <2>5, <2>6, <2>7, <2>8, FifoLoses
<1>6. ASSUME UnderWay(i)' = UnderWay(i)
      PROVE  UNCHANGED Fifo!fifoVars
  BY <1>2, <1>3, <1>6, FifoStutters
<1>7. CASE RecvFrom(i)
  <2>1. /\ h = <<>> /\ b # <<>> /\ mq'[i] = m /\ held'[i] = <<Head(b)>>
        /\ sockbuf'[i] = Tail(b)
    BY <1>7 DEF RecvFrom, HeldInv, TypeOK
  <2>2. UnderWay(i)' = m \o <<Head(b)>> \o Tail(b)
    BY <2>1 DEF UnderWay
  <2> HIDE DEF m, h, b
  <2>3. m \o <<Head(b)>> \o Tail(b) = m \o h \o b
    BY <1>1, <2>1
  <2>4. QED
    BY <1>4, <1>6, <2>2, <2>3
<1>8. CASE DiscardPacket(i)
  <2>1. Len(h) = 1 /\ mq'[i] = m /\ held'[i] = <<>> /\ sockbuf'[i] = b
    BY <1>8 DEF DiscardPacket, HeldInv, TypeOK
  <2>2. QED
    BY <1>5, <2>1
<1>9. CASE Stop(i)
  <2>1. (Len(h) = 1 \/ h = <<>>) /\ mq'[i] = m /\ held'[i] = <<>> /\ sockbuf'[i] = b
    BY <1>9 DEF Stop, HeldInv, TypeOK
  <2>2. CASE h = <<>>
    BY <1>6, <2>1, <2>2 DEF UnderWay
  <2>3. QED
    BY <1>5, <2>1, <2>2
<1>10. CASE QueuePacket(i)
  <2>1. Len(h) = 1 /\ mq'[i] \in {m, m \o h} /\ held'[i] = <<>> /\ sockbuf'[i] = b
    BY <1>10 DEF QueuePacket, HeldInv, TypeOK
  <2>2. CASE mq'[i] = m \o h
    <3>1. UnderWay(i)' = m \o h \o <<>> \o b
      BY <2>1, <2>2 DEF UnderWay
    <3> HIDE DEF m, h, b
    <3>2. m \o h \o <<>> \o b = m \o h \o b
      BY <1>1
    <3>3. QED
      BY <1>4, <1>6, <3>1, <3>2
  <2>3. QED
    BY <1>5, <2>1, <2>2
<1>11. QED
  BY <1>7, <1>8, <1>9, <1>10 DEF Receiver

\* Closing a slot loses what is in its socket and in its queue.
LEMMA CloseLoses ==
  ASSUME TypeOK, TypeOK', NEW i \in Slots, CloseEntry(i), UNCHANGED <<held, arrivals, received>>
  PROVE  Fifo!Lose(i)
<1> DEFINE m == mq[i]
           h == held[i]
           b == sockbuf[i]
           s == m \o h \o b
           t == <<>> \o h \o <<>>
           kept == [k \in 1 .. Len(t) |-> Len(m) + k]
<1>1. m \in Seq(Packets) /\ h \in Seq(Packets) /\ b \in Seq(Packets)
  BY DEF TypeOK
<1>2. mq'[i] = <<>> /\ sockbuf'[i] = <<>>
      /\ \A j \in Slots : j # i => mq'[j] = mq[j] /\ sockbuf'[j] = sockbuf[j]
  BY DEF CloseEntry, TypeOK
<1>3. UnderWay(i) = s /\ UnderWay(i)' = t
  BY <1>2 DEF UnderWay
<1>4. \A j \in Slots : j # i => UnderWay(j)' = UnderWay(j)
  BY <1>2 DEF UnderWay
<1> HIDE DEF m, h, b
<1>5. t = h /\ Len(s) = Len(m) + Len(h) + Len(b) /\ Len(m) \in Nat /\ Len(h) \in Nat
      /\ Len(b) \in Nat
  BY <1>1
<1> HIDE DEF t
<1>6. kept \in [1 .. Len(t) -> 1 .. Len(s)] /\ Len(t) <= Len(s)
  BY <1>5
<1>7. \A j, k \in 1 .. Len(t) : j < k => kept[j] < kept[k]
  BY <1>5
<1>8. \A k \in 1 .. Len(t) : t[k] = s[kept[k]]
  BY <1>1, <1>5
<1> HIDE DEF s, kept
<1>9. QED
  BY <1>3, <1>4, <1>6, <1>7, <1>8, FifoLoses

\* Whatever sockets, threads and queues do, a slot is a path on which packets
\* are lost at most: none is duplicated, invented or handed over out of order.
THEOREM SlotsAreLossyFifos == Spec => RefinesLossyFifo
<1>1. Init => Fifo!Init /\ HeldInv
  <2> SUFFICES ASSUME Init
               PROVE  Fifo!Init /\ HeldInv
    OBVIOUS
  <2>1. <<>> \o <<>> \o <<>> = <<>>
    OBVIOUS
  <2>2. Ids(<<>>) = <<>>
    BY DEF Ids
  <2>3. QED
    BY <2>1, <2>2 DEF Init, Fifo!Init, HeldInv
<1>2. TypeOK /\ TypeOK' /\ CallInv /\ HeldInv /\ [Next]_vars => [Fifo!Next]_(Fifo!fifoVars)
  <2> SUFFICES ASSUME TypeOK, TypeOK', CallInv, HeldInv, [Next]_vars
               PROVE  [Fifo!Next]_(Fifo!fifoVars)
    OBVIOUS
  <2>1. ASSUME NEW i \in Slots, Fifo!Lose(i) \/ Fifo!HandOver(i)
        PROVE  Fifo!Next
    BY <2>1 DEF Fifo!Next
  <2>2. CASE Network
    <3>1. \E S \in SUBSET Slots : Fifo!Capture(S)
      BY <2>2, ArriveCaptures DEF Network
    <3>2. QED
      BY <3>1 DEF Fifo!Next
  <2>3. CASE \E i \in Slots : Receiver(i)
    BY <2>1, <2>3, ReceiverMovesOrLoses
  <2>4. CASE TakePacket
    <3>1. cur \in Slots
      BY <2>4, EthPortIOAssumption DEF TakePacket, Reading, CallInv, TypeOK, Slots
    <3>2. Fifo!HandOver(cur)
      BY <2>4, <3>1, TakeHandsOver DEF TakePacket, rxVars
    <3>3. QED
      BY <2>1, <3>1, <3>2
  <2>5. CASE OpenFails
    <3>1. count \in Slots
      BY <2>5, OpeningInTable DEF OpenFails, Opening
    <3>2. Fifo!Lose(count)
      BY <2>5, <3>1, CloseLoses DEF OpenFails, rxVars
    <3>3. QED
      BY <2>1, <3>1, <3>2
  <2>6. CASE ClosePort
    <3>1. cur \in Slots
      BY <2>6, EthPortIOAssumption DEF ClosePort, TypeOK, Slots
    <3>2. Fifo!Lose(cur)
      BY <2>6, <3>1, CloseLoses DEF ClosePort
    <3>3. QED
      BY <2>1, <3>1, <3>2
  <2>7. CASE UNCHANGED <<arrivals, received, mq, held, sockbuf>>
    BY <2>7, FifoStutters DEF UnderWay
  <2>8. QED
    BY <2>2, <2>3, <2>4, <2>5, <2>6, <2>7
    DEF Next, Call, Continue, TableOverrun, OpenSocket, SocketFails, EthPortReceive,
        EthPortReceiveAny, EthPortCloseAll, BindDevice, OpenRcvQueue, OpenSendQueue, StartReceiver,
        StartReceiverFails, ReceiveTimeout, ScanNext, ScanEnd, CancelCrashes, CloseLogs,
        rxVars, vars
<1>3. QED
  BY <1>1, <1>2, InitType, NextType, InitSlots, NextSlots, NextHeld, PTL
  DEF Spec, RefinesLossyFifo, Fifo!Spec

-----------------------------------------------------------------------------
(* The table is PortQueues.                                                *)

\* The queue PortQueues sees at an interface.
WaitingAt(p) == IF \E i \in Slots : FoundAt(i, p)
                THEN mq[CHOOSE i \in Slots : FoundAt(i, p)] ELSE <<>>
Waiting == [p \in Names |-> WaitingAt(p)]

\* The slots that count as open are those found by their names, one each ...
FoundView ==
  \A p \in Names : \A i \in Slots :
    /\ FoundAt(i, p) <=> FirstOpen <= i /\ i < count /\ table[i].portName = p
    /\ FoundAt(i, p) => \A j \in Slots : FoundAt(j, p) => j = i

\* ... what waits at an interface is the queue of its slot ...
WaitingView ==
  \A p \in Names : /\ \A i \in Slots : FoundAt(i, p) => WaitingAt(p) = mq[i]
                   /\ ~IsOpen(p) => WaitingAt(p) = <<>>

\* ... and the ports PortQueues sees are the slots that count as open.
OpenView ==
  /\ OpenNames \in Seq(Names) /\ Len(OpenNames) = count - FirstOpen
  /\ FirstOpen \in Nat /\ count \in Nat /\ FirstOpen <= count
  /\ \A n \in 1 .. count - FirstOpen :
       /\ FirstOpen + n - 1 \in Slots
       /\ OpenNames[n] = table[FirstOpen + n - 1].portName
  /\ \A p \in Names : IsOpen(p) <=> \E n \in DOMAIN OpenNames : OpenNames[n] = p

PortView == FoundView /\ WaitingView /\ OpenView

\* A name is found in one slot that counts as open, or not at all.
LEMMA FoundIsLive == TypeOK /\ SlotsInv => FoundView
<1> SUFFICES ASSUME TypeOK, SlotsInv, NEW p \in Names
             PROVE  \A i \in Slots :
                      /\ FoundAt(i, p) <=> FirstOpen <= i /\ i < count /\ table[i].portName = p
                      /\ FoundAt(i, p) => \A j \in Slots : FoundAt(j, p) => j = i
  BY DEF FoundView
<1>1. ASSUME NEW j \in Slots
      PROVE  FoundAt(j, p) <=> FirstOpen <= j /\ j < count /\ table[j].portName = p
  <2>1. j < FirstOpen => table[j].portName # p
    BY EthPortIOAssumption DEF SlotsInv, ClosedSlots
  <2>2. QED
    BY <2>1, SlotOrder DEF FoundAt
<1>2. QED
  BY <1>1 DEF SlotsInv, LiveSlots

\* So the CHOOSE of the refinement mapping finds that slot.
LEMMA WaitingFound == FoundView => WaitingView
<1> SUFFICES ASSUME FoundView, NEW p \in Names
             PROVE  /\ \A i \in Slots : FoundAt(i, p) => WaitingAt(p) = mq[i]
                    /\ ~IsOpen(p) => WaitingAt(p) = <<>>
  BY DEF WaitingView
<1>1. ASSUME NEW i \in Slots, FoundAt(i, p)
      PROVE  WaitingAt(p) = mq[i]
  <2>1. \A j \in Slots : FoundAt(j, p) => j = i
    BY <1>1 DEF FoundView
  <2>2. (CHOOSE j \in Slots : FoundAt(j, p)) = i
    BY <1>1, <2>1
  <2>3. QED
    BY <1>1, <2>2 DEF WaitingAt
<1>2. QED
  BY <1>1 DEF WaitingAt, IsOpen

\* And OpenNames lists the slots that count as open.
LEMMA OpenNamesAre == TypeOK /\ SlotsInv => OpenView
<1> SUFFICES ASSUME TypeOK, SlotsInv
             PROVE  OpenView
  OBVIOUS
<1>1. OpenNames = [n \in 1 .. count - FirstOpen |-> table[FirstOpen + n - 1].portName]
  BY DEF OpenNames, FirstOpen
<1>2. /\ FirstOpen \in Nat /\ count \in Nat /\ FirstOpen <= count /\ count <= MaxEthPortCount
      /\ MaxEthPortCount \in Nat
  BY SlotOrder, EthPortIOAssumption DEF SlotsInv, TypeOK
<1>3. \A n \in 1 .. count - FirstOpen :
        /\ FirstOpen + n - 1 \in Slots
        /\ FirstOpen <= FirstOpen + n - 1 /\ FirstOpen + n - 1 < count
  BY <1>2 DEF Slots
<1>4. \A n \in 1 .. count - FirstOpen : table[FirstOpen + n - 1].portName \in Names
  BY <1>3 DEF SlotsInv, LiveSlots
<1>5. OpenNames \in Seq(Names) /\ Len(OpenNames) = count - FirstOpen
  BY <1>1, <1>2, <1>4
<1>6. ASSUME NEW p \in Names
      PROVE  IsOpen(p) <=> \E n \in DOMAIN OpenNames : OpenNames[n] = p
  <2>1. ASSUME NEW i \in Slots, FoundAt(i, p)
        PROVE  \E n \in DOMAIN OpenNames : OpenNames[n] = p
    <3>1. FirstOpen <= i /\ i < count /\ table[i].portName = p /\ i \in Nat
      BY <2>1, FoundIsLive, SlotOrder DEF FoundView
    <3> DEFINE n == i - FirstOpen + 1
    <3>2. n \in 1 .. count - FirstOpen /\ FirstOpen + n - 1 = i
      BY <1>2, <3>1
    <3> HIDE DEF n
    <3>3. QED
      BY <1>1, <3>1, <3>2
  <2>2. ASSUME NEW n \in DOMAIN OpenNames, OpenNames[n] = p
        PROVE  IsOpen(p)
    <3>1. n \in 1 .. count - FirstOpen
      BY <1>1
    <3>2. FoundAt(FirstOpen + n - 1, p)
      BY <1>1, <1>3, <2>2, <3>1 DEF FoundAt
    <3>3. QED
      BY <1>3, <3>1, <3>2 DEF IsOpen
  <2>3. QED
    BY <2>1, <2>2 DEF IsOpen
<1>7. QED
  BY <1>1, <1>2, <1>3, <1>5, <1>6 DEF OpenView

\* A step that PortQueues does not see: the slots that count as open, their
\* names and their queues stay.
LEMMA PortsStutter ==
  ASSUME PortView, PortView', UNCHANGED <<count, FirstOpen>>,
         \A i \in Slots : FirstOpen <= i /\ i < count =>
           table'[i].portName = table[i].portName /\ mq'[i] = mq[i]
  PROVE  UNCHANGED Queues!pqVars
<1>1. ASSUME NEW p \in Names, NEW i \in Slots
      PROVE  FoundAt(i, p)' <=> FoundAt(i, p)
  BY DEF PortView, FoundView
<1>2. ASSUME NEW p \in Names
      PROVE  WaitingAt(p)' = WaitingAt(p)
  <2>1. CASE IsOpen(p)
    <3>1. PICK i \in Slots : FoundAt(i, p)
      BY <2>1 DEF IsOpen
    <3>2. FoundAt(i, p)' /\ mq'[i] = mq[i]
      BY <1>1, <3>1 DEF PortView, FoundView
    <3>3. QED
      BY <3>1, <3>2 DEF PortView, WaitingView
  <2>2. CASE ~IsOpen(p)
    <3>1. ~IsOpen(p)'
      BY <1>1, <2>2 DEF IsOpen
    <3>2. QED
      BY <2>2, <3>1 DEF PortView, WaitingView
  <2>3. QED
    BY <2>1, <2>2
<1>3. Waiting' = Waiting
  BY <1>2 DEF Waiting
<1>4. OpenNames' = OpenNames
  <2>1. \A n \in 1 .. count - FirstOpen : OpenNames'[n] = OpenNames[n]
    <3>1. FirstOpen \in Nat /\ count \in Nat
      BY DEF PortView, OpenView
    <3> SUFFICES ASSUME NEW n \in 1 .. count - FirstOpen
                 PROVE  OpenNames'[n] = OpenNames[n]
      OBVIOUS
    <3>2. /\ FirstOpen + n - 1 \in Slots
          /\ OpenNames[n] = table[FirstOpen + n - 1].portName
      BY DEF PortView, OpenView
    <3>3. OpenNames'[n] = table'[FirstOpen + n - 1].portName
      BY DEF PortView, OpenView
    <3>4. FirstOpen <= FirstOpen + n - 1 /\ FirstOpen + n - 1 < count
      BY <3>1
    <3>5. QED
      BY <3>2, <3>3, <3>4
  <2>2. QED
    BY <2>1, SeqEqual DEF PortView, OpenView
<1>5. QED
  BY <1>3, <1>4 DEF Queues!pqVars, Waiting, WaitingAt

\* One queue of a slot that counts as open changes: for PortQueues, that of one
\* open port does.
LEMMA OneQueueChanges ==
  ASSUME PortView, PortView', SlotsInv, UNCHANGED <<table, count, FirstOpen>>,
         NEW i \in Slots, FirstOpen <= i, i < count,
         \A j \in Slots : j # i => mq'[j] = mq[j]
  PROVE  \E p \in Names : /\ \E n \in DOMAIN OpenNames : OpenNames[n] = p
                          /\ Waiting[p] = mq[i]
                          /\ Waiting' = [Waiting EXCEPT ![p] = mq'[i]]
                          /\ UNCHANGED OpenNames
<1>1. PICK p \in Names : p = table[i].portName
  BY DEF SlotsInv, LiveSlots
<1>2. FoundAt(i, p)
  BY <1>1 DEF PortView, FoundView
<1>3. ASSUME NEW q \in Names, NEW j \in Slots
      PROVE  FoundAt(j, q)' <=> FoundAt(j, q)
  BY DEF PortView, FoundView
<1>4. IsOpen(p) /\ \E n \in DOMAIN OpenNames : OpenNames[n] = p
  BY <1>1, <1>2 DEF IsOpen, PortView, OpenView
<1>5. WaitingAt(p) = mq[i] /\ WaitingAt(p)' = mq'[i]
  <2>1. FoundAt(i, p)'
    BY <1>2, <1>3
  <2>2. QED
    BY <1>2, <2>1 DEF PortView, WaitingView
<1>6. ASSUME NEW q \in Names, q # p
      PROVE  WaitingAt(q)' = WaitingAt(q)
  <2>1. CASE IsOpen(q)
    <3>1. PICK j \in Slots : FoundAt(j, q)
      BY <2>1 DEF IsOpen
    <3>2. j # i
      BY <1>1, <1>6, <3>1 DEF PortView, FoundView
    <3>3. FoundAt(j, q)' /\ mq'[j] = mq[j]
      BY <1>3, <3>1, <3>2
    <3>4. QED
      BY <3>1, <3>3 DEF PortView, WaitingView
  <2>2. CASE ~IsOpen(q)
    <3>1. ~IsOpen(q)'
      BY <1>3, <2>2 DEF IsOpen
    <3>2. QED
      BY <2>2, <3>1 DEF PortView, WaitingView
  <2>3. QED
    BY <2>1, <2>2
<1>7. Waiting[p] = mq[i] /\ Waiting' = [Waiting EXCEPT ![p] = mq'[i]]
  BY <1>5, <1>6 DEF Waiting
<1>8. UNCHANGED OpenNames
  <2>1. OpenNames = [n \in 1 .. count - FirstOpen |-> table[FirstOpen + n - 1].portName]
    BY DEF OpenNames, FirstOpen
  <2>2. OpenNames' = [n \in 1 .. count' - FirstOpen' |-> table'[FirstOpen' + n - 1].portName]
    BY DEF OpenNames, FirstOpen
  <2>3. QED
    BY <2>1, <2>2
<1>9. QED
  BY <1>4, <1>7, <1>8

\* Taking the oldest packet of a queue is taking it from that port.
LEMMA TakeIsTake ==
  ASSUME TypeOK, CallInv, SlotsInv, PortView, PortView', TakePacket
  PROVE  Queues!Next
<1>1. FirstOpen = 0 /\ FirstOpen' = 0 /\ UNCHANGED <<table, count>> /\ cur < count
  BY DEF TakePacket, Reading, CallInv, FirstOpen, Ending
<1>2. cur \in Slots
  BY <1>1, EthPortIOAssumption DEF TypeOK, Slots
<1>3. FirstOpen <= cur /\ UNCHANGED FirstOpen
  BY <1>1, <1>2 DEF Slots
<1>4. /\ mq[cur] # <<>> /\ mq'[cur] = Tail(mq[cur])
      /\ \A j \in Slots : j # cur => mq'[j] = mq[j]
  BY <1>2 DEF TakePacket, TypeOK
<1>5. PICK p \in Names : /\ \E n \in DOMAIN OpenNames : OpenNames[n] = p
                         /\ Waiting[p] = mq[cur]
                         /\ Waiting' = [Waiting EXCEPT ![p] = mq'[cur]]
                         /\ UNCHANGED OpenNames
  BY <1>1, <1>2, <1>3, <1>4, OneQueueChanges
<1>6. Waiting[p] # <<>> /\ Waiting' = [Waiting EXCEPT ![p] = Tail(Waiting[p])]
  BY <1>4, <1>5
<1>7. Queues!Take(p)
  BY <1>5, <1>6 DEF Queues!Take, Queues!IsOpen, Waiting, WaitingAt
<1>8. QED
  BY <1>7 DEF Queues!Next

\* A receiver thread delivers to a port that counts as open, or is not seen: a
\* thread that may still queue packets is not that of a closed slot, nor of
\* the slot being opened.
LEMMA ReceiverDelivers ==
  ASSUME TypeOK, HeldInv, SlotsInv, PortView, PortView', NEW i \in Slots, Receiver(i)
  PROVE  [Queues!Next]_(Queues!pqVars)
<1>1. UNCHANGED <<pc, cur, table, count>>
  BY DEF Receiver, RecvFrom, DiscardPacket, QueuePacket, Stop, mainVars
<1>2. UNCHANGED FirstOpen
  BY <1>1 DEF FirstOpen, Ending
<1>3. CASE UNCHANGED mq
  BY <1>1, <1>2, <1>3, PortsStutter
<1>4. CASE QueuePacket(i) /\ Len(mq[i]) < MqMaxMsg
  <2>1. rx[i] # "none" /\ ~cancel[i] /\ table[i].thread = "running"
    BY <1>4 DEF QueuePacket, SlotsInv, ThreadsKnown
  <2>2. FirstOpen <= i
    BY <2>1, SlotOrder DEF SlotsInv, ClosedSlots, Released
  <2>3. i < count
    BY <2>1, SlotOrder DEF SlotsInv, FailedOpenLeaksNothing, SlotBeingOpened
  <2>4. PICK m \in Packets : held[i] = <<m>>
    <3>1. held[i] \in Seq(Packets) /\ Len(held[i]) = 1
      BY <1>4 DEF QueuePacket, HeldInv, TypeOK
    <3>2. held[i] = <<held[i][1]>> /\ held[i][1] \in Packets
      BY <3>1
    <3>3. QED
      BY <3>2
  <2>5. mq'[i] = Append(mq[i], m) /\ \A j \in Slots : j # i => mq'[j] = mq[j]
    <3>1. mq[i] \in Seq(Packets) /\ mq'[i] = mq[i] \o <<m>>
      BY <1>4, <2>4 DEF QueuePacket, TypeOK
    <3>2. \A j \in Slots : j # i => mq'[j] = mq[j]
      BY <1>4 DEF QueuePacket, TypeOK
    <3>3. QED
      BY <3>1, <3>2
  <2>6. PICK p \in Names : /\ \E n \in DOMAIN OpenNames : OpenNames[n] = p
                           /\ Waiting[p] = mq[i]
                           /\ Waiting' = [Waiting EXCEPT ![p] = mq'[i]]
                           /\ UNCHANGED OpenNames
    BY <1>1, <1>2, <2>2, <2>3, <2>5, OneQueueChanges
  <2>7. Len(Waiting[p]) < MqMaxMsg /\ Waiting' = [Waiting EXCEPT ![p] = Append(Waiting[p], m)]
    BY <1>4, <2>5, <2>6
  <2>8. Queues!Deliver(p, m)
    BY <2>6, <2>7 DEF Queues!Deliver, Queues!IsOpen, Waiting, WaitingAt
  <2>9. QED
    BY <2>8 DEF Queues!Next
<1>5. CASE QueuePacket(i) /\ ~(Len(mq[i]) < MqMaxMsg)
  <2>1. UNCHANGED mq
    BY <1>5 DEF QueuePacket, TypeOK
  <2>2. QED
    BY <1>3, <2>1
<1>6. QED
  BY <1>3, <1>4, <1>5 DEF Receiver, RecvFrom, DiscardPacket, Stop

\* A port whose last step of opening is done, or taken for done, is a new port
\* with nothing waiting at it.
LEMMA StartIsOpen ==
  ASSUME TypeOK, CallInv, SlotsInv, PortView, PortView', StartReceiver \/ StartReceiverFails
  PROVE  Queues!Next
<1>1. Opening /\ pc = "queues" /\ count \in Slots
  BY OpeningInTable DEF StartReceiver, StartReceiverFails, Opening
<1>2. FirstOpen = 0 /\ FirstOpen' = 0 /\ count' = count + 1 /\ UNCHANGED mq
  BY DEF StartReceiver, StartReceiverFails, FirstOpen, Ending
<1>3. \A i \in Slots : table'[i].portName = table[i].portName
  <2>1. PICK handle : table' = [table EXCEPT ![count].thread = handle]
    BY DEF StartReceiver, StartReceiverFails
  <2>2. QED
    BY <1>1, <2>1 DEF TypeOK
<1>4. PICK p \in Names : p = table[count].portName
  BY <1>1 DEF SlotsInv, SlotBeingOpened
<1>5. count \in Nat /\ Slots \subseteq Nat
  BY SlotOrder
<1>6. ASSUME NEW q \in Names, q # p, NEW i \in Slots
      PROVE  FoundAt(i, q)' <=> FoundAt(i, q)
  <2>1. FoundAt(i, q) <=> 0 <= i /\ i < count /\ table[i].portName = q
    BY <1>2 DEF PortView, FoundView
  <2>2. FoundAt(i, q)' <=> 0 <= i /\ i < count + 1 /\ table'[i].portName = q
    BY <1>2 DEF PortView, FoundView
  <2>3. QED
    BY <1>3, <1>4, <1>5, <1>6, <2>1, <2>2
<1>7. ~IsOpen(p)
  BY <1>1, <1>4 DEF IsOpen, FoundAt, SlotsInv, SlotBeingOpened
<1>8. PICK c \in Slots : c = count
  BY <1>1
<1>9. WaitingAt(p) = <<>> /\ WaitingAt(p)' = <<>>
  <2>1. mq'[c] = <<>>
    BY <1>1, <1>2, <1>8 DEF SlotsInv, SlotBeingOpened
  <2>2. FoundAt(c, p)'
    BY <1>2, <1>3, <1>4, <1>5, <1>8 DEF FoundAt
  <2>3. QED
    BY <1>7, <2>1, <2>2 DEF PortView, WaitingView
<1>10. ASSUME NEW q \in Names, q # p
       PROVE  WaitingAt(q)' = WaitingAt(q)
  <2>1. CASE IsOpen(q)
    <3>1. PICK i \in Slots : FoundAt(i, q)
      BY <2>1 DEF IsOpen
    <3>2. FoundAt(i, q)'
      BY <1>6, <1>10, <3>1
    <3>3. QED
      BY <1>2, <3>1, <3>2 DEF PortView, WaitingView
  <2>2. CASE ~IsOpen(q)
    <3>1. ~IsOpen(q)'
      BY <1>6, <1>10, <2>2 DEF IsOpen
    <3>2. QED
      BY <2>2, <3>1 DEF PortView, WaitingView
  <2>3. QED
    BY <2>1, <2>2
<1>11. Waiting[p] = <<>> /\ UNCHANGED Waiting
  BY <1>9, <1>10 DEF Waiting
<1>12. OpenNames' = Append(OpenNames, p)
  <2>1. OpenNames \in Seq(Names) /\ Len(OpenNames) = count
    BY <1>2, <1>5 DEF PortView, OpenView
  <2>2. OpenNames' \in Seq(Names) /\ Len(OpenNames') = count + 1
    BY <1>2, <1>5 DEF PortView, OpenView
  <2>3. ASSUME NEW n \in 1 .. count + 1
        PROVE  OpenNames'[n] = Append(OpenNames, p)[n]
    <3>1. n - 1 \in Slots /\ OpenNames'[n] = table'[n - 1].portName
      <4>1. n \in 1 .. count' - FirstOpen' /\ FirstOpen' + n - 1 = n - 1
        BY <1>2, <1>5
      <4>2. /\ FirstOpen' + n - 1 \in Slots
            /\ OpenNames'[n] = table'[FirstOpen' + n - 1].portName
        BY <4>1 DEF PortView, OpenView
      <4>3. QED
        BY <4>1, <4>2
    <3>2. CASE n <= count
      <4>1. n \in 1 .. count - FirstOpen /\ FirstOpen + n - 1 = n - 1
        BY <1>2, <1>5, <3>2
      <4>2. OpenNames[n] = table[FirstOpen + n - 1].portName
        BY <4>1 DEF PortView, OpenView
      <4>3. Append(OpenNames, p)[n] = OpenNames[n]
        BY <1>5, <2>1, <3>2
      <4>4. QED
        BY <1>3, <3>1, <4>1, <4>2, <4>3
    <3>3. CASE n = count + 1
      <4>1. Append(OpenNames, p)[n] = p /\ n - 1 = count
        BY <1>5, <2>1, <3>3
      <4>2. QED
        BY <1>1, <1>3, <1>4, <3>1, <4>1
    <3>4. n <= count \/ n = count + 1
      BY <1>5
    <3>5. QED
      BY <3>2, <3>3, <3>4
  <2>4. Append(OpenNames, p) \in Seq(Names) /\ Len(Append(OpenNames, p)) = count + 1
    BY <2>1
  <2>5. QED
    BY <2>2, <2>3, <2>4, SeqEqual
<1>13. ~\E n \in DOMAIN OpenNames : OpenNames[n] = p
  BY <1>7 DEF PortView, OpenView
<1>14. Queues!Open(p)
  BY <1>11, <1>12, <1>13 DEF Queues!Open, Queues!IsOpen, Waiting, WaitingAt
<1>15. QED
  BY <1>14 DEF Queues!Next

\* Closing the next slot is closing the port that was opened first.
LEMMA CloseIsClose ==
  ASSUME TypeOK, SlotsInv, PortView, PortView', ClosePort
  PROVE  Queues!Next
<1>1. /\ FirstOpen = cur /\ FirstOpen' = cur + 1 /\ count' = count /\ cur < count
      /\ cur \in Nat /\ count \in Nat
  BY EthPortIOAssumption DEF ClosePort, FirstOpen, Ending, TypeOK
<1>2. cur \in Slots
  BY <1>1, EthPortIOAssumption DEF TypeOK, Slots
<1>3. \A i \in Slots : i # cur => table'[i] = table[i] /\ mq'[i] = mq[i]
  BY <1>2 DEF ClosePort, CloseEntry, TypeOK
<1>4. PICK p \in Names : p = table[cur].portName
  BY <1>1, <1>2 DEF SlotsInv, LiveSlots
<1>5. FoundAt(cur, p) /\ OpenNames[1] = p
  <2>1. FoundAt(cur, p)
    BY <1>1, <1>2, <1>4 DEF FoundAt
  <2>2. 1 \in 1 .. count - FirstOpen /\ FirstOpen + 1 - 1 = cur
    BY <1>1
  <2>3. OpenNames[1] = table[FirstOpen + 1 - 1].portName
    BY <2>2 DEF PortView, OpenView
  <2>4. QED
    BY <1>4, <2>1, <2>2, <2>3
<1>6. ASSUME NEW q \in Names, NEW i \in Slots
      PROVE  FoundAt(i, q)' <=> FoundAt(i, q) /\ q # p
  <2>1. FoundAt(i, q) <=> cur <= i /\ i < count /\ table[i].portName = q
    BY <1>1 DEF PortView, FoundView
  <2>2. FoundAt(i, q)' <=> cur + 1 <= i /\ i < count /\ table'[i].portName = q
    BY <1>1 DEF PortView, FoundView
  <2>3. FoundAt(i, p) => i = cur
    BY <1>2, <1>5 DEF PortView, FoundView
  <2>4. CASE i = cur
    BY <1>1, <1>4, <2>1, <2>2, <2>4
  <2>5. CASE i # cur
    BY <1>1, <1>3, <2>1, <2>2, <2>3, <2>5, SlotOrder
  <2>6. QED
    BY <2>4, <2>5
<1>7. WaitingAt(p)' = <<>>
  <2>1. ~IsOpen(p)'
    BY <1>6 DEF IsOpen
  <2>2. QED
    BY <2>1 DEF PortView, WaitingView
<1>8. ASSUME NEW q \in Names, q # p
      PROVE  WaitingAt(q)' = WaitingAt(q)
  <2>1. CASE IsOpen(q)
    <3>1. PICK i \in Slots : FoundAt(i, q)
      BY <2>1 DEF IsOpen
    <3>2. FoundAt(i, q)' /\ i # cur
      BY <1>4, <1>6, <1>8, <3>1 DEF FoundAt
    <3>3. QED
      BY <1>3, <3>1, <3>2 DEF PortView, WaitingView
  <2>2. CASE ~IsOpen(q)
    <3>1. ~IsOpen(q)'
      BY <1>6, <2>2 DEF IsOpen
    <3>2. QED
      BY <2>2, <3>1 DEF PortView, WaitingView
  <2>3. QED
    BY <2>1, <2>2
<1>9. Waiting' = [q \in Names |-> IF \E n \in 1 .. 1 : OpenNames[n] = q
                                  THEN <<>> ELSE Waiting[q]]
  BY <1>5, <1>7, <1>8 DEF Waiting
<1>10. Len(OpenNames) = count - cur /\ OpenNames \in Seq(Names)
  BY <1>1 DEF PortView, OpenView
<1>11. OpenNames' = SubSeq(OpenNames, 2, Len(OpenNames))
  <2> DEFINE rest == SubSeq(OpenNames, 2, Len(OpenNames))
  <2>1. OpenNames' \in Seq(Names) /\ Len(OpenNames') = count - cur - 1
    BY <1>1 DEF PortView, OpenView
  <2>2. /\ rest \in Seq(Names) /\ Len(rest) = count - cur - 1
        /\ \A n \in 1 .. count - cur - 1 : rest[n] = OpenNames[n + 1]
    BY <1>1, <1>10
  <2> HIDE DEF rest
  <2>3. ASSUME NEW n \in 1 .. count - cur - 1
        PROVE  OpenNames'[n] = rest[n]
    <3>1. /\ n \in 1 .. count' - FirstOpen' /\ FirstOpen' + n - 1 = cur + n
          /\ n + 1 \in 1 .. count - FirstOpen /\ FirstOpen + (n + 1) - 1 = cur + n
          /\ cur + n # cur
      BY <1>1
    <3>2. cur + n \in Slots /\ OpenNames'[n] = table'[cur + n].portName
      <4>1. /\ FirstOpen' + n - 1 \in Slots
            /\ OpenNames'[n] = table'[FirstOpen' + n - 1].portName
        BY <3>1 DEF PortView, OpenView
      <4>2. QED
        BY <3>1, <4>1
    <3>3. OpenNames[n + 1] = table[cur + n].portName
      <4>1. OpenNames[n + 1] = table[FirstOpen + (n + 1) - 1].portName
        BY <3>1 DEF PortView, OpenView
      <4>2. QED
        BY <3>1, <4>1
    <3>4. QED
      BY <1>3, <2>2, <3>1, <3>2, <3>3
  <2>4. QED
    BY <2>1, <2>2, <2>3, SeqEqual DEF rest
<1>12. Queues!Close(1)
  <2>1. 1 + 1 = 2
    OBVIOUS
  <2>2. QED
    BY <1>9, <1>11, <2>1 DEF Queues!Close, Waiting, WaitingAt
<1>13. 1 \in 1 .. Len(OpenNames)
  BY <1>1, <1>10
<1>14. QED
  BY <1>12, <1>13 DEF Queues!Next

\* What the script engine takes the ports to be: a port counts as open when it
\* can be read and sent on, its queue starts empty, loses nothing it has taken
\* before it is closed, and no other port disturbs it.
THEOREM PortsArePortQueues == Spec => RefinesPortQueues
<1>1. Init => Queues!Init
  <2> SUFFICES ASSUME Init
               PROVE  Queues!Init
    OBVIOUS
  <2>1. OpenNames = <<>>
    BY DEF Init, OpenNames, Ending
  <2>2. \A i \in Slots : \A p \in Names : ~FoundAt(i, p)
    BY EthPortIOAssumption DEF Init, FoundAt, Slots
  <2>3. QED
    BY <2>1, <2>2 DEF Queues!Init
<1>2. TypeOK /\ SlotsInv => PortView
  BY FoundIsLive, WaitingFound, OpenNamesAre DEF PortView
<1>3. TypeOK /\ CallInv /\ SlotsInv /\ HeldInv /\ PortView /\ PortView' /\ [Next]_vars
        => [Queues!Next]_(Queues!pqVars)
  <2> SUFFICES ASSUME TypeOK, CallInv, SlotsInv, HeldInv, PortView, PortView', [Next]_vars
               PROVE  [Queues!Next]_(Queues!pqVars)
    OBVIOUS
  <2>1. CASE TakePacket
    BY <2>1, TakeIsTake
  <2>2. CASE StartReceiver \/ StartReceiverFails
    BY <2>2, StartIsOpen
  <2>3. CASE ClosePort
    BY <2>3, CloseIsClose
  <2>4. CASE \E i \in Slots : Receiver(i)
    BY <2>4, ReceiverDelivers
  <2>5. CASE UNCHANGED <<pc, cur, table, count, mq>>
    BY <2>5, PortsStutter DEF FirstOpen, Ending
  <2>6. CASE EthPortReceiveAny \/ EthPortCloseAll \/ ReceiveTimeout \/ ScanNext \/ ScanEnd
             \/ (\E name \in Names : EthPortReceive(name))
    <3>1. FirstOpen = 0 /\ FirstOpen' = 0 /\ UNCHANGED <<table, count, mq>>
      BY <2>6 DEF EthPortReceiveAny, EthPortCloseAll, ReceiveTimeout, ScanNext, ScanEnd,
                  EthPortReceive, FirstOpen, Ending
    <3>2. QED
      BY <3>1, PortsStutter
  <2>7. CASE CancelCrashes \/ CloseLogs
    <3>1. FirstOpen = cur /\ FirstOpen' = cur /\ UNCHANGED <<table, count, mq>>
      BY <2>7 DEF CancelCrashes, CloseLogs, FirstOpen, Ending
    <3>2. QED
      BY <3>1, PortsStutter
  <2>8. CASE \/ BindDevice \/ OpenRcvQueue \/ OpenSendQueue \/ OpenFails
             \/ \E name \in Names : TableOverrun(name) \/ OpenSocket(name) \/ SocketFails(name)
    <3>1. FirstOpen = 0 /\ FirstOpen' = 0 /\ UNCHANGED count
      BY <2>8 DEF BindDevice, OpenRcvQueue, OpenSendQueue, OpenFails, TableOverrun,
                  OpenSocket, SocketFails, FirstOpen, Ending
    <3>2. ASSUME NEW i \in Slots, i < count
          PROVE  table'[i].portName = table[i].portName /\ mq'[i] = mq[i]
      <4>1. i # count
        BY <3>2, SlotOrder
      <4>2. QED
        BY <2>8, <4>1 DEF BindDevice, OpenRcvQueue, OpenSendQueue, OpenFails, CloseEntry, TableOverrun,
                          OpenSocket, SocketFails, TypeOK
    <3>3. QED
      BY <3>1, <3>2, PortsStutter
  <2>9. QED
    BY <2>1, <2>2, <2>3, <2>4, <2>5, <2>6, <2>7, <2>8
    DEF Next, Call, Continue, Network, Arrive, mainVars, vars
<1>4. Init => HeldInv
  BY DEF Init, HeldInv
<1>5. QED
  BY <1>1, <1>2, <1>3, <1>4, InitType, NextType, InitSlots, NextSlots, NextHeld, PTL
  DEF Spec, RefinesPortQueues, Queues!Spec
=============================================================================
