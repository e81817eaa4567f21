------------------------ MODULE TestScriptPortProofs ------------------------
(***************************************************************************)
(* What holds of the engine and its ports for every value of the           *)
(* constants: the clean-up of a case reads every packet that was queued    *)
(* when it began, and what the engine takes the ports to be is PortQueues. *)
(***************************************************************************)
EXTENDS TestScriptProofs

-----------------------------------------------------------------------------
(* The invariant.                                                          *)

\* Nothing waits at a port that is not open.
ClosedPortsEmpty == \A p \in Ports \ OpenPorts : mq[p] = <<>>

\* A packet that a clean-up still owes is in its queue, and a queue that the
\* scan has passed owes none: other packets may have arrived there since.
ScanOwesNothing ==
  pc = "cleanup" =>
    /\ \A p \in Ports : owed[p] <= Len(mq[p])
    /\ mqReadable => \A j \in DOMAIN ports : j < scan => owed[ports[j]] = 0

\* What CleanupDrains rests on.
DrainInv == CleanupDrains /\ ClosedPortsEmpty /\ ScanOwesNothing /\ scan >= 1

-----------------------------------------------------------------------------
(* Lemmas on the pieces the actions are made of.                           *)

\* A step that leaves ports, queues and report alone, and is not in a clean-up
\* when it ends.
LEMMA DrainKept ==
  ASSUME DrainInv, UNCHANGED <<mqReadable, report, ports, mq>>, UNCHANGED drainVars,
         pc' # "cleanup"
  PROVE  DrainInv'
  BY DEF DrainInv, CleanupDrains, ClosedPortsEmpty, ScanOwesNothing, OpenPorts, drainVars

\* A clean-up owes what is queued when it begins.
LEMMA DrainBegins ==
  ASSUME EngineTypeOK, DrainInv, UNCHANGED <<mqReadable, report, ports, mq>>, BeginCleanup
  PROVE  DrainInv'
<1>1. \A p \in Ports : owed'[p] = Len(mq'[p]) /\ Len(mq'[p]) \in Nat
  BY DEF BeginCleanup, EngineTypeOK, PortTypeOK
<1>2. ScanOwesNothing'
  <2>1. \A p \in Ports : owed'[p] <= Len(mq'[p])
    BY <1>1
  <2>2. scan' = 1 /\ \A j \in DOMAIN ports' : ~(j < scan')
    BY DEF BeginCleanup, EngineTypeOK, PortTypeOK
  <2>3. QED
    BY <2>1, <2>2 DEF ScanOwesNothing
<1>3. QED
  BY <1>2 DEF BeginCleanup, DrainInv, CleanupDrains, ClosedPortsEmpty, OpenPorts

\* Once the scan is through, no port owes a packet, and the line that is
\* printed says so.
LEMMA DrainedReport ==
  ASSUME EngineTypeOK, DrainInv, Drained, PrintFinalResult, UNCHANGED mqReadable
  PROVE  CleanupDrains'
<1>1. CASE ~mqReadable \/ result = "UNKNOWN"
  BY <1>1 DEF PrintFinalResult, DrainInv, CleanupDrains
<1>2. CASE mqReadable /\ result # "UNKNOWN"
  <2>1. ASSUME NEW p \in Ports
        PROVE  ~(owed[p] > 0)
    <3>1. CASE p \in OpenPorts
      <4>1. PICK j \in DOMAIN ports : ports[j] = p
        BY <3>1 DEF OpenPorts
      <4>2. j < scan
        BY DEF Drained, DrainInv, EngineTypeOK, PortTypeOK, DrainTypeOK
      <4>3. owed[p] = 0
        BY <1>2, <4>1, <4>2 DEF Drained, DrainInv, ScanOwesNothing
      <4>4. QED
        BY <4>3
    <3>2. CASE p \notin OpenPorts
      <4>1. mq[p] = <<>>
        BY <3>2 DEF DrainInv, ClosedPortsEmpty
      <4>2. owed[p] <= 0 /\ owed[p] \in Nat
        BY <4>1 DEF Drained, DrainInv, ScanOwesNothing, EngineTypeOK, DrainTypeOK
      <4>3. QED
        BY <4>2
    <3>3. QED
      BY <3>1, <3>2
  <2> DEFINE line == [id |-> caseId, verdict |-> result, evidence |-> evidence,
                      unread |-> {p \in Ports : owed[p] > 0}]
  <2>2. report' = Append(report, line) /\ line.unread = {}
    BY <1>2, <2>1 DEF PrintFinalResult
  <2> HIDE DEF line
  <2>3. report \in Seq(ReportLines)
    BY DEF EngineTypeOK, ReportTypeOK
  <2>4. ASSUME NEW i \in DOMAIN report'
        PROVE  report'[i] = line \/ (i \in DOMAIN report /\ report'[i] = report[i])
    BY <2>2, <2>3, <2>4
  <2>5. QED
    BY <1>2, <2>2, <2>4 DEF DrainInv, CleanupDrains
<1>3. QED
  BY <1>1, <1>2

\* A port that is opened has nothing waiting, and the others stay.
LEMMA OpenKeepsEmpty ==
  ASSUME EngineTypeOK, ClosedPortsEmpty, NEW q \in Ports, OpenPort(q), UNCHANGED mq
  PROVE  ClosedPortsEmpty'
<1>1. CASE q \in OpenPorts
  BY <1>1 DEF OpenPort, ClosedPortsEmpty, OpenPorts
<1>2. CASE q \notin OpenPorts
  <2>1. ports' = Append(ports, q) /\ ports \in Seq(Ports)
    BY <1>2 DEF OpenPort, EngineTypeOK, PortTypeOK
  <2>2. ASSUME NEW p \in OpenPorts
        PROVE  p \in OpenPorts'
    <3>1. PICK j \in DOMAIN ports : ports[j] = p
      BY DEF OpenPorts
    <3>2. j \in DOMAIN ports' /\ ports'[j] = p
      BY <2>1, <3>1
    <3>3. QED
      BY <3>2 DEF OpenPorts
  <2>3. QED
    BY <2>2 DEF ClosedPortsEmpty
<1>3. QED
  BY <1>1, <1>2

\* A packet waits only at a port that is open.
LEMMA WaitingIsOpen ==
  ASSUME ClosedPortsEmpty, NEW p \in Ports, mq[p] # <<>>
  PROVE  p \in OpenPorts
  BY DEF ClosedPortsEmpty

-----------------------------------------------------------------------------
(* The steps.                                                              *)

\* The steps of the drain loop preserve DrainInv.
LEMMA ScanDrains ==
  ASSUME EngineTypeOK, DrainInv, DrainPacket \/ DrainEmptyPort \/ DrainError,
         UNCHANGED mqReadable
  PROVE  DrainInv'
<1>1. CASE DrainPacket
  <2> DEFINE p == ports[scan]
  <2>1. p \in Ports /\ p \in OpenPorts
    BY <1>1 DEF DrainPacket, Scanning, EngineTypeOK, PortTypeOK, OpenPorts
  <2>2. /\ mq[p] # <<>>
        /\ mq' = [mq EXCEPT ![p] = Tail(@)]
        /\ owed' = [owed EXCEPT ![p] = IF @ > 0 THEN @ - 1 ELSE 0]
        /\ scan' = 1 /\ UNCHANGED <<report, ports>>
    BY <1>1 DEF DrainPacket
  <2> HIDE DEF p
  <2>3. mq \in [Ports -> Seq(Packets)] /\ owed \in [Ports -> Nat]
    BY DEF EngineTypeOK, PortTypeOK, DrainTypeOK
  <2>4. ClosedPortsEmpty'
    BY <2>1, <2>2, <2>3 DEF DrainInv, ClosedPortsEmpty, OpenPorts
  <2>5. ASSUME NEW q \in Ports
        PROVE  owed'[q] <= Len(mq'[q])
    <3>1. owed[q] <= Len(mq[q]) /\ owed[q] \in Nat /\ mq[q] \in Seq(Packets)
      BY <1>1, <2>3 DEF DrainPacket, Scanning, DrainInv, ScanOwesNothing
    <3>2. CASE q = p
      <4>1. Len(mq'[q]) = Len(mq[q]) - 1 /\ Len(mq[q]) \in Nat \ {0}
        BY <2>1, <2>2, <2>3, <3>1, <3>2
      <4>2. owed'[q] = IF owed[q] > 0 THEN owed[q] - 1 ELSE 0
        BY <2>1, <2>2, <2>3, <3>2
      <4>3. QED
        BY <3>1, <4>1, <4>2
    <3>3. CASE q # p
      BY <2>2, <2>3, <3>1, <3>3
    <3>4. QED
      BY <3>2, <3>3
  <2>6. \A j \in DOMAIN ports' : ~(j < scan')
    BY <2>2 DEF EngineTypeOK, PortTypeOK
  <2>7. QED
    BY <2>2, <2>4, <2>5, <2>6 DEF DrainInv, CleanupDrains, ScanOwesNothing
<1>2. CASE DrainEmptyPort
  <2>1. scan \in DOMAIN ports /\ ports \in Seq(Ports) /\ ports[scan] \in Ports /\ scan \in Nat
    BY <1>2 DEF DrainEmptyPort, Scanning, EngineTypeOK, PortTypeOK, DrainTypeOK
  <2>2. owed[ports[scan]] = 0
    <3>1. Len(mq[ports[scan]]) = 0
      BY <1>2 DEF DrainEmptyPort
    <3>2. owed[ports[scan]] <= 0 /\ owed[ports[scan]] \in Nat
      BY <1>2, <2>1, <3>1
      DEF DrainEmptyPort, Scanning, DrainInv, ScanOwesNothing, EngineTypeOK, DrainTypeOK
    <3>3. QED
      BY <3>2
  <2>3. scan' = scan + 1 /\ UNCHANGED <<pc, report, ports, mq, owed>>
    BY <1>2 DEF DrainEmptyPort, engineVars, portVars
  <2>4. ASSUME NEW j \in DOMAIN ports, j < scan'
        PROVE  j < scan \/ j = scan
    BY <2>1, <2>3, <2>4
  <2>5. ScanOwesNothing'
    BY <2>2, <2>3, <2>4 DEF DrainInv, ScanOwesNothing
  <2>6. QED
    BY <2>1, <2>3, <2>5 DEF DrainInv, CleanupDrains, ClosedPortsEmpty, OpenPorts
<1>3. CASE DrainError
  <2>1. ~mqReadable /\ scan' >= 1 /\ UNCHANGED <<pc, report, ports, mq, owed>>
    BY <1>3 DEF DrainError, engineVars, portVars, EngineTypeOK, PortTypeOK
  <2>2. QED
    BY <2>1 DEF DrainInv, CleanupDrains, ClosedPortsEmpty, ScanOwesNothing, OpenPorts
<1>4. QED
  BY <1>1, <1>2, <1>3

\* The steps that report a case preserve DrainInv.
LEMMA ReportDrains ==
  ASSUME EngineTypeOK, DrainInv, StartCase \/ StartUnnamedCase \/ Exit, UNCHANGED mqReadable
  PROVE  DrainInv'
<1>1. CleanupDrains'
  BY DrainedReport DEF StartCase, StartUnnamedCase, Exit
<1>2. pc' # "cleanup" /\ UNCHANGED scan
  BY DEF StartCase, StartUnnamedCase, Exit, Return, drainVars
<1>3. ClosedPortsEmpty'
  BY DEF StartCase, StartUnnamedCase, Exit, portVars, DrainInv, ClosedPortsEmpty, OpenPorts
<1>4. QED
  BY <1>1, <1>2, <1>3 DEF DrainInv, ScanOwesNothing

\* The steps of a send or receive statement preserve DrainInv.
LEMMA PacketDrains ==
  ASSUME EngineTypeOK, DrainInv,
         \/ SyntaxOnly \/ PacketReadFails \/ PacketSend \/ AwaitPacket
         \/ PacketReceive \/ ReceiveTimeout \/ ReceiveError,
         UNCHANGED mqReadable
  PROVE  DrainInv'
<1>1. pc \in {"packet", "receive"} => statement.port \in Ports
  BY DEF EngineTypeOK, ScriptTypeOK, PacketStatements
<1>2. ASSUME UNCHANGED <<report, scan>>, ClosedPortsEmpty', pc' # "cleanup"
      PROVE  DrainInv'
  BY <1>2 DEF DrainInv, CleanupDrains, ScanOwesNothing
<1>3. CASE SyntaxOnly \/ ReceiveTimeout \/ ReceiveError
  BY <1>3, DrainKept DEF SyntaxOnly, ReceiveTimeout, ReceiveError, Return, portVars
<1>4. CASE PacketReadFails \/ PacketSend \/ AwaitPacket
  <2>1. UNCHANGED ports \/ OpenPort(statement.port)
    BY <1>4 DEF PacketReadFails, PacketSend, AwaitPacket
  <2>2. statement.port \in Ports /\ UNCHANGED <<mq, report, scan>> /\ pc' # "cleanup"
    BY <1>1, <1>4
    DEF PacketReadFails, PacketSend, AwaitPacket, Processing, Return, drainVars
  <2>3. ClosedPortsEmpty'
    BY <2>1, <2>2, OpenKeepsEmpty DEF DrainInv, ClosedPortsEmpty, OpenPorts
  <2>4. QED
    BY <1>2, <2>2, <2>3
<1>5. CASE PacketReceive
  <2> DEFINE p == statement.port
  <2>1. p \in Ports /\ mq[p] # <<>> /\ mq' = [mq EXCEPT ![p] = Tail(@)]
        /\ UNCHANGED <<ports, report, scan>> /\ pc' # "cleanup"
    BY <1>1, <1>5 DEF PacketReceive, Return, drainVars
  <2>2. p \in OpenPorts
    BY <2>1, WaitingIsOpen DEF DrainInv
  <2> HIDE DEF p
  <2>3. ClosedPortsEmpty'
    BY <2>1, <2>2 DEF DrainInv, ClosedPortsEmpty, OpenPorts, EngineTypeOK, PortTypeOK
  <2>4. QED
    BY <1>2, <2>1, <2>3
<1>6. QED
  BY <1>3, <1>4, <1>5

\* The engine's steps preserve DrainInv.
LEMMA EngineDrains ==
  ASSUME EngineTypeOK, DrainInv, Engine, UNCHANGED mqReadable
  PROVE  DrainInv'
<1>1. CASE MainScriptMissing \/ EndOfMainScript \/ (\E id \in TestCaseIds : GetTestCaseID(id))
  BY <1>1, DrainBegins DEF MainScriptMissing, EndOfMainScript, GetTestCaseID, Start, portVars
<1>2. CASE QuitAtStart \/ OpenMainScript \/ Include \/ EndOfInclude \/ SkipStatement
  BY <1>2, DrainKept DEF QuitAtStart, OpenMainScript, Include, EndOfInclude, SkipStatement,
                         AtStatement, portVars
<1>3. ASSUME NEW ret, NEW why, Handle(ret, why)
      PROVE  DrainInv'
  BY <1>3, DrainKept DEF Handle, AtStatement, portVars
<1>4. CASE IncludeFails \/ UndefinedVariable \/ StoreVariable \/ UnknownStatement
           \/ InvalidTestCaseId
  BY <1>3, <1>4 DEF IncludeFails, UndefinedVariable, StoreVariable, UnknownStatement,
                    InvalidTestCaseId
<1>5. CASE \E s \in PacketStatements : PacketStatement(s)
  BY <1>5, DrainKept, DrainBegins DEF PacketStatement, Start, portVars
<1>6. QED
  BY <1>1, <1>2, <1>4, <1>5, ScanDrains, ReportDrains, PacketDrains DEF Engine

\* A packet that arrives only adds to a queue that is open.
LEMMA ArrivalDrains ==
  ASSUME EngineTypeOK, DrainInv, NEW p \in Ports, NEW m \in Packets, Arrive(p, m),
         UNCHANGED mqReadable
  PROVE  DrainInv'
<1>1. p \in OpenPorts /\ UNCHANGED <<pc, report, ports, scan, owed>>
  BY DEF Arrive, engineVars, drainVars
<1>2. mq \in [Ports -> Seq(Packets)] /\ owed \in [Ports -> Nat]
  BY DEF EngineTypeOK, PortTypeOK, DrainTypeOK
<1>3. \A q \in Ports : q # p => mq'[q] = mq[q]
  BY <1>2 DEF Arrive
<1>4. Len(mq'[p]) >= Len(mq[p])
  BY <1>2 DEF Arrive
<1>5. ClosedPortsEmpty'
  BY <1>1, <1>3 DEF DrainInv, ClosedPortsEmpty, OpenPorts
<1>6. ASSUME pc = "cleanup", NEW q \in Ports
      PROVE  owed'[q] <= Len(mq'[q])
  <2>1. owed[q] <= Len(mq[q]) /\ owed[q] \in Nat /\ Len(mq[q]) \in Nat
    BY <1>2, <1>6 DEF DrainInv, ScanOwesNothing
  <2>2. Len(mq'[p]) \in Nat
    BY <1>2 DEF Arrive
  <2>3. QED
    BY <1>1, <1>3, <1>4, <2>1, <2>2
<1>7. QED
  BY <1>1, <1>5, <1>6 DEF DrainInv, CleanupDrains, ScanOwesNothing

\* Nothing is open, queued or reported when a run starts.
LEMMA InitDrains == Init => DrainInv
  BY DEF Init, DrainInv, CleanupDrains, ClosedPortsEmpty, ScanOwesNothing

\* DrainInv is inductive, given the types.
LEMMA NextDrains == TypeOK /\ DrainInv /\ [Next]_vars => DrainInv'
<1> SUFFICES ASSUME TypeOK, DrainInv, [Next]_vars
             PROVE  DrainInv'
  OBVIOUS
<1>1. EngineTypeOK
  BY DEF TypeOK
<1>2. CASE EngineStep
  BY <1>1, <1>2, EngineDrains DEF EngineStep, optionVars
<1>3. CASE ArrivalStep
  BY <1>1, <1>3, ArrivalDrains DEF ArrivalStep, optionVars
<1>4. CASE UNCHANGED <<mqReadable, pc, report, ports, mq, scan, owed>>
  BY <1>4 DEF DrainInv, CleanupDrains, ClosedPortsEmpty, ScanOwesNothing, OpenPorts
<1>5. QED
  BY <1>2, <1>3, <1>4
  DEF Next, SetSyntaxCheckOnly, vars, optionVars, engineVars, portVars, drainVars

\* A packet that was queued when a case was closed has been read, and so
\* charged to that case, when the case is reported: the scan that starts over
\* after each packet misses none, whatever arrives behind it.
THEOREM CleanupReadsAll == Spec => []CleanupDrains
<1>1. DrainInv => CleanupDrains
  BY DEF DrainInv
<1>2. QED
  BY <1>1, InitDrains, NextDrains, TypeCorrect, PTL DEF Spec

-----------------------------------------------------------------------------
(* The engine takes the ports to be PortQueues.                            *)

\* Looking up or opening a port is a step of PortQueues.
LEMMA OpenRefines ==
  ASSUME EngineTypeOK, ClosedPortsEmpty, NEW p \in Ports, OpenPort(p), UNCHANGED mq
  PROVE  [Queues!Next]_(Queues!pqVars)
<1>1. CASE p \in OpenPorts
  BY <1>1 DEF OpenPort, Queues!pqVars
<1>2. CASE p \notin OpenPorts
  <2>1. Queues!Open(p)
    BY <1>2 DEF OpenPort, ClosedPortsEmpty, OpenPorts, Queues!Open, Queues!IsOpen
  <2>2. QED
    BY <2>1 DEF Queues!Next
<1>3. QED
  BY <1>1, <1>2

\* Reading a packet from an open port is a step of PortQueues.
LEMMA TakeRefines ==
  ASSUME NEW p \in Ports, p \in OpenPorts, mq[p] # <<>>, mq' = [mq EXCEPT ![p] = Tail(@)],
         UNCHANGED ports
  PROVE  [Queues!Next]_(Queues!pqVars)
  BY DEF OpenPorts, Queues!Take, Queues!IsOpen, Queues!Next

\* EthPortCloseAll closes the ports that are open, if there are any.
LEMMA ExitRefines ==
  ASSUME EngineTypeOK, ClosedPortsEmpty, Exit
  PROVE  [Queues!Next]_(Queues!pqVars)
<1>1. ports' = <<>> /\ mq' = [p \in Ports |-> <<>>]
  BY DEF Exit
<1>2. ports \in Seq(Ports) /\ mq \in [Ports -> Seq(Packets)]
  BY DEF EngineTypeOK, PortTypeOK
<1>3. CASE ports = <<>>
  <2>1. \A p \in Ports : mq[p] = <<>>
    BY <1>3 DEF ClosedPortsEmpty, OpenPorts
  <2>2. QED
    BY <1>1, <1>2, <1>3, <2>1 DEF Queues!pqVars
<1>4. CASE ports # <<>>
  <2>1. Len(ports) \in 1 .. Len(ports)
    BY <1>2, <1>4
  <2>2. SubSeq(ports, Len(ports) + 1, Len(ports)) = <<>>
    BY <1>2
  <2>3. ASSUME NEW p \in Ports
        PROVE  (\E i \in 1 .. Len(ports) : ports[i] = p) \/ mq[p] = <<>>
    BY <1>2 DEF ClosedPortsEmpty, OpenPorts
  <2>4. Queues!Close(Len(ports))
    BY <1>1, <2>2, <2>3 DEF Queues!Close
  <2>5. QED
    BY <2>1, <2>4 DEF Queues!Next
<1>5. QED
  BY <1>3, <1>4

\* A packet that is queued is delivered; one that is dropped is no step.
LEMMA ArriveRefines ==
  ASSUME NEW p \in Ports, NEW m \in Packets, Arrive(p, m)
  PROVE  [Queues!Next]_(Queues!pqVars)
<1>1. CASE Len(mq[p]) < MqMaxMsg
  <2>1. Queues!Deliver(p, m)
    BY <1>1 DEF Arrive, OpenPorts, Queues!Deliver, Queues!IsOpen
  <2>2. QED
    BY <2>1 DEF Queues!Next
<1>2. CASE ~(Len(mq[p]) < MqMaxMsg)
  BY <1>2 DEF Arrive, Queues!pqVars
<1>3. QED
  BY <1>1, <1>2

\* Every step of the engine is a step of PortQueues or leaves the ports alone.
LEMMA EngineRefinesQueues ==
  ASSUME EngineTypeOK, ClosedPortsEmpty, Engine
  PROVE  [Queues!Next]_(Queues!pqVars)
<1>1. CASE UNCHANGED <<ports, mq>>
  BY <1>1 DEF Queues!pqVars
<1>2. pc \in {"packet", "receive"} => statement.port \in Ports
  BY DEF EngineTypeOK, ScriptTypeOK, PacketStatements
<1>3. CASE DrainPacket
  <2>1. ports[scan] \in Ports /\ ports[scan] \in OpenPorts
    BY <1>3 DEF DrainPacket, Scanning, EngineTypeOK, PortTypeOK, OpenPorts
  <2>2. QED
    BY <1>3, <2>1, TakeRefines DEF DrainPacket
<1>4. CASE PacketReceive
  <2>1. statement.port \in Ports /\ statement.port \in OpenPorts
    BY <1>2, <1>4, WaitingIsOpen DEF PacketReceive
  <2>2. QED
    BY <1>4, <2>1, TakeRefines DEF PacketReceive
<1>5. CASE PacketReadFails \/ PacketSend \/ AwaitPacket
  <2>1. UNCHANGED mq /\ (UNCHANGED ports \/ OpenPort(statement.port)) /\ statement.port \in Ports
    BY <1>2, <1>5 DEF PacketReadFails, PacketSend, AwaitPacket, Processing
  <2>2. QED
    BY <1>1, <2>1, OpenRefines
<1>6. CASE QuitAtStart \/ OpenMainScript \/ MainScriptMissing \/ Include \/ EndOfInclude
           \/ EndOfMainScript \/ SkipStatement
  BY <1>1, <1>6 DEF QuitAtStart, OpenMainScript, MainScriptMissing, Include, EndOfInclude,
                    EndOfMainScript, SkipStatement, portVars
<1>7. CASE IncludeFails \/ UndefinedVariable \/ StoreVariable \/ UnknownStatement
           \/ InvalidTestCaseId
  BY <1>1, <1>7 DEF IncludeFails, UndefinedVariable, StoreVariable, UnknownStatement,
                    InvalidTestCaseId, Handle, portVars
<1>8. CASE (\E id \in TestCaseIds : GetTestCaseID(id))
           \/ (\E s \in PacketStatements : PacketStatement(s))
  BY <1>1, <1>8 DEF GetTestCaseID, PacketStatement, Start, portVars
<1>9. CASE DrainEmptyPort \/ DrainError \/ StartCase \/ StartUnnamedCase
           \/ SyntaxOnly \/ ReceiveTimeout \/ ReceiveError
  BY <1>1, <1>9 DEF DrainEmptyPort, DrainError, StartCase, StartUnnamedCase, SyntaxOnly,
                    ReceiveTimeout, ReceiveError, portVars
<1>10. QED
  BY <1>3, <1>4, <1>5, <1>6, <1>7, <1>8, <1>9, ExitRefines DEF Engine

\* Ports are opened at the end of the table and read in order, each keeps its
\* own queue, and all are closed at the end: what EthPortIO implements.
THEOREM EngineUsesPortQueues == Spec => RefinesPortQueues
<1>1. Init => Queues!Init
  BY DEF Init, Queues!Init
<1>2. TypeOK /\ DrainInv /\ [Next]_vars => [Queues!Next]_(Queues!pqVars)
  <2> SUFFICES ASSUME TypeOK, DrainInv, [Next]_vars
               PROVE  [Queues!Next]_(Queues!pqVars)
    OBVIOUS
  <2>1. CASE EngineStep
    BY <2>1, EngineRefinesQueues DEF EngineStep, TypeOK, DrainInv
  <2>2. CASE ArrivalStep
    BY <2>2, ArriveRefines DEF ArrivalStep
  <2>3. CASE UNCHANGED portVars
    BY <2>3 DEF portVars, Queues!pqVars
  <2>4. QED
    BY <2>1, <2>2, <2>3 DEF Next, SetSyntaxCheckOnly, vars
<1>3. QED
  BY <1>1, <1>2, InitDrains, NextDrains, TypeCorrect, PTL
  DEF Spec, RefinesPortQueues, Queues!Spec
=============================================================================
