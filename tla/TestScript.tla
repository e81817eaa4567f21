----------------------------- MODULE TestScript -----------------------------
(***************************************************************************)
(* The script engine of EDpAT: main() and TestScriptProcess() of edpat.c,  *)
(* the test case bookkeeping of testcase.c, the include stack of scripts.c *)
(* and the control of packet.c (PacketProcess, CheckUnexpectedPackets).    *)
(*                                                                         *)
(* The engine is the main thread.  The other actors are the receiver       *)
(* threads, seen here only through what they put on the message queues     *)
(* (EthPortIO models them).  The text of a script is abstracted to what    *)
(* the engine's control depends on: every statement a file could hold next *)
(* is offered by the \E of an action, so a behaviour is a run over an      *)
(* arbitrary script and arbitrary traffic.                                 *)
(***************************************************************************)
EXTENDS Integers, Sequences

CONSTANTS
  MaxScriptFileDepth,  \* MAX_SCRIPT_FILE_DEPTH
  Ports,               \* the Ethernet port names scripts use
  Packets,             \* packet contents
  TestCaseIds,         \* well-formed test case IDs
  NoId,                \* CurrentTestCaseId before the first '@': the empty string
  MqMaxMsg,            \* messages a POSIX queue holds (mq_maxmsg)
  MaxFileLen,          \* bound: statements in one script file
  MaxPackets           \* bound: packets that reach a queue in one run

ASSUME TestScriptAssumption ==
  /\ MaxScriptFileDepth \in Nat \ {0}
  /\ NoId \notin TestCaseIds
  /\ MqMaxMsg \in Nat \ {0}
  /\ MaxFileLen \in Nat
  /\ MaxPackets \in Nat

VARIABLES
  syntaxCheckOnly,  \* SyntaxCheckOnly, set by option -s
  mqReadable,       \* MqMsgSize <= MAX_PKT_SIZE: ethPortRead accepts its buffer
  pc,         \* where the main thread is
  depth,      \* ScriptFileDepth
  retVal,     \* local retVal of the TestScriptProcess of each open script
  lineNo,     \* ScriptFileInfoTable[].lineNo, counted in statements
  statement,  \* testScriptStatement, while its handling takes several steps
  result,     \* CurrentTestResult
  caseId,     \* CurrentTestCaseId
  report,     \* what TestCaseFinalResultPrint has printed
  ports,      \* EthPortInfoTable[0 .. EthPortCount-1]: open ports, in opening order
  mq,         \* message queue of each port
  scan,       \* portIdx of EthPortReceiveAny, counted from 1
  arrivals,   \* packets that have reached the queues so far (bounded)
  \* History variables; no action of the engine reads them.
  evidence,   \* what went wrong since the current case began
  begun,      \* IDs of the cases begun, in order
  owed        \* queued when the current clean-up began and not read since

optionVars == <<syntaxCheckOnly, mqReadable>>
engineVars == <<pc, depth, retVal, lineNo, statement>>
caseVars   == <<result, caseId, evidence, begun>>
portVars   == <<ports, mq, arrivals>>
drainVars  == <<scan, owed>>
vars == <<optionVars, engineVars, caseVars, report, portVars, drainVars>>

-----------------------------------------------------------------------------
SUCCESS  == 1      \* EDPAT_SUCCESS
FAILED   == 0      \* EDPAT_FAILED
NOTFOUND == -1     \* EDPAT_NOTFOUND

Results == {"FAILED", "PASSED", "SKIPPED", "UNKNOWN"}

\* What can go wrong in a case: the traffic differs from the script, a
\* statement cannot be executed, or an '@' statement without a legal ID follows.
Traffic  == {"mismatch", "timeout", "unexpected"}
Evidence == Traffic \cup {"error", "badId"}

\* Substitutions made in one statement; 2 stands for "more than one".
SubstCounts == {0, 1, 2}

Levels == 0 .. MaxScriptFileDepth - 1

\* Mutant of FirstRetVal: EDPAT_FAILED until a statement has succeeded.
FirstRetValFailed == FAILED

\* retVal of a script of which no statement has been read.
FirstRetVal == SUCCESS

NoStatement     == [cmd |-> "none"]
CaseStatements   == [cmd : {"@"}, id : TestCaseIds]
PacketStatements == [cmd : {"<", ">"}, port : Ports, pkt : Packets,
                    form : {"wellFormed", "malformed"}]
Statements == {NoStatement} \cup CaseStatements \cup PacketStatements

ReportLines == [id : TestCaseIds \cup {NoId}, verdict : Results, evidence : SUBSET Evidence,
                unread : SUBSET Ports]

WellFormed == statement.form = "wellFormed"

OpenPorts == {ports[i] : i \in DOMAIN ports}

Init ==
  /\ syntaxCheckOnly = FALSE
  /\ mqReadable \in BOOLEAN   \* the message size limit of the system
  /\ pc = "start"
  /\ depth = -1
  /\ retVal = [d \in Levels |-> SUCCESS]
  /\ lineNo = [d \in Levels |-> 0]
  /\ statement = NoStatement
  /\ result = "UNKNOWN"
  /\ caseId = NoId
  /\ report = <<>>
  /\ ports = <<>>
  /\ mq = [p \in Ports |-> <<>>]
  /\ scan = 1
  /\ arrivals = 0
  /\ evidence = {}
  /\ begun = <<>>
  /\ owed = [p \in Ports |-> 0]

-----------------------------------------------------------------------------
(* Helpers: the pieces of TestScriptProcess that several statements share. *)

\* The loop is at ScriptReadStatement and the file has a statement left.
AtStatement == pc = "read" /\ lineNo[depth] < MaxFileLen

\* The test that lets only '@' through once a case has failed or is faulty.
Skipping == result \in {"SKIPPED", "FAILED"}

SetResult(r) ==
  /\ result' = r
  /\ begun' = IF result = "UNKNOWN" THEN Append(begun, caseId) ELSE begun

\* The tail of the loop body: a handler that did not succeed spoils the case.
Judge(ret, why) ==
  IF ret = SUCCESS
  THEN UNCHANGED caseVars
  ELSE /\ SetResult("SKIPPED")
       /\ evidence' = evidence \cup {why}
       /\ UNCHANGED caseId

NextLine == lineNo' = [lineNo EXCEPT ![depth] = @ + 1]

\* A statement is read and its handler returns ret, all in one step.
Handle(ret, why) ==
  /\ AtStatement
  /\ retVal' = [retVal EXCEPT ![depth] = ret]
  /\ NextLine
  /\ Judge(ret, why)
  /\ UNCHANGED <<pc, depth, statement, report, portVars, drainVars>>

\* A statement is read whose handling takes further steps.
Start(s) ==
  /\ AtStatement
  /\ NextLine
  /\ statement' = s
  /\ UNCHANGED <<depth, retVal, report, portVars, caseVars>>

\* The handler of a statement that took several steps returns.
Return(ret) ==
  /\ retVal' = [retVal EXCEPT ![depth] = ret]
  /\ pc' = "read"
  /\ statement' = NoStatement
  /\ UNCHANGED <<depth, lineNo>>

\* CleanupLastTestExecution is entered.
BeginCleanup ==
  /\ pc' = "cleanup"
  /\ scan' = 1
  /\ owed' = [p \in Ports |-> Len(mq[p])]

\* Mutant of DepthReached: off by one.
DepthReachedLate == MaxScriptFileDepth <= depth

\* ScriptOpen refuses to go deeper.
DepthReached == MaxScriptFileDepth - 1 <= depth

-----------------------------------------------------------------------------
(* The command line. *)

\* Option -s.  The other options of the script engine change only messages and
\* how long a wait lasts; -f and -p are parameters of EthPortIO.
SetSyntaxCheckOnly ==
  /\ pc = "start"
  /\ syntaxCheckOnly' = TRUE
  /\ UNCHANGED <<mqReadable, engineVars, caseVars, report, portVars, drainVars>>

\* Option -h, an illegal option, no script named, or a log or report file that
\* cannot be opened: main() exits before it has done anything.
QuitAtStart ==
  /\ pc = "start"
  /\ pc' = "exit"
  /\ UNCHANGED <<depth, retVal, lineNo, statement, caseVars, report, portVars, drainVars>>

-----------------------------------------------------------------------------
(* Script files. *)

OpenMainScript ==
  /\ pc = "start"
  /\ pc' = "read"
  /\ depth' = 0
  /\ retVal' = [retVal EXCEPT ![0] = FirstRetVal]
  /\ UNCHANGED <<lineNo, statement, caseVars, report, portVars, drainVars>>

MainScriptMissing ==
  /\ pc = "start"
  /\ BeginCleanup
  /\ UNCHANGED <<depth, retVal, lineNo, statement, caseVars, report, portVars>>

\* '#': the included file is opened and its own TestScriptProcess starts.
Include ==
  /\ AtStatement
  /\ ~Skipping
  /\ ~DepthReached
  /\ depth' = depth + 1
  /\ retVal' = [retVal EXCEPT ![depth + 1] = FirstRetVal]
  /\ NextLine
  /\ UNCHANGED <<pc, statement, caseVars, report, portVars, drainVars>>

\* '#': illegal file name, too deep, or the file cannot be opened.
IncludeFails == ~Skipping /\ Handle(FAILED, "error")

\* An included file ends: its last retVal is what ScriptIncludeFile returns.
EndOfInclude ==
  /\ pc = "read"
  /\ depth > 0
  /\ retVal' = [retVal EXCEPT ![depth - 1] = retVal[depth], ![depth] = SUCCESS]
  /\ lineNo' = [lineNo EXCEPT ![depth] = 0]
  /\ IF retVal[depth] = SUCCESS
     THEN UNCHANGED <<result, begun>>
     ELSE SetResult("SKIPPED")
  /\ depth' = depth - 1
  /\ UNCHANGED <<pc, statement, caseId, evidence, report, portVars, drainVars>>

\* The main script ends; main() cleans up after the last case.
EndOfMainScript ==
  /\ pc = "read"
  /\ depth = 0
  /\ depth' = -1
  /\ retVal' = [retVal EXCEPT ![0] = SUCCESS]
  /\ lineNo' = [lineNo EXCEPT ![0] = 0]
  /\ BeginCleanup
  /\ UNCHANGED <<statement, caseVars, report, portVars>>

-----------------------------------------------------------------------------
(* Statements handled without waiting. *)

\* ScriptSubstituteVariables fails; this comes before the test that skips.
UndefinedVariable == Handle(NOTFOUND, "error")

\* The statement is passed over, but retVal keeps its number of substitutions.
SkipStatement ==
  /\ Skipping
  /\ AtStatement
  /\ \E n \in SubstCounts : retVal' = [retVal EXCEPT ![depth] = n]
  /\ NextLine
  /\ UNCHANGED <<pc, depth, statement, caseVars, report, portVars, drainVars>>

\* '$': the assignment is stored, or refused (no '=', table full).
StoreVariable == ~Skipping /\ \E ret \in {SUCCESS, FAILED} : Handle(ret, "error")

UnknownStatement == ~Skipping /\ Handle(FAILED, "error")

\* '@' without a legal ID: GetTestCaseID fails before it cleans up.
InvalidTestCaseId == Handle(FAILED, "badId")

-----------------------------------------------------------------------------
(* Test cases. *)

\* '@' with a legal ID: the previous case is closed first.
GetTestCaseID(id) ==
  /\ Start([cmd |-> "@", id |-> id])
  /\ BeginCleanup

Scanning == pc = "cleanup" /\ scan \in DOMAIN ports

\* Mutant of DrainPacket: the scan goes on to the next port.
DrainPacketMovesOn ==
  /\ Scanning
  /\ mqReadable
  /\ LET p == ports[scan]
     IN /\ mq[p] # <<>>
        /\ mq' = [mq EXCEPT ![p] = Tail(@)]
        /\ owed' = [owed EXCEPT ![p] = IF @ > 0 THEN @ - 1 ELSE 0]
  /\ SetResult("FAILED")
  /\ evidence' = evidence \cup {"unexpected"}
  /\ scan' = scan + 1
  /\ UNCHANGED <<engineVars, caseId, report, ports, arrivals>>

\* EthPortReceiveAny finds a packet: the case fails and the scan starts over.
DrainPacket ==
  /\ Scanning
  /\ mqReadable
  /\ LET p == ports[scan]
     IN /\ mq[p] # <<>>
        /\ mq' = [mq EXCEPT ![p] = Tail(@)]
        /\ owed' = [owed EXCEPT ![p] = IF @ > 0 THEN @ - 1 ELSE 0]
  /\ SetResult("FAILED")
  /\ evidence' = evidence \cup {"unexpected"}
  /\ scan' = 1
  /\ UNCHANGED <<engineVars, caseId, report, ports, arrivals>>

DrainEmptyPort ==
  /\ Scanning
  /\ mqReadable
  /\ mq[ports[scan]] = <<>>
  /\ scan' = scan + 1
  /\ UNCHANGED <<engineVars, caseVars, report, portVars, owed>>

\* ethPortRead fails: the loop of CheckUnexpectedPackets ends at once.
DrainError ==
  /\ Scanning
  /\ ~mqReadable
  /\ scan' = Len(ports) + 1
  /\ UNCHANGED <<engineVars, caseVars, report, portVars, owed>>

Drained == pc = "cleanup" /\ scan \notin DOMAIN ports

\* Mutant of PrintFinalResult: a skipped case is left out of the report.
PrintUnlessSkipped ==
  report' = IF result \in {"UNKNOWN", "SKIPPED"} THEN report
            ELSE Append(report, [id |-> caseId, verdict |-> result, evidence |-> evidence,
                                 unread |-> {p \in Ports : owed[p] > 0}])

\* Mutant of PrintFinalResult: the test for UNKNOWN is gone.
PrintAlways ==
  report' = Append(report, [id |-> caseId, verdict |-> result, evidence |-> evidence,
                            unread |-> {p \in Ports : owed[p] > 0}])

\* TestCaseFinalResultPrint, called unless the result is UNKNOWN.
PrintFinalResult ==
  report' = IF result = "UNKNOWN" THEN report
            ELSE Append(report, [id |-> caseId, verdict |-> result, evidence |-> evidence,
                                 unread |-> {p \in Ports : owed[p] > 0}])

\* The rest of GetTestCaseID after its clean-up.
StartCase ==
  /\ Drained
  /\ statement.cmd = "@"
  /\ PrintFinalResult
  /\ result' = "PASSED"
  /\ caseId' = statement.id
  /\ evidence' = {}
  /\ begun' = Append(begun, statement.id)
  /\ Return(SUCCESS)
  /\ UNCHANGED <<portVars, drainVars>>

\* A script that sends or receives before any '@' has a case without an ID.
StartUnnamedCase ==
  /\ Drained
  /\ statement.cmd \in {"<", ">"}
  /\ PrintFinalResult
  /\ SetResult("PASSED")
  /\ pc' = "packet"
  /\ UNCHANGED <<depth, retVal, lineNo, statement, caseId, evidence, portVars, drainVars>>

\* The end of main(): the last case is reported and EthPortCloseAll runs.
Exit ==
  /\ Drained
  /\ depth = -1
  /\ PrintFinalResult
  /\ pc' = "exit"
  /\ ports' = <<>>
  /\ mq' = [p \in Ports |-> <<>>]
  /\ UNCHANGED <<depth, retVal, lineNo, statement, caseVars, arrivals, drainVars>>

-----------------------------------------------------------------------------
(* Send and receive statements. *)

\* Mutant of PacketStatement: not skipped in a failed or faulty case.
PacketStatementUnskipped(s) ==
  /\ Start(s)
  /\ IF result = "UNKNOWN" THEN BeginCleanup
     ELSE pc' = "packet" /\ UNCHANGED drainVars

PacketStatement(s) ==
  /\ ~Skipping
  /\ Start(s)
  /\ IF result = "UNKNOWN" THEN BeginCleanup
     ELSE pc' = "packet" /\ UNCHANGED drainVars

\* With -s the statement counts as executed and PacketProcess is not called.
SyntaxOnly ==
  /\ pc = "packet"
  /\ syntaxCheckOnly
  /\ Return(SUCCESS)
  /\ UNCHANGED <<caseVars, report, portVars, drainVars>>

\* Mutant of Processing: the test of SyntaxCheckOnly is gone.
ProcessingAlways == pc = "packet"

Processing == pc = "packet" /\ ~syntaxCheckOnly

\* Mutant of OpenPort: an open port is not found again.
OpenPortAgain(p) == ports' = Append(ports, p)

\* EthPortOpen succeeds: the port is looked up, and appended when it is new.
OpenPort(p) == ports' = IF p \in OpenPorts THEN ports ELSE Append(ports, p)

\* packetRead fails, before or after it has opened the port.  A well-formed
\* statement fails only when its port is new and cannot be opened.
PacketReadFails ==
  /\ Processing
  /\ \/ UNCHANGED ports /\ (WellFormed => statement.port \notin OpenPorts)
     \/ ~WellFormed /\ OpenPort(statement.port)
  /\ Judge(FAILED, "error")
  /\ Return(FAILED)
  /\ UNCHANGED <<report, mq, arrivals, drainVars>>

\* Mutant of PacketSend: a packet that could not be sent is no reason to skip.
PacketSendUnjudged ==
  /\ Processing
  /\ WellFormed
  /\ statement.cmd = ">"
  /\ OpenPort(statement.port)
  /\ \E ret \in {SUCCESS, FAILED, NOTFOUND} : Return(ret)
  /\ UNCHANGED <<caseVars, report, mq, arrivals, drainVars>>

\* packetSend: EthPortSend may fail, or refuse the packet with EDPAT_NOTFOUND.
PacketSend ==
  /\ Processing
  /\ WellFormed
  /\ statement.cmd = ">"
  /\ OpenPort(statement.port)
  /\ \E ret \in {SUCCESS, FAILED, NOTFOUND} : Judge(ret, "error") /\ Return(ret)
  /\ UNCHANGED <<report, mq, arrivals, drainVars>>

\* packetReceive calls mq_timedreceive and waits.
AwaitPacket ==
  /\ Processing
  /\ WellFormed
  /\ statement.cmd = "<"
  /\ OpenPort(statement.port)
  /\ pc' = "receive"
  /\ UNCHANGED <<depth, retVal, lineNo, statement, caseVars, report, mq, arrivals, drainVars>>

\* The comparison of packetReceive; Packets abstracts lengths and masks.
Matches(received, specified) == received = specified

\* Mutant of CaseFails: the difference is printed but not recorded.
CaseFailsSilently(why) ==
  /\ evidence' = evidence \cup {why}
  /\ UNCHANGED <<result, begun, caseId>>

\* packetReceive marks the case as failed, and itself returns EDPAT_SUCCESS.
CaseFails(why) ==
  /\ SetResult("FAILED")
  /\ evidence' = evidence \cup {why}
  /\ UNCHANGED caseId

PacketReceive ==
  /\ pc = "receive"
  /\ mqReadable
  /\ LET p == statement.port
     IN /\ mq[p] # <<>>
        /\ mq' = [mq EXCEPT ![p] = Tail(@)]
        /\ IF Matches(Head(mq[p]), statement.pkt)
           THEN UNCHANGED caseVars
           ELSE CaseFails("mismatch")
  /\ Return(SUCCESS)
  /\ UNCHANGED <<report, ports, arrivals, drainVars>>

\* Mutant of WaitExpires: mq_receive, which has no timeout.
WaitNeverExpires(p) == FALSE

\* mq_timedreceive gives up after PacketReceiveTimeout seconds on an empty queue.
WaitExpires(p) == mq[p] = <<>>

ReceiveTimeout ==
  /\ pc = "receive"
  /\ mqReadable
  /\ WaitExpires(statement.port)
  /\ CaseFails("timeout")
  /\ Return(SUCCESS)
  /\ UNCHANGED <<report, portVars, drainVars>>

\* ethPortRead refuses the receive buffer, which is smaller than MqMsgSize.
ReceiveError ==
  /\ pc = "receive"
  /\ ~mqReadable
  /\ Judge(FAILED, "error")
  /\ Return(FAILED)
  /\ UNCHANGED <<report, portVars, drainVars>>

-----------------------------------------------------------------------------
(* The receiver thread of an open port queues a packet, or drops it when   *)
(* the queue is full (it sends with O_NONBLOCK).                           *)
Arrive(p, m) ==
  /\ p \in OpenPorts
  /\ arrivals < MaxPackets
  /\ arrivals' = arrivals + 1
  /\ mq' = IF Len(mq[p]) < MqMaxMsg THEN [mq EXCEPT ![p] = Append(@, m)] ELSE mq
  /\ UNCHANGED <<engineVars, caseVars, report, ports, drainVars>>

Engine ==
  \/ QuitAtStart \/ OpenMainScript \/ MainScriptMissing
  \/ Include \/ IncludeFails \/ EndOfInclude \/ EndOfMainScript
  \/ UndefinedVariable \/ SkipStatement \/ StoreVariable \/ UnknownStatement
  \/ InvalidTestCaseId
  \/ \E id \in TestCaseIds : GetTestCaseID(id)
  \/ DrainPacket \/ DrainEmptyPort \/ DrainError
  \/ StartCase \/ StartUnnamedCase \/ Exit
  \/ \E s \in PacketStatements : PacketStatement(s)
  \/ SyntaxOnly \/ PacketReadFails \/ PacketSend \/ AwaitPacket
  \/ PacketReceive \/ ReceiveTimeout \/ ReceiveError

EngineStep == Engine /\ UNCHANGED optionVars
ArrivalStep == (\E p \in Ports, m \in Packets : Arrive(p, m)) /\ UNCHANGED optionVars

Next == SetSyntaxCheckOnly \/ EngineStep \/ ArrivalStep

Spec == Init /\ [][Next]_vars

\* The operating system keeps running the main thread, and waits expire.
FairSpec == Spec /\ WF_vars(EngineStep)

-----------------------------------------------------------------------------
\* A script is open at level depth.
ScriptOpened ==
  \/ pc \in {"read", "packet", "receive"}
  \/ pc = "cleanup" /\ statement # NoStatement

ScriptTypeOK ==
  /\ pc \in {"start", "read", "cleanup", "packet", "receive", "exit"}
  /\ depth \in -1 .. MaxScriptFileDepth - 1
  /\ ScriptOpened => depth \in Levels
  /\ pc \in {"start", "read", "exit"} => statement = NoStatement
  /\ pc \in {"packet", "receive"} => statement \in PacketStatements
  /\ retVal \in [Levels -> Int]
  /\ lineNo \in [Levels -> Nat]
  /\ statement \in Statements

CaseTypeOK ==
  /\ result \in Results
  /\ caseId \in TestCaseIds \cup {NoId}
  /\ evidence \in SUBSET Evidence
  /\ begun \in Seq(TestCaseIds \cup {NoId})

ReportTypeOK == report \in Seq(ReportLines)

PortTypeOK ==
  /\ ports \in Seq(Ports)
  /\ mq \in [Ports -> Seq(Packets)]
  /\ arrivals \in Nat

DrainTypeOK ==
  /\ scan \in Nat
  /\ owed \in [Ports -> Nat]

OptionTypeOK == syntaxCheckOnly \in BOOLEAN /\ mqReadable \in BOOLEAN

EngineTypeOK == ScriptTypeOK /\ CaseTypeOK /\ ReportTypeOK /\ PortTypeOK /\ DrainTypeOK

TypeOK == OptionTypeOK /\ EngineTypeOK

-----------------------------------------------------------------------------
(* The verdicts.                                                           *)

\* A verdict fits what went wrong in the case: PASSED exactly when nothing
\* did, FAILED only for a difference in traffic, and always for a packet that
\* nobody expected (found last, it overrides a fault).
VerdictFits(verdict, ev) ==
  /\ verdict \in {"PASSED", "FAILED", "SKIPPED"}
  /\ verdict = "PASSED" <=> ev = {}
  /\ verdict = "FAILED" => ev \cap Traffic # {}
  /\ "unexpected" \in ev => verdict = "FAILED"

\* Every reported verdict fits its case, whatever the includes, the skipped
\* statements and the packets that arrive during the clean-up
\* (CurrentTestResult is written from five functions in three files).
VerdictSound ==
  \A i \in DOMAIN report : VerdictFits(report[i].verdict, report[i].evidence)

ReportedIds == [i \in DOMAIN report |-> report[i].id]
OpenCase == IF result # "UNKNOWN" /\ pc # "exit" THEN <<caseId>> ELSE <<>>

\* Every case that began is in the report once, in order, but for the one
\* still open: no case is lost, printed twice or printed under the ID of the
\* next (the ID is overwritten after the previous case has been closed).
ReportMatchesCases == begun = ReportedIds \o OpenCase

\* Packets are sent and awaited only in a case that has not failed, which is
\* what keeps a SKIPPED or FAILED verdict from hiding later traffic; no port
\* is open before the first case.
TrafficOnlyWhilePassing ==
  /\ pc \in {"packet", "receive"} => result = "PASSED"
  /\ result = "UNKNOWN" => ports = <<>>

\* With -s no port is ever opened, so no verdict can blame the traffic.
SyntaxCheckOpensNoPort ==
  syntaxCheckOnly => /\ ports = <<>>
                     /\ \A i \in DOMAIN report : report[i].evidence \cap Traffic = {}

\* A packet queued before a case is closed is charged to that case and not to
\* the next: the clean-up reads every queue, although it starts over after
\* each packet and other packets arrive meanwhile.
CleanupDrains ==
  mqReadable => \A i \in DOMAIN report : report[i].unread = {}

\* A file that is read back in a passing case leaves it passing: what is left
\* in retVal at its end, also when it is empty, is then EDPAT_SUCCESS.
IncludeNeverSpoilsPass ==
  [][pc = "read" /\ depth > 0 /\ depth' < depth /\ result = "PASSED"
       => result' = "PASSED"]_vars

\* The engine implements TestRun.
Run == INSTANCE TestRun WITH
  current <- result, id <- caseId, finished <- (pc = "exit"),
  lines <- [i \in DOMAIN report |-> [id |-> report[i].id, verdict |-> report[i].verdict]]
RefinesTestRun == Run!Spec

\* What the engine takes the ports to be, it is in EthPortIO as well: both
\* modules implement PortQueues.
Queues == INSTANCE PortQueues WITH
  Names <- Ports, Messages <- Packets, Capacity <- MqMaxMsg, open <- ports, queue <- mq
RefinesPortQueues == Queues!Spec

\* Every run comes to its end, with every case reported: a receive gives up,
\* an include returns and a clean-up stops once the traffic does.
RunEnds == <>(pc = "exit" /\ ReportedIds = begun)

\* The verdict of the open case fits what has gone wrong so far; before the
\* first case nothing has, and no port is open.
CurrentVerdictFits ==
  IF result = "UNKNOWN" THEN evidence = {} /\ ports = <<>>
  ELSE VerdictFits(result, evidence)

\* A retVal that the end of an include turns into SKIPPED belongs to a case
\* that is spoiled already.
RetValSpoiled == pc = "read" /\ retVal[depth] # SUCCESS => Skipping

\* What VerdictSound rests on.
IInv ==
  /\ VerdictSound
  /\ CurrentVerdictFits
  /\ RetValSpoiled
  /\ pc \notin {"cleanup", "exit"} => "unexpected" \notin evidence
  /\ pc \in {"packet", "receive"} => result = "PASSED"
  /\ pc = "cleanup" /\ statement \in PacketStatements => result = "UNKNOWN"

-----------------------------------------------------------------------------
(* What the documentation and the comments say, and the code does not do.  *)

\* edpat.c:92 "If test case fails or is faulty skip until the next testcase
\* ID": a statement passed over in a failed case cannot change its verdict.
SkippedStatementsDoNotCount ==
  [][Skipping /\ pc = "read" /\ pc' = "read" /\ depth' = depth /\ ("badId" \notin evidence')
       => result' = result]_vars

\* scripts.c:215 "EDPAT_REVAL saying whether the file was successfully
\* included": the end of an included file leaves the verdict as it is.
IncludeKeepsVerdict ==
  [][pc = "read" /\ depth > 0 /\ depth' < depth => result' = result]_vars
=============================================================================
