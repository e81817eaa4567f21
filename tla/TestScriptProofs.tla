-------------------------- MODULE TestScriptProofs --------------------------
(***************************************************************************)
(* What holds of the script engine for every depth of includes, every set  *)
(* of ports, packets and test case IDs, and every queue length.            *)
(***************************************************************************)
EXTENDS TestScript, TLAPS

-----------------------------------------------------------------------------
(* Lemmas on the pieces the actions are made of.                           *)

\* An update of one level keeps a table of the script files well typed.
LEMMA LevelUpdate ==
  ASSUME NEW S, NEW f \in [Levels -> S], NEW i, NEW x \in S
  PROVE  [f EXCEPT ![i] = x] \in [Levels -> S]
  OBVIOUS

\* A result that is set keeps its type, and so does the list of cases begun.
LEMMA SetResultType ==
  ASSUME CaseTypeOK, NEW r \in Results, SetResult(r)
  PROVE  result' \in Results /\ begun' \in Seq(TestCaseIds \cup {NoId})
  BY DEF CaseTypeOK, SetResult

\* The tail of the loop body keeps the state of the case well typed.
LEMMA JudgeType ==
  ASSUME CaseTypeOK, NEW ret, NEW why \in Evidence, Judge(ret, why)
  PROVE  CaseTypeOK'
<1>1. CASE ret = SUCCESS
  BY <1>1 DEF Judge, CaseTypeOK, caseVars
<1>2. CASE ret # SUCCESS
  <2>1. "SKIPPED" \in Results
    BY DEF Results
  <2>2. result' \in Results /\ begun' \in Seq(TestCaseIds \cup {NoId})
    BY <1>2, <2>1, SetResultType DEF Judge
  <2>3. QED
    BY <1>2, <2>2 DEF Judge, CaseTypeOK
<1>3. QED
  BY <1>1, <1>2

\* So does packetReceive when it marks the case as failed.
LEMMA CaseFailsType ==
  ASSUME CaseTypeOK, NEW why \in Evidence, CaseFails(why)
  PROVE  CaseTypeOK'
<1>1. "FAILED" \in Results
  BY DEF Results
<1>2. result' \in Results /\ begun' \in Seq(TestCaseIds \cup {NoId})
  BY <1>1, SetResultType DEF CaseFails
<1>3. QED
  BY <1>2 DEF CaseFails, CaseTypeOK

\* Reading a statement advances a line number of an open file.
LEMMA NextLineType ==
  ASSUME ScriptTypeOK, depth \in Levels, NextLine
  PROVE  lineNo' \in [Levels -> Nat]
<1>1. lineNo[depth] + 1 \in Nat
  BY DEF ScriptTypeOK
<1>2. QED
  BY <1>1, LevelUpdate DEF NextLine, ScriptTypeOK

\* A statement handled in one step keeps every type.
LEMMA HandleType ==
  ASSUME EngineTypeOK, NEW ret \in Int, NEW why \in Evidence, Handle(ret, why)
  PROVE  EngineTypeOK'
<1>1. depth \in Levels
  BY DEF Handle, AtStatement, EngineTypeOK, ScriptTypeOK, ScriptOpened
<1>2. retVal' \in [Levels -> Int] /\ lineNo' \in [Levels -> Nat]
  BY <1>1, LevelUpdate, NextLineType DEF Handle, EngineTypeOK, ScriptTypeOK
<1>3. ScriptTypeOK'
  BY <1>1, <1>2 DEF Handle, EngineTypeOK, ScriptTypeOK
<1>4. CaseTypeOK'
  BY JudgeType DEF Handle, EngineTypeOK
<1>5. QED
  BY <1>3, <1>4
  DEF Handle, EngineTypeOK, ReportTypeOK, PortTypeOK, DrainTypeOK, portVars, drainVars

\* Starting a statement of several steps keeps the types of all it assigns.
LEMMA StartType ==
  ASSUME EngineTypeOK, NEW s \in Statements, Start(s),
         pc' = "cleanup" \/ (pc' = "packet" /\ s \in PacketStatements)
  PROVE  ScriptTypeOK' /\ CaseTypeOK' /\ ReportTypeOK' /\ PortTypeOK'
<1>1. depth \in Levels
  BY DEF Start, AtStatement, EngineTypeOK, ScriptTypeOK, ScriptOpened
<1>2. lineNo' \in [Levels -> Nat]
  BY <1>1, NextLineType DEF Start, EngineTypeOK
<1>3. ScriptTypeOK'
  BY <1>1, <1>2 DEF Start, EngineTypeOK, ScriptTypeOK
<1>4. QED
  BY <1>3 DEF Start, EngineTypeOK, CaseTypeOK, ReportTypeOK, PortTypeOK, caseVars, portVars

\* Its return stores the handler's value at the level of an open file.
LEMMA ReturnType ==
  ASSUME ScriptTypeOK, depth \in Levels, NEW ret \in Int, Return(ret)
  PROVE  ScriptTypeOK'
<1>1. retVal' \in [Levels -> Int]
  BY LevelUpdate DEF Return, ScriptTypeOK
<1>2. QED
  BY <1>1 DEF Return, ScriptTypeOK, Statements

\* The clean-up counts the packets owed from the queues as they are.
LEMMA BeginCleanupType ==
  ASSUME PortTypeOK, BeginCleanup
  PROVE  DrainTypeOK'
  BY DEF BeginCleanup, PortTypeOK, DrainTypeOK

\* A line added to the report is a report line.
LEMMA PrintType ==
  ASSUME EngineTypeOK, PrintFinalResult
  PROVE  ReportTypeOK'
<1> DEFINE line == [id |-> caseId, verdict |-> result, evidence |-> evidence,
                    unread |-> {p \in Ports : owed[p] > 0}]
<1>1. line \in ReportLines
  BY DEF EngineTypeOK, CaseTypeOK, ReportLines
<1>2. QED
  BY <1>1 DEF PrintFinalResult, EngineTypeOK, ReportTypeOK

\* Looking up or appending a port keeps the list of open ports.
LEMMA OpenPortType ==
  ASSUME PortTypeOK, NEW p \in Ports, OpenPort(p)
  PROVE  ports' \in Seq(Ports)
  BY DEF PortTypeOK, OpenPort

\* What a step that leaves a group of variables alone needs.
LEMMA UnchangedType ==
  ASSUME EngineTypeOK
  PROVE  /\ UNCHANGED engineVars => ScriptTypeOK'
         /\ UNCHANGED caseVars => CaseTypeOK'
         /\ UNCHANGED report => ReportTypeOK'
         /\ UNCHANGED portVars => PortTypeOK'
         /\ UNCHANGED drainVars => DrainTypeOK'
  BY DEF EngineTypeOK, ScriptTypeOK, ScriptOpened, CaseTypeOK, ReportTypeOK, PortTypeOK,
         DrainTypeOK,
         engineVars, caseVars, portVars, drainVars

\* What the actions name as evidence is evidence.
LEMMA EvidenceKinds ==
  {"error", "badId", "mismatch", "timeout", "unexpected"} \subseteq Evidence
  BY DEF Evidence, Traffic

\* The return codes are integers, as retVal is.
LEMMA ReturnCodes == {SUCCESS, FAILED, NOTFOUND, FirstRetVal} \subseteq Int
  BY DEF SUCCESS, FAILED, NOTFOUND, FirstRetVal

-----------------------------------------------------------------------------
(* Type correctness.                                                       *)

\* The initial state is well typed.
LEMMA InitType == Init => TypeOK
<1> SUFFICES ASSUME Init PROVE TypeOK
  OBVIOUS
<1>1. OptionTypeOK
  BY DEF Init, OptionTypeOK
<1>2. ScriptTypeOK
  <2>1. retVal \in [Levels -> Int] /\ lineNo \in [Levels -> Nat]
    BY DEF Init, SUCCESS
  <2>2. depth \in -1 .. MaxScriptFileDepth - 1
    BY TestScriptAssumption DEF Init
  <2>3. ~ScriptOpened
    BY DEF Init, ScriptOpened
  <2>4. QED
    BY <2>1, <2>2, <2>3 DEF Init, ScriptTypeOK, Statements
<1>3. CaseTypeOK
  BY DEF Init, CaseTypeOK, Results
<1>4. ReportTypeOK
  BY DEF Init, ReportTypeOK
<1>5. PortTypeOK
  BY DEF Init, PortTypeOK
<1>6. DrainTypeOK
  BY DEF Init, DrainTypeOK
<1>7. QED
  BY <1>1, <1>2, <1>3, <1>4, <1>5, <1>6 DEF TypeOK, EngineTypeOK

\* Opening, including and closing scripts keeps every type.
LEMMA ScriptFileType ==
  ASSUME EngineTypeOK, \/ QuitAtStart \/ OpenMainScript \/ MainScriptMissing \/ Include
                       \/ EndOfInclude \/ EndOfMainScript
  PROVE  EngineTypeOK'
<1> USE UnchangedType, ReturnCodes, TestScriptAssumption
<1>1. CASE OpenMainScript
  <2>1. retVal' \in [Levels -> Int]
    BY <1>1, LevelUpdate DEF OpenMainScript, EngineTypeOK, ScriptTypeOK
  <2>2. ScriptTypeOK'
    BY <1>1, <2>1 DEF OpenMainScript, EngineTypeOK, ScriptTypeOK, Levels
  <2>3. QED
    BY <1>1, <2>2 DEF OpenMainScript, EngineTypeOK
<1>2. CASE MainScriptMissing
  <2>1. ScriptTypeOK'
    <3>1. pc = "start" /\ pc' = "cleanup"
      BY <1>2 DEF MainScriptMissing, BeginCleanup
    <3>2. UNCHANGED <<depth, retVal, lineNo, statement>>
      BY <1>2 DEF MainScriptMissing
    <3>3. statement = NoStatement
      BY <3>1 DEF EngineTypeOK, ScriptTypeOK
    <3>4. QED
      BY <3>1, <3>2, <3>3 DEF EngineTypeOK, ScriptTypeOK, ScriptOpened
  <2>2. QED
    BY <1>2, <2>1, BeginCleanupType DEF MainScriptMissing, EngineTypeOK
<1>3. CASE Include
  <2>1. depth \in Levels
    BY <1>3 DEF Include, AtStatement, EngineTypeOK, ScriptTypeOK, ScriptOpened
  <2>2. depth + 1 \in Levels
    BY <1>3, <2>1 DEF Include, DepthReached, Levels
  <2>3. retVal' \in [Levels -> Int] /\ lineNo' \in [Levels -> Nat]
    BY <1>3, <2>1, LevelUpdate, NextLineType DEF Include, EngineTypeOK, ScriptTypeOK
  <2>4. ScriptTypeOK'
    BY <1>3, <2>2, <2>3 DEF Include, EngineTypeOK, ScriptTypeOK, Levels
  <2>5. QED
    BY <1>3, <2>4 DEF Include, EngineTypeOK
<1>4. CASE EndOfInclude
  <2>1. depth \in Levels /\ depth > 0
    BY <1>4 DEF EndOfInclude, EngineTypeOK, ScriptTypeOK, ScriptOpened
  <2>2. depth - 1 \in Levels /\ depth - 1 \in -1 .. MaxScriptFileDepth - 1
    BY <2>1 DEF Levels
  <2>3. retVal[depth] \in Int
    BY <2>1 DEF EngineTypeOK, ScriptTypeOK
  <2>4. [retVal EXCEPT ![depth - 1] = retVal[depth]] \in [Levels -> Int]
    BY <2>3, LevelUpdate DEF EngineTypeOK, ScriptTypeOK
  <2>5. retVal' \in [Levels -> Int]
    BY <1>4, <2>4, LevelUpdate DEF EndOfInclude
  <2>6. lineNo' \in [Levels -> Nat]
    BY <1>4, LevelUpdate DEF EndOfInclude, EngineTypeOK, ScriptTypeOK
  <2>7. ScriptTypeOK'
    BY <1>4, <2>2, <2>5, <2>6 DEF EndOfInclude, EngineTypeOK, ScriptTypeOK
  <2>8. CaseTypeOK'
    <3>1. "SKIPPED" \in Results
      BY DEF Results
    <3>2. result' \in Results /\ begun' \in Seq(TestCaseIds \cup {NoId})
      BY <1>4, <3>1, SetResultType DEF EndOfInclude, EngineTypeOK, CaseTypeOK
    <3>3. QED
      BY <1>4, <3>2 DEF EndOfInclude, EngineTypeOK, CaseTypeOK
  <2>9. QED
    BY <1>4, <2>7, <2>8 DEF EndOfInclude, EngineTypeOK
<1>5. CASE EndOfMainScript
  <2>1. retVal' \in [Levels -> Int] /\ lineNo' \in [Levels -> Nat]
    BY <1>5, LevelUpdate DEF EndOfMainScript, EngineTypeOK, ScriptTypeOK
  <2>2. ScriptTypeOK'
    BY <1>5, <2>1 DEF EndOfMainScript, BeginCleanup, EngineTypeOK, ScriptTypeOK, ScriptOpened
  <2>3. QED
    BY <1>5, <2>2, BeginCleanupType DEF EndOfMainScript, EngineTypeOK
<1>6. CASE QuitAtStart
  <2>1. pc = "start" /\ pc' = "exit" /\ UNCHANGED <<depth, retVal, lineNo, statement>>
    BY <1>6 DEF QuitAtStart
  <2>2. statement = NoStatement
    BY <2>1 DEF EngineTypeOK, ScriptTypeOK
  <2>3. ScriptTypeOK'
    BY <2>1, <2>2 DEF EngineTypeOK, ScriptTypeOK, ScriptOpened
  <2>4. QED
    BY <1>6, <2>3 DEF QuitAtStart, EngineTypeOK
<1>7. QED
  BY <1>1, <1>2, <1>3, <1>4, <1>5, <1>6

\* Statements handled without waiting keep every type.
LEMMA PlainStatementType ==
  ASSUME EngineTypeOK, \/ IncludeFails \/ UndefinedVariable \/ SkipStatement \/ StoreVariable
                       \/ UnknownStatement \/ InvalidTestCaseId
  PROVE  EngineTypeOK'
<1> USE EvidenceKinds, ReturnCodes
<1>1. ASSUME NEW ret \in {SUCCESS, FAILED, NOTFOUND}, NEW why \in {"error", "badId"},
             Handle(ret, why)
      PROVE  EngineTypeOK'
  BY <1>1, HandleType
<1>2. CASE SkipStatement
  <2>1. depth \in Levels
    BY <1>2 DEF SkipStatement, AtStatement, EngineTypeOK, ScriptTypeOK, ScriptOpened
  <2>2. retVal' \in [Levels -> Int]
    BY <1>2, LevelUpdate DEF SkipStatement, SubstCounts, EngineTypeOK, ScriptTypeOK
  <2>3. lineNo' \in [Levels -> Nat]
    BY <1>2, <2>1, NextLineType DEF SkipStatement, EngineTypeOK
  <2>4. ScriptTypeOK'
    BY <1>2, <2>1, <2>2, <2>3 DEF SkipStatement, EngineTypeOK, ScriptTypeOK
  <2>5. QED
    BY <1>2, <2>4, UnchangedType DEF SkipStatement, EngineTypeOK
<1>3. QED
  BY <1>1, <1>2 DEF IncludeFails, UndefinedVariable, StoreVariable, UnknownStatement,
                    InvalidTestCaseId

\* Beginning, draining and closing a test case keep every type.
LEMMA TestCaseType ==
  ASSUME EngineTypeOK, \/ \E id \in TestCaseIds : GetTestCaseID(id)
                       \/ DrainPacket \/ DrainEmptyPort \/ DrainError
                       \/ StartCase \/ StartUnnamedCase \/ Exit
  PROVE  EngineTypeOK'
<1> USE UnchangedType
<1>1. ASSUME NEW id \in TestCaseIds, GetTestCaseID(id)
      PROVE  EngineTypeOK'
  <2>1. [cmd |-> "@", id |-> id] \in Statements
    BY DEF Statements, CaseStatements
  <2>2. ScriptTypeOK' /\ CaseTypeOK' /\ ReportTypeOK' /\ PortTypeOK'
    BY <1>1, <2>1, StartType DEF GetTestCaseID, BeginCleanup
  <2>3. QED
    BY <1>1, <2>2, BeginCleanupType DEF GetTestCaseID, EngineTypeOK
<1>2. CASE DrainPacket
  <2>1. "FAILED" \in Results /\ "unexpected" \in Evidence
    BY EvidenceKinds DEF Results
  <2>2. result' \in Results /\ begun' \in Seq(TestCaseIds \cup {NoId})
    BY <1>2, <2>1, SetResultType DEF DrainPacket, EngineTypeOK
  <2>3. CaseTypeOK'
    BY <1>2, <2>1, <2>2 DEF DrainPacket, EngineTypeOK, CaseTypeOK
  <2>4. ports[scan] \in Ports
    BY <1>2 DEF DrainPacket, Scanning, EngineTypeOK, PortTypeOK
  <2>5. PortTypeOK'
    BY <1>2, <2>4 DEF DrainPacket, EngineTypeOK, PortTypeOK
  <2>6. DrainTypeOK'
    BY <1>2, <2>4 DEF DrainPacket, EngineTypeOK, DrainTypeOK
  <2>7. QED
    BY <1>2, <2>3, <2>5, <2>6 DEF DrainPacket, EngineTypeOK
<1>3. CASE DrainEmptyPort
  BY <1>3 DEF DrainEmptyPort, EngineTypeOK, DrainTypeOK
<1>4. CASE DrainError
  BY <1>4 DEF DrainError, EngineTypeOK, DrainTypeOK, PortTypeOK
<1>5. CASE StartCase
  <2>1. depth \in Levels
    BY <1>5 DEF StartCase, Drained, EngineTypeOK, ScriptTypeOK, ScriptOpened, NoStatement
  <2>2. ScriptTypeOK'
    BY <1>5, <2>1, ReturnType, ReturnCodes DEF StartCase, EngineTypeOK
  <2>3. statement.id \in TestCaseIds
    BY <1>5 DEF StartCase, EngineTypeOK, ScriptTypeOK, Statements, NoStatement, CaseStatements,
                PacketStatements
  <2>4. CaseTypeOK'
    BY <1>5, <2>3 DEF StartCase, EngineTypeOK, CaseTypeOK, Results
  <2>5. QED
    BY <1>5, <2>2, <2>4, PrintType DEF StartCase, EngineTypeOK
<1>6. CASE StartUnnamedCase
  <2>1. depth \in Levels
    BY <1>6 DEF StartUnnamedCase, Drained, EngineTypeOK, ScriptTypeOK, ScriptOpened, NoStatement
  <2>2. statement \in PacketStatements
    BY <1>6
    DEF StartUnnamedCase, EngineTypeOK, ScriptTypeOK, Statements, NoStatement, CaseStatements
  <2>3. ScriptTypeOK'
    BY <1>6, <2>1, <2>2 DEF StartUnnamedCase, EngineTypeOK, ScriptTypeOK
  <2>4. "PASSED" \in Results
    BY DEF Results
  <2>5. result' \in Results /\ begun' \in Seq(TestCaseIds \cup {NoId})
    BY <1>6, <2>4, SetResultType DEF StartUnnamedCase, EngineTypeOK
  <2>6. CaseTypeOK'
    BY <1>6, <2>5 DEF StartUnnamedCase, EngineTypeOK, CaseTypeOK
  <2>7. QED
    BY <1>6, <2>3, <2>6, PrintType DEF StartUnnamedCase, EngineTypeOK
<1>7. CASE Exit
  <2>1. depth = -1 /\ statement = NoStatement
    BY <1>7 DEF Exit, Drained, EngineTypeOK, ScriptTypeOK, ScriptOpened, Levels
  <2>2. ScriptTypeOK'
    BY <1>7, <2>1 DEF Exit, EngineTypeOK, ScriptTypeOK, ScriptOpened
  <2>3. PortTypeOK'
    BY <1>7 DEF Exit, EngineTypeOK, PortTypeOK
  <2>4. QED
    BY <1>7, <2>2, <2>3, PrintType DEF Exit, EngineTypeOK
<1>8. QED
  BY <1>1, <1>2, <1>3, <1>4, <1>5, <1>6, <1>7

\* Send and receive statements keep every type.
LEMMA PacketStatementType ==
  ASSUME EngineTypeOK, \/ \E s \in PacketStatements : PacketStatement(s)
                       \/ SyntaxOnly \/ PacketReadFails \/ PacketSend \/ AwaitPacket
                       \/ PacketReceive \/ ReceiveTimeout \/ ReceiveError
  PROVE  EngineTypeOK'
<1> USE UnchangedType, EvidenceKinds, ReturnCodes
<1>1. ASSUME NEW s \in PacketStatements, PacketStatement(s)
      PROVE  EngineTypeOK'
  <2>1. s \in Statements
    BY DEF Statements
  <2>2. ScriptTypeOK' /\ CaseTypeOK' /\ ReportTypeOK' /\ PortTypeOK'
    BY <1>1, <2>1, StartType DEF PacketStatement, BeginCleanup
  <2>3. DrainTypeOK'
    BY <1>1, BeginCleanupType DEF PacketStatement, EngineTypeOK
  <2>4. QED
    BY <2>2, <2>3 DEF EngineTypeOK
<1>2. ASSUME pc \in {"packet", "receive"}
      PROVE  depth \in Levels
  BY <1>2 DEF EngineTypeOK, ScriptTypeOK, ScriptOpened
<1>3. CASE SyntaxOnly
  <2>1. ScriptTypeOK'
    BY <1>2, <1>3, ReturnType DEF SyntaxOnly, EngineTypeOK
  <2>2. CaseTypeOK'
    BY <1>3 DEF SyntaxOnly, EngineTypeOK, CaseTypeOK
  <2>3. QED
    BY <1>3, <2>1, <2>2 DEF SyntaxOnly, EngineTypeOK
<1>4. ASSUME statement.port \in Ports, Processing,
             \/ UNCHANGED ports
             \/ OpenPort(statement.port),
             UNCHANGED <<mq, arrivals>>
      PROVE  PortTypeOK'
  BY <1>4, OpenPortType DEF EngineTypeOK, PortTypeOK
<1>5. ASSUME pc \in {"packet", "receive"}
      PROVE  statement.port \in Ports
  BY <1>5 DEF EngineTypeOK, ScriptTypeOK, PacketStatements
<1>6. CASE PacketReadFails
  <2>1. ScriptTypeOK'
    BY <1>2, <1>6, ReturnType DEF PacketReadFails, Processing, EngineTypeOK
  <2>2. CaseTypeOK'
    BY <1>6, JudgeType DEF PacketReadFails, EngineTypeOK
  <2>3. PortTypeOK'
    BY <1>4, <1>5, <1>6 DEF PacketReadFails, Processing
  <2>4. QED
    BY <1>6, <2>1, <2>2, <2>3 DEF PacketReadFails, EngineTypeOK
<1>7. CASE PacketSend
  <2>1. PICK ret \in {SUCCESS, FAILED, NOTFOUND} : Judge(ret, "error") /\ Return(ret)
    BY <1>7 DEF PacketSend
  <2>2. ScriptTypeOK'
    BY <1>2, <1>7, <2>1, ReturnType DEF PacketSend, Processing, EngineTypeOK
  <2>3. CaseTypeOK'
    BY <2>1, JudgeType DEF EngineTypeOK
  <2>4. PortTypeOK'
    BY <1>4, <1>5, <1>7 DEF PacketSend, Processing
  <2>5. QED
    BY <1>7, <2>2, <2>3, <2>4 DEF PacketSend, EngineTypeOK
<1>8. CASE AwaitPacket
  <2>1. ScriptTypeOK'
    BY <1>2, <1>8 DEF AwaitPacket, Processing, EngineTypeOK, ScriptTypeOK
  <2>2. PortTypeOK'
    BY <1>4, <1>5, <1>8 DEF AwaitPacket, Processing
  <2>3. QED
    BY <1>8, <2>1, <2>2 DEF AwaitPacket, EngineTypeOK
<1>9. CASE PacketReceive
  <2>1. ScriptTypeOK'
    BY <1>2, <1>9, ReturnType DEF PacketReceive, EngineTypeOK
  <2>2. CaseTypeOK'
    BY <1>9, CaseFailsType DEF PacketReceive, EngineTypeOK
  <2>3. PortTypeOK'
    BY <1>5, <1>9 DEF PacketReceive, EngineTypeOK, PortTypeOK
  <2>4. QED
    BY <1>9, <2>1, <2>2, <2>3 DEF PacketReceive, EngineTypeOK
<1>10. CASE ReceiveTimeout
  <2>1. ScriptTypeOK'
    BY <1>2, <1>10, ReturnType DEF ReceiveTimeout, EngineTypeOK
  <2>2. CaseTypeOK'
    BY <1>10, CaseFailsType DEF ReceiveTimeout, EngineTypeOK
  <2>3. QED
    BY <1>10, <2>1, <2>2 DEF ReceiveTimeout, EngineTypeOK
<1>11. CASE ReceiveError
  <2>1. ScriptTypeOK'
    BY <1>2, <1>11, ReturnType DEF ReceiveError, EngineTypeOK
  <2>2. CaseTypeOK'
    BY <1>11, JudgeType DEF ReceiveError, EngineTypeOK
  <2>3. QED
    BY <1>11, <2>1, <2>2 DEF ReceiveError, EngineTypeOK
<1>12. QED
  BY <1>1, <1>3, <1>6, <1>7, <1>8, <1>9, <1>10, <1>11

\* A packet that arrives keeps every type.
LEMMA ArriveType ==
  ASSUME EngineTypeOK, NEW p \in Ports, NEW m \in Packets, Arrive(p, m)
  PROVE  EngineTypeOK'
<1>1. PortTypeOK'
  BY DEF Arrive, EngineTypeOK, PortTypeOK
<1>2. QED
  BY <1>1, UnchangedType DEF Arrive, EngineTypeOK

\* TypeOK is inductive.
LEMMA NextType == TypeOK /\ [Next]_vars => TypeOK'
<1> SUFFICES ASSUME TypeOK, [Next]_vars
             PROVE  TypeOK'
  OBVIOUS
<1> USE DEF TypeOK
<1>1. CASE SetSyntaxCheckOnly
  <2>1. OptionTypeOK'
    BY <1>1 DEF SetSyntaxCheckOnly, OptionTypeOK
  <2>2. EngineTypeOK'
    BY <1>1, UnchangedType DEF SetSyntaxCheckOnly, EngineTypeOK
  <2>3. QED
    BY <2>1, <2>2
<1>2. ASSUME UNCHANGED optionVars
      PROVE  OptionTypeOK'
  BY <1>2 DEF OptionTypeOK, optionVars
<1>3. CASE EngineStep
  <2>1. EngineTypeOK'
    BY <1>3, ScriptFileType, PlainStatementType, TestCaseType, PacketStatementType
    DEF EngineStep, Engine
  <2>2. QED
    BY <1>2, <1>3, <2>1 DEF EngineStep
<1>4. CASE ArrivalStep
  BY <1>2, <1>4, ArriveType DEF ArrivalStep
<1>5. CASE UNCHANGED vars
  BY <1>2, <1>5, UnchangedType DEF EngineTypeOK, vars
<1>6. QED
  BY <1>1, <1>3, <1>4, <1>5 DEF Next

\* The engine's variables keep their types: ScriptFileDepth stays an index of
\* ScriptFileInfoTable however deep the includes go, a file is open whenever a
\* statement is read or returned to, and the retVal passed up by an included
\* file is always one that was assigned.
THEOREM TypeCorrect == Spec => []TypeOK
BY InitType, NextType, PTL DEF Spec

-----------------------------------------------------------------------------
(* The verdicts.                                                           *)

\* A fault added to a case without unexpected packets makes SKIPPED fit.
LEMMA SkippedFits ==
  ASSUME NEW ev, NEW why \in {"error", "badId"}, "unexpected" \notin ev
  PROVE  VerdictFits("SKIPPED", ev \cup {why}) /\ "unexpected" \notin ev \cup {why}
  BY DEF VerdictFits

\* A difference in traffic makes FAILED fit, whatever went wrong before.
LEMMA FailedFits ==
  ASSUME NEW ev, NEW why \in Traffic
  PROVE  VerdictFits("FAILED", ev \cup {why})
  BY DEF VerdictFits, Traffic

\* What Judge makes of a handler's return value.
LEMMA JudgeFits ==
  ASSUME EngineTypeOK, CurrentVerdictFits, "unexpected" \notin evidence, UNCHANGED ports,
         NEW ret, NEW why \in {"error", "badId"}, Judge(ret, why)
  PROVE  /\ CurrentVerdictFits'
         /\ "unexpected" \notin evidence'
         /\ ret # SUCCESS => Skipping'
<1>1. CASE ret = SUCCESS
  BY <1>1 DEF Judge, CurrentVerdictFits, caseVars
<1>2. CASE ret # SUCCESS
  <2>1. result' = "SKIPPED" /\ evidence' = evidence \cup {why}
    BY <1>2 DEF Judge, SetResult
  <2>2. VerdictFits(result', evidence') /\ "unexpected" \notin evidence'
    BY <2>1, SkippedFits
  <2>3. QED
    BY <2>1, <2>2 DEF CurrentVerdictFits, Skipping
<1>3. QED
  BY <1>1, <1>2

\* The report of a closed case is sound because the open case was.
LEMMA PrintFits ==
  ASSUME EngineTypeOK, VerdictSound, CurrentVerdictFits, PrintFinalResult
  PROVE  VerdictSound'
<1>1. CASE result = "UNKNOWN"
  BY <1>1 DEF PrintFinalResult, VerdictSound
<1>2. CASE result # "UNKNOWN"
  <2> DEFINE line == [id |-> caseId, verdict |-> result, evidence |-> evidence,
                      unread |-> {p \in Ports : owed[p] > 0}]
  <2>1. report' = Append(report, line)
    BY <1>2 DEF PrintFinalResult
  <2>2. line.verdict = result /\ line.evidence = evidence
    OBVIOUS
  <2>3. VerdictFits(line.verdict, line.evidence)
    BY <1>2, <2>2 DEF CurrentVerdictFits
  <2> HIDE DEF line
  <2>4. report \in Seq(ReportLines)
    BY DEF EngineTypeOK, ReportTypeOK
  <2>5. DOMAIN report' = 1 .. Len(report) + 1
    BY <2>1, <2>4
  <2>6. ASSUME NEW i \in DOMAIN report'
        PROVE  VerdictFits(report'[i].verdict, report'[i].evidence)
    <3>1. CASE i = Len(report) + 1
      BY <2>1, <2>3, <2>4, <3>1
    <3>2. CASE i # Len(report) + 1
      <4>1. i \in DOMAIN report /\ report'[i] = report[i]
        BY <2>1, <2>4, <2>5, <3>2
      <4>2. QED
        BY <4>1 DEF VerdictSound
    <3>3. QED
      BY <3>1, <3>2
  <2>7. QED
    BY <2>6 DEF VerdictSound
<1>3. QED
  BY <1>1, <1>2

\* Opening, including and closing scripts preserve IInv; the end of an include
\* spoils no case that retVal does not already belong to.
LEMMA ScriptFileVerdict ==
  ASSUME EngineTypeOK, IInv, \/ QuitAtStart \/ OpenMainScript \/ MainScriptMissing \/ Include
                             \/ EndOfInclude \/ EndOfMainScript
  PROVE  IInv'
<1> USE DEF IInv
<1>1. CASE OpenMainScript
  <2>1. retVal'[0] = SUCCESS
    BY <1>1, TestScriptAssumption
    DEF OpenMainScript, FirstRetVal, EngineTypeOK, ScriptTypeOK, Levels
  <2>2. QED
    BY <1>1, <2>1 DEF OpenMainScript, VerdictSound, CurrentVerdictFits, RetValSpoiled, caseVars,
                      portVars
<1>2. CASE MainScriptMissing
  <2>1. statement' = NoStatement
    BY <1>2 DEF MainScriptMissing, EngineTypeOK, ScriptTypeOK
  <2>2. statement' \notin PacketStatements
    BY <2>1 DEF NoStatement, PacketStatements
  <2>3. QED
    BY <1>2, <2>2 DEF MainScriptMissing, BeginCleanup, VerdictSound, CurrentVerdictFits,
                      RetValSpoiled, caseVars, portVars
<1>3. CASE Include
  <2>1. depth \in Levels
    BY <1>3 DEF Include, AtStatement, EngineTypeOK, ScriptTypeOK, ScriptOpened
  <2>2. depth + 1 \in Levels
    BY <1>3, <2>1, TestScriptAssumption DEF Include, DepthReached, Levels
  <2>3. retVal'[depth'] = SUCCESS
    BY <1>3, <2>2 DEF Include, FirstRetVal, EngineTypeOK, ScriptTypeOK
  <2>4. QED
    BY <1>3, <2>3 DEF Include, AtStatement, VerdictSound, CurrentVerdictFits, RetValSpoiled,
                      caseVars, portVars
<1>4. CASE EndOfInclude
  <2>1. depth \in Levels /\ depth > 0
    BY <1>4 DEF EndOfInclude, EngineTypeOK, ScriptTypeOK, ScriptOpened
  <2>2. depth - 1 \in Levels /\ depth - 1 # depth
    BY <2>1, TestScriptAssumption DEF Levels
  <2>3. retVal'[depth'] = retVal[depth]
    <3> DEFINE passedUp == [retVal EXCEPT ![depth - 1] = retVal[depth]]
    <3>1. passedUp[depth - 1] = retVal[depth] /\ passedUp \in [Levels -> Int]
      BY <2>1, <2>2, LevelUpdate DEF EngineTypeOK, ScriptTypeOK
    <3>2. retVal' = [passedUp EXCEPT ![depth] = SUCCESS]
      BY <1>4 DEF EndOfInclude
    <3>3. depth' = depth - 1
      BY <1>4 DEF EndOfInclude
    <3> HIDE DEF passedUp
    <3>4. QED
      BY <2>2, <3>1, <3>2, <3>3
  <2>4. CASE retVal[depth] = SUCCESS
    BY <1>4, <2>3, <2>4
    DEF EndOfInclude, VerdictSound, CurrentVerdictFits, RetValSpoiled, portVars
  <2>5. CASE retVal[depth] # SUCCESS
    <3>1. evidence # {} /\ "unexpected" \notin evidence
      BY <1>4, <2>5 DEF EndOfInclude, RetValSpoiled, Skipping, CurrentVerdictFits, VerdictFits
    <3>2. result' = "SKIPPED" /\ evidence' = evidence
      BY <1>4, <2>5 DEF EndOfInclude, SetResult
    <3>3. VerdictFits("SKIPPED", evidence)
      BY <3>1 DEF VerdictFits
    <3>4. QED
      BY <1>4, <3>1, <3>2, <3>3
      DEF EndOfInclude, VerdictSound, CurrentVerdictFits, RetValSpoiled, Skipping
  <2>6. QED
    BY <2>4, <2>5
<1>5. CASE EndOfMainScript
  <2>1. statement' = NoStatement
    BY <1>5 DEF EndOfMainScript, EngineTypeOK, ScriptTypeOK
  <2>2. statement' \notin PacketStatements
    BY <2>1 DEF NoStatement, PacketStatements
  <2>3. QED
    BY <1>5, <2>2 DEF EndOfMainScript, BeginCleanup, VerdictSound, CurrentVerdictFits,
                      RetValSpoiled, caseVars, portVars
<1>6. CASE QuitAtStart
  BY <1>6 DEF QuitAtStart, VerdictSound, CurrentVerdictFits, RetValSpoiled, caseVars, portVars
<1>7. QED
  BY <1>1, <1>2, <1>3, <1>4, <1>5, <1>6

\* Statements handled without waiting preserve IInv.
LEMMA PlainStatementVerdict ==
  ASSUME EngineTypeOK, IInv, \/ IncludeFails \/ UndefinedVariable \/ SkipStatement \/ StoreVariable
                             \/ UnknownStatement \/ InvalidTestCaseId
  PROVE  IInv'
<1> USE DEF IInv
<1>1. ASSUME NEW ret \in {SUCCESS, FAILED, NOTFOUND}, NEW why \in {"error", "badId"},
             Handle(ret, why)
      PROVE  IInv'
  <2>1. depth \in Levels
    BY <1>1 DEF Handle, AtStatement, EngineTypeOK, ScriptTypeOK, ScriptOpened
  <2>2. retVal'[depth'] = ret
    BY <1>1, <2>1 DEF Handle, EngineTypeOK, ScriptTypeOK
  <2>3. CurrentVerdictFits' /\ "unexpected" \notin evidence' /\ (ret # SUCCESS => Skipping')
    BY <1>1, JudgeFits DEF Handle, AtStatement, portVars
  <2>4. QED
    BY <1>1, <2>2, <2>3 DEF Handle, AtStatement, VerdictSound, RetValSpoiled
<1>2. CASE SkipStatement
  BY <1>2 DEF SkipStatement, AtStatement, Skipping, VerdictSound, CurrentVerdictFits,
              RetValSpoiled, caseVars, portVars
<1>3. QED
  BY <1>1, <1>2 DEF IncludeFails, UndefinedVariable, StoreVariable, UnknownStatement,
                    InvalidTestCaseId

\* Beginning, draining and closing a test case preserve IInv.
LEMMA TestCaseVerdict ==
  ASSUME EngineTypeOK, IInv, \/ \E id \in TestCaseIds : GetTestCaseID(id)
                             \/ DrainPacket \/ DrainEmptyPort \/ DrainError
                             \/ StartCase \/ StartUnnamedCase \/ Exit
  PROVE  IInv'
<1> USE DEF IInv
<1>1. ASSUME NEW id \in TestCaseIds, GetTestCaseID(id)
      PROVE  IInv'
  <2>1. statement' \notin PacketStatements
    BY <1>1 DEF GetTestCaseID, Start, PacketStatements
  <2>2. QED
    BY <1>1, <2>1 DEF GetTestCaseID, BeginCleanup, Start, VerdictSound, CurrentVerdictFits,
                      RetValSpoiled, caseVars, portVars
<1>2. CASE DrainPacket
  <2>1. ports # <<>>
    BY <1>2 DEF DrainPacket, Scanning
  <2>2. result # "UNKNOWN"
    BY <2>1 DEF CurrentVerdictFits
  <2>3. result' = "FAILED" /\ evidence' = evidence \cup {"unexpected"}
    BY <1>2 DEF DrainPacket, SetResult
  <2>4. VerdictFits(result', evidence')
    BY <2>3, FailedFits DEF Traffic
  <2>5. CurrentVerdictFits'
    BY <2>3, <2>4 DEF CurrentVerdictFits
  <2>6. QED
    BY <1>2, <2>2, <2>5 DEF DrainPacket, Scanning, VerdictSound, RetValSpoiled, engineVars
<1>3. CASE DrainEmptyPort \/ DrainError
  BY <1>3
  DEF DrainEmptyPort, DrainError, VerdictSound, CurrentVerdictFits, RetValSpoiled, Scanning,
              Skipping, engineVars, caseVars, portVars
<1>4. CASE StartCase
  <2>1. VerdictSound'
    BY <1>4, PrintFits DEF StartCase
  <2>2. VerdictFits("PASSED", {})
    BY DEF VerdictFits
  <2>3. depth \in Levels
    BY <1>4 DEF StartCase, Drained, EngineTypeOK, ScriptTypeOK, ScriptOpened, NoStatement
  <2>4. retVal'[depth'] = SUCCESS
    BY <1>4, <2>3 DEF StartCase, Return, EngineTypeOK, ScriptTypeOK
  <2>5. QED
    BY <1>4, <2>1, <2>2, <2>4 DEF StartCase, Return, CurrentVerdictFits, RetValSpoiled
<1>5. CASE StartUnnamedCase
  <2>1. VerdictSound'
    BY <1>5, PrintFits DEF StartUnnamedCase
  <2>2. statement \in PacketStatements
    BY <1>5
    DEF StartUnnamedCase, EngineTypeOK, ScriptTypeOK, Statements, NoStatement, CaseStatements
  <2>3. result = "UNKNOWN" /\ evidence = {}
    BY <1>5, <2>2 DEF StartUnnamedCase, Drained, CurrentVerdictFits
  <2>4. VerdictFits("PASSED", {})
    BY DEF VerdictFits
  <2>5. result' = "PASSED" /\ evidence' = {} /\ pc' = "packet"
    BY <1>5, <2>3 DEF StartUnnamedCase, SetResult
  <2>6. QED
    BY <2>1, <2>4, <2>5 DEF CurrentVerdictFits, RetValSpoiled
<1>6. CASE Exit
  <2>1. VerdictSound'
    BY <1>6, PrintFits DEF Exit
  <2>2. QED
    BY <1>6, <2>1 DEF Exit, CurrentVerdictFits, RetValSpoiled, caseVars
<1>7. QED
  BY <1>1, <1>2, <1>3, <1>4, <1>5, <1>6

\* Send and receive statements preserve IInv.
LEMMA PacketStatementVerdict ==
  ASSUME EngineTypeOK, IInv, \/ \E s \in PacketStatements : PacketStatement(s)
                             \/ SyntaxOnly \/ PacketReadFails \/ PacketSend \/ AwaitPacket
                             \/ PacketReceive \/ ReceiveTimeout \/ ReceiveError
  PROVE  IInv'
<1> USE DEF IInv
<1>1. ASSUME NEW s \in PacketStatements, PacketStatement(s)
      PROVE  IInv'
  <2>1. result = "UNKNOWN" \/ result = "PASSED"
    BY <1>1 DEF PacketStatement, Skipping, EngineTypeOK, CaseTypeOK, Results
  <2>2. QED
    BY <1>1, <2>1 DEF PacketStatement, Start, AtStatement, BeginCleanup, VerdictSound,
                      CurrentVerdictFits, RetValSpoiled, caseVars, portVars
<1>2. ASSUME pc \in {"packet", "receive"}, NEW ret \in {SUCCESS, FAILED, NOTFOUND}, Return(ret)
      PROVE  retVal'[depth'] = ret
  <2>1. depth \in Levels
    BY <1>2 DEF EngineTypeOK, ScriptTypeOK, ScriptOpened
  <2>2. QED
    BY <1>2, <2>1 DEF Return, EngineTypeOK, ScriptTypeOK
\* A case is open here, so that the ports do not matter to CurrentVerdictFits.
<1>3. ASSUME pc \in {"packet", "receive"}, NEW ret \in {SUCCESS, FAILED, NOTFOUND},
             Judge(ret, "error"), Return(ret), UNCHANGED report
      PROVE  IInv'
  <2>1. result = "PASSED" /\ evidence = {}
    BY <1>3 DEF CurrentVerdictFits, VerdictFits
  <2>2. CASE ret = SUCCESS
    BY <1>2, <1>3, <2>1, <2>2
    DEF Judge, Return, VerdictSound, CurrentVerdictFits, RetValSpoiled, caseVars
  <2>3. CASE ret # SUCCESS
    <3>1. result' = "SKIPPED" /\ evidence' = evidence \cup {"error"}
      BY <1>3, <2>3 DEF Judge, SetResult
    <3>2. VerdictFits(result', evidence') /\ "unexpected" \notin evidence'
      BY <2>1, <3>1, SkippedFits
    <3>3. QED
      BY <1>3, <3>1, <3>2
      DEF Return, VerdictSound, CurrentVerdictFits, RetValSpoiled, Skipping
  <2>4. QED
    BY <2>2, <2>3
<1>4. ASSUME pc \in {"packet", "receive"}, NEW why \in {"mismatch", "timeout"},
             CaseFails(why), Return(SUCCESS), UNCHANGED report
      PROVE  IInv'
  <2>1. "unexpected" \notin evidence
    BY <1>4
  <2>2. result' = "FAILED" /\ evidence' = evidence \cup {why}
    BY <1>4 DEF CaseFails, SetResult
  <2>3. VerdictFits(result', evidence') /\ "unexpected" \notin evidence'
    BY <2>1, <2>2, FailedFits DEF Traffic
  <2>4. retVal'[depth'] = SUCCESS
    BY <1>2, <1>4
  <2>5. QED
    BY <1>4, <2>2, <2>3, <2>4 DEF Return, VerdictSound, CurrentVerdictFits, RetValSpoiled
<1>5. CASE SyntaxOnly
  <2>1. retVal'[depth'] = SUCCESS
    BY <1>2, <1>5 DEF SyntaxOnly
  <2>2. QED
    BY <1>5, <2>1
    DEF SyntaxOnly, Return, VerdictSound, CurrentVerdictFits, RetValSpoiled, caseVars, portVars
<1>6. CASE PacketReadFails
  BY <1>3, <1>6 DEF PacketReadFails, Processing
<1>7. CASE PacketSend
  BY <1>3, <1>7 DEF PacketSend, Processing
<1>8. CASE AwaitPacket
  BY <1>8 DEF AwaitPacket, Processing, VerdictSound, CurrentVerdictFits, RetValSpoiled, caseVars
<1>9. CASE PacketReceive
  <2>1. pc = "receive" /\ Return(SUCCESS) /\ UNCHANGED report
    BY <1>9 DEF PacketReceive
  <2>2. UNCHANGED caseVars \/ CaseFails("mismatch")
    BY <1>9 DEF PacketReceive
  <2>3. CASE UNCHANGED caseVars
    <3>1. Judge(SUCCESS, "error")
      BY <2>3 DEF Judge
    <3>2. QED
      BY <1>3, <2>1, <3>1
  <2>4. QED
    BY <1>4, <2>1, <2>2, <2>3
<1>10. CASE ReceiveTimeout
  BY <1>4, <1>10 DEF ReceiveTimeout
<1>11. CASE ReceiveError
  BY <1>3, <1>11 DEF ReceiveError
<1>12. QED
  BY <1>1, <1>5, <1>6, <1>7, <1>8, <1>9, <1>10, <1>11

\* IInv holds when nothing has been reported.
LEMMA InitVerdict == Init => IInv
  BY DEF Init, IInv, VerdictSound, CurrentVerdictFits, RetValSpoiled

\* IInv is inductive, given the types.
LEMMA NextVerdict == TypeOK /\ IInv /\ [Next]_vars => IInv'
<1> SUFFICES ASSUME TypeOK, IInv, [Next]_vars
             PROVE  IInv'
  OBVIOUS
<1>1. EngineTypeOK
  BY DEF TypeOK
<1>2. CASE SetSyntaxCheckOnly
  BY <1>2 DEF SetSyntaxCheckOnly, IInv, VerdictSound, CurrentVerdictFits, RetValSpoiled, Skipping,
              engineVars, caseVars, portVars
<1>3. CASE EngineStep
  BY <1>1, <1>3, ScriptFileVerdict, PlainStatementVerdict, TestCaseVerdict, PacketStatementVerdict
  DEF EngineStep, Engine
<1>4. CASE ArrivalStep
  BY <1>4
  DEF ArrivalStep, Arrive, IInv, VerdictSound, CurrentVerdictFits, RetValSpoiled, Skipping,
              engineVars, caseVars
<1>5. CASE UNCHANGED vars
  BY <1>5 DEF IInv, VerdictSound, CurrentVerdictFits, RetValSpoiled, Skipping, vars,
              engineVars, caseVars, portVars
<1>6. QED
  BY <1>2, <1>3, <1>4, <1>5 DEF Next

\* The strengthened invariant: the verdict of the open case fits what has gone
\* wrong in it, and a retVal that an include would turn into SKIPPED occurs
\* only in a case that is spoiled already.
THEOREM VerdictsInvariant == Spec => []IInv
<1>1. Spec => []TypeOK
  BY TypeCorrect
<1>2. QED
  BY <1>1, InitVerdict, NextVerdict, PTL DEF Spec

\* Every verdict in the report fits what went wrong in its case: no case with
\* a fault or a difference in traffic is reported as PASSED, none without one
\* as FAILED or SKIPPED, and an unexpected packet always means FAILED.
THEOREM VerdictsSound == Spec => []VerdictSound
<1>1. IInv => VerdictSound
  BY DEF IInv
<1>2. QED
  BY <1>1, VerdictsInvariant, PTL

\* Packets are sent and awaited only in a case that has not failed, and no
\* port is open before the first case.
THEOREM NoTrafficAfterFailure == Spec => []TrafficOnlyWhilePassing
<1>1. IInv => TrafficOnlyWhilePassing
  BY DEF IInv, CurrentVerdictFits, TrafficOnlyWhilePassing
<1>2. QED
  BY <1>1, VerdictsInvariant, PTL
=============================================================================
