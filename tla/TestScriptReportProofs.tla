----------------------- MODULE TestScriptReportProofs -----------------------
(***************************************************************************)
(* What holds of the report of a run for every value of the constants:     *)
(* every case is in it once and in order, option -s keeps traffic out of   *)
(* it, an include cannot spoil a passing case, and the engine implements   *)
(* TestRun.                                                                *)
(***************************************************************************)
EXTENDS TestScriptProofs

-----------------------------------------------------------------------------
(* Every case is reported once, in order.                                  *)

\* Nothing has been judged before main() has read its command line.
StartsUnjudged == pc = "start" => result = "UNKNOWN"

\* ReportMatchesCases is inductive with this and IInv, by which the case without
\* an ID is not begun by a packet statement when another is open.
CasesInv == StartsUnjudged /\ ReportMatchesCases

\* The names of the cases reported are names of cases.
LEMMA ReportedIdsType ==
  ASSUME EngineTypeOK
  PROVE  ReportedIds \in Seq(TestCaseIds \cup {NoId}) /\ Len(ReportedIds) = Len(report)
<1>1. report \in Seq(ReportLines)
  BY DEF EngineTypeOK, ReportTypeOK
<1>2. \A i \in DOMAIN report : report[i].id \in TestCaseIds \cup {NoId}
  <2>1. \A line \in ReportLines : line.id \in TestCaseIds \cup {NoId}
    BY DEF ReportLines
  <2>2. \A i \in DOMAIN report : report[i] \in ReportLines
    BY <1>1
  <2>3. QED
    BY <2>1, <2>2
<1>3. ReportedIds \in [1 .. Len(report) -> TestCaseIds \cup {NoId}]
  BY <1>1, <1>2 DEF ReportedIds
<1>4. QED
  BY <1>1, <1>3

\* A step that neither judges nor reports, before the end of the run.
LEMMA CasesKept ==
  ASSUME CasesInv, UNCHANGED caseVars, UNCHANGED report, pc # "exit",
         pc' \notin {"start", "exit"}
  PROVE  CasesInv'
  BY DEF CasesInv, StartsUnjudged, ReportMatchesCases, ReportedIds, OpenCase, caseVars

\* A result that is set in a step that does not report: the first one opens
\* the case without an ID, which is then the last case begun.
LEMMA CasesJudged ==
  ASSUME EngineTypeOK, CasesInv, NEW r \in Results \ {"UNKNOWN"}, SetResult(r),
         UNCHANGED <<caseId, report>>, pc # "exit", pc' \notin {"start", "exit"}
  PROVE  CasesInv'
<1>1. ReportedIds' = ReportedIds /\ OpenCase' = <<caseId>>
  BY DEF SetResult, ReportedIds, OpenCase
<1>2. ReportedIds \in Seq(TestCaseIds \cup {NoId}) /\ caseId \in TestCaseIds \cup {NoId}
  BY ReportedIdsType DEF EngineTypeOK, CaseTypeOK
<1>3. begun' = ReportedIds \o <<caseId>>
  <2>1. CASE result = "UNKNOWN"
    <3>1. begun = ReportedIds
      BY <1>2, <2>1 DEF CasesInv, ReportMatchesCases, OpenCase
    <3>2. QED
      BY <1>2, <2>1, <3>1 DEF SetResult
  <2>2. CASE result # "UNKNOWN"
    BY <2>2 DEF SetResult, CasesInv, ReportMatchesCases, OpenCase
  <2>3. QED
    BY <2>1, <2>2
<1>4. QED
  BY <1>1, <1>3 DEF CasesInv, StartsUnjudged, ReportMatchesCases

\* Reporting the open case moves it from the end of the cases begun to the end
\* of the cases reported.
LEMMA CasesReported ==
  ASSUME EngineTypeOK, CasesInv, PrintFinalResult, pc # "exit"
  PROVE  ReportedIds' = begun
<1>1. CASE result = "UNKNOWN"
  BY <1>1 DEF PrintFinalResult, CasesInv, ReportMatchesCases, ReportedIds, OpenCase,
              EngineTypeOK, ReportTypeOK
<1>2. CASE result # "UNKNOWN"
  <2> DEFINE line == [id |-> caseId, verdict |-> result, evidence |-> evidence,
                      unread |-> {p \in Ports : owed[p] > 0}]
  <2>1. report' = Append(report, line) /\ line.id = caseId
    BY <1>2 DEF PrintFinalResult
  <2> HIDE DEF line
  <2>2. report \in Seq(ReportLines)
    BY DEF EngineTypeOK, ReportTypeOK
  <2>3. ReportedIds' = ReportedIds \o <<caseId>>
    BY <2>1, <2>2 DEF ReportedIds
  <2>4. QED
    BY <1>2, <2>3 DEF CasesInv, ReportMatchesCases, OpenCase
<1>3. QED
  BY <1>1, <1>2

\* What Judge makes of a return value.
LEMMA CasesAfterJudge ==
  ASSUME EngineTypeOK, CasesInv, NEW ret, NEW why, Judge(ret, why), UNCHANGED report,
         pc # "exit", pc' \notin {"start", "exit"}
  PROVE  CasesInv'
<1>1. "SKIPPED" \in Results \ {"UNKNOWN"}
  BY DEF Results
<1>2. QED
  BY <1>1, CasesKept, CasesJudged DEF Judge

\* Only the first case can be without an ID.
LEMMA UnnamedCaseIsFirst ==
  ASSUME EngineTypeOK, IInv, StartUnnamedCase
  PROVE  result = "UNKNOWN"
<1>1. statement \in PacketStatements
  BY DEF StartUnnamedCase, EngineTypeOK, ScriptTypeOK, Statements, NoStatement, CaseStatements
<1>2. QED
  BY <1>1 DEF StartUnnamedCase, Drained, IInv

\* The engine's steps preserve CasesInv.
LEMMA EngineCases ==
  ASSUME EngineTypeOK, IInv, CasesInv, Engine
  PROVE  CasesInv'
<1>1. {"PASSED", "FAILED", "SKIPPED"} \subseteq Results \ {"UNKNOWN"}
  BY DEF Results
<1>2. CASE OpenMainScript \/ MainScriptMissing \/ Include \/ EndOfMainScript
  BY <1>2, CasesKept DEF OpenMainScript, MainScriptMissing, Include, EndOfMainScript, AtStatement,
                         BeginCleanup
<1>3. CASE EndOfInclude
  <2>1. pc = "read" /\ pc' = "read" /\ UNCHANGED <<caseId, report>>
    BY <1>3 DEF EndOfInclude
  <2>2. UNCHANGED <<result, begun>> \/ SetResult("SKIPPED")
    BY <1>3 DEF EndOfInclude
  <2>3. CASE UNCHANGED <<result, begun>>
    BY <2>1, <2>3 DEF CasesInv, StartsUnjudged, ReportMatchesCases, ReportedIds, OpenCase
  <2>4. QED
    BY <1>1, <2>1, <2>2, <2>3, CasesJudged
<1>4. CASE QuitAtStart
  BY <1>4 DEF QuitAtStart, CasesInv, StartsUnjudged, ReportMatchesCases, ReportedIds, OpenCase,
              caseVars
<1>5. ASSUME NEW ret, NEW why, Handle(ret, why)
      PROVE  CasesInv'
  BY <1>5, CasesAfterJudge DEF Handle, AtStatement
<1>6. CASE SkipStatement
  BY <1>6, CasesKept DEF SkipStatement, AtStatement
<1>7. CASE IncludeFails \/ UndefinedVariable \/ StoreVariable \/ UnknownStatement
           \/ InvalidTestCaseId
  BY <1>5, <1>7 DEF IncludeFails, UndefinedVariable, StoreVariable, UnknownStatement,
                    InvalidTestCaseId
<1>8. CASE (\E id \in TestCaseIds : GetTestCaseID(id))
           \/ (\E s \in PacketStatements : PacketStatement(s))
  BY <1>8, CasesKept DEF GetTestCaseID, PacketStatement, Start, AtStatement, BeginCleanup
<1>9. CASE DrainEmptyPort \/ DrainError
  BY <1>9, CasesKept DEF DrainEmptyPort, DrainError, Scanning, engineVars
<1>10. CASE DrainPacket
  BY <1>1, <1>10, CasesJudged DEF DrainPacket, Scanning, engineVars
<1>11. CASE StartCase
  <2>1. pc = "cleanup" /\ pc' = "read" /\ PrintFinalResult /\ result' = "PASSED"
    BY <1>11 DEF StartCase, Drained, Return
  <2>2. ReportedIds' = begun
    BY <2>1, CasesReported
  <2>3. OpenCase' = <<caseId'>> /\ begun' = Append(begun, caseId')
    BY <1>11, <2>1 DEF StartCase, OpenCase
  <2>4. begun \in Seq(TestCaseIds \cup {NoId})
    BY DEF EngineTypeOK, CaseTypeOK
  <2>5. begun' = begun \o <<caseId'>>
    BY <2>3, <2>4
  <2>6. QED
    BY <2>1, <2>2, <2>3, <2>5 DEF CasesInv, StartsUnjudged, ReportMatchesCases
<1>12. CASE StartUnnamedCase
  <2>1. pc = "cleanup" /\ pc' = "packet" /\ PrintFinalResult /\ SetResult("PASSED")
        /\ caseId' = caseId
    BY <1>12 DEF StartUnnamedCase, Drained
  <2>2. result = "UNKNOWN"
    BY <1>12, UnnamedCaseIsFirst
  <2>3. report' = report /\ result' = "PASSED" /\ begun' = Append(begun, caseId)
    BY <2>1, <2>2 DEF PrintFinalResult, SetResult
  <2>4. begun \in Seq(TestCaseIds \cup {NoId}) /\ begun' = begun \o <<caseId>>
    BY <2>3 DEF EngineTypeOK, CaseTypeOK
  <2>5. ReportedIds' = begun /\ OpenCase' = <<caseId>>
    BY <2>1, <2>2, <2>3, CasesReported DEF OpenCase
  <2>6. QED
    BY <2>1, <2>4, <2>5 DEF CasesInv, StartsUnjudged, ReportMatchesCases
<1>13. CASE Exit
  <2>1. pc = "cleanup" /\ pc' = "exit" /\ PrintFinalResult /\ begun' = begun
    BY <1>13 DEF Exit, Drained, caseVars
  <2>2. ReportedIds' = begun /\ OpenCase' = <<>>
    BY <2>1, CasesReported DEF OpenCase
  <2>3. QED
    BY <2>1, <2>2 DEF CasesInv, StartsUnjudged, ReportMatchesCases, EngineTypeOK, CaseTypeOK
<1>14. CASE SyntaxOnly \/ AwaitPacket
  BY <1>14, CasesKept DEF SyntaxOnly, AwaitPacket, Processing, Return
<1>15. CASE PacketReadFails \/ PacketSend \/ ReceiveError
  BY <1>15, CasesAfterJudge DEF PacketReadFails, PacketSend, ReceiveError, Processing, Return
<1>16. CASE PacketReceive
  <2>1. pc = "receive" /\ pc' = "read" /\ report' = report
    BY <1>16 DEF PacketReceive, Return
  <2>2. UNCHANGED caseVars \/ (SetResult("FAILED") /\ caseId' = caseId)
    BY <1>16 DEF PacketReceive, CaseFails
  <2>3. QED
    BY <1>1, <2>1, <2>2, CasesKept, CasesJudged
<1>17. CASE ReceiveTimeout
  BY <1>1, <1>17, CasesJudged DEF ReceiveTimeout, CaseFails, Return
<1>18. QED
  BY <1>2, <1>3, <1>4, <1>6, <1>7, <1>8, <1>9, <1>10, <1>11, <1>12, <1>13, <1>14, <1>15, <1>16,
     <1>17 DEF Engine

\* Nothing has begun and nothing is reported when a run starts.
LEMMA InitCases == Init => CasesInv
  BY DEF Init, CasesInv, StartsUnjudged, ReportMatchesCases, ReportedIds, OpenCase

\* CasesInv is inductive, given the types and the verdicts.
LEMMA NextCases == TypeOK /\ IInv /\ CasesInv /\ [Next]_vars => CasesInv'
<1> SUFFICES ASSUME TypeOK, IInv, CasesInv, [Next]_vars
             PROVE  CasesInv'
  OBVIOUS
<1>1. CASE EngineStep
  BY <1>1, EngineCases DEF EngineStep, TypeOK
<1>2. ASSUME UNCHANGED <<pc, caseVars, report>>
      PROVE  CasesInv'
  BY <1>2 DEF CasesInv, StartsUnjudged, ReportMatchesCases, ReportedIds, OpenCase, caseVars
<1>3. QED
  BY <1>1, <1>2 DEF Next, SetSyntaxCheckOnly, ArrivalStep, Arrive, vars, engineVars

\* No case is lost, reported twice, reported out of order or under the name of
\* the next: the cases begun are those in the report, followed by the open one.
THEOREM CasesReportedOnce == Spec => []ReportMatchesCases
<1>1. CasesInv => ReportMatchesCases
  BY DEF CasesInv
<1>2. QED
  BY <1>1, InitCases, NextCases, TypeCorrect, VerdictsInvariant, PTL DEF Spec

-----------------------------------------------------------------------------
(* Option -s.                                                              *)

\* No port has been opened, and nothing is blamed on the traffic.
NoTrafficSeen ==
  /\ pc # "receive"
  /\ ports = <<>>
  /\ evidence \cap Traffic = {}
  /\ \A i \in DOMAIN report : report[i].evidence \cap Traffic = {}

\* SyntaxCheckOpensNoPort with what it rests on: the option is given before
\* anything is done, and no case carries traffic that is not reported yet.
SyntaxInv == pc = "start" \/ syntaxCheckOnly => NoTrafficSeen

\* A report line is as clean as the case it closes.
LEMMA PrintClean ==
  ASSUME EngineTypeOK, NoTrafficSeen, PrintFinalResult
  PROVE  \A i \in DOMAIN report' : report'[i].evidence \cap Traffic = {}
<1>1. CASE result = "UNKNOWN"
  BY <1>1 DEF PrintFinalResult, NoTrafficSeen
<1>2. CASE result # "UNKNOWN"
  <2> DEFINE line == [id |-> caseId, verdict |-> result, evidence |-> evidence,
                      unread |-> {p \in Ports : owed[p] > 0}]
  <2>1. report' = Append(report, line) /\ line.evidence = evidence
    BY <1>2 DEF PrintFinalResult
  <2> HIDE DEF line
  <2>2. report \in Seq(ReportLines)
    BY DEF EngineTypeOK, ReportTypeOK
  <2>3. ASSUME NEW i \in DOMAIN report'
        PROVE  report'[i] = line \/ (i \in DOMAIN report /\ report'[i] = report[i])
    BY <2>1, <2>2, <2>3
  <2>4. QED
    BY <2>1, <2>3 DEF NoTrafficSeen
<1>3. QED
  BY <1>1, <1>2

\* A fault that is no difference in traffic leaves the case clean.
LEMMA JudgeClean ==
  ASSUME evidence \cap Traffic = {}, NEW ret, NEW why \in {"error", "badId"}, Judge(ret, why)
  PROVE  evidence' \cap Traffic = {}
  BY DEF Judge, Traffic, caseVars

\* With -s the engine neither opens a port nor waits at one.
LEMMA EngineClean ==
  ASSUME EngineTypeOK, NoTrafficSeen, syntaxCheckOnly, Engine
  PROVE  NoTrafficSeen'
<1> USE DEF NoTrafficSeen
<1>1. ASSUME NEW ret, NEW why \in {"error", "badId"}, Handle(ret, why)
      PROVE  NoTrafficSeen'
  BY <1>1, JudgeClean DEF Handle, AtStatement, portVars
<1>2. CASE QuitAtStart \/ OpenMainScript \/ MainScriptMissing \/ Include \/ EndOfMainScript
  BY <1>2 DEF QuitAtStart, OpenMainScript, MainScriptMissing, Include, EndOfMainScript,
              BeginCleanup, caseVars, portVars
<1>3. CASE EndOfInclude \/ SkipStatement
  BY <1>3 DEF EndOfInclude, SkipStatement, caseVars, portVars
<1>4. CASE IncludeFails \/ UndefinedVariable \/ StoreVariable \/ UnknownStatement
           \/ InvalidTestCaseId
  BY <1>1, <1>4 DEF IncludeFails, UndefinedVariable, StoreVariable, UnknownStatement,
                    InvalidTestCaseId
<1>5. CASE (\E id \in TestCaseIds : GetTestCaseID(id))
           \/ (\E s \in PacketStatements : PacketStatement(s))
  BY <1>5 DEF GetTestCaseID, PacketStatement, Start, BeginCleanup, caseVars, portVars
<1>6. CASE DrainPacket \/ DrainEmptyPort \/ DrainError
  BY <1>6 DEF DrainPacket, DrainEmptyPort, DrainError, Scanning
<1>7. CASE StartCase \/ StartUnnamedCase \/ Exit
  BY <1>7, PrintClean DEF StartCase, StartUnnamedCase, Exit, Return, caseVars, portVars
<1>8. CASE SyntaxOnly
  BY <1>8 DEF SyntaxOnly, Return, caseVars, portVars
<1>9. CASE PacketReadFails \/ PacketSend \/ AwaitPacket
  BY <1>9 DEF PacketReadFails, PacketSend, AwaitPacket, Processing
<1>10. CASE PacketReceive \/ ReceiveTimeout \/ ReceiveError
  BY <1>10 DEF PacketReceive, ReceiveTimeout, ReceiveError
<1>11. QED
  BY <1>2, <1>3, <1>4, <1>5, <1>6, <1>7, <1>8, <1>9, <1>10 DEF Engine

\* No step leads back to the command line.
LEMMA NeverBackToStart ==
  ASSUME Engine
  PROVE  pc' # "start"
<1>1. CASE QuitAtStart \/ OpenMainScript \/ MainScriptMissing \/ Include \/ EndOfInclude
           \/ EndOfMainScript
  BY <1>1 DEF QuitAtStart, OpenMainScript, MainScriptMissing, Include, EndOfInclude,
              EndOfMainScript, BeginCleanup, AtStatement
<1>2. CASE IncludeFails \/ UndefinedVariable \/ SkipStatement \/ StoreVariable
           \/ UnknownStatement \/ InvalidTestCaseId
  BY <1>2 DEF IncludeFails, UndefinedVariable, SkipStatement, StoreVariable, UnknownStatement,
              InvalidTestCaseId, Handle, AtStatement
<1>3. CASE (\E id \in TestCaseIds : GetTestCaseID(id))
           \/ (\E s \in PacketStatements : PacketStatement(s))
  BY <1>3 DEF GetTestCaseID, PacketStatement, BeginCleanup
<1>4. CASE DrainPacket \/ DrainEmptyPort \/ DrainError \/ StartCase \/ StartUnnamedCase \/ Exit
  BY <1>4 DEF DrainPacket, DrainEmptyPort, DrainError, Scanning, engineVars, StartCase,
              StartUnnamedCase, Exit, Return
<1>5. CASE SyntaxOnly \/ PacketReadFails \/ PacketSend \/ AwaitPacket \/ PacketReceive
           \/ ReceiveTimeout \/ ReceiveError
  BY <1>5 DEF SyntaxOnly, PacketReadFails, PacketSend, AwaitPacket, PacketReceive,
              ReceiveTimeout, ReceiveError, Return
<1>6. QED
  BY <1>1, <1>2, <1>3, <1>4, <1>5 DEF Engine

\* Nothing has been seen of the traffic when a run starts.
LEMMA InitSyntax == Init => SyntaxInv
  BY DEF Init, SyntaxInv, NoTrafficSeen

\* SyntaxInv is inductive, given the types.
LEMMA NextSyntax == TypeOK /\ SyntaxInv /\ [Next]_vars => SyntaxInv'
<1> SUFFICES ASSUME TypeOK, SyntaxInv, [Next]_vars
             PROVE  SyntaxInv'
  OBVIOUS
<1>1. CASE SetSyntaxCheckOnly
  BY <1>1 DEF SetSyntaxCheckOnly, SyntaxInv, NoTrafficSeen, engineVars, caseVars, portVars
<1>2. CASE EngineStep
  <2>1. pc' # "start" /\ syntaxCheckOnly' = syntaxCheckOnly
    BY <1>2, NeverBackToStart DEF EngineStep, optionVars
  <2>2. QED
    BY <1>2, <2>1, EngineClean DEF EngineStep, SyntaxInv, TypeOK
<1>3. CASE ArrivalStep \/ UNCHANGED vars
  BY <1>3 DEF ArrivalStep, Arrive, SyntaxInv, NoTrafficSeen, vars, optionVars, engineVars,
              caseVars, portVars
<1>4. QED
  BY <1>1, <1>2, <1>3 DEF Next

\* With option -s no port is opened, and no reported verdict has a difference
\* in traffic behind it.
THEOREM SyntaxCheckIsQuiet == Spec => []SyntaxCheckOpensNoPort
<1>1. SyntaxInv => SyntaxCheckOpensNoPort
  BY DEF SyntaxInv, NoTrafficSeen, SyntaxCheckOpensNoPort
<1>2. QED
  BY <1>1, InitSyntax, NextSyntax, TypeCorrect, PTL DEF Spec

-----------------------------------------------------------------------------
(* Includes.                                                               *)

\* Only the end of an included file leads from its level to a lower one.
LEMMA OnlyEndLeavesInclude ==
  ASSUME Engine, pc = "read", depth > 0, depth' < depth, depth \in Int
  PROVE  EndOfInclude
<1>1. CASE QuitAtStart \/ OpenMainScript \/ MainScriptMissing \/ EndOfMainScript
  BY <1>1 DEF QuitAtStart, OpenMainScript, MainScriptMissing, EndOfMainScript
<1>2. CASE Include
  BY <1>2 DEF Include
<1>3. CASE IncludeFails \/ UndefinedVariable \/ SkipStatement \/ StoreVariable
           \/ UnknownStatement \/ InvalidTestCaseId
  BY <1>3 DEF IncludeFails, UndefinedVariable, SkipStatement, StoreVariable, UnknownStatement,
              InvalidTestCaseId, Handle
<1>4. CASE (\E id \in TestCaseIds : GetTestCaseID(id))
           \/ (\E s \in PacketStatements : PacketStatement(s))
  BY <1>4 DEF GetTestCaseID, PacketStatement, Start
<1>5. CASE DrainPacket \/ DrainEmptyPort \/ DrainError \/ StartCase \/ StartUnnamedCase \/ Exit
  BY <1>5 DEF DrainPacket, DrainEmptyPort, DrainError, Scanning, StartCase, StartUnnamedCase,
              Exit, Drained
<1>6. CASE SyntaxOnly \/ PacketReadFails \/ PacketSend \/ AwaitPacket \/ PacketReceive
           \/ ReceiveTimeout \/ ReceiveError
  BY <1>6 DEF SyntaxOnly, PacketReadFails, PacketSend, AwaitPacket, PacketReceive,
              ReceiveTimeout, ReceiveError, Processing
<1>7. QED
  BY <1>1, <1>2, <1>3, <1>4, <1>5, <1>6 DEF Engine

\* A file that is read back in a passing case leaves it passing: by IInv the
\* retVal it passes up is EDPAT_SUCCESS.
THEOREM IncludePreservesPass == Spec => IncludeNeverSpoilsPass
<1>1. ASSUME TypeOK, IInv, Next, pc = "read", depth > 0, depth' < depth, result = "PASSED"
      PROVE  result' = "PASSED"
  <2>1. depth \in Int
    BY <1>1 DEF TypeOK, EngineTypeOK, ScriptTypeOK
  <2>2. CASE EngineStep
    <3>1. EndOfInclude
      BY <1>1, <2>1, <2>2, OnlyEndLeavesInclude DEF EngineStep
    <3>2. retVal[depth] = SUCCESS
      BY <1>1 DEF IInv, RetValSpoiled, Skipping
    <3>3. QED
      BY <1>1, <3>1, <3>2 DEF EndOfInclude
  <2>3. QED
    BY <1>1, <2>1, <2>2 DEF Next, SetSyntaxCheckOnly, ArrivalStep, Arrive, engineVars
<1>2. TypeOK /\ IInv /\ [Next]_vars
      => [pc = "read" /\ depth > 0 /\ depth' < depth /\ result = "PASSED"
            => result' = "PASSED"]_vars
  BY <1>1
<1>3. QED
  BY <1>2, TypeCorrect, VerdictsInvariant, PTL DEF Spec, IncludeNeverSpoilsPass

-----------------------------------------------------------------------------
(* The engine implements TestRun.                                          *)

\* Printing the final result is closing the case in the abstract report.
LEMMA PrintCloses ==
  ASSUME EngineTypeOK, PrintFinalResult
  PROVE  Run!Close
<1> DEFINE L == [i \in DOMAIN report |-> [id |-> report[i].id, verdict |-> report[i].verdict]]
           S == [id : TestCaseIds \cup {NoId}, verdict : Results]
<1>1. report \in Seq(ReportLines)
  BY DEF EngineTypeOK, ReportTypeOK
<1>2. CASE result = "UNKNOWN"
  BY <1>2 DEF PrintFinalResult, Run!Close
<1>3. CASE result # "UNKNOWN"
  <2> DEFINE line == [id |-> caseId, verdict |-> result, evidence |-> evidence,
                      unread |-> {p \in Ports : owed[p] > 0}]
             shown == [id |-> caseId, verdict |-> result]
  <2>1. report' = Append(report, line) /\ line.id = caseId /\ line.verdict = result
    BY <1>3 DEF PrintFinalResult
  <2> HIDE DEF line
  <2>2. \A x \in ReportLines : [id |-> x.id, verdict |-> x.verdict] \in S
    BY DEF ReportLines
  <2> HIDE DEF S
  <2>3. L \in [1 .. Len(report) -> S]
    BY <1>1, <2>2
  <2>4. L \in Seq(S) /\ Len(L) = Len(report)
    BY <1>1, <2>3
  <2>5. L' = Append(L, shown)
    <3>1. DOMAIN L' = 1 .. Len(report) + 1
      BY <1>1, <2>1
    <3>2. DOMAIN Append(L, shown) = 1 .. Len(report) + 1
      BY <2>4, <1>1
    <3>3. ASSUME NEW i \in 1 .. Len(report) + 1
          PROVE  L'[i] = Append(L, shown)[i]
      <4>1. CASE i = Len(report) + 1
        BY <1>1, <2>1, <2>4, <4>1
      <4>2. CASE i # Len(report) + 1
        BY <1>1, <2>1, <2>4, <4>2
      <4>3. QED
        BY <4>1, <4>2
    <3>4. L' = [i \in 1 .. Len(report) + 1 |-> L'[i]]
      BY <3>1
    <3>5. Append(L, shown) = [i \in 1 .. Len(report) + 1 |-> Append(L, shown)[i]]
      BY <1>1, <2>4
    <3>6. QED
      BY <3>3, <3>4, <3>5
  <2>6. QED
    BY <1>3, <2>5 DEF Run!Close
<1>4. QED
  BY <1>2, <1>3

\* A result that is set where nothing is reported: the case without an ID
\* begins, or the open case is spoiled.
LEMMA SettingSpoils ==
  ASSUME NEW r \in {"FAILED", "SKIPPED"}, SetResult(r), UNCHANGED <<caseId, report>>,
         pc # "exit", pc' # "exit", result = "UNKNOWN" => r = "SKIPPED"
  PROVE  Run!BeginUnnamed \/ Run!Spoil
  BY DEF SetResult, Run!BeginUnnamed, Run!Spoil, Run!Spoiled

\* A step that TestRun does not see.
LEMMA RunStutters ==
  ASSUME UNCHANGED <<result, caseId, report>>, pc # "exit", pc' # "exit"
  PROVE  UNCHANGED Run!runVars
  BY DEF Run!runVars

\* What Judge makes of a return value, seen by TestRun.
LEMMA JudgeRefines ==
  ASSUME NEW ret, NEW why, Judge(ret, why), UNCHANGED report, pc # "exit", pc' # "exit"
  PROVE  [Run!Next]_(Run!runVars)
<1>1. CASE ret = SUCCESS
  BY <1>1, RunStutters DEF Judge, caseVars
<1>2. CASE ret # SUCCESS
  BY <1>2, SettingSpoils DEF Judge, Run!Next
<1>3. QED
  BY <1>1, <1>2

\* Every step of the engine is a step of TestRun or one that it does not see.
LEMMA EngineRefines ==
  ASSUME EngineTypeOK, IInv, StartsUnjudged, Engine
  PROVE  [Run!Next]_(Run!runVars)
<1>1. CASE OpenMainScript \/ MainScriptMissing \/ Include \/ EndOfMainScript \/ SkipStatement
  BY <1>1, RunStutters
  DEF OpenMainScript, MainScriptMissing, Include, EndOfMainScript, SkipStatement, AtStatement,
      BeginCleanup, caseVars
<1>2. CASE QuitAtStart
  <2>1. result = "UNKNOWN" /\ UNCHANGED <<result, caseId, report>> /\ pc # "exit" /\ pc' = "exit"
    BY <1>2 DEF QuitAtStart, StartsUnjudged, caseVars
  <2>2. Run!Finish
    BY <2>1 DEF Run!Finish, Run!Close
  <2>3. QED
    BY <2>2 DEF Run!Next
<1>3. CASE EndOfInclude
  <2>1. pc # "exit" /\ pc' # "exit" /\ UNCHANGED <<caseId, report>>
    BY <1>3 DEF EndOfInclude
  <2>2. UNCHANGED result \/ SetResult("SKIPPED")
    BY <1>3 DEF EndOfInclude
  <2>3. QED
    BY <2>1, <2>2, RunStutters, SettingSpoils DEF Run!Next
<1>4. ASSUME NEW ret, NEW why, Handle(ret, why)
      PROVE  [Run!Next]_(Run!runVars)
  BY <1>4, JudgeRefines DEF Handle, AtStatement
<1>5. CASE IncludeFails \/ UndefinedVariable \/ StoreVariable \/ UnknownStatement
           \/ InvalidTestCaseId
  BY <1>4, <1>5 DEF IncludeFails, UndefinedVariable, StoreVariable, UnknownStatement,
                    InvalidTestCaseId
<1>6. CASE (\E id \in TestCaseIds : GetTestCaseID(id))
           \/ (\E s \in PacketStatements : PacketStatement(s))
  BY <1>6, RunStutters DEF GetTestCaseID, PacketStatement, Start, AtStatement, BeginCleanup,
                           caseVars
<1>7. CASE DrainPacket
  <2>1. result # "UNKNOWN"
    BY <1>7 DEF DrainPacket, Scanning, IInv, CurrentVerdictFits
  <2>2. QED
    BY <1>7, <2>1, SettingSpoils DEF DrainPacket, Scanning, engineVars, Run!Next
<1>8. CASE DrainEmptyPort \/ DrainError
  BY <1>8, RunStutters DEF DrainEmptyPort, DrainError, Scanning, engineVars, caseVars
<1>9. CASE StartCase
  <2>1. statement.id \in TestCaseIds
    BY <1>9 DEF StartCase, EngineTypeOK, ScriptTypeOK, Statements, NoStatement, CaseStatements,
                PacketStatements
  <2>2. pc # "exit" /\ pc' # "exit" /\ result' = "PASSED" /\ caseId' = statement.id
    BY <1>9 DEF StartCase, Drained, Return
  <2>3. Run!Close
    BY <1>9, PrintCloses DEF StartCase
  <2>4. Run!Begin(statement.id)
    BY <2>2, <2>3 DEF Run!Begin
  <2>5. QED
    BY <2>1, <2>4 DEF Run!Next
<1>10. CASE StartUnnamedCase
  <2>1. result = "UNKNOWN"
    BY <1>10, UnnamedCaseIsFirst
  <2>2. pc # "exit" /\ pc' # "exit" /\ result' = "PASSED" /\ UNCHANGED <<caseId, report>>
    BY <1>10, <2>1 DEF StartUnnamedCase, Drained, PrintFinalResult, SetResult
  <2>3. Run!BeginUnnamed
    BY <2>1, <2>2 DEF Run!BeginUnnamed
  <2>4. QED
    BY <2>3 DEF Run!Next
<1>11. CASE Exit
  <2>1. pc # "exit" /\ pc' = "exit" /\ UNCHANGED <<result, caseId>>
    BY <1>11 DEF Exit, Drained, caseVars
  <2>2. Run!Close
    BY <1>11, PrintCloses DEF Exit
  <2>3. Run!Finish
    BY <2>1, <2>2 DEF Run!Finish
  <2>4. QED
    BY <2>3 DEF Run!Next
<1>12. CASE SyntaxOnly \/ AwaitPacket
  BY <1>12, RunStutters DEF SyntaxOnly, AwaitPacket, Processing, Return, caseVars
<1>13. CASE PacketReadFails \/ PacketSend \/ ReceiveError
  BY <1>13, JudgeRefines DEF PacketReadFails, PacketSend, ReceiveError, Processing, Return
<1>14. CASE PacketReceive \/ ReceiveTimeout
  <2>1. pc # "exit" /\ pc' # "exit" /\ result # "UNKNOWN" /\ UNCHANGED report
    BY <1>14 DEF PacketReceive, ReceiveTimeout, Return, IInv
  <2>2. UNCHANGED caseVars \/ (SetResult("FAILED") /\ UNCHANGED caseId)
    BY <1>14 DEF PacketReceive, ReceiveTimeout, CaseFails
  <2>3. QED
    BY <2>1, <2>2, RunStutters, SettingSpoils DEF caseVars, Run!Next
<1>15. QED
  BY <1>1, <1>2, <1>3, <1>5, <1>6, <1>7, <1>8, <1>9, <1>10, <1>11, <1>12, <1>13, <1>14 DEF Engine

\* The engine is TestRun: an open case that is spoiled never gets its pass
\* back, and a case is closed once, with the verdict it has at that moment.
THEOREM EngineImplementsTestRun == Spec => RefinesTestRun
<1>1. Init => Run!Init
  BY DEF Init, Run!Init
<1>2. TypeOK /\ IInv /\ CasesInv /\ [Next]_vars => [Run!Next]_(Run!runVars)
  <2> SUFFICES ASSUME TypeOK, IInv, CasesInv, [Next]_vars
               PROVE  [Run!Next]_(Run!runVars)
    OBVIOUS
  <2>1. CASE EngineStep
    BY <2>1, EngineRefines DEF EngineStep, TypeOK, CasesInv
  <2>2. CASE UNCHANGED <<pc, caseVars, report>>
    BY <2>2 DEF Run!runVars, caseVars
  <2>3. QED
    BY <2>1, <2>2 DEF Next, SetSyntaxCheckOnly, ArrivalStep, Arrive, vars, engineVars
<1>3. QED
  BY <1>1, <1>2, InitCases, NextCases, TypeCorrect, VerdictsInvariant, PTL
  DEF Spec, RefinesTestRun, Run!Spec
=============================================================================
