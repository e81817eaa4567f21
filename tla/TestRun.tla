------------------------------ MODULE TestRun ------------------------------
(***************************************************************************)
(* What a run of EDpAT promises the reader of its report, without scripts, *)
(* ports or packets: test cases follow one another, at most one is open,   *)
(* an open case may be spoiled but never gets its pass back, and every     *)
(* case is reported exactly once, in the order the cases began, with the   *)
(* verdict it had when it was closed.  TestScript implements this.         *)
(***************************************************************************)
EXTENDS Sequences

CONSTANTS TestCaseIds, NoId

VARIABLES
  current,   \* verdict of the open case, "UNKNOWN" before the first one
  id,        \* its name; NoId for statements that precede every '@'
  lines,     \* the report
  finished

runVars == <<current, id, lines, finished>>

Spoiled == {"FAILED", "SKIPPED"}

Init ==
  /\ current = "UNKNOWN"
  /\ id = NoId
  /\ lines = <<>>
  /\ finished = FALSE

\* The open case, if any, goes to the report.
Close ==
  lines' = IF current = "UNKNOWN" THEN lines
           ELSE Append(lines, [id |-> id, verdict |-> current])

Begin(name) ==
  /\ ~finished
  /\ Close
  /\ current' = "PASSED"
  /\ id' = name
  /\ UNCHANGED finished

\* Only the first case can be without a name, and it may begin with a fault.
BeginUnnamed ==
  /\ ~finished
  /\ current = "UNKNOWN"
  /\ current' \in {"PASSED", "SKIPPED"}
  /\ UNCHANGED <<id, lines, finished>>

Spoil ==
  /\ ~finished
  /\ current # "UNKNOWN"
  /\ current' \in Spoiled
  /\ UNCHANGED <<id, lines, finished>>

Finish ==
  /\ ~finished
  /\ Close
  /\ finished' = TRUE
  /\ UNCHANGED <<current, id>>

Next == (\E name \in TestCaseIds : Begin(name)) \/ BeginUnnamed \/ Spoil \/ Finish

Spec == Init /\ [][Next]_runVars
=============================================================================
