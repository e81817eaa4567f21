# EDpAT in TLA+

EDpAT (Ethernet Data Plane Application Tester) is a C program that reads a test
script, sends and receives raw Ethernet packets as the script says, and reports
each test case as PASSED, FAILED or SKIPPED. This directory holds TLA+ models of
the program from the characters of a script to the packets at an interface, the
TLC configurations that check them on small instances, and TLAPS proofs of the
safety properties and refinements for instances of any size.

## 1. The system

| Component | Source | State | Operations |
|---|---|---|---|
| Script engine, run control | `edpat.c` | `CurrentTestResult`, `CurrentTestCaseId`, `retVal` of each active `TestScriptProcess` | read a statement, substitute, skip, dispatch, judge; final clean-up and exit |
| Test cases | `testcase.c` | the above | `GetTestCaseID`, `CleanupLastTestExecution` |
| Include stack | `scripts.c` | `ScriptFileDepth`, `ScriptFileInfoTable` | `ScriptOpen`, `ScriptClose`, `ScriptIncludeFile` (recursive) |
| Statement reader | `scripts.c` | `ScriptLine` | `ScriptReadStatement` |
| Variables, substitution | `variable.c`, `scripts.c`, `utils.c` | `VarList`, `NextFreeVarListIndex`, the static statement buffer | store, look up, `ScriptSubstituteVariables` |
| Packet statements | `packet.c` | specified packet and mask, `RecvPkt`, `BytesInRecvPkt`, `cs_arr`, the static `pkt` | `packetRead`, `packetSend`, `check_sum`, `packetReceive`, `CheckUnexpectedPackets` |
| Ethernet ports | `EthPortIO.c` | `EthPortInfoTable`, `EthPortCount`, `MqMsgSize`; per port a socket, a POSIX message queue, a thread | open, send, receive, receive from any, close all; `ReceiverPthreadFunc` |
| Log and report | `print.c` | static message buffers, the position of `strtok` | formatted printing |
| Build, samples | `Makefile`, `mountmq.sh`, `sample_tests/` | none | |

How they interact. The main thread runs everything but the receivers. It reads
a statement, replaces variables, and calls a handler; an include calls
`TestScriptProcess` again, and what that returns is judged like the return
value of any handler. `CurrentTestResult` is a global written by the engine, by
`GetTestCaseID`, by `packetReceive` and by `CheckUnexpectedPackets`. The first
packet statement of a port opens it and starts its receiver thread, which reads
the socket, filters, and puts packets on the port's message queue without
waiting; the main thread takes them from there with a timeout. All threads
print, through the same buffers and the same `strtok`.

What is hard here:

- the verdict is a shared global written in several places in an order that
  depends on includes, on substitution failures and on skipped statements;
- packets arrive while the main thread does anything else, also during the
  clean-up that closes a case and in the moment a receive times out;
- opening a port has ten places to fail with part of the resources acquired;
- receivers are cancelled but not joined;
- receivers print while the main thread is between two calls of `strtok`;
- buffers are static and keep their bytes from one statement to the next: the
  send buffer, the receive buffer with its length, the statement, the line;
- bounded resources: queue, socket buffer, port table, include depth, variable
  table, and line, statement and output buffers that are not measured.

What makes each component correct:

- engine and test cases: a verdict fits what happened in its case; each case is
  reported once, in order, under its own ID; no traffic after a failure;
- include stack: depth stays in the table, the return to the including file
  does not change a good verdict;
- clean-up: no packet of a case is charged to the next one; it ends;
- reader: a statement is what the script has between two semicolons, without
  comments, whatever chunks it is read in;
- variables: a statement is expanded with the values last given, and the
  expansion ends;
- packet statements: what is sent is the specified packet with its checksums
  and copies; a packet is accepted when it is the one specified;
- ports: every slot in use is usable and unique; a failed open leaves nothing
  behind; packets are never reordered, duplicated or invented; calls return and
  receivers keep reading;
- printing: messages come to an end and leave the statement alone.

## 2. The modules

| Module | What it is | Run by |
|---|---|---|
| `TestRun` | abstract: what a run promises the reader of its report | |
| `PortQueues` | abstract: the ports as the engine and the port table both see them | |
| `LossyFifo` | abstract: what the way from an interface to the script promises | |
| `TestScript` | the engine: `TestScriptProcess`, `main`, `testcase.c`, the include stack, the control of `packet.c` | `MCTestScript` |
| `TestScriptProofs`, `TestScriptReportProofs`, `TestScriptPortProofs` | theorems about `TestScript`: types and verdicts; the report, includes and `TestRun`; clean-up and `PortQueues` | |
| `EthPortIO` | the port table, opening and closing, receive calls, receiver threads, network | `MCEthPortIO` |
| `EthPortIOProofs` | theorems about `EthPortIO` and its two refinements | |
| `ScriptReader` | `ScriptReadStatement`, character by character | `MCScriptReader` |
| `ScriptReaderProofs` | theorems about `ScriptReader` | |
| `Variables` | the variable table and the substitution in the statement buffer | `MCVariables` |
| `VariablesProofs` | theorems about `Variables` | |
| `Packet` | packet statements token by token, the send and receive buffers, checksums, comparison | `MCPacket` |
| `PacketProofs` | theorems about `Packet`, and about `check_sum` by itself | |
| `MsgPrint` | `msgPrint` and the token loop of `packetRead` over one `strtok` | `MCMsgPrint` |
| `MsgPrintProofs` | theorems about `MsgPrint` | |

`TestScript` is where the parts meet. It implements `TestRun`, which is what a
reader of the report may rely on. It takes the ports to be those of
`PortQueues`, and `EthPortIO` implements the same `PortQueues` with slots,
sockets and threads; what the engine relies on is thus what the table delivers.
The other modules each look into one handler that `TestScript` treats as an
outcome chosen freely: `ScriptReader` says which statements there are,
`Variables` when substitution and storing fail, `Packet` what a well-formed
statement sends and which packet `Matches`, `MsgPrint` what other threads can do
to the parser meanwhile.

### TestScript

An arbitrary script: whatever statement the file could hold next is offered by
the actions, so the model needs no text. The variables keep the names of the code:
`depth` is `ScriptFileDepth`, `retVal[d]` the local variable of the
`TestScriptProcess` at include level `d`, `lineNo[d]` its place in the file,
`result` and `caseId` the two globals, `report` the printed lines, `ports` the
table of open ports reduced to its names in opening order, `mq` the message
queues, `scan` the loop variable of `EthPortReceiveAny`. `pc` tells where the
main thread is: at the command line, reading, in a clean-up, in a packet
statement, waiting for a packet. `syntaxCheckOnly` is option -s
(`SetSyntaxCheckOnly`), `mqReadable` whether the system's message size fits the
receive buffer; both are fixed once the run has begun. `QuitAtStart` is every
exit of `main` before the script.

A statement whose handling cannot interleave with a receiver is one action
(`UndefinedVariable`, `SkipStatement`, `StoreVariable`, `UnknownStatement`,
`InvalidTestCaseId`, `IncludeFails`), and so is the return from an include with
the judgement of its value in the including file (`EndOfInclude`). Statements
that touch the queues take several steps, since receivers run meanwhile: '@' is
`GetTestCaseID`, the scan of the ports (`DrainPacket`, `DrainEmptyPort`,
`DrainError`), then `StartCase`; a packet statement is `PacketStatement`,
possibly the clean-up of the unnamed case, then `SyntaxOnly`, `PacketReadFails`
or `PacketSend`, or `AwaitPacket` and one of `PacketReceive`, `ReceiveTimeout`,
`ReceiveError`. `retVal` is modelled as the code has it, including that a
skipped statement leaves the number of its substitutions there (0, 1, more) and
that the same variable is what the include returns.

The receivers appear as `Arrive`: a packet is queued, or dropped when the queue
is full. Packet contents are model values; `Matches` stands for the comparison
with masks and lengths. Three variables are history and are read by no action:
`evidence` (what went wrong in the open case), `begun` (cases begun) and `owed`
(packets queued when the clean-up began and not read since). Each report line
carries the evidence of its case, so that invariants can compare the verdict
with it.

### EthPortIO

Main thread, one receiver thread per slot, and the network. `EthPortOpen` is split
at the steps other actors can see: the socket exists and captures
(`OpenSocket`), it is bound to its device (`BindDevice`), the end of the queue that
the main thread reads is open (`OpenRcvQueue`), then the end the thread writes
(`OpenSendQueue`), the thread runs and the slot counts (`StartReceiver`).
`OpenFails` is every failing return after `socket()`, also the one with half a
queue, `SocketFails` the one before, which leaves the name in the slot. `StartReceiverFails` follows the
code's test `0 > retVal`, which a positive error number passes; the thread
handle is then either still -1 or stale, and `CancelCrashes` is a later
`pthread_cancel` on the stale one. The code has no test of the table's size:
`TableOverrun` is where the model stops. A packet goes through `sockbuf` (the
kernel's buffer), `held` (the thread's `pkt`) and `mq`. Threads are cancelled
at `recvfrom` and `mq_send` only (`Stop`). Socket buffer, queue and
cancellation are modelled from how the code uses them. That the thread runs and
that `EthPortCount` goes up are one step: only the main thread reads the count.

`BindFilters` says whether `SO_BINDTODEVICE` restricts what a packet socket
receives. It does not on every kernel (socket(7) asks for bind(2) instead); the
properties of the run `ports` do not depend on it and use FALSE. In the run
`interface` it restricts, which is the case that favours the code.

`EthPortSend` and a failing `recvfrom` change nothing in this state, and
`EthPortClearBuf` is never called.

### ScriptReader

The file is arbitrary: each step reads one character of one of five classes
(text, white space, '!', ';', newline), so a behaviour is a file. `column` is
the place in the chunk that `fgets` has delivered and `dropping` says that the rest of
the chunk is not looked at, after a comment or after the `return` behind a
semicolon; the next call starts with `fgets`. `wasLastCharSpace` and `statement` are the
variables of the code. `delivered` collects what the calls return, with the line
number an error message would show. `Store` has no bound in the code: the model
stops at the end of the statement buffer (`overrun`).

### Variables

The substitution works with pointers and NULs in the static statement buffer, so
this is the one module that has a buffer cell by cell: `buf`, with the NUL and
whatever an earlier, longer statement has left behind it. `ReadStatement` and
the first call's set-up are one action, `SubstituteNext` is one pass of the loop
(find '$', append what is before it, cut out the name, look it up, append its
value), `EndScan` the end of a call and the recursive call that follows it. What is
before the '$' is appended before the name is looked up: if it does not fit,
`TextOverruns` ends the pass, whether the name is defined or not. `level` counts the calls on the stack; the
inner calls' results reach the outer ones unchanged, so the frames need no more than
that. `StoreValue` and `StoreFails` are `VariableStoreValue` with its trimming,
its search and its limit. `written` and `latest` are history: the statement as
the script has it, and the values as the script gave them. The ends in undefined
behaviour are `overrun` (output and line buffers) and `uninitialized` (a byte of
`tmp` that a `$` statement of full length reads).

### Packet

One action per kind of token (`ReadHex`, `ReadWildcard`, `ReadCopy`,
`ReadChecksum`, `ReadChecksumAsWildcard`), which appends to `specified` (the
packet and its mask) and to `csArr`; `Send` and `CopyRefused` are
`packetSend`, which has filled in the bytes before the refused one when it fails; `ReceiveFrame`
and `ReceiveNothing` are `packetReceive`. `pkt`, `recvPkt` and `recvLen`
keep their values from one statement to the next as the static buffers do.
`check_sum` is transcribed with its loop bound and its padding; the reference,
`InternetChecksum`, is the one's complement sum by its arithmetic definition.
Bytes are numbers below `ByteRange`, so that overflow and carries happen with
small numbers. `ChecksumOverrun`, `ChecksumTableOverrun` and
`ChecksumWithoutRange` are the places where the code leaves an array or writes
through NULL, and the model stops there.

### MsgPrint

The actors are the main thread and the receivers; `saved` is the position that
`strtok` keeps, one for the whole process: a buffer and the words cut off it so
far. A message is four steps (`FormatMessage`, `CopyMessage`, `FirstLine`,
`NextLine`), the parse is `StartStatement`, the messages of `EthPortOpen`,
`RestartParse` (the second `strncpy` and `strtok` of `packetRead`) and `ReadToken`
until `EndOfTokens`, or until `RefuseEmpty`: a loop that got no token refuses the
statement as a zero byte packet and processes nothing. What a token makes the loop print is part of the statement;
a word of a message, met in the loop because another actor moved `saved`, is a
number or not. A call of `strtok`, `strncpy` or `vsnprintf` is one step; real
threads interleave within them as well, so the model shows what goes wrong
already at this grain, and its positive properties hold at this grain.

## 3. The runs

Every run is a small instance; its constants are in the `.cfg`. All cfgs say
`CHECK_DEADLOCK FALSE`: the program exits, and the models stop at undefined
behaviour and at their bounds.

| Run | Shows |
|---|---|
| `verdicts` | with and without `-s`, with a readable and an unreadable message size, two ports, two packets, two IDs, includes of depth 2, two statements per file: `VerdictSound`, `ReportMatchesCases`, `TrafficOnlyWhilePassing`, `SyntaxCheckOpensNoPort`, `CleanupDrains`, `IncludeNeverSpoilsPass`, the inductive invariant `IInv`, the refinements `RefinesTestRun` and `RefinesPortQueues`, and under fairness `RunEnds` |
| `ports` | two interfaces opened, failing, read and closed under traffic: table consistent, failed opens leak nothing, closing releases everything, every slot is a `LossyFifo` and all together are `PortQueues` |
| `live` | one slot, queue of two, four packets: order, and under fairness calls return, sockets are read, cancelled receivers stop |
| `reader` | every file of up to eight characters: statements begin with text; where lines fit and statements start on new lines, what is delivered is what the rules of the README define |
| `variables` | seven statements out of seventeen: expansions as written, the last value, one pass, no early refusal, overruns only for long text |
| `packet` | three statements of up to four bytes, or one longer packet with two checksums: sent as written, copies from the last packet, checksums right while fields are clean, the written packet is accepted and none with another byte |
| `print` | two receivers, two statements, two messages: the parse is in order, complete when undisturbed, complete in a quiet run; everybody returns |
| `skipped`, `include`, `interface`, `checksum`, `strtok` | one disagreement each between code and documentation, see section 6 |

What the properties say, where the name does not:

- `VerdictSound`: PASSED if and only if nothing went wrong; FAILED only with a
  difference in traffic; an unexpected packet always gives FAILED.
  The converse of the second part is not claimed: a failure can become SKIPPED
  (section 6).
- `ReportMatchesCases`: the cases begun are the reported ones followed by the
  open one, so none is lost, repeated or printed under the next ID.
- `CleanupDrains`: a closed case leaves no packet that was queued when its
  clean-up began, although the scan restarts and packets keep arriving;
  where the queues can be read (`mqReadable`).
- `IncludeNeverSpoilsPass`: the end of an included file leaves a passing case
  passing, also for an empty file.
- `SubstitutedAsWritten`: a statement that reaches its handler is its expansion,
  defined on the statement alone, whatever the buffer held before. Excepted are
  what may follow a variable at the very end, and a '$' with a space behind it.
- `OnePassIsEnough`: why the recursion of `ScriptSubstituteVariables` ends: no
  stored value holds a '$', since its statement was substituted first, so the
  second call finds nothing.
- `SentAsWritten`, `CopiesAreReceived`: bytes at their places although '&' takes
  two; a copy is a byte of the last packet and not of an older, longer one,
  except after a timeout, when the code takes the size of the buffer for the
  number of bytes received.
- `ChecksumsRight`: with carries that carry again and fields that cover each
  other (both met in the longer packet), over an even number of bytes, while the field bytes
  in the static buffer are zero.
- `UndisturbedIsComplete`, `QuietIsComplete`: the parse has all tokens when it ends,
  also when it ends in a refusal: no statement with tokens is refused as empty.
- `MatchesWrittenPackets`: a receive accepts what it spells out, padded or not, and
  no packet with another byte; no other length only above 60 bytes, since up to there
  the code accepts shorter packets and longer ones.
- `ParsedInOrder`: however the actors interleave, the loop gets a prefix of the
  tokens and after it at most words of messages: none skipped, none twice.
- `OpenPortsUsable`, `FailedOpenLeaksNothing`, `CloseReleasesAll`, `InOrder`:
  see the comments in `EthPortIO`.

Bounds and why they are enough.

- `TestScript`: `MaxFileLen = 2` reaches a failure, a skipped statement, an
  include, an include that ends after a skipped statement; with includes of
  depth 2 up to six statements and more follow one another, since a file may
  include another one twice. Two packets and two ports are enough for a
  packet behind the scan, for an unexpected packet after a mismatch, and for a
  late packet after a timeout. The theorems hold without these bounds.
- `EthPortIO`: a queue of one or two is filled within the packets available. Two
  slots make the search for a name and the reuse of a slot after a failed open
  happen; with one slot and two names the table overruns.
- `ScriptReader`: lines of four characters and statements of three: eight
  characters (`MaxChars`) give two full chunks, a comment longer than one, text behind a
  semicolon, a statement that is too long, and three statements in one file.
- `Variables`: a table of three, whose last slot the code never uses, so two
  variables and a third that is refused; ten characters for a statement, so that
  an expansion with two values is too long, as is the text between two variables; seven statements (`MaxReads`) allow
  two definitions, a redefinition, a long and a short statement after it.
- `Packet`: bytes have two bits, so words have four and sums of two words carry;
  the value 7 and the position 6 do not fit a byte; the
  network pads to three, and frames have two, three and four bytes: shorter,
  equal and longer than what is specified and than the padding. Three statements
  (`MaxStatements`) of up to four bytes are a
  receive, a send that copies, and one that finds the old bytes. The state constraint
  `Sizes` lets the first statement, when it sends, be longer, and ends the run
  there: in a packet of eight bytes two checksums fit (a third overruns `cs_arr`), each can lie
  in the range of the other or in its own, and three words can sum to 31, whose
  carry carries once more. A mutant that folds the carries once, and one that sums
  up the packet before any checksum is filled in, both break `ChecksumsRight` there.
- `MsgPrint`: three tokens have a first, an inner and a last one; two messages
  (`MaxMessages`) are what it takes for one actor to change the buffers within another one's
  message while the main thread parses. Two receivers disturb one another, too.

Fairness. `TestScript!FairSpec` is weak fairness of the engine as a whole: the
operating system runs the main thread, and its only waits are timed
(`mq_timedreceive` with `PacketReceiveTimeout` or 0 seconds). Packets need not
arrive; they are finitely many (`MaxPackets`), which `RunEnds` needs: the
clean-up of the code loops for as long as packets come. `EthPortIO!FairSpec` is weak
fairness of the steps that continue a call, and of each receiver thread. That a
call is made or a packet arrives is not assumed. `MsgPrint!FairSpec` is weak
fairness of each actor's message in progress and of the parse in progress; no
actor takes a lock or waits within either. That a message or a statement begins
is not assumed, and both are finitely many.

Every property has at least one mutant of the code in the modules (a dropped
guard, an off-by-one, a swapped order) under which its run fails.

## 4. What is proved

The theorems hold for every value of the constants that satisfies the named
assumption of the module. The assumptions say little: sizes are numbers, the
include depth, the queue length, the table sizes and the number of tokens are
positive where the arrays of the code are, names and IDs differ from the value for
"none", statements and frames fit the buffers they are delivered in.

**`TestScript`** (`TestScriptProofs`, `TestScriptReportProofs`, `TestScriptPortProofs`)

| Theorem | States |
|---|---|
| `TypeCorrect` | `[]TypeOK`: the include depth never leaves `ScriptFileInfoTable` |
| `VerdictsInvariant`, `VerdictsSound`, `NoTrafficAfterFailure` | `[]IInv`, `[]VerdictSound`, `[]TrafficOnlyWhilePassing` |
| `CasesReportedOnce` | `[]ReportMatchesCases` |
| `SyntaxCheckIsQuiet` | `[]SyntaxCheckOpensNoPort` |
| `IncludePreservesPass` | `IncludeNeverSpoilsPass` |
| `EngineImplementsTestRun` | `RefinesTestRun` |
| `CleanupReadsAll` | `[]CleanupDrains` |
| `EngineUsesPortQueues` | `RefinesPortQueues` |

`VerdictSound` speaks of the report only and is not inductive. `IInv` adds the
same for the open case (`CurrentVerdictFits`), from which a report line is made;
that `unexpected` appears in the evidence only between clean-up and exit
(otherwise a later fault could turn FAILED into SKIPPED); that packet statements
are in progress only in a passing case (otherwise a mismatch or an error would
be judged on top of another verdict); that a clean-up started by a packet
statement has no case to close; and `RetValSpoiled`: a `retVal` other than
success at the point where a statement is read belongs to a case that is spoiled
already. The last one is why an include cannot spoil a passing case: `retVal`
starts as success, and it is something else only after a handler failed or a
statement was skipped. The proof has one step per action, grouped by the
sections of the module, on top of lemmas about the shared pieces (`Judge`,
`Handle`, `Return`, `PrintFinalResult`). It covers both values of the options.

`ReportMatchesCases` needs `IInv`, by which a packet statement begins the unnamed
case only when no other is open, and `StartsUnjudged`: before the run no verdict
exists. `SyntaxCheckOpensNoPort` needs
`SyntaxInv`: while -s may still be chosen, or once it is, no packet statement is
in progress and neither report nor open case has seen traffic. `CleanupDrains`
is strengthened to `DrainInv`: the ports the scan has passed owe nothing, and a
queue that is not open is empty, so an `Arrive` behind the scan is a new packet
and never an owed one. The refinements are proved step by step: each engine
action is the action of `TestRun` that opens, spoils or closes a case, or leaves
the mapped state alone, which uses `IInv` to know that a case closed as PASSED is
unspoiled.

**`EthPortIO`** (`EthPortIOProofs`)

| Theorem | States |
|---|---|
| `TypeCorrect` | `[]TypeOK` |
| `SlotsInvariant` | `[](TypeOK /\ CallInv /\ SlotsInv)` |
| `OpenPortsAreUsable`, `FailedOpensLeakNothing`, `CloseAllReleases` | `[]OpenPortsUsable`, `[]FailedOpenLeaksNothing`, `[]CloseReleasesAll` |
| `PacketsInOrder` | `[]InOrder` |
| `SlotsAreLossyFifos`, `PortsArePortQueues` | `RefinesLossyFifo`, `RefinesPortQueues` |

`SlotsInv` says of each slot what it holds, by where it stands relative to
`EthPortCount` and to the loop of `EthPortCloseAll`: a free slot nothing, the slot being
opened exactly what the steps so far opened (`SlotBeingOpened`), a slot in use a
bound socket, two queue ends and a name no other has (`LiveSlots`), a closed one
nothing (`ClosedSlots`); `ThreadsKnown` says which receivers exist. A failed open
can be shown to leak nothing only because the slot's contents are known at each
of its steps. `CallInv` bounds `portIdx` by the call in progress. `OrderInv` puts
received packets, queue, thread and socket buffer of a slot in one increasing
sequence below the next arrival; `HeldInv` (a thread holds a packet only while it
inspects it) makes them the queue of `LossyFifo`. `LossyFifo` states a loss as
the removal of one packet, so that a step of the filter, of a full socket
buffer or of a full queue is exactly one of its steps. The mapping to
`PortQueues` is by name: a port's queue is that of the slot in which a search
finds the name, and `PortView` says how that and the open ports change.

**`Packet`** (`PacketProofs`)

| Theorem | States |
|---|---|
| `FoldCarriesOf` | the carry loop of `check_sum` yields the one's complement sum of any number |
| `EvenChecksum` | `check_sum` is `InternetChecksum` on every range of an even number of bytes |
| `StatementIsSpecified`, `TypeCorrect` | `[](TypeOK /\ StatementInv)`, `[]TypeOK` |
| `PacketsAreSentAsWritten` | `SentAsWritten` |
| `CopiedBytesAreReceived` | `CopiesAreReceived` |
| `EvenChecksumsAreRight` | `ChecksumsRight` |
| `WrittenPacketsMatch` | `MatchesWrittenPackets` |

`StatementInv` ties the tokens to what became of them: each is in the specified
packet at its `Offset`, which counts two bytes for each checksum before it, with
the mask of its kind, and the two bytes of every entry of `cs_arr` are masked as
checksum. So a checksum never overwrites a hex or copied byte (`SentByte`), and
what the loop of `packetSend` writes there is what is sent, whatever fields and
ranges follow. `RecvInv` relates `BytesInRecvPkt` to the packet last received,
timeouts included. The checksum results rest on arithmetic: folding the carries
once keeps the sum modulo the largest word and makes it smaller (`FoldOnce`), and the
words of an even range are those of the reference. Since `FoldLeft` and
`MapThenSumSet` are recursive functions underneath, their values are derived
from the existence of a solution of the recursion (`SumExists`, `FoldExists`).

**`Variables`** (`VariablesProofs`)

| Theorem | States |
|---|---|
| `TypeCorrect` | `[]TypeOK` |
| `VariablesHaveLatestValue` | `[]LatestValue` |
| `OnlyFullTablesRefuse` | `RefusedOnlyWhenFull` |
| `OneMorePassIsEnough` | `[]OnePassIsEnough` |
| `StatementsAreSubstituted` | `[]SubstitutedAsWritten` |
| `OnlyLongTextsOverrun` | `[]OverrunOnlyWhenLong` |

`ScanInv`: a call is behind the command character and what it has written fits,
which keeps the last NUL of the buffer. `PassInv` is about the second call: its
text has no '$' behind the command, since the rest of a string in which the
search found none and the values of `PlainTable` have none; and
no '$' gets into the table because a statement is handled only with none behind
its command. The count in `RefusedOnlyWhenFull` follows from a
bijection between entries and names (`EntriesAreNames`).

`MeantInv` follows a statement through the buffer. While `inPtr` is in it
(`WithinStatement`), the rest is as it was read, `oline` with the expansion of the
rest is the expansion of the statement, and no name in front of `inPtr` reaches
over it; the last needs `PlainTable`, by which no variable can begin in the name of
another. Once `inPtr` is behind the statement (`BehindStatement`), it ended in a
variable and `oline` begins with its expansion; what comes after that is stale. The
second call then has the result already. `WithinStep` is the heart of the proof: one
'$' is cut out (`UseWithin`), and the expansion goes on behind its name
(`ExpansionStep`). `Expansion` is recursive; that it has the value its
definition says follows from the existence of a solution (`ExpansionExists`), which
is built from the end of the statement backwards.

**`ScriptReader`** (`ScriptReaderProofs`)

| Theorem | States |
|---|---|
| `TypeCorrect` | `[]TypeOK` |
| `StatementsAreFormed` | `[]StatementsBeginWithText` |
| `FilesAreReadAsDocumented` | `[]ReadsAsDocumented` |

`SpacesInv` says that the statement being read is formed already, and that
`wasLastCharSpace` is FALSE only behind text. `ReadsAsDocumented` compares what was
delivered with a definition of statements on the whole file, so it holds of every
step only with an invariant that says what the variables are of the file read so
far: `ReadInv`. While the file is read, `delivered` is what ends at the semicolons
so far (`Completed`), `statement` the text behind the last of them (`Current`),
and `lineNo` the line of the last character (`ReadSoFar`). Two parts are about
`fgets`. A chunk is a line, but for a line that fills the buffer to the last
character, which `fgets` returns without its newline; the newline is then a chunk
of its own (`ChunkIsLine`). And what is dropped with the rest of a chunk is no
text: it is in a comment, or behind a semicolon where by the hypothesis nothing
follows (`DroppedIsNoText`). A comment that fills the buffer is no longer being
dropped when `fgets` goes on, which is harmless only because the line fits and
nothing but its newline is left. The proof
first says of each definition how it changes when the script grows by a character
(`CommentedNext`, `SemicolonsNext`, `AfterStopNext`, `LineOfNext`, `CurrentNext`,
`CompletedNext`), then goes through the actions with these. `Between` and
`Statements` are recursive functions; that they have the values their definitions
say follows, as above, from the existence of a solution (`FollowingExists`). The
hypotheses, lines that fit and statements that begin on new lines, are about the
file and not about the program: they hold of a file from the start if they hold
of it at the end (`LinesFitBefore`, `NewLineBefore`).

**`MsgPrint`** (`MsgPrintProofs`): `TypeCorrect`, `TokensInOrder`
(`[]ParsedInOrder`), `UndisturbedStatementIsRead` (`[]UndisturbedIsComplete`) and
`QuietStatementIsRead` (`[]QuietIsComplete`). `LoopInv` says where `strtok` is
while the loop runs: in the statement, just behind the tokens parsed, or
in a message; and that once it is in a message, a word of a message comes next
for good. An undisturbed parse that ends has all tokens (`EndIsComplete`), whether the
packet is then processed or refused as empty. `QuietInv` says that without -v no receiver is about to print.

All invariants were also checked by TLC on the instances of section 3 before they
were proved. Induction over data is done by minimal counterexample
(`MinOf`): the set of numbers for which a statement fails has no smallest element.

Only model-checked is liveness (`RunEnds`, `CallsReturn`, `SocketsAreRead`,
`ReceiversEnd`, `EveryActorReturns`), which is beyond the prover. The invariants,
the action properties and the refinements of the passing runs are all proved.

## 5. What is not modelled

- the exit code of `main` (a constant), options that only change messages or
  the length of a wait (`-v` is a variable of `MsgPrint`), the naming of log files;
- the layout of the log and of the report: prefixes, wrapping, time stamps, hex
  dumps; and the contents of a message. `Msg` and `lMsg` are shared, so a line of
  the report may come out as another actor's text; the verdict itself is not
  affected, which is all the models say of it;
- the interleavings within one call of `strtok`, `strncpy` or `vsnprintf`;
- the protocols recognised by `isPacketToBeFiltered`, reduced to three kinds of packet;
- a message queue left behind by a crashed run with the same process ID. The
  code handles no restart, and the models start with empty queues;
- NUL bytes in a script file;
- errors of `mq_timedreceive` other than a timeout and a buffer that is too small;
- build rules, the mount script and the sample tests, which have no state.

## 6. Disagreements between code and documentation

Each has a run that ends in a counterexample.

- `skipped`: substitution comes before the test that skips statements
  (`edpat.c:85`, `edpat.c:92`); an undefined variable in a statement that is not
  to be executed turns FAILED into SKIPPED.
- `include`: `retVal` holds the substitution count of a skipped statement when
  an included file ends, and the including file takes it for a failure
  (`edpat.c:85`, `scripts.c:215`): FAILED becomes SKIPPED.
- `interface`: a port receives packets of other interfaces that came in before
  its socket was bound (`EthPortIO.c:375`).
- `checksum`: the two bytes of a checksum field keep what an earlier packet had
  there while the sum is computed (`packet.c:430`), so a range that covers its
  own field, as in `sample_tests/echo.edpat:18`, is right only once.
- `strtok`: a message printed within the token loop of `packetRead`, by a
  receiver or by the loop, takes `strtok` away from the statement
  (`print.c:76`, `packet.c:179`). In the counterexample one token has been read: the packet is
  processed without its tail. Before the first token the statement is refused as
  a zero byte packet instead (`packet.c:305`, `RefuseEmpty`).

Met on the way, and visible in the models without a run of their own:

- a malformed '@' spoils the case before it (`testcase.c:102`,
  `InvalidTestCaseId`);
- with `-s` packet statements are not parsed, so their errors go unseen
  (`edpat.c:135`, `SyntaxOnly`);
- a clean-up that cannot read its queue ends at once and lets the case pass
  (`EthPortIO.c:643`, `packet.c:74`, `DrainError`);
- `pthread_create` reports errors with a positive number, which the test misses:
  the port is open and nobody reads it (`EthPortIO.c:578`, `StartReceiverFails`);
- a checksum over an odd number of bytes takes two bytes too many instead of the
  zero of its comment (`packet.c:347`, `packet.c:351`, `WordSum`);
- a packet shorter than specified matches when the bytes it has do
  (`packet.c:501`, `packet.c:552`, `LengthFits`);
- after a variable at the end of a statement the scan goes on behind the NUL, and
  text of an earlier statement is substituted and appended (`scripts.c:360`, `Behind`);
- a comment longer than the line buffer goes on as statement text
  (`README.md:33`, `scripts.c:64`, `ChunkEnds`);
- the port table has no size check (`TableOverrun`), nor has `cs_arr`
  (`ChecksumTableOverrun`), the statement buffer (`Store`), the output of a
  substitution (`Fits`) or the line of `VariablePrintValues`, which is formatted
  whether or not it is printed (`variable.c:153`, `Printable`);
- a cancelled receiver may still print after the log was closed
  (`CloseReleasesAll` allows for it);
- with a space behind '$' the scan stops at the end of the name, and the rest of
  the statement is lost (`SubstituteNext`);
- the last slot of the variable table is never used (`variable.c:92`,
  `TableFull`); a `$` statement of full length reads an unset byte
  (`StoreReadsUnset`);
- text behind a semicolon on its line is lost;
- '&' is one byte in a receive statement and two in
  a send statement, and without '-' it is written through NULL
  (`ChecksumWithoutRange`); positions behind '?' have eight bits.

## 7. What is left

- A queue with what an earlier process left in it, as an initial state of
  `EthPortIO`, should the code come to reuse queue names.
- A receiver whose `recvfrom` fails (`EthPortIO.c:255`) as actions of its own, should
  the length it hands to `mq_send` ever become one that is accepted.
