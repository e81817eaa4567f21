------------------------------ MODULE MsgPrint ------------------------------
(***************************************************************************)
(* print.c and the token loop of packetRead (packet.c).  Messages go       *)
(* through two static buffers, Msg and lMsg, and are cut into lines with   *)
(* strtok, whose saved position is one for the whole process; packetRead   *)
(* cuts its statement into tokens with strtok, too.  Nothing is locked.    *)
(*                                                                         *)
(* Actors: the main thread, which reads statements and prints messages     *)
(* itself, and the receiver threads, which print while it does.  A buffer  *)
(* is its number of words; the first token of a statement is its port.     *)
(* Messages have one line.  A call of strtok, strncpy or vsnprintf is one  *)
(* step, which is coarser than what two threads can do to each other.      *)
(***************************************************************************)
EXTENDS Naturals, Sequences

CONSTANTS
  Receivers,   \* the receiver threads
  main,        \* the main thread
  Errnos,      \* error numbers of mq_send
  NoErrno,     \* no error so far: 0
  MaxTokens,   \* bound: tokens of a statement
  MaxWords,    \* bound: words of a message
  MaxMessages, \* bound: messages printed in one run
  MaxStatements \* bound: packet statements of a run

ASSUME MsgPrintAssumption ==
  /\ main \notin Receivers
  /\ NoErrno \notin Errnos
  /\ {MaxTokens, MaxWords, MaxMessages, MaxStatements} \subseteq Nat \ {0}

Actors == Receivers \cup {main}

VARIABLES
  verbose,    \* VerboseMsgEnableFlag, set by -v
  pc,         \* where each actor is
  back,       \* where the main thread goes on after its message
  Msg,        \* words of the message in Msg
  lMsg,       \* words of the message in lMsg
  saved,      \* the position strtok has saved: buffer, and words of it already cut off
  statement,  \* static statement of packetRead: what each token makes the loop print
  lastErrno,  \* lastMqErrno of each receiver
  messages,   \* messages begun so far (bounded)
  statements, \* statements begun so far (bounded)
  parsed,     \* history: the tokens the loop has got, as <<buffer, word>>
  disturbed   \* history: strtok was called by msgPrint since the loop began

vars == <<verbose, pc, back, Msg, lMsg, saved, statement, lastErrno, messages,
          statements, parsed, disturbed>>
mainVars == <<back, statement, statements, parsed>>

\* A token without any message, one with a verbose message ('&' in a receive
\* statement), one with an error after which the loop goes on (the bounds of a
\* '&'), one with an error that ends it.
TokenKinds == {"plain", "verbose", "reported", "illegal"}

Init ==
  /\ verbose \in BOOLEAN
  /\ pc = [a \in Actors |-> "idle"]
  /\ back = "idle"
  /\ Msg = 0
  /\ lMsg = 0
  /\ saved = [buf |-> "none", at |-> 0]
  /\ statement = <<>>
  /\ lastErrno = [r \in Receivers |-> NoErrno]
  /\ messages = 0
  /\ statements = 0
  /\ parsed = <<>>
  /\ disturbed = FALSE

-----------------------------------------------------------------------------
(* strtok.                                                                 *)

Words(buf) == CASE buf = "statement" -> Len(statement)
                [] buf = "lMsg"      -> lMsg
                [] OTHER             -> 0

\* strtok(NULL, ...) returns NULL when there is nothing behind the position.
NothingLeft == saved.at >= Words(saved.buf)

Goto(a, where) == pc' = [pc EXCEPT ![a] = where]

-----------------------------------------------------------------------------
(* msgPrint and the functions that call it, in any actor.                  *)

\* An actor begins to print, and goes on at next afterwards.
BeginMessage(a, next) ==
  /\ messages < MaxMessages
  /\ messages' = messages + 1
  /\ Goto(a, "format")
  /\ back' = IF a = main THEN next ELSE back

\* vsnprintf(Msg, ...)
FormatMessage(a) ==
  /\ pc[a] = "format"
  /\ Msg' \in 1 .. MaxWords
  /\ Goto(a, "copy")
  /\ UNCHANGED <<verbose, mainVars, lMsg, saved, lastErrno, messages, disturbed>>

\* strncpy(lMsg, msg, MAX_MSG_LEN), also when another actor has formatted since.
CopyMessage(a) ==
  /\ pc[a] = "copy"
  /\ lMsg' = Msg
  /\ Goto(a, "first")
  /\ UNCHANGED <<verbose, mainVars, Msg, saved, lastErrno, messages, disturbed>>

\* Mutant of FirstLine: the position is behind the NUL.
FirstLinePastEnd(a) ==
  /\ pc[a] = "first"
  /\ saved' = [buf |-> "lMsg", at |-> lMsg + 1]
  /\ disturbed' = TRUE
  /\ Goto(a, "line")
  /\ UNCHANGED <<verbose, mainVars, Msg, lMsg, lastErrno, messages>>

\* strtok(lMsg, "\n") takes the whole line.
FirstLine(a) ==
  /\ pc[a] = "first"
  /\ saved' = [buf |-> "lMsg", at |-> lMsg]
  /\ disturbed' = TRUE
  /\ Goto(a, "line")
  /\ UNCHANGED <<verbose, mainVars, Msg, lMsg, lastErrno, messages>>

\* Mutant of NextLine: strtok is called with lMsg again.
NextLineAgain(a) ==
  /\ pc[a] = "line"
  /\ saved' = [buf |-> "lMsg", at |-> lMsg]
  /\ disturbed' = TRUE
  /\ UNCHANGED <<verbose, pc, mainVars, Msg, lMsg, lastErrno, messages>>

\* strtok(NULL, "\n"): normally the end, but what follows the saved position is
\* taken as a line to print, be it the rest of the statement.
NextLine(a) ==
  /\ pc[a] = "line"
  /\ IF NothingLeft
     THEN Goto(a, IF a = main THEN back ELSE "idle") /\ UNCHANGED saved
     ELSE saved' = [saved EXCEPT !.at = Words(saved.buf)] /\ UNCHANGED pc
  /\ disturbed' = TRUE
  /\ UNCHANGED <<verbose, mainVars, Msg, lMsg, lastErrno, messages>>

-----------------------------------------------------------------------------
(* ReceiverPthreadFunc.                                                    *)

\* A packet is filtered or discarded, which a receiver reports with -v.
ReceiverVerbose(r) ==
  /\ pc[r] = "idle"
  /\ verbose
  /\ BeginMessage(r, "idle")
  /\ UNCHANGED <<verbose, statement, statements, parsed, Msg, lMsg, saved, lastErrno, disturbed>>

\* mq_send fails; the same error is not reported twice in a row.
ReceiverError(r, errno) ==
  /\ pc[r] = "idle"
  /\ errno # lastErrno[r]
  /\ lastErrno' = [lastErrno EXCEPT ![r] = errno]
  /\ BeginMessage(r, "idle")
  /\ UNCHANGED <<verbose, statement, statements, parsed, Msg, lMsg, saved, disturbed>>

-----------------------------------------------------------------------------
(* packetRead.                                                             *)

\* The statement is copied and its port name cut off with strtok.
StartStatement(tokens) ==
  /\ pc[main] = "idle"
  /\ statements < MaxStatements
  /\ statements' = statements + 1
  /\ statement' = tokens
  /\ saved' = [buf |-> "statement", at |-> 1]
  /\ Goto(main, "open")
  /\ UNCHANGED <<verbose, back, Msg, lMsg, lastErrno, messages, parsed, disturbed>>

\* EthPortOpen reports with -v what it does ...
OpenVerbose ==
  /\ pc[main] = "open"
  /\ verbose
  /\ BeginMessage(main, "open")
  /\ UNCHANGED <<verbose, statement, statements, parsed, Msg, lMsg, saved, lastErrno, disturbed>>

\* ... and why it fails.
OpenFails ==
  /\ pc[main] = "open"
  /\ BeginMessage(main, "idle")
  /\ UNCHANGED <<verbose, statement, statements, parsed, Msg, lMsg, saved, lastErrno, disturbed>>

\* Mutant of RestartParse: the statement is not taken up from its beginning.
RestartParseSkipped ==
  /\ pc[main] = "open"
  /\ parsed' = <<>>
  /\ disturbed' = FALSE
  /\ Goto(main, "loop")
  /\ UNCHANGED <<verbose, back, statement, statements, Msg, lMsg, saved, lastErrno, messages>>

\* Mutant of RestartParse: the port name is left for the loop.
RestartParseAtPort ==
  /\ pc[main] = "open"
  /\ saved' = [buf |-> "statement", at |-> 0]
  /\ parsed' = <<>>
  /\ disturbed' = FALSE
  /\ Goto(main, "loop")
  /\ UNCHANGED <<verbose, back, statement, statements, Msg, lMsg, lastErrno, messages>>

\* The port is open: the statement is copied and cut once more, which takes
\* strtok back from whatever EthPortOpen has printed.
RestartParse ==
  /\ pc[main] = "open"
  /\ saved' = [buf |-> "statement", at |-> 1]
  /\ parsed' = <<>>
  /\ disturbed' = FALSE
  /\ Goto(main, "loop")
  /\ UNCHANGED <<verbose, back, statement, statements, Msg, lMsg, lastErrno, messages>>

\* What the loop may do about a word: print or not, and go on or give up.  A
\* word of a log message is a hex number or not.
Kinds(buf, word) == IF buf = "statement" THEN {statement[word]} ELSE {"plain", "illegal"}

\* Mutant of VerboseEnabled: verbose messages are printed without -v.
VerboseAlways == TRUE

VerboseEnabled == verbose

\* strtok(NULL, " ") returns a token, of whatever buffer it is in now.
ReadToken ==
  /\ pc[main] = "loop"
  /\ ~NothingLeft
  /\ saved' = [saved EXCEPT !.at = @ + 1]
  /\ parsed' = Append(parsed, <<saved.buf, saved.at + 1>>)
  /\ \E kind \in Kinds(saved.buf, saved.at + 1) :
       \/ /\ kind = "plain" \/ (kind = "verbose" /\ ~VerboseEnabled)
          /\ UNCHANGED <<pc, back, messages>>
       \/ /\ kind = "reported" \/ (kind = "verbose" /\ VerboseEnabled)
          /\ BeginMessage(main, "loop")
       \/ /\ kind = "illegal"
          /\ BeginMessage(main, "idle")
  /\ UNCHANGED <<verbose, statement, statements, Msg, lMsg, lastErrno, disturbed>>

\* strtok(NULL, " ") returns NULL and BytesInSpecifiedPkt is not 0: that is the
\* packet.
EndOfTokens ==
  /\ pc[main] = "loop"
  /\ NothingLeft
  /\ parsed # <<>>
  /\ Goto(main, "parsed")
  /\ UNCHANGED <<verbose, mainVars, Msg, lMsg, saved, lastErrno, messages, disturbed>>

\* It returns NULL at once: "Zero byte packet is specified".
RefuseEmpty ==
  /\ pc[main] = "loop"
  /\ NothingLeft
  /\ parsed = <<>>
  /\ BeginMessage(main, "idle")
  /\ UNCHANGED <<verbose, statement, statements, parsed, Msg, lMsg, saved, lastErrno, disturbed>>

\* The packet is processed, and reported with -v.
ProcessPacket ==
  /\ pc[main] = "parsed"
  /\ IF VerboseEnabled /\ messages < MaxMessages THEN BeginMessage(main, "idle")
     ELSE Goto(main, "idle") /\ UNCHANGED <<back, messages>>
  /\ UNCHANGED <<verbose, statement, statements, parsed, Msg, lMsg, saved, lastErrno, disturbed>>

-----------------------------------------------------------------------------
Statements == {<<"plain">> \o tokens : tokens \in UNION {[1 .. n -> TokenKinds] : n \in 0 .. MaxTokens - 1}}

\* How an actor goes on with what it has begun.
Printing(a) == FormatMessage(a) \/ CopyMessage(a) \/ FirstLine(a) \/ NextLine(a)
Reading     == RestartParse \/ ReadToken \/ EndOfTokens \/ RefuseEmpty \/ ProcessPacket

Begin ==
  \/ \E tokens \in Statements : StartStatement(tokens)
  \/ OpenVerbose \/ OpenFails
  \/ \E r \in Receivers : ReceiverVerbose(r) \/ \E errno \in Errnos : ReceiverError(r, errno)

Next == Begin \/ Reading \/ \E a \in Actors : Printing(a)

Spec == Init /\ [][Next]_vars

\* The operating system runs every thread.  Messages come to an end in a run.
FairSpec == Spec /\ WF_vars(Reading) /\ \A a \in Actors : WF_vars(Printing(a))

-----------------------------------------------------------------------------
PrintSteps == {"format", "copy", "first", "line"}

TypeOK ==
  /\ verbose \in BOOLEAN
  /\ pc \in [Actors -> {"idle", "open", "loop", "parsed"} \cup PrintSteps]
  /\ \A r \in Receivers : pc[r] \in {"idle"} \cup PrintSteps
  /\ back \in {"idle", "open", "loop"}
  /\ Msg \in 0 .. MaxWords /\ lMsg \in 0 .. MaxWords
  /\ saved \in [buf : {"none", "statement", "lMsg"}, at : Nat]
  /\ saved.at <= IF saved.buf = "statement" THEN Len(statement) ELSE MaxWords
  /\ statement \in Seq(TokenKinds)
  /\ lastErrno \in [Receivers -> Errnos \cup {NoErrno}]
  /\ messages \in 0 .. MaxMessages
  /\ statements \in 0 .. MaxStatements
  /\ parsed \in Seq({"statement", "lMsg"} \X Nat)
  /\ disturbed \in BOOLEAN

\* The loop is at its end, with a packet or with none.
ParseEnds == pc[main] = "parsed" \/ (pc[main] = "loop" /\ NothingLeft)

\* The loop has the statement's tokens to the end.
Complete == parsed = [i \in 1 .. Len(statement) - 1 |-> <<"statement", i + 1>>]

\* What the loop gets are the tokens behind the port name, in order, up to some
\* point, and from there on at most words of log messages: however the actors
\* interleave, no token is skipped or read twice, because only packetRead takes
\* strtok back to the statement.
ParsedInOrder ==
  \A i \in DOMAIN parsed :
    \/ parsed[i] = <<"statement", i + 1>>
    \/ \A j \in i .. Len(parsed) : parsed[j][1] = "lMsg"

\* Unless a message is printed within the loop the packet is the whole of the
\* statement, and none is refused as empty that is not, although strtok is used for the messages of EthPortOpen between
\* the two times packetRead begins (packet.c:149 and 175), by this thread and by
\* receivers in the middle of theirs.
UndisturbedIsComplete == ParseEnds /\ ~disturbed => Complete

\* So a run without -v reads its statements whole, as long as no token is
\* faulty and no receiver has found its queue full.
QuietIsComplete ==
  /\ ParseEnds
  /\ ~verbose
  /\ \A i \in DOMAIN statement : statement[i] # "reported"
  /\ \A r \in Receivers : lastErrno[r] = NoErrno
  => Complete

\* No message and no statement goes on for ever, although the loop of a receiver
\* (print.c:77) may be handed the tokens of a statement and that of packetRead
\* the words of a message.  (Where the bound on messages stops the loop of
\* packetRead nothing is claimed of it.)
EveryActorReturns ==
  /\ \A r \in Receivers : pc[r] # "idle" ~> pc[r] = "idle"
  /\ pc[main] = "loop" ~> pc[main] = "idle" \/ messages = MaxMessages

-----------------------------------------------------------------------------
(* What the documentation says, and the code does not do.                  *)

\* README.md:47 "The packets are specified byte by byte in hexadecimal format":
\* a packet that is processed has all bytes of its statement.
PacketIsStatement == pc[main] = "parsed" => Complete
=============================================================================
