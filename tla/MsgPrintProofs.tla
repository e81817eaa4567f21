--------------------------- MODULE MsgPrintProofs ---------------------------
(***************************************************************************)
(* What the token loop of packetRead gets from strtok, for every number of *)
(* receiver threads, messages and statements, of any length.               *)
(***************************************************************************)
EXTENDS MsgPrint, SequenceTheorems, TLAPS

-----------------------------------------------------------------------------
\* The main thread is at a place, or prints and comes back to it.
At(where) == pc[main] = where \/ (pc[main] \in PrintSteps /\ back = where)

\* TypeOK is inductive with this: a statement that is being read has a token,
\* the port name, behind which strtok can be set.
StatementInv == At("open") \/ At("loop") => statement # <<>>

FromStatement == \A i \in DOMAIN parsed : parsed[i] = <<"statement", i + 1>>

\* While the loop runs, strtok is behind the last token the loop has got, or it
\* is in a log message and stays there, or a message has used up the statement.
LoopInv ==
  At("loop") =>
    /\ saved.buf # "none"
    /\ saved.buf = "statement" => /\ FromStatement
                                  /\ saved.at = Len(parsed) + 1 \/ saved.at >= Len(statement)
    /\ ~disturbed => saved = [buf |-> "statement", at |-> Len(parsed) + 1]

\* The loop has ended with the whole of the statement.
PacketInv == pc[main] = "parsed" /\ ~disturbed => Complete

TokensInv == ParsedInOrder /\ LoopInv /\ PacketInv

\* Without -v no receiver prints before mq_send fails; and as long as the
\* statement has no token whose bounds are reported, packetRead does not print
\* within its loop.
Unreported == ~verbose /\ \A r \in Receivers : lastErrno[r] = NoErrno
Faultless  == \A i \in DOMAIN statement : statement[i] # "reported"

QuietInv ==
  Unreported =>
    /\ \A r \in Receivers : pc[r] = "idle"
    /\ Faultless => /\ pc[main] \in PrintSteps => back # "loop"
                    /\ pc[main] \in {"loop", "parsed"} => ~disturbed

-----------------------------------------------------------------------------
(* Type correctness.                                                       *)

\* The main thread is no receiver.
LEMMA ActorsAre == main \in Actors /\ \A r \in Receivers : r \in Actors /\ r # main
  BY MsgPrintAssumption DEF Actors

\* The bounds are positive numbers.
LEMMA BoundsAre == MaxWords \in Nat /\ MaxWords > 0 /\ MaxMessages \in Nat /\ MaxStatements \in Nat
  BY MsgPrintAssumption

\* A statement has the port name for its first token.
LEMMA StatementsType ==
  ASSUME NEW tokens \in Statements
  PROVE  tokens \in Seq(TokenKinds) /\ Len(tokens) > 0 /\ tokens # <<>>
<1>1. PICK n \in 0 .. MaxTokens - 1 : \E t \in [1 .. n -> TokenKinds] : tokens = <<"plain">> \o t
  BY DEF Statements
<1>2. MaxTokens - 1 \in Int /\ n \in Nat
  BY MsgPrintAssumption
<1>3. PICK t \in [1 .. n -> TokenKinds] : tokens = <<"plain">> \o t
  BY <1>1
<1>4. t \in Seq(TokenKinds) /\ <<"plain">> \in Seq(TokenKinds)
  BY <1>2 DEF TokenKinds
<1>5. QED
  BY <1>3, <1>4

\* What is left of a buffer begins inside it.
LEMMA WordsType ==
  ASSUME TypeOK
  PROVE  /\ Words(saved.buf) \in Nat
         /\ saved.buf = "statement" => Words(saved.buf) = Len(statement)
         /\ saved.buf = "lMsg" => Words(saved.buf) = lMsg
         /\ saved.buf = "none" => Words(saved.buf) = 0
         /\ Words(saved.buf) <= IF saved.buf = "statement" THEN Len(statement) ELSE MaxWords
  BY BoundsAre DEF TypeOK, Words

\* An actor's messages are well typed.
LEMMA PrintingType ==
  ASSUME TypeOK, StatementInv, NEW a \in Actors, Printing(a)
  PROVE  TypeOK' /\ StatementInv'
<1> USE ActorsAre, BoundsAre DEF mainVars
<1>1. CASE FormatMessage(a)
  BY <1>1 DEF FormatMessage, Goto, TypeOK, StatementInv, At, PrintSteps
<1>2. CASE CopyMessage(a)
  BY <1>2 DEF CopyMessage, Goto, TypeOK, StatementInv, At, PrintSteps
<1>3. CASE FirstLine(a)
  BY <1>3 DEF FirstLine, Goto, TypeOK, StatementInv, At, PrintSteps
<1>4. CASE NextLine(a)
  <2>1. CASE NothingLeft
    BY <1>4, <2>1 DEF NextLine, Goto, TypeOK, StatementInv, At, PrintSteps
  <2>2. CASE ~NothingLeft
    <3>1. saved' = [saved EXCEPT !.at = Words(saved.buf)]
      BY <1>4, <2>2 DEF NextLine
    <3>2. /\ saved' \in [buf : {"none", "statement", "lMsg"}, at : Nat]
          /\ saved'.at <= IF saved'.buf = "statement" THEN Len(statement) ELSE MaxWords
      BY <3>1, WordsType DEF TypeOK
    <3>3. QED
      BY <1>4, <2>2, <3>2 DEF NextLine, TypeOK, StatementInv, At, PrintSteps
  <2>3. QED
    BY <2>1, <2>2
<1>5. QED
  BY <1>1, <1>2, <1>3, <1>4 DEF Printing

\* What begins a message or a statement is well typed.
LEMMA BeginType ==
  ASSUME TypeOK, StatementInv, Begin
  PROVE  TypeOK' /\ StatementInv'
<1> USE ActorsAre, BoundsAre DEF BeginMessage, Goto, PrintSteps, StatementInv, At
<1>1. ASSUME NEW tokens \in Statements, StartStatement(tokens)
      PROVE  TypeOK' /\ StatementInv'
  BY <1>1, StatementsType DEF StartStatement, TypeOK
<1>2. CASE OpenVerbose
  BY <1>2 DEF OpenVerbose, TypeOK
<1>3. CASE OpenFails
  BY <1>3 DEF OpenFails, TypeOK
<1>4. ASSUME NEW r \in Receivers, ReceiverVerbose(r)
      PROVE  TypeOK' /\ StatementInv'
  BY <1>4 DEF ReceiverVerbose, TypeOK
<1>5. ASSUME NEW r \in Receivers, NEW errno \in Errnos, ReceiverError(r, errno)
      PROVE  TypeOK' /\ StatementInv'
  BY <1>5 DEF ReceiverError, TypeOK
<1>6. QED
  BY <1>1, <1>2, <1>3, <1>4, <1>5 DEF Begin

\* The token loop is well typed.
LEMMA ReadingType ==
  ASSUME TypeOK, StatementInv, Reading
  PROVE  TypeOK' /\ StatementInv'
<1> USE ActorsAre, BoundsAre DEF BeginMessage, Goto, PrintSteps, StatementInv, At
<1>1. CASE RestartParse
  <2>1. Len(statement) >= 1
    BY <1>1 DEF RestartParse, TypeOK
  <2>2. <<>> \in Seq({"statement", "lMsg"} \X Nat)
    OBVIOUS
  <2>3. saved' \in [buf : {"none", "statement", "lMsg"}, at : Nat] /\ saved'.at = 1
    BY <1>1 DEF RestartParse
  <2>4. pc' \in [Actors -> {"idle", "open", "loop", "parsed"} \cup PrintSteps]
        /\ \A r \in Receivers : pc'[r] = pc[r]
    BY <1>1 DEF RestartParse, TypeOK
  <2>5. StatementInv'
    BY <1>1 DEF RestartParse
  <2>6. QED
    BY <1>1, <2>1, <2>2, <2>3, <2>4, <2>5 DEF RestartParse, TypeOK
<1>2. CASE ReadToken
  <2>1. /\ saved' \in [buf : {"none", "statement", "lMsg"}, at : Nat]
        /\ saved'.at <= IF saved'.buf = "statement" THEN Len(statement) ELSE MaxWords
    <3>1. saved.at < Words(saved.buf) /\ saved' = [saved EXCEPT !.at = saved.at + 1]
      BY <1>2, WordsType DEF ReadToken, NothingLeft, TypeOK
    <3>2. QED
      BY <3>1, WordsType DEF TypeOK
  <2>2. parsed' \in Seq({"statement", "lMsg"} \X Nat)
    <3>1. saved.buf # "none"
      BY <1>2, WordsType DEF ReadToken, NothingLeft, TypeOK
    <3>2. <<saved.buf, saved.at + 1>> \in {"statement", "lMsg"} \X Nat
      BY <3>1 DEF TypeOK
    <3>3. QED
      BY <1>2, <3>2 DEF ReadToken, TypeOK
  <2>3. /\ pc'[main] \in {"loop", "format"} /\ \A a \in Actors : a # main => pc'[a] = pc[a]
        /\ pc' \in [Actors -> {"idle", "open", "loop", "parsed"} \cup PrintSteps]
        /\ back' \in {"idle", "open", "loop"} /\ messages' \in 0 .. MaxMessages
    <3>1. \/ UNCHANGED <<pc, back, messages>>
          \/ BeginMessage(main, "loop") \/ BeginMessage(main, "idle")
      BY <1>2 DEF ReadToken
    <3>2. pc[main] = "loop"
      BY <1>2 DEF ReadToken
    <3>3. QED
      BY <3>1, <3>2 DEF TypeOK
  <2>4. StatementInv'
    BY <1>2, <2>3 DEF ReadToken
  <2>5. QED
    BY <1>2, <2>1, <2>2, <2>3, <2>4 DEF ReadToken, TypeOK
<1>3. CASE EndOfTokens
  BY <1>3 DEF EndOfTokens, TypeOK, mainVars
<1>4. CASE RefuseEmpty
  BY <1>4 DEF RefuseEmpty, TypeOK
<1>5. CASE ProcessPacket
  <2>1. \/ BeginMessage(main, "idle")
        \/ Goto(main, "idle") /\ UNCHANGED <<back, messages>>
    BY <1>5 DEF ProcessPacket
  <2>2. UNCHANGED <<verbose, statement, statements, parsed, Msg, lMsg, saved, lastErrno, disturbed>>
    BY <1>5 DEF ProcessPacket
  <2>3. CASE BeginMessage(main, "idle")
    BY <2>2, <2>3 DEF TypeOK
  <2>4. CASE Goto(main, "idle") /\ UNCHANGED <<back, messages>>
    BY <2>2, <2>4 DEF TypeOK
  <2>5. QED
    BY <2>1, <2>3, <2>4
<1>6. QED
  BY <1>1, <1>2, <1>3, <1>4, <1>5 DEF Reading

\* The initial state is well typed.
LEMMA InitType == Init => TypeOK /\ StatementInv
<1> SUFFICES ASSUME Init
             PROVE  TypeOK /\ StatementInv
  OBVIOUS
<1>1. <<>> \in Seq(TokenKinds) /\ <<>> \in Seq({"statement", "lMsg"} \X Nat) /\ Len(<<>>) = 0
  OBVIOUS
<1>2. StatementInv
  BY ActorsAre DEF Init, StatementInv, At, PrintSteps
<1>3. saved \in [buf : {"none", "statement", "lMsg"}, at : Nat] /\ saved.at = 0
  BY DEF Init
<1>4. /\ pc \in [Actors -> {"idle", "open", "loop", "parsed"} \cup PrintSteps]
      /\ \A r \in Receivers : pc[r] \in {"idle"} \cup PrintSteps
  BY ActorsAre DEF Init
<1>5. saved.at <= IF saved.buf = "statement" THEN Len(statement) ELSE MaxWords
  BY <1>3, BoundsAre DEF Init
<1>6. /\ statement \in Seq(TokenKinds) /\ parsed \in Seq({"statement", "lMsg"} \X Nat)
      /\ Msg \in 0 .. MaxWords /\ lMsg \in 0 .. MaxWords /\ messages \in 0 .. MaxMessages
      /\ statements \in 0 .. MaxStatements
  BY <1>1, BoundsAre DEF Init
<1>7. QED
  BY <1>2, <1>3, <1>4, <1>5, <1>6 DEF Init, TypeOK

\* TypeOK and StatementInv are inductive.
LEMMA NextType == TypeOK /\ StatementInv /\ [Next]_vars => TypeOK' /\ StatementInv'
<1> SUFFICES ASSUME TypeOK, StatementInv, [Next]_vars
             PROVE  TypeOK' /\ StatementInv'
  OBVIOUS
<1>1. CASE UNCHANGED vars
  BY <1>1 DEF vars, TypeOK, StatementInv, At
<1>2. QED
  BY <1>1, PrintingType, BeginType, ReadingType DEF Next

\* The position of strtok never leaves the buffer it is in, whichever actor's
\* words it walks over, and every variable has its type.
THEOREM TypeCorrect == Spec => []TypeOK
  BY InitType, NextType, PTL DEF Spec

-----------------------------------------------------------------------------
(* The tokens of a statement.                                              *)

\* Steps that read no token, use strtok only to print, and tell of it.
LEMMA TokensKept ==
  ASSUME TokensInv, UNCHANGED <<parsed, statement>>, At("loop")' => At("loop"),
         UNCHANGED <<saved, disturbed>> \/ (/\ disturbed' = TRUE /\ saved'.buf # "none"
                                            /\ saved'.buf = "statement" =>
                                                 /\ saved.buf = "statement"
                                                 /\ saved' = saved \/ saved'.at >= Len(statement)),
         pc'[main] = "parsed" => pc[main] = "parsed"
  PROVE  TokensInv'
<1>1. ParsedInOrder'
  BY DEF TokensInv, ParsedInOrder
<1>2. LoopInv'
  BY DEF TokensInv, LoopInv, FromStatement
<1>3. PacketInv'
  BY DEF TokensInv, PacketInv, Complete
<1>4. QED
  BY <1>1, <1>2, <1>3 DEF TokensInv

\* What an actor prints takes no token of a statement out of order.
LEMMA PrintingTokens ==
  ASSUME TypeOK, TokensInv, NEW a \in Actors, Printing(a)
  PROVE  TokensInv'
<1> USE ActorsAre DEF mainVars, Goto, PrintSteps, At
<1>1. UNCHANGED <<parsed, statement, back>>
  BY DEF Printing, FormatMessage, CopyMessage, FirstLine, NextLine
<1>2. At("loop")' => At("loop")
  BY DEF Printing, FormatMessage, CopyMessage, FirstLine, NextLine, TypeOK
<1>3. pc'[main] = "parsed" => pc[main] = "parsed"
  BY DEF Printing, FormatMessage, CopyMessage, FirstLine, NextLine, TypeOK
<1>4. CASE UNCHANGED <<saved, disturbed>>
  BY <1>1, <1>2, <1>3, <1>4, TokensKept
<1>5. CASE FirstLine(a)
  BY <1>1, <1>2, <1>3, <1>5, TokensKept DEF FirstLine
<1>6. CASE NextLine(a)
  <2>1. At("loop")' => saved.buf # "none"
    BY <1>2 DEF TokensInv, LoopInv
  <2>2. saved'.buf = saved.buf /\ (saved' = saved \/ saved'.at = Words(saved.buf))
        /\ disturbed' = TRUE
    BY <1>6 DEF NextLine, TypeOK
  <2>3. CASE saved.buf # "none"
    <3>1. saved'.buf = "statement" => saved' = saved \/ saved'.at >= Len(statement)
      BY <2>2, WordsType DEF TypeOK
    <3>2. QED
      BY <1>1, <1>2, <1>3, <2>2, <2>3, <3>1, TokensKept
  <2>4. CASE saved.buf = "none"
    <3>1. ~At("loop")'
      BY <2>1, <2>4
    <3>2. ParsedInOrder' /\ PacketInv'
      BY <1>1, <1>3, <2>2 DEF TokensInv, ParsedInOrder, PacketInv
    <3>3. QED
      BY <3>1, <3>2 DEF TokensInv, LoopInv
  <2>5. QED
    BY <2>3, <2>4
<1>7. QED
  BY <1>4, <1>5, <1>6 DEF Printing, FormatMessage, CopyMessage

\* Beginning a message or a statement takes no token.
LEMMA BeginTokens ==
  ASSUME TypeOK, TokensInv, Begin
  PROVE  TokensInv'
<1> USE ActorsAre DEF BeginMessage, Goto, PrintSteps, At
<1>1. ASSUME NEW tokens \in Statements, StartStatement(tokens)
      PROVE  TokensInv'
  <2>1. pc'[main] = "open" /\ UNCHANGED parsed
    BY <1>1 DEF StartStatement, TypeOK
  <2>2. QED
    BY <2>1 DEF TokensInv, ParsedInOrder, LoopInv, PacketInv
<1>2. CASE OpenVerbose \/ OpenFails
  BY <1>2, TokensKept DEF OpenVerbose, OpenFails, TypeOK
<1>3. ASSUME NEW r \in Receivers, ReceiverVerbose(r) \/ (\E errno \in Errnos : ReceiverError(r, errno))
      PROVE  TokensInv'
  <2>1. pc'[main] = pc[main] /\ UNCHANGED <<parsed, statement, back, saved, disturbed>>
    BY <1>3 DEF ReceiverVerbose, ReceiverError, TypeOK
  <2>2. QED
    BY <2>1, TokensKept
<1>4. QED
  BY <1>1, <1>2, <1>3 DEF Begin

\* The loop takes the next token of the statement, or a word of a message.
LEMMA TokenRead ==
  ASSUME TypeOK, TokensInv, ReadToken
  PROVE  TokensInv'
<1> USE ActorsAre DEF BeginMessage, Goto, PrintSteps, At
<1>1. /\ At("loop") /\ LoopInv /\ ParsedInOrder
      /\ saved.at < Words(saved.buf)
      /\ saved' = [saved EXCEPT !.at = @ + 1]
      /\ parsed' = Append(parsed, <<saved.buf, saved.at + 1>>)
      /\ UNCHANGED <<statement, disturbed>>
  BY WordsType DEF ReadToken, NothingLeft, TokensInv, TypeOK
<1>2. /\ parsed \in Seq({"statement", "lMsg"} \X Nat) /\ Len(parsed) \in Nat
      /\ Len(parsed') = Len(parsed) + 1 /\ DOMAIN parsed' = 1 .. Len(parsed) + 1
      /\ DOMAIN parsed = 1 .. Len(parsed)
      /\ \A i \in 1 .. Len(parsed) : parsed'[i] = parsed[i]
      /\ parsed'[Len(parsed) + 1] = <<saved.buf, saved.at + 1>>
  BY <1>1 DEF TypeOK
<1>3. saved \in [buf : {"none", "statement", "lMsg"}, at : Nat]
  BY DEF TypeOK
<1>4. CASE saved.buf = "statement"
  <2>1. FromStatement /\ saved.at = Len(parsed) + 1
    BY <1>1, <1>4, WordsType DEF LoopInv, TypeOK
  <2>2. FromStatement'
    BY <1>2, <1>4, <2>1 DEF FromStatement
  <2>3. ParsedInOrder'
    BY <2>2 DEF FromStatement, ParsedInOrder
  <2>4. saved' = [buf |-> "statement", at |-> Len(parsed') + 1]
    BY <1>1, <1>2, <1>3, <1>4, <2>1
  <2>5. LoopInv'
    BY <2>2, <2>4 DEF LoopInv
  <2>6. QED
    BY <2>3, <2>5 DEF TokensInv, PacketInv, ReadToken, TypeOK
<1>5. CASE saved.buf # "statement"
  <2>1. saved.buf = "lMsg" /\ disturbed = TRUE
    BY <1>1, <1>3, <1>5 DEF LoopInv, TypeOK
  <2>2. ParsedInOrder'
    <3> SUFFICES ASSUME NEW i \in 1 .. Len(parsed) + 1
                 PROVE  \/ parsed'[i] = <<"statement", i + 1>>
                        \/ \A j \in i .. Len(parsed) + 1 : parsed'[j][1] = "lMsg"
      BY <1>2 DEF ParsedInOrder
    <3>1. parsed'[Len(parsed) + 1][1] = "lMsg"
      BY <1>2, <2>1
    <3>2. CASE i = Len(parsed) + 1
      BY <1>2, <3>1, <3>2
    <3>3. CASE i \in 1 .. Len(parsed)
      <4>1. \/ parsed[i] = <<"statement", i + 1>>
            \/ \A j \in i .. Len(parsed) : parsed[j][1] = "lMsg"
        BY <1>1, <1>2, <3>3 DEF ParsedInOrder
      <4>2. CASE parsed[i] = <<"statement", i + 1>>
        BY <1>2, <3>3, <4>2
      <4>3. CASE \A j \in i .. Len(parsed) : parsed[j][1] = "lMsg"
        <5> DEFINE n == Len(parsed)
        <5>1. n \in Nat /\ i \in 1 .. n
          BY <1>2, <3>3
        <5> HIDE DEF n
        <5>2. \A j \in i .. n + 1 : j = n + 1 \/ (j \in 1 .. n /\ j \in i .. n)
          BY <5>1
        <5>3. QED
          BY <1>2, <3>1, <4>3, <5>2 DEF n
      <4>4. QED
        BY <4>1, <4>2, <4>3
    <3>4. QED
      BY <1>2, <3>2, <3>3
  <2>3. LoopInv'
    BY <1>1, <1>3, <2>1 DEF LoopInv
  <2>4. PacketInv'
    BY <1>1, <2>1 DEF PacketInv
  <2>5. QED
    BY <2>2, <2>3, <2>4 DEF TokensInv
<1>6. QED
  BY <1>4, <1>5

\* Where strtok finds nothing behind the tokens of an undisturbed loop, these
\* are all there are.
LEMMA EndIsComplete ==
  ASSUME TypeOK, LoopInv, pc[main] = "loop", NothingLeft, ~disturbed
  PROVE  Complete
<1>1. saved = [buf |-> "statement", at |-> Len(parsed) + 1] /\ FromStatement
  BY DEF LoopInv, At
<1>2. saved.at = Len(statement) /\ Len(parsed) \in Nat
  <2>1. saved.at >= Len(statement) /\ saved.at <= Len(statement)
    BY <1>1, WordsType DEF NothingLeft, TypeOK
  <2>2. saved.at \in Nat /\ Len(statement) \in Nat /\ Len(parsed) \in Nat
    BY DEF TypeOK
  <2>3. QED
    BY <2>1, <2>2
<1>3. Len(parsed) = Len(statement) - 1
  <2>1. saved.at = Len(parsed) + 1
    BY <1>1
  <2>2. QED
    BY <1>2, <2>1
<1>4. parsed \in Seq({"statement", "lMsg"} \X Nat)
  BY DEF TypeOK
<1>5. QED
  BY <1>1, <1>3, <1>4 DEF Complete, FromStatement

\* The other steps of packetRead.
LEMMA ReadingTokens ==
  ASSUME TypeOK, StatementInv, TokensInv, Reading
  PROVE  TokensInv'
<1> USE ActorsAre DEF BeginMessage, Goto, PrintSteps, At
<1>1. CASE RestartParse
  <2>1. parsed' = <<>> /\ saved' = [buf |-> "statement", at |-> 1] /\ pc'[main] = "loop"
    BY <1>1 DEF RestartParse, TypeOK
  <2>2. Len(parsed') = 0 /\ DOMAIN parsed' = {}
    BY <2>1
  <2>3. QED
    BY <2>1, <2>2
    DEF TokensInv, ParsedInOrder, LoopInv, FromStatement, PacketInv
<1>2. CASE EndOfTokens
  <2>1. /\ pc[main] = "loop" /\ NothingLeft /\ pc'[main] = "parsed"
        /\ UNCHANGED <<parsed, statement, saved, disturbed>>
    BY <1>2 DEF EndOfTokens, TypeOK, mainVars
  <2>2. ~disturbed => Complete
    BY <2>1, EndIsComplete DEF TokensInv
  <2>3. PacketInv'
    BY <2>1, <2>2 DEF PacketInv, Complete
  <2>4. ParsedInOrder'
    BY <2>1 DEF TokensInv, ParsedInOrder
  <2>5. QED
    BY <2>1, <2>3, <2>4 DEF TokensInv, LoopInv
<1>3. CASE RefuseEmpty \/ ProcessPacket
  <2>1. pc'[main] # "parsed" /\ ~At("loop")' /\ UNCHANGED parsed
    BY <1>3 DEF RefuseEmpty, ProcessPacket, TypeOK
  <2>2. QED
    BY <2>1 DEF TokensInv, ParsedInOrder, LoopInv, PacketInv
<1>4. QED
  BY <1>1, <1>2, <1>3, TokenRead DEF Reading

\* No token has been read when the program starts.
LEMMA InitTokens == Init => TokensInv
<1> SUFFICES ASSUME Init
             PROVE  TokensInv
  OBVIOUS
<1>1. pc[main] = "idle" /\ parsed = <<>> /\ DOMAIN parsed = {}
  BY ActorsAre DEF Init
<1>2. QED
  BY <1>1 DEF TokensInv, ParsedInOrder, LoopInv, PacketInv, At, PrintSteps

\* TokensInv is inductive, given the types.
LEMMA NextTokens == TypeOK /\ StatementInv /\ TokensInv /\ [Next]_vars => TokensInv'
<1> SUFFICES ASSUME TypeOK, StatementInv, TokensInv, [Next]_vars
             PROVE  TokensInv'
  OBVIOUS
<1>1. CASE UNCHANGED vars
  BY <1>1, TokensKept DEF vars, At
<1>2. QED
  BY <1>1, PrintingTokens, BeginTokens, ReadingTokens DEF Next

\* However the actors interleave, the loop gets the tokens behind the port name
\* in order, none skipped and none twice, and from some point on at most words
\* of log messages: it never comes back to a statement it has lost.
THEOREM TokensInOrder == Spec => []ParsedInOrder
<1>1. TokensInv => ParsedInOrder
  BY DEF TokensInv
<1>2. QED
  BY <1>1, InitType, NextType, InitTokens, NextTokens, PTL DEF Spec

\* The packet is the whole of the statement unless a message is printed within
\* the loop, whatever is printed while the port is opened; nor does the loop end
\* without a packet unless the statement has none.
THEOREM UndisturbedStatementIsRead == Spec => []UndisturbedIsComplete
<1>1. TypeOK /\ TokensInv => UndisturbedIsComplete
  BY EndIsComplete DEF TokensInv, PacketInv, UndisturbedIsComplete, ParseEnds
<1>2. QED
  BY <1>1, InitType, NextType, InitTokens, NextTokens, PTL DEF Spec

-----------------------------------------------------------------------------
(* A run without messages.                                                 *)

\* A receiver that prints has been told to, or has had an error.
LEMMA ReceiversAreQuiet ==
  ASSUME TypeOK, Next, UNCHANGED verbose, Unreported'
  PROVE  /\ Unreported
         /\ (\A r \in Receivers : pc[r] = "idle") => (\A r \in Receivers : pc'[r] = "idle")
<1> USE ActorsAre DEF BeginMessage, Goto, PrintSteps, mainVars, Unreported
<1>1. ASSUME NEW a \in Actors, Printing(a)
      PROVE  /\ UNCHANGED lastErrno
             /\ (\A r \in Receivers : pc[r] = "idle") => (\A r \in Receivers : pc'[r] = "idle")
  <2>1. UNCHANGED lastErrno /\ pc[a] # "idle" /\ \A b \in Actors : b # a => pc'[b] = pc[b]
    BY <1>1 DEF Printing, FormatMessage, CopyMessage, FirstLine, NextLine, TypeOK
  <2>2. QED
    BY <2>1
<1>2. CASE Reading \/ OpenVerbose \/ OpenFails \/ \E tokens \in Statements : StartStatement(tokens)
  <2>1. UNCHANGED lastErrno /\ \A r \in Receivers : pc'[r] = pc[r]
    <3>1. CASE Reading
      BY <3>1 DEF Reading, RestartParse, ReadToken, EndOfTokens, RefuseEmpty, ProcessPacket, TypeOK
    <3>2. CASE OpenVerbose \/ OpenFails \/ \E tokens \in Statements : StartStatement(tokens)
      BY <3>2 DEF OpenVerbose, OpenFails, StartStatement, TypeOK
    <3>3. QED
      BY <1>2, <3>1, <3>2
  <2>2. QED
    BY <2>1
<1>3. ASSUME NEW r \in Receivers
      PROVE  ~ReceiverVerbose(r) /\ \A errno \in Errnos : ~ReceiverError(r, errno)
  BY MsgPrintAssumption DEF ReceiverVerbose, ReceiverError, TypeOK
<1>4. QED
  BY <1>1, <1>2, <1>3 DEF Next, Begin

\* QuietInv is inductive: such a run stays one, and gives packetRead nothing to
\* print within its loop.
LEMMA NextQuiet == TypeOK /\ StatementInv /\ TokensInv /\ QuietInv /\ [Next]_vars => QuietInv'
<1> SUFFICES ASSUME TypeOK, TokensInv, QuietInv, [Next]_vars, Unreported'
             PROVE  /\ \A r \in Receivers : pc'[r] = "idle"
                    /\ Faultless' => /\ pc'[main] \in PrintSteps => back' # "loop"
                                     /\ pc'[main] \in {"loop", "parsed"} => ~disturbed'
  BY DEF QuietInv
<1> USE ActorsAre DEF BeginMessage, Goto, PrintSteps, mainVars
<1>1. CASE UNCHANGED vars
  BY <1>1 DEF QuietInv, Unreported, Faultless, vars
<1>2. CASE Next
  <2>1. UNCHANGED verbose
    BY <1>2 DEF Next, Begin, Reading, Printing, StartStatement, OpenVerbose, OpenFails,
                ReceiverVerbose, ReceiverError, RestartParse, ReadToken, EndOfTokens,
                RefuseEmpty, ProcessPacket, FormatMessage, CopyMessage, FirstLine, NextLine
  <2>2. Unreported
    BY <1>2, <2>1, ReceiversAreQuiet
  <2>3. (\A r \in Receivers : pc[r] = "idle") /\ (\A r \in Receivers : pc'[r] = "idle")
    BY <1>2, <2>1, <2>2, ReceiversAreQuiet DEF QuietInv
  <2>4. ASSUME NEW tokens \in Statements, StartStatement(tokens)
        PROVE  pc'[main] = "open"
    BY <2>4 DEF StartStatement, TypeOK
  <2>5. CASE Faultless' /\ UNCHANGED statement
    <3>1. /\ \A r \in Receivers : pc[r] = "idle"
          /\ pc[main] \in PrintSteps => back # "loop"
          /\ pc[main] \in {"loop", "parsed"} => ~disturbed
      BY <2>2, <2>5 DEF QuietInv, Faultless
    <3>2. ASSUME NEW a \in Actors, Printing(a)
          PROVE  /\ pc'[main] \in PrintSteps => back' # "loop"
                 /\ pc'[main] \in {"loop", "parsed"} => ~disturbed'
      <4>1. a = main
        BY <3>1, <3>2 DEF Actors, Printing, FormatMessage, CopyMessage, FirstLine, NextLine
      <4>2. back' = back /\ pc[main] \in PrintSteps /\ pc'[main] \in PrintSteps \cup {back}
        BY <3>2, <4>1 DEF Printing, FormatMessage, CopyMessage, FirstLine, NextLine, TypeOK
      <4>3. QED
        BY <3>1, <4>2 DEF TypeOK
    <3>3. CASE ReadToken
      <4>1. ~disturbed /\ pc[main] = "loop" /\ UNCHANGED disturbed
        BY <3>1, <3>3 DEF ReadToken
      <4>2. saved.buf = "statement" /\ saved.at + 1 \in DOMAIN statement
        <5>1. At("loop")
          BY <4>1 DEF At
        <5>2. saved = [buf |-> "statement", at |-> Len(parsed) + 1]
          BY <4>1, <5>1 DEF TokensInv, LoopInv
        <5>3. saved.at < Words(saved.buf)
          BY <3>3, WordsType DEF ReadToken, NothingLeft, TypeOK
        <5>4. QED
          BY <5>2, <5>3, WordsType DEF TypeOK
      <4>3. statement[saved.at + 1] # "reported"
        BY <2>5, <4>2 DEF Faultless
      <4>4. UNCHANGED <<pc, back>> \/ BeginMessage(main, "idle")
        BY <2>2, <3>3, <4>2, <4>3 DEF ReadToken, Kinds, VerboseEnabled, Unreported
      <4>5. QED
        BY <3>1, <4>1, <4>4 DEF TypeOK
    <3>4. CASE RestartParse \/ EndOfTokens \/ RefuseEmpty \/ ProcessPacket
      BY <3>1, <3>4 DEF RestartParse, EndOfTokens, RefuseEmpty, ProcessPacket, TypeOK
    <3>5. CASE OpenVerbose \/ OpenFails
      BY <3>1, <3>5 DEF OpenVerbose, OpenFails, TypeOK
    <3>6. ASSUME NEW r \in Receivers, ReceiverVerbose(r) \/ (\E errno \in Errnos : ReceiverError(r, errno))
          PROVE  pc'[main] = pc[main] /\ UNCHANGED <<back, disturbed>>
      BY <3>6 DEF ReceiverVerbose, ReceiverError, TypeOK
    <3>7. QED
      BY <1>2, <2>3, <2>4, <3>1, <3>2, <3>3, <3>4, <3>5, <3>6 DEF Next, Begin, Reading
  <2>6. CASE \E tokens \in Statements : StartStatement(tokens)
    BY <2>3, <2>4, <2>6
  <2>7. QED
    BY <1>2, <2>3, <2>5, <2>6
    DEF Next, Begin, Reading, Printing, OpenVerbose, OpenFails, ReceiverVerbose,
        ReceiverError, RestartParse, ReadToken, EndOfTokens, RefuseEmpty, ProcessPacket,
        FormatMessage, CopyMessage, FirstLine, NextLine
<1>3. QED
  BY <1>1, <1>2

\* A run without -v reads its statements whole, as long as no token is faulty
\* and no receiver has found its queue full.
THEOREM QuietStatementIsRead == Spec => []QuietIsComplete
<1>1. Init => QuietInv
  BY ActorsAre DEF Init, QuietInv, PrintSteps
<1>2. TypeOK /\ TokensInv /\ QuietInv => QuietIsComplete
  BY EndIsComplete
  DEF TokensInv, PacketInv, ParseEnds, QuietInv, Unreported, Faultless, QuietIsComplete
<1>3. QED
  BY <1>1, <1>2, InitType, NextType, InitTokens, NextTokens, NextQuiet, PTL DEF Spec
=============================================================================
