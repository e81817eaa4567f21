---------------------------- MODULE ScriptReader ----------------------------
(***************************************************************************)
(* ScriptReadStatement (scripts.c): a script file is read in chunks with   *)
(* fgets, and statements are put together from them.  The file is          *)
(* arbitrary: a step reads its next character, of one of five classes.     *)
(* What is left of a chunk when a call returns is lost, since the next     *)
(* call begins with fgets; this is also why the one static ScriptLine      *)
(* serves all files of the include stack.  NUL bytes are left out.         *)
(***************************************************************************)
EXTENDS Naturals, SequencesExt, FiniteSetsExt

CONSTANTS
  MaxLineLen,       \* MAX_SCRIPT_LINE_LEN: fgets reads one character less
  MaxStatementLen,  \* MAX_SCRIPT_STATEMENT_LEN
  MaxChars          \* bound: characters of the file

ASSUME ScriptReaderAssumption ==
  /\ {MaxLineLen, MaxStatementLen, MaxChars} \subseteq Nat
  /\ MaxLineLen > 1

Newline   == "newline"
Semicolon == "semicolon"
Space     == "space"

\* A space stands for every control character, "x" for every other character.
Chars == {"x", Space, "!", Semicolon, Newline}

VARIABLES
  pc,        \* "read", "end", or "overrun": past the end of the statement buffer
  column,    \* characters of the current chunk that have been read
  dropping,  \* the rest of the chunk is not looked at
  wasLastCharSpace,  \* wasLastCharSpace
  statement, \* scriptStatement[0 .. stLen-1]
  lineNo,    \* ScriptFileInfoTable[ScriptFileDepth].lineNo
  delivered, \* statements returned, each with the line number an error would show
  \* History variable; no action reads it but for the bound.
  file       \* what has been read of the file

vars == <<pc, column, dropping, wasLastCharSpace, statement, lineNo, delivered, file>>

Init ==
  /\ pc = "read"
  /\ column = 0
  /\ dropping = FALSE
  /\ wasLastCharSpace = TRUE
  /\ statement = <<>>
  /\ lineNo = 0
  /\ delivered = <<>>
  /\ file = <<>>

-----------------------------------------------------------------------------
\* Mutant of ChunkEnds: fgets needs no room for the NUL.
ChunkEndsLate(c) == c = Newline \/ column + 1 = MaxLineLen

\* fgets returns with a newline, or when the buffer is full but for its NUL.
ChunkEnds(c) == c = Newline \/ column + 1 = MaxLineLen - 1

\* The next character is c.  The line number counts calls of fgets.
Advance(c) ==
  /\ pc = "read"
  /\ Len(file) < MaxChars
  /\ file' = Append(file, c)
  /\ column' = IF ChunkEnds(c) THEN 0 ELSE column + 1
  /\ lineNo' = IF column = 0 THEN lineNo + 1 ELSE lineNo

\* The rest of the chunk is dropped: if c was its last character, there is none.
DropRest(c) == dropping' = ~ChunkEnds(c)

\* scriptStatement[stLen] = c; stLen++, without a look at the size.
Store(c) ==
  IF Len(statement) < MaxStatementLen
  THEN statement' = Append(statement, c) /\ UNCHANGED pc
  ELSE pc' = "overrun" /\ UNCHANGED statement

Drop(c) ==
  /\ Advance(c)
  /\ dropping
  /\ DropRest(c)
  /\ UNCHANGED <<pc, wasLastCharSpace, statement, delivered>>

ReadText(c) ==
  /\ Advance(c)
  /\ ~dropping /\ c = "x"
  /\ Store(c)
  /\ wasLastCharSpace' = FALSE
  /\ UNCHANGED <<dropping, delivered>>

\* A run of spaces leaves one, none at the beginning of a statement.
ReadSpace(c) ==
  /\ Advance(c)
  /\ ~dropping /\ c \in {Space, Newline}
  /\ IF wasLastCharSpace THEN UNCHANGED <<pc, statement>> ELSE Store(Space)
  /\ wasLastCharSpace' = TRUE
  /\ UNCHANGED <<dropping, delivered>>

\* Mutant of ReadComment: no space for the comment.
ReadCommentBare(c) ==
  /\ Advance(c)
  /\ ~dropping /\ c = "!"
  /\ DropRest(c)
  /\ UNCHANGED <<pc, wasLastCharSpace, statement, delivered>>

\* A comment goes to the end of the chunk, and counts as a space.
ReadComment(c) ==
  /\ Advance(c)
  /\ ~dropping /\ c = "!"
  /\ IF wasLastCharSpace THEN UNCHANGED <<pc, statement>> ELSE Store(Space)
  /\ wasLastCharSpace' = TRUE
  /\ DropRest(c)
  /\ UNCHANGED delivered

SkipEmpty(c) ==
  /\ Advance(c)
  /\ ~dropping /\ c = Semicolon /\ statement = <<>>
  /\ UNCHANGED <<pc, dropping, wasLastCharSpace, statement, delivered>>

\* Mutant of NextCall: wasLastCharSpace is not set to EDPAT_TRUE again.
NextCallAsLeft ==
  /\ statement' = <<>>
  /\ UNCHANGED wasLastCharSpace

\* The next call begins a new statement.
NextCall ==
  /\ statement' = <<>>
  /\ wasLastCharSpace' = TRUE

EndStatement(c) ==
  /\ Advance(c)
  /\ ~dropping /\ c = Semicolon /\ statement # <<>>
  /\ delivered' = Append(delivered, [text |-> statement, line |-> lineNo'])
  /\ NextCall
  /\ DropRest(c)
  /\ UNCHANGED pc

\* What the file ends in is a statement, too.
EndOfFile ==
  /\ pc = "read"
  /\ pc' = "end"
  /\ delivered' = IF statement = <<>> THEN delivered
                  ELSE Append(delivered, [text |-> statement, line |-> lineNo])
  /\ NextCall
  /\ UNCHANGED <<column, dropping, lineNo, file>>

Next ==
  \/ \E c \in Chars :
       \/ Drop(c) \/ ReadText(c) \/ ReadSpace(c) \/ ReadComment(c)
       \/ SkipEmpty(c) \/ EndStatement(c)
  \/ EndOfFile

Spec == Init /\ [][Next]_vars

-----------------------------------------------------------------------------
TypeOK ==
  /\ pc \in {"read", "end", "overrun"}
  /\ column \in 0 .. MaxLineLen - 2
  /\ dropping \in BOOLEAN /\ wasLastCharSpace \in BOOLEAN
  /\ statement \in Seq({"x", Space}) /\ Len(statement) <= MaxStatementLen
  /\ lineNo \in Nat
  /\ delivered \in Seq([text : Seq({"x", Space}), line : Nat])
  /\ file \in Seq(Chars) /\ Len(file) <= MaxChars

\* The rest of the TestScriptProcess loop takes the first character of a
\* statement for its command, and strtok cuts it at single spaces: whatever the
\* file, a statement begins with text and has no two spaces in a row.
StatementsBeginWithText ==
  \A k \in DOMAIN delivered :
    LET text == delivered[k].text
    IN  /\ text[1] = "x"
        /\ \A i \in 2 .. Len(text) : text[i] = Space => text[i - 1] = "x"

\* The reading rules of README.md:29-34, defined on a whole script.  The
\* newlines between two positions:
NewlinesIn(script, from, to) == {i \in from .. to : i \in DOMAIN script /\ script[i] = Newline}
LineOf(script, i)            == 1 + Cardinality(NewlinesIn(script, 1, i - 1))

LinesFit(script) ==
  \A i \in DOMAIN script : \/ i < MaxLineLen
                           \/ NewlinesIn(script, i - MaxLineLen + 1, i - 1) # {}

InComment(script, i) ==
  \E j \in 1 .. i - 1 : script[j] = "!" /\ NewlinesIn(script, j, i - 1) = {}
Semicolons(script) == {i \in DOMAIN script : script[i] = Semicolon /\ ~InComment(script, i)}

\* Only a comment or spaces follow a semicolon on its line.
NewLineAfterSemicolon(script) ==
  \A i \in Semicolons(script) : \A j \in i + 1 .. Len(script) :
    NewlinesIn(script, i, j) = {} => script[j] # "x" \/ InComment(script, j)

\* A text goes on with a character: there are no superfluous spaces.
Squeezed(text, c) ==
  IF c = "x" THEN Append(text, "x")
  ELSE IF text = <<>> \/ Last(text) = Space THEN text ELSE Append(text, Space)

\* What is between two positions without the comments.
Between(script, from, to) ==
  LET text[i \in 0 .. to - 1] ==
        IF i <= from THEN <<>>
        ELSE IF InComment(script, i) THEN text[i - 1] ELSE Squeezed(text[i - 1], script[i])
  IN  text[to - 1]

\* What ends at a position, and the statements: what ends at a semicolon or
\* with the script and is not empty.
Piece(script, stop) ==
  [text |-> Between(script, Max({0} \cup {i \in Semicolons(script) : i < stop}), stop),
   line |-> LineOf(script, Min({stop, Len(script)}))]
Statements(script) ==
  LET stops == Semicolons(script) \cup {Len(script) + 1}
      upTo[i \in 0 .. Len(script) + 1] ==
        IF i = 0 THEN <<>>
        ELSE IF i \in stops /\ Piece(script, i).text # <<>>
             THEN Append(upTo[i - 1], Piece(script, i)) ELSE upTo[i - 1]
  IN  upTo[Len(script) + 1]

\* A file whose lines fit the buffer and whose statements begin on new lines is
\* read as README.md says: every statement whole and in order, without its
\* comments, and with the number of the line it ends on.  The statement buffer
\* is left only for a statement that is too long.
ReadsAsDocumented ==
  pc # "read" /\ LinesFit(file) /\ NewLineAfterSemicolon(file)
  => /\ pc = "end" => delivered = Statements(file)
     /\ pc = "overrun" => Len(Last(Statements(file)).text) > MaxStatementLen
=============================================================================
