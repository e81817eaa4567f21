----------------------------- MODULE Variables -----------------------------
(***************************************************************************)
(* Variables of scripts: the table of variable.c and the substitution of   *)
(* ScriptSubstituteVariables (scripts.c), with the part of                 *)
(* TestScriptProcess (edpat.c) that calls them.                            *)
(*                                                                         *)
(* testScriptStatement is a static buffer and the substitution works in    *)
(* it with pointers and NULs, so the buffer is modelled cell by cell: a    *)
(* character that matters to the code ("$", "=", space, NUL), or any other   *)
(* one.  Positions count from 1.  What a packet or '@' statement does is   *)
(* left to TestScript: here it succeeds or fails.                          *)
(***************************************************************************)
EXTENDS Naturals, SequencesExt, FiniteSetsExt

CONSTANTS
  Statements,   \* statements ScriptReadStatement may deliver
  NUL,          \* the NUL character
  Others,       \* characters without a meaning, with the commands '>' and '@'
  MaxLen,       \* MAX_SCRIPT_STATEMENT_LEN
  MaxPrintLen,  \* characters of a name and its value that VariablePrintValues has room for
  MaxVarCount,  \* MAX_VAR_COUNT
  MaxReads      \* bound: statements read in one run

Space == "space"
Cells == Others \cup {"$", "=", Space}
Text  == Seq(Cells)

ASSUME VariablesAssumption ==
  /\ {MaxLen, MaxPrintLen, MaxReads} \subseteq Nat
  /\ MaxVarCount \in Nat \ {0}
  /\ NUL \notin Cells
  /\ \A s \in Statements : s \in Text /\ Len(s) \in 1 .. MaxLen /\ s[1] # Space

VARIABLES
  pc,        \* where TestScriptProcess is; "overrun" and "uninitialized" are its
             \* ends in undefined behaviour
  buf,       \* static testScriptStatement
  inPtr,     \* inPtr
  oline,     \* oline, up to its NUL
  inLen,     \* inLen
  count,     \* substituteCount
  level,     \* calls of ScriptSubstituteVariables that have not returned
  table,     \* VarList[0 .. NextFreeVarListIndex-1]
  skipping,  \* CurrentTestResult is SKIPPED or FAILED
  reads,     \* statements read so far (bounded)
  \* History variables; no action reads them.
  written,   \* the statement as the script has it
  latest     \* the value last given to each variable

vars == <<pc, buf, inPtr, oline, inLen, count, level, table, skipping, reads, written, latest>>
scanVars == <<inPtr, oline, inLen, count, level>>

Positions == 1 .. MaxLen + 1

Init ==
  /\ pc = "read"
  /\ buf = [i \in Positions |-> NUL]
  /\ inPtr = 1 /\ oline = <<>> /\ inLen = 0 /\ count = 0 /\ level = 0
  /\ table = <<>>
  /\ skipping = FALSE
  /\ reads = 0
  /\ written = <<>>
  /\ latest = [name \in {} |-> <<>>]

-----------------------------------------------------------------------------
(* Strings in the buffer.                                                  *)

\* The NUL that ends the string at position i, and the string.
End(b, i)    == Min({j \in i .. MaxLen + 1 : b[j] = NUL})
String(b, i) == SubSeq(b, i, End(b, i) - 1)

\* strcpy of a text to the beginning of the buffer: what is behind its NUL stays.
Overwrite(b, text) ==
  [i \in Positions |-> IF i <= Len(text) THEN text[i] ELSE IF i = Len(text) + 1 THEN NUL ELSE b[i]]

\* TrimStr
Trimmed(text) ==
  LET solid == {i \in DOMAIN text : text[i] # Space}
  IN  IF solid = {} THEN <<>> ELSE SubSeq(text, Min(solid), Max(solid))

-----------------------------------------------------------------------------
(* The table.                                                              *)

Named(name)   == {i \in DOMAIN table : table[i].name = name}
Defined(name) == Named(name) # {}

\* VariableGetValue: the first entry of that name.
VariableGetValue(name) == table[Min(Named(name))].value

\* The table counts as full with one entry left.
TableFull == MaxVarCount <= Len(table) + 1

\* Mutants of Refused: the limit is tested before the name is looked for, never.
RefusedFirst(name) == TableFull
RefusedNever(name) == FALSE

Refused(name) == ~Defined(name) /\ TableFull

\* Mutant of Entered: a new entry for every value.
EnteredAgain(name, value) == Append(table, [name |-> name, value |-> value])

\* The table with the value: in the old entry, or in a new one.
Entered(name, value) ==
  IF Defined(name) THEN [table EXCEPT ![Min(Named(name))].value = value]
  ELSE Append(table, [name |-> name, value |-> value])

\* VariablePrintValues formats each entry in a line buffer, with -v or without.
Printable(entries) ==
  \A i \in DOMAIN entries : Len(entries[i].name) + Len(entries[i].value) <= MaxPrintLen

-----------------------------------------------------------------------------
(* ScriptSubstituteVariables.                                              *)

\* A call begins: the command character is copied, the rest searched for '$'.
Enter(text) ==
  /\ inPtr' = 2
  /\ oline' = <<text[1]>>
  /\ inLen' = Len(text)
  /\ count' = 0

\* ScriptReadStatement puts a statement in the buffer, and it is substituted.
ReadStatement(text) ==
  /\ pc = "read"
  /\ reads < MaxReads
  /\ reads' = reads + 1
  /\ buf' = Overwrite(buf, text)
  /\ Enter(text)
  /\ level' = 1
  /\ written' = text
  /\ pc' = "scan"
  /\ UNCHANGED <<table, skipping, latest>>

DollarsFrom(i) == {j \in i .. MaxLen + 1 : j < End(buf, i) /\ buf[j] = "$"}

\* Mutant of DollarSigns: one variable in a call.
DollarSignsOnce == IF count = 0 THEN DollarsFrom(inPtr) ELSE {}

\* The '$' of the string at inPtr, which may have left the statement.
DollarSigns == DollarsFrom(inPtr)

\* Return -1 from all calls: the statement is skipped, and its case.
SubstituteFails ==
  /\ pc' = "read"
  /\ level' = 0
  /\ skipping' = TRUE

\* Mutant of Fits: a NUL too many is reckoned with.
FitsLess(text) == Len(text) < MaxLen

\* strcat does not know how long oline is.
Fits(text) == Len(text) <= MaxLen

\* Mutant of Behind: the separator is taken as part of the rest.
BehindName(varPtr, name) == varPtr + Len(name)

\* inPtr behind the name: varPtr is where strtok has begun to look for it.
Behind(varPtr, name) == varPtr + Len(name) + 1

\* The output with the text in front of the next '$'.
UpToDollar == oline \o SubSeq(buf, inPtr, Min(DollarSigns) - 1)

\* That text is appended before the name is looked for.
TextOverruns ==
  /\ pc = "scan"
  /\ DollarSigns # {}
  /\ ~Fits(UpToDollar)
  /\ pc' = "overrun"
  /\ UNCHANGED <<buf, scanVars, table, skipping, reads, written, latest>>

\* The next '$': its place and the end of the name become NUL, the name is
\* looked up and its value appended with a space.
SubstituteNext ==
  /\ pc = "scan"
  /\ DollarSigns # {}
  /\ Fits(UpToDollar)
  /\ LET dollar == Min(DollarSigns)
         cut    == [buf EXCEPT ![dollar] = NUL]
         string == String(buf, dollar + 1)
         first  == {i \in DOMAIN string : string[i] # Space}
         from   == Min(first)
         ends   == {i \in from .. Len(string) : string[i] = Space}
         name   == SubSeq(string, from, IF ends = {} THEN Len(string) ELSE Min(ends) - 1)
         out    == UpToDollar \o VariableGetValue(name) \o <<Space>>
     IN  IF first = {}
         THEN buf' = cut /\ SubstituteFails /\ UNCHANGED <<inPtr, oline, count>>
         ELSE /\ buf' = IF ends = {} THEN cut ELSE [cut EXCEPT ![dollar + Min(ends)] = NUL]
              /\ IF ~Defined(name) THEN SubstituteFails /\ UNCHANGED <<inPtr, oline, count>>
                 ELSE /\ count' = count + 1
                      /\ inPtr' = Behind(dollar + 1, name)
                      /\ oline' = out
                      /\ pc' = IF Fits(out) /\ inPtr' \in Positions THEN "scan" ELSE "overrun"
                      /\ UNCHANGED <<level, skipping>>
  /\ UNCHANGED <<inLen, table, reads, written, latest>>

\* No '$' is left.  The rest is appended unless inPtr is behind the statement;
\* after a substitution the result is copied back and substituted once more,
\* otherwise all calls return.
EndScan ==
  /\ pc = "scan"
  /\ DollarSigns = {}
  /\ LET out == IF inLen > inPtr - 1 THEN oline \o String(buf, inPtr) ELSE oline
     IN  IF count = 0
         THEN pc' = "handle" /\ level' = 0 /\ UNCHANGED <<buf, inPtr, oline, inLen, count>>
         ELSE IF Fits(out)
         THEN /\ buf' = Overwrite(buf, out)
              /\ Enter(out)
              /\ level' = level + 1
              /\ UNCHANGED pc
         ELSE pc' = "overrun" /\ UNCHANGED <<buf, scanVars>>
  /\ UNCHANGED <<table, skipping, reads, written, latest>>

-----------------------------------------------------------------------------
(* TestScriptProcess: what becomes of the substituted statement.           *)

Command == buf[1]
Handled == pc = "handle" /\ pc' = "read" /\ UNCHANGED <<buf, scanVars, reads, written>>

SkipStatement ==
  /\ Handled
  /\ skipping /\ Command # "@"
  /\ UNCHANGED <<table, skipping, latest>>

\* '@' takes up a case, or finds an illegal ID.
NewCase ==
  /\ Handled
  /\ Command = "@"
  /\ skipping' \in BOOLEAN
  /\ UNCHANGED <<table, latest>>

\* A packet statement succeeds or not.
OtherStatement ==
  /\ Handled
  /\ ~skipping /\ Command \notin {"@", "$"}
  /\ skipping' \in BOOLEAN
  /\ UNCHANGED <<table, latest>>

\* VariableStoreValue.
AtStore == ~skipping /\ Command = "$"

Definition == Tail(String(buf, 1))
Equals     == Min({i \in DOMAIN Definition : Definition[i] = "="})
HasEquals  == "=" \in Range(Definition)
VarName    == Trimmed(SubSeq(Definition, 1, Equals - 1))
VarValue   == Trimmed(SubSeq(Definition, Equals + 1, Len(Definition)))

\* tmp has a byte that is never set, which a statement of full length ends in.
Terminated == Len(Definition) < MaxLen - 1

StoreFails ==
  /\ Handled
  /\ AtStore
  /\ Terminated /\ (HasEquals => Refused(VarName))
  /\ skipping' = TRUE
  /\ UNCHANGED <<table, latest>>

StoreValue ==
  /\ pc = "handle"
  /\ AtStore
  /\ Terminated /\ HasEquals /\ ~Refused(VarName)
  /\ table' = Entered(VarName, VarValue)
  /\ latest' = [n \in DOMAIN latest \cup {VarName} |-> IF n = VarName THEN VarValue ELSE latest[n]]
  \* Only a new entry has the table printed.
  /\ pc' = IF Len(table') > Len(table) /\ ~Printable(table') THEN "overrun" ELSE "read"
  /\ UNCHANGED <<buf, scanVars, skipping, reads, written>>

StoreReadsUnset ==
  /\ pc = "handle"
  /\ AtStore
  /\ ~Terminated
  /\ pc' = "uninitialized"
  /\ UNCHANGED <<buf, scanVars, table, skipping, reads, written, latest>>

-----------------------------------------------------------------------------
Next ==
  \/ \E text \in Statements : ReadStatement(text)
  \/ TextOverruns \/ SubstituteNext \/ EndScan
  \/ SkipStatement \/ NewCase \/ OtherStatement
  \/ StoreFails \/ StoreValue \/ StoreReadsUnset

Spec == Init /\ [][Next]_vars

-----------------------------------------------------------------------------
TypeOK ==
  /\ pc \in {"read", "scan", "handle", "overrun", "uninitialized"}
  /\ buf \in [Positions -> Cells \cup {NUL}]
  /\ buf[MaxLen + 1] = NUL
  /\ inPtr \in Nat /\ inLen \in 0 .. MaxLen /\ count \in Nat
  /\ oline \in Text /\ written \in Text
  /\ level \in Nat
  /\ table \in Seq([name : Text, value : Text]) /\ Len(table) < MaxVarCount
  /\ skipping \in BOOLEAN
  /\ reads \in 0 .. MaxReads

\* What a script's author means by a statement, defined on the statement alone:
\* each '$' stands with the name behind it for the variable's value, which is
\* followed by a space.
Uses(text)       == {i \in 2 .. Len(text) : text[i] = "$"}
NameEnd(text, i) == Min({j \in i + 1 .. Len(text) : text[j] = Space} \cup {Len(text) + 1})
Name(text, i)    == SubSeq(text, i + 1, NameEnd(text, i) - 1)
Expansion(text)  ==
  LET from[i \in 1 .. Len(text) + 2] ==
        IF i > Len(text) THEN <<>>
        ELSE IF i \in Uses(text)
             THEN VariableGetValue(Name(text, i)) \o <<Space>> \o from[NameEnd(text, i) + 1]
             ELSE <<text[i]>> \o from[i + 1]
  IN  from[1]

\* Every '$' has its name directly behind it, and the name is defined.
Expandable(text) == \A i \in Uses(text) : Name(text, i) # <<>> /\ Defined(Name(text, i))
Directly(text)   == \A i \in Uses(text) : Name(text, i) # <<>>

EndsInVariable(text) == \E i \in Uses(text) : NameEnd(text, i) > Len(text)

\* A statement that is handled has all its variables defined and is its
\* expansion, however often it has gone through the buffer and whatever earlier
\* statements have left there.  After one that ends in a variable, the text of
\* an earlier statement may follow (scripts.c:360).  Nothing is claimed of a '$'
\* with a space behind it: the search ends at its name.
SubstitutedAsWritten ==
  pc = "handle" /\ Directly(written)
  => /\ Expandable(written)
     /\ IF EndsInVariable(written) THEN IsPrefix(Expansion(written), String(buf, 1))
        ELSE String(buf, 1) = Expansion(written)

\* A variable has the value last given to it, in one entry, whatever was
\* defined in between; a redefinition cannot be hidden by the old entry.
LatestValue ==
  /\ \A name \in DOMAIN latest : Defined(name) /\ VariableGetValue(name) = latest[name]
  /\ \A i \in DOMAIN table : table[i].name \in DOMAIN latest
  /\ \A i, j \in DOMAIN table : table[i].name = table[j].name => i = j

\* The recursion of ScriptSubstituteVariables (scripts.c:375) ends with the call
\* after the first: no value contains a '$', because the statement that stores
\* it is substituted itself, so no variable can refer to another or to itself,
\* and stale text is substituted along with the statement.
OnePassIsEnough ==
  /\ level <= 2
  /\ \A i \in DOMAIN table : "$" \notin Range(table[i].name) \cup Range(table[i].value)

\* A definition in the right form fails only for a new name with one entry left;
\* a redefinition never does (variable.c:76-98).
RefusedOnlyWhenFull ==
  [][ pc = "handle" /\ AtStore /\ skipping' /\ HasEquals
     => Cardinality(DOMAIN latest) = MaxVarCount - 1 /\ VarName \notin DOMAIN latest ]_vars

\* The buffers are left only by an expansion that is too long, after which
\* stale text may come, or when the table is printed with a long variable in it.
OverrunOnlyWhenLong ==
  pc = "overrun" /\ Directly(written) /\ ~EndsInVariable(written)
  => \/ Expandable(written) => Len(Expansion(written)) > MaxLen
     \/ ~Printable(table)
=============================================================================
