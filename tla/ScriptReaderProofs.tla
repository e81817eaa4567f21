------------------------- MODULE ScriptReaderProofs -------------------------
(***************************************************************************)
(* What ScriptReadStatement returns, for files of any length and buffers   *)
(* of any size: statements that are formed, and those that README.md       *)
(* describes.  The second takes an invariant of what has been read so far, *)
(* and lemmas on how a script that grows by a character changes.           *)
(***************************************************************************)
EXTENDS ScriptReader, Integers, SequenceTheorems, FunctionTheorems, FiniteSetTheorems,
        WellFoundedInduction, TLAPS

-----------------------------------------------------------------------------
(* Type correctness.                                                       *)

Stored == {"x", Space}

\* The sizes of the buffers are numbers.
LEMMA BoundsAre ==
  /\ MaxLineLen \in Nat /\ MaxLineLen > 1
  /\ MaxStatementLen \in Nat /\ MaxChars \in Nat
  BY ScriptReaderAssumption

\* Reading a character keeps the chunk within the line buffer.
LEMMA AdvanceType ==
  ASSUME TypeOK, NEW c \in Chars, Advance(c)
  PROVE  /\ column' \in 0 .. MaxLineLen - 2 /\ lineNo' \in Nat
         /\ file' \in Seq(Chars) /\ Len(file') <= MaxChars
<1>1. column' \in 0 .. MaxLineLen - 2
  BY BoundsAre DEF TypeOK, Advance, ChunkEnds
<1>2. lineNo' \in Nat
  BY DEF TypeOK, Advance
<1>3. file' \in Seq(Chars) /\ Len(file') <= MaxChars
  BY BoundsAre DEF TypeOK, Advance
<1>4. QED
  BY <1>1, <1>2, <1>3

\* Storing a character keeps the statement within its buffer.
LEMMA StoreType ==
  ASSUME TypeOK, NEW c \in Stored, Store(c)
  PROVE  /\ statement' \in Seq(Stored) /\ Len(statement') <= MaxStatementLen
         /\ pc' \in {pc, "overrun"}
<1>1. statement \in Seq(Stored) /\ Len(statement) \in Nat /\ Len(statement) <= MaxStatementLen
  BY DEF TypeOK, Stored
<1>2. CASE Len(statement) < MaxStatementLen /\ statement' = Append(statement, c) /\ UNCHANGED pc
  BY <1>1, <1>2, BoundsAre
<1>3. CASE pc' = "overrun" /\ UNCHANGED statement
  BY <1>1, <1>3
<1>4. QED
  BY <1>2, <1>3 DEF Store

\* A statement that is returned is text.
LEMMA DeliverType ==
  ASSUME TypeOK, NEW line \in Nat
  PROVE  Append(delivered, [text |-> statement, line |-> line])
           \in Seq([text : Seq(Stored), line : Nat])
  BY DEF TypeOK, Stored

\* The initial state is well typed.
LEMMA InitType == Init => TypeOK
<1> SUFFICES ASSUME Init
             PROVE  TypeOK
  OBVIOUS
<1>1. /\ <<>> \in Seq({"x", Space}) /\ <<>> \in Seq(Chars) /\ Len(<<>>) = 0
      /\ <<>> \in Seq([text : Seq({"x", Space}), line : Nat])
  OBVIOUS
<1>2. statement = <<>> /\ delivered = <<>> /\ file = <<>> /\ column = 0 /\ lineNo = 0
  BY DEF Init
<1>3. /\ statement \in Seq({"x", Space}) /\ Len(statement) <= MaxStatementLen
      /\ file \in Seq(Chars) /\ Len(file) <= MaxChars
      /\ delivered \in Seq([text : Seq({"x", Space}), line : Nat])
  BY <1>1, <1>2, BoundsAre
<1>4. column \in 0 .. MaxLineLen - 2 /\ lineNo \in Nat
  BY <1>2, BoundsAre
<1>5. QED
  BY <1>3, <1>4 DEF Init, TypeOK

\* TypeOK is inductive.
LEMMA NextType == TypeOK /\ [Next]_vars => TypeOK'
<1> SUFFICES ASSUME TypeOK, [Next]_vars
             PROVE  TypeOK'
  OBVIOUS
<1>1. ASSUME NEW c \in Chars, Advance(c), dropping' \in BOOLEAN, wasLastCharSpace' \in BOOLEAN,
             statement' \in Seq(Stored), Len(statement') <= MaxStatementLen,
             pc' \in {pc, "overrun"}, delivered' \in Seq([text : Seq(Stored), line : Nat])
      PROVE  TypeOK'
  BY <1>1, AdvanceType DEF TypeOK, Stored
<1>2. /\ dropping \in BOOLEAN /\ wasLastCharSpace \in BOOLEAN
      /\ statement \in Seq(Stored) /\ Len(statement) <= MaxStatementLen
      /\ delivered \in Seq([text : Seq(Stored), line : Nat])
      /\ <<>> \in Seq(Stored) /\ Len(<<>>) <= MaxStatementLen
  BY BoundsAre DEF TypeOK, Stored
<1>3. ASSUME NEW c \in Chars, Drop(c) \/ SkipEmpty(c)
      PROVE  TypeOK'
  BY <1>1, <1>2, <1>3 DEF Drop, SkipEmpty, DropRest
<1>4. ASSUME NEW c \in Chars, ReadText(c)
      PROVE  TypeOK'
  <2>1. Store("x")
    BY <1>4 DEF ReadText
  <2>2. QED
    BY <1>1, <1>2, <1>4, <2>1, StoreType DEF ReadText, Stored
<1>5. ASSUME NEW c \in Chars, ReadSpace(c) \/ ReadComment(c)
      PROVE  TypeOK'
  <2>1. UNCHANGED <<pc, statement>> \/ Store(Space)
    BY <1>5 DEF ReadSpace, ReadComment
  <2>2. Advance(c) /\ UNCHANGED delivered /\ wasLastCharSpace' = TRUE /\ dropping' \in BOOLEAN
    BY <1>2, <1>5 DEF ReadSpace, ReadComment, DropRest
  <2>3. QED
    BY <1>1, <1>2, <2>1, <2>2, StoreType DEF Stored
<1>6. ASSUME NEW c \in Chars, EndStatement(c)
      PROVE  TypeOK'
  <2>1. lineNo' \in Nat
    BY <1>6, AdvanceType DEF EndStatement
  <2>2. delivered' \in Seq([text : Seq(Stored), line : Nat])
    BY <1>6, <2>1, DeliverType DEF EndStatement
  <2>3. QED
    BY <1>1, <1>2, <1>6, <2>2 DEF EndStatement, NextCall, DropRest
<1>7. CASE EndOfFile
  <2>1. delivered' \in Seq([text : Seq(Stored), line : Nat])
    BY <1>2, <1>7, DeliverType DEF EndOfFile, TypeOK
  <2>2. QED
    BY <1>2, <1>7, <2>1 DEF EndOfFile, NextCall, TypeOK, Stored
<1>8. CASE UNCHANGED vars
  BY <1>8 DEF vars, TypeOK
<1>9. QED
  BY <1>3, <1>4, <1>5, <1>6, <1>7, <1>8 DEF Next

\* Neither the line buffer nor the statement buffer is left but by "overrun".
THEOREM TypeCorrect == Spec => []TypeOK
  BY InitType, NextType, PTL DEF Spec

-----------------------------------------------------------------------------
(* Text and spaces.                                                        *)

\* A text begins with "x" and has no two spaces in a row.
Formed(text) ==
  text # <<>> => /\ text[1] = "x"
                 /\ \A i \in 2 .. Len(text) : text[i] = Space => text[i - 1] = "x"

\* StatementsBeginWithText is inductive with this: the statement so far is
\* formed, and wasLastCharSpace is FALSE only behind text.
SpacesInv ==
  /\ \A k \in DOMAIN delivered : delivered[k].text # <<>> /\ Formed(delivered[k].text)
  /\ Formed(statement)
  /\ pc = "read" /\ ~wasLastCharSpace => statement # <<>> /\ statement[Len(statement)] = "x"

\* What may be appended to a formed text.
LEMMA FormedAppend ==
  ASSUME NEW text \in Seq(Stored), Formed(text)
  PROVE  /\ Formed(Append(text, "x"))
         /\ text # <<>> /\ text[Len(text)] = "x" => Formed(Append(text, Space))
<1>1. ASSUME NEW c \in Stored,
             c = Space => text # <<>> /\ text[Len(text)] = "x"
      PROVE  Formed(Append(text, c))
  <2> DEFINE t == Append(text, c)
             n == Len(text)
  <2>1. /\ n \in Nat /\ Len(t) = n + 1 /\ t[n + 1] = c /\ \A i \in 1 .. n : t[i] = text[i]
        /\ text = <<>> <=> n = 0
    OBVIOUS
  <2>2. c = "x" \/ (c = Space /\ n > 0 /\ text[n] = "x")
    BY <1>1, <2>1 DEF Stored
  <2>3. n > 0 => text[1] = "x" /\ \A i \in 2 .. n : text[i] = Space => text[i - 1] = "x"
    BY <2>1 DEF Formed
  <2> HIDE DEF t, n
  <2>4. t[1] = "x"
    BY <2>1, <2>2, <2>3
  <2>5. \A i \in 2 .. n + 1 : t[i] = Space => t[i - 1] = "x"
    <3> SUFFICES ASSUME NEW i \in 2 .. n + 1, t[i] = Space
                 PROVE  t[i - 1] = "x"
      OBVIOUS
    <3>1. CASE i = n + 1
      <4>1. c = Space
        BY <2>1, <3>1
      <4>2. n > 0 /\ text[n] = "x" /\ i - 1 = n /\ n \in 1 .. n
        BY <2>1, <2>2, <3>1, <4>1 DEF Space
      <4>3. QED
        BY <2>1, <4>2
    <3>2. CASE i # n + 1
      <4>1. i \in 2 .. n /\ i \in 1 .. n /\ i - 1 \in 1 .. n /\ n > 0
        BY <2>1, <3>2
      <4>2. QED
        BY <2>1, <2>3, <4>1
    <3>3. QED
      BY <3>1, <3>2
  <2>6. QED
    BY <2>1, <2>4, <2>5 DEF Formed, t
<1>2. "x" \in Stored /\ Space \in Stored /\ "x" # Space
  BY DEF Stored, Space
<1>3. QED
  BY <1>1, <1>2

\* SpacesInv is inductive, given the types.
LEMMA NextSpaces == TypeOK /\ SpacesInv /\ [Next]_vars => SpacesInv'
<1> SUFFICES ASSUME TypeOK, SpacesInv, [Next]_vars
             PROVE  SpacesInv'
  OBVIOUS
<1>1. statement \in Seq(Stored) /\ delivered \in Seq([text : Seq(Stored), line : Nat])
  BY DEF TypeOK, Stored
<1>2. ASSUME Store("x"), wasLastCharSpace' = FALSE, UNCHANGED delivered, pc = "read"
      PROVE  SpacesInv'
  <2>1. CASE statement' = Append(statement, "x")
    <3>1. Formed(statement')
      BY <1>1, <2>1, FormedAppend DEF SpacesInv
    <3>2. statement' # <<>> /\ statement'[Len(statement')] = "x"
      BY <1>1, <2>1 DEF Stored
    <3>3. QED
      BY <1>2, <3>1, <3>2 DEF SpacesInv
  <2>2. CASE pc' = "overrun" /\ UNCHANGED statement
    BY <1>2, <2>2 DEF SpacesInv
  <2>3. QED
    BY <1>2, <2>1, <2>2 DEF Store
<1>3. ASSUME wasLastCharSpace' = TRUE, UNCHANGED delivered, pc = "read",
             IF wasLastCharSpace THEN UNCHANGED <<pc, statement>> ELSE Store(Space)
      PROVE  SpacesInv'
  <2>1. CASE UNCHANGED statement
    BY <1>3, <2>1 DEF SpacesInv
  <2>2. CASE ~wasLastCharSpace /\ statement' = Append(statement, Space)
    <3>1. Formed(statement')
      BY <1>1, <1>3, <2>2, FormedAppend DEF SpacesInv
    <3>2. QED
      BY <1>3, <3>1 DEF SpacesInv
  <2>3. QED
    BY <1>3, <2>1, <2>2 DEF Store
<1>4. ASSUME statement # <<>>, NextCall,
             NEW line \in Nat, delivered' = Append(delivered, [text |-> statement, line |-> line])
      PROVE  SpacesInv'
  <2> DEFINE d == [text |-> statement, line |-> line]
  <2>1. /\ Len(delivered) \in Nat /\ Len(delivered') = Len(delivered) + 1
        /\ DOMAIN delivered' = 1 .. Len(delivered) + 1 /\ DOMAIN delivered = 1 .. Len(delivered)
        /\ \A k \in 1 .. Len(delivered) : delivered'[k] = delivered[k]
        /\ delivered'[Len(delivered) + 1] = d
    BY <1>1, <1>4
  <2>2. d.text = statement
    OBVIOUS
  <2> HIDE DEF d
  <2>3. ASSUME NEW k \in 1 .. Len(delivered) + 1
        PROVE  delivered'[k].text # <<>> /\ Formed(delivered'[k].text)
    <3>1. CASE k = Len(delivered) + 1
      BY <1>4, <2>1, <2>2, <3>1 DEF SpacesInv
    <3>2. CASE k # Len(delivered) + 1
      <4>1. k \in DOMAIN delivered
        BY <2>1, <3>2
      <4>2. QED
        BY <2>1, <4>1 DEF SpacesInv
    <3>3. QED
      BY <3>1, <3>2
  <2>4. Formed(statement') /\ wasLastCharSpace' = TRUE
    BY <1>4 DEF NextCall, Formed
  <2>5. QED
    BY <2>1, <2>3, <2>4 DEF SpacesInv
<1>5. ASSUME NEW c \in Chars, ReadText(c)
      PROVE  SpacesInv'
  BY <1>2, <1>5 DEF ReadText, Advance
<1>6. ASSUME NEW c \in Chars, ReadSpace(c) \/ ReadComment(c)
      PROVE  SpacesInv'
  BY <1>3, <1>6 DEF ReadSpace, ReadComment, Advance
<1>7. ASSUME NEW c \in Chars, EndStatement(c)
      PROVE  SpacesInv'
  <2>1. lineNo' \in Nat
    BY <1>7, AdvanceType DEF EndStatement
  <2>2. QED
    BY <1>4, <1>7, <2>1 DEF EndStatement
<1>8. CASE EndOfFile
  <2>1. CASE statement # <<>>
    BY <1>4, <1>8, <2>1 DEF EndOfFile, TypeOK
  <2>2. CASE statement = <<>>
    BY <1>8, <2>2 DEF EndOfFile, NextCall, SpacesInv
  <2>3. QED
    BY <2>1, <2>2
<1>9. ASSUME NEW c \in Chars, Drop(c) \/ SkipEmpty(c)
      PROVE  SpacesInv'
  BY <1>9 DEF Drop, SkipEmpty, SpacesInv
<1>10. CASE UNCHANGED vars
  BY <1>10 DEF vars, SpacesInv
<1>11. QED
  BY <1>5, <1>6, <1>7, <1>8, <1>9, <1>10 DEF Next

\* Whatever the file, the statements that are returned begin with text, which
\* TestScriptProcess takes for the command, and have no two spaces in a row.
THEOREM StatementsAreFormed == Spec => []StatementsBeginWithText
<1>1. Init => SpacesInv
  BY DEF Init, SpacesInv, Formed
<1>2. SpacesInv => StatementsBeginWithText
  BY DEF SpacesInv, Formed, StatementsBeginWithText
<1>3. QED
  BY <1>1, <1>2, InitType, NextType, NextSpaces, PTL DEF Spec

-----------------------------------------------------------------------------
(* Numbers and recursion.                                                  *)

\* A set of numbers has a smallest element.
LEMMA MinOf ==
  ASSUME NEW S \in SUBSET Nat, S # {}
  PROVE  Min(S) \in S /\ \A y \in S : Min(S) <= y
<1>1. \E x \in S : \A y \in S : ~(<<y, x>> \in OpToRel(<, Nat))
  BY NatLessThanWellFounded, WFMin
<1>2. \A x \in S, y \in S : <<y, x>> \in OpToRel(<, Nat) <=> y < x
  BY DEF OpToRel
<1>3. PICK x \in S : \A y \in S : ~(y < x)
  BY <1>1, <1>2
<1>4. \A y \in S : x <= y
  BY <1>3
<1>5. QED
  BY <1>4 DEF Min

\* A bounded set of numbers has a largest one.
LEMMA MaxOf ==
  ASSUME NEW n \in Nat, NEW S \in SUBSET (0 .. n), S # {}
  PROVE  Max(S) \in S /\ \A y \in S : Max(S) >= y
<1> DEFINE T == {n - x : x \in S}
<1>1. \A x \in S : x \in Nat /\ n - x \in Nat
  OBVIOUS
<1>2. T \in SUBSET Nat /\ T # {}
  BY <1>1
<1>3. Min(T) \in T /\ \A u \in T : Min(T) <= u
  BY ONLY <1>2, MinOf
<1>4. PICK x \in S : Min(T) = n - x
  BY <1>3
<1>5. ASSUME NEW y \in S PROVE x >= y
  <2>1. n - y \in T
    OBVIOUS
  <2>2. n - x <= n - y
    BY <2>1, <1>3, <1>4
  <2>3. QED
    BY <2>2, <1>1
<1>6. QED
  BY <1>5 DEF Max

\* What holds of 0 and, after a number, of the next holds up to n.
LEMMA Stepwise ==
  ASSUME NEW n \in Nat, NEW S, 0 \in S, \A k \in 1 .. n : k - 1 \in S => k \in S
  PROVE  0 .. n \subseteq S
<1> DEFINE Bad == (0 .. n) \ S
<1>1. SUFFICES ASSUME Bad # {}
               PROVE  FALSE
  OBVIOUS
<1>2. PICK k \in Bad : \A j \in Bad : k <= j
  <2>1. Bad \in SUBSET Nat
    OBVIOUS
  <2>2. QED
    BY <2>1, <1>1, MinOf
<1>3. k # 0
  BY <1>2
<1>4. k \in 1 .. n /\ k - 1 \in 0 .. n /\ ~(k <= k - 1)
  BY <1>2, <1>3
<1>5. k - 1 \in S
  BY <1>2, <1>4
<1>6. QED
  BY <1>2, <1>4, <1>5

\* f follows the steps g from base on.
Follows(f, g, base, n) == f[0] = base /\ \A i \in 1 .. n : f[i] = g[i][f[i - 1]]

\* There is a function that follows given steps.
LEMMA FollowingExists ==
  ASSUME NEW n \in Nat, NEW B, NEW base \in B, NEW g \in [1 .. n -> [B -> B]]
  PROVE  \E f \in [0 .. n -> B] : Follows(f, g, base, n)
<1> DEFINE Good(k) == \E f \in [0 .. k -> B] : Follows(f, g, base, k)
           S       == {k \in 0 .. n : Good(k)}
<1>1. 0 \in S
  <2>1. PICK f : f = [i \in 0 .. 0 |-> base]
    OBVIOUS
  <2>2. f \in [0 .. 0 -> B] /\ f[0] = base /\ 1 .. 0 = {}
    BY <2>1
  <2>3. QED
    BY <2>2 DEF Follows
<1>2. ASSUME NEW k \in 1 .. n, k - 1 \in S PROVE k \in S
  <2>1. PICK f \in [0 .. k - 1 -> B] : Follows(f, g, base, k - 1)
    BY <1>2
  <2>2. PICK v : v = g[k][f[k - 1]]
    OBVIOUS
  <2>3. v \in B
    <3>1. f[k - 1] \in B /\ g[k] \in [B -> B]
      OBVIOUS
    <3>2. QED
      BY <3>1, <2>2
  <2>4. PICK h : h = [i \in 0 .. k |-> IF i = k THEN v ELSE f[i]]
    OBVIOUS
  <2>5. \A i \in 0 .. k : i # k => i \in 0 .. k - 1
    OBVIOUS
  <2>6. h \in [0 .. k -> B]
    BY <2>3, <2>4, <2>5
  <2>7. h[k] = v /\ \A i \in 0 .. k - 1 : h[i] = f[i]
    BY <2>4
  <2>8. h[0] = base
    BY <2>1, <2>7 DEF Follows
  <2>9. ASSUME NEW i \in 1 .. k PROVE h[i] = g[i][h[i - 1]]
    <3>1. i - 1 \in 0 .. k - 1
      OBVIOUS
    <3>2. CASE i = k
      BY <3>1, <3>2, <2>2, <2>7
    <3>3. CASE i # k
      <4>1. i \in 1 .. k - 1 /\ i \in 0 .. k - 1
        BY <3>3
      <4>2. f[i] = g[i][f[i - 1]]
        BY <4>1, <2>1 DEF Follows
      <4>3. QED
        BY <4>1, <4>2, <3>1, <2>7
    <3>4. QED
      BY <3>2, <3>3
  <2>10. Follows(h, g, base, k)
    BY <2>8, <2>9 DEF Follows
  <2>11. k \in 0 .. n
    OBVIOUS
  <2>12. QED
    BY <2>6, <2>10, <2>11
<1> HIDE DEF S
<1>3. 0 .. n \subseteq S
  BY <1>1, <1>2, Stepwise
<1>4. n \in S
  BY <1>3
<1>5. QED
  BY <1>4 DEF S

-----------------------------------------------------------------------------
(* The text between two positions.                                         *)

\* The text at position i after that at the position before.
TextStep(script, from, text, i) ==
  IF i <= from THEN <<>>
  ELSE IF InComment(script, i) THEN text ELSE Squeezed(text, script[i])

\* A text goes on as a text.
LEMMA SqueezedType ==
  ASSUME NEW text \in Seq(Stored), NEW c
  PROVE  Squeezed(text, c) \in Seq(Stored)
<1>1. "x" \in Stored /\ Space \in Stored
  BY DEF Stored
<1>2. Append(text, "x") \in Seq(Stored) /\ Append(text, Space) \in Seq(Stored)
  BY <1>1
<1>3. QED
  BY <1>2 DEF Squeezed

\* The text at a position is a text.
LEMMA TextStepType ==
  ASSUME NEW script, NEW from, NEW text \in Seq(Stored), NEW i
  PROVE  TextStep(script, from, text, i) \in Seq(Stored)
<1>1. <<>> \in Seq(Stored)
  OBVIOUS
<1>2. QED
  BY <1>1, SqueezedType DEF TextStep

\* The text between two positions is made in steps.
LEMMA BetweenIs ==
  ASSUME NEW script, NEW from \in Nat, NEW m \in Nat
  PROVE  \E t \in [0 .. m -> Seq(Stored)] :
           /\ t[0] = <<>>
           /\ \A i \in 1 .. m : t[i] = TextStep(script, from, t[i - 1], i)
           /\ Between(script, from, m + 1) = t[m]
<1> DEFINE g       == [i \in 1 .. m |-> [b \in Seq(Stored) |-> TextStep(script, from, b, i)]]
           Text(f) == [i \in 0 .. m + 1 - 1 |->
                         IF i <= from THEN <<>>
                         ELSE IF InComment(script, i) THEN f[i - 1]
                              ELSE Squeezed(f[i - 1], script[i])]
           iter    == CHOOSE f : f = Text(f)
<1>1. <<>> \in Seq(Stored) /\ m + 1 - 1 = m
  OBVIOUS
<1>2. g \in [1 .. m -> [Seq(Stored) -> Seq(Stored)]]
  BY TextStepType
<1>3. PICK f \in [0 .. m -> Seq(Stored)] : Follows(f, g, <<>>, m)
  <2> HIDE DEF g
  <2>1. QED
    BY <1>1, <1>2, FollowingExists
<1>4. \A i \in 1 .. m : f[i] = TextStep(script, from, f[i - 1], i)
  <2>1. ASSUME NEW i \in 1 .. m PROVE f[i] = TextStep(script, from, f[i - 1], i)
    <3>1. f[i] = g[i][f[i - 1]]
      BY <1>3 DEF Follows
    <3>2. f[i - 1] \in Seq(Stored)
      <4>1. i - 1 \in 0 .. m
        OBVIOUS
      <4>2. QED
        BY <4>1
    <3>3. QED
      BY <3>1, <3>2
  <2>2. QED
    BY <2>1
<1>5. f[0] = <<>>
  BY <1>3 DEF Follows
<1>6. f = Text(f)
  <2>1. ASSUME NEW i \in 0 .. m
        PROVE  f[i] = IF i <= from THEN <<>>
                      ELSE IF InComment(script, i) THEN f[i - 1]
                           ELSE Squeezed(f[i - 1], script[i])
    <3>1. CASE i = 0
      BY <3>1, <1>5
    <3>2. CASE i # 0
      <4>1. i \in 1 .. m
        BY <3>2
      <4>2. QED
        BY <4>1, <1>4 DEF TextStep
    <3>3. QED
      BY <3>1, <3>2
  <2>2. f = [i \in 0 .. m |-> f[i]]
    OBVIOUS
  <2>3. QED
    BY <2>1, <2>2, <1>1
<1> HIDE DEF Text
<1>7. iter = Text(iter)
  BY <1>6
<1>8. Between(script, from, m + 1) = iter[m]
  BY <1>1 DEF Between, Text
<1> HIDE DEF iter
<1>9. iter[m] = f[m]
  <2>1. ASSUME NEW h, h = Text(h) 
        PROVE  /\ h[0] = <<>>
               /\ \A i \in 1 .. m : h[i] = TextStep(script, from, h[i - 1], i)
    <3>1. \A i \in 0 .. m : h[i] = IF i <= from THEN <<>>
                                   ELSE IF InComment(script, i) THEN h[i - 1]
                                        ELSE Squeezed(h[i - 1], script[i])
      BY <2>1, <1>1 DEF Text
    <3>2. QED
      BY <3>1 DEF TextStep
  <2>2. /\ iter[0] = <<>>
        /\ \A i \in 1 .. m : iter[i] = TextStep(script, from, iter[i - 1], i)
    BY <2>1, <1>7
  <2>3. \A i \in 1 .. m : iter[i - 1] = f[i - 1] => iter[i] = f[i]
    BY <2>2, <1>4
  <2>4. \A i \in 0 .. m : iter[i] = f[i]
    <3> DEFINE Same == {i \in 0 .. m : iter[i] = f[i]}
    <3>1. 0 \in Same
      BY <2>2, <1>5
    <3>2. \A i \in 1 .. m : i - 1 \in Same => i \in Same
      BY <2>3
    <3> HIDE DEF Same
    <3>3. 0 .. m \subseteq Same
      BY <3>1, <3>2, Stepwise
    <3>4. QED
      BY <3>3 DEF Same
  <2>5. QED
    BY <2>4
<1>10. QED
  BY <1>4, <1>5, <1>8, <1>9

\* The text between two positions is a text.
LEMMA BetweenType ==
  ASSUME NEW script, NEW from \in Nat, NEW m \in Nat
  PROVE  Between(script, from, m + 1) \in Seq(Stored)
<1>1. PICK t \in [0 .. m -> Seq(Stored)] : Between(script, from, m + 1) = t[m]
  BY BetweenIs
<1>2. QED
  BY <1>1

\* Between a position and the next there is no text.
LEMMA BetweenNone ==
  ASSUME NEW script, NEW from \in Nat
  PROVE  Between(script, from, from + 1) = <<>>
<1>1. PICK t \in [0 .. from -> Seq(Stored)] :
        /\ t[0] = <<>>
        /\ \A i \in 1 .. from : t[i] = TextStep(script, from, t[i - 1], i)
        /\ Between(script, from, from + 1) = t[from]
  BY BetweenIs
<1>2. CASE from = 0
  BY <1>1, <1>2
<1>3. CASE from # 0
  <2>1. from \in 1 .. from
    BY <1>3
  <2>2. QED
    BY <1>1, <2>1 DEF TextStep
<1>4. QED
  BY <1>2, <1>3

\* One position more is one step more.
LEMMA BetweenNext ==
  ASSUME NEW script, NEW from \in Nat, NEW m \in Nat, m > from
  PROVE  Between(script, from, m + 1)
           = IF InComment(script, m) THEN Between(script, from, m)
             ELSE Squeezed(Between(script, from, m), script[m])
<1>1. PICK t \in [0 .. m -> Seq(Stored)] :
        /\ t[0] = <<>>
        /\ \A i \in 1 .. m : t[i] = TextStep(script, from, t[i - 1], i)
        /\ Between(script, from, m + 1) = t[m]
  BY BetweenIs
<1>2. PICK l \in Nat : l = m - 1 /\ l + 1 = m
  OBVIOUS
<1>3. PICK u \in [0 .. l -> Seq(Stored)] :
        /\ u[0] = <<>>
        /\ \A i \in 1 .. l : u[i] = TextStep(script, from, u[i - 1], i)
        /\ Between(script, from, l + 1) = u[l]
  BY BetweenIs
<1>4. \A i \in 1 .. l : i \in 1 .. m
  BY <1>2
<1>5. \A i \in 1 .. l : t[i - 1] = u[i - 1] => t[i] = u[i]
  BY <1>1, <1>3, <1>4
<1>6. t[l] = u[l]
  <2>1. \A i \in 0 .. l : t[i] = u[i]
    <3> DEFINE Same == {i \in 0 .. l : t[i] = u[i]}
    <3>1. 0 \in Same
      BY <1>1, <1>3
    <3>2. \A i \in 1 .. l : i - 1 \in Same => i \in Same
      BY <1>5
    <3> HIDE DEF Same
    <3>3. 0 .. l \subseteq Same
      BY <3>1, <3>2, Stepwise
    <3>4. QED
      BY <3>3 DEF Same
  <2>2. QED
    BY <2>1
<1>7. t[m] = TextStep(script, from, u[l], m)
  <2>1. m \in 1 .. m
    BY <1>2
  <2>2. QED
    BY <2>1, <1>1, <1>2, <1>6
<1>8. Between(script, from, m) = u[l]
  BY <1>2, <1>3
<1>9. ~(m <= from)
  OBVIOUS
<1>10. QED
  BY <1>1, <1>7, <1>8, <1>9 DEF TextStep

\* The text depends on nothing behind it.
LEMMA BetweenSame ==
  ASSUME NEW script, NEW longer, NEW from \in Nat, NEW m \in Nat,
         \A i \in 1 .. m : longer[i] = script[i] /\ (InComment(longer, i) <=> InComment(script, i))
  PROVE  Between(longer, from, m + 1) = Between(script, from, m + 1)
<1>1. PICK t \in [0 .. m -> Seq(Stored)] :
        /\ t[0] = <<>>
        /\ \A i \in 1 .. m : t[i] = TextStep(script, from, t[i - 1], i)
        /\ Between(script, from, m + 1) = t[m]
  BY BetweenIs
<1>2. PICK u \in [0 .. m -> Seq(Stored)] :
        /\ u[0] = <<>>
        /\ \A i \in 1 .. m : u[i] = TextStep(longer, from, u[i - 1], i)
        /\ Between(longer, from, m + 1) = u[m]
  BY BetweenIs
<1>3. \A b, i : i \in 1 .. m => TextStep(longer, from, b, i) = TextStep(script, from, b, i)
  BY DEF TextStep
<1>4. ASSUME NEW i \in 1 .. m, t[i - 1] = u[i - 1] PROVE t[i] = u[i]
  <2>1. t[i] = TextStep(script, from, t[i - 1], i) /\ u[i] = TextStep(longer, from, u[i - 1], i)
    BY <1>1, <1>2
  <2>2. QED
    BY <2>1, <1>3, <1>4
<1>5. \A i \in 0 .. m : t[i] = u[i]
  <2> DEFINE Same == {i \in 0 .. m : t[i] = u[i]}
  <2>1. 0 \in Same
    BY <1>1, <1>2
  <2>2. \A i \in 1 .. m : i - 1 \in Same => i \in Same
    BY <1>4
  <2> HIDE DEF Same
  <2>3. 0 .. m \subseteq Same
    BY <2>1, <2>2, Stepwise
  <2>4. QED
    BY <2>3 DEF Same
<1>6. QED
  BY <1>1, <1>2, <1>5

-----------------------------------------------------------------------------
(* The invariant: what has been read so far.                               *)

\* The text since the last semicolon, and the statements up to it.
Current(script) == Piece(script, Len(script) + 1).text
Completed(script) ==
  LET upTo[i \in 0 .. Len(script)] ==
        IF i = 0 THEN <<>>
        ELSE IF i \in Semicolons(script) /\ Piece(script, i).text # <<>>
             THEN Append(upTo[i - 1], Piece(script, i)) ELSE upTo[i - 1]
  IN  upTo[Len(script)]

\* Where the script goes on: in a comment, behind a semicolon of the same line,
\* or on a line that fills the buffer.
Commented(script) == InComment(script, Len(script) + 1)
AfterStop(script) == \E j \in Semicolons(script) : NewlinesIn(script, j, Len(script)) = {}
LineFull(script)  == /\ Len(script) >= MaxLineLen - 1
                     /\ NewlinesIn(script, Len(script) - MaxLineLen + 2, Len(script)) = {}

\* A chunk is a line, but for one that fills the buffer.
ChunkIsLine ==
  \/ /\ column <= Len(file)
     /\ NewlinesIn(file, Len(file) - column + 1, Len(file)) = {}
     /\ column = Len(file) \/ file[Len(file) - column] = Newline
  \/ column = 0 /\ LineFull(file)

\* The rest of a chunk is dropped in a comment, and behind a semicolon where no
\* text follows.
DroppedIsNoText ==
  /\ dropping => Commented(file) \/ AfterStop(file)
  /\ Commented(file) => dropping \/ LineFull(file)
  /\ AfterStop(file) => statement = <<>>

\* While the file is read, all of it is accounted for.
ReadSoFar ==
  /\ delivered = Completed(file)
  /\ statement = Current(file)
  /\ wasLastCharSpace <=> statement = <<>> \/ Last(statement) = Space
  /\ lineNo = IF file = <<>> THEN 0 ELSE LineOf(file, Len(file))
  /\ ChunkIsLine
  /\ DroppedIsNoText

\* ReadsAsDocumented is inductive with this.
ReadInv ==
  LinesFit(file) /\ NewLineAfterSemicolon(file)
  => /\ pc = "read" => ReadSoFar
     /\ pc = "end" => delivered = Statements(file)
     /\ pc = "overrun" => Len(Last(Statements(file)).text) > MaxStatementLen

-----------------------------------------------------------------------------
(* A script and the same script with one more character.                   *)

\* longer is script, of n characters, and c.
Longer(script, longer, c, n) ==
  /\ n \in Nat /\ Len(script) = n /\ DOMAIN script = 1 .. n
  /\ Len(longer) = n + 1 /\ DOMAIN longer = 1 .. n + 1
  /\ longer[n + 1] = c
  /\ \A i \in 1 .. n : longer[i] = script[i]

\* Reading a character makes a script longer.
LEMMA LongerIs ==
  ASSUME NEW script \in Seq(Chars), NEW c \in Chars
  PROVE  Longer(script, Append(script, c), c, Len(script))
<1>1. PICK longer : longer = Append(script, c)
  OBVIOUS
<1>2. Len(script) \in Nat /\ DOMAIN script = 1 .. Len(script)
  OBVIOUS
<1>3. /\ Len(longer) = Len(script) + 1 /\ DOMAIN longer = 1 .. Len(script) + 1
      /\ longer[Len(script) + 1] = c
  BY <1>1
<1>4. \A i \in 1 .. Len(script) : longer[i] = script[i]
  BY <1>1
<1>5. QED
  BY <1>1, <1>2, <1>3, <1>4 DEF Longer

\* No newline comes between two positions of the script.
LEMMA NewlinesKept ==
  ASSUME NEW script, NEW longer, NEW c, NEW n, Longer(script, longer, c, n),
         NEW a \in Int, NEW b \in Int, b <= n
  PROVE  NewlinesIn(longer, a, b) = NewlinesIn(script, a, b)
<1>1. \A i \in a .. b : i \in 1 .. n + 1 <=> i \in 1 .. n
  BY DEF Longer
<1>2. \A i \in 1 .. n : longer[i] = script[i]
  BY DEF Longer
<1>3. DOMAIN longer = 1 .. n + 1 /\ DOMAIN script = 1 .. n
  BY DEF Longer
<1>4. QED
  BY <1>1, <1>2, <1>3 DEF NewlinesIn

\* Up to the end there is no newline if there was none and c is none.
LEMMA NewlinesNext ==
  ASSUME NEW script, NEW longer, NEW c, NEW n, Longer(script, longer, c, n),
         NEW a \in Int, a <= n + 1
  PROVE  NewlinesIn(longer, a, n + 1) = {} <=> c # Newline /\ NewlinesIn(script, a, n) = {}
<1>1. n \in Nat /\ n + 1 \in a .. n + 1 /\ n + 1 \in 1 .. n + 1
  BY DEF Longer
<1>2. \A i \in a .. n + 1 : i = n + 1 \/ i \in a .. n
  BY <1>1
<1>3. \A i \in a .. n : i \in a .. n + 1
  BY <1>1
<1>4. DOMAIN longer = 1 .. n + 1 /\ DOMAIN script = 1 .. n /\ longer[n + 1] = c
  BY DEF Longer
<1>5. \A i \in a .. n : i \in 1 .. n + 1 <=> i \in 1 .. n
  BY <1>1
<1>6. \A i \in 1 .. n : longer[i] = script[i]
  BY DEF Longer
<1>7. NewlinesIn(longer, a, n + 1)
        = NewlinesIn(script, a, n) \cup {i \in {n + 1} : c = Newline}
  <2>1. ASSUME NEW i \in NewlinesIn(longer, a, n + 1)
        PROVE  i \in NewlinesIn(script, a, n) \cup {k \in {n + 1} : c = Newline}
    <3>1. i \in a .. n + 1 /\ i \in 1 .. n + 1 /\ longer[i] = Newline
      BY <1>4 DEF NewlinesIn
    <3>2. CASE i = n + 1
      BY <3>1, <3>2, <1>4
    <3>3. CASE i \in a .. n
      BY <3>1, <3>3, <1>4, <1>5, <1>6 DEF NewlinesIn
    <3>4. QED
      BY <3>1, <3>2, <3>3, <1>2
  <2>2. ASSUME NEW i \in NewlinesIn(script, a, n) PROVE i \in NewlinesIn(longer, a, n + 1)
    <3>1. i \in a .. n /\ i \in 1 .. n /\ script[i] = Newline
      BY <1>4 DEF NewlinesIn
    <3>2. QED
      BY <3>1, <1>3, <1>4, <1>5, <1>6 DEF NewlinesIn
  <2>3. c = Newline => n + 1 \in NewlinesIn(longer, a, n + 1)
    BY <1>1, <1>4 DEF NewlinesIn
  <2>4. QED
    BY <2>1, <2>2, <2>3
<1>8. QED
  BY <1>7

\* The comments of the script stay, also where it goes on.
LEMMA CommentsKept ==
  ASSUME NEW script, NEW longer, NEW c, NEW n, Longer(script, longer, c, n),
         NEW i \in 1 .. n + 1
  PROVE  InComment(longer, i) <=> InComment(script, i)
<1>1. n \in Nat /\ i \in Int /\ \A j \in 1 .. i - 1 : j \in 1 .. n /\ j \in Int
  BY DEF Longer
<1>2. i - 1 \in Int /\ i - 1 <= n
  BY <1>1
<1>3. \A j \in 1 .. i - 1 : NewlinesIn(longer, j, i - 1) = NewlinesIn(script, j, i - 1)
  BY <1>1, <1>2, NewlinesKept
<1>4. \A j \in 1 .. i - 1 : longer[j] = script[j]
  BY <1>1 DEF Longer
<1>5. QED
  BY <1>3, <1>4 DEF InComment

\* A comment goes on until a newline, and begins with "!".
LEMMA CommentedNext ==
  ASSUME NEW script, NEW longer, NEW c, NEW n, Longer(script, longer, c, n)
  PROVE  Commented(longer) <=> c # Newline /\ (Commented(script) \/ c = "!")
<1>1. n \in Nat /\ Len(script) = n /\ Len(longer) = n + 1 /\ longer[n + 1] = c
      /\ \A i \in 1 .. n : longer[i] = script[i]
  BY DEF Longer
<1>2. \A j \in 1 .. n + 1 : j \in Int /\ j <= n + 1 /\ (j = n + 1 \/ j \in 1 .. n)
  BY <1>1
<1>3. \A j \in 1 .. n + 1 : NewlinesIn(longer, j, n + 1) = {}
                              <=> c # Newline /\ NewlinesIn(script, j, n) = {}
  BY <1>2, NewlinesNext
<1>4. Commented(longer) <=> \E j \in 1 .. n + 1 : longer[j] = "!" /\ NewlinesIn(longer, j, n + 1) = {}
  <2>1. Len(longer) + 1 - 1 = n + 1
    BY <1>1
  <2>2. QED
    BY <2>1 DEF Commented, InComment
<1>5. Commented(script) <=> \E j \in 1 .. n : script[j] = "!" /\ NewlinesIn(script, j, n) = {}
  <2>1. Len(script) + 1 - 1 = n
    BY <1>1
  <2>2. QED
    BY <2>1 DEF Commented, InComment
<1>6. NewlinesIn(script, n + 1, n) = {}
  BY <1>1 DEF NewlinesIn
<1>7. \A j \in 1 .. n : j \in 1 .. n + 1
  BY <1>1
<1>8. n + 1 \in 1 .. n + 1
  BY <1>1
<1>9. ASSUME Commented(longer) PROVE c # Newline /\ (Commented(script) \/ c = "!")
  BY <1>1, <1>2, <1>3, <1>4, <1>5, <1>9
<1>10. ASSUME c # Newline, Commented(script) PROVE Commented(longer)
  BY <1>1, <1>3, <1>4, <1>5, <1>7, <1>10
<1>11. ASSUME c # Newline, c = "!" PROVE Commented(longer)
  BY <1>1, <1>3, <1>4, <1>6, <1>8, <1>11
<1>12. QED
  BY <1>9, <1>10, <1>11

\* The semicolons stay, and c is one if it is not in a comment.
LEMMA SemicolonsNext ==
  ASSUME NEW script, NEW longer, NEW c, NEW n, Longer(script, longer, c, n)
  PROVE  /\ \A i \in 1 .. n : i \in Semicolons(longer) <=> i \in Semicolons(script)
         /\ n + 1 \in Semicolons(longer) <=> c = Semicolon /\ ~Commented(script)
         /\ Semicolons(script) \in SUBSET (1 .. n) /\ Semicolons(longer) \in SUBSET (1 .. n + 1)
<1>1. /\ n \in Nat /\ Len(script) = n /\ DOMAIN script = 1 .. n
      /\ DOMAIN longer = 1 .. n + 1 /\ longer[n + 1] = c
      /\ \A i \in 1 .. n : longer[i] = script[i]
  BY DEF Longer
<1>2. \A i \in 1 .. n + 1 : InComment(longer, i) <=> InComment(script, i)
  BY CommentsKept
<1>3. \A i \in 1 .. n : i \in 1 .. n + 1
  BY <1>1
<1>4. n + 1 \in 1 .. n + 1
  BY <1>1
<1>5. \A i \in 1 .. n : i \in Semicolons(longer) <=> i \in Semicolons(script)
  BY <1>1, <1>2, <1>3 DEF Semicolons
<1>6. n + 1 \in Semicolons(longer) <=> c = Semicolon /\ ~Commented(script)
  BY <1>1, <1>2, <1>4 DEF Semicolons, Commented
<1>7. Semicolons(script) \in SUBSET (1 .. n) /\ Semicolons(longer) \in SUBSET (1 .. n + 1)
  BY <1>1 DEF Semicolons
<1>8. QED
  BY <1>5, <1>6, <1>7

\* It goes on behind a semicolon until a newline.
LEMMA AfterStopNext ==
  ASSUME NEW script, NEW longer, NEW c, NEW n, Longer(script, longer, c, n)
  PROVE  AfterStop(longer) <=> /\ c # Newline
                               /\ AfterStop(script) \/ (c = Semicolon /\ ~Commented(script))
<1>1. n \in Nat /\ Len(script) = n /\ Len(longer) = n + 1
  BY DEF Longer
<1>2. \A j \in 1 .. n + 1 : j \in Int /\ j <= n + 1 /\ (j = n + 1 \/ j \in 1 .. n)
  BY <1>1
<1>3. \A j \in 1 .. n + 1 : NewlinesIn(longer, j, n + 1) = {}
                              <=> c # Newline /\ NewlinesIn(script, j, n) = {}
  BY <1>2, NewlinesNext
<1>4. NewlinesIn(script, n + 1, n) = {}
  BY <1>1 DEF NewlinesIn
<1>5. n + 1 \in 1 .. n + 1 /\ \A j \in 1 .. n : j \in 1 .. n + 1
  BY <1>1
<1>6. AfterStop(longer) <=> \E j \in Semicolons(longer) : NewlinesIn(longer, j, n + 1) = {}
  BY <1>1 DEF AfterStop
<1>7. AfterStop(script) <=> \E j \in Semicolons(script) : NewlinesIn(script, j, n) = {}
  BY <1>1 DEF AfterStop
<1>8. ASSUME AfterStop(longer)
      PROVE  c # Newline /\ (AfterStop(script) \/ (c = Semicolon /\ ~Commented(script)))
  <2>1. PICK j \in Semicolons(longer) : NewlinesIn(longer, j, n + 1) = {}
    BY <1>6, <1>8
  <2>2. j \in 1 .. n + 1
    BY SemicolonsNext
  <2>3. c # Newline /\ NewlinesIn(script, j, n) = {}
    BY <2>1, <2>2, <1>3
  <2>4. CASE j = n + 1
    BY <2>1, <2>3, <2>4, SemicolonsNext
  <2>5. CASE j \in 1 .. n
    <3>1. j \in Semicolons(script)
      BY <2>1, <2>5, SemicolonsNext
    <3>2. QED
      BY <3>1, <2>3, <1>7
  <2>6. QED
    BY <2>2, <2>4, <2>5, <1>2
<1>9. ASSUME c # Newline, AfterStop(script) PROVE AfterStop(longer)
  <2>1. PICK j \in Semicolons(script) : NewlinesIn(script, j, n) = {}
    BY <1>7, <1>9
  <2>2. j \in 1 .. n
    BY SemicolonsNext
  <2>3. j \in Semicolons(longer)
    BY <2>1, <2>2, SemicolonsNext
  <2>4. QED
    BY <2>1, <2>2, <2>3, <1>3, <1>5, <1>6, <1>9
<1>10. ASSUME c # Newline, c = Semicolon, ~Commented(script) PROVE AfterStop(longer)
  <2>1. n + 1 \in Semicolons(longer)
    BY <1>10, SemicolonsNext
  <2>2. QED
    BY <2>1, <1>3, <1>4, <1>5, <1>6, <1>10
<1>11. QED
  BY <1>8, <1>9, <1>10

\* Lines are counted as in the script, and c is on the next line after a newline.
LEMMA LineOfNext ==
  ASSUME NEW script, NEW longer, NEW c, NEW n, Longer(script, longer, c, n)
  PROVE  /\ \A i \in 0 .. n + 1 : LineOf(longer, i) = LineOf(script, i) /\ LineOf(script, i) \in Nat
         /\ LineOf(longer, n + 1) = IF n = 0 THEN 1
                                    ELSE IF script[n] = Newline THEN LineOf(script, n) + 1
                                         ELSE LineOf(script, n)
<1>1. n \in Nat /\ DOMAIN script = 1 .. n
  BY DEF Longer
<1>2. \A i \in 0 .. n + 1 : i - 1 \in Int /\ i - 1 <= n
  BY <1>1
<1>3. \A i \in 0 .. n + 1 : NewlinesIn(longer, 1, i - 1) = NewlinesIn(script, 1, i - 1)
  BY <1>2, NewlinesKept
<1>4. \A i \in 0 .. n + 1 : /\ IsFiniteSet(NewlinesIn(script, 1, i - 1))
                            /\ Cardinality(NewlinesIn(script, 1, i - 1)) \in Nat
  <2>1. ASSUME NEW i \in 0 .. n + 1
        PROVE  IsFiniteSet(NewlinesIn(script, 1, i - 1))
    <3>1. IsFiniteSet(1 .. i - 1)
      BY <1>2, FS_Interval
    <3>2. NewlinesIn(script, 1, i - 1) \in SUBSET (1 .. i - 1)
      BY DEF NewlinesIn
    <3>3. QED
      BY <3>1, <3>2, FS_Subset
  <2>2. QED
    BY <2>1, FS_CardinalityType
<1>5. \A i \in 0 .. n + 1 : LineOf(longer, i) = LineOf(script, i) /\ LineOf(script, i) \in Nat
  BY <1>3, <1>4 DEF LineOf
<1>6. CASE n = 0
  <2>1. NewlinesIn(script, 1, n + 1 - 1) = {}
    BY <1>1, <1>6 DEF NewlinesIn
  <2>2. LineOf(script, n + 1) = 1
    <3>1. LineOf(script, n + 1) = 1 + Cardinality(NewlinesIn(script, 1, n + 1 - 1))
      BY <1>1 DEF LineOf
    <3>2. Cardinality(NewlinesIn(script, 1, n + 1 - 1)) = 0
      BY <2>1, FS_EmptySet
    <3>3. LineOf(script, n + 1) = 1 + 0
      BY <3>1, <3>2
    <3>4. QED
      BY <3>3
  <2>3. QED
    BY <2>2, <1>1, <1>5, <1>6
<1>7. CASE n # 0
  <2> DEFINE S == NewlinesIn(script, 1, n - 1)
  <2>1. n + 1 - 1 = n /\ n \in 1 .. n /\ n \in 0 .. n + 1 /\ n + 1 \in 0 .. n + 1 /\ n \notin 1 .. n - 1
    BY <1>1, <1>7
  <2>2. IsFiniteSet(S) /\ Cardinality(S) \in Nat
    BY <2>1, <1>4
  <2>3. \A i : i \in 1 .. n <=> i \in 1 .. n - 1 \/ i = n
    BY <1>1, <1>7
  <2>4. NewlinesIn(script, 1, n) = IF script[n] = Newline THEN S \cup {n} ELSE S
    BY <2>1, <2>3, <1>1 DEF NewlinesIn
  <2>5. n \notin S
    BY <2>1 DEF NewlinesIn
  <2> HIDE DEF S
  <2>6. Cardinality(S \cup {n}) = Cardinality(S) + 1
    BY <2>2, <2>5, FS_AddElement
  <2>7. LineOf(script, n) = 1 + Cardinality(S)
    BY DEF LineOf, S
  <2>8. LineOf(script, n + 1) = 1 + Cardinality(NewlinesIn(script, 1, n))
    BY <2>1 DEF LineOf
  <2>9. LineOf(longer, n + 1) = LineOf(script, n + 1)
    BY <2>1, <1>5
  <2>10. CASE script[n] = Newline
    <3>1. Cardinality(NewlinesIn(script, 1, n)) = Cardinality(S) + 1
      BY <2>4, <2>6, <2>10
    <3>2. LineOf(longer, n + 1) = 1 + (Cardinality(S) + 1)
      BY <2>8, <2>9, <3>1
    <3>3. LineOf(longer, n + 1) = LineOf(script, n) + 1
      BY <2>2, <2>7, <3>2
    <3>4. QED
      BY <3>3, <2>10, <1>5, <1>7
  <2>11. CASE script[n] # Newline
    <3>1. LineOf(longer, n + 1) = LineOf(script, n)
      BY <2>4, <2>7, <2>8, <2>9, <2>11
    <3>2. QED
      BY <3>1, <2>11, <1>5, <1>7
  <2>12. QED
    BY <2>10, <2>11
<1>8. QED
  BY <1>5, <1>6, <1>7

\* Lines that fit have fitted before, and c is not behind a full line.
LEMMA LinesFitBefore ==
  ASSUME NEW script, NEW longer, NEW c, NEW n, Longer(script, longer, c, n), LinesFit(longer)
  PROVE  LinesFit(script) /\ ~LineFull(script)
<1>1. n \in Nat /\ Len(script) = n /\ DOMAIN script = 1 .. n /\ DOMAIN longer = 1 .. n + 1
  BY DEF Longer
<1>2. \A i \in 1 .. n + 1 : /\ i \in 1 .. n + 1 /\ i \in Int
                            /\ i - MaxLineLen + 1 \in Int /\ i - 1 \in Int /\ i - 1 <= n
  BY <1>1, BoundsAre
<1>3. \A i \in 1 .. n + 1 : NewlinesIn(longer, i - MaxLineLen + 1, i - 1)
                              = NewlinesIn(script, i - MaxLineLen + 1, i - 1)
  BY <1>2, NewlinesKept
<1>4. \A i \in 1 .. n + 1 : \/ i < MaxLineLen
                            \/ NewlinesIn(script, i - MaxLineLen + 1, i - 1) # {}
  BY <1>1, <1>3 DEF LinesFit
<1>5. LinesFit(script)
  <2>1. \A i \in 1 .. n : i \in 1 .. n + 1
    BY <1>1
  <2>2. QED
    BY <2>1, <1>1, <1>4 DEF LinesFit
<1>6. ~LineFull(script)
  <2>1. /\ n + 1 \in 1 .. n + 1 /\ n + 1 - 1 = n
        /\ (n + 1) - MaxLineLen + 1 = n - MaxLineLen + 2
        /\ n >= MaxLineLen - 1 => ~(n + 1 < MaxLineLen)
    BY <1>1, BoundsAre
  <2>2. PICK i, a, b : i \in 1 .. n + 1 /\ i = n + 1 /\ a = i - MaxLineLen + 1 /\ b = i - 1
    BY <2>1
  <2>3. n + 1 < MaxLineLen \/ NewlinesIn(script, n - MaxLineLen + 2, n) # {}
    <3>1. i < MaxLineLen \/ NewlinesIn(script, a, b) # {}
      BY <2>2, <1>4
    <3>2. a = n - MaxLineLen + 2 /\ b = n
      BY <2>2, <1>1, BoundsAre
    <3>3. QED
      BY <2>2, <3>1, <3>2
  <2>4. QED
    BY <2>1, <2>3, <1>1 DEF LineFull
<1>7. QED
  BY <1>5, <1>6

\* Statements that begin on new lines did so before, and c is not a text that
\* follows a semicolon.
LEMMA NewLineBefore ==
  ASSUME NEW script, NEW longer, NEW c, NEW n, Longer(script, longer, c, n),
         NewLineAfterSemicolon(longer)
  PROVE  /\ NewLineAfterSemicolon(script)
         /\ AfterStop(script) /\ ~Commented(script) => c # "x"
<1>1. /\ n \in Nat /\ Len(script) = n /\ Len(longer) = n + 1 /\ longer[n + 1] = c
      /\ \A i \in 1 .. n : longer[i] = script[i]
  BY DEF Longer
<1>2. \A i \in 1 .. n : i \in Semicolons(script) => i \in Semicolons(longer)
  BY SemicolonsNext
<1>3. Semicolons(script) \in SUBSET (1 .. n)
  BY SemicolonsNext
<1>4. \A j \in 1 .. n + 1 : InComment(longer, j) <=> InComment(script, j)
  BY CommentsKept
<1>5. ASSUME NEW i \in Semicolons(script), NEW j \in i + 1 .. Len(script),
             NewlinesIn(script, i, j) = {}
      PROVE  script[j] # "x" \/ InComment(script, j)
  <2>1. i \in 1 .. n /\ i \in Int /\ j \in Int /\ j <= n /\ j \in 1 .. n /\ j \in 1 .. n + 1
        /\ j \in i + 1 .. Len(longer)
    BY <1>1, <1>3
  <2>2. NewlinesIn(longer, i, j) = {}
    BY <2>1, <1>5, NewlinesKept
  <2>3. i \in Semicolons(longer)
    BY <2>1, <1>2
  <2>4. longer[j] # "x" \/ InComment(longer, j)
    BY <2>1, <2>2, <2>3 DEF NewLineAfterSemicolon
  <2>5. QED
    BY <2>1, <2>4, <1>1, <1>4
<1>6. ASSUME AfterStop(script), ~Commented(script), c = "x" PROVE FALSE
  <2>1. PICK i \in Semicolons(script) : NewlinesIn(script, i, n) = {}
    BY <1>1, <1>6 DEF AfterStop
  <2>2. i \in 1 .. n /\ i \in Int /\ i <= n + 1 /\ n + 1 \in i + 1 .. Len(longer) /\ n + 1 \in 1 .. n + 1
    BY <1>1, <1>3
  <2>3. c # Newline
    BY <1>6 DEF Newline
  <2>4. NewlinesIn(longer, i, n + 1) = {}
    BY <2>1, <2>2, <2>3, NewlinesNext
  <2>5. i \in Semicolons(longer)
    BY <2>2, <1>2
  <2>6. longer[n + 1] # "x" \/ InComment(longer, n + 1)
    BY <2>2, <2>4, <2>5 DEF NewLineAfterSemicolon
  <2>7. InComment(script, n + 1)
    BY <2>2, <2>6, <1>1, <1>4, <1>6
  <2>8. QED
    BY <2>7, <1>1, <1>6 DEF Commented
<1>7. QED
  BY <1>5, <1>6 DEF NewLineAfterSemicolon

-----------------------------------------------------------------------------
(* What ends at a position.                                                *)

\* Where the text that ends at stop begins.
LastStop(script, stop) == Max({0} \cup {i \in Semicolons(script) : i < stop})

\* The text begins before it ends, behind every earlier semicolon.
LEMMA LastStopIs ==
  ASSUME NEW script, Semicolons(script) \in SUBSET Nat, NEW stop \in Nat, stop > 0
  PROVE  /\ LastStop(script, stop) \in Nat /\ LastStop(script, stop) < stop
         /\ \A i \in Semicolons(script) : i < stop => i <= LastStop(script, stop)
<1> DEFINE S == {0} \cup {i \in Semicolons(script) : i < stop}
<1>1. S \in SUBSET (0 .. stop - 1) /\ S # {} /\ stop - 1 \in Nat
  OBVIOUS
<1>2. \A i \in Semicolons(script) : i < stop => i \in S
  OBVIOUS
<1>3. LastStop(script, stop) = Max(S)
  BY DEF LastStop
<1> HIDE DEF S
<1>4. Max(S) \in S /\ \A y \in S : Max(S) >= y
  BY <1>1, MaxOf
<1>5. PICK x : x = Max(S)
  OBVIOUS
<1>6. x \in Nat /\ x < stop
  <2>1. x \in S
    BY <1>4, <1>5
  <2>2. x \in 0 .. stop - 1
    BY <2>1, <1>1
  <2>3. QED
    BY <2>2
<1>7. \A i \in Semicolons(script) : i < stop => i <= x
  <2>1. ASSUME NEW i \in Semicolons(script), i < stop PROVE i <= x
    <3>1. i \in S /\ i \in Nat
      BY <2>1, <1>2
    <3>2. x >= i
      BY <3>1, <1>4, <1>5
    <3>3. QED
      BY <3>1, <3>2, <1>6
  <2>2. QED
    BY <2>1
<1>8. QED
  BY <1>3, <1>5, <1>6, <1>7

\* A script's semicolons are positions of it.
LEMMA SemicolonsType ==
  ASSUME NEW script \in Seq(Chars)
  PROVE  Semicolons(script) \in SUBSET (1 .. Len(script)) /\ Semicolons(script) \in SUBSET Nat
  BY DEF Semicolons

\* Lines are numbered.
LEMMA LineOfType ==
  ASSUME NEW script, NEW i \in Int
  PROVE  LineOf(script, i) \in Nat
<1>1. IsFiniteSet(1 .. i - 1)
  BY FS_Interval
<1>2. NewlinesIn(script, 1, i - 1) \in SUBSET (1 .. i - 1)
  BY DEF NewlinesIn
<1>3. Cardinality(NewlinesIn(script, 1, i - 1)) \in Nat
  BY <1>1, <1>2, FS_Subset, FS_CardinalityType
<1>4. QED
  BY <1>3 DEF LineOf

\* A piece is a text and the line it ends on.
LEMMA PieceIs ==
  ASSUME NEW script \in Seq(Chars), NEW stop \in 1 .. Len(script) + 1
  PROVE  /\ Piece(script, stop) = [text |-> Between(script, LastStop(script, stop), stop),
                                   line |-> LineOf(script, Min({stop, Len(script)}))]
         /\ stop <= Len(script) => Min({stop, Len(script)}) = stop
         /\ stop = Len(script) + 1 => Min({stop, Len(script)}) = Len(script)
         /\ Piece(script, stop) \in [text : Seq(Stored), line : Nat]
<1>1. Len(script) \in Nat /\ stop \in Nat /\ stop > 0 /\ stop <= Len(script) + 1
  OBVIOUS
<1>2. PICK S, m : S = {stop, Len(script)} /\ m = Min(S)
  OBVIOUS
<1>3. m \in S /\ \A y \in S : m <= y
  <2>1. S \in SUBSET Nat /\ S # {}
    BY <1>1, <1>2
  <2>2. QED
    BY <2>1, <1>2, MinOf
<1>4. (stop <= Len(script) => m = stop) /\ (stop = Len(script) + 1 => m = Len(script)) /\ m \in Int
  BY <1>1, <1>2, <1>3
<1>5. LineOf(script, m) \in Nat
  BY <1>4, LineOfType
<1>6. LastStop(script, stop) \in Nat
  BY <1>1, SemicolonsType, LastStopIs
<1>7. Between(script, LastStop(script, stop), stop) \in Seq(Stored)
  <2>1. PICK k \in Nat : k = stop - 1 /\ k + 1 = stop
    BY <1>1
  <2>2. QED
    BY <2>1, <1>6, BetweenType
<1>8. Piece(script, stop) = [text |-> Between(script, LastStop(script, stop), stop),
                             line |-> LineOf(script, Min({stop, Len(script)}))]
  BY DEF Piece, LastStop
<1>9. QED
  BY <1>2, <1>4, <1>5, <1>7, <1>8

\* A piece of the script stays one; only the last may be followed by c on its
\* last line.
LEMMA PieceKept ==
  ASSUME NEW script \in Seq(Chars), NEW longer \in Seq(Chars), NEW c, NEW n,
         Longer(script, longer, c, n), NEW k \in 1 .. n + 1
  PROVE  /\ Piece(longer, k).text = Piece(script, k).text
         /\ Piece(longer, k) = [text |-> Piece(script, k).text, line |-> LineOf(longer, k)]
         /\ k <= n => Piece(longer, k) = Piece(script, k)
<1>1. n \in Nat /\ Len(script) = n /\ Len(longer) = n + 1
      /\ \A i \in 1 .. n : longer[i] = script[i]
  BY DEF Longer
<1>2. k \in Nat /\ k > 0 /\ k \in 1 .. Len(script) + 1 /\ k \in 1 .. Len(longer) + 1
      /\ k <= Len(longer) /\ k \in 0 .. n + 1
  BY <1>1
<1>3. {i \in Semicolons(longer) : i < k} = {i \in Semicolons(script) : i < k}
  <2>1. \A i \in 1 .. n + 1 : i < k => i \in 1 .. n
    BY <1>1, <1>2
  <2>2. Semicolons(script) \in SUBSET (1 .. n) /\ Semicolons(longer) \in SUBSET (1 .. n + 1)
    BY SemicolonsNext
  <2>3. \A i \in 1 .. n : i \in Semicolons(longer) <=> i \in Semicolons(script)
    BY SemicolonsNext
  <2>4. QED
    BY <2>1, <2>2, <2>3
<1>4. PICK from : from = LastStop(script, k) /\ from = LastStop(longer, k)
  BY <1>3 DEF LastStop
<1>5. from \in Nat
  BY <1>2, <1>4, SemicolonsType, LastStopIs
<1>6. Between(longer, from, k) = Between(script, from, k)
  <2>1. PICK m \in Nat : m = k - 1 /\ m + 1 = k
    BY <1>2
  <2>2. \A i \in 1 .. m : i \in 1 .. n /\ i \in 1 .. n + 1
    BY <1>1, <1>2, <2>1
  <2>3. \A i \in 1 .. m : longer[i] = script[i] /\ (InComment(longer, i) <=> InComment(script, i))
    BY <2>2, <1>1, CommentsKept
  <2>4. QED
    BY <2>1, <2>3, <1>5, BetweenSame
<1>7. /\ Piece(longer, k) = [text |-> Between(longer, from, k),
                             line |-> LineOf(longer, Min({k, Len(longer)}))]
      /\ Min({k, Len(longer)}) = k
  BY <1>2, <1>4, PieceIs
<1>8. /\ Piece(script, k) = [text |-> Between(script, from, k),
                             line |-> LineOf(script, Min({k, Len(script)}))]
      /\ k <= n => Min({k, Len(script)}) = k
  BY <1>1, <1>2, <1>4, PieceIs
<1>9. LineOf(longer, k) = LineOf(script, k)
  BY <1>2, LineOfNext
<1>10. QED
  BY <1>6, <1>7, <1>8, <1>9

\* The text so far is a text.
LEMMA CurrentType ==
  ASSUME NEW script \in Seq(Chars)
  PROVE  Current(script) \in Seq(Stored)
<1>1. Len(script) + 1 \in 1 .. Len(script) + 1
  OBVIOUS
<1>2. QED
  BY <1>1, PieceIs DEF Current

\* How the text so far goes on.
LEMMA CurrentNext ==
  ASSUME NEW script \in Seq(Chars), NEW longer \in Seq(Chars), NEW c, NEW n,
         Longer(script, longer, c, n)
  PROVE  Current(longer) = IF c = Semicolon /\ ~Commented(script) THEN <<>>
                           ELSE IF Commented(script) THEN Current(script)
                                ELSE Squeezed(Current(script), c)
<1>1. n \in Nat /\ Len(script) = n /\ Len(longer) = n + 1 /\ longer[n + 1] = c
      /\ \A i \in 1 .. n : longer[i] = script[i]
  BY DEF Longer
<1>2. PICK from, to : from = LastStop(longer, to) /\ to = Len(longer) + 1
  OBVIOUS
<1>3. to = n + 2 /\ to \in Nat /\ to > 0 /\ to \in 1 .. Len(longer) + 1
  BY <1>1, <1>2
<1>4. Current(longer) = Between(longer, from, to)
  <2>1. PICK l : l = LineOf(longer, Min({to, Len(longer)}))
    OBVIOUS
  <2>2. Piece(longer, to) = [text |-> Between(longer, LastStop(longer, to), to), line |-> l]
    BY <2>1, <1>3, PieceIs
  <2>3. Piece(longer, to).text = Between(longer, from, to)
    BY <2>2, <1>2
  <2>4. QED
    BY <2>3, <1>2 DEF Current
<1>5. from \in Nat /\ from < to /\ \A i \in Semicolons(longer) : i < to => i <= from
  BY <1>2, <1>3, SemicolonsType, LastStopIs
<1>6. CASE c = Semicolon /\ ~Commented(script)
  <2>1. n + 1 \in Semicolons(longer)
    BY <1>6, SemicolonsNext
  <2>2. from = n + 1
    BY <2>1, <1>1, <1>3, <1>5
  <2>3. Between(longer, from, from + 1) = <<>>
    BY <1>5, BetweenNone
  <2>4. from + 1 = to
    BY <2>2, <1>1, <1>3
  <2>5. QED
    BY <2>3, <2>4, <1>4, <1>6
<1>7. CASE ~(c = Semicolon /\ ~Commented(script))
  <2>1. n + 1 \notin Semicolons(longer)
    BY <1>7, SemicolonsNext
  <2>2. {i \in Semicolons(longer) : i < to} = {i \in Semicolons(script) : i < n + 1}
    <3>1. Semicolons(script) \in SUBSET (1 .. n) /\ Semicolons(longer) \in SUBSET (1 .. n + 1)
      BY SemicolonsNext
    <3>2. \A i \in 1 .. n : i \in Semicolons(longer) <=> i \in Semicolons(script)
      BY SemicolonsNext
    <3>3. \A i \in 1 .. n + 1 : i < to /\ (i = n + 1 \/ i \in 1 .. n)
      BY <1>1, <1>3
    <3>4. \A i \in 1 .. n : i < n + 1 /\ i < to
      BY <1>1, <1>3
    <3>5. QED
      BY <2>1, <3>1, <3>2, <3>3, <3>4
  <2>3. from = LastStop(script, n + 1)
    BY <2>2, <1>2 DEF LastStop
  <2>4. PICK k \in Nat : k = n + 1 /\ k + 1 = to /\ k > 0
    BY <1>1, <1>3
  <2>5. from < k
    BY <2>3, <2>4, SemicolonsType, LastStopIs
  <2>6. Between(longer, from, k + 1)
          = IF InComment(longer, k) THEN Between(longer, from, k)
            ELSE Squeezed(Between(longer, from, k), longer[k])
    BY <2>5, <1>5, BetweenNext
  <2>7. InComment(longer, k) <=> Commented(script)
    <3>1. k \in 1 .. n + 1
      BY <2>4
    <3>2. InComment(longer, k) <=> InComment(script, k)
      BY <3>1, CommentsKept
    <3>3. QED
      BY <3>2, <2>4, <1>1 DEF Commented
  <2>8. Between(longer, from, k) = Between(script, from, k)
    <3>1. \A i \in 1 .. n : i \in 1 .. n + 1
      BY <1>1
    <3>2. \A i \in 1 .. n : longer[i] = script[i] /\ (InComment(longer, i) <=> InComment(script, i))
      BY <3>1, <1>1, CommentsKept
    <3>3. QED
      BY <3>2, <2>4, <1>1, <1>5, BetweenSame
  <2>9. Current(script) = Between(script, from, k)
    <3>1. k \in 1 .. Len(script) + 1 /\ k = Len(script) + 1
      BY <2>4, <1>1
    <3>2. PICK l : l = LineOf(script, Min({k, Len(script)}))
      OBVIOUS
    <3>3. Piece(script, k) = [text |-> Between(script, LastStop(script, k), k), line |-> l]
      BY <3>1, <3>2, PieceIs
    <3>4. Piece(script, k).text = Between(script, from, k)
      BY <3>3, <2>3, <2>4
    <3>5. QED
      BY <3>1, <3>4 DEF Current
  <2>10. longer[k] = c
    BY <2>4, <1>1
  <2>11. QED
    BY <2>4, <2>6, <2>7, <2>8, <2>9, <2>10, <1>4, <1>7
<1>8. QED
  BY <1>6, <1>7

-----------------------------------------------------------------------------
(* The statements of a script.                                             *)

\* What ScriptReadStatement returns for a statement.
Pieces == [text : Seq(Stored), line : Nat]

\* The statements up to position i after those up to the position before, when
\* statements end at the stops.
StopStep(script, stops, sofar, i) ==
  IF i \in stops /\ Piece(script, i).text # <<>> THEN Append(sofar, Piece(script, i)) ELSE sofar

\* Those that end up to each position, as a function in terms of itself.
UpTo(script, stops, m, f) ==
  [i \in 0 .. m |-> IF i = 0 THEN <<>>
                    ELSE IF i \in stops /\ Piece(script, i).text # <<>>
                         THEN Append(f[i - 1], Piece(script, i)) ELSE f[i - 1]]

\* The statements that end up to position m.
Gathered(script, stops, m) == (CHOOSE f : f = UpTo(script, stops, m, f))[m]

\* The statements are made in steps.
LEMMA UpToIs ==
  ASSUME NEW script \in Seq(Chars), NEW stops, NEW m \in Nat, m <= Len(script) + 1
  PROVE  \E u \in [0 .. m -> Seq(Pieces)] :
           /\ u[0] = <<>>
           /\ \A i \in 1 .. m : u[i] = StopStep(script, stops, u[i - 1], i)
           /\ Gathered(script, stops, m) = u[m]
<1> DEFINE g    == [i \in 1 .. m |-> [b \in Seq(Pieces) |-> StopStep(script, stops, b, i)]]
           iter == CHOOSE f : f = UpTo(script, stops, m, f)
<1>1. \A i \in 1 .. m : Piece(script, i) \in Pieces
  <2>1. \A i \in 1 .. m : i \in 1 .. Len(script) + 1
    OBVIOUS
  <2>2. QED
    BY <2>1, PieceIs DEF Pieces
<1>2. ASSUME NEW i \in 1 .. m, NEW b \in Seq(Pieces)
      PROVE  StopStep(script, stops, b, i) \in Seq(Pieces)
  <2>1. Append(b, Piece(script, i)) \in Seq(Pieces)
    BY <1>1
  <2>2. QED
    BY <2>1 DEF StopStep
<1>3. g \in [1 .. m -> [Seq(Pieces) -> Seq(Pieces)]]
  BY <1>2
<1>4. <<>> \in Seq(Pieces)
  OBVIOUS
<1>5. PICK u \in [0 .. m -> Seq(Pieces)] : Follows(u, g, <<>>, m)
  <2> HIDE DEF g
  <2>1. QED
    BY <1>3, <1>4, FollowingExists
<1>6. u[0] = <<>>
  BY <1>5 DEF Follows
<1>7. ASSUME NEW i \in 1 .. m PROVE u[i] = StopStep(script, stops, u[i - 1], i)
  <2>1. u[i] = g[i][u[i - 1]]
    BY <1>5 DEF Follows
  <2>2. u[i - 1] \in Seq(Pieces)
    <3>1. i - 1 \in 0 .. m
      OBVIOUS
    <3>2. QED
      BY <3>1
  <2>3. QED
    BY <2>1, <2>2
<1>8. u = UpTo(script, stops, m, u)
  <2>1. ASSUME NEW i \in 0 .. m
        PROVE  u[i] = IF i = 0 THEN <<>>
                      ELSE IF i \in stops /\ Piece(script, i).text # <<>>
                           THEN Append(u[i - 1], Piece(script, i)) ELSE u[i - 1]
    <3>1. CASE i = 0
      BY <3>1, <1>6
    <3>2. CASE i # 0
      <4>1. i \in 1 .. m
        BY <3>2
      <4>2. u[i] = StopStep(script, stops, u[i - 1], i)
        BY <4>1, <1>7
      <4>3. QED
        BY <3>2, <4>2 DEF StopStep
    <3>3. QED
      BY <3>1, <3>2
  <2>2. u = [i \in 0 .. m |-> u[i]]
    OBVIOUS
  <2>3. QED
    BY <2>1, <2>2 DEF UpTo
<1>9. iter = UpTo(script, stops, m, iter)
  BY <1>8
<1> HIDE DEF iter
<1>10. \A i \in 0 .. m : iter[i] = IF i = 0 THEN <<>>
                                   ELSE IF i \in stops /\ Piece(script, i).text # <<>>
                                        THEN Append(iter[i - 1], Piece(script, i)) ELSE iter[i - 1]
  <2>1. ASSUME NEW h, h = UpTo(script, stops, m, h)
        PROVE  \A i \in 0 .. m : h[i] = IF i = 0 THEN <<>>
                                        ELSE IF i \in stops /\ Piece(script, i).text # <<>>
                                             THEN Append(h[i - 1], Piece(script, i)) ELSE h[i - 1]
    BY <2>1 DEF UpTo
  <2>2. QED
    BY <2>1, <1>9
<1> DEFINE Same == {i \in 0 .. m : iter[i] = u[i]}
<1>11. 0 \in Same
  <2>1. 0 \in 0 .. m
    OBVIOUS
  <2>2. iter[0] = <<>>
    BY <2>1, <1>10
  <2>3. QED
    BY <2>1, <2>2, <1>6
<1>12. ASSUME NEW i \in 1 .. m, i - 1 \in Same PROVE i \in Same
  <2>1. iter[i - 1] = u[i - 1] /\ i \in 0 .. m /\ i # 0
    BY <1>12
  <2>2. iter[i] = StopStep(script, stops, iter[i - 1], i)
    BY <2>1, <1>10 DEF StopStep
  <2>3. u[i] = StopStep(script, stops, u[i - 1], i)
    BY <1>7
  <2>4. QED
    BY <2>1, <2>2, <2>3
<1> HIDE DEF Same
<1>13. 0 .. m \subseteq Same
  BY <1>11, <1>12, Stepwise
<1>14. iter[m] = u[m]
  BY <1>13 DEF Same
<1>15. QED
  BY <1>6, <1>7, <1>14 DEF iter, Gathered

\* So are those that end at a semicolon.
LEMMA CompletedIs ==
  ASSUME NEW script \in Seq(Chars), NEW n, n = Len(script)
  PROVE  \E u \in [0 .. n -> Seq(Pieces)] :
           /\ u[0] = <<>>
           /\ \A i \in 1 .. n : u[i] = StopStep(script, Semicolons(script), u[i - 1], i)
           /\ Completed(script) = u[n]
<1>1. n \in Nat /\ n <= Len(script) + 1
  OBVIOUS
<1>2. Completed(script) = Gathered(script, Semicolons(script), n)
  BY DEF Completed, UpTo, Gathered
<1>3. PICK u \in [0 .. n -> Seq(Pieces)] :
        /\ u[0] = <<>>
        /\ \A i \in 1 .. n : u[i] = StopStep(script, Semicolons(script), u[i - 1], i)
        /\ Gathered(script, Semicolons(script), n) = u[n]
  BY <1>1, UpToIs, ZenonT(60)
<1>4. QED
  BY <1>2, <1>3

\* The statements are those that end at a semicolon, and what is left.
LEMMA StatementsAre ==
  ASSUME NEW script \in Seq(Chars), NEW n, n = Len(script)
  PROVE  /\ Statements(script) = IF Current(script) = <<>> THEN Completed(script)
                                 ELSE Append(Completed(script), Piece(script, n + 1))
         /\ Completed(script) \in Seq(Pieces)
         /\ Piece(script, n + 1) = [text |-> Current(script), line |-> LineOf(script, n)]
<1> DEFINE stops == Semicolons(script) \cup {n + 1}
<1>1. n \in Nat /\ n + 1 \in Nat /\ n + 1 <= Len(script) + 1 /\ n + 1 \in 1 .. Len(script) + 1
  OBVIOUS
<1>2. Statements(script) = Gathered(script, stops, n + 1)
  BY DEF Statements, UpTo, Gathered
<1> HIDE DEF stops
<1>3. PICK u \in [0 .. n + 1 -> Seq(Pieces)] :
        /\ u[0] = <<>>
        /\ \A i \in 1 .. n + 1 : u[i] = StopStep(script, stops, u[i - 1], i)
        /\ Gathered(script, stops, n + 1) = u[n + 1]
  BY ONLY script \in Seq(Chars), <1>1, UpToIs, SMTT(30)
<1>4. PICK v \in [0 .. n -> Seq(Pieces)] :
        /\ v[0] = <<>>
        /\ \A i \in 1 .. n : v[i] = StopStep(script, Semicolons(script), v[i - 1], i)
        /\ Completed(script) = v[n]
  BY CompletedIs
<1> DEFINE Same == {i \in 0 .. n : u[i] = v[i]}
<1>5. 0 \in Same
  BY <1>1, <1>3, <1>4
<1>6. ASSUME NEW i \in 1 .. n, i - 1 \in Same PROVE i \in Same
  <2>1. u[i - 1] = v[i - 1] /\ i \in 0 .. n /\ i \in 1 .. n + 1 /\ i # n + 1
    BY <1>1, <1>6
  <2>2. i \in stops <=> i \in Semicolons(script)
    BY <2>1 DEF stops
  <2>3. u[i] = StopStep(script, stops, u[i - 1], i)
        /\ v[i] = StopStep(script, Semicolons(script), v[i - 1], i)
    BY <2>1, <1>3, <1>4
  <2>4. PICK a : a = u[i - 1] /\ a = v[i - 1]
    BY <2>1
  <2>5. StopStep(script, stops, a, i) = StopStep(script, Semicolons(script), a, i)
    BY <2>2 DEF StopStep
  <2>6. u[i] = v[i]
    BY <2>3, <2>4, <2>5
  <2>7. QED
    BY <2>1, <2>6
<1> HIDE DEF Same
<1>7. 0 .. n \subseteq Same
  BY <1>1, <1>5, <1>6, Stepwise
<1>8. u[n] = v[n]
  BY <1>1, <1>7 DEF Same
<1>9. u[n + 1] = StopStep(script, stops, u[n], n + 1)
  <2>1. PICK k \in 1 .. n + 1 : k = n + 1 /\ k - 1 = n
    BY <1>1
  <2>2. u[k] = StopStep(script, stops, u[k - 1], k)
    BY <1>3
  <2>3. QED
    BY <2>1, <2>2
<1>10. n + 1 \in stops
  BY DEF stops
<1>11. Piece(script, n + 1).text = Current(script)
  BY DEF Current
<1>12. Statements(script) = IF Current(script) = <<>> THEN Completed(script)
                            ELSE Append(Completed(script), Piece(script, n + 1))
  BY <1>2, <1>3, <1>4, <1>8, <1>9, <1>10, <1>11 DEF StopStep
<1>13. Completed(script) \in Seq(Pieces)
  BY <1>1, <1>4
<1>14. Piece(script, n + 1) = [text |-> Current(script), line |-> LineOf(script, n)]
  <2>1. PICK k : k = n + 1
    OBVIOUS
  <2>2. /\ Piece(script, k) = [text |-> Between(script, LastStop(script, k), k),
                               line |-> LineOf(script, Min({k, Len(script)}))]
        /\ Min({k, Len(script)}) = n
    BY <2>1, <1>1, PieceIs
  <2>3. QED
    BY <2>1, <2>2, <1>11
<1>15. QED
  BY <1>12, <1>13, <1>14

\* A semicolon outside of comments completes a statement that is not empty.
LEMMA CompletedNext ==
  ASSUME NEW script \in Seq(Chars), NEW longer \in Seq(Chars), NEW c, NEW n,
         Longer(script, longer, c, n)
  PROVE  Completed(longer)
           = IF c = Semicolon /\ ~Commented(script) /\ Current(script) # <<>>
             THEN Append(Completed(script), [text |-> Current(script), line |-> LineOf(longer, n + 1)])
             ELSE Completed(script)
<1>1. n \in Nat /\ n = Len(script) /\ n + 1 = Len(longer)
  BY DEF Longer
<1>2. PICK k \in Nat : k = n + 1 /\ k - 1 = n /\ k \in 1 .. k /\ k = Len(longer) /\ n \in 0 .. n
  BY <1>1
<1>3. PICK u \in [0 .. k -> Seq(Pieces)] :
        /\ u[0] = <<>>
        /\ \A i \in 1 .. k : u[i] = StopStep(longer, Semicolons(longer), u[i - 1], i)
        /\ Completed(longer) = u[k]
  BY <1>2, CompletedIs
<1>4. PICK v \in [0 .. n -> Seq(Pieces)] :
        /\ v[0] = <<>>
        /\ \A i \in 1 .. n : v[i] = StopStep(script, Semicolons(script), v[i - 1], i)
        /\ Completed(script) = v[n]
  BY <1>1, CompletedIs
<1> DEFINE Same == {i \in 0 .. n : u[i] = v[i]}
<1>5. 0 \in Same
  BY <1>1, <1>3, <1>4
<1>6. ASSUME NEW i \in 1 .. n, i - 1 \in Same PROVE i \in Same
  <2>1. u[i - 1] = v[i - 1] /\ i \in 0 .. n /\ i \in 1 .. k /\ i \in 1 .. n + 1 /\ i <= n
    BY <1>1, <1>2, <1>6
  <2>2. i \in Semicolons(longer) <=> i \in Semicolons(script)
    BY SemicolonsNext
  <2>3. u[i] = StopStep(longer, Semicolons(longer), u[i - 1], i)
        /\ v[i] = StopStep(script, Semicolons(script), v[i - 1], i)
    BY <2>1, <1>3, <1>4
  <2>4. Piece(longer, i) = Piece(script, i)
    BY <2>1, PieceKept
  <2>5. PICK a : a = u[i - 1] /\ a = v[i - 1]
    BY <2>1
  <2>6. StopStep(longer, Semicolons(longer), a, i) = StopStep(script, Semicolons(script), a, i)
    BY <2>2, <2>4 DEF StopStep
  <2>7. u[i] = v[i]
    BY <2>3, <2>5, <2>6
  <2>8. QED
    BY <2>1, <2>7
<1> HIDE DEF Same
<1>7. 0 .. n \subseteq Same
  BY <1>1, <1>5, <1>6, Stepwise
<1>8. u[n] = v[n]
  BY <1>1, <1>2, <1>7 DEF Same
<1>9. u[k] = StopStep(longer, Semicolons(longer), u[n], k)
  <2>1. u[k] = StopStep(longer, Semicolons(longer), u[k - 1], k)
    BY <1>2, <1>3
  <2>2. QED
    BY <2>1, <1>2
<1>10. k \in Semicolons(longer) <=> c = Semicolon /\ ~Commented(script)
  BY <1>2, SemicolonsNext
<1>11. Piece(script, k).text = Current(script)
  BY <1>1, <1>2 DEF Current
<1>12. Piece(longer, k).text = Current(script)
       /\ Piece(longer, k) = [text |-> Current(script), line |-> LineOf(longer, k)]
  <2>1. k \in 1 .. n + 1
    BY <1>2
  <2>2. QED
    BY <2>1, <1>11, PieceKept
<1>13. QED
  BY <1>2, <1>3, <1>4, <1>8, <1>9, <1>10, <1>12 DEF StopStep

-----------------------------------------------------------------------------
(* Every step reads as documented.                                         *)

\* Of an empty script there is nothing.
LEMMA EmptyScript ==
  /\ Current(<<>>) = <<>> /\ Completed(<<>>) = <<>>
  /\ ~Commented(<<>>) /\ ~AfterStop(<<>>)
<1>1. PICK script : script = <<>>
  OBVIOUS
<1>2. script \in Seq(Chars) /\ Len(script) = 0 /\ DOMAIN script = {}
  BY <1>1
<1>3. Semicolons(script) = {}
  BY <1>2 DEF Semicolons
<1>4. Completed(script) = <<>>
  <2>1. PICK n : n = 0
    OBVIOUS
  <2>2. \E u \in [0 .. n -> Seq(Pieces)] : u[0] = <<>> /\ Completed(script) = u[n]
    BY <2>1, <1>2, CompletedIs
  <2>3. QED
    BY <2>1, <2>2
<1>5. Current(script) = <<>>
  <2>1. PICK k : k = 1
    OBVIOUS
  <2>2. /\ LastStop(script, k) \in Nat /\ LastStop(script, k) < k
    BY <2>1, <1>3, LastStopIs
  <2>3. LastStop(script, k) = 0
    BY <2>1, <2>2
  <2>4. PICK l : l = LineOf(script, Min({k, Len(script)}))
    OBVIOUS
  <2>5. Piece(script, k) = [text |-> Between(script, LastStop(script, k), k), line |-> l]
    <3>1. k \in 1 .. Len(script) + 1
      BY <2>1, <1>2
    <3>2. QED
      BY <2>4, <3>1, <1>2, PieceIs
  <2>6. Between(script, 0, 0 + 1) = <<>>
    BY BetweenNone
  <2>7. Piece(script, k).text = <<>>
    BY <2>1, <2>3, <2>5, <2>6
  <2>8. Len(script) + 1 = k
    BY <2>1, <1>2
  <2>9. QED
    BY <2>7, <2>8 DEF Current
<1>6. ~Commented(script)
  <2>1. Len(script) + 1 - 1 = 0
    BY <1>2
  <2>2. QED
    BY <2>1 DEF Commented, InComment
<1>7. ~AfterStop(script)
  BY <1>3 DEF AfterStop
<1>8. QED
  BY <1>1, <1>4, <1>5, <1>6, <1>7

\* Nothing has been read of the file.
LEMMA InitRead == Init => ReadInv
<1> SUFFICES ASSUME Init PROVE ReadSoFar /\ pc = "read"
  BY DEF ReadInv
<1>1. /\ pc = "read" /\ delivered = <<>> /\ statement = <<>> /\ wasLastCharSpace = TRUE
      /\ file = <<>> /\ lineNo = 0 /\ column = 0 /\ dropping = FALSE
  BY DEF Init
<1>2. PICK F : F = file
  OBVIOUS
<1>3. Len(F) = 0
  BY <1>1, <1>2
<1>4. ChunkIsLine
  <2>1. NewlinesIn(F, Len(F) - column + 1, Len(F)) = {}
    BY <1>1, <1>3 DEF NewlinesIn
  <2>2. column = Len(F) /\ column <= Len(F)
    BY <1>1, <1>3
  <2>3. QED
    BY <2>1, <2>2, <1>2 DEF ChunkIsLine
<1>5. /\ Current(F) = <<>> /\ Completed(F) = <<>> /\ ~Commented(F) /\ ~AfterStop(F)
  BY <1>1, <1>2, EmptyScript
<1>6. DroppedIsNoText
  BY <1>1, <1>2, <1>5 DEF DroppedIsNoText
<1>7. QED
  BY <1>1, <1>2, <1>4, <1>5, <1>6 DEF ReadSoFar

\* What any character that is read does to chunks and lines.
LEMMA Reading ==
  ASSUME TypeOK, ReadInv, NEW c \in Chars, Advance(c),
         LinesFit(file'), NewLineAfterSemicolon(file'),
         NEW F, F = file, NEW G, G = file', NEW n, n = Len(F)
  PROVE  /\ ReadSoFar /\ pc = "read"
         /\ Longer(F, G, c, n) /\ F \in Seq(Chars) /\ G \in Seq(Chars) /\ G # <<>> /\ Len(G) = n + 1
         /\ ChunkIsLine' /\ lineNo' = LineOf(G, n + 1)
         /\ ChunkEnds(c) => c = Newline \/ LineFull(G)
         /\ Commented(F) => dropping
         /\ AfterStop(F) /\ ~Commented(F) => c # "x"
<1>1. F \in Seq(Chars) /\ G = Append(F, c) /\ pc = "read" /\ column \in Nat /\ lineNo \in Nat
  BY BoundsAre DEF TypeOK, Advance
<1>2. G \in Seq(Chars) /\ Longer(F, G, c, n)
  BY <1>1, LongerIs
<1>3. /\ n \in Nat /\ Len(G) = n + 1 /\ DOMAIN F = 1 .. n /\ DOMAIN G = 1 .. n + 1 /\ G[n + 1] = c
      /\ \A i \in 1 .. n : G[i] = F[i]
  BY <1>2 DEF Longer
<1>4. LinesFit(F) /\ ~LineFull(F)
  BY <1>2, LinesFitBefore
<1>5. NewLineAfterSemicolon(F) /\ (AfterStop(F) /\ ~Commented(F) => c # "x")
  BY <1>2, NewLineBefore
<1>6. ReadSoFar
  BY <1>1, <1>4, <1>5 DEF ReadInv
<1>7. /\ column <= n /\ NewlinesIn(F, n - column + 1, n) = {}
      /\ column = n \/ F[n - column] = Newline
  BY <1>4, <1>6 DEF ReadSoFar, ChunkIsLine
<1>8. Commented(F) => dropping
  BY <1>4, <1>6 DEF ReadSoFar, DroppedIsNoText
<1>9. NewlinesIn(G, n - column + 1, n + 1) = {} <=> c # Newline
  <2>1. PICK a \in Int : a = n - column + 1 /\ a <= n + 1
    <3>1. n - column + 1 \in Int /\ n - column + 1 <= n + 1
      BY <1>1, <1>3
    <3>2. QED
      BY <3>1
  <2>2. NewlinesIn(G, a, n + 1) = {} <=> c # Newline /\ NewlinesIn(F, a, n) = {}
    BY <2>1, <1>2, NewlinesNext
  <2>3. QED
    BY <2>1, <2>2, <1>7
<1>10. ASSUME c # Newline, column + 1 = MaxLineLen - 1 PROVE LineFull(G)
  <2>1. n + 1 >= MaxLineLen - 1 /\ (n + 1) - MaxLineLen + 2 = n - column + 1
    BY <1>1, <1>3, <1>7, <1>10, BoundsAre
  <2>2. NewlinesIn(G, (n + 1) - MaxLineLen + 2, n + 1) = {}
    BY <2>1, <1>9, <1>10
  <2>3. QED
    BY <2>1, <2>2, <1>3 DEF LineFull
<1>11. ChunkEnds(c) => c = Newline \/ LineFull(G)
  BY <1>10 DEF ChunkEnds
<1>12. column' = IF ChunkEnds(c) THEN 0 ELSE column + 1
  BY DEF Advance
<1>13. PICK col, m : col = column' /\ m = n + 1 /\ m = Len(G)
  BY <1>3
<1>14. \/ /\ col <= m /\ NewlinesIn(G, m - col + 1, m) = {}
          /\ col = m \/ G[m - col] = Newline
       \/ col = 0 /\ LineFull(G)
  <2>1. CASE c = Newline
    <3>1. col = 0 /\ m \in Nat /\ m - col = m /\ col <= m
      BY <2>1, <1>3, <1>12, <1>13 DEF ChunkEnds
    <3>2. NewlinesIn(G, m - col + 1, m) = {}
      BY <3>1 DEF NewlinesIn
    <3>3. G[m - col] = Newline
      BY <2>1, <3>1, <1>3, <1>13
    <3>4. QED
      BY <3>1, <3>2, <3>3
  <2>2. CASE c # Newline /\ ChunkEnds(c)
    BY <2>2, <1>11, <1>12, <1>13
  <2>3. CASE c # Newline /\ ~ChunkEnds(c)
    <3>1. col = column + 1 /\ m - col = n - column /\ m - col + 1 = n - column + 1 /\ col <= m
      BY <2>3, <1>1, <1>3, <1>7, <1>12, <1>13
    <3>2. NewlinesIn(G, m - col + 1, m) = {}
      BY <2>3, <3>1, <1>9, <1>13
    <3>3. col = m \/ G[m - col] = Newline
      <4>1. CASE column = n
        BY <3>1, <4>1, <1>13
      <4>2. CASE column # n
        <5>1. n - column \in 1 .. n
          BY <4>2, <1>1, <1>3, <1>7
        <5>2. G[n - column] = Newline
          BY <4>2, <5>1, <1>3, <1>7
        <5>3. QED
          BY <3>1, <5>2
      <4>3. QED
        BY <4>1, <4>2
    <3>4. QED
      BY <3>1, <3>2, <3>3
  <2>4. QED
    BY <2>1, <2>2, <2>3
<1>15. ChunkIsLine'
  BY <1>13, <1>14 DEF ChunkIsLine
<1>16. lineNo' = LineOf(G, n + 1)
  <2>1. lineNo' = IF column = 0 THEN lineNo + 1 ELSE lineNo
    BY DEF Advance
  <2>2. lineNo = IF F = <<>> THEN 0 ELSE LineOf(F, n)
    BY <1>6 DEF ReadSoFar
  <2>3. F = <<>> <=> n = 0
    BY <1>1
  <2>4. LineOf(G, n + 1) = IF n = 0 THEN 1
                           ELSE IF F[n] = Newline THEN LineOf(F, n) + 1 ELSE LineOf(F, n)
    BY <1>2, LineOfNext
  <2>5. CASE column = 0
    <3>1. n = 0 \/ F[n] = Newline
      BY <2>5, <1>3, <1>7
    <3>2. QED
      BY <2>1, <2>2, <2>3, <2>4, <2>5, <3>1
  <2>6. CASE column # 0
    <3>1. n \in n - column + 1 .. n /\ n \in 1 .. n /\ n # 0
      BY <2>6, <1>1, <1>3, <1>7
    <3>2. F[n] # Newline
      BY <3>1, <1>3, <1>7 DEF NewlinesIn
    <3>3. QED
      BY <2>1, <2>2, <2>3, <2>4, <2>6, <3>1, <3>2
  <2>7. QED
    BY <2>5, <2>6
<1>17. G # <<>>
  BY <1>2, <1>3
<1>18. QED
  BY <1>1, <1>2, <1>3, <1>5, <1>6, <1>8, <1>11, <1>15, <1>16, <1>17

\* What is in the invariant behind a step that reads on.
LEMMA ReadOn ==
  ASSUME NEW G, G = file', NEW n, G # <<>>, Len(G) = n + 1,
         ChunkIsLine', lineNo' = LineOf(G, n + 1),
         delivered' = Completed(G), statement' = Current(G),
         wasLastCharSpace' <=> statement' = <<>> \/ Last(statement') = Space,
         dropping' => Commented(G) \/ AfterStop(G),
         Commented(G) => dropping' \/ LineFull(G),
         AfterStop(G) => statement' = <<>>
  PROVE  ReadSoFar'
<1>1. DroppedIsNoText'
  BY DEF DroppedIsNoText
<1>2. QED
  BY <1>1 DEF ReadSoFar

\* A statement that does not fit is the last, and too long.
LEMMA TooLong ==
  ASSUME TypeOK, NEW G \in Seq(Chars), NEW c \in Stored,
         Current(G) = Append(statement, c), ~(Len(statement) < MaxStatementLen)
  PROVE  Len(Last(Statements(G)).text) > MaxStatementLen
<1>1. statement \in Seq(Stored) /\ Len(statement) \in Nat /\ MaxStatementLen \in Nat
  BY BoundsAre DEF TypeOK, Stored
<1>2. PICK text : text = Append(statement, c)
  OBVIOUS
<1>3. text # <<>> /\ Len(text) = Len(statement) + 1
  BY <1>1, <1>2
<1>4. PICK p, done : p = Piece(G, Len(G) + 1) /\ done = Completed(G)
  OBVIOUS
<1>5. Statements(G) = Append(done, p) /\ done \in Seq(Pieces)
  BY <1>2, <1>3, <1>4, StatementsAre
<1>6. p.text = text
  BY <1>2, <1>4 DEF Current
<1>7. Last(Append(done, p)) = p
  BY <1>5 DEF Last
<1>8. QED
  BY <1>1, <1>3, <1>5, <1>6, <1>7

\* The invariant behind a step that reads a character: what is left of ReadInv
\* when it reads on or leaves the buffer.
ReadOrOverrun ==
  /\ pc = "read" => ReadSoFar
  /\ pc = "overrun" => Len(Last(Statements(file)).text) > MaxStatementLen
  /\ pc # "end"

\* A character of the rest of a chunk is no text.
LEMMA DropReads ==
  ASSUME TypeOK, ReadInv, NEW c \in Chars, Drop(c), LinesFit(file'), NewLineAfterSemicolon(file')
  PROVE  ReadOrOverrun'
<1>1. PICK F, G, n : F = file /\ G = file' /\ n = Len(F)
  OBVIOUS
<1>2. Advance(c) /\ dropping /\ dropping' = ~ChunkEnds(c)
      /\ UNCHANGED <<pc, wasLastCharSpace, statement, delivered>>
  BY DEF Drop, DropRest
<1>3. /\ ReadSoFar /\ pc = "read"
      /\ Longer(F, G, c, n) /\ F \in Seq(Chars) /\ G \in Seq(Chars) /\ G # <<>> /\ Len(G) = n + 1
      /\ ChunkIsLine' /\ lineNo' = LineOf(G, n + 1)
      /\ ChunkEnds(c) => c = Newline \/ LineFull(G)
      /\ Commented(F) => dropping
      /\ AfterStop(F) /\ ~Commented(F) => c # "x"
  BY <1>1, <1>2, Reading
<1>4. /\ delivered = Completed(F) /\ statement = Current(F)
      /\ wasLastCharSpace <=> statement = <<>> \/ Last(statement) = Space
      /\ Commented(F) \/ AfterStop(F)
      /\ AfterStop(F) => statement = <<>>
  BY <1>1, <1>2, <1>3 DEF ReadSoFar, DroppedIsNoText
<1>5. Commented(G) <=> c # Newline /\ (Commented(F) \/ c = "!")
  BY <1>3, CommentedNext
<1>6. AfterStop(G) <=> c # Newline /\ (AfterStop(F) \/ (c = Semicolon /\ ~Commented(F)))
  BY <1>3, AfterStopNext
<1>7. Current(G) = statement
  <2>1. Current(G) = IF c = Semicolon /\ ~Commented(F) THEN <<>>
                     ELSE IF Commented(F) THEN Current(F) ELSE Squeezed(Current(F), c)
    BY <1>3, CurrentNext
  <2>2. CASE Commented(F)
    BY <2>1, <2>2, <1>4
  <2>3. CASE ~Commented(F)
    <3>1. Current(F) = <<>> /\ statement = <<>> /\ c # "x"
      BY <2>3, <1>3, <1>4
    <3>2. Squeezed(Current(F), c) = <<>>
      BY <3>1 DEF Squeezed
    <3>3. QED
      BY <2>1, <2>3, <3>1, <3>2
  <2>4. QED
    BY <2>2, <2>3
<1>8. Completed(G) = delivered
  <2>1. Completed(G) = IF c = Semicolon /\ ~Commented(F) /\ Current(F) # <<>>
                       THEN Append(Completed(F), [text |-> Current(F), line |-> LineOf(G, n + 1)])
                       ELSE Completed(F)
    BY <1>3, CompletedNext
  <2>2. Commented(F) \/ Current(F) = <<>>
    BY <1>4
  <2>3. QED
    BY <2>1, <2>2, <1>4
<1>9. dropping' => Commented(G) \/ AfterStop(G)
  BY <1>2, <1>4, <1>5, <1>6 DEF ChunkEnds
<1>10. Commented(G) => dropping' \/ LineFull(G)
  BY <1>2, <1>3, <1>5
<1>11. AfterStop(G) => statement' = <<>>
  BY <1>2, <1>4, <1>6
<1>12. ReadSoFar'
  <2>1. /\ delivered' = Completed(G) /\ statement' = Current(G)
        /\ wasLastCharSpace' <=> statement' = <<>> \/ Last(statement') = Space
    BY <1>2, <1>4, <1>7, <1>8
  <2>2. QED
    BY <2>1, <1>1, <1>3, <1>9, <1>10, <1>11, ReadOn
<1>13. QED
  BY <1>2, <1>3, <1>12 DEF ReadOrOverrun

\* A character that is looked at is shown.
LEMMA LookReads ==
  ASSUME TypeOK, ReadInv, NEW c \in Chars, Advance(c), ~dropping,
         LinesFit(file'), NewLineAfterSemicolon(file'),
         NEW F, F = file, NEW G, G = file', NEW n, n = Len(F)
  PROVE  /\ G \in Seq(Chars) /\ G # <<>> /\ Len(G) = n + 1
         /\ delivered = Completed(F) /\ statement = Current(F)
         /\ wasLastCharSpace <=> statement = <<>> \/ Last(statement) = Space
         /\ pc = "read" /\ ChunkIsLine' /\ lineNo' = LineOf(G, n + 1)
         /\ ChunkEnds(c) => c = Newline \/ LineFull(G)
         /\ Commented(G) <=> c = "!"
         /\ AfterStop(G) <=> c # Newline /\ (AfterStop(F) \/ c = Semicolon)
         /\ AfterStop(F) => statement = <<>> /\ c # "x"
         /\ Current(G) = IF c = Semicolon THEN <<>> ELSE Squeezed(statement, c)
         /\ Completed(G) = IF c = Semicolon /\ statement # <<>>
                           THEN Append(delivered, [text |-> statement, line |-> lineNo'])
                           ELSE delivered
<1>1. /\ ReadSoFar /\ pc = "read"
      /\ Longer(F, G, c, n) /\ F \in Seq(Chars) /\ G \in Seq(Chars) /\ G # <<>> /\ Len(G) = n + 1
      /\ ChunkIsLine' /\ lineNo' = LineOf(G, n + 1)
      /\ ChunkEnds(c) => c = Newline \/ LineFull(G)
      /\ Commented(F) => dropping
      /\ AfterStop(F) /\ ~Commented(F) => c # "x"
  BY Reading
<1>2. ~Commented(F) /\ (AfterStop(F) => c # "x")
  BY <1>1
<1>3. /\ delivered = Completed(F) /\ statement = Current(F)
      /\ wasLastCharSpace <=> statement = <<>> \/ Last(statement) = Space
      /\ AfterStop(F) => statement = <<>>
  BY <1>1 DEF ReadSoFar, DroppedIsNoText
<1>4. Commented(G) <=> c = "!"
  <2>1. Commented(G) <=> c # Newline /\ (Commented(F) \/ c = "!")
    BY <1>1, CommentedNext
  <2>2. QED
    BY <2>1, <1>2 DEF Newline
<1>5. AfterStop(G) <=> c # Newline /\ (AfterStop(F) \/ c = Semicolon)
  BY <1>1, <1>2, AfterStopNext
<1>6. Current(G) = IF c = Semicolon THEN <<>> ELSE Squeezed(statement, c)
  <2>1. Current(G) = IF c = Semicolon /\ ~Commented(F) THEN <<>>
                     ELSE IF Commented(F) THEN Current(F) ELSE Squeezed(Current(F), c)
    BY <1>1, CurrentNext
  <2>2. QED
    BY <2>1, <1>2, <1>3
<1>7. Completed(G) = IF c = Semicolon /\ statement # <<>>
                     THEN Append(delivered, [text |-> statement, line |-> lineNo'])
                     ELSE delivered
  <2>1. Completed(G) = IF c = Semicolon /\ ~Commented(F) /\ Current(F) # <<>>
                       THEN Append(Completed(F), [text |-> Current(F), line |-> LineOf(G, n + 1)])
                       ELSE Completed(F)
    BY <1>1, CompletedNext
  <2>2. QED
    BY <2>1, <1>1, <1>2, <1>3
<1>8. QED
  BY <1>1, <1>2, <1>3, <1>4, <1>5, <1>6, <1>7

\* Text, spaces and comments go on with the statement or leave the buffer.
LEMMA StoreReads ==
  ASSUME TypeOK, ReadInv, NEW c \in Chars, ReadText(c) \/ ReadSpace(c) \/ ReadComment(c),
         LinesFit(file'), NewLineAfterSemicolon(file')
  PROVE  ReadOrOverrun'
<1>1. PICK F, G, n : F = file /\ G = file' /\ n = Len(F)
  OBVIOUS
<1>2. Advance(c) /\ ~dropping /\ UNCHANGED delivered /\ c # Semicolon
  BY DEF ReadText, ReadSpace, ReadComment, Space, Newline, Semicolon
<1>3. /\ G \in Seq(Chars) /\ G # <<>> /\ Len(G) = n + 1
      /\ delivered = Completed(F) /\ statement = Current(F)
      /\ wasLastCharSpace <=> statement = <<>> \/ Last(statement) = Space
      /\ pc = "read" /\ ChunkIsLine' /\ lineNo' = LineOf(G, n + 1)
      /\ ChunkEnds(c) => c = Newline \/ LineFull(G)
      /\ Commented(G) <=> c = "!"
      /\ AfterStop(G) <=> c # Newline /\ (AfterStop(F) \/ c = Semicolon)
      /\ AfterStop(F) => statement = <<>> /\ c # "x"
      /\ Current(G) = IF c = Semicolon THEN <<>> ELSE Squeezed(statement, c)
      /\ Completed(G) = IF c = Semicolon /\ statement # <<>>
                        THEN Append(delivered, [text |-> statement, line |-> lineNo'])
                        ELSE delivered
  BY <1>1, <1>2, LookReads
<1>4. statement \in Seq(Stored)
  BY DEF TypeOK, Stored
<1>5. Completed(G) = delivered /\ Current(G) = Squeezed(statement, c)
  BY <1>2, <1>3
<1>6. wasLastCharSpace' <=> c # "x"
  BY DEF ReadText, ReadSpace, ReadComment, Space, Newline
<1>7. /\ dropping' => Commented(G) \/ AfterStop(G)
      /\ Commented(G) => dropping' \/ LineFull(G)
  <2>1. CASE c = "!"
    <3>1. dropping' = ~ChunkEnds(c)
      BY <2>1 DEF ReadText, ReadSpace, ReadComment, DropRest, Space, Newline
    <3>2. c # Newline
      BY <2>1 DEF Newline
    <3>3. QED
      BY <2>1, <3>1, <3>2, <1>3
  <2>2. CASE c # "!"
    <3>1. dropping' = dropping
      BY <2>2 DEF ReadText, ReadSpace, ReadComment
    <3>2. QED
      BY <2>2, <3>1, <1>2, <1>3
  <2>3. QED
    BY <2>1, <2>2
<1>8. ASSUME pc' = "read", statement' = Current(G),
             wasLastCharSpace' <=> statement' = <<>> \/ Last(statement') = Space,
             AfterStop(G) => statement' = <<>>
      PROVE  ReadOrOverrun'
  <2>1. ReadSoFar'
    BY <1>1, <1>2, <1>3, <1>5, <1>7, <1>8, ReadOn
  <2>2. QED
    BY <2>1, <1>8 DEF ReadOrOverrun
<1>9. ASSUME NEW s \in Stored, Store(s), Current(G) = Append(statement, s), s = Space <=> c # "x",
             ~AfterStop(F)
      PROVE  ReadOrOverrun'
  <2>1. CASE Len(statement) < MaxStatementLen
    <3>1. statement' = Append(statement, s) /\ pc' = "read"
      BY <2>1, <1>3, <1>9 DEF Store
    <3>2. statement' # <<>> /\ Last(statement') = s
      BY <3>1, <1>4 DEF Last
    <3>3. ~AfterStop(G)
      BY <1>2, <1>3, <1>9
    <3>4. statement' = Current(G)
      BY <3>1, <1>9
    <3>5. wasLastCharSpace' <=> statement' = <<>> \/ Last(statement') = Space
      BY <3>2, <1>6, <1>9
    <3>6. QED
      BY <3>1, <3>3, <3>4, <3>5, <1>8
  <2>2. CASE ~(Len(statement) < MaxStatementLen)
    <3>1. pc' = "overrun"
      BY <2>2, <1>9 DEF Store
    <3>2. Len(Last(Statements(G)).text) > MaxStatementLen
      BY <2>2, <1>3, <1>9, TooLong
    <3>3. QED
      BY <3>1, <3>2, <1>1 DEF ReadOrOverrun
  <2>3. QED
    BY <2>1, <2>2
<1>10. CASE c = "x"
  <2>1. Store(c) /\ c \in Stored
    BY <1>10 DEF ReadText, ReadSpace, ReadComment, Space, Newline, Stored
  <2>2. Current(G) = Append(statement, c)
    BY <1>5, <1>10 DEF Squeezed
  <2>3. ~AfterStop(F)
    BY <1>3, <1>10
  <2>4. c # Space
    BY <1>10 DEF Space
  <2>5. QED
    BY <2>1, <2>2, <2>3, <2>4, <1>9, <1>10
<1>11. CASE c # "x" /\ wasLastCharSpace
  <2>1. UNCHANGED <<pc, statement>> /\ wasLastCharSpace'
    BY <1>6, <1>11 DEF ReadText, ReadSpace, ReadComment
  <2>2. statement = <<>> \/ Last(statement) = Space
    BY <1>3, <1>11
  <2>3. Current(G) = statement
    BY <2>2, <1>5, <1>11 DEF Squeezed
  <2>4. AfterStop(G) => statement' = <<>>
    BY <2>1, <1>2, <1>3
  <2>5. pc' = "read" /\ statement' = Current(G)
        /\ (wasLastCharSpace' <=> statement' = <<>> \/ Last(statement') = Space)
    BY <2>1, <2>2, <2>3, <1>3
  <2>6. QED
    BY <2>4, <2>5, <1>8
<1>12. CASE c # "x" /\ ~wasLastCharSpace
  <2>1. Store(Space) /\ Space \in Stored
    BY <1>12 DEF ReadText, ReadSpace, ReadComment, Stored
  <2>2. statement # <<>> /\ Last(statement) # Space
    BY <1>3, <1>12
  <2>3. Current(G) = Append(statement, Space)
    BY <2>2, <1>5, <1>12 DEF Squeezed
  <2>4. ~AfterStop(F)
    BY <2>2, <1>3
  <2>5. QED
    BY <2>1, <2>3, <2>4, <1>9, <1>12
<1>13. QED
  BY <1>10, <1>11, <1>12

\* A semicolon ends the statement.
LEMMA SemicolonReads ==
  ASSUME TypeOK, ReadInv, NEW c \in Chars, SkipEmpty(c) \/ EndStatement(c),
         LinesFit(file'), NewLineAfterSemicolon(file')
  PROVE  ReadOrOverrun'
<1>1. PICK F, G, n : F = file /\ G = file' /\ n = Len(F)
  OBVIOUS
<1>2. Advance(c) /\ ~dropping /\ UNCHANGED pc /\ c = Semicolon /\ c # Newline /\ c # "!"
  BY DEF SkipEmpty, EndStatement, Newline, Semicolon
<1>3. /\ G # <<>> /\ Len(G) = n + 1
      /\ delivered = Completed(F) /\ statement = Current(F)
      /\ wasLastCharSpace <=> statement = <<>> \/ Last(statement) = Space
      /\ pc = "read" /\ ChunkIsLine' /\ lineNo' = LineOf(G, n + 1)
      /\ Commented(G) <=> c = "!"
      /\ AfterStop(G) <=> c # Newline /\ (AfterStop(F) \/ c = Semicolon)
      /\ Current(G) = IF c = Semicolon THEN <<>> ELSE Squeezed(statement, c)
      /\ Completed(G) = IF c = Semicolon /\ statement # <<>>
                        THEN Append(delivered, [text |-> statement, line |-> lineNo'])
                        ELSE delivered
  BY <1>1, <1>2, LookReads
<1>4. statement' = <<>> /\ wasLastCharSpace' = TRUE
  <2>1. CASE SkipEmpty(c)
    <3>1. statement = <<>> /\ UNCHANGED <<statement, wasLastCharSpace>>
      BY <2>1 DEF SkipEmpty
    <3>2. wasLastCharSpace = TRUE
      BY <3>1, <1>3 DEF TypeOK
    <3>3. QED
      BY <3>1, <3>2
  <2>2. CASE EndStatement(c)
    BY <2>2 DEF EndStatement, NextCall
  <2>3. QED
    BY <2>1, <2>2
<1>5. delivered' = Completed(G) /\ statement' = Current(G)
  BY <1>2, <1>3, <1>4 DEF SkipEmpty, EndStatement
<1>6. ~Commented(G) /\ AfterStop(G)
  BY <1>2, <1>3
<1>7. ReadSoFar'
  <2>1. wasLastCharSpace' <=> statement' = <<>> \/ Last(statement') = Space
    BY <1>4
  <2>2. QED
    BY <2>1, <1>1, <1>3, <1>4, <1>5, <1>6, ReadOn
<1>8. QED
  BY <1>2, <1>3, <1>7 DEF ReadOrOverrun

\* At the end of the file what is left is a statement.
LEMMA EndReads ==
  ASSUME TypeOK, ReadInv, EndOfFile, LinesFit(file), NewLineAfterSemicolon(file)
  PROVE  delivered' = Statements(file)
<1>1. PICK F, n : F = file /\ n = Len(F)
  OBVIOUS
<1>2. pc = "read" /\ ReadSoFar
  BY DEF EndOfFile, ReadInv
<1>3. F \in Seq(Chars) /\ delivered = Completed(F) /\ statement = Current(F)
      /\ lineNo = IF F = <<>> THEN 0 ELSE LineOf(F, n)
  BY <1>1, <1>2 DEF ReadSoFar, TypeOK
<1>4. delivered' = IF statement = <<>> THEN delivered
                   ELSE Append(delivered, [text |-> statement, line |-> lineNo])
  BY DEF EndOfFile
<1>5. statement # <<>> => F # <<>>
  BY <1>3, EmptyScript
<1>6. /\ Statements(F) = IF Current(F) = <<>> THEN Completed(F)
                         ELSE Append(Completed(F), Piece(F, n + 1))
      /\ Piece(F, n + 1) = [text |-> Current(F), line |-> LineOf(F, n)]
  BY <1>1, <1>3, StatementsAre
<1>7. QED
  BY <1>1, <1>3, <1>4, <1>5, <1>6

\* ReadInv is inductive, given the types.
LEMMA NextRead == TypeOK /\ ReadInv /\ [Next]_vars => ReadInv'
<1> SUFFICES ASSUME TypeOK, ReadInv, [Next]_vars, LinesFit(file'), NewLineAfterSemicolon(file')
             PROVE  /\ pc' = "read" => ReadSoFar'
                    /\ pc' = "end" => delivered' = Statements(file')
                    /\ pc' = "overrun" => Len(Last(Statements(file')).text) > MaxStatementLen
  BY DEF ReadInv
<1>1. ASSUME ReadOrOverrun'
      PROVE  /\ pc' = "read" => ReadSoFar'
             /\ pc' = "end" => delivered' = Statements(file')
             /\ pc' = "overrun" => Len(Last(Statements(file')).text) > MaxStatementLen
  BY <1>1 DEF ReadOrOverrun
<1>2. ASSUME NEW c \in Chars, Drop(c) PROVE ReadOrOverrun'
  BY <1>2, DropReads
<1>3. ASSUME NEW c \in Chars, ReadText(c) \/ ReadSpace(c) \/ ReadComment(c) PROVE ReadOrOverrun'
  BY <1>3, StoreReads
<1>4. ASSUME NEW c \in Chars, SkipEmpty(c) \/ EndStatement(c) PROVE ReadOrOverrun'
  BY <1>4, SemicolonReads
<1>5. CASE EndOfFile
  <2>1. file' = file /\ pc' = "end"
    BY <1>5 DEF EndOfFile
  <2>2. delivered' = Statements(file')
    BY <2>1, <1>5, EndReads
  <2>3. QED
    BY <2>1, <2>2
<1>6. CASE UNCHANGED vars
  <2>1. /\ file' = file /\ pc' = pc /\ delivered' = delivered /\ column' = column
        /\ dropping' = dropping /\ wasLastCharSpace' = wasLastCharSpace
        /\ statement' = statement /\ lineNo' = lineNo
    BY <1>6 DEF vars
  <2>2. ReadSoFar => ReadSoFar'
    BY <2>1 DEF ReadSoFar, ChunkIsLine, DroppedIsNoText
  <2>3. QED
    BY <2>1, <2>2 DEF ReadInv
<1>7. QED
  BY <1>1, <1>2, <1>3, <1>4, <1>5, <1>6 DEF Next

\* A file whose lines fit the buffer and whose statements begin on new lines is
\* read as README.md says, whatever its length and the sizes of the buffers:
\* ScriptReadStatement returns every statement whole and in order, without its
\* comments, and leaves the statement buffer only for one that is too long.
THEOREM FilesAreReadAsDocumented == Spec => []ReadsAsDocumented
<1>1. ReadInv => ReadsAsDocumented
  BY DEF ReadInv, ReadsAsDocumented
<1>2. QED
  BY <1>1, InitRead, NextRead, InitType, NextType, PTL DEF Spec
=============================================================================
