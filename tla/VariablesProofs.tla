-------------------------- MODULE VariablesProofs --------------------------
(***************************************************************************)
(* What holds of the table of variables and of the substitution for every  *)
(* set of statements and every size of the buffers and of the table.       *)
(***************************************************************************)
EXTENDS Variables, SequenceTheorems, FunctionTheorems, FiniteSetTheorems, WellFoundedInduction,
        TLAPS

-----------------------------------------------------------------------------
(* Smallest and largest elements.                                          *)

\* A set of numbers has a smallest element.
LEMMA MinOf ==
  ASSUME NEW S \in SUBSET Nat, S # {}
  PROVE  Min(S) \in S /\ \A y \in S : Min(S) <= y
<1>1. \E x \in S : \A y \in S : ~(<<y, x>> \in OpToRel(<, Nat))
  BY NatLessThanWellFounded, WFMin
<1>2. \A x \in S, y \in S : <<y, x>> \in OpToRel(<, Nat) <=> y < x
  BY DEF OpToRel
<1>3. PICK x \in S : \A y \in S : ~(y < x)
  BY <1>1, <1>2
<1>4. \A y \in S : x <= y
  BY <1>3
<1>5. QED
  BY <1>4 DEF Min

\* A bounded set of numbers has a largest one.
LEMMA MaxOf ==
  ASSUME NEW n \in Nat, NEW S \in SUBSET (1 .. n), S # {}
  PROVE  Max(S) \in S /\ \A y \in S : Max(S) >= y
<1> DEFINE T == {n - x : x \in S}
<1>1. \A x \in S : x \in Nat /\ n - x \in Nat
  OBVIOUS
<1>2. T \in SUBSET Nat /\ T # {}
  BY <1>1
<1>3. Min(T) \in T /\ \A u \in T : Min(T) <= u
  BY ONLY <1>2, MinOf
<1>4. PICK x \in S : Min(T) = n - x
  BY <1>3
<1>5. ASSUME NEW y \in S PROVE x >= y
  <2>1. n - y \in T
    OBVIOUS
  <2>2. n - x <= n - y
    BY <2>1, <1>3, <1>4
  <2>3. QED
    BY <2>2, <1>1
<1>6. QED
  BY <1>5 DEF Max

-----------------------------------------------------------------------------
(* Strings in the buffer.                                                  *)

\* Contents of testScriptStatement: its last byte is never written.
Buffers == {b \in [Positions -> Cells \cup {NUL}] : b[MaxLen + 1] = NUL}

\* The sizes are numbers and the characters differ from NUL.
LEMMA BoundsAre ==
  /\ MaxLen \in Nat /\ MaxReads \in Nat /\ MaxVarCount \in Nat /\ MaxVarCount > 0
  /\ NUL \notin Cells /\ Space \in Cells
  /\ \A s \in Statements : s \in Text /\ Len(s) \in 1 .. MaxLen
  BY VariablesAssumption DEF Cells

\* End is the first NUL from a position on.
LEMMA EndOf ==
  ASSUME NEW b \in Buffers, NEW i \in Positions
  PROVE  /\ End(b, i) \in i .. MaxLen + 1
         /\ b[End(b, i)] = NUL
         /\ \A j \in i .. MaxLen + 1 : j < End(b, i) => b[j] \in Cells
         /\ \A j \in i .. MaxLen + 1 : b[j] = NUL => End(b, i) <= j
<1> DEFINE S == {j \in i .. MaxLen + 1 : b[j] = NUL}
<1>1. i \in Nat /\ i <= MaxLen + 1 /\ i >= 1
  BY BoundsAre DEF Positions
<1>2. S \in SUBSET Nat /\ MaxLen + 1 \in S
  BY <1>1, BoundsAre DEF Buffers
<1>3. Min(S) \in S /\ \A y \in S : Min(S) <= y
  BY <1>2, MinOf
<1>4. End(b, i) = Min(S)
  BY DEF End
<1>5. ASSUME NEW j \in i .. MaxLen + 1, j < End(b, i) PROVE b[j] \in Cells
  <2>1. j \in Positions /\ Min(S) \in Nat /\ j \in Nat
    BY <1>1, <1>2, <1>3 DEF Positions
  <2>2. j \notin S
    BY <1>3, <1>4, <1>5, <2>1
  <2>3. QED
    BY <2>1, <2>2 DEF Buffers
<1>6. QED
  BY <1>3, <1>4, <1>5

\* The string at a position is the text up to its NUL.
LEMMA StringOf ==
  ASSUME NEW b \in Buffers, NEW i \in Positions
  PROVE  /\ String(b, i) \in Text
         /\ Len(String(b, i)) = End(b, i) - i
         /\ \A k \in 1 .. Len(String(b, i)) : String(b, i)[k] = b[i + k - 1]
<1>1. End(b, i) \in i .. MaxLen + 1 /\ i \in Nat
  BY EndOf, BoundsAre DEF Positions
<1>2. \A j \in i .. End(b, i) - 1 : b[j] \in Cells
  BY <1>1, EndOf, BoundsAre
<1>3. /\ SubSeq(b, i, End(b, i) - 1) \in Seq(Cells)
      /\ Len(SubSeq(b, i, End(b, i) - 1))
           = IF i <= End(b, i) - 1 THEN End(b, i) - 1 - i + 1 ELSE 0
      /\ \A k \in 1 .. End(b, i) - 1 - i + 1 : SubSeq(b, i, End(b, i) - 1)[k] = b[i + k - 1]
  <2> DEFINE e == End(b, i) - 1
  <2>1. e \in Int /\ i \in Int
    BY <1>1, BoundsAre
  <2>2. \A j \in i .. e : b[j] \in Cells
    BY <1>2
  <2> HIDE DEF e
  <2>3. /\ SubSeq(b, i, e) \in Seq(Cells)
        /\ Len(SubSeq(b, i, e)) = IF i <= e THEN e - i + 1 ELSE 0
        /\ \A k \in 1 .. e - i + 1 : SubSeq(b, i, e)[k] = b[i + k - 1]
    BY <2>1, <2>2, SubSeqProperties
  <2>4. QED
    BY <2>3 DEF e
<1>4. Len(String(b, i)) = End(b, i) - i
  BY <1>1, <1>3, BoundsAre DEF String
<1>5. \A k \in 1 .. Len(String(b, i)) : String(b, i)[k] = b[i + k - 1]
  BY <1>1, <1>3, <1>4, BoundsAre DEF String
<1>6. QED
  BY <1>3, <1>4, <1>5 DEF String, Text

\* A part of a text is a text of its characters.
LEMMA PartOf ==
  ASSUME NEW t \in Text, NEW m \in Nat, NEW n \in Nat, 1 <= m, n <= Len(t)
  PROVE  /\ SubSeq(t, m, n) \in Text
         /\ Len(SubSeq(t, m, n)) = IF m <= n THEN n - m + 1 ELSE 0
         /\ \A k \in DOMAIN SubSeq(t, m, n) :
              k + m - 1 \in DOMAIN t /\ SubSeq(t, m, n)[k] = t[k + m - 1]
<1>1. \A i \in m .. n : t[i] \in Cells
  BY DEF Text
<1>2. /\ SubSeq(t, m, n) \in Seq(Cells)
      /\ Len(SubSeq(t, m, n)) = IF m <= n THEN n - m + 1 ELSE 0
      /\ \A k \in 1 .. n - m + 1 : SubSeq(t, m, n)[k] = t[m + k - 1]
  BY <1>1, SubSeqProperties
<1>3. ASSUME NEW k \in DOMAIN SubSeq(t, m, n)
      PROVE  k + m - 1 \in DOMAIN t /\ SubSeq(t, m, n)[k] = t[k + m - 1]
  <2>1. k \in 1 .. Len(SubSeq(t, m, n))
    BY <1>2
  <2>2. k \in 1 .. n - m + 1 /\ k + m - 1 = m + k - 1 /\ k + m - 1 \in 1 .. Len(t)
    BY <2>1, <1>2 DEF Text
  <2>3. QED
    BY <2>2, <1>2 DEF Text
<1>4. QED
  BY <1>2, <1>3 DEF Text

\* TrimStr returns a text of characters it was given.
LEMMA TrimmedOf ==
  ASSUME NEW t \in Text
  PROVE  /\ Trimmed(t) \in Text
         /\ \A k \in DOMAIN Trimmed(t) : \E i \in DOMAIN t : Trimmed(t)[k] = t[i]
<1> DEFINE solid == {i \in DOMAIN t : t[i] # Space}
<1>1. CASE solid = {}
  <2>1. Trimmed(t) = <<>>
    BY <1>1 DEF Trimmed
  <2>2. QED
    BY <2>1 DEF Text
<1>2. CASE solid # {}
  <2>1. Len(t) \in Nat /\ DOMAIN t = 1 .. Len(t)
    BY DEF Text
  <2>2. solid \in SUBSET (1 .. Len(t)) /\ solid \in SUBSET Nat
    BY <2>1
  <2>3. Min(solid) \in solid /\ Max(solid) \in solid
    BY <1>2, <2>1, <2>2, MinOf, MaxOf
  <2>4. Trimmed(t) = SubSeq(t, Min(solid), Max(solid))
    BY <1>2 DEF Trimmed
  <2>5. Min(solid) \in Nat /\ Max(solid) \in Nat /\ 1 <= Min(solid) /\ Max(solid) <= Len(t)
    BY <2>2, <2>3
  <2> HIDE DEF solid
  <2>6. QED
    BY <2>4, <2>5, PartOf
<1>3. QED
  BY <1>1, <1>2

\* strcpy of a text that fits leaves the buffer with that text.
LEMMA OverwriteOf ==
  ASSUME NEW b \in Buffers, NEW t \in Text, Fits(t)
  PROVE  /\ Overwrite(b, t) \in Buffers
         /\ \A i \in 1 .. Len(t) : Overwrite(b, t)[i] = t[i]
         /\ Overwrite(b, t)[Len(t) + 1] = NUL
<1>1. Len(t) \in Nat /\ Len(t) <= MaxLen /\ \A i \in 1 .. Len(t) : t[i] \in Cells
  BY DEF Fits, Text
<1>2. Overwrite(b, t) \in [Positions -> Cells \cup {NUL}]
  BY <1>1 DEF Overwrite, Buffers, Positions
<1>3. Overwrite(b, t)[MaxLen + 1] = NUL
  BY <1>1, BoundsAre DEF Overwrite, Buffers, Positions
<1>4. QED
  BY <1>1, <1>2, <1>3, BoundsAre DEF Overwrite, Buffers, Positions

-----------------------------------------------------------------------------
(* Type correctness.                                                       *)

\* A call of ScriptSubstituteVariables is behind the command character, which
\* it has copied, and a statement with a command is what is handled.
ScanInv ==
  /\ pc \in {"scan", "handle"} => buf[1] # NUL
  /\ pc = "scan" => inPtr \in 2 .. MaxLen + 1 /\ oline # <<>> /\ Fits(oline)

\* No '$' in a text, and none behind its first character.
Plain(t)     == \A k \in DOMAIN t : t[k] # "$"
PlainRest(t) == \A k \in DOMAIN t : k > 1 => t[k] # "$"

\* No value has a '$' in it.
PlainTable == \A i \in DOMAIN table : Plain(table[i].name) /\ Plain(table[i].value)

\* Texts one after the other.
LEMMA ConcatOf ==
  ASSUME NEW s \in Text, NEW t \in Text
  PROVE  /\ s \o t \in Text
         /\ Len(s \o t) = Len(s) + Len(t)
         /\ \A i \in 1 .. Len(s) : (s \o t)[i] = s[i]
         /\ PlainRest(s) /\ Plain(t) => PlainRest(s \o t)
         /\ s # <<>> => s \o t # <<>>
<1>1. /\ s \o t \in Seq(Cells)
      /\ Len(s \o t) = Len(s) + Len(t)
      /\ \A i \in 1 .. Len(s) + Len(t) : (s \o t)[i] = IF i <= Len(s) THEN s[i] ELSE t[i - Len(s)]
      /\ Len(s) \in Nat /\ Len(t) \in Nat
  BY ConcatProperties DEF Text
<1>2. ASSUME PlainRest(s), Plain(t), NEW k \in DOMAIN (s \o t), k > 1
      PROVE  (s \o t)[k] # "$"
  <2>1. k \in 1 .. Len(s) + Len(t)
    BY <1>1
  <2>2. CASE k <= Len(s)
    BY <2>1, <2>2, <1>1, <1>2 DEF PlainRest, Text
  <2>3. CASE k > Len(s)
    <3>1. k - Len(s) \in DOMAIN t /\ (s \o t)[k] = t[k - Len(s)]
      BY <2>1, <2>3, <1>1 DEF Text
    <3>2. QED
      BY <3>1, <1>2 DEF Plain
  <2>4. QED
    BY <2>1, <2>2, <2>3, <1>1
<1>3. s # <<>> => s \o t # <<>>
  <2>1. s # <<>> => Len(s) > 0
    BY DEF Text
  <2>2. QED
    BY <2>1, <1>1
<1>4. QED
  BY <1>1, <1>2, <1>3 DEF PlainRest, Text

\* Appending texts is associative.
LEMMA Associative ==
  ASSUME NEW a \in Text, NEW b \in Text, NEW c \in Text
  PROVE  (a \o b) \o c = a \o (b \o c)
  BY ConcatAssociative DEF Text

\* The buffer of a well typed state.
LEMMA BufferType == TypeOK => buf \in Buffers
  BY DEF TypeOK, Buffers

\* The value of a variable is in the table.
LEMMA ValueOf ==
  ASSUME TypeOK, NEW name, Defined(name)
  PROVE  /\ Min(Named(name)) \in DOMAIN table
         /\ table[Min(Named(name))].name = name
         /\ VariableGetValue(name) = table[Min(Named(name))].value
         /\ VariableGetValue(name) \in Text
         /\ PlainTable => Plain(VariableGetValue(name))
<1>1. DOMAIN table \in SUBSET Nat /\ \A i \in DOMAIN table : table[i] \in [name : Text, value : Text]
  <2>1. table \in Seq([name : Text, value : Text])
    BY DEF TypeOK
  <2>2. DOMAIN table = 1 .. Len(table) /\ Len(table) \in Nat
    BY <2>1
  <2>3. \A i \in 1 .. Len(table) : table[i] \in [name : Text, value : Text]
    BY <2>1, ElementOfSeq
  <2>4. QED
    BY <2>2, <2>3
<1>2. Named(name) \in SUBSET Nat /\ Named(name) # {}
  BY <1>1 DEF Named, Defined
<1>3. Min(Named(name)) \in Named(name)
  BY <1>2, MinOf
<1>4. Min(Named(name)) \in DOMAIN table /\ table[Min(Named(name))].name = name
  BY <1>3 DEF Named
<1>5. QED
  BY <1>1, <1>4 DEF VariableGetValue, PlainTable

\* The next '$' is in the statement, and no other before it.
LEMMA DollarOf ==
  ASSUME TypeOK, ScanInv, pc = "scan", DollarSigns # {}
  PROVE  /\ Min(DollarSigns) \in inPtr .. MaxLen
         /\ Min(DollarSigns) \in Nat
         /\ \A i \in inPtr .. Min(DollarSigns) - 1 : buf[i] \in Cells \ {"$"}
<1>1. inPtr \in Positions /\ inPtr \in Nat /\ buf \in Buffers
  BY BufferType, BoundsAre DEF ScanInv, Positions
<1>2. /\ End(buf, inPtr) \in inPtr .. MaxLen + 1
      /\ \A j \in inPtr .. MaxLen + 1 : j < End(buf, inPtr) => buf[j] \in Cells
  BY <1>1, EndOf
<1>3. DollarSigns \in SUBSET Nat
  BY <1>1 DEF DollarSigns, DollarsFrom
<1>4. /\ Min(DollarSigns) \in DollarSigns
      /\ \A j \in DollarSigns : Min(DollarSigns) <= j
  BY <1>3, MinOf
<1>5. /\ Min(DollarSigns) \in Nat /\ Min(DollarSigns) >= inPtr
      /\ Min(DollarSigns) < End(buf, inPtr)
  BY <1>3, <1>4 DEF DollarSigns, DollarsFrom
<1>6. ASSUME NEW i \in inPtr .. Min(DollarSigns) - 1 PROVE buf[i] \in Cells \ {"$"}
  <2>1. i \in inPtr .. MaxLen + 1 /\ i < End(buf, inPtr) /\ i < Min(DollarSigns)
    BY <1>1, <1>2, <1>5, BoundsAre
  <2>2. i \notin DollarSigns
    BY <2>1, <1>1, <1>4, <1>5
  <2>3. QED
    BY <2>1, <2>2, <1>2 DEF DollarSigns, DollarsFrom
<1>7. QED
  BY <1>1, <1>2, <1>5, <1>6, BoundsAre

\* What one step of the search does: the statement keeps its command and its
\* end, and either all calls return -1 or the value is appended.
LEMMA NextVariable ==
  ASSUME TypeOK, ScanInv, SubstituteNext
  PROVE  /\ buf' \in Buffers /\ buf'[1] = buf[1]
         /\ \/ SubstituteFails /\ UNCHANGED <<inPtr, oline, count>>
            \/ /\ count' = count + 1
               /\ inPtr' \in Nat /\ inPtr' >= 2 /\ inPtr' > inPtr
               /\ oline' \in Text /\ oline' # <<>>
               /\ \E t \in Text : oline' = oline \o t
               /\ pc' = IF Fits(oline') /\ inPtr' \in Positions THEN "scan" ELSE "overrun"
               /\ PlainTable /\ PlainRest(oline) => PlainRest(oline')
               /\ UNCHANGED <<level, skipping>>
<1> DEFINE dollar == Min(DollarSigns)
           cut    == [buf EXCEPT ![dollar] = NUL]
           string == String(buf, dollar + 1)
           first  == {i \in DOMAIN string : string[i] # Space}
           from   == Min(first)
           ends   == {i \in from .. Len(string) : string[i] = Space}
           name   == SubSeq(string, from, IF ends = {} THEN Len(string) ELSE Min(ends) - 1)
           mid    == SubSeq(buf, inPtr, dollar - 1)
           out    == oline \o mid \o VariableGetValue(name) \o <<Space>>
<1>1. /\ pc = "scan" /\ DollarSigns # {}
      /\ IF first = {}
         THEN buf' = cut /\ SubstituteFails /\ UNCHANGED <<inPtr, oline, count>>
         ELSE /\ buf' = IF ends = {} THEN cut ELSE [cut EXCEPT ![dollar + Min(ends)] = NUL]
              /\ IF ~Defined(name) THEN SubstituteFails /\ UNCHANGED <<inPtr, oline, count>>
                 ELSE /\ count' = count + 1
                      /\ inPtr' = Behind(dollar + 1, name)
                      /\ oline' = out
                      /\ pc' = IF Fits(out) /\ inPtr' \in Positions THEN "scan" ELSE "overrun"
                      /\ UNCHANGED <<level, skipping>>
  BY DEF SubstituteNext, UpToDollar
<1>2. /\ dollar \in inPtr .. MaxLen /\ dollar \in Nat
      /\ \A i \in inPtr .. dollar - 1 : buf[i] \in Cells \ {"$"}
      /\ inPtr \in Nat /\ inPtr >= 2 /\ oline \in Text /\ oline # <<>>
      /\ buf \in Buffers
  <2>1. inPtr \in Nat /\ inPtr >= 2 /\ oline # <<>>
    BY <1>1 DEF ScanInv
  <2>2. oline \in Text
    BY DEF TypeOK
  <2>3. QED
    BY <2>1, <2>2, <1>1, DollarOf, BufferType
<1>3. /\ string \in Text /\ Len(string) = End(buf, dollar + 1) - (dollar + 1)
      /\ End(buf, dollar + 1) \in dollar + 1 .. MaxLen + 1
  <2>1. dollar + 1 \in Positions
    BY <1>2, BoundsAre DEF Positions
  <2>2. QED
    BY <2>1, <1>2, StringOf, EndOf
<1>4. cut \in Buffers /\ cut[1] = buf[1]
  BY <1>2, BoundsAre DEF Buffers, Positions
<1> HIDE DEF dollar, string
<1>5. ASSUME first # {}
      PROVE  from \in Nat /\ from >= 1 /\ from <= Len(string)
  <2>1. first \in SUBSET Nat
    BY <1>3 DEF Text
  <2>2. from \in first
    BY <2>1, <1>5, MinOf
  <2>3. QED
    BY <2>1, <2>2, <1>3 DEF Text
<1>6. ASSUME first # {}, ends # {}
      PROVE  Min(ends) \in Nat /\ Min(ends) >= from /\ Min(ends) <= Len(string)
  <2>1. ends \in SUBSET Nat
    <3> HIDE DEF from
    <3>1. from .. Len(string) \in SUBSET Nat
      BY <1>5, <1>6
    <3>2. QED
      BY <3>1
  <2>2. Min(ends) \in ends
    BY <2>1, <1>6, MinOf
  <2>3. QED
    BY <2>1, <2>2, <1>5, <1>6
<1>7. ASSUME first # {} PROVE name \in Text
  <2> DEFINE last == IF ends = {} THEN Len(string) ELSE Min(ends) - 1
  <2>1. last \in Nat /\ last <= Len(string)
    BY <1>3, <1>5, <1>6, <1>7 DEF Text
  <2>2. name = SubSeq(string, from, last)
    OBVIOUS
  <2> HIDE DEF last, from
  <2>3. QED
    BY <2>1, <2>2, <1>3, <1>5, <1>7, PartOf
<1>8. ASSUME first # {}, ends # {}
      PROVE  /\ [cut EXCEPT ![dollar + Min(ends)] = NUL] \in Buffers
             /\ [cut EXCEPT ![dollar + Min(ends)] = NUL][1] = buf[1]
  <2> HIDE DEF ends, from, cut
  <2>1. dollar + Min(ends) \in Nat /\ dollar + Min(ends) > 1 /\ dollar + Min(ends) <= MaxLen
    BY <1>2, <1>3, <1>5, <1>6, <1>8, BoundsAre
  <2>2. QED
    BY <2>1, <1>4, BoundsAre DEF Buffers, Positions
<1>9. buf' \in Buffers /\ buf'[1] = buf[1]
  <2> HIDE DEF first, ends, cut, name, out
  <2>1. QED
    BY <1>1, <1>4, <1>8
<1>10. CASE SubstituteFails /\ UNCHANGED <<inPtr, oline, count>>
  BY <1>9, <1>10
<1>11. CASE first # {} /\ Defined(name)
  <2> HIDE DEF name, first
  <2>1. name \in Text /\ Len(name) \in Nat
    BY <1>7, <1>11 DEF Text
  <2>2. VariableGetValue(name) \in Text /\ (PlainTable => Plain(VariableGetValue(name)))
    BY <1>11, ValueOf
  <2>3. mid \in Text /\ Plain(mid)
    <3> DEFINE e == dollar - 1
    <3>1. e \in Int /\ inPtr \in Int /\ \A i \in inPtr .. e : buf[i] \in Cells \ {"$"}
      BY <1>2
    <3> HIDE DEF e
    <3>2. SubSeq(buf, inPtr, e) \in Seq(Cells \ {"$"})
      BY <3>1, SubSeqProperties
    <3>3. SubSeq(buf, inPtr, e) \in Text /\ Plain(SubSeq(buf, inPtr, e))
      BY <3>2 DEF Text, Plain
    <3>4. QED
      BY <3>3 DEF e
  <2>4. <<Space>> \in Text /\ Plain(<<Space>>)
    BY BoundsAre DEF Text, Plain, Space
  <2>5. PICK value : value = VariableGetValue(name)
    OBVIOUS
  <2>6. PICK part : part = mid
    OBVIOUS
  <2>7. part \in Text /\ value \in Text
    BY <2>2, <2>3, <2>5, <2>6
  <2>8. oline \o part \in Text /\ oline \o part # <<>> /\ (PlainRest(oline) => PlainRest(oline \o part))
    BY <2>3, <2>6, <2>7, <1>2, ConcatOf
  <2>9. PICK so : so = oline \o part
    OBVIOUS
  <2>10. /\ so \o value \in Text /\ so \o value # <<>>
         /\ PlainTable /\ PlainRest(oline) => PlainRest(so \o value)
    BY <2>2, <2>5, <2>7, <2>8, <2>9, ConcatOf
  <2>11. PICK all : all = so \o value
    OBVIOUS
  <2>12. /\ all \o <<Space>> \in Text /\ all \o <<Space>> # <<>>
         /\ PlainTable /\ PlainRest(oline) => PlainRest(all \o <<Space>>)
    BY <2>4, <2>10, <2>11, ConcatOf
  <2>13. out = all \o <<Space>>
    BY <2>5, <2>6, <2>9, <2>11
  <2> HIDE DEF out
  <2>14. oline' = out /\ count' = count + 1 /\ inPtr' = Behind(dollar + 1, name)
         /\ pc' = (IF Fits(out) /\ inPtr' \in Positions THEN "scan" ELSE "overrun")
         /\ UNCHANGED <<level, skipping>>
    BY <1>1, <1>11
  <2>15. inPtr' \in Nat /\ inPtr' >= 2 /\ inPtr' > inPtr
    BY <2>1, <2>14, <1>2 DEF Behind
  <2>16. \E t \in Text : oline \o part \o value \o <<Space>> = oline \o t
    <3>1. (oline \o part) \o value = oline \o (part \o value)
      BY <2>7, <1>2, Associative
    <3>2. PICK more : more = part \o value
      OBVIOUS
    <3>3. more \in Text
      BY <2>7, <3>2, ConcatOf
    <3>4. PICK space : space = <<Space>>
      OBVIOUS
    <3>5. space \in Text
      BY <2>4, <3>4
    <3>6. (oline \o more) \o space = oline \o (more \o space)
      BY <3>3, <3>5, <1>2, Associative
    <3>7. more \o space \in Text
      BY <3>3, <3>5, ConcatOf
    <3>8. QED
      BY <3>1, <3>2, <3>4, <3>6, <3>7
  <2>17. \E t \in Text : oline' = oline \o t
    BY <2>9, <2>11, <2>13, <2>14, <2>16
  <2>18. QED
    BY <1>9, <2>12, <2>13, <2>14, <2>15, <2>17
<1>12. QED
  <2> HIDE DEF first, name, out
  <2>1. QED
    BY <1>1, <1>10, <1>11

\* Without a '$' left, the rest of the string is text without one.
LEMMA StringIsPlain ==
  ASSUME NEW i \in Positions, TypeOK, DollarsFrom(i) = {}
  PROVE  String(buf, i) \in Text /\ Plain(String(buf, i))
<1>1. /\ String(buf, i) \in Text
      /\ Len(String(buf, i)) = End(buf, i) - i
      /\ \A k \in 1 .. Len(String(buf, i)) : String(buf, i)[k] = buf[i + k - 1]
      /\ End(buf, i) \in i .. MaxLen + 1
  BY BufferType, StringOf, EndOf
<1>2. i \in Nat /\ i >= 1
  BY BoundsAre DEF Positions
<1>3. ASSUME NEW k \in DOMAIN String(buf, i) PROVE String(buf, i)[k] # "$"
  <2>1. k \in 1 .. Len(String(buf, i))
    BY <1>1 DEF Text
  <2>2. i + k - 1 \in i .. MaxLen + 1 /\ i + k - 1 < End(buf, i)
    BY <2>1, <1>1, <1>2, BoundsAre
  <2>3. buf[i + k - 1] # "$"
    BY <2>2 DEF DollarsFrom
  <2>4. QED
    BY <2>1, <2>3, <1>1
<1>4. QED
  BY <1>1, <1>3 DEF Plain

\* What ScriptSubstituteVariables has in oline when no '$' is left.
Result == IF inLen > inPtr - 1 THEN oline \o String(buf, inPtr) ELSE oline

\* It is a text with the command of the statement, and no '$' comes with the rest.
LEMMA ResultOf ==
  ASSUME TypeOK, ScanInv, pc = "scan", DollarSigns = {}
  PROVE  Result \in Text /\ Result # <<>> /\ (PlainRest(oline) => PlainRest(Result))
<1>1. inPtr \in Positions /\ oline # <<>>
  BY BoundsAre DEF ScanInv, Positions
<1>2. oline \in Text
  BY DEF TypeOK
<1>3. String(buf, inPtr) \in Text /\ Plain(String(buf, inPtr))
  BY <1>1, StringIsPlain DEF DollarSigns
<1>4. QED
  BY <1>1, <1>2, <1>3, ConcatOf DEF Result

\* A call that begins with a text in the buffer.
LEMMA EnterOf ==
  ASSUME NEW b \in Buffers, NEW text \in Text, text # <<>>, Fits(text),
         buf' = Overwrite(b, text), Enter(text)
  PROVE  /\ buf' \in Buffers /\ buf'[1] # NUL
         /\ \A k \in DOMAIN text : buf'[k] = text[k]
         /\ buf'[Len(text) + 1] = NUL
         /\ inPtr' = 2 /\ inPtr' \in 2 .. MaxLen + 1
         /\ oline' \in Text /\ oline' # <<>> /\ Fits(oline)' /\ PlainRest(oline')
         /\ inLen' \in 0 .. MaxLen /\ inLen' = Len(text) /\ count' = 0
<1>1. Len(text) \in 1 .. MaxLen /\ DOMAIN text = 1 .. Len(text) /\ text[1] \in Cells
  BY BoundsAre DEF Text, Fits
<1>2. /\ buf' \in Buffers /\ buf'[Len(text) + 1] = NUL
      /\ \A k \in 1 .. Len(text) : buf'[k] = text[k]
  BY OverwriteOf
<1>3. buf'[1] # NUL
  BY <1>1, <1>2, BoundsAre
<1>4. /\ <<text[1]>> \in Text /\ <<text[1]>> # <<>> /\ Len(<<text[1]>>) = 1
      /\ PlainRest(<<text[1]>>)
  BY <1>1 DEF Text, PlainRest
<1>5. Fits(oline)'
  BY <1>1, <1>4, BoundsAre DEF Enter, Fits
<1>6. QED
  BY <1>1, <1>2, <1>3, <1>4, <1>5, BoundsAre DEF Enter

\* VariableStoreValue splits the definition in two texts of its characters.
LEMMA NamesOf ==
  ASSUME TypeOK, ScanInv, pc = "handle", HasEquals
  PROVE  /\ VarName \in Text /\ VarValue \in Text
         /\ DollarsFrom(2) = {} => Plain(VarName) /\ Plain(VarValue)
<1>1. MaxLen >= 1 /\ buf[1] # NUL /\ buf[MaxLen + 1] = NUL
  BY BoundsAre DEF ScanInv, TypeOK
<1>2. 1 \in Positions /\ 2 \in Positions
  BY <1>1, BoundsAre DEF Positions
<1>3. /\ String(buf, 1) \in Text /\ Len(String(buf, 1)) = End(buf, 1) - 1
      /\ \A k \in 1 .. Len(String(buf, 1)) : String(buf, 1)[k] = buf[1 + k - 1]
      /\ End(buf, 1) \in 1 .. MaxLen + 1 /\ buf[End(buf, 1)] = NUL
  BY <1>2, BufferType, StringOf, EndOf
<1>4. End(buf, 1) > 1 /\ String(buf, 1) # <<>>
  BY <1>1, <1>3, BoundsAre DEF Text
<1>5. /\ Definition \in Text /\ Len(Definition) = End(buf, 1) - 2
      /\ \A k \in 1 .. Len(Definition) : Definition[k] = buf[k + 1]
  <2>1. /\ Tail(String(buf, 1)) \in Seq(Cells)
        /\ Len(Tail(String(buf, 1))) = Len(String(buf, 1)) - 1
        /\ \A k \in 1 .. Len(Tail(String(buf, 1))) : Tail(String(buf, 1))[k] = String(buf, 1)[k + 1]
    BY <1>3, <1>4, HeadTailProperties DEF Text
  <2>2. Len(Definition) = End(buf, 1) - 2
    BY <2>1, <1>3, BoundsAre DEF Definition
  <2>3. ASSUME NEW k \in 1 .. Len(Definition) PROVE Definition[k] = buf[k + 1]
    <3>1. k + 1 \in 1 .. Len(String(buf, 1)) /\ 1 + (k + 1) - 1 = k + 1
      BY <2>2, <1>3, BoundsAre
    <3>2. QED
      BY <3>1, <2>1, <1>3 DEF Definition
  <2>4. QED
    BY <2>1, <2>2, <2>3 DEF Definition, Text
<1>6. DollarsFrom(2) = {} => Plain(Definition)
  <2> SUFFICES ASSUME DollarsFrom(2) = {}, NEW k \in DOMAIN Definition
               PROVE  Definition[k] # "$"
    BY DEF Plain
  <2>1. k \in 1 .. Len(Definition)
    BY <1>5 DEF Text
  <2>2. /\ End(buf, 2) \in 2 .. MaxLen + 1 /\ buf[End(buf, 2)] = NUL
        /\ \A j \in 1 .. MaxLen + 1 : buf[j] = NUL => End(buf, 1) <= j
    BY <1>2, BufferType, EndOf
  <2>3. End(buf, 1) <= End(buf, 2)
    BY <2>2, BoundsAre
  <2>4. k + 1 \in 2 .. MaxLen + 1 /\ k + 1 < End(buf, 2)
    BY <2>1, <2>2, <2>3, <1>3, <1>5, BoundsAre
  <2>5. buf[k + 1] # "$"
    BY <2>4 DEF DollarsFrom
  <2>6. QED
    BY <2>1, <2>5, <1>5
<1>7. Equals \in Nat /\ Equals >= 1 /\ Equals <= Len(Definition)
  <2> DEFINE S == {i \in DOMAIN Definition : Definition[i] = "="}
  <2>1. DOMAIN Definition = 1 .. Len(Definition) /\ Len(Definition) \in Nat
    BY <1>5 DEF Text
  <2>2. S \in SUBSET Nat
    BY <2>1
  <2>3. S # {}
    BY DEF HasEquals, Range
  <2>4. Min(S) \in S
    BY <2>2, <2>3, MinOf
  <2>5. QED
    BY <2>1, <2>4 DEF Equals
<1>8. ASSUME NEW m \in Nat, NEW n \in Nat, 1 <= m, n <= Len(Definition)
      PROVE  /\ Trimmed(SubSeq(Definition, m, n)) \in Text
             /\ Plain(Definition) => Plain(Trimmed(SubSeq(Definition, m, n)))
  <2>1. /\ SubSeq(Definition, m, n) \in Text
        /\ \A k \in DOMAIN SubSeq(Definition, m, n) :
             k + m - 1 \in DOMAIN Definition /\ SubSeq(Definition, m, n)[k] = Definition[k + m - 1]
    BY <1>5, <1>8, PartOf
  <2>2. Plain(Definition) => Plain(SubSeq(Definition, m, n))
    BY <2>1 DEF Plain
  <2>3. PICK t : t = SubSeq(Definition, m, n)
    OBVIOUS
  <2>4. /\ Trimmed(t) \in Text
        /\ \A k \in DOMAIN Trimmed(t) : \E i \in DOMAIN t : Trimmed(t)[k] = t[i]
    BY <2>1, <2>3, TrimmedOf
  <2>5. Plain(t) => Plain(Trimmed(t))
    BY <2>4 DEF Plain
  <2>6. QED
    BY <2>2, <2>3, <2>4, <2>5
<1>9. VarName \in Text /\ (Plain(Definition) => Plain(VarName))
  <2>1. Equals - 1 \in Nat /\ Equals - 1 <= Len(Definition) /\ 1 \in Nat
    BY <1>5, <1>7 DEF Text
  <2>2. QED
    BY <2>1, <1>8 DEF VarName
<1>10. VarValue \in Text /\ (Plain(Definition) => Plain(VarValue))
  <2>1. Equals + 1 \in Nat /\ 1 <= Equals + 1 /\ Len(Definition) \in Nat
    BY <1>5, <1>7 DEF Text
  <2>2. QED
    BY <2>1, <1>8 DEF VarValue
<1>11. QED
  BY <1>6, <1>9, <1>10

\* An entry of VarList.
Entry == [name : Text, value : Text]

\* The table of a well typed state.
LEMMA TableIs ==
  ASSUME TypeOK
  PROVE  /\ table \in Seq(Entry) /\ Len(table) \in Nat /\ Len(table) < MaxVarCount
         /\ DOMAIN table = 1 .. Len(table)
         /\ \A i \in 1 .. Len(table) : table[i] \in Entry
<1>1. table \in Seq(Entry) /\ Len(table) < MaxVarCount
  BY DEF TypeOK, Entry
<1>2. QED
  BY <1>1, ElementOfSeq, LenProperties

\* A value is entered in the entry of the name, or in a new one at the end;
\* the table stays below its limit.
LEMMA EnteredOf ==
  ASSUME TypeOK, NEW key \in Text, NEW val \in Text, ~Refused(key),
         NEW t, t = Entered(key, val)
  PROVE  /\ t \in Seq(Entry) /\ Len(t) < MaxVarCount /\ Len(t) \in Nat
         /\ DOMAIN t = 1 .. Len(t)
         /\ ~Defined(key) =>
              /\ Len(t) = Len(table) + 1
              /\ \A i \in DOMAIN table : t[i] = table[i]
              /\ t[Len(t)] = [name |-> key, value |-> val]
<1>1. /\ table \in Seq(Entry) /\ Len(table) \in Nat /\ Len(table) < MaxVarCount
      /\ DOMAIN table = 1 .. Len(table)
      /\ \A i \in 1 .. Len(table) : table[i] \in Entry
  BY TableIs
<1>2. CASE Defined(key)
  <2>1. PICK n : n = Min(Named(key))
    OBVIOUS
  <2>2. n \in DOMAIN table
    BY <1>2, <2>1, ValueOf
  <2>3. t = [table EXCEPT ![n].value = val]
    BY <1>2, <2>1 DEF Entered
  <2>4. PICK entry : entry = [table[n] EXCEPT !.value = val]
    OBVIOUS
  <2>5. entry \in Entry /\ entry.name = table[n].name /\ entry.value = val
    BY <2>2, <2>4, <1>1 DEF Entry
  <2>6. t = [table EXCEPT ![n] = entry]
    BY <2>3, <2>4
  <2>7. /\ t \in Seq(Entry) /\ Len(t) = Len(table)
        /\ \A j \in 1 .. Len(table) : t[j] = IF j = n THEN entry ELSE table[j]
    BY <2>2, <2>5, <2>6, <1>1, ExceptSeq
  <2>8. QED
    BY <1>1, <1>2, <2>7, LenProperties
<1>3. CASE ~Defined(key)
  <2>1. t = Append(table, [name |-> key, value |-> val])
    BY <1>3 DEF Entered
  <2>2. [name |-> key, value |-> val] \in Entry
    BY DEF Entry
  <2>3. PICK entry : entry = [name |-> key, value |-> val]
    OBVIOUS
  <2>4. /\ t \in Seq(Entry) /\ Len(t) = Len(table) + 1
        /\ \A i \in 1 .. Len(table) : t[i] = table[i]
        /\ t[Len(table) + 1] = entry
    BY <2>1, <2>2, <2>3, <1>1, AppendProperties
  <2>5. Len(table) + 1 < MaxVarCount
    BY <1>1, <1>3, BoundsAre DEF Refused, TableFull
  <2>6. QED
    BY <1>1, <1>3, <2>3, <2>4, <2>5, LenProperties
<1>4. QED
  BY <1>2, <1>3

\* A statement read is put in the buffer, and the search begins.
LEMMA ReadType ==
  ASSUME TypeOK, ScanInv, NEW text \in Statements, ReadStatement(text)
  PROVE  TypeOK' /\ ScanInv'
<1>1. text \in Text /\ text # <<>> /\ Fits(text)
  BY BoundsAre DEF Fits, Text
<1>2. buf \in Buffers /\ buf' = Overwrite(buf, text) /\ Enter(text)
  BY BufferType DEF ReadStatement
<1>3. /\ buf' \in Buffers /\ buf'[1] # NUL
      /\ inPtr' = 2 /\ inPtr' \in 2 .. MaxLen + 1
      /\ oline' \in Text /\ oline' # <<>> /\ Fits(oline)'
      /\ inLen' \in 0 .. MaxLen /\ count' = 0
  BY <1>1, <1>2, EnterOf
<1>4. reads' \in 0 .. MaxReads
  BY BoundsAre DEF ReadStatement, TypeOK
<1>5. /\ level' = 1 /\ written' = text /\ pc' = "scan"
      /\ table' = table /\ skipping' = skipping
  BY DEF ReadStatement
<1>6. TypeOK'
  BY <1>1, <1>3, <1>4, <1>5 DEF TypeOK, Buffers
<1>7. QED
  BY <1>3, <1>5, <1>6 DEF ScanInv

\* The text in front of a '$' is too long.
LEMMA OverrunType ==
  ASSUME TypeOK, ScanInv, TextOverruns
  PROVE  TypeOK' /\ ScanInv'
  BY DEF TextOverruns, scanVars, TypeOK, ScanInv

\* A variable is substituted, or not defined.
LEMMA SubstituteType ==
  ASSUME TypeOK, ScanInv, SubstituteNext
  PROVE  TypeOK' /\ ScanInv'
<1>1. buf' \in Buffers /\ buf'[1] = buf[1] /\ buf[1] # NUL
  BY NextVariable DEF ScanInv, SubstituteNext
<1>2. UNCHANGED <<inLen, table, reads, written, latest>>
  BY DEF SubstituteNext
<1>3. CASE SubstituteFails /\ UNCHANGED <<inPtr, oline, count>>
  BY <1>1, <1>2, <1>3 DEF TypeOK, ScanInv, SubstituteFails, Buffers
<1>4. CASE /\ count' = count + 1
           /\ inPtr' \in Nat /\ inPtr' >= 2
           /\ oline' \in Text /\ oline' # <<>>
           /\ pc' = IF Fits(oline') /\ inPtr' \in Positions THEN "scan" ELSE "overrun"
           /\ UNCHANGED <<level, skipping>>
  <2>1. TypeOK'
    BY <1>1, <1>2, <1>4 DEF TypeOK, Buffers
  <2>2. pc' = "scan" => Fits(oline)' /\ inPtr' \in 2 .. MaxLen + 1
    BY <1>4, BoundsAre DEF Positions, Fits
  <2>3. pc' # "handle"
    BY <1>4
  <2>4. QED
    BY <1>1, <1>4, <2>1, <2>2, <2>3 DEF ScanInv
<1>5. QED
  BY <1>3, <1>4, NextVariable

\* The substitution ends, or begins once more with its result.
LEMMA EndType ==
  ASSUME TypeOK, ScanInv, EndScan
  PROVE  TypeOK' /\ ScanInv'
<1>1. pc = "scan" /\ DollarSigns = {} /\ buf \in Buffers /\ buf[1] # NUL
  BY BufferType DEF EndScan, ScanInv
<1>2. Result \in Text /\ Result # <<>>
  BY <1>1, ResultOf
<1>3. UNCHANGED <<table, skipping, reads, written, latest>>
  BY DEF EndScan
<1>4. IF count = 0
      THEN pc' = "handle" /\ level' = 0 /\ UNCHANGED <<buf, inPtr, oline, inLen, count>>
      ELSE IF Fits(Result)
      THEN buf' = Overwrite(buf, Result) /\ Enter(Result) /\ level' = level + 1 /\ UNCHANGED pc
      ELSE pc' = "overrun" /\ UNCHANGED <<buf, scanVars>>
  BY DEF EndScan, Result
<1>5. CASE pc' = "handle" /\ level' = 0 /\ UNCHANGED <<buf, inPtr, oline, inLen, count>>
  BY <1>1, <1>3, <1>5 DEF TypeOK, ScanInv
<1>6. CASE Fits(Result) /\ buf' = Overwrite(buf, Result) /\ Enter(Result) /\ level' = level + 1 /\ UNCHANGED pc
  <2>1. /\ buf' \in Buffers /\ buf'[1] # NUL
        /\ inPtr' = 2 /\ inPtr' \in 2 .. MaxLen + 1
        /\ oline' \in Text /\ oline' # <<>> /\ Fits(oline)'
        /\ inLen' \in 0 .. MaxLen /\ count' = 0
    <3>1. PICK text : text = Result
      OBVIOUS
    <3>2. text \in Text /\ text # <<>> /\ Fits(text) /\ buf' = Overwrite(buf, text) /\ Enter(text)
      BY <1>2, <1>6, <3>1
    <3>3. QED
      BY <1>1, <3>2, EnterOf
  <2>2. level' \in Nat
    BY <1>6 DEF TypeOK
  <2>3. TypeOK'
    BY <1>3, <1>6, <2>1, <2>2 DEF TypeOK, Buffers
  <2>4. QED
    BY <1>6, <2>1, <2>3 DEF ScanInv
<1>7. CASE pc' = "overrun" /\ UNCHANGED <<buf, scanVars>>
  BY <1>1, <1>3, <1>7 DEF TypeOK, ScanInv, scanVars
<1>8. QED
  BY <1>4, <1>5, <1>6, <1>7

\* A value is stored in the table.
LEMMA StoreType ==
  ASSUME TypeOK, ScanInv, StoreValue
  PROVE  TypeOK' /\ ScanInv'
<1>1. /\ pc = "handle" /\ HasEquals /\ ~Refused(VarName)
      /\ table' = Entered(VarName, VarValue)
      /\ pc' \in {"read", "overrun"}
      /\ UNCHANGED <<buf, scanVars, skipping, reads, written>>
  BY DEF StoreValue
<1>2. VarName \in Text /\ VarValue \in Text
  BY <1>1, NamesOf
<1>3. table' \in Seq(Entry) /\ Len(table') < MaxVarCount
  BY <1>1, <1>2, EnteredOf
<1>4. TypeOK'
  BY <1>1, <1>3 DEF TypeOK, scanVars, Entry
<1>5. QED
  BY <1>1, <1>4 DEF ScanInv

\* The other statements leave the buffer and the table alone.
LEMMA HandleType ==
  ASSUME TypeOK, ScanInv,
         SkipStatement \/ NewCase \/ OtherStatement \/ StoreFails \/ StoreReadsUnset
  PROVE  TypeOK' /\ ScanInv'
<1>1. /\ pc' \in {"read", "uninitialized"}
      /\ skipping' \in BOOLEAN
      /\ UNCHANGED <<buf, scanVars, table, reads, written>>
  BY DEF SkipStatement, NewCase, OtherStatement, StoreFails, StoreReadsUnset, Handled, TypeOK
<1>2. TypeOK'
  BY <1>1 DEF TypeOK, scanVars
<1>3. QED
  BY <1>1, <1>2 DEF ScanInv

\* The initial state is well typed.
LEMMA InitType == Init => TypeOK /\ ScanInv
<1> SUFFICES ASSUME Init
             PROVE  TypeOK /\ ScanInv
  OBVIOUS
<1>1. /\ <<>> \in Text /\ <<>> \in Seq([name : Text, value : Text]) /\ Len(<<>>) = 0
  BY DEF Text
<1>2. MaxLen + 1 \in Positions /\ 0 \in 0 .. MaxLen /\ 0 \in 0 .. MaxReads
  BY BoundsAre DEF Positions
<1>3. buf \in Buffers
  BY <1>2 DEF Init, Buffers
<1>4. TypeOK
  BY <1>1, <1>2, <1>3, BoundsAre DEF Init, TypeOK, Buffers
<1>5. QED
  BY <1>4 DEF Init, ScanInv

\* Every step keeps the types.
LEMMA NextType == TypeOK /\ ScanInv /\ [Next]_vars => TypeOK' /\ ScanInv'
<1> SUFFICES ASSUME TypeOK, ScanInv, [Next]_vars
             PROVE  TypeOK' /\ ScanInv'
  OBVIOUS
<1>1. CASE UNCHANGED vars
  <2>1. ScanInv'
    BY <1>1 DEF vars, ScanInv, Fits
  <2>2. QED
    BY <1>1, <2>1 DEF vars, TypeOK
<1>2. QED
  BY <1>1, ReadType, OverrunType, SubstituteType, EndType, StoreType, HandleType DEF Next

\* The buffer keeps the NUL it ends in, the table stays one entry below
\* MAX_VAR_COUNT, and what is read, substituted and stored is text without NULs:
\* no function of variable.c or scripts.c is called with a string without an end.
THEOREM TypeCorrect == Spec => []TypeOK
<1>1. Spec => [](TypeOK /\ ScanInv)
  BY InitType, NextType, PTL DEF Spec
<1>2. QED
  BY <1>1, PTL

\* What holds of every state, to build the other invariants on.
LEMMA TypeInvariant == Spec => [](TypeOK /\ ScanInv)
  BY InitType, NextType, PTL DEF Spec

-----------------------------------------------------------------------------
(* The table has the latest value of each variable, once.                  *)

\* What a redefinition leaves: the entries have their names, and only the first
\* of that name has another value.
LEMMA RedefinitionKeepsLatest ==
  ASSUME TypeOK, LatestValue, NEW key \in Text, NEW val \in Text, Defined(key),
         table' = Entered(key, val),
         latest' = [n \in DOMAIN latest \cup {key} |-> IF n = key THEN val ELSE latest[n]]
  PROVE  LatestValue'
<1>1. PICK first : first = Min(Named(key))
  OBVIOUS
<1>2. first \in DOMAIN table /\ table[first].name = key
  BY <1>1, ValueOf
<1>3. /\ DOMAIN table' = DOMAIN table
      /\ \A i \in DOMAIN table : table'[i].name = table[i].name
      /\ table'[first].value = val
      /\ \A i \in DOMAIN table : i # first => table'[i].value = table[i].value
  <2>1. table' = [table EXCEPT ![first].value = val]
    BY <1>1 DEF Entered
  <2>2. PICK entry : entry = [table[first] EXCEPT !.value = val]
    OBVIOUS
  <2>3. table[first] \in Entry /\ DOMAIN table = 1 .. Len(table)
    BY <1>2, TableIs
  <2>4. entry.name = table[first].name /\ entry.value = val
    BY <2>2, <2>3 DEF Entry
  <2>5. table' = [table EXCEPT ![first] = entry]
    BY <2>1, <2>2
  <2>6. /\ DOMAIN table' = DOMAIN table /\ table'[first] = entry
        /\ \A i \in DOMAIN table : i # first => table'[i] = table[i]
    BY <1>2, <2>5, TableIs
  <2>7. QED
    BY <1>2, <2>4, <2>6
<1>4. \A n : Named(n)' = Named(n)
  BY <1>3 DEF Named
<1>5. key \in DOMAIN latest
  BY <1>2 DEF LatestValue
<1>6. DOMAIN latest' = DOMAIN latest
  BY <1>5
<1>7. ASSUME NEW n \in DOMAIN latest
      PROVE  Defined(n)' /\ VariableGetValue(n)' = latest'[n]
  <2>1. Defined(n) /\ VariableGetValue(n) = latest[n]
    BY DEF LatestValue
  <2>2. PICK m : m = Min(Named(n))
    OBVIOUS
  <2>3. m \in DOMAIN table /\ table[m].name = n /\ latest[n] = table[m].value
    BY <2>1, <2>2, ValueOf
  <2>4. Defined(n)' /\ VariableGetValue(n)' = table'[m].value
    BY <1>4, <2>1, <2>2 DEF Defined, VariableGetValue
  <2>5. CASE n = key
    BY <1>1, <1>3, <2>2, <2>3, <2>4, <2>5
  <2>6. CASE n # key
    <3>1. m # first
      BY <1>2, <2>3, <2>6
    <3>2. table'[m].value = table[m].value
      BY <1>3, <2>3, <3>1
    <3>3. QED
      BY <2>3, <2>4, <2>6, <3>2
  <2>7. QED
    BY <2>5, <2>6
<1>8. \A i \in DOMAIN table' : table'[i].name \in DOMAIN latest'
  BY <1>3, <1>6 DEF LatestValue
<1>9. \A i, j \in DOMAIN table' : table'[i].name = table'[j].name => i = j
  BY <1>3 DEF LatestValue
<1>10. QED
  BY <1>6, <1>7, <1>8, <1>9 DEF LatestValue

\* What a definition leaves: the entries are what they were, and one is new.
LEMMA DefinitionKeepsLatest ==
  ASSUME TypeOK, LatestValue, NEW key \in Text, NEW val \in Text, ~Defined(key), ~Refused(key),
         table' = Entered(key, val),
         latest' = [n \in DOMAIN latest \cup {key} |-> IF n = key THEN val ELSE latest[n]]
  PROVE  LatestValue'
<1>1. PICK last : last = Len(table) + 1
  OBVIOUS
<1>2. /\ DOMAIN table' = DOMAIN table \cup {last} /\ last \notin DOMAIN table /\ last \in Nat
      /\ \A i \in DOMAIN table : table'[i] = table[i]
      /\ table'[last] = [name |-> key, value |-> val]
  <2>1. PICK t : t = table'
    OBVIOUS
  <2>2. /\ DOMAIN t = 1 .. Len(t) /\ Len(t) = Len(table) + 1
        /\ \A i \in DOMAIN table : t[i] = table[i]
        /\ t[Len(t)] = [name |-> key, value |-> val]
    BY <2>1, EnteredOf
  <2>3. DOMAIN table = 1 .. Len(table) /\ Len(table) \in Nat
    BY TableIs
  <2>4. QED
    BY <1>1, <2>1, <2>2, <2>3
<1>3. table'[last].name = key /\ table'[last].value = val
  BY <1>2
<1>4. \A i \in DOMAIN table : table[i].name # key
  BY DEF Defined, Named
<1>5. key \notin DOMAIN latest
  BY DEF LatestValue
<1>6. Named(key)' = {last}
  BY <1>2, <1>3, <1>4 DEF Named
<1>7. Defined(key)' /\ VariableGetValue(key)' = val
  <2>1. Min({last}) = last
    <3>1. {last} \in SUBSET Nat /\ {last} # {}
      BY <1>2
    <3>2. Min({last}) \in {last}
      BY <3>1, MinOf
    <3>3. QED
      BY <3>2
  <2>2. QED
    BY <2>1, <1>3, <1>6 DEF Defined, VariableGetValue
<1>8. ASSUME NEW n \in DOMAIN latest
      PROVE  Defined(n)' /\ VariableGetValue(n)' = latest[n]
  <2>1. Defined(n) /\ VariableGetValue(n) = latest[n] /\ n # key
    BY <1>5 DEF LatestValue
  <2>2. Named(n)' = Named(n)
    BY <1>2, <1>3, <2>1 DEF Named
  <2>3. PICK m : m = Min(Named(n))
    OBVIOUS
  <2>4. m \in DOMAIN table /\ latest[n] = table[m].value
    BY <2>1, <2>3, ValueOf
  <2>5. Defined(n)' /\ VariableGetValue(n)' = table'[m].value
    BY <2>1, <2>2, <2>3 DEF Defined, VariableGetValue
  <2>6. QED
    BY <1>2, <2>4, <2>5
<1>9. /\ DOMAIN latest' = DOMAIN latest \cup {key}
      /\ latest'[key] = val
      /\ \A n \in DOMAIN latest : latest'[n] = latest[n]
  BY <1>5
<1>10. \A n \in DOMAIN latest' : Defined(n)' /\ VariableGetValue(n)' = latest'[n]
  BY <1>7, <1>8, <1>9
<1>11. \A i \in DOMAIN table' : table'[i].name \in DOMAIN latest'
  <2>1. \A i \in DOMAIN table : table[i].name \in DOMAIN latest
    BY DEF LatestValue
  <2>2. QED
    BY <1>2, <1>3, <1>9, <2>1
<1>12. \A i, j \in DOMAIN table' : table'[i].name = table'[j].name => i = j
  <2>1. \A i, j \in DOMAIN table : table[i].name = table[j].name => i = j
    BY DEF LatestValue
  <2>2. QED
    BY <1>2, <1>3, <1>4, <2>1
<1>13. QED
  BY <1>10, <1>11, <1>12 DEF LatestValue

\* Only a definition that is stored changes the table.
LEMMA TableKept ==
  ASSUME [Next]_vars, ~StoreValue
  PROVE  UNCHANGED <<table, latest>>
  BY DEF Next, vars, ReadStatement, TextOverruns, SubstituteNext, EndScan, SkipStatement,
         NewCase, OtherStatement, StoreFails, StoreReadsUnset

\* Every step keeps the latest values in the table.
LEMMA NextLatest == TypeOK /\ ScanInv /\ LatestValue /\ [Next]_vars => LatestValue'
<1> SUFFICES ASSUME TypeOK, ScanInv, LatestValue, [Next]_vars
             PROVE  LatestValue'
  OBVIOUS
<1>1. CASE ~StoreValue
  BY <1>1, TableKept DEF LatestValue, Defined, Named, VariableGetValue
<1>2. CASE StoreValue
  <2>1. /\ pc = "handle" /\ HasEquals /\ ~Refused(VarName)
        /\ table' = Entered(VarName, VarValue)
        /\ latest' = [n \in DOMAIN latest \cup {VarName} |-> IF n = VarName THEN VarValue ELSE latest[n]]
    BY <1>2 DEF StoreValue
  <2>2. PICK name, value : name = VarName /\ value = VarValue
    OBVIOUS
  <2>3. name \in Text /\ value \in Text
    BY <2>1, <2>2, NamesOf
  <2>4. /\ ~Refused(name) /\ table' = Entered(name, value)
        /\ latest' = [n \in DOMAIN latest \cup {name} |-> IF n = name THEN value ELSE latest[n]]
    BY <2>1, <2>2
  <2>5. QED
    BY <2>3, <2>4, RedefinitionKeepsLatest, DefinitionKeepsLatest
<1>3. QED
  BY <1>1, <1>2

\* No variable has a value at the start.
LEMMA InitLatest == Init => LatestValue
  BY DEF Init, LatestValue

\* A variable has the value last given to it, in the one entry of its name, with
\* any number of variables and however often they are redefined (VariableStoreValue).
THEOREM VariablesHaveLatestValue == Spec => []LatestValue
  BY TypeInvariant, InitLatest, NextLatest, PTL DEF Spec

-----------------------------------------------------------------------------
(* Definitions are refused only when the table is full.                    *)

\* With the latest values once in the table, it has as many entries as names.
LEMMA EntriesAreNames ==
  ASSUME TypeOK, LatestValue
  PROVE  Cardinality(DOMAIN latest) = Len(table)
<1>1. Len(table) \in Nat /\ DOMAIN table = 1 .. Len(table)
  BY TableIs
<1> DEFINE nameOf == [i \in 1 .. Len(table) |-> table[i].name]
<1>2. nameOf \in [1 .. Len(table) -> DOMAIN latest]
  BY <1>1 DEF LatestValue
<1>3. \A i, j \in 1 .. Len(table) : nameOf[i] = nameOf[j] => i = j
  BY <1>1 DEF LatestValue
<1>4. \A n \in DOMAIN latest : \E i \in 1 .. Len(table) : nameOf[i] = n
  BY <1>1 DEF LatestValue, Defined, Named
<1>5. nameOf \in Bijection(1 .. Len(table), DOMAIN latest)
  <2> HIDE DEF nameOf
  <2>1. nameOf \in Injection(1 .. Len(table), DOMAIN latest)
    BY <1>2, <1>3, Fun_IsInj
  <2>2. nameOf \in Surjection(1 .. Len(table), DOMAIN latest)
    BY <1>2, <1>4, Fun_IsSurj
  <2>3. QED
    BY <2>1, <2>2 DEF Bijection
<1>6. ExistsBijection(1 .. Len(table), DOMAIN latest)
  BY <1>5 DEF ExistsBijection
<1>7. IsFiniteSet(1 .. Len(table)) /\ Cardinality(1 .. Len(table)) = Len(table)
  <2>1. PICK n \in Nat : n = Len(table)
    BY <1>1
  <2>2. IsFiniteSet(1 .. n) /\ Cardinality(1 .. n) = IF 1 > n THEN 0 ELSE n - 1 + 1
    BY FS_Interval
  <2>3. QED
    BY <2>1, <2>2
<1>8. QED
  BY <1>6, <1>7, FS_Bijection

\* The step that lets a definition fail finds the table full and the name new.
LEMMA NextRefused ==
  ASSUME TypeOK, LatestValue, [Next]_vars, pc = "handle", AtStore, skipping', HasEquals
  PROVE  Cardinality(DOMAIN latest) = MaxVarCount - 1 /\ VarName \notin DOMAIN latest
<1>1. StoreFails
  BY DEF AtStore, Next, vars, ReadStatement, TextOverruns, SubstituteNext, EndScan, SkipStatement,
         NewCase, OtherStatement, StoreValue, StoreReadsUnset, Handled
<1>2. Refused(VarName)
  BY <1>1 DEF StoreFails
<1>3. VarName \notin DOMAIN latest
  BY <1>2 DEF Refused, LatestValue
<1>4. Len(table) = MaxVarCount - 1
  BY <1>2, TableIs, BoundsAre DEF Refused, TableFull
<1>5. QED
  BY <1>3, <1>4, EntriesAreNames

\* A definition in the right form fails only for a new name, with as many variables
\* as the table takes; a redefinition never fails (VariableStoreValue).
THEOREM OnlyFullTablesRefuse == Spec => RefusedOnlyWhenFull
<1>1. TypeOK /\ LatestValue /\ [Next]_vars
        => [pc = "handle" /\ AtStore /\ skipping' /\ HasEquals
            => Cardinality(DOMAIN latest) = MaxVarCount - 1 /\ VarName \notin DOMAIN latest]_vars
  BY NextRefused
<1>2. QED
  BY <1>1, TypeCorrect, VariablesHaveLatestValue, PTL DEF Spec, RefusedOnlyWhenFull

-----------------------------------------------------------------------------
(* One more call is enough.                                                *)

\* Whatever is appended to oline is without a '$'; the second call therefore
\* begins with a statement without one, and a statement is handled without one.
PassInv ==
  /\ PlainTable
  /\ level \in 0 .. 2
  /\ pc = "scan" =>
       /\ level \in {1, 2}
       /\ PlainRest(oline)
       /\ count = 0 => inPtr = 2
       /\ level = 2 => count = 0 /\ DollarsFrom(2) = {}
  /\ pc = "handle" => DollarsFrom(2) = {}

\* The text in front of a '$' is too long.
LEMMA OverrunPass ==
  ASSUME PassInv, TextOverruns
  PROVE  PassInv'
  BY DEF TextOverruns, scanVars, PassInv, PlainTable, Plain

\* A variable is substituted by the first call only, and by text without a '$'.
LEMMA SubstitutePass ==
  ASSUME TypeOK, ScanInv, PassInv, SubstituteNext
  PROVE  PassInv'
<1>1. pc = "scan" /\ DollarsFrom(inPtr) # {} /\ table' = table
  BY DEF SubstituteNext, DollarSigns
<1>2. level = 1 /\ PlainTable /\ PlainRest(oline)
  BY <1>1 DEF PassInv
<1>3. PlainTable'
  BY <1>1, <1>2 DEF PlainTable, Plain
<1>4. CASE SubstituteFails /\ UNCHANGED <<inPtr, oline, count>>
  BY <1>3, <1>4 DEF PassInv, SubstituteFails
<1>5. CASE /\ count' = count + 1
           /\ pc' \in {"scan", "overrun"}
           /\ PlainTable /\ PlainRest(oline) => PlainRest(oline')
           /\ UNCHANGED level
  <2>1. count' # 0
    BY <1>5 DEF TypeOK
  <2>2. PlainRest(oline)'
    BY <1>2, <1>5 DEF PlainRest
  <2>3. QED
    BY <1>2, <1>3, <1>5, <2>1, <2>2 DEF PassInv
<1>6. QED
  BY <1>4, <1>5, NextVariable

\* The call after the first finds no '$'.
LEMMA EndPass ==
  ASSUME TypeOK, ScanInv, PassInv, EndScan
  PROVE  PassInv'
<1>1. /\ pc = "scan" /\ DollarSigns = {} /\ buf \in Buffers
      /\ table' = table /\ level \in {1, 2}
  BY BufferType DEF EndScan, PassInv
<1>2. PlainTable'
  BY <1>1 DEF PassInv, PlainTable, Plain
<1>3. Result \in Text /\ Result # <<>> /\ PlainRest(Result)
  BY <1>1, ResultOf DEF PassInv
<1>4. IF count = 0
      THEN pc' = "handle" /\ level' = 0 /\ UNCHANGED <<buf, inPtr, oline, inLen, count>>
      ELSE IF Fits(Result)
      THEN buf' = Overwrite(buf, Result) /\ Enter(Result) /\ level' = level + 1 /\ UNCHANGED pc
      ELSE pc' = "overrun" /\ UNCHANGED <<buf, scanVars>>
  BY DEF EndScan, Result
<1>5. CASE count = 0
  <2>1. DollarsFrom(2) = {}
    BY <1>1, <1>5 DEF PassInv, DollarSigns
  <2>2. DollarsFrom(2)' = DollarsFrom(2)
    BY <1>4, <1>5 DEF DollarsFrom
  <2>3. QED
    BY <1>2, <1>4, <1>5, <2>1, <2>2 DEF PassInv
<1>6. CASE count # 0 /\ Fits(Result)
  <2>1. level = 1
    BY <1>1, <1>6 DEF PassInv
  <2>2. PICK text : text = Result
    OBVIOUS
  <2>3. text \in Text /\ text # <<>> /\ Fits(text) /\ PlainRest(text) /\ buf' = Overwrite(buf, text) /\ Enter(text)
    BY <1>3, <1>4, <1>6, <2>2
  <2>4. /\ buf' \in Buffers
        /\ \A k \in DOMAIN text : buf'[k] = text[k]
        /\ buf'[Len(text) + 1] = NUL
        /\ inPtr' = 2 /\ PlainRest(oline') /\ count' = 0
    BY <2>3, <1>1, EnterOf
  <2>5. DOMAIN text = 1 .. Len(text) /\ Len(text) \in 1 .. MaxLen
    BY <2>3, BoundsAre DEF Text, Fits
  <2>6. DollarsFrom(2)' = {}
    <3>1. PICK b : b = buf'
      OBVIOUS
    <3>2. \A j \in 2 .. MaxLen + 1 : b[j] = NUL => End(b, 2) <= j
      <4>1. 2 \in Positions
        BY <2>5, BoundsAre DEF Positions
      <4>2. QED
        BY <2>4, <3>1, <4>1, EndOf
    <3>3. End(b, 2) <= Len(text) + 1
      BY <2>4, <2>5, <3>1, <3>2, BoundsAre
    <3>4. End(b, 2) \in Nat
      <4>1. 2 \in Positions
        BY <2>5, BoundsAre DEF Positions
      <4>2. End(b, 2) \in 2 .. MaxLen + 1
        BY <2>4, <3>1, <4>1, EndOf
      <4>3. QED
        BY <4>2, BoundsAre
    <3>5. ASSUME NEW j \in 2 .. MaxLen + 1, j < End(b, 2) PROVE b[j] # "$"
      <4>1. j \in DOMAIN text /\ j > 1
        BY <2>5, <3>3, <3>4, <3>5, BoundsAre
      <4>2. QED
        BY <2>3, <2>4, <3>1, <4>1 DEF PlainRest
    <3>6. DollarsFrom(2)' = {j \in 2 .. MaxLen + 1 : j < End(b, 2) /\ b[j] = "$"}
      BY <3>1 DEF DollarsFrom, End
    <3>7. QED
      BY <3>5, <3>6
  <2>7. level' = 2 /\ pc' = "scan"
    BY <1>1, <1>4, <1>6, <2>1
  <2>8. PlainRest(oline)'
    BY <2>4 DEF PlainRest
  <2>9. QED
    BY <1>2, <2>4, <2>6, <2>7, <2>8 DEF PassInv
<1>7. CASE count # 0 /\ ~Fits(Result)
  <2>1. pc' = "overrun" /\ level' = level
    BY <1>4, <1>7 DEF scanVars
  <2>2. QED
    BY <1>1, <1>2, <2>1 DEF PassInv
<1>8. QED
  BY <1>5, <1>6, <1>7

\* Names and values that are stored come from a statement without a '$'.
LEMMA StorePass ==
  ASSUME TypeOK, ScanInv, PassInv, StoreValue
  PROVE  PassInv'
<1>1. /\ pc = "handle" /\ HasEquals /\ ~Refused(VarName)
      /\ table' = Entered(VarName, VarValue)
      /\ pc' \in {"read", "overrun"} /\ level' = level
  BY DEF StoreValue, scanVars
<1>2. VarName \in Text /\ VarValue \in Text /\ Plain(VarName) /\ Plain(VarValue)
  BY <1>1, NamesOf DEF PassInv
<1>3. PICK key, val : key = VarName /\ val = VarValue
  OBVIOUS
<1>4. key \in Text /\ val \in Text /\ Plain(key) /\ Plain(val) /\ table' = Entered(key, val)
  BY <1>1, <1>2, <1>3
<1>5. /\ DOMAIN table = 1 .. Len(table) /\ Len(table) \in Nat
      /\ \A i \in DOMAIN table : table[i] \in Entry /\ Plain(table[i].name) /\ Plain(table[i].value)
  BY TableIs DEF PassInv, PlainTable
<1>6. PlainTable'
  <2>1. CASE Defined(key)
    <3>1. PICK first : first = Min(Named(key))
      OBVIOUS
    <3>2. first \in DOMAIN table
      BY <2>1, <3>1, ValueOf
    <3>3. table' = [table EXCEPT ![first].value = val]
      BY <2>1, <3>1, <1>4 DEF Entered
    <3>4. PICK entry : entry = [table[first] EXCEPT !.value = val]
      OBVIOUS
    <3>5. Plain(entry.name) /\ Plain(entry.value)
      BY <3>2, <3>4, <1>4, <1>5 DEF Entry
    <3>6. table' = [table EXCEPT ![first] = entry]
      BY <3>3, <3>4
    <3>7. /\ DOMAIN table' = DOMAIN table /\ table'[first] = entry
          /\ \A i \in DOMAIN table : i # first => table'[i] = table[i]
      BY <3>2, <3>6, <1>5
    <3>8. \A i \in DOMAIN table' : Plain(table'[i].name) /\ Plain(table'[i].value)
      BY <3>5, <3>7, <1>5
    <3>9. QED
      BY <3>8 DEF PlainTable, Plain
  <2>2. CASE ~Defined(key)
    <3>1. PICK t : t = table'
      OBVIOUS
    <3>2. /\ DOMAIN t = 1 .. Len(t) /\ Len(t) = Len(table) + 1
          /\ \A i \in DOMAIN table : t[i] = table[i]
          /\ t[Len(t)] = [name |-> key, value |-> val]
      BY <2>2, <3>1, <1>1, <1>3, <1>4, EnteredOf
    <3>3. \A i \in DOMAIN t : i \in DOMAIN table \/ i = Len(t)
      BY <3>2, <1>5
    <3>4. Plain(t[Len(t)].name) /\ Plain(t[Len(t)].value)
      BY <3>2, <1>4
    <3>5. \A i \in DOMAIN t : Plain(t[i].name) /\ Plain(t[i].value)
      BY <3>2, <3>3, <3>4, <1>5
    <3>6. QED
      BY <3>1, <3>5 DEF PlainTable, Plain
  <2>3. QED
    BY <2>1, <2>2
<1>7. QED
  BY <1>1, <1>6 DEF PassInv

\* A statement read begins the first call, and the others end without one.
LEMMA OtherPass ==
  ASSUME TypeOK, ScanInv, PassInv,
         \/ \E text \in Statements : ReadStatement(text)
         \/ SkipStatement \/ NewCase \/ OtherStatement \/ StoreFails \/ StoreReadsUnset
  PROVE  PassInv'
<1>1. CASE \E text \in Statements : ReadStatement(text)
  <2>1. PICK text \in Statements : ReadStatement(text)
    BY <1>1
  <2>2. text \in Text /\ text # <<>> /\ Fits(text) /\ buf \in Buffers /\ buf' = Overwrite(buf, text) /\ Enter(text)
    BY <2>1, BoundsAre, BufferType DEF Fits, Text, ReadStatement
  <2>3. inPtr' = 2 /\ PlainRest(oline') /\ count' = 0
    BY <2>2, EnterOf
  <2>4. level' = 1 /\ pc' = "scan" /\ table' = table
    BY <2>1 DEF ReadStatement
  <2>5. PlainTable' /\ PlainRest(oline)'
    BY <2>3, <2>4 DEF PassInv, PlainTable, Plain, PlainRest
  <2>6. QED
    BY <2>3, <2>4, <2>5 DEF PassInv
<1>2. CASE SkipStatement \/ NewCase \/ OtherStatement \/ StoreFails \/ StoreReadsUnset
  <2>1. pc' \in {"read", "uninitialized"} /\ level' = level /\ table' = table
    BY <1>2 DEF SkipStatement, NewCase, OtherStatement, StoreFails, StoreReadsUnset, Handled, scanVars
  <2>2. PlainTable'
    BY <2>1 DEF PassInv, PlainTable, Plain
  <2>3. QED
    BY <2>1, <2>2 DEF PassInv
<1>3. QED
  BY <1>1, <1>2

\* The invariant holds initially and in every step.
LEMMA PassInductive ==
  /\ Init => PassInv
  /\ TypeOK /\ ScanInv /\ PassInv /\ [Next]_vars => PassInv'
<1>1. Init => PassInv
  BY DEF Init, PassInv, PlainTable
<1>2. ASSUME TypeOK, ScanInv, PassInv, [Next]_vars
      PROVE  PassInv'
  <2>1. CASE UNCHANGED vars
    <3>1. PlainTable' /\ PlainRest(oline)' = PlainRest(oline) /\ DollarsFrom(2)' = DollarsFrom(2)
      BY <1>2, <2>1 DEF vars, PassInv, PlainTable, Plain, PlainRest, DollarsFrom
    <3>2. UNCHANGED <<pc, level, count, inPtr>>
      BY <2>1 DEF vars
    <3>3. QED
      BY <1>2, <3>1, <3>2 DEF PassInv
  <2>2. QED
    BY <1>2, <2>1, OverrunPass, SubstitutePass, EndPass, StorePass, OtherPass DEF Next
<1>3. QED
  BY <1>1, <1>2

\* ScriptSubstituteVariables calls itself at most once, because no name and no
\* value in the table has a '$': the statement that stores it is substituted first.
THEOREM OneMorePassIsEnough == Spec => []OnePassIsEnough
<1>1. PassInv => OnePassIsEnough
  <2> SUFFICES ASSUME PassInv
               PROVE  OnePassIsEnough
    OBVIOUS
  <2>1. level <= 2
    BY DEF PassInv
  <2>2. \A i \in DOMAIN table : "$" \notin Range(table[i].name) \cup Range(table[i].value)
    BY DEF PassInv, PlainTable, Plain, Range
  <2>3. QED
    BY <2>1, <2>2 DEF OnePassIsEnough
<1>2. Spec => []PassInv
  BY TypeInvariant, PassInductive, PTL DEF Spec
<1>3. QED
  BY <1>1, <1>2, PTL

-----------------------------------------------------------------------------
(* What a statement's author means.                                        *)

\* What follows from a position on, and the function Expansion takes it from.
Meant(text, from, i) ==
  IF i > Len(text) THEN <<>>
  ELSE IF i \in Uses(text)
       THEN VariableGetValue(Name(text, i)) \o <<Space>> \o from[NameEnd(text, i) + 1]
       ELSE <<text[i]>> \o from[i + 1]

ExpansionFrom(text) == CHOOSE from : from = [i \in 1 .. Len(text) + 2 |-> Meant(text, from, i)]

\* Expansion begins at the first position.
LEMMA ExpansionBegins == ASSUME NEW text PROVE Expansion(text) = ExpansionFrom(text)[1]
  BY DEF Expansion, ExpansionFrom, Meant

\* The expansion depends on the table and on the statement only.
LEMMA ExpansionKept ==
  ASSUME NEW text, table' = table
  PROVE  ExpansionFrom(text)' = ExpansionFrom(text)
  BY DEF ExpansionFrom, Meant, VariableGetValue, Named, Name, NameEnd, Uses

\* If something holds at the last position and of each one whose successor it holds
\* of, it holds at all of them.
LEMMA Backwards ==
  ASSUME NEW n \in Nat, NEW S, n \in S, \A k \in 1 .. n - 1 : k + 1 \in S => k \in S
  PROVE  1 .. n \subseteq S
<1> DEFINE Bad == {x \in 1 .. n : x \notin S}
<1>1. SUFFICES ASSUME Bad # {}
               PROVE  FALSE
  OBVIOUS
<1>2. Max(Bad) \in Bad /\ \A y \in Bad : Max(Bad) >= y
  BY <1>1, MaxOf
<1>3. PICK k \in Bad : \A y \in Bad : k >= y
  BY <1>2
<1>4. k # n /\ k \in 1 .. n /\ k \notin S
  BY <1>3
<1>5. k \in 1 .. n - 1 /\ k + 1 \in 1 .. n /\ ~(k >= k + 1)
  BY <1>4
<1>6. k + 1 \notin Bad
  BY <1>3, <1>5
<1>7. QED
  BY <1>4, <1>5, <1>6

\* A name ends before the space behind it, or with the text.
LEMMA NameEndOf ==
  ASSUME NEW text \in Text, NEW i \in 1 .. Len(text)
  PROVE  /\ NameEnd(text, i) \in i + 1 .. Len(text) + 1
         /\ \A j \in i + 1 .. NameEnd(text, i) - 1 : text[j] # Space
         /\ NameEnd(text, i) <= Len(text) => text[NameEnd(text, i)] = Space
<1> DEFINE S == {j \in i + 1 .. Len(text) : text[j] = Space} \cup {Len(text) + 1}
<1>1. Len(text) \in Nat /\ i \in Nat /\ i <= Len(text)
  BY DEF Text
<1>2. S \in SUBSET Nat /\ S # {}
  BY <1>1
<1>3. Min(S) \in S /\ \A y \in S : Min(S) <= y
  BY <1>2, MinOf
<1>4. PICK e : e = Min(S)
  OBVIOUS
<1>5. e \in S /\ (\A y \in S : e <= y) /\ e = NameEnd(text, i)
  BY <1>3, <1>4 DEF NameEnd
<1>6. e \in i + 1 .. Len(text) + 1 /\ (e <= Len(text) => text[e] = Space)
  BY <1>1, <1>5
<1>7. ASSUME NEW j \in i + 1 .. e - 1 PROVE text[j] # Space
  <2>1. j \in i + 1 .. Len(text) /\ ~(e <= j)
    BY <1>1, <1>6
  <2>2. j \notin S
    BY <2>1, <1>5
  <2>3. QED
    BY <2>1, <2>2
<1>8. QED
  BY <1>5, <1>6, <1>7

\* A name is the part of the text behind its '$'.
LEMMA NameOf ==
  ASSUME NEW text \in Text, NEW i \in 1 .. Len(text)
  PROVE  /\ Name(text, i) \in Text
         /\ Len(Name(text, i)) = NameEnd(text, i) - i - 1
         /\ \A k \in 1 .. Len(Name(text, i)) : Name(text, i)[k] = text[i + k]
<1>1. PICK e : e = NameEnd(text, i)
  OBVIOUS
<1>2. e \in i + 1 .. Len(text) + 1 /\ Len(text) \in Nat /\ i \in Nat
  BY <1>1, NameEndOf DEF Text
<1>3. PICK l, f : l = e - 1 /\ f = i + 1
  OBVIOUS
<1>4. f \in Nat /\ l \in Nat /\ 1 <= f /\ l <= Len(text)
  BY <1>2, <1>3
<1>5. /\ SubSeq(text, f, l) \in Text
      /\ Len(SubSeq(text, f, l)) = IF f <= l THEN l - f + 1 ELSE 0
      /\ \A k \in DOMAIN SubSeq(text, f, l) : SubSeq(text, f, l)[k] = text[k + f - 1]
  BY <1>4, PartOf
<1>6. Name(text, i) = SubSeq(text, f, l)
  BY <1>1, <1>3 DEF Name
<1>7. Len(Name(text, i)) = e - i - 1
  BY <1>2, <1>3, <1>5, <1>6
<1>8. ASSUME NEW k \in 1 .. Len(Name(text, i)) PROVE Name(text, i)[k] = text[i + k]
  <2>1. k \in DOMAIN SubSeq(text, f, l)
    BY <1>5, <1>6 DEF Text
  <2>2. k + f - 1 = i + k
    BY <1>2, <1>3, <1>7
  <2>3. QED
    BY <2>1, <2>2, <1>5, <1>6
<1>9. QED
  BY <1>1, <1>5, <1>6, <1>7, <1>8

\* The position at which an expansion goes on behind a character or a variable.
NextMeant(text, i) == IF i \in Uses(text) THEN NameEnd(text, i) + 1 ELSE i + 1

\* It is a later one, and what is meant depends on what is meant there only.
LEMMA NextMeantOf ==
  ASSUME NEW text \in Text, NEW i \in 1 .. Len(text)
  PROVE  /\ NextMeant(text, i) \in i + 1 .. Len(text) + 2
         /\ \A f, g : f[NextMeant(text, i)] = g[NextMeant(text, i)]
                        => Meant(text, f, i) = Meant(text, g, i)
<1>1. Len(text) \in Nat /\ i \in Nat
  BY DEF Text
<1>2. NextMeant(text, i) \in i + 1 .. Len(text) + 2
  BY <1>1, NameEndOf DEF NextMeant
<1>3. \A f, g : f[NextMeant(text, i)] = g[NextMeant(text, i)]
                 => Meant(text, f, i) = Meant(text, g, i)
  BY DEF NextMeant, Meant
<1>4. QED
  BY <1>2, <1>3

\* The positions from which on a function gives what is meant.
LEMMA ExpansionExists ==
  ASSUME NEW text \in Text
  PROVE  \E f : f = [i \in 1 .. Len(text) + 2 |-> Meant(text, f, i)]
<1> DEFINE n == Len(text) + 2
           Good(k) == \E f : f = [i \in k .. n |-> Meant(text, f, i)]
           S == {k \in 1 .. n : Good(k)}
<1>1. Len(text) \in Nat /\ n \in Nat
  BY DEF Text
<1>2. n \in S
  <2>1. \A f : Meant(text, f, n) = <<>>
    BY <1>1 DEF Meant
  <2>2. \A i \in n .. n : i = n
    BY <1>1
  <2>3. PICK f : f = [i \in n .. n |-> <<>>]
    OBVIOUS
  <2>4. f = [i \in n .. n |-> Meant(text, f, i)]
    BY <2>1, <2>2, <2>3
  <2>5. n \in 1 .. n
    BY <1>1
  <2>6. QED
    BY <2>4, <2>5
<1>3. ASSUME NEW k \in 1 .. n - 1, k + 1 \in S PROVE k \in S
  <2>1. PICK f : f = [i \in k + 1 .. n |-> Meant(text, f, i)]
    BY <1>3
  <2>2. PICK v : v = Meant(text, f, k)
    OBVIOUS
  <2>3. PICK g : g = [i \in k .. n |-> IF i = k THEN v ELSE f[i]]
    OBVIOUS
  <2>4. k \in 1 .. n /\ k \in Nat
    BY <1>1
  <2>5. \A i \in k + 1 .. n : i # k /\ i \in k .. n /\ g[i] = f[i]
    BY <2>3, <2>4, <1>1
  <2>6. ASSUME NEW i \in k .. n PROVE Meant(text, g, i) = Meant(text, f, i)
    <3>1. CASE i > Len(text)
      BY <3>1 DEF Meant
    <3>2. CASE i \in 1 .. Len(text)
      <4>1. PICK m : m = NextMeant(text, i)
        OBVIOUS
      <4>2. m \in i + 1 .. Len(text) + 2
        BY <3>2, <4>1, NextMeantOf
      <4>3. m \in k + 1 .. n
        BY <4>2, <2>4, <1>1
      <4>4. g[m] = f[m]
        BY <4>3, <2>5
      <4>5. QED
        BY <4>1, <4>4, <3>2, NextMeantOf
    <3>3. QED
      BY <3>1, <3>2, <2>4, <1>1
  <2>7. ASSUME NEW i \in k .. n PROVE g[i] = Meant(text, g, i)
    <3>1. CASE i = k
      BY <3>1, <2>2, <2>3, <2>6
    <3>2. CASE i # k
      <4>1. i \in k + 1 .. n
        BY <3>2, <2>4, <1>1
      <4>2. f[i] = Meant(text, f, i)
        BY <4>1, <2>1
      <4>3. QED
        BY <4>1, <4>2, <2>5, <2>6
    <3>3. QED
      BY <3>1, <3>2
  <2>8. g = [i \in k .. n |-> Meant(text, g, i)]
    BY <2>3, <2>7
  <2>9. QED
    BY <2>4, <2>8
<1> HIDE DEF n
<1>4. 1 .. n \subseteq S
  <2> HIDE DEF S
  <2>1. QED
    BY <1>1, <1>2, <1>3, Backwards
<1>5. 1 \in 1 .. n
  BY <1>1 DEF n
<1>6. Good(1)
  BY <1>4, <1>5
<1>7. QED
  BY <1>6 DEF n

\* At every position the expansion is what is meant there.
LEMMA ExpansionIs ==
  ASSUME NEW text \in Text
  PROVE  \A i \in 1 .. Len(text) + 2 :
           ExpansionFrom(text)[i] = Meant(text, ExpansionFrom(text), i)
<1>1. PICK E : E = ExpansionFrom(text)
  OBVIOUS
<1>2. E = [i \in 1 .. Len(text) + 2 |-> Meant(text, E, i)]
  BY <1>1, ExpansionExists DEF ExpansionFrom
<1>3. \A i \in 1 .. Len(text) + 2 : E[i] = Meant(text, E, i)
  BY <1>2
<1>4. QED
  BY <1>1, <1>3

\* One character, or a space, is a text.
LEMMA OneCharacter == ASSUME NEW c \in Cells PROVE <<c>> \in Text
  BY DEF Text

\* With all variables defined, the expansion is a text from every position on.
LEMMA ExpansionType ==
  ASSUME TypeOK, NEW text \in Text, Expandable(text)
  PROVE  \A i \in 1 .. Len(text) + 2 : ExpansionFrom(text)[i] \in Text
<1>1. PICK E : E = ExpansionFrom(text)
  OBVIOUS
<1> DEFINE n == Len(text) + 2
           S == {i \in 1 .. n : \A j \in i .. n : E[j] \in Text}
<1>2. Len(text) \in Nat /\ n \in Nat
  BY DEF Text
<1>3. \A i \in 1 .. n : E[i] = Meant(text, E, i)
  BY <1>1, ExpansionIs
<1>4. ASSUME NEW i \in 1 .. n, i > Len(text) PROVE E[i] \in Text
  <2>1. E[i] = Meant(text, E, i)
    BY <1>3
  <2>2. Meant(text, E, i) = <<>>
    BY <1>4 DEF Meant
  <2>3. <<>> \in Text
    BY DEF Text
  <2>4. QED
    BY <2>1, <2>2, <2>3
<1>5. n \in S
  BY <1>2, <1>4
<1>6. ASSUME NEW k \in 1 .. n - 1, k + 1 \in S PROVE k \in S
  <2>1. \A j \in k + 1 .. n : E[j] \in Text
    BY <1>6
  <2>2. k \in 1 .. n /\ k \in Nat /\ \A j \in k .. n : j = k \/ j \in k + 1 .. n
    BY <1>2
  <2>3. E[k] \in Text
    <3>1. CASE k > Len(text)
      BY <3>1, <2>2, <1>4
    <3>2. CASE k <= Len(text) /\ k \in Uses(text)
      <4>1. k \in 1 .. Len(text)
        BY <3>2, <2>2, <1>2
      <4>2. NameEnd(text, k) + 1 \in k + 1 .. n
        BY <4>1, NameEndOf, <2>2, <1>2
      <4>3. Defined(Name(text, k))
        BY <3>2 DEF Expandable
      <4>4. PICK v, m : v = VariableGetValue(Name(text, k)) /\ m = NameEnd(text, k) + 1
        OBVIOUS
      <4>5. v \in Text /\ E[m] \in Text /\ <<Space>> \in Text
        BY <4>2, <4>3, <4>4, <2>1, ValueOf, OneCharacter, BoundsAre
      <4>6. E[k] = v \o <<Space>> \o E[m]
        <5>1. ~(k > Len(text)) /\ k \in Uses(text)
          BY <3>2, <4>1, <1>2
        <5>2. Meant(text, E, k) = v \o <<Space>> \o E[m]
          BY <5>1, <4>4 DEF Meant
        <5>3. E[k] = Meant(text, E, k)
          BY <2>2, <1>3
        <5>4. QED
          BY <5>2, <5>3
      <4>7. v \o <<Space>> \in Text
        BY <4>5, ConcatOf
      <4>8. PICK u : u = v \o <<Space>>
        OBVIOUS
      <4>9. u \o E[m] \in Text
        BY <4>5, <4>7, <4>8, ConcatOf
      <4>10. QED
        BY <4>6, <4>8, <4>9
    <3>3. CASE k <= Len(text) /\ k \notin Uses(text)
      <4>1. k \in 1 .. Len(text) /\ k + 1 \in k + 1 .. n
        BY <3>3, <2>2, <1>2
      <4>2. <<text[k]>> \in Text /\ E[k + 1] \in Text
        BY <4>1, <2>1, OneCharacter DEF Text
      <4>3. E[k] = <<text[k]>> \o E[k + 1]
        <5>1. ~(k > Len(text)) /\ k \notin Uses(text)
          BY <3>3, <4>1, <1>2
        <5>2. Meant(text, E, k) = <<text[k]>> \o E[k + 1]
          BY <5>1 DEF Meant
        <5>3. E[k] = Meant(text, E, k)
          BY <2>2, <1>3
        <5>4. QED
          BY <5>2, <5>3
      <4>4. QED
        BY <4>2, <4>3, ConcatOf
    <3>4. QED
      BY <3>1, <3>2, <3>3, <2>2, <1>2
  <2>4. QED
    BY <2>1, <2>2, <2>3
<1> HIDE DEF n
<1>7. 1 .. n \subseteq S
  <2> HIDE DEF S
  <2>1. QED
    BY <1>2, <1>5, <1>6, Backwards
<1>8. \A i \in 1 .. n : E[i] \in Text
  <2>1. \A i \in 1 .. n : i \in i .. n
    BY <1>2
  <2>2. QED
    BY <1>7, <2>1
<1>9. QED
  BY <1>1, <1>8 DEF n

\* Up to the next '$' the expansion is the text itself.
LEMMA ExpansionPlain ==
  ASSUME TypeOK, NEW text \in Text, Expandable(text),
         NEW q \in 1 .. Len(text) + 1, NEW p \in 1 .. q,
         \A i \in p .. q - 1 : i \notin Uses(text)
  PROVE  ExpansionFrom(text)[p] = SubSeq(text, p, q - 1) \o ExpansionFrom(text)[q]
<1>1. PICK E : E = ExpansionFrom(text)
  OBVIOUS
<1>2. /\ Len(text) \in Nat /\ q \in Nat /\ p \in Nat /\ 1 <= p /\ p <= q /\ q <= Len(text) + 1
      /\ text \in Seq(Cells)
  BY DEF Text
<1>3. \A i \in 1 .. Len(text) + 2 : E[i] = Meant(text, E, i) /\ E[i] \in Text
  BY <1>1, ExpansionIs, ExpansionType
<1>4. E[q] \in Seq(Cells)
  BY <1>2, <1>3 DEF Text
<1> DEFINE S == {k \in 1 .. q : k >= p => E[k] = SubSeq(text, k, q - 1) \o E[q]}
<1>5. q \in S
  <2>1. SubSeq(text, q, q - 1) = <<>>
    BY <1>2, SubSeqEmpty
  <2>2. <<>> \o E[q] = E[q]
    BY <1>4, ConcatEmptySeq
  <2>3. q \in 1 .. q
    BY <1>2
  <2>4. QED
    BY <2>1, <2>2, <2>3
<1>6. ASSUME NEW k \in 1 .. q - 1, k + 1 \in S PROVE k \in S
  <2> SUFFICES ASSUME k >= p
               PROVE  E[k] = SubSeq(text, k, q - 1) \o E[q]
    BY <1>2
  <2>1. k \in Nat /\ k \in p .. q - 1 /\ k \in 1 .. Len(text) /\ q - 1 \in k .. Len(text) /\ k + 1 >= p
        /\ k \in 1 .. Len(text) + 2 /\ q - 1 \in Int /\ k + 1 \in Int
    BY <1>2
  <2>2. E[k] = <<text[k]>> \o E[k + 1]
    <3>1. E[k] = Meant(text, E, k) /\ k \notin Uses(text) /\ ~(k > Len(text))
      BY <2>1, <1>2, <1>3
    <3>2. QED
      BY <3>1 DEF Meant
  <2>3. E[k + 1] = SubSeq(text, k + 1, q - 1) \o E[q]
    BY <1>6, <2>1
  <2>4. SubSeq(text, k, q - 1) = <<text[k]>> \o SubSeq(text, k + 1, q - 1)
    BY <2>1, <1>2, SubSeqRecursiveFirst
  <2>5. PICK s, c : s = SubSeq(text, k + 1, q - 1) /\ c = <<text[k]>>
    OBVIOUS
  <2>6. s \in Seq(Cells) /\ c \in Seq(Cells)
    <3>1. \A i \in k + 1 .. q - 1 : text[i] \in Cells
      <4>1. \A i \in k + 1 .. q - 1 : i \in 1 .. Len(text)
        BY <2>1, <1>2
      <4>2. QED
        BY <4>1, <1>2
    <3>2. SubSeq(text, k + 1, q - 1) \in Seq(Cells)
      BY <3>1, <2>1, SubSeqProperties
    <3>3. QED
      BY <3>2, <2>1, <2>5, <1>2
  <2>7. (c \o s) \o E[q] = c \o (s \o E[q])
    <3>1. PICK e : e = E[q]
      OBVIOUS
    <3>2. c \in Text /\ s \in Text /\ e \in Text
      BY <3>1, <2>6, <1>4 DEF Text
    <3>3. (c \o s) \o e = c \o (s \o e)
      BY <3>2, Associative
    <3>4. QED
      BY <3>1, <3>3
  <2>8. QED
    BY <2>2, <2>3, <2>4, <2>5, <2>7
<1>7. 1 .. q \subseteq S
  <2> HIDE DEF S
  <2>1. QED
    BY <1>2, <1>5, <1>6, Backwards
<1>8. p \in 1 .. q /\ p >= p
  BY <1>2
<1>9. E[p] = SubSeq(text, p, q - 1) \o E[q]
  BY <1>7, <1>8
<1>10. QED
  BY <1>1, <1>9

\* Behind the text nothing more is meant.
LEMMA ExpansionEnds ==
  ASSUME NEW text \in Text, NEW i \in Len(text) + 1 .. Len(text) + 2
  PROVE  ExpansionFrom(text)[i] = <<>>
<1>1. Len(text) \in Nat /\ i \in 1 .. Len(text) + 2 /\ i > Len(text)
  BY DEF Text
<1>2. QED
  BY <1>1, ExpansionIs DEF Meant

\* At a '$' it is the variable's value and a space, and what follows the name.
LEMMA ExpansionAtUse ==
  ASSUME TypeOK, NEW text \in Text, Expandable(text), NEW i \in Uses(text)
  PROVE  /\ i \in 2 .. Len(text)
         /\ NameEnd(text, i) + 1 \in i + 2 .. Len(text) + 2
         /\ VariableGetValue(Name(text, i)) \in Text
         /\ ExpansionFrom(text)[NameEnd(text, i) + 1] \in Text
         /\ ExpansionFrom(text)[i]
              = VariableGetValue(Name(text, i)) \o <<Space>> \o ExpansionFrom(text)[NameEnd(text, i) + 1]
<1>1. Len(text) \in Nat /\ i \in 2 .. Len(text) /\ i \in 1 .. Len(text) /\ i \in 1 .. Len(text) + 2
      /\ ~(i > Len(text))
  BY DEF Uses, Text
<1>2. NameEnd(text, i) \in i + 1 .. Len(text) + 1
  BY <1>1, NameEndOf
<1>3. NameEnd(text, i) + 1 \in i + 2 .. Len(text) + 2 /\ NameEnd(text, i) + 1 \in 1 .. Len(text) + 2
  BY <1>1, <1>2
<1>4. VariableGetValue(Name(text, i)) \in Text
  BY ValueOf DEF Expandable
<1>5. ExpansionFrom(text)[i] = Meant(text, ExpansionFrom(text), i)
  BY <1>1, ExpansionIs
<1>6. QED
  BY <1>1, <1>3, <1>4, <1>5, ExpansionType DEF Meant

\* A text is a prefix of one that continues it.
LEMMA PrefixOf ==
  ASSUME NEW s \in Text, NEW t \in Text
  PROVE  IsPrefix(s, s \o t)
<1>1. PICK u : u = s \o t
  OBVIOUS
<1>2. /\ u \in Text /\ Len(u) = Len(s) + Len(t) /\ \A i \in 1 .. Len(s) : u[i] = s[i]
      /\ Len(s) \in Nat /\ Len(t) \in Nat
  BY <1>1, ConcatOf DEF Text
<1>3. PICK n : n = Len(s)
  OBVIOUS
<1>4. n \in Nat /\ n \in Int /\ 1 \in Nat /\ n <= Len(s) /\ n <= Len(u)
  BY <1>2, <1>3
<1>5. /\ SubSeq(s, 1, n) \in Text /\ SubSeq(u, 1, n) \in Text
      /\ Len(SubSeq(s, 1, n)) = Len(SubSeq(u, 1, n))
      /\ Len(SubSeq(s, 1, n)) <= n
  BY <1>2, <1>4, PartOf
<1>6. \A k \in 1 .. Len(SubSeq(s, 1, n)) : SubSeq(s, 1, n)[k] = s[k] /\ SubSeq(u, 1, n)[k] = u[k]
  <2>1. \A k \in 1 .. Len(SubSeq(s, 1, n)) :
          k \in DOMAIN SubSeq(s, 1, n) /\ k \in DOMAIN SubSeq(u, 1, n) /\ k + 1 - 1 = k
    BY <1>5 DEF Text
  <2>2. QED
    BY <2>1, <1>2, <1>4, PartOf
<1>7. \A k \in 1 .. Len(SubSeq(s, 1, n)) : SubSeq(s, 1, n)[k] = SubSeq(u, 1, n)[k]
  BY <1>2, <1>3, <1>4, <1>5, <1>6
<1>8. SubSeq(s, 1, n) = SubSeq(u, 1, n)
  <2>1. PICK a, b : a = SubSeq(s, 1, n) /\ b = SubSeq(u, 1, n)
    OBVIOUS
  <2>2. a \in Seq(Cells) /\ b \in Seq(Cells) /\ Len(a) = Len(b) /\ \A k \in 1 .. Len(a) : a[k] = b[k]
    BY <2>1, <1>5, <1>7 DEF Text
  <2>3. QED
    BY <2>1, <2>2, SeqEqual
<1>9. QED
  BY <1>1, <1>2, <1>3, <1>8 DEF IsPrefix

\* A statement means the same as long as the table does not change.
LEMMA MeantKept ==
  ASSUME UNCHANGED <<table, written>>
  PROVE  /\ ExpansionFrom(written)' = ExpansionFrom(written)
         /\ Expansion(written)' = Expansion(written)
         /\ Expandable(written)' = Expandable(written)
         /\ Directly(written)' = Directly(written)
         /\ EndsInVariable(written)' = EndsInVariable(written)
<1>1. ExpansionFrom(written)' = ExpansionFrom(written)
  BY DEF ExpansionFrom, Meant, VariableGetValue, Named, Name, NameEnd, Uses
<1>2. Expansion(written)' = Expansion(written)
  BY DEF Expansion, VariableGetValue, Named, Name, NameEnd, Uses
<1>3. Expandable(written)' = Expandable(written)
  BY DEF Expandable, Defined, Named, Name, NameEnd, Uses
<1>4. Directly(written)' = Directly(written) /\ EndsInVariable(written)' = EndsInVariable(written)
  BY DEF Directly, EndsInVariable, Name, NameEnd, Uses
<1>5. QED
  BY <1>1, <1>2, <1>3, <1>4

\* The buffer has a text from a position on: it is the string there.
LEMMA StringInBuffer ==
  ASSUME NEW b \in Buffers, NEW text \in Text, Len(text) <= MaxLen,
         NEW p \in 1 .. Len(text) + 1,
         \A j \in p .. Len(text) : b[j] = text[j], b[Len(text) + 1] = NUL
  PROVE  /\ End(b, p) = Len(text) + 1
         /\ String(b, p) = SubSeq(text, p, Len(text))
         /\ String(b, p) \in Text /\ Len(String(b, p)) = Len(text) + 1 - p
         /\ \A k \in 1 .. Len(text) + 1 - p : String(b, p)[k] = text[p + k - 1]
<1>1. PICK n : n = Len(text)
  OBVIOUS
<1>2. n \in Nat /\ n <= MaxLen /\ p \in Nat /\ p >= 1 /\ p <= n + 1 /\ p \in Positions
      /\ n + 1 \in p .. MaxLen + 1 /\ b[n + 1] = NUL /\ text \in Seq(Cells)
      /\ \A j \in p .. n : b[j] = text[j] /\ b[j] \in Cells
  BY <1>1, BoundsAre DEF Text, Positions
<1>3. PICK e : e = End(b, p)
  OBVIOUS
<1>4. e \in p .. MaxLen + 1 /\ b[e] = NUL /\ e <= n + 1
  BY <1>2, <1>3, EndOf
<1>5. e = n + 1
  <2>1. e \notin p .. n
    BY <1>2, <1>4, BoundsAre
  <2>2. QED
    BY <2>1, <1>2, <1>4, BoundsAre
<1>6. PICK s : s = String(b, p)
  OBVIOUS
<1>7. s \in Text /\ Len(s) = n + 1 - p /\ \A k \in 1 .. Len(s) : s[k] = b[p + k - 1]
  <2>1. s \in Text /\ Len(s) = e - p /\ \A k \in 1 .. Len(s) : s[k] = b[p + k - 1]
    BY <1>2, <1>3, <1>6, StringOf
  <2>2. e - p = n + 1 - p
    BY <1>2, <1>5
  <2>3. QED
    BY <2>1, <2>2
<1>8. \A k \in 1 .. n + 1 - p : s[k] = text[p + k - 1]
  <2>1. \A k \in 1 .. n + 1 - p : p + k - 1 \in p .. n
    BY <1>2
  <2>2. QED
    BY <2>1, <1>2, <1>7
<1>9. s = SubSeq(text, p, n)
  <2>1. \A i \in p .. n : text[i] \in Cells
    BY <1>2
  <2>2. p \in Int /\ n \in Int
    BY <1>2
  <2>3. PICK t : t = SubSeq(text, p, n)
    OBVIOUS
  <2>4. /\ t \in Seq(Cells) /\ Len(t) = IF p <= n THEN n - p + 1 ELSE 0
        /\ \A i \in 1 .. n - p + 1 : t[i] = text[p + i - 1]
    BY <2>1, <2>2, <2>3, SubSeqProperties
  <2>5. Len(t) = Len(s) /\ n - p + 1 = n + 1 - p /\ 1 .. Len(s) = 1 .. n - p + 1
    BY <2>4, <1>2, <1>7
  <2>6. \A i \in 1 .. Len(s) : s[i] = t[i]
    BY <2>4, <2>5, <1>8
  <2>7. s \in Seq(Cells)
    BY <1>7 DEF Text
  <2>8. s = t
    BY <2>4, <2>5, <2>6, <2>7, SeqEqual
  <2>9. QED
    BY <2>3, <2>8
<1>10. QED
  BY <1>1, <1>3, <1>5, <1>6, <1>7, <1>8, <1>9

\* Parts of the same characters are the same.
LEMMA SamePart ==
  ASSUME NEW b, NEW text \in Text, NEW p \in Nat, NEW q \in Nat, 1 <= p, q <= Len(text),
         \A j \in p .. q : b[j] = text[j]
  PROVE  SubSeq(b, p, q) = SubSeq(text, p, q) /\ SubSeq(text, p, q) \in Text
<1>1. \A j \in p .. q : text[j] \in Cells
  BY DEF Text
<1>2. \A j \in p .. q : b[j] \in Cells
  BY <1>1
<1>3. PICK s, t : s = SubSeq(b, p, q) /\ t = SubSeq(text, p, q)
  OBVIOUS
<1>4. /\ s \in Seq(Cells) /\ Len(s) = (IF p <= q THEN q - p + 1 ELSE 0)
      /\ \A i \in 1 .. q - p + 1 : s[i] = b[p + i - 1]
  BY <1>2, <1>3, SubSeqProperties
<1>5. /\ t \in Seq(Cells) /\ Len(t) = (IF p <= q THEN q - p + 1 ELSE 0)
      /\ \A i \in 1 .. q - p + 1 : t[i] = text[p + i - 1]
  BY <1>1, <1>3, SubSeqProperties
<1>6. ASSUME NEW i \in 1 .. Len(s) PROVE s[i] = t[i]
  <2>1. i \in 1 .. q - p + 1 /\ p + i - 1 \in p .. q
    BY <1>4
  <2>2. QED
    BY <2>1, <1>4, <1>5
<1>7. s = t
  BY <1>4, <1>5, <1>6, SeqEqual
<1>8. QED
  BY <1>3, <1>5, <1>7 DEF Text

-----------------------------------------------------------------------------
(* A statement is substituted as it is meant.                              *)

\* The expansion of the statement, and stale text only behind a variable it ends in.
AsWritten ==
  /\ Expandable(written)
  /\ IF EndsInVariable(written) THEN IsPrefix(Expansion(written), String(buf, 1))
     ELSE String(buf, 1) = Expansion(written)

\* While inPtr is in the statement, the rest is as it was read, and oline is what
\* the part before it means; no variable before it reaches over it.
WithinStatement ==
  /\ inPtr \in 2 .. Len(written) + 1
  /\ inLen = Len(written)
  /\ buf[1] = written[1]
  /\ \A j \in inPtr .. Len(written) : buf[j] = written[j]
  /\ buf[Len(written) + 1] = NUL
  /\ \A i \in Uses(written) : i < inPtr => Defined(Name(written, i)) /\ NameEnd(written, i) < inPtr
  /\ Expandable(written) => Expansion(written) = oline \o ExpansionFrom(written)[inPtr]

\* When inPtr has left the statement, it ended in a variable and oline has all of it.
BehindStatement ==
  /\ inPtr > Len(written) + 1
  /\ count # 0
  /\ EndsInVariable(written)
  /\ Expandable(written)
  /\ \E t \in Text : oline = Expansion(written) \o t

\* The second call has the result of the first, which it leaves as it is.
MeantInv ==
  /\ pc = "scan" => written \in Text /\ Len(written) \in 1 .. MaxLen
  /\ pc = "scan" /\ Directly(written) =>
       IF level = 1 THEN WithinStatement \/ BehindStatement ELSE AsWritten
  /\ SubstitutedAsWritten
  /\ OverrunOnlyWhenLong

\* The next '$' of the buffer is the next of the statement.
LEMMA DollarWithin ==
  ASSUME TypeOK, ScanInv, pc = "scan", written \in Text, Len(written) \in 1 .. MaxLen,
         WithinStatement
  PROVE  /\ DollarSigns = {i \in Uses(written) : i >= inPtr}
         /\ String(buf, inPtr) = SubSeq(written, inPtr, Len(written))
<1>1. PICK w, n, p : w = written /\ n = Len(w) /\ p = inPtr
  OBVIOUS
<1>2. /\ w \in Text /\ n \in 1 .. MaxLen /\ p \in 2 .. n + 1 /\ buf \in Buffers
      /\ n = Len(w) /\ Len(w) <= MaxLen /\ p \in 1 .. Len(w) + 1
      /\ \A j \in p .. Len(w) : buf[j] = w[j]
      /\ buf[Len(w) + 1] = NUL
  BY <1>1, BufferType, BoundsAre DEF WithinStatement
<1>3. End(buf, p) = n + 1 /\ String(buf, p) = SubSeq(w, p, n)
  BY <1>2, StringInBuffer
<1>4. \A j : j \in p .. MaxLen + 1 /\ j < n + 1 <=> j \in p .. n
  BY <1>2, BoundsAre
<1>5. DollarsFrom(p) = {j \in p .. n : w[j] = "$"}
  BY <1>2, <1>3, <1>4 DEF DollarsFrom
<1>6. \A j : j \in p .. n <=> j \in 2 .. n /\ j >= p
  BY <1>2
<1>7. DollarsFrom(p) = {i \in Uses(w) : i >= p}
  BY <1>2, <1>5, <1>6 DEF Uses
<1>8. QED
  BY <1>1, <1>3, <1>7 DEF DollarSigns

\* What is in front of the next '$' is text of the statement.
LEMMA UpToDollarWithin ==
  ASSUME TypeOK, ScanInv, pc = "scan", DollarSigns # {}, written \in Text,
         Len(written) \in 1 .. MaxLen, WithinStatement,
         NEW w, w = written, NEW p, p = inPtr, NEW d, d = Min(DollarSigns)
  PROVE  /\ d \in Uses(w) /\ p <= d /\ \A i \in p .. d - 1 : i \notin Uses(w)
         /\ SubSeq(w, p, d - 1) \in Text
         /\ UpToDollar = oline \o SubSeq(w, p, d - 1)
<1>1. PICK n : n = Len(w)
  OBVIOUS
<1>2. /\ w \in Text /\ n \in 1 .. MaxLen /\ p \in 2 .. n + 1 /\ Len(w) = n
      /\ \A j \in p .. n : buf[j] = w[j]
      /\ n \in Nat /\ p \in Nat
  BY <1>1, BoundsAre DEF WithinStatement
<1>3. DollarSigns = {i \in Uses(w) : i >= p}
  BY DollarWithin
<1>4. Uses(w) \in SUBSET Nat
  BY <1>2 DEF Uses
<1>5. d \in DollarSigns /\ \A i \in DollarSigns : d <= i
  BY <1>3, <1>4, MinOf
<1>6. d \in Uses(w) /\ d \in Nat /\ d >= p /\ d \in 2 .. n
  BY <1>2, <1>3, <1>4, <1>5 DEF Uses
<1>7. \A i \in p .. d - 1 : i \notin Uses(w)
  <2>1. \A i \in p .. d - 1 : i >= p /\ ~(d <= i)
    BY <1>2, <1>6
  <2>2. QED
    BY <2>1, <1>3, <1>5
<1>8. PICK e : e = d - 1
  OBVIOUS
<1>9. e \in Nat /\ e <= n /\ \A i \in p .. e : buf[i] = w[i]
  <2>1. e \in Nat /\ e <= n
    BY <1>2, <1>6, <1>8
  <2>2. \A i \in p .. e : i \in p .. n
    BY <2>1, <1>2
  <2>3. QED
    BY <2>1, <2>2, <1>2
<1>10. SubSeq(w, p, e) \in Text
  BY <1>2, <1>9, PartOf
<1>11. SubSeq(buf, p, e) = SubSeq(w, p, e)
  BY <1>2, <1>9, SubSeqProperties
<1>12. QED
  BY <1>6, <1>7, <1>8, <1>10, <1>11 DEF UpToDollar

\* A '$' in the statement is substituted by the value of the name that the statement
\* has behind it, and inPtr is left behind the space that ends the name.
LEMMA UseWithin ==
  ASSUME TypeOK, ScanInv, Directly(written), written \in Text, Len(written) \in 1 .. MaxLen,
         WithinStatement, SubstituteNext, pc' # "read",
         NEW w, w = written, NEW d, d = Min(DollarSigns), NEW m, m = NameEnd(w, d)
  PROVE  /\ d \in Uses(w) /\ d >= inPtr /\ \A i \in inPtr .. d - 1 : i \notin Uses(w)
         /\ Defined(Name(w, d))
         /\ inPtr' = m + 1
         /\ oline' = oline \o SubSeq(w, inPtr, d - 1) \o VariableGetValue(Name(w, d)) \o <<Space>>
         /\ SubSeq(w, inPtr, d - 1) \in Text
         /\ pc' = IF Fits(oline') /\ inPtr' \in Positions THEN "scan" ELSE "overrun"
         /\ \A j \in m + 1 .. MaxLen + 1 : buf'[j] = buf[j]
<1> DEFINE cut    == [buf EXCEPT ![d] = NUL]
           string == String(buf, d + 1)
           first  == {i \in DOMAIN string : string[i] # Space}
           from   == Min(first)
           ends   == {i \in from .. Len(string) : string[i] = Space}
           name   == SubSeq(string, from, IF ends = {} THEN Len(string) ELSE Min(ends) - 1)
           mid    == SubSeq(buf, inPtr, d - 1)
           out    == oline \o mid \o VariableGetValue(name) \o <<Space>>
<1>1. /\ pc = "scan" /\ DollarSigns # {}
      /\ first # {}
      /\ buf' = IF ends = {} THEN cut ELSE [cut EXCEPT ![d + Min(ends)] = NUL]
      /\ Defined(name)
      /\ inPtr' = Behind(d + 1, name)
      /\ oline' = out
      /\ pc' = IF Fits(out) /\ inPtr' \in Positions THEN "scan" ELSE "overrun"
  BY DEF SubstituteNext, UpToDollar, SubstituteFails
<1> HIDE DEF name, ends, from, first, string, cut, mid, out
<1>2. PICK n, p : n = Len(w) /\ p = inPtr
  OBVIOUS
<1>3. /\ w \in Text /\ n \in 1 .. MaxLen /\ p \in 2 .. n + 1 /\ buf \in Buffers
      /\ \A j \in p .. n : buf[j] = w[j]
      /\ buf[n + 1] = NUL
      /\ n \in Nat /\ p \in Nat /\ Len(w) = n
  BY <1>2, BufferType, BoundsAre DEF WithinStatement
<1>4. DollarSigns = {i \in Uses(w) : i >= p}
  BY <1>1, <1>2, DollarWithin
<1>5. Uses(w) \in SUBSET Nat
  BY <1>2, <1>3 DEF Uses
<1>6. d \in DollarSigns /\ \A i \in DollarSigns : d <= i
  BY <1>1, <1>4, <1>5, MinOf
<1>7. d \in Uses(w) /\ d \in Nat /\ d >= p /\ d \in 2 .. n /\ w[d] = "$" /\ d \in 1 .. Len(w)
  BY <1>2, <1>3, <1>4, <1>5, <1>6 DEF Uses
<1>8. \A i \in p .. d - 1 : i \notin Uses(w)
  <2>1. \A i \in p .. d - 1 : i >= p /\ ~(d <= i)
    BY <1>3, <1>7
  <2>2. QED
    BY <2>1, <1>4, <1>6
<1>9. /\ m \in d + 1 .. n + 1 /\ m \in Nat
      /\ \A j \in d + 1 .. m - 1 : w[j] # Space
      /\ m <= n => w[m] = Space
      /\ Name(w, d) \in Text /\ Len(Name(w, d)) = m - d - 1
      /\ \A k \in 1 .. Len(Name(w, d)) : Name(w, d)[k] = w[d + k]
  <2>1. m \in d + 1 .. n + 1
    BY <1>3, <1>7, NameEndOf
  <2>2. m \in Nat
    BY <2>1, <1>7
  <2>3. QED
    BY <2>1, <2>2, <1>3, <1>7, NameEndOf, NameOf
<1>10. m > d + 1 /\ d \in Nat /\ n \in Nat /\ m \in Nat /\ m <= n + 1 /\ d <= n
  <2>1. Name(w, d) # <<>>
    BY <1>7 DEF Directly
  <2>2. Len(Name(w, d)) # 0
    BY <2>1, <1>9, EmptySeq DEF Text
  <2>3. m > d + 1
    BY <2>2, <1>7, <1>9
  <2>4. QED
    BY <2>3, <1>3, <1>7, <1>9
<1>11. /\ string = SubSeq(w, d + 1, n) /\ string \in Text /\ Len(string) = n - d
       /\ DOMAIN string = 1 .. n - d
       /\ \A k \in 1 .. n - d : string[k] = w[d + k]
  <2>1. PICK q : q = d + 1
    OBVIOUS
  <2>2. q \in 1 .. Len(w) + 1 /\ q \in Nat /\ buf[Len(w) + 1] = NUL /\ Len(w) <= MaxLen
        /\ \A j \in q .. Len(w) : buf[j] = w[j]
    BY <2>1, <1>3, <1>7, BoundsAre
  <2>3. /\ String(buf, q) = SubSeq(w, q, Len(w))
        /\ String(buf, q) \in Text /\ Len(String(buf, q)) = Len(w) + 1 - q
        /\ \A k \in 1 .. Len(w) + 1 - q : String(buf, q)[k] = w[q + k - 1]
    BY <2>2, <1>3, StringInBuffer
  <2>4. Len(w) + 1 - q = n - d
    BY <2>1, <1>3, <1>7
  <2>5. \A k \in 1 .. n - d : q + k - 1 = d + k
    BY <2>1, <1>7, <1>3
  <2>6. string = String(buf, q)
    BY <2>1 DEF string
  <2>7. \A k \in 1 .. n - d : string[k] = w[d + k]
    <3>1. \A k \in 1 .. n - d : String(buf, q)[k] = w[q + k - 1]
      BY <2>3, <2>4
    <3>2. QED
      BY <3>1, <2>5, <2>6
  <2>8. DOMAIN string = 1 .. Len(string)
    BY <2>3, <2>6 DEF Text
  <2>9. QED
    BY <2>1, <2>3, <2>4, <2>6, <2>7, <2>8, <1>3
<1>12. from = 1
  <2>1. 1 \in 1 .. n - d /\ d + 1 \in d + 1 .. m - 1
    BY <1>3, <1>7, <1>9, <1>10
  <2>2. 1 \in first
    <3>1. w[d + 1] # Space
      BY <2>1, <1>9
    <3>2. string[1] = w[d + 1]
      BY <2>1, <1>11
    <3>3. 1 \in DOMAIN string
      BY <2>1, <1>11
    <3>4. QED
      BY <3>1, <3>2, <3>3 DEF first
  <2>3. first \in SUBSET Nat /\ \A k \in first : k >= 1
    BY <1>11 DEF first
  <2>4. Min(first) \in first /\ \A y \in first : Min(first) <= y
    BY <2>2, <2>3, MinOf
  <2>5. from \in first /\ from <= 1
    BY <2>2, <2>4 DEF from
  <2>6. from \in Nat /\ from >= 1
    BY <2>3, <2>5
  <2>7. QED
    BY <2>5, <2>6
<1>13. ends = {k \in 1 .. n - d : w[d + k] = Space}
  BY <1>11, <1>12 DEF ends
<1>14. ASSUME m = n + 1
       PROVE  name = SubSeq(w, d + 1, m - 1) /\ \A j \in m + 1 .. MaxLen + 1 : buf'[j] = buf[j]
  <2>1. \A k \in 1 .. n - d : d + k \in d + 1 .. m - 1
    BY <1>14, <1>3, <1>7
  <2>2. ends = {}
    BY <2>1, <1>9, <1>13
  <2>3. name = SubSeq(w, d + 1, m - 1)
    <3>1. name = SubSeq(string, 1, Len(string))
      BY <2>2, <1>12 DEF name
    <3>2. string \in Seq(Cells)
      BY <1>11 DEF Text
    <3>3. SubSeq(string, 1, Len(string)) = string
      BY <3>2, SubSeqFull
    <3>4. m - 1 = n
      BY <1>14, <1>3
    <3>5. QED
      BY <3>1, <3>3, <3>4, <1>11
  <2>4. \A j \in m + 1 .. MaxLen + 1 : buf'[j] = buf[j]
    <3>1. \A j \in m + 1 .. MaxLen + 1 : j # d /\ j \in Positions
      BY <1>10, BoundsAre DEF Positions
    <3>2. buf' = cut
      BY <2>2, <1>1
    <3>3. QED
      BY <3>1, <3>2, <1>3 DEF cut, Buffers
  <2>5. QED
    BY <2>3, <2>4
<1>15. ASSUME m <= n
       PROVE  name = SubSeq(w, d + 1, m - 1) /\ \A j \in m + 1 .. MaxLen + 1 : buf'[j] = buf[j]
  <2>1. m - d \in 1 .. n - d /\ d + (m - d) = m /\ m - d \in ends
    <3>1. m - d \in 1 .. n - d /\ d + (m - d) = m
      BY <1>15, <1>10
    <3>2. w[d + (m - d)] = Space
      BY <3>1, <1>9, <1>15
    <3>3. QED
      BY <3>1, <3>2, <1>13
  <2>2. \A k \in ends : k >= m - d
    <3>1. ASSUME NEW k \in ends, k < m - d PROVE FALSE
      <4>1. d + k \in d + 1 .. m - 1 /\ w[d + k] = Space
        <5>1. k \in 1 .. n - d /\ w[d + k] = Space
          BY <3>1, <1>13
        <5>2. d + k \in d + 1 .. m - 1
          BY <5>1, <3>1, <1>10
        <5>3. QED
          BY <5>1, <5>2
      <4>2. QED
        BY <4>1, <1>9
    <3>2. QED
      BY <3>1, <2>1, <1>3, <1>7, <1>13
  <2>3. Min(ends) = m - d
    <3>1. ends \in SUBSET Nat /\ ends # {}
      BY <2>1, <1>13
    <3>2. Min(ends) \in ends /\ \A y \in ends : Min(ends) <= y
      BY <3>1, MinOf
    <3>3. PICK e : e = Min(ends)
      OBVIOUS
    <3>4. e \in Nat /\ e <= m - d /\ e >= m - d /\ m - d \in Nat
      BY <3>1, <3>2, <3>3, <2>1, <2>2
    <3>5. QED
      BY <3>3, <3>4
  <2>4. ends # {}
    BY <2>1
  <2>5. name = SubSeq(w, d + 1, m - 1)
    <3>1. PICK l : l = m - d - 1
      OBVIOUS
    <3>2. l \in Nat /\ l \in Int /\ Min(ends) - 1 = l /\ l <= n - d /\ l = (m - 1) - (d + 1) + 1
          /\ d + 1 \in Int /\ m - 1 \in Int /\ d + 1 <= m - 1 /\ 1 <= l
      <4>1. Min(ends) = l + 1
        BY <3>1, <2>3, <1>10
      <4>2. l \in Nat /\ 1 <= l /\ l <= n - d
        BY <3>1, <1>10, <1>15
      <4>3. l = (m - 1) - (d + 1) + 1 /\ d + 1 \in Int /\ m - 1 \in Int /\ d + 1 <= m - 1
        BY <3>1, <1>10
      <4>4. QED
        BY <4>1, <4>2, <4>3
    <3>3. name = SubSeq(string, 1, l)
      BY <2>4, <3>2, <1>12 DEF name
    <3>4. \A k \in 1 .. l : k \in 1 .. n - d
      BY <3>2, <1>3, <1>7
    <3>5. \A k \in 1 .. l : string[k] \in Cells
      <4>1. \A k \in 1 .. Len(string) : string[k] \in Cells
        BY <1>11, ElementOfSeq DEF Text
      <4>2. QED
        BY <4>1, <3>4, <1>11
    <3>6. PICK s : s = SubSeq(string, 1, l)
      OBVIOUS
    <3>7. s \in Seq(Cells) /\ Len(s) = l /\ \A k \in 1 .. l : s[k] = string[k]
      <4>1. /\ s \in Seq(Cells) /\ Len(s) = (IF 1 <= l THEN l - 1 + 1 ELSE 0)
            /\ \A k \in 1 .. l - 1 + 1 : s[k] = string[1 + k - 1]
        BY <3>2, <3>5, <3>6, SubSeqProperties
      <4>2. l - 1 + 1 = l /\ \A k \in 1 .. l : 1 + k - 1 = k
        BY <3>2
      <4>3. QED
        BY <4>1, <4>2, <3>2
    <3>8. PICK t : t = Name(w, d)
      OBVIOUS
    <3>9. t \in Seq(Cells) /\ Len(t) = l /\ \A k \in 1 .. l : t[k] = w[d + k]
      BY <3>1, <3>8, <1>9 DEF Text
    <3>10. \A k \in 1 .. Len(s) : s[k] = t[k]
      BY <3>4, <3>7, <3>9, <1>11
    <3>11. s = t
      BY <3>7, <3>9, <3>10, SeqEqual
    <3>12. QED
      BY <3>3, <3>6, <3>8, <3>11 DEF Name
  <2>6. \A j \in m + 1 .. MaxLen + 1 : buf'[j] = buf[j]
    <3>1. \A j \in m + 1 .. MaxLen + 1 : j # d /\ j # m /\ j \in Positions
      BY <1>10, BoundsAre DEF Positions
    <3>2. d + Min(ends) = m
      BY <2>1, <2>3
    <3>3. buf' = [cut EXCEPT ![m] = NUL]
      BY <2>4, <3>2, <1>1
    <3>4. QED
      BY <3>1, <3>3, <1>3 DEF cut, Buffers
  <2>7. QED
    BY <2>5, <2>6
<1>16. name = Name(w, d) /\ \A j \in m + 1 .. MaxLen + 1 : buf'[j] = buf[j]
  <2>1. m = n + 1 \/ m <= n
    BY <1>3, <1>9
  <2>2. QED
    BY <2>1, <1>14, <1>15 DEF Name
<1>17. inPtr' = m + 1
  <2>1. Len(name) = m - d - 1
    BY <1>9, <1>16
  <2>2. inPtr' = (d + 1) + Len(name) + 1
    BY <1>1 DEF Behind
  <2>3. QED
    BY <2>1, <2>2, <1>7, <1>9
<1>18. mid = SubSeq(w, p, d - 1) /\ SubSeq(w, p, d - 1) \in Text
  <2>1. PICK q : q = d - 1
    OBVIOUS
  <2>2. q \in Nat /\ 1 <= p /\ q <= Len(w) /\ \A j \in p .. q : buf[j] = w[j]
    BY <2>1, <1>3, <1>7
  <2>3. SubSeq(buf, p, q) = SubSeq(w, p, q) /\ SubSeq(w, p, q) \in Text
    BY <2>2, <1>3, SamePart
  <2>4. QED
    BY <2>1, <2>3, <1>2 DEF mid
<1>19. oline' = oline \o SubSeq(w, p, d - 1) \o VariableGetValue(Name(w, d)) \o <<Space>>
  BY <1>1, <1>16, <1>18 DEF out
<1>20. QED
  BY <1>1, <1>2, <1>7, <1>8, <1>16, <1>17, <1>18, <1>19

\* A defined name has no '$' in it, so no variable begins in the name of another.
LEMMA UsesBefore ==
  ASSUME TypeOK, PlainTable, NEW w \in Text, NEW p \in Nat, NEW d \in Uses(w), p <= d,
         NEW m, m = NameEnd(w, d), Defined(Name(w, d)),
         \A i \in p .. d - 1 : i \notin Uses(w),
         \A i \in Uses(w) : i < p => Defined(Name(w, i)) /\ NameEnd(w, i) < p
  PROVE  \A i \in Uses(w) : i < m + 1 => Defined(Name(w, i)) /\ NameEnd(w, i) < m + 1
<1>1. Len(w) \in Nat /\ d \in Nat /\ d \in 1 .. Len(w)
  BY DEF Uses, Text
<1>2. /\ m \in d + 1 .. Len(w) + 1 /\ m \in Nat
      /\ m <= Len(w) => w[m] = Space
      /\ Len(Name(w, d)) = m - d - 1
      /\ \A k \in 1 .. Len(Name(w, d)) : Name(w, d)[k] = w[d + k]
      /\ Name(w, d) \in Text
  <2>1. m \in d + 1 .. Len(w) + 1
    BY <1>1, NameEndOf
  <2>2. QED
    BY <2>1, <1>1, NameEndOf, NameOf
<1>3. Plain(Name(w, d))
  <2>1. PICK e : e = Min(Named(Name(w, d)))
    OBVIOUS
  <2>2. e \in DOMAIN table /\ table[e].name = Name(w, d)
    BY <2>1, ValueOf
  <2>3. QED
    BY <2>2 DEF PlainTable
<1>4. ASSUME NEW i \in d + 1 .. m - 1 PROVE w[i] # "$"
  <2>1. i - d \in 1 .. m - d - 1 /\ d + (i - d) = i
    BY <1>1, <1>2
  <2>2. PICK name : name = Name(w, d)
    OBVIOUS
  <2>3. i - d \in 1 .. Len(name) /\ i - d \in DOMAIN name
    BY <2>1, <2>2, <1>2 DEF Text
  <2>4. name[i - d] # "$"
    BY <2>2, <2>3, <1>3 DEF Plain
  <2>5. QED
    BY <2>1, <2>2, <2>3, <2>4, <1>2
<1>5. ASSUME NEW i \in Uses(w), i < m + 1
      PROVE  Defined(Name(w, i)) /\ NameEnd(w, i) < m + 1
  <2>1. i \in Nat /\ i \in 2 .. Len(w) /\ w[i] = "$"
    BY <1>1 DEF Uses
  <2>2. CASE i < p
    <3>1. Defined(Name(w, i)) /\ NameEnd(w, i) < p
      BY <2>2
    <3>2. NameEnd(w, i) \in Nat
      BY <2>1, <1>1, NameEndOf
    <3>3. QED
      BY <3>1, <3>2, <1>1, <1>2
  <2>3. CASE i >= p
    <3>1. i \notin p .. d - 1 /\ i \notin d + 1 .. m - 1
      BY <2>1, <1>4
    <3>2. i # m
      <4>1. ASSUME i = m PROVE FALSE
        <5>1. w[m] = Space
          BY <4>1, <2>1, <1>1, <1>2
        <5>2. QED
          BY <4>1, <5>1, <2>1 DEF Space
      <4>2. QED
        BY <4>1
    <3>3. i = d
      BY <3>1, <3>2, <2>1, <2>3, <1>1, <1>2, <1>5
    <3>4. QED
      BY <3>3, <1>1, <1>2
  <2>4. QED
    BY <2>1, <2>2, <2>3
<1>6. QED
  BY <1>5

\* A step of the search takes the expansion from inPtr on to what it leaves.
LEMMA ExpansionStep ==
  ASSUME TypeOK, NEW w \in Text, Expandable(w), NEW p \in 2 .. Len(w) + 1, NEW d \in Uses(w), p <= d,
         \A i \in p .. d - 1 : i \notin Uses(w),
         SubSeq(w, p, d - 1) \in Text,
         NEW o \in Text, Expansion(w) = o \o ExpansionFrom(w)[p]
  PROVE  /\ Expansion(w) = (o \o SubSeq(w, p, d - 1) \o VariableGetValue(Name(w, d)) \o <<Space>>)
                             \o ExpansionFrom(w)[NameEnd(w, d) + 1]
         /\ ExpansionFrom(w)[NameEnd(w, d) + 1] \in Text
<1>1. PICK s, v, r, c : /\ s = SubSeq(w, p, d - 1) /\ v = VariableGetValue(Name(w, d))
                        /\ r = ExpansionFrom(w)[NameEnd(w, d) + 1] /\ c = <<Space>>
  OBVIOUS
<1>2. /\ v \in Text /\ r \in Text /\ d \in 2 .. Len(w)
      /\ ExpansionFrom(w)[d] = v \o c \o r
  BY <1>1, ExpansionAtUse
<1>3. s \in Text /\ c \in Text
  BY <1>1, OneCharacter, BoundsAre
<1>4. ExpansionFrom(w)[p] = s \o ExpansionFrom(w)[d]
  <2>1. Len(w) \in Nat
    BY DEF Text
  <2>2. d \in 1 .. Len(w) + 1 /\ p \in 1 .. d
    BY <2>1, <1>2
  <2>3. QED
    BY <2>2, <1>1, ExpansionPlain
<1> DEFINE cat(x, y) == x \o y
<1>5. Expansion(w) = cat(o, cat(s, cat(cat(v, c), r)))
  BY <1>1, <1>2, <1>4
<1>6. /\ \A x, y, z \in Text : cat(cat(x, y), z) = cat(x, cat(y, z))
      /\ \A x, y \in Text : cat(x, y) \in Text
  BY Associative, ConcatOf
<1> HIDE DEF cat
<1>7. o \in Text /\ s \in Text /\ v \in Text /\ c \in Text /\ r \in Text
  BY <1>2, <1>3
<1>8. cat(v, c) \in Text /\ cat(cat(v, c), r) \in Text /\ cat(o, s) \in Text
  BY <1>6, <1>7
<1>9. cat(o, cat(s, cat(cat(v, c), r))) = cat(cat(o, s), cat(cat(v, c), r))
  BY <1>6, <1>7, <1>8
<1>10. cat(cat(o, s), cat(cat(v, c), r)) = cat(cat(cat(o, s), cat(v, c)), r)
  BY <1>6, <1>7, <1>8
<1>11. cat(cat(o, s), cat(v, c)) = cat(cat(cat(o, s), v), c)
  BY <1>6, <1>7, <1>8
<1>12. Expansion(w) = cat(cat(cat(cat(o, s), v), c), r)
  BY <1>5, <1>9, <1>10, <1>11
<1>13. QED
  BY <1>1, <1>2, <1>12 DEF cat

\* A statement that is substituted goes on as it is meant.
LEMMA WithinStep ==
  ASSUME TypeOK, ScanInv, PlainTable, Directly(written), written \in Text,
         Len(written) \in 1 .. MaxLen, WithinStatement, SubstituteNext, pc' # "read"
  PROVE  /\ pc' = "scan" => WithinStatement' \/ BehindStatement'
         /\ pc' = "overrun" /\ ~EndsInVariable(written) /\ Expandable(written)
              => Len(Expansion(written)) > MaxLen
<1>1. PICK w, n, d, m : w = written /\ n = Len(w) /\ d = Min(DollarSigns) /\ m = NameEnd(w, d)
  OBVIOUS
<1>2. /\ d \in Uses(w) /\ d >= inPtr /\ \A i \in inPtr .. d - 1 : i \notin Uses(w)
      /\ Defined(Name(w, d))
      /\ inPtr' = m + 1
      /\ oline' = oline \o SubSeq(w, inPtr, d - 1) \o VariableGetValue(Name(w, d)) \o <<Space>>
      /\ SubSeq(w, inPtr, d - 1) \in Text
      /\ pc' = IF Fits(oline') /\ inPtr' \in Positions THEN "scan" ELSE "overrun"
      /\ \A j \in m + 1 .. MaxLen + 1 : buf'[j] = buf[j]
  BY <1>1, UseWithin
<1>3. /\ w \in Text /\ n \in 1 .. MaxLen /\ inPtr \in 2 .. Len(w) + 1 /\ inPtr \in Nat /\ oline \in Text
      /\ \A j \in inPtr .. n : buf[j] = w[j]
      /\ buf[n + 1] = NUL /\ inLen = n /\ buf[1] = w[1]
      /\ \A i \in Uses(w) : i < inPtr => Defined(Name(w, i)) /\ NameEnd(w, i) < inPtr
      /\ Expandable(w) => Expansion(w) = oline \o ExpansionFrom(w)[inPtr]
      /\ Len(w) = n /\ n \in Nat /\ d \in Nat /\ d \in 1 .. n
  <2>1. w \in Text /\ n \in 1 .. MaxLen /\ oline \in Text /\ Len(w) = n
    BY <1>1 DEF TypeOK
  <2>2. n \in Nat
    BY <2>1, BoundsAre
  <2>3. d \in 1 .. n /\ d \in Nat
    BY <1>2, <2>1, <2>2 DEF Uses
  <2>4. inPtr \in 2 .. Len(w) + 1 /\ inPtr \in Nat
    BY <1>1, <2>1, <2>2 DEF WithinStatement
  <2>5. /\ \A j \in inPtr .. n : buf[j] = w[j]
        /\ buf[n + 1] = NUL /\ inLen = n /\ buf[1] = w[1]
    BY <1>1 DEF WithinStatement
  <2>6. \A i \in Uses(w) : i < inPtr => Defined(Name(w, i)) /\ NameEnd(w, i) < inPtr
    BY <1>1 DEF WithinStatement
  <2>7. Expandable(w) => Expansion(w) = oline \o ExpansionFrom(w)[inPtr]
    BY <1>1 DEF WithinStatement
  <2>8. QED
    BY <2>1, <2>2, <2>3, <2>4, <2>5, <2>6, <2>7
<1>4. m \in d + 1 .. n + 1 /\ m \in Nat /\ m >= inPtr
  <2>1. m \in d + 1 .. n + 1
    BY <1>1, <1>3, NameEndOf
  <2>2. d \in Nat /\ n \in Nat /\ inPtr \in Nat /\ d >= inPtr
    BY <1>2, <1>3
  <2>3. QED
    BY <2>1, <2>2
<1>5. \A i \in Uses(w) : i < m + 1 => Defined(Name(w, i)) /\ NameEnd(w, i) < m + 1
  BY <1>1, <1>2, <1>3, UsesBefore
<1>6. Expandable(w) => /\ Expansion(w) = oline' \o ExpansionFrom(w)[m + 1]
                       /\ ExpansionFrom(w)[m + 1] \in Text
  <2> SUFFICES ASSUME Expandable(w)
               PROVE  /\ Expansion(w) = oline' \o ExpansionFrom(w)[m + 1]
                      /\ ExpansionFrom(w)[m + 1] \in Text
    OBVIOUS
  <2>1. PICK p, o : p = inPtr /\ o = oline
    OBVIOUS
  <2>2. /\ p \in 2 .. Len(w) + 1 /\ d \in Uses(w) /\ p <= d /\ w \in Text /\ o \in Text
        /\ \A i \in p .. d - 1 : i \notin Uses(w)
        /\ SubSeq(w, p, d - 1) \in Text
        /\ Expansion(w) = o \o ExpansionFrom(w)[p]
    BY <2>1, <1>2, <1>3
  <2>3. /\ Expansion(w) = (o \o SubSeq(w, p, d - 1) \o VariableGetValue(Name(w, d)) \o <<Space>>)
                             \o ExpansionFrom(w)[NameEnd(w, d) + 1]
        /\ ExpansionFrom(w)[NameEnd(w, d) + 1] \in Text
    BY <2>2, ExpansionStep
  <2>4. QED
    BY <2>1, <2>3, <1>1, <1>2
<1>7. /\ UNCHANGED <<table, written, inLen>> /\ buf'[1] = buf[1]
      /\ count' = count + 1 /\ oline' \in Text
  BY <1>2, NextVariable DEF SubstituteNext, SubstituteFails
<1>8. /\ ExpansionFrom(written)' = ExpansionFrom(w)
      /\ Expansion(written)' = Expansion(w)
      /\ Expandable(written)' = Expandable(w)
      /\ EndsInVariable(written)' = EndsInVariable(w)
      /\ Uses(written)' = Uses(w)
      /\ written' = w
  <2>1. Uses(written)' = Uses(written)
    BY <1>7 DEF Uses
  <2>2. QED
    BY <2>1, <1>1, <1>7, MeantKept
<1>9. \A i : /\ Name(written, i)' = Name(w, i) /\ NameEnd(written, i)' = NameEnd(w, i)
             /\ Defined(Name(written, i))' = Defined(Name(w, i))
  BY <1>1, <1>7 DEF Defined, Named, Name, NameEnd
<1>10. CASE m <= n
  <2>1. WithinStatement'
    <3>1. /\ inPtr' \in 2 .. Len(w) + 1 /\ inLen' = n /\ buf'[1] = w[1]
          /\ buf'[n + 1] = NUL
          /\ \A j \in m + 1 .. n : buf'[j] = w[j]
      <4>1. m + 1 \in 2 .. n + 1 /\ n + 1 \in m + 1 .. MaxLen + 1
            /\ \A j \in m + 1 .. n : j \in m + 1 .. MaxLen + 1 /\ j \in inPtr .. n
        BY <1>3, <1>4, <1>10, BoundsAre
      <4>2. QED
        BY <4>1, <1>2, <1>3, <1>7
    <3>2. \A i \in Uses(w) : i < inPtr' => Defined(Name(w, i)) /\ NameEnd(w, i) < inPtr'
      BY <1>2, <1>5
    <3>3. Expandable(w) => Expansion(w) = oline' \o ExpansionFrom(w)[inPtr']
      BY <1>2, <1>6
    <3>4. /\ inPtr' \in 2 .. Len(written)' + 1 /\ inLen' = Len(written)' /\ buf'[1] = written'[1]
          /\ \A j \in inPtr' .. Len(written)' : buf'[j] = written'[j]
          /\ buf'[Len(written)' + 1] = NUL
      BY <3>1, <1>1, <1>2, <1>3, <1>8
    <3>5. QED
      BY <3>2, <3>3, <3>4, <1>8, <1>9 DEF WithinStatement
  <2>2. pc' = "overrun" /\ Expandable(w) => Len(Expansion(w)) > MaxLen
    <3>1. m + 1 \in Positions
      BY <1>3, <1>4, <1>10, BoundsAre DEF Positions
    <3>2. SUFFICES ASSUME pc' = "overrun", Expandable(w)
                   PROVE  Len(Expansion(w)) > MaxLen
      OBVIOUS
    <3>3. ~(Len(oline') <= MaxLen)
      BY <3>1, <3>2, <1>2 DEF Fits
    <3>4. PICK o, r : o = oline' /\ r = ExpansionFrom(w)[m + 1]
      OBVIOUS
    <3>5. o \in Text /\ r \in Text /\ Expansion(w) = o \o r
      BY <3>2, <3>4, <1>6, <1>7
    <3>6. Len(o \o r) = Len(o) + Len(r) /\ Len(o) \in Nat /\ Len(r) \in Nat
      BY <3>5, ConcatOf DEF Text
    <3>7. QED
      BY <3>3, <3>4, <3>5, <3>6, BoundsAre
  <2>3. QED
    BY <2>1, <2>2, <1>1
<1>11. CASE m = n + 1
  <2>1. EndsInVariable(w)
    <3>1. NameEnd(w, d) > Len(w)
      BY <1>1, <1>3, <1>11
    <3>2. QED
      BY <3>1, <1>2 DEF EndsInVariable
  <2>2. Expandable(w)
    <3>1. \A i \in Uses(w) : i < m + 1
      BY <1>3, <1>11 DEF Uses
    <3>2. QED
      BY <3>1, <1>1, <1>5 DEF Expandable, Directly
  <2>3. ExpansionFrom(w)[m + 1] = <<>>
    <3>1. m + 1 \in Len(w) + 1 .. Len(w) + 2
      BY <1>3, <1>11
    <3>2. QED
      BY <3>1, <1>3, ExpansionEnds
  <2>4. \E t \in Text : oline' = Expansion(w) \o t
    <3>1. Expansion(w) = oline' \o <<>>
      BY <2>2, <2>3, <1>6
    <3>2. PICK o : o = oline'
      OBVIOUS
    <3>3. o \in Seq(Cells)
      BY <3>2, <1>7 DEF Text
    <3>4. o \o <<>> = o
      BY <3>3, ConcatEmptySeq
    <3>5. <<>> \in Text
      BY DEF Text
    <3>6. oline' = Expansion(w) \o <<>>
      BY <3>1, <3>2, <3>4
    <3>7. QED
      BY <3>5, <3>6
  <2>5. inPtr' > Len(w) + 1 /\ count' # 0
    <3>1. count \in Nat
      BY DEF TypeOK
    <3>2. QED
      BY <3>1, <1>2, <1>3, <1>7, <1>11
  <2>6. BehindStatement'
    BY <2>1, <2>2, <2>4, <2>5, <1>8 DEF BehindStatement
  <2>7. QED
    BY <2>1, <2>6, <1>1
<1>12. QED
  BY <1>3, <1>4, <1>10, <1>11

\* strcpy puts a text in the buffer as its string.
LEMMA CopiedBack ==
  ASSUME NEW b \in Buffers, NEW t \in Text, t # <<>>, Fits(t)
  PROVE  Overwrite(b, t) \in Buffers /\ String(Overwrite(b, t), 1) = t
<1>1. PICK c : c = Overwrite(b, t)
  OBVIOUS
<1>2. /\ c \in Buffers /\ \A i \in 1 .. Len(t) : c[i] = t[i]
      /\ c[Len(t) + 1] = NUL
  BY <1>1, OverwriteOf
<1>3. Len(t) <= MaxLen /\ 1 \in 1 .. Len(t) + 1 /\ t \in Seq(Cells)
  BY BoundsAre DEF Fits, Text
<1>4. String(c, 1) = SubSeq(t, 1, Len(t))
  BY <1>2, <1>3, StringInBuffer
<1>5. SubSeq(t, 1, Len(t)) = t
  BY <1>3, SubSeqFull
<1>6. QED
  BY <1>1, <1>2, <1>4, <1>5

\* When no '$' is left in the statement, oline and the rest are its expansion.
LEMMA EndWithin ==
  ASSUME TypeOK, ScanInv, PassInv, pc = "scan", Directly(written), written \in Text,
         Len(written) \in 1 .. MaxLen, WithinStatement, DollarSigns = {}
  PROVE  /\ Expandable(written) /\ ~EndsInVariable(written)
         /\ Expansion(written) = Result
         /\ count = 0 => Expansion(written) = String(buf, 1)
<1>1. PICK w, n, p : w = written /\ n = Len(w) /\ p = inPtr
  OBVIOUS
<1>2. /\ w \in Text /\ n \in 1 .. MaxLen /\ p \in 2 .. n + 1 /\ n \in Nat /\ p \in Nat /\ Len(w) = n
      /\ \A j \in p .. n : buf[j] = w[j]
      /\ buf[n + 1] = NUL /\ inLen = n /\ buf[1] = w[1]
      /\ \A i \in Uses(w) : i < p => Defined(Name(w, i)) /\ NameEnd(w, i) < p
      /\ Expandable(w) => Expansion(w) = oline \o ExpansionFrom(w)[p]
      /\ oline \in Text
  BY <1>1 DEF WithinStatement, TypeOK
<1>3. /\ \A i \in Uses(w) : ~(i >= p)
      /\ String(buf, p) = SubSeq(w, p, n)
  BY <1>1, DollarWithin
<1>4. \A i \in Uses(w) : i \in Nat /\ i \in 1 .. Len(w) /\ i < p /\ Defined(Name(w, i)) /\ NameEnd(w, i) < p
  <2>1. \A i \in Uses(w) : i \in Nat /\ i \in 1 .. Len(w)
    BY <1>2 DEF Uses
  <2>2. \A i \in Uses(w) : i < p
    BY <2>1, <1>2, <1>3
  <2>3. QED
    BY <2>1, <2>2, <1>2
<1>5. Expandable(w)
  BY <1>1, <1>4 DEF Expandable, Directly
<1>6. ~EndsInVariable(w)
  <2>1. ASSUME NEW i \in Uses(w) PROVE ~(NameEnd(w, i) > Len(w))
    <3>1. NameEnd(w, i) \in i + 1 .. Len(w) + 1 /\ i \in Nat
      BY <1>2, <1>4, NameEndOf
    <3>2. NameEnd(w, i) < p /\ NameEnd(w, i) \in Nat
      BY <3>1, <1>4
    <3>3. QED
      BY <3>2, <1>2
  <2>2. QED
    BY <2>1 DEF EndsInVariable
<1>7. ExpansionFrom(w)[n + 1] = <<>>
  <2>1. n + 1 \in Len(w) + 1 .. Len(w) + 2
    BY <1>2
  <2>2. QED
    BY <2>1, <1>2, ExpansionEnds
<1>8. ASSUME NEW q \in Nat, q \in 1 .. n + 1, \A i \in q .. n : i \notin Uses(w)
      PROVE  ExpansionFrom(w)[q] = SubSeq(w, q, n) /\ SubSeq(w, q, n) \in Text
  <2>1. PICK e : e = n + 1
    OBVIOUS
  <2>2. e \in 1 .. Len(w) + 1 /\ q \in 1 .. e /\ e - 1 = n
    BY <2>1, <1>2, <1>8
  <2>3. ExpansionFrom(w)[q] = SubSeq(w, q, e - 1) \o ExpansionFrom(w)[e]
    BY <2>2, <1>2, <1>5, <1>8, ExpansionPlain
  <2>4. PICK s : s = SubSeq(w, q, n)
    OBVIOUS
  <2>5. s \in Text
    <3>1. 1 <= q /\ n <= Len(w)
      BY <1>2, <1>8
    <3>2. QED
      BY <3>1, <2>4, <1>2, PartOf
  <2>6. s \o <<>> = s
    BY <2>5, ConcatEmptySeq DEF Text
  <2>7. QED
    BY <2>1, <2>2, <2>3, <2>4, <2>5, <2>6, <1>7
<1>9. ExpansionFrom(w)[p] = SubSeq(w, p, n) /\ SubSeq(w, p, n) \in Text
  <2>1. p \in 1 .. n + 1 /\ \A i \in p .. n : i >= p
    BY <1>2
  <2>2. QED
    BY <2>1, <1>2, <1>3, <1>8
<1>10. Expansion(w) = oline \o String(buf, p)
  BY <1>2, <1>3, <1>5, <1>9
<1>11. Expansion(w) = Result
  <2>1. CASE inLen > inPtr - 1
    BY <2>1, <1>1, <1>10 DEF Result
  <2>2. CASE ~(inLen > inPtr - 1)
    <3>1. n < p /\ p \in Int /\ n \in Int
      BY <2>2, <1>1, <1>2
    <3>2. SubSeq(w, p, n) = <<>>
      BY <3>1, SubSeqEmpty
    <3>3. oline \o <<>> = oline
      BY <1>2, ConcatEmptySeq DEF Text
    <3>4. QED
      BY <2>2, <3>2, <3>3, <1>3, <1>10 DEF Result
  <2>3. QED
    BY <2>1, <2>2
<1>12. ASSUME count = 0 PROVE Expansion(w) = String(buf, 1)
  <2>1. p = 2
    BY <1>1, <1>12 DEF PassInv
  <2>2. \A j \in 1 .. n : buf[j] = w[j]
    <3>1. \A j \in 1 .. n : j = 1 \/ j \in p .. n
      BY <2>1, <1>2
    <3>2. QED
      BY <3>1, <1>2
  <2>3. buf \in Buffers /\ Len(w) <= MaxLen /\ 1 \in 1 .. Len(w) + 1 /\ buf[Len(w) + 1] = NUL
        /\ \A j \in 1 .. Len(w) : buf[j] = w[j]
    BY <2>2, <1>2, BufferType, BoundsAre
  <2>4. String(buf, 1) = SubSeq(w, 1, Len(w))
    BY <2>3, <1>2, StringInBuffer
  <2>5. 1 \in 1 .. n + 1 /\ \A i \in 1 .. n : i \notin Uses(w)
    <3>1. \A i \in Uses(w) : i >= 2
      BY <1>2 DEF Uses
    <3>2. \A i \in Uses(w) : i < 2 /\ i \in Nat
      BY <2>1, <1>4
    <3>3. QED
      BY <3>1, <3>2, <1>2
  <2>6. ExpansionFrom(w)[1] = SubSeq(w, 1, n)
    BY <2>5, <1>8
  <2>7. QED
    BY <2>4, <2>6, <1>2, ExpansionBegins
<1>13. QED
  BY <1>1, <1>5, <1>6, <1>11, <1>12

\* When inPtr is behind the statement, the result begins with its expansion.
LEMMA EndBehind ==
  ASSUME TypeOK, ScanInv, pc = "scan", written \in Text, BehindStatement, DollarSigns = {}
  PROVE  IsPrefix(Expansion(written), Result)
<1>1. PICK e : e = Expansion(written)
  OBVIOUS
<1>2. PICK t \in Text : oline = e \o t
  BY <1>1 DEF BehindStatement
<1>3. e \in Text
  <2>1. 1 \in 1 .. Len(written) + 2
    BY DEF Text
  <2>2. QED
    BY <2>1, <1>1, ExpansionType, ExpansionBegins DEF BehindStatement
<1>4. PICK u : u = String(buf, inPtr)
  OBVIOUS
<1>5. u \in Text
  <2>1. inPtr \in Positions
    BY BoundsAre DEF ScanInv, Positions
  <2>2. QED
    BY <2>1, <1>4, StringIsPlain DEF DollarSigns
<1>6. CASE Result = oline
  BY <1>1, <1>2, <1>3, <1>6, PrefixOf
<1>7. CASE Result = oline \o u
  <2>1. (e \o t) \o u = e \o (t \o u)
    BY <1>3, <1>5, Associative
  <2>2. PICK v : v = t \o u
    OBVIOUS
  <2>3. v \in Text
    BY <2>2, <1>5, ConcatOf
  <2>4. IsPrefix(e, e \o v)
    BY <2>3, <1>3, PrefixOf
  <2>5. Result = e \o v
    BY <2>1, <2>2, <1>2, <1>7
  <2>6. QED
    BY <2>4, <2>5, <1>1
<1>8. QED
  BY <1>4, <1>6, <1>7 DEF Result

\* The step that copies the result back, or has the statement handled, keeps it.
LEMMA EndMeant ==
  ASSUME TypeOK, ScanInv, PassInv, MeantInv, EndScan
  PROVE  MeantInv'
<1>1. /\ pc = "scan" /\ DollarSigns = {} /\ buf \in Buffers
      /\ level \in {1, 2} /\ (level = 2 => count = 0)
      /\ UNCHANGED <<table, written>>
      /\ written \in Text /\ Len(written) \in 1 .. MaxLen
  BY BufferType DEF EndScan, PassInv, MeantInv
<1>2. IF count = 0
      THEN pc' = "handle" /\ level' = 0 /\ UNCHANGED <<buf, inPtr, oline, inLen, count>>
      ELSE IF Fits(Result)
      THEN buf' = Overwrite(buf, Result) /\ Enter(Result) /\ level' = level + 1 /\ UNCHANGED pc
      ELSE pc' = "overrun" /\ UNCHANGED <<buf, scanVars>>
  BY DEF EndScan, Result
<1>3. /\ Expansion(written)' = Expansion(written)
      /\ Expandable(written)' = Expandable(written)
      /\ Directly(written)' = Directly(written)
      /\ EndsInVariable(written)' = EndsInVariable(written)
  BY <1>1, MeantKept
<1>4. written' \in Text /\ Len(written') \in 1 .. MaxLen
  BY <1>1
<1>5. CASE ~Directly(written)
  BY <1>3, <1>4, <1>5 DEF MeantInv, SubstitutedAsWritten, OverrunOnlyWhenLong
<1>6. CASE Directly(written)
  <2>1. IF level = 1 THEN WithinStatement \/ BehindStatement ELSE AsWritten
    BY <1>1, <1>6 DEF MeantInv
  <2>2. CASE count = 0
    <3>1. AsWritten
      <4>1. CASE level = 1
        <5>1. WithinStatement
          BY <2>1, <2>2, <4>1 DEF BehindStatement
        <5>2. QED
          BY <5>1, <2>2, <1>1, <1>6, EndWithin DEF AsWritten
      <4>2. QED
        BY <4>1, <2>1
    <3>2. pc' = "handle" /\ String(buf, 1)' = String(buf, 1)
      BY <2>2, <1>2 DEF String, End
    <3>3. SubstitutedAsWritten'
      BY <3>1, <3>2, <1>3 DEF SubstitutedAsWritten, AsWritten
    <3>4. QED
      BY <3>2, <3>3 DEF MeantInv, OverrunOnlyWhenLong
  <2>3. CASE count # 0
    <3>1. level = 1 /\ (WithinStatement \/ BehindStatement)
      BY <2>1, <2>3, <1>1
    <3>2. Result \in Text /\ Result # <<>>
      BY <1>1, ResultOf
    <3>3. /\ Expandable(written)
          /\ IF EndsInVariable(written) THEN IsPrefix(Expansion(written), Result)
             ELSE Result = Expansion(written)
      <4>1. CASE WithinStatement
        BY <4>1, <1>1, <1>6, EndWithin
      <4>2. CASE BehindStatement
        <5>1. Expandable(written) /\ EndsInVariable(written)
          BY <4>2 DEF BehindStatement
        <5>2. QED
          BY <4>2, <5>1, <1>1, EndBehind
      <4>3. QED
        BY <4>1, <4>2, <3>1
    <3>4. CASE Fits(Result)
      <4>1. buf' = Overwrite(buf, Result) /\ level' = 2 /\ pc' = "scan"
        BY <3>1, <3>4, <2>3, <1>1, <1>2
      <4>2. String(Overwrite(buf, Result), 1) = Result
        <5>1. PICK t : t = Result
          OBVIOUS
        <5>2. t \in Text /\ t # <<>> /\ Fits(t)
          BY <5>1, <3>2, <3>4
        <5>3. String(Overwrite(buf, t), 1) = t
          BY <5>2, <1>1, CopiedBack
        <5>4. QED
          BY <5>1, <5>3
      <4>3. String(buf, 1)' = Result
        BY <4>1, <4>2 DEF String, End
      <4>4. AsWritten'
        BY <4>3, <3>3, <1>3 DEF AsWritten
      <4>5. QED
        BY <4>1, <4>4, <1>4 DEF MeantInv, SubstitutedAsWritten, OverrunOnlyWhenLong
    <3>5. CASE ~Fits(Result)
      <4>1. pc' = "overrun"
        BY <3>5, <2>3, <1>2
      <4>2. ~EndsInVariable(written) => Len(Expansion(written)) > MaxLen
        <5>1. Len(Result) \in Nat /\ ~(Len(Result) <= MaxLen)
          BY <3>2, <3>5 DEF Fits, Text
        <5>2. Len(Result) > MaxLen
          BY <5>1, BoundsAre
        <5>3. QED
          BY <5>2, <3>3
      <4>3. OverrunOnlyWhenLong'
        <5>1. ~EndsInVariable(written)' => Len(Expansion(written))' > MaxLen
          BY <4>2, <1>3
        <5>2. QED
          BY <5>1 DEF OverrunOnlyWhenLong
      <4>4. QED
        BY <4>1, <4>3 DEF MeantInv, SubstitutedAsWritten
    <3>6. QED
      BY <3>4, <3>5
  <2>4. QED
    BY <2>2, <2>3
<1>7. QED
  BY <1>5, <1>6

\* The text in front of a '$' leaves oline only when the expansion does.
LEMMA OverrunMeant ==
  ASSUME TypeOK, ScanInv, PassInv, MeantInv, TextOverruns
  PROVE  MeantInv'
<1>1. /\ pc = "scan" /\ DollarSigns # {} /\ ~Fits(UpToDollar) /\ pc' = "overrun"
      /\ UNCHANGED <<table, written>>
      /\ written \in Text /\ Len(written) \in 1 .. MaxLen
  BY DEF TextOverruns, MeantInv
<1>2. level = 1
  BY <1>1 DEF PassInv, DollarSigns
<1>3. /\ Expansion(written)' = Expansion(written)
      /\ Expandable(written)' = Expandable(written)
      /\ Directly(written)' = Directly(written)
      /\ EndsInVariable(written)' = EndsInVariable(written)
  BY <1>1, MeantKept
<1>4. ASSUME Directly(written), ~EndsInVariable(written), Expandable(written)
      PROVE  Len(Expansion(written)) > MaxLen
  <2>1. WithinStatement
    BY <1>1, <1>2, <1>4 DEF MeantInv, BehindStatement
  <2>2. PICK w, p, d, o, s : /\ w = written /\ p = inPtr /\ d = Min(DollarSigns)
                             /\ o = oline /\ s = SubSeq(w, p, d - 1)
    OBVIOUS
  <2>3. /\ w \in Text /\ p \in 2 .. Len(w) + 1 /\ o \in Text
        /\ Expansion(w) = o \o ExpansionFrom(w)[p]
    BY <1>1, <1>4, <2>1, <2>2 DEF WithinStatement, TypeOK
  <2>4. /\ d \in Uses(w) /\ p <= d /\ \A i \in p .. d - 1 : i \notin Uses(w)
        /\ s \in Text /\ UpToDollar = o \o s
    BY <1>1, <2>1, <2>2, UpToDollarWithin
  <2>5. PICK v, r, c : /\ v = VariableGetValue(Name(w, d)) /\ c = <<Space>>
                       /\ r = ExpansionFrom(w)[NameEnd(w, d) + 1]
    OBVIOUS
  <2>6. Expansion(w) = (o \o s \o v \o c) \o r /\ r \in Text
    <3>1. Expandable(w) /\ SubSeq(w, p, d - 1) \in Text
      BY <1>4, <2>2, <2>4
    <3>2. /\ Expansion(w) = (o \o SubSeq(w, p, d - 1) \o VariableGetValue(Name(w, d)) \o <<Space>>)
                               \o ExpansionFrom(w)[NameEnd(w, d) + 1]
          /\ ExpansionFrom(w)[NameEnd(w, d) + 1] \in Text
      BY <2>3, <2>4, <3>1, ExpansionStep
    <3>3. QED
      BY <2>2, <2>5, <3>2
  <2>7. v \in Text /\ c \in Text
    BY <1>4, <2>2, <2>4, <2>5, ValueOf, OneCharacter, BoundsAre DEF Expandable
  <2>8. Len(Expansion(w)) >= Len(o \o s) /\ Len(o \o s) \in Nat /\ Len(Expansion(w)) \in Nat
    BY <2>3, <2>4, <2>6, <2>7 DEF Text
  <2>9. ~(Len(o \o s) <= MaxLen)
    BY <1>1, <2>4 DEF Fits
  <2>10. Len(Expansion(w)) > MaxLen
    BY <2>8, <2>9, BoundsAre
  <2>11. QED
    BY <2>2, <2>10
<1>5. OverrunOnlyWhenLong'
  BY <1>3, <1>4 DEF OverrunOnlyWhenLong
<1>6. QED
  BY <1>1, <1>5 DEF MeantInv, SubstitutedAsWritten

\* The step that substitutes a variable keeps it.
LEMMA SubstituteMeant ==
  ASSUME TypeOK, ScanInv, PassInv, MeantInv, SubstituteNext
  PROVE  MeantInv'
<1>1. /\ pc = "scan" /\ DollarSigns # {} /\ UNCHANGED <<table, written>>
      /\ written \in Text /\ Len(written) \in 1 .. MaxLen /\ PlainTable
  BY DEF SubstituteNext, MeantInv, PassInv
<1>2. level = 1
  BY <1>1 DEF PassInv, DollarSigns
<1>3. /\ ExpansionFrom(written)' = ExpansionFrom(written)
      /\ Expansion(written)' = Expansion(written)
      /\ Expandable(written)' = Expandable(written)
      /\ Directly(written)' = Directly(written)
      /\ EndsInVariable(written)' = EndsInVariable(written)
  BY <1>1, MeantKept
<1>4. \/ SubstituteFails
      \/ /\ count' = count + 1
         /\ inPtr' \in Nat /\ inPtr' > inPtr
         /\ \E t \in Text : oline' = oline \o t
         /\ pc' \in {"scan", "overrun"}
         /\ UNCHANGED level
  BY NextVariable
<1>5. CASE pc' = "read"
  BY <1>5 DEF MeantInv, SubstitutedAsWritten, OverrunOnlyWhenLong
<1>6. CASE pc' # "read"
  <2>1. /\ count' = count + 1 /\ inPtr' > inPtr /\ inPtr' \in Nat
        /\ pc' \in {"scan", "overrun"} /\ level' = 1
    BY <1>2, <1>4, <1>6 DEF SubstituteFails
  <2>2. PICK t \in Text : oline' = oline \o t
    BY <1>4, <1>6 DEF SubstituteFails
  <2>3. CASE ~Directly(written)
    BY <2>1, <2>3, <1>1, <1>3 DEF MeantInv, SubstitutedAsWritten, OverrunOnlyWhenLong
  <2>4. CASE Directly(written) /\ WithinStatement
    <3>1. /\ pc' = "scan" => WithinStatement' \/ BehindStatement'
          /\ pc' = "overrun" /\ ~EndsInVariable(written) /\ Expandable(written)
               => Len(Expansion(written)) > MaxLen
      BY <2>4, <1>1, <1>6, WithinStep
    <3>2. OverrunOnlyWhenLong'
      <4>1. pc' = "overrun" /\ ~EndsInVariable(written)' /\ Expandable(written)'
              => Len(Expansion(written))' > MaxLen
        BY <3>1, <1>3
      <4>2. QED
        BY <4>1 DEF OverrunOnlyWhenLong
    <3>3. QED
      BY <2>1, <3>1, <3>2, <1>1 DEF MeantInv, SubstitutedAsWritten
  <2>5. CASE Directly(written) /\ BehindStatement
    <3>1. inPtr' > Len(written) + 1 /\ count' # 0
      <4>1. count \in Nat /\ inPtr \in Nat /\ Len(written) \in Nat
        BY <1>1 DEF TypeOK
      <4>2. inPtr > Len(written) + 1
        BY <2>5 DEF BehindStatement
      <4>3. QED
        BY <4>1, <4>2, <2>1
    <3>2. EndsInVariable(written) /\ Expandable(written)
      BY <2>5 DEF BehindStatement
    <3>3. \E u \in Text : oline' = Expansion(written) \o u
      <4>1. PICK e : e = Expansion(written)
        OBVIOUS
      <4>2. PICK u \in Text : oline = e \o u
        BY <2>5, <4>1 DEF BehindStatement
      <4>3. e \in Text
        <5>1. 1 \in 1 .. Len(written) + 2
          BY <1>1
        <5>2. QED
          BY <5>1, <4>1, <3>2, <1>1, ExpansionType, ExpansionBegins
      <4>4. (e \o u) \o t = e \o (u \o t)
        BY <4>3, Associative
      <4>5. u \o t \in Text
        BY ConcatOf
      <4>6. QED
        BY <4>1, <4>2, <4>4, <4>5, <2>2
    <3>4. BehindStatement'
      BY <3>1, <3>2, <3>3, <1>1, <1>3 DEF BehindStatement
    <3>5. EndsInVariable(written)'
      BY <3>2, <1>3
    <3>6. QED
      BY <2>1, <3>4, <3>5, <1>1 DEF MeantInv, SubstitutedAsWritten, OverrunOnlyWhenLong
  <2>6. QED
    BY <2>3, <2>4, <2>5, <1>1, <1>2 DEF MeantInv
<1>7. QED
  BY <1>5, <1>6

\* A statement that is read is the one that is meant.
LEMMA ReadMeant ==
  ASSUME TypeOK, ScanInv, MeantInv, NEW text \in Statements, ReadStatement(text)
  PROVE  MeantInv'
<1>1. PICK n : n = Len(text)
  OBVIOUS
<1>2. /\ text \in Text /\ text # <<>> /\ Fits(text) /\ n \in 1 .. MaxLen /\ n \in Nat
  BY <1>1, BoundsAre DEF Fits, Text
<1>3. /\ buf' = Overwrite(buf, text) /\ Enter(text) /\ level' = 1 /\ written' = text
      /\ pc' = "scan" /\ table' = table /\ buf \in Buffers
  BY BufferType DEF ReadStatement
<1>4. /\ buf' \in Buffers /\ \A k \in DOMAIN text : buf'[k] = text[k]
      /\ buf'[Len(text) + 1] = NUL
      /\ inPtr' = 2 /\ inLen' = Len(text)
  BY <1>2, <1>3, EnterOf
<1>5. /\ ExpansionFrom(written)' = ExpansionFrom(text)
      /\ Expansion(written)' = Expansion(text)
      /\ Uses(written)' = Uses(text)
  <2>1. ExpansionFrom(written)' = ExpansionFrom(text)
    BY <1>3 DEF ExpansionFrom, Meant, VariableGetValue, Named, Name, NameEnd, Uses
  <2>2. Expansion(written)' = Expansion(text)
    BY <1>3 DEF Expansion, VariableGetValue, Named, Name, NameEnd, Uses
  <2>3. Uses(written)' = Uses(text)
    BY <1>3 DEF Uses
  <2>4. QED
    BY <2>1, <2>2, <2>3
<1>6. Expansion(text) = oline' \o ExpansionFrom(text)[2]
  <2>1. 1 \in 1 .. Len(text) + 2 /\ ~(1 > Len(text)) /\ 1 \notin Uses(text)
    BY <1>1, <1>2 DEF Uses
  <2>2. ExpansionFrom(text)[1] = <<text[1]>> \o ExpansionFrom(text)[1 + 1]
    BY <2>1, <1>2, ExpansionIs DEF Meant
  <2>3. oline' = <<text[1]>>
    BY <1>3 DEF Enter
  <2>4. 1 + 1 = 2
    OBVIOUS
  <2>5. QED
    BY <2>2, <2>3, <2>4, ExpansionBegins
<1>7. \A i \in Uses(text) : ~(i < 2)
  BY <1>1, <1>2 DEF Uses
<1>8. /\ inPtr' \in 2 .. Len(text) + 1
      /\ \A j \in inPtr' .. Len(text) : buf'[j] = text[j]
      /\ buf'[1] = text[1]
  <2>1. 1 \in DOMAIN text /\ \A j \in 2 .. Len(text) : j \in DOMAIN text
    BY <1>1, <1>2 DEF Text
  <2>2. QED
    BY <2>1, <1>1, <1>2, <1>4
<1>9. WithinStatement'
  BY <1>3, <1>4, <1>5, <1>6, <1>7, <1>8 DEF WithinStatement
<1>10. QED
  BY <1>1, <1>2, <1>3, <1>9 DEF MeantInv, SubstitutedAsWritten, OverrunOnlyWhenLong

\* Handling a statement leaves the buffers only when the table cannot be printed.
LEMMA HandleMeant ==
  ASSUME MeantInv,
         \/ SkipStatement \/ NewCase \/ OtherStatement
         \/ StoreFails \/ StoreValue \/ StoreReadsUnset
  PROVE  MeantInv'
<1>1. pc' \in {"read", "uninitialized"} \/ (pc' = "overrun" /\ ~Printable(table'))
  BY DEF SkipStatement, NewCase, OtherStatement, StoreFails, StoreValue, StoreReadsUnset, Handled
<1>2. pc' = "overrun" => ~Printable(table)'
  BY <1>1 DEF Printable
<1>3. pc' \notin {"scan", "handle"}
  BY <1>1
<1>4. QED
  BY <1>2, <1>3 DEF MeantInv, SubstitutedAsWritten, OverrunOnlyWhenLong

\* Nothing happens.
LEMMA StutterMeant ==
  ASSUME MeantInv, UNCHANGED vars
  PROVE  MeantInv'
<1>1. UNCHANGED <<pc, buf, inPtr, oline, inLen, count, level, table, written>>
  BY DEF vars
<1>2. /\ ExpansionFrom(written)' = ExpansionFrom(written)
      /\ Expansion(written)' = Expansion(written)
      /\ Expandable(written)' = Expandable(written)
      /\ Directly(written)' = Directly(written)
      /\ EndsInVariable(written)' = EndsInVariable(written)
  BY <1>1, MeantKept
<1>3. String(buf, 1)' = String(buf, 1) /\ Printable(table)' = Printable(table)
  BY <1>1 DEF String, End, Printable
<1>4. AsWritten' = AsWritten /\ BehindStatement' = BehindStatement
  BY <1>1, <1>2, <1>3 DEF AsWritten, BehindStatement
<1>5. WithinStatement' = WithinStatement
  <2>1. \A i : /\ Name(written, i)' = Name(written, i) /\ NameEnd(written, i)' = NameEnd(written, i)
               /\ Defined(Name(written, i))' = Defined(Name(written, i))
    BY <1>1 DEF Defined, Named, Name, NameEnd
  <2>2. Uses(written)' = Uses(written)
    BY <1>1 DEF Uses
  <2>3. QED
    BY <2>1, <2>2, <1>1, <1>2 DEF WithinStatement
<1>6. SubstitutedAsWritten'
  BY <1>1, <1>2, <1>3 DEF MeantInv, SubstitutedAsWritten
<1>7. OverrunOnlyWhenLong'
  BY <1>1, <1>2, <1>3 DEF MeantInv, OverrunOnlyWhenLong
<1>8. QED
  BY <1>1, <1>2, <1>4, <1>5, <1>6, <1>7 DEF MeantInv

\* The invariant holds initially and in every step.
LEMMA MeantInductive ==
  /\ Init => MeantInv
  /\ TypeOK /\ ScanInv /\ PassInv /\ MeantInv /\ [Next]_vars => MeantInv'
<1>1. Init => MeantInv
  BY DEF Init, MeantInv, SubstitutedAsWritten, OverrunOnlyWhenLong
<1>2. QED
  BY <1>1, ReadMeant, OverrunMeant, SubstituteMeant, EndMeant, HandleMeant, StutterMeant DEF Next

\* So it holds always.
LEMMA MeantInvariant == Spec => []MeantInv
  BY TypeInvariant, PassInductive, MeantInductive, PTL DEF Spec

\* A statement that is handled, with every name directly behind its '$', is its
\* expansion, whatever the buffer held before it; only one that ends in a variable
\* may have stale text behind it (ScriptSubstituteVariables).
THEOREM StatementsAreSubstituted == Spec => []SubstitutedAsWritten
  BY MeantInvariant, PTL DEF MeantInv

\* A statement that does not end in a variable, with every name directly behind its
\* '$', overruns the buffers only when its expansion is too long for them, or when
\* a variable too long for VariablePrintValues is in the table.
THEOREM OnlyLongTextsOverrun == Spec => []OverrunOnlyWhenLong
  BY MeantInvariant, PTL DEF MeantInv
=============================================================================
