---------------------------- MODULE PacketProofs ----------------------------
(***************************************************************************)
(* What packet.c does with statements of any length, packets of any size   *)
(* and bytes of any number of values.                                      *)
(***************************************************************************)
EXTENDS Packet, SequenceTheorems, FiniteSetTheorems, WellFoundedInduction, TLAPS

-----------------------------------------------------------------------------
(* Numbers.                                                                *)

\* A set of numbers has a smallest element.
LEMMA MinOf ==
  ASSUME NEW S \in SUBSET Nat, S # {}
  PROVE  Min(S) \in S /\ \A y \in S : Min(S) <= y
<1>1. \E x \in S : \A y \in S : ~(<<y, x>> \in OpToRel(<, Nat))
  BY NatLessThanWellFounded, WFMin
<1>2. \A x \in S, y \in S : <<y, x>> \in OpToRel(<, Nat) <=> y < x
  BY DEF OpToRel
<1>3. PICK x \in S : \A y \in S : ~(y < x)
  BY <1>1, <1>2
<1>4. \A y \in S : x <= y
  BY <1>3
<1>5. QED
  BY <1>4 DEF Min

\* Quotient and remainder.
LEMMA DivMod ==
  ASSUME NEW n \in Nat, NEW d \in Nat, d > 0
  PROVE  n \div d \in Nat /\ n % d \in 0 .. d - 1 /\ n = d * (n \div d) + (n % d)
  OBVIOUS

\* A multiple of a number is 0 or not smaller.
LEMMA Multiple ==
  ASSUME NEW d \in Nat, NEW k \in Int, d * k < d, -d < d * k
  PROVE  k = 0
<1>1. CASE k >= 1
  <2>1. d * k >= d * 1
    BY <1>1
  <2>2. QED
    BY <2>1
<1>2. CASE k <= -1
  <2>1. d * k <= d * (-1)
    BY <1>2
  <2>2. QED
    BY <2>1
<1>3. QED
  BY <1>1, <1>2

\* Multiples of the divisor do not change the remainder.
LEMMA ModPlus ==
  ASSUME NEW a \in Nat, NEW q \in Nat, NEW d \in Nat, d > 0
  PROVE  (a + d * q) % d = a % d
<1>1. PICK x \in Nat, u \in 0 .. d - 1 : x = a \div d /\ u = a % d /\ a = d * x + u
  BY DivMod
<1>2. a + d * q \in Nat
  OBVIOUS
<1>3. PICK y \in Nat, v \in 0 .. d - 1 : v = (a + d * q) % d /\ a + d * q = d * y + v
  BY <1>2, DivMod
<1>4. d * (y - x - q) = u - v
  BY <1>1, <1>3
<1>5. y - x - q \in Int /\ u - v < d /\ -d < u - v
  OBVIOUS
<1>6. y - x - q = 0
  BY <1>4, <1>5, Multiple
<1>7. u = v
  BY <1>4, <1>6
<1>8. QED
  BY <1>1, <1>3, <1>7

\* The sizes are numbers, and a word is at least as large as two of them.
LEMMA BoundsAre ==
  /\ ByteRange \in Nat /\ ByteRange > 1
  /\ WordRange \in Nat /\ WordRange > 3 /\ WordRange = ByteRange * ByteRange
  /\ MaxPktSize \in Nat /\ MinFrame \in Nat /\ PadTo \in Nat /\ MaxCsSize \in Nat
  /\ MaxBytes \in Nat /\ MaxBytes < MaxPktSize /\ MaxStatements \in Nat
  /\ HexValues \subseteq Nat /\ CopyPositions \subseteq Nat
  /\ \A r \in Ranges : r[1] \in Nat /\ r[2] \in Nat
  /\ \A f \in Frames : f \in Seq(Bytes) /\ Len(f) \in Nat /\ Len(f) >= 1 /\ Len(f) <= MaxPktSize
<1>1. /\ ByteRange \in Nat /\ ByteRange > 1
      /\ MaxPktSize \in Nat /\ MinFrame \in Nat /\ PadTo \in Nat /\ MaxCsSize \in Nat
      /\ MaxBytes \in Nat /\ MaxBytes < MaxPktSize /\ MaxStatements \in Nat
      /\ HexValues \subseteq Nat /\ CopyPositions \subseteq Nat
      /\ Ranges \subseteq Nat \X Nat
      /\ \A f \in Frames : f \in Seq(0 .. ByteRange - 1) /\ Len(f) \in 1 .. MaxPktSize
  BY PacketAssumption
<1>2. WordRange \in Nat /\ WordRange > 3
  <2>1. ByteRange >= 2
    BY <1>1
  <2>2. ByteRange * ByteRange >= 2 * 2
    BY <2>1, <1>1
  <2>3. QED
    BY <2>2, <1>1 DEF WordRange
<1>3. QED
  BY <1>1, <1>2 DEF WordRange, Bytes

-----------------------------------------------------------------------------
(* Carries.                                                                *)

\* The one's complement sum of the words that add up to n: the remainder modulo
\* the largest word, which itself stands for 0 unless there is nothing to add.
OnesComplement(n) == IF n = 0 THEN 0 ELSE ((n - 1) % (WordRange - 1)) + 1

\* Folding in the carries once does not change it.
LEMMA FoldOnce ==
  ASSUME NEW n \in Nat, n >= WordRange
  PROVE  /\ (n % WordRange) + (n \div WordRange) \in Nat
         /\ (n % WordRange) + (n \div WordRange) < n
         /\ OnesComplement((n % WordRange) + (n \div WordRange)) = OnesComplement(n)
<1>1. PICK W \in Nat : W = WordRange /\ W > 3
  BY BoundsAre
<1>2. PICK q \in Nat, r \in 0 .. W - 1 : q = n \div W /\ r = n % W /\ n = W * q + r
  BY <1>1, DivMod
<1>3. q >= 1
  <2>1. q = 0 => W * q = 0
    OBVIOUS
  <2>2. QED
    BY <2>1, <1>1, <1>2
<1>4. PICK m \in Nat : m = r + q
  OBVIOUS
<1>5. m >= 1 /\ m < n
  <2>1. W * q > q
    BY <1>1, <1>3
  <2>2. QED
    BY <2>1, <1>2, <1>3, <1>4
<1>6. n - 1 = (m - 1) + (W - 1) * q
  BY <1>1, <1>2, <1>4
<1>7. (n - 1) % (W - 1) = (m - 1) % (W - 1)
  <2>1. PICK a \in Nat, d \in Nat : a = m - 1 /\ d = W - 1 /\ d > 0
    BY <1>1, <1>5
  <2>2. (a + d * q) % d = a % d
    BY <2>1, ModPlus, ZenonT(30)
  <2>3. a + d * q = n - 1
    BY <2>1, <1>6
  <2>4. QED
    BY <2>1, <2>2, <2>3
<1>8. OnesComplement(m) = OnesComplement(n)
  BY <1>1, <1>5, <1>7 DEF OnesComplement
<1>9. QED
  BY <1>1, <1>2, <1>4, <1>5, <1>8

\* A word is its own one's complement sum.
LEMMA WordIsSum ==
  ASSUME NEW n \in Nat, n < WordRange
  PROVE  OnesComplement(n) = n
<1>1. CASE n = 0
  BY <1>1 DEF OnesComplement
<1>2. CASE n # 0
  <2>1. PICK a \in Nat, d \in Nat : a = n - 1 /\ d = WordRange - 1 /\ a < d
    BY <1>2, BoundsAre
  <2>2. a % d = a
    BY <2>1
  <2>3. QED
    BY <2>1, <2>2, <1>2 DEF OnesComplement
<1>3. QED
  BY <1>1, <1>2

\* The loop of check_sum that folds in the carries computes that sum, for bytes
\* of any number of values: the sum does not overtake the loop.
THEOREM FoldCarriesOf ==
  ASSUME NEW n \in Nat
  PROVE  FoldCarries[n] = OnesComplement(n)
<1> DEFINE Folded(f) ==
      [sum \in Nat |-> IF sum < WordRange THEN sum ELSE f[(sum % WordRange) + (sum \div WordRange)]]
<1>1. \E f : f = Folded(f)
  <2> DEFINE f == [sum \in Nat |-> OnesComplement(sum)]
  <2>1. ASSUME NEW sum \in Nat PROVE f[sum] = Folded(f)[sum]
    <3>1. CASE sum < WordRange
      BY <3>1, WordIsSum
    <3>2. CASE ~(sum < WordRange)
      <4>1. sum >= WordRange
        BY <3>2, BoundsAre
      <4>2. PICK m \in Nat : /\ m = (sum % WordRange) + (sum \div WordRange)
                             /\ OnesComplement(m) = OnesComplement(sum)
        BY <4>1, FoldOnce
      <4>3. Folded(f)[sum] = f[m]
        BY <3>2, <4>2
      <4>4. QED
        BY <4>2, <4>3
    <3>3. QED
      BY <3>1, <3>2
  <2>2. f = Folded(f)
    BY <2>1
  <2>3. QED
    BY <2>2
<1>2. FoldCarries = Folded(FoldCarries)
  BY <1>1 DEF FoldCarries
<1> DEFINE Wrong == {k \in Nat : FoldCarries[k] # OnesComplement(k)}
<1>3. ASSUME Wrong # {} PROVE FALSE
  <2>1. PICK k \in Wrong : \A j \in Wrong : k <= j
    BY <1>3, MinOf
  <2>2. CASE k < WordRange
    BY <1>2, <2>1, <2>2, WordIsSum
  <2>3. CASE ~(k < WordRange)
    <3>1. PICK m \in Nat : /\ m = (k % WordRange) + (k \div WordRange) /\ m < k
                           /\ OnesComplement(m) = OnesComplement(k)
      BY <2>3, FoldOnce, BoundsAre
    <3>2. FoldCarries[k] = FoldCarries[m]
      BY <1>2, <2>3, <3>1
    <3>3. m \notin Wrong
      BY <2>1, <3>1
    <3>4. QED
      BY <2>1, <3>1, <3>2, <3>3
  <2>4. QED
    BY <2>2, <2>3
<1>4. QED
  BY <1>3

-----------------------------------------------------------------------------
(* Sums over a set.                                                        *)

\* One equation of MapThenSumSet, with the sum of the numbers g has on s.
SumStep(f, g, s) ==
  IF s = {} THEN 0 ELSE g[CHOOSE x \in s : TRUE] + f[s \ {CHOOSE x \in s : TRUE}]

IsSum(f, g, T) == f = [s \in SUBSET T |-> SumStep(f, g, s)]

\* There is a function that satisfies the equation on the subsets of a finite set.
LEMMA SumExists ==
  ASSUME NEW T, IsFiniteSet(T), NEW g
  PROVE  \E f : IsSum(f, g, T)
<1> DEFINE Small(k) == {s \in SUBSET T : Cardinality(s) <= k}
           Good(k)  == \E f : f = [s \in Small(k) |-> SumStep(f, g, s)]
           Bad      == {k \in Nat : ~Good(k)}
<1>1. \A s \in SUBSET T : IsFiniteSet(s) /\ Cardinality(s) \in Nat /\ Cardinality(s) <= Cardinality(T)
  BY FS_Subset, FS_CardinalityType
<1>2. \A s \in SUBSET T : s # {} =>
        LET x == CHOOSE x \in s : TRUE
        IN  x \in s /\ s \ {x} \in SUBSET T /\ Cardinality(s \ {x}) = Cardinality(s) - 1
  <2>1. ASSUME NEW s \in SUBSET T, s # {}, NEW x, x = CHOOSE y \in s : TRUE
        PROVE  x \in s /\ s \ {x} \in SUBSET T /\ Cardinality(s \ {x}) = Cardinality(s) - 1
    BY <1>1, <2>1, FS_RemoveElement
  <2>2. QED
    BY <2>1
<1>3. Good(0)
  <2> DEFINE f == [s \in Small(0) |-> 0]
  <2>1. \A s \in Small(0) : s = {}
    BY <1>1, FS_EmptySet
  <2>2. f = [s \in Small(0) |-> SumStep(f, g, s)]
    BY <2>1 DEF SumStep
  <2>3. QED
    BY <2>2
<1>4. ASSUME NEW k \in Nat, Good(k) PROVE Good(k + 1)
  <2>1. PICK f : f = [s \in Small(k) |-> SumStep(f, g, s)]
    BY <1>4
  <2> DEFINE h == [s \in Small(k + 1) |-> SumStep(f, g, s)]
  <2>2. Small(k) \subseteq Small(k + 1)
    BY <1>1
  <2>3. \A s \in Small(k) : h[s] = f[s]
    BY <2>1, <2>2
  <2>4. ASSUME NEW s \in Small(k + 1) PROVE h[s] = SumStep(h, g, s)
    <3>1. CASE s = {}
      BY <3>1 DEF SumStep
    <3>2. CASE s # {}
      <4>1. PICK x : x = CHOOSE y \in s : TRUE
        OBVIOUS
      <4>2. s \ {x} \in Small(k)
        BY <1>1, <1>2, <3>2, <4>1
      <4>3. h[s \ {x}] = f[s \ {x}]
        BY <2>3, <4>2
      <4>4. h[s] = g[x] + f[s \ {x}]
        BY <3>2, <4>1 DEF SumStep
      <4>5. SumStep(h, g, s) = g[x] + h[s \ {x}]
        BY <3>2, <4>1 DEF SumStep
      <4>6. QED
        BY <4>3, <4>4, <4>5
    <3>3. QED
      BY <3>1, <3>2
  <2>5. h = [s \in Small(k + 1) |-> SumStep(h, g, s)]
    BY <2>4
  <2>6. QED
    BY <2>5
<1> HIDE DEF Good
<1>5. Bad = {}
  <2> SUFFICES ASSUME Bad # {}
               PROVE  FALSE
    OBVIOUS
  <2>1. PICK k \in Bad : \A j \in Bad : k <= j
    BY MinOf
  <2>2. k # 0
    BY <2>1, <1>3
  <2>3. k - 1 \in Nat /\ k - 1 \notin Bad /\ (k - 1) + 1 = k
    BY <2>1, <2>2
  <2>4. QED
    BY <2>1, <2>3, <1>4
<1>6. Good(Cardinality(T))
  BY <1>5, FS_CardinalityType
<1>7. Small(Cardinality(T)) = SUBSET T
  BY <1>1
<1>8. QED
  BY <1>6, <1>7 DEF Good, IsSum

\* The equation has only one solution.
LEMMA SumUnique ==
  ASSUME NEW T, IsFiniteSet(T), NEW g,
         NEW f, IsSum(f, g, T), NEW h, IsSum(h, g, T)
  PROVE  f = h
<1> DEFINE Bad == {k \in Nat : \E s \in SUBSET T : Cardinality(s) = k /\ f[s] # h[s]}
<1>1. \A s \in SUBSET T : IsFiniteSet(s) /\ Cardinality(s) \in Nat
  BY FS_Subset, FS_CardinalityType
<1>2. Bad = {}
  <2> SUFFICES ASSUME Bad # {}
               PROVE  FALSE
    OBVIOUS
  <2>1. PICK k \in Bad : \A j \in Bad : k <= j
    BY MinOf
  <2>2. PICK s \in SUBSET T : Cardinality(s) = k /\ f[s] # h[s]
    BY <2>1
  <2>3. s # {}
    BY <2>2 DEF SumStep, IsSum
  <2>4. PICK x : x = CHOOSE y \in s : TRUE
    OBVIOUS
  <2>5. x \in s
    BY <2>3, <2>4
  <2>6. s \ {x} \in SUBSET T /\ Cardinality(s \ {x}) = k - 1 /\ k - 1 \in Nat
    <3>1. IsFiniteSet(s) /\ Cardinality(s) = k
      BY <1>1, <2>2
    <3>2. Cardinality(s \ {x}) = k - 1
      BY <3>1, <2>5, FS_RemoveElement
    <3>3. s \ {x} \in SUBSET T
      BY <2>2
    <3>4. QED
      BY <1>1, <3>2, <3>3
  <2>7. f[s \ {x}] = h[s \ {x}]
    BY <2>1, <2>6
  <2>8. f[s] = g[x] + f[s \ {x}] /\ h[s] = g[x] + h[s \ {x}]
    BY <2>2, <2>3, <2>4 DEF SumStep, IsSum
  <2>9. QED
    BY <2>2, <2>7, <2>8
<1>3. \A s \in SUBSET T : f[s] = h[s]
  BY <1>1, <1>2
<1>4. QED
  BY <1>3 DEF IsSum

\* Its values are numbers if those of g are.
LEMMA SumType ==
  ASSUME NEW T, IsFiniteSet(T), NEW g \in [T -> Nat],
         NEW f, IsSum(f, g, T)
  PROVE  f[T] \in Nat
<1> DEFINE Bad == {k \in Nat : \E s \in SUBSET T : Cardinality(s) = k /\ f[s] \notin Nat}
<1>1. \A s \in SUBSET T : IsFiniteSet(s) /\ Cardinality(s) \in Nat
  BY FS_Subset, FS_CardinalityType
<1>2. Bad = {}
  <2> SUFFICES ASSUME Bad # {}
               PROVE  FALSE
    OBVIOUS
  <2>1. PICK k \in Bad : \A j \in Bad : k <= j
    BY MinOf
  <2>2. PICK s \in SUBSET T : Cardinality(s) = k /\ f[s] \notin Nat
    BY <2>1
  <2>3. s # {}
    BY <2>2 DEF SumStep, IsSum
  <2>4. PICK x : x = CHOOSE y \in s : TRUE
    OBVIOUS
  <2>5. x \in s
    BY <2>3, <2>4
  <2>6. s \ {x} \in SUBSET T /\ Cardinality(s \ {x}) = k - 1 /\ k - 1 \in Nat
    <3>1. IsFiniteSet(s) /\ Cardinality(s) = k
      BY <1>1, <2>2
    <3>2. Cardinality(s \ {x}) = k - 1
      BY <3>1, <2>5, FS_RemoveElement
    <3>3. s \ {x} \in SUBSET T
      BY <2>2
    <3>4. QED
      BY <1>1, <3>2, <3>3
  <2>7. f[s \ {x}] \in Nat /\ g[x] \in Nat
    BY <2>1, <2>5, <2>6
  <2>8. f[s] = g[x] + f[s \ {x}]
    BY <2>2, <2>3, <2>4 DEF SumStep, IsSum
  <2>9. QED
    BY <2>2, <2>7, <2>8
<1>3. QED
  BY <1>1, <1>2

\* The places of the words that check_sum adds up, and the words.
WordPlaces(size)      == {i \in 0 .. size : i % 2 = 0}
Words(buf, start, size) ==
  [i \in WordPlaces(size) |-> buf[start + i] * ByteRange + buf[start + i + 1]]

\* The sum of the words is a solution of the equation.
LEMMA WordSumIs ==
  ASSUME NEW buf, NEW start \in Nat, NEW size \in Nat
  PROVE  \E f : /\ IsSum(f, Words(buf, start, size), WordPlaces(size))
                /\ WordSum(buf, start, size)
                     = IF size % 2 = 0
                       THEN f[WordPlaces(size)] + buf[start + size + 2] * ByteRange
                       ELSE f[WordPlaces(size)]
<1> DEFINE T == WordPlaces(size)
           g == Words(buf, start, size)
           Sum(f) == [s \in SUBSET T |->
                        IF s = {} THEN 0
                        ELSE LET x == CHOOSE x \in s : TRUE
                             IN  (buf[start + x] * ByteRange + buf[start + x + 1]) + f[s \ {x}]]
           iter == CHOOSE f : f = Sum(f)
<1>1. IsFiniteSet(T)
  <2>1. IsFiniteSet(0 .. size) /\ T \in SUBSET (0 .. size)
    BY FS_Interval DEF WordPlaces
  <2>2. QED
    BY <2>1, FS_Subset
<1>2. ASSUME NEW f PROVE IsSum(f, g, T) <=> f = Sum(f)
  <2>1. ASSUME NEW s \in SUBSET T PROVE Sum(f)[s] = SumStep(f, g, s)
    <3>1. CASE s = {}
      BY <3>1 DEF SumStep
    <3>2. CASE s # {}
      <4>1. PICK x : x = CHOOSE y \in s : TRUE
        OBVIOUS
      <4>2. x \in T
        BY <3>2, <4>1
      <4>3. g[x] = buf[start + x] * ByteRange + buf[start + x + 1]
        BY <4>2 DEF Words
      <4>4. QED
        BY <3>2, <4>1, <4>3 DEF SumStep
    <3>3. QED
      BY <3>1, <3>2
  <2>2. QED
    BY <2>1 DEF IsSum
<1>3. PICK f : IsSum(f, g, T)
  BY <1>1, SumExists
<1> HIDE DEF Sum
<1>4. f = Sum(f)
  BY <1>2, <1>3
<1>5. iter = Sum(iter)
  BY <1>4
<1> USE DEF Sum
<1>6. WordSum(buf, start, size)
        = IF size % 2 = 0 THEN iter[T] + buf[start + size + 2] * ByteRange ELSE iter[T]
  BY DEF WordSum, MapThenSumSet, MapThenFoldSet, WordPlaces
<1>7. IsSum(iter, g, T)
  BY <1>2, <1>5
<1> HIDE DEF iter
<1>8. QED
  BY <1>6, <1>7

-----------------------------------------------------------------------------
(* check_sum.                                                              *)

Buffers == [Positions -> Bytes]

\* A one's complement sum is a word.
LEMMA SumIsWord ==
  ASSUME NEW n \in Nat
  PROVE  OnesComplement(n) \in 0 .. WordRange - 1
<1>1. CASE n = 0
  BY <1>1, BoundsAre DEF OnesComplement
<1>2. CASE n # 0
  <2>1. PICK a \in Nat, d \in Nat : a = n - 1 /\ d = WordRange - 1 /\ d > 0
    BY <1>2, BoundsAre
  <2>2. a % d \in 0 .. d - 1
    BY <2>1, DivMod
  <2>3. QED
    BY <2>1, <2>2, <1>2, BoundsAre DEF OnesComplement
<1>3. QED
  BY <1>1, <1>2

\* The bytes that check_sum reads of a range within the packet add up.
LEMMA WordSumType ==
  ASSUME NEW buf \in Buffers, NEW start \in Nat, NEW end \in Nat, start <= end,
         IF (end - start) % 2 = 0 THEN end + 2 \in Positions ELSE end \in Positions
  PROVE  WordSum(buf, start, end - start) \in Nat
<1>1. PICK size \in Nat : size = end - start
  OBVIOUS
<1>2. ByteRange \in Nat /\ \A i \in Positions : buf[i] \in Nat
  BY BoundsAre DEF Buffers, Bytes
<1>3. \A i \in WordPlaces(size) : start + i \in Positions /\ start + i + 1 \in Positions
  <2>1. ASSUME NEW i \in 0 .. size, i % 2 = 0
        PROVE  start + i \in Positions /\ start + i + 1 \in Positions
    <3>1. CASE size % 2 = 0
      BY <1>1, <3>1, BoundsAre DEF Positions
    <3>2. CASE size % 2 # 0
      <4>1. i < size
        BY <2>1, <3>2
      <4>2. QED
        BY <1>1, <3>2, <4>1, BoundsAre DEF Positions
    <3>3. QED
      BY <3>1, <3>2
  <2>2. QED
    BY <2>1 DEF WordPlaces
<1>4. Words(buf, start, size) \in [WordPlaces(size) -> Nat]
  <2>1. ASSUME NEW i \in WordPlaces(size)
        PROVE  buf[start + i] * ByteRange + buf[start + i + 1] \in Nat
    <3>1. PICK a \in Nat, b \in Nat : a = buf[start + i] /\ b = buf[start + i + 1]
      BY <1>2, <1>3
    <3>2. a * ByteRange + b \in Nat
      BY <1>2
    <3>3. QED
      BY <3>1, <3>2
  <2>2. QED
    BY <2>1 DEF Words
<1>5. PICK f : /\ IsSum(f, Words(buf, start, size), WordPlaces(size))
               /\ WordSum(buf, start, size)
                    = IF size % 2 = 0
                      THEN f[WordPlaces(size)] + buf[start + size + 2] * ByteRange
                      ELSE f[WordPlaces(size)]
  BY WordSumIs
<1>6. IsFiniteSet(WordPlaces(size))
  <2>1. IsFiniteSet(0 .. size) /\ WordPlaces(size) \in SUBSET (0 .. size)
    BY FS_Interval DEF WordPlaces
  <2>2. QED
    BY <2>1, FS_Subset
<1>7. f[WordPlaces(size)] \in Nat
  BY <1>4, <1>5, <1>6, SumType
<1>8. CASE size % 2 = 0
  <2>1. start + size + 2 \in Positions
    BY <1>1, <1>8
  <2>2. PICK a \in Nat : a = buf[start + size + 2]
    BY <1>2, <2>1
  <2>3. a * ByteRange \in Nat
    BY <1>2
  <2>4. QED
    BY <1>1, <1>5, <1>7, <1>8, <2>2, <2>3
<1>9. CASE size % 2 # 0
  BY <1>1, <1>5, <1>7, <1>9
<1>10. QED
  BY <1>8, <1>9

\* check_sum returns a word.
LEMMA ChecksumType ==
  ASSUME NEW buf \in Buffers, NEW start \in Nat, NEW end \in Nat,
         start <= end => IF (end - start) % 2 = 0 THEN end + 2 \in Positions ELSE end \in Positions
  PROVE  check_sum(buf, start, end) \in 0 .. WordRange - 1
<1>1. CASE start > end
  BY <1>1, BoundsAre DEF check_sum
<1>2. CASE ~(start > end)
  <2>1. WordSum(buf, start, end - start) \in Nat
    <3>1. start <= end
      BY <1>2
    <3>2. IF (end - start) % 2 = 0 THEN end + 2 \in Positions ELSE end \in Positions
      BY <3>1
    <3>3. QED
      BY <3>1, <3>2, WordSumType
  <2>2. PICK n \in Nat : n = WordSum(buf, start, end - start)
    BY <2>1
  <2>3. FoldCarries[n] \in 0 .. WordRange - 1
    BY FoldCarriesOf, SumIsWord
  <2>4. check_sum(buf, start, end) = WordRange - 1 - FoldCarries[n]
    BY <1>2, <2>2 DEF check_sum
  <2>5. QED
    BY <2>3, <2>4, BoundsAre
<1>3. QED
  BY <1>1, <1>2

\* Over an even number of bytes it is the Internet checksum: the words are the
\* same, and the folded sum is their one's complement sum.
THEOREM EvenChecksum ==
  ASSUME NEW buf \in Buffers, NEW start \in Nat, NEW end \in Nat,
         start < end, end \in Positions, (end - start) % 2 = 1
  PROVE  check_sum(buf, start, end) = InternetChecksum(buf, start, end)
<1>1. PICK size \in Nat : size = end - start /\ size % 2 = 1
  OBVIOUS
<1> DEFINE T == WordPlaces(size)
           g == Words(buf, start, size)
           ByteAt(i) == IF i <= end THEN buf[i] ELSE 0
           Sum(f) == [s \in SUBSET T |->
                        IF s = {} THEN 0
                        ELSE LET x == CHOOSE x \in s : TRUE
                             IN  (ByteAt(start + x) * ByteRange + ByteAt(start + x + 1)) + f[s \ {x}]]
           iter == CHOOSE f : f = Sum(f)
<1>2. IsFiniteSet(T)
  <2>1. IsFiniteSet(0 .. size) /\ T \in SUBSET (0 .. size)
    BY FS_Interval DEF WordPlaces
  <2>2. QED
    BY <2>1, FS_Subset
<1>3. \A x \in T : g[x] = ByteAt(start + x) * ByteRange + ByteAt(start + x + 1)
  <2>1. ASSUME NEW x \in 0 .. size, x % 2 = 0
        PROVE  start + x <= end /\ start + x + 1 <= end
    <3>1. x < size
      BY <1>1, <2>1
    <3>2. QED
      BY <1>1, <3>1
  <2>2. \A x \in T : start + x <= end /\ start + x + 1 <= end
    BY <2>1 DEF WordPlaces
  <2>3. QED
    BY <2>2 DEF Words
<1>4. ASSUME NEW f PROVE IsSum(f, g, T) <=> f = Sum(f)
  <2>1. ASSUME NEW s \in SUBSET T PROVE Sum(f)[s] = SumStep(f, g, s)
    <3>1. CASE s = {}
      BY <3>1 DEF SumStep
    <3>2. CASE s # {}
      <4>1. PICK x : x = CHOOSE y \in s : TRUE
        OBVIOUS
      <4>2. x \in T
        BY <3>2, <4>1
      <4>3. g[x] = ByteAt(start + x) * ByteRange + ByteAt(start + x + 1)
        BY <1>3, <4>2
      <4> HIDE DEF g, ByteAt
      <4>4. QED
        BY <3>2, <4>1, <4>3 DEF SumStep
    <3>3. QED
      BY <3>1, <3>2
  <2>2. QED
    BY <2>1 DEF IsSum
<1>5. PICK h : IsSum(h, g, T)
  BY <1>2, SumExists
<1>6. h = Sum(h)
  BY <1>4, <1>5
<1>7. iter = Sum(iter)
  BY <1>6
<1>8. InternetChecksum(buf, start, end)
        = WordRange - 1 - (IF iter[T] = 0 THEN 0 ELSE ((iter[T] - 1) % (WordRange - 1)) + 1)
  BY <1>1 DEF InternetChecksum, MapThenSumSet, MapThenFoldSet, WordPlaces
<1>9. IsSum(iter, g, T)
  BY <1>4, <1>7
<1> HIDE DEF iter
<1>10. PICK f : /\ IsSum(f, g, T)
                /\ WordSum(buf, start, size) = f[T]
  <2>1. PICK f : /\ IsSum(f, Words(buf, start, size), WordPlaces(size))
                 /\ WordSum(buf, start, size)
                      = IF size % 2 = 0
                        THEN f[WordPlaces(size)] + buf[start + size + 2] * ByteRange
                        ELSE f[WordPlaces(size)]
    BY WordSumIs
  <2>2. WordSum(buf, start, size) = f[T]
    BY <2>1, <1>1
  <2>3. QED
    BY <2>1, <2>2
<1>11. f = iter
  <2>1. PICK U, w : U = T /\ w = g
    OBVIOUS
  <2>2. IsFiniteSet(U) /\ IsSum(f, w, U) /\ IsSum(iter, w, U)
    BY <1>2, <1>9, <1>10, <2>1
  <2>3. QED
    BY <2>2, SumUnique
<1>12. WordSum(buf, start, size) \in Nat
  <2>1. WordSum(buf, start, end - start) \in Nat
    BY WordSumType
  <2>2. QED
    BY <2>1, <1>1
<1>13. PICK n \in Nat : n = WordSum(buf, start, size) /\ n = iter[T]
  BY <1>10, <1>11, <1>12
<1>14. InternetChecksum(buf, start, end) = WordRange - 1 - OnesComplement(n)
  BY <1>8, <1>13 DEF OnesComplement
<1>15. check_sum(buf, start, end) = WordRange - 1 - FoldCarries[n]
  BY <1>1, <1>13 DEF check_sum
<1>16. QED
  BY <1>14, <1>15, FoldCarriesOf

-----------------------------------------------------------------------------
(* Folds over a sequence.                                                  *)

\* A bounded set of numbers has a largest one.
LEMMA MaxOf ==
  ASSUME NEW n \in Nat, NEW S \in SUBSET (1 .. n), S # {}
  PROVE  Max(S) \in S /\ \A y \in S : Max(S) >= y
<1> DEFINE T == {n - x : x \in S}
<1>1. \A x \in S : x \in Nat /\ n - x \in Nat
  OBVIOUS
<1>2. T \in SUBSET Nat /\ T # {}
  BY <1>1
<1>3. Min(T) \in T /\ \A u \in T : Min(T) <= u
  BY ONLY <1>2, MinOf
<1>4. PICK x \in S : Min(T) = n - x
  BY <1>3
<1>5. ASSUME NEW y \in S PROVE x >= y
  <2>1. n - y \in T
    OBVIOUS
  <2>2. n - x <= n - y
    BY <2>1, <1>3, <1>4
  <2>3. QED
    BY <2>2, <1>1
<1>6. QED
  BY <1>5 DEF Max

\* One equation of FoldLeft, with g for the operator: what a set of places makes
\* of base.
FoldStep(f, g, base, s) == IF s = {} THEN base ELSE g[Max(s)][f[s \ {Max(s)}]]

IsFold(f, g, base, n) == f = [s \in SUBSET (1 .. n) |-> FoldStep(f, g, base, s)]

\* There is a function into B that satisfies the equation.
LEMMA FoldExists ==
  ASSUME NEW n \in Nat, NEW B, NEW base \in B, NEW g \in [1 .. n -> [B -> B]]
  PROVE  \E f : f \in [SUBSET (1 .. n) -> B] /\ IsFold(f, g, base, n)
<1> DEFINE Good(k) == \E f : f \in [SUBSET (1 .. k) -> B] /\ IsFold(f, g, base, k)
           Bad     == {k \in 0 .. n : ~Good(k)}
<1>1. Good(0)
  <2> DEFINE f == [s \in SUBSET (1 .. 0) |-> base]
  <2>1. \A s \in SUBSET (1 .. 0) : s = {}
    OBVIOUS
  <2>2. f \in [SUBSET (1 .. 0) -> B]
    OBVIOUS
  <2>3. f = [s \in SUBSET (1 .. 0) |-> FoldStep(f, g, base, s)]
    BY <2>1 DEF FoldStep
  <2>4. QED
    BY <2>2, <2>3 DEF IsFold
<1>2. ASSUME NEW k \in 0 .. n - 1, Good(k) PROVE Good(k + 1)
  <2>1. PICK f : f \in [SUBSET (1 .. k) -> B] /\ IsFold(f, g, base, k)
    BY <1>2
  <2> DEFINE h == [s \in SUBSET (1 .. k + 1) |->
                     IF k + 1 \in s THEN g[k + 1][f[s \ {k + 1}]] ELSE f[s]]
  <2>2. k \in Nat /\ k + 1 \in 1 .. n /\ 1 .. k \subseteq 1 .. k + 1 /\ k + 1 \notin 1 .. k
    OBVIOUS
  <2>3. \A s \in SUBSET (1 .. k + 1) : s \ {k + 1} \in SUBSET (1 .. k)
    BY <2>2
  <2>4. \A s \in SUBSET (1 .. k) : s \in SUBSET (1 .. k + 1) /\ h[s] = f[s]
    BY <2>2
  <2>5. h \in [SUBSET (1 .. k + 1) -> B]
    <3>1. ASSUME NEW s \in SUBSET (1 .. k + 1)
          PROVE  (IF k + 1 \in s THEN g[k + 1][f[s \ {k + 1}]] ELSE f[s]) \in B
      <4>1. CASE k + 1 \in s
        <5>1. f[s \ {k + 1}] \in B
          BY <2>1, <2>3
        <5>2. QED
          BY <5>1, <4>1, <2>2
      <4>2. CASE k + 1 \notin s
        <5>1. s \in SUBSET (1 .. k)
          BY <2>3, <4>2
        <5>2. QED
          BY <5>1, <4>2, <2>1
      <4>3. QED
        BY <4>1, <4>2
    <3>2. QED
      BY <3>1
  <2>6. ASSUME NEW s \in SUBSET (1 .. k + 1) PROVE h[s] = FoldStep(h, g, base, s)
    <3>1. CASE k + 1 \in s
      <4>1. Max(s) \in s /\ Max(s) >= k + 1
        <5>1. k + 1 \in Nat /\ s # {}
          BY <2>2, <3>1
        <5>2. PICK m \in Nat : m = k + 1
          BY <5>1
        <5>3. s \in SUBSET (1 .. m) /\ s # {}
          BY <5>1, <5>2
        <5>4. Max(s) \in s /\ \A y \in s : Max(s) >= y
          BY ONLY <5>3, m \in Nat, MaxOf
        <5>5. QED
          BY <5>4, <3>1
      <4>2. Max(s) = k + 1
        <5>1. Max(s) \in 1 .. k + 1 /\ Max(s) >= k + 1
          BY <4>1
        <5>2. QED
          BY <5>1, <2>2
      <4>3. h[s \ {k + 1}] = f[s \ {k + 1}]
        BY <2>3, <2>4
      <4>4. h[s] = g[k + 1][f[s \ {k + 1}]]
        BY <3>1
      <4>5. FoldStep(h, g, base, s) = g[k + 1][h[s \ {k + 1}]]
        BY <3>1, <4>2 DEF FoldStep
      <4>6. QED
        BY <4>3, <4>4, <4>5
    <3>2. CASE k + 1 \notin s
      <4>1. s \in SUBSET (1 .. k) /\ h[s] = f[s]
        BY <2>3, <3>2
      <4>2. f[s] = FoldStep(f, g, base, s)
        BY <2>1, <4>1 DEF IsFold
      <4>3. CASE s = {}
        BY <4>1, <4>2, <4>3 DEF FoldStep
      <4>4. CASE s # {}
        <5>1. s \ {Max(s)} \in SUBSET (1 .. k)
          BY <4>1
        <5>2. h[s \ {Max(s)}] = f[s \ {Max(s)}]
          BY <2>4, <5>1
        <5> HIDE DEF h
        <5>3. QED
          BY <4>1, <4>2, <4>4, <5>2 DEF FoldStep
      <4>5. QED
        BY <4>3, <4>4
    <3>3. QED
      BY <3>1, <3>2
  <2>7. h = [s \in SUBSET (1 .. k + 1) |-> FoldStep(h, g, base, s)]
    BY <2>6
  <2>8. QED
    BY <2>5, <2>7 DEF IsFold
<1> HIDE DEF Good
<1>3. Bad = {}
  <2> SUFFICES ASSUME Bad # {}
               PROVE  FALSE
    OBVIOUS
  <2>1. PICK k \in Bad : \A j \in Bad : k <= j
    <3>1. Bad \in SUBSET Nat
      OBVIOUS
    <3>2. QED
      BY <3>1, MinOf
  <2>2. k # 0
    BY <2>1, <1>1
  <2>3. k - 1 \in 0 .. n - 1 /\ k - 1 \notin Bad /\ (k - 1) + 1 = k
    BY <2>1, <2>2
  <2>4. QED
    BY <2>1, <2>3, <1>2
<1>4. Good(n)
  BY <1>3
<1>5. QED
  BY <1>4 DEF Good

\* What holds of 0 and, after a number, of the next holds up to n.
LEMMA Stepwise ==
  ASSUME NEW n \in Nat, NEW S, 0 \in S, \A k \in 1 .. n : k - 1 \in S => k \in S
  PROVE  0 .. n \subseteq S
<1> DEFINE Bad == (0 .. n) \ S
<1>1. SUFFICES ASSUME Bad # {}
               PROVE  FALSE
  OBVIOUS
<1>2. PICK k \in Bad : \A j \in Bad : k <= j
  <2>1. Bad \in SUBSET Nat
    OBVIOUS
  <2>2. QED
    BY <2>1, <1>1, MinOf
<1>3. k # 0
  BY <1>2
<1>4. k \in 1 .. n /\ k - 1 \in 0 .. n /\ ~(k <= k - 1)
  BY <1>2, <1>3
<1>5. k - 1 \in S
  BY <1>2, <1>4
<1>6. QED
  BY <1>2, <1>4, <1>5

\* The last of the first k places, and those before it.
LEMMA FirstPlaces ==
  ASSUME NEW n \in Nat, NEW k \in 1 .. n
  PROVE  /\ 1 .. k \in SUBSET (1 .. n) /\ 1 .. k # {}
         /\ Max(1 .. k) = k /\ (1 .. k) \ {k} = 1 .. (k - 1)
<1>1. k \in Nat /\ 1 <= k /\ k <= n
  OBVIOUS
<1>2. k \in 1 .. k /\ 1 .. k \subseteq 1 .. n
  BY <1>1
<1>3. PICK S : S = 1 .. k
  OBVIOUS
<1>4. S \in SUBSET (1 .. k) /\ S # {}
  BY <1>2, <1>3
<1>5. Max(S) \in S /\ \A y \in S : Max(S) >= y
  BY ONLY <1>1, <1>4, MaxOf
<1>6. Max(1 .. k) = k
  BY <1>1, <1>2, <1>3, <1>5
<1>7. (1 .. k) \ {k} = 1 .. (k - 1)
  BY <1>1
<1>8. QED
  BY <1>2, <1>6, <1>7

\* The checksums are filled in one after the other: before is the buffer before
\* each of them and after the last.
LEMMA FillsInOrder ==
  ASSUME NEW seq, NEW n \in Nat, DOMAIN seq = 1 .. n, NEW base \in Buffers,
         \A b \in Buffers, i \in 1 .. n : FillChecksum(b, seq[i]) \in Buffers
  PROVE  \E before \in [0 .. n -> Buffers] :
           /\ before[0] = base
           /\ \A k \in 1 .. n : before[k] = FillChecksum(before[k - 1], seq[k])
           /\ FoldLeft(FillChecksum, base, seq) = before[n]
<1> DEFINE g == [i \in 1 .. n |-> [b \in Buffers |-> FillChecksum(b, seq[i])]]
           Fold(f) == [s \in SUBSET (1 .. n) |->
                         IF s = {} THEN base
                         ELSE FillChecksum(f[s \ {Max(s)}], seq[Max(s)])]
           iter == CHOOSE f : f = Fold(f)
<1>1. g \in [1 .. n -> [Buffers -> Buffers]]
  OBVIOUS
<1>2. PICK f : f \in [SUBSET (1 .. n) -> Buffers] /\ IsFold(f, g, base, n)
  <2>1. PICK h : h = g
    OBVIOUS
  <2>2. h \in [1 .. n -> [Buffers -> Buffers]]
    BY <1>1, <2>1
  <2>3. PICK f : f \in [SUBSET (1 .. n) -> Buffers] /\ IsFold(f, h, base, n)
    BY <2>2, FoldExists
  <2>4. QED
    BY <2>1, <2>3
<1>3. f = Fold(f)
  <2>1. ASSUME NEW s \in SUBSET (1 .. n), s # {}
        PROVE  g[Max(s)][f[s \ {Max(s)}]] = FillChecksum(f[s \ {Max(s)}], seq[Max(s)])
    <3>1. PICK m : m = Max(s)
      OBVIOUS
    <3>2. m \in 1 .. n
      BY <2>1, <3>1, MaxOf
    <3>3. f[s \ {m}] \in Buffers
      <4>1. s \ {m} \in SUBSET (1 .. n)
        OBVIOUS
      <4>2. QED
        BY <4>1, <1>2
    <3>4. g[m][f[s \ {m}]] = FillChecksum(f[s \ {m}], seq[m])
      BY <3>2, <3>3
    <3>5. QED
      BY <3>1, <3>4
  <2> HIDE DEF g
  <2>2. ASSUME NEW s \in SUBSET (1 .. n) PROVE FoldStep(f, g, base, s) = Fold(f)[s]
    BY <2>1 DEF FoldStep
  <2>3. QED
    BY <1>2, <2>2 DEF IsFold
<1>4. iter = Fold(iter)
  BY <1>3
<1>5. FoldLeft(FillChecksum, base, seq) = iter[1 .. n]
  BY DEF FoldLeft, MapThenFoldSet
<1> HIDE DEF iter
<1>6. iter[{}] = base
  BY <1>4
<1>7. ASSUME NEW k \in 1 .. n PROVE iter[1 .. k] = FillChecksum(iter[1 .. (k - 1)], seq[k])
  <2>1. /\ 1 .. k \in SUBSET (1 .. n) /\ 1 .. k # {}
        /\ Max(1 .. k) = k /\ (1 .. k) \ {k} = 1 .. (k - 1)
    BY FirstPlaces
  <2>2. QED
    BY <1>4, <2>1
<1> DEFINE before == [k \in 0 .. n |-> iter[1 .. k]]
           Typed == {k \in 0 .. n : before[k] \in Buffers}
<1>8. 1 .. 0 = {}
  OBVIOUS
<1>9. before[0] = base
  BY <1>6, <1>8
<1>10. \A k \in 1 .. n : before[k] = FillChecksum(before[k - 1], seq[k])
  BY <1>7
<1>11. 0 .. n \subseteq Typed
  <2> HIDE DEF before
  <2>1. 0 \in Typed
    BY <1>9
  <2>2. \A k \in 1 .. n : k - 1 \in Typed => k \in Typed
    BY <1>10
  <2> HIDE DEF Typed
  <2>3. QED
    BY <2>1, <2>2, Stepwise
<1>12. before \in [0 .. n -> Buffers]
  BY <1>11
<1>13. FoldLeft(FillChecksum, base, seq) = before[n]
  BY <1>5
<1> HIDE DEF before
<1>14. QED
  BY <1>9, <1>10, <1>12, <1>13

\* So are the Internet checksums of the packet the statement stands for.
LEMMA MeantInOrder ==
  ASSUME NEW seq, NEW n \in Nat, DOMAIN seq = 1 .. n, NEW base \in Buffers,
         \A b \in Buffers, i \in 1 .. n : FillMeant(b, seq[i]) \in Buffers
  PROVE  \E before \in [0 .. n -> Buffers] :
           /\ before[0] = base
           /\ \A k \in 1 .. n : before[k] = FillMeant(before[k - 1], seq[k])
           /\ FoldLeft(FillMeant, base, seq) = before[n]
<1> DEFINE g == [i \in 1 .. n |-> [b \in Buffers |-> FillMeant(b, seq[i])]]
           Fold(f) == [s \in SUBSET (1 .. n) |->
                         IF s = {} THEN base
                         ELSE FillMeant(f[s \ {Max(s)}], seq[Max(s)])]
           iter == CHOOSE f : f = Fold(f)
<1>1. g \in [1 .. n -> [Buffers -> Buffers]]
  OBVIOUS
<1>2. PICK f : f \in [SUBSET (1 .. n) -> Buffers] /\ IsFold(f, g, base, n)
  <2>1. PICK h : h = g
    OBVIOUS
  <2>2. h \in [1 .. n -> [Buffers -> Buffers]]
    BY <1>1, <2>1
  <2>3. PICK f : f \in [SUBSET (1 .. n) -> Buffers] /\ IsFold(f, h, base, n)
    BY <2>2, FoldExists
  <2>4. QED
    BY <2>1, <2>3
<1>3. f = Fold(f)
  <2>1. ASSUME NEW s \in SUBSET (1 .. n), s # {}
        PROVE  g[Max(s)][f[s \ {Max(s)}]] = FillMeant(f[s \ {Max(s)}], seq[Max(s)])
    <3>1. PICK m : m = Max(s)
      OBVIOUS
    <3>2. m \in 1 .. n
      BY <2>1, <3>1, MaxOf
    <3>3. f[s \ {m}] \in Buffers
      <4>1. s \ {m} \in SUBSET (1 .. n)
        OBVIOUS
      <4>2. QED
        BY <4>1, <1>2
    <3>4. g[m][f[s \ {m}]] = FillMeant(f[s \ {m}], seq[m])
      BY <3>2, <3>3
    <3>5. QED
      BY <3>1, <3>4
  <2> HIDE DEF g
  <2>2. ASSUME NEW s \in SUBSET (1 .. n) PROVE FoldStep(f, g, base, s) = Fold(f)[s]
    BY <2>1 DEF FoldStep
  <2>3. QED
    BY <1>2, <2>2 DEF IsFold
<1>4. iter = Fold(iter)
  BY <1>3
<1>5. FoldLeft(FillMeant, base, seq) = iter[1 .. n]
  BY DEF FoldLeft, MapThenFoldSet
<1> HIDE DEF iter
<1>6. iter[{}] = base
  BY <1>4
<1>7. ASSUME NEW k \in 1 .. n PROVE iter[1 .. k] = FillMeant(iter[1 .. (k - 1)], seq[k])
  <2>1. /\ 1 .. k \in SUBSET (1 .. n) /\ 1 .. k # {}
        /\ Max(1 .. k) = k /\ (1 .. k) \ {k} = 1 .. (k - 1)
    BY FirstPlaces
  <2>2. QED
    BY <1>4, <2>1
<1> DEFINE before == [k \in 0 .. n |-> iter[1 .. k]]
           Typed == {k \in 0 .. n : before[k] \in Buffers}
<1>8. 1 .. 0 = {}
  OBVIOUS
<1>9. before[0] = base
  BY <1>6, <1>8
<1>10. \A k \in 1 .. n : before[k] = FillMeant(before[k - 1], seq[k])
  BY <1>7
<1>11. 0 .. n \subseteq Typed
  <2> HIDE DEF before
  <2>1. 0 \in Typed
    BY <1>9
  <2>2. \A k \in 1 .. n : k - 1 \in Typed => k \in Typed
    BY <1>10
  <2> HIDE DEF Typed
  <2>3. QED
    BY <2>1, <2>2, Stepwise
<1>12. before \in [0 .. n -> Buffers]
  BY <1>11
<1>13. FoldLeft(FillMeant, base, seq) = before[n]
  BY <1>5
<1> HIDE DEF before
<1>14. QED
  BY <1>9, <1>10, <1>12, <1>13

-----------------------------------------------------------------------------
(* The statement that is read.                                             *)

Entry == [mask : MASK_CS .. ByteRange - 1, byte : Bytes]
Field == [pos : Positions, start : Nat, end : Nat]

\* Tokens with their numbers.
Token == [kind : {"hex", "?"}, value : Nat] \cup [kind : {"*"}] \cup [kind : {"&"}, value : Ranges]

\* The k-th token is in the specified packet at its offset.
TakenAs(k) ==
  /\ Offset(k) \in 0 .. Len(specified) - 1
  /\ tokens[k].kind = "hex" => specified[Offset(k) + 1] = Exact(tokens[k].value % ByteRange)
  /\ tokens[k].kind = "?" => /\ operation = "send"
                             /\ specified[Offset(k) + 1] = Masked(tokens[k].value % ByteRange)
  /\ tokens[k].kind \in {"*", "&"} /\ operation = "receive"
       => specified[Offset(k) + 1] = Masked(MASK_SKIP)

\* Every byte of the specified packet has a mask that its operation knows, and
\* the bytes of a checksum are marked as such.
EntriesInv ==
  /\ operation = "send" => \A i \in DOMAIN specified : specified[i].mask # MASK_SKIP
  /\ \A i \in DOMAIN csArr :
       /\ csArr[i].pos + 2 <= Len(specified)
       /\ specified[csArr[i].pos + 1].mask = MASK_CS
       /\ specified[csArr[i].pos + 2].mask = MASK_CS

TokensInv ==
  /\ tokens \in Seq(Token)
  /\ WrittenLen = Len(specified)
  /\ \A k \in DOMAIN tokens : TakenAs(k)

\* Between statements nothing is specified; the operation is that of the statement.
StatementInv ==
  /\ pc = "idle" => specified = <<>> /\ csArr = <<>> /\ tokens = <<>>
  /\ pc = "tokens" => operation \in {"send", "receive"}
  /\ pc \in {"send", "receive"} => operation = pc
  /\ Len(specified) <= MaxBytes + 1
  /\ EntriesInv
  /\ TokensInv

\* The sequences of a well typed state.
LEMMA SpecifiedIs ==
  ASSUME TypeOK
  PROVE  /\ specified \in Seq(Entry) /\ Len(specified) \in Nat
         /\ DOMAIN specified = 1 .. Len(specified)
         /\ \A i \in 1 .. Len(specified) : specified[i] \in Entry
         /\ csArr \in Seq(Field) /\ Len(csArr) \in Nat /\ DOMAIN csArr = 1 .. Len(csArr)
         /\ \A i \in 1 .. Len(csArr) : csArr[i] \in Field
<1>1. specified \in Seq(Entry) /\ csArr \in Seq(Field)
  BY DEF TypeOK, Entry, Field
<1>2. /\ Len(specified) \in Nat /\ DOMAIN specified = 1 .. Len(specified)
      /\ Len(csArr) \in Nat /\ DOMAIN csArr = 1 .. Len(csArr)
  BY <1>1, LenProperties
<1>3. \A i \in 1 .. Len(specified) : specified[i] \in Entry
  BY <1>1, ElementOfSeq
<1>4. \A i \in 1 .. Len(csArr) : csArr[i] \in Field
  BY <1>1, ElementOfSeq
<1>5. QED
  BY <1>1, <1>2, <1>3, <1>4

\* The offset of a token is that of the one before and the bytes it takes.
LEMMA OffsetNext ==
  ASSUME NEW k \in Nat, k >= 1
  PROVE  /\ Offset(k) \in Nat
         /\ Offset(k + 1) = Offset(k) + (IF IsField(k) THEN 2 ELSE 1)
<1> DEFINE Fields(n) == {j \in 1 .. n - 1 : IsField(j)}
<1>1. IsFiniteSet(Fields(k)) /\ Cardinality(Fields(k)) \in Nat
  <2>1. IsFiniteSet(1 .. k - 1) /\ Fields(k) \in SUBSET (1 .. k - 1)
    BY FS_Interval
  <2>2. IsFiniteSet(Fields(k))
    BY <2>1, FS_Subset
  <2>3. QED
    BY <2>2, FS_CardinalityType
<1>2. CASE IsField(k)
  <2>1. Fields(k + 1) = Fields(k) \cup {k} /\ k \notin Fields(k)
    BY <1>2
  <2>2. PICK S : S = Fields(k)
    OBVIOUS
  <2>3. Cardinality(S \cup {k}) = Cardinality(S) + 1
    BY <1>1, <2>1, <2>2, FS_AddElement
  <2> HIDE DEF Fields
  <2>4. Cardinality(Fields(k + 1)) = Cardinality(Fields(k)) + 1
    BY <2>1, <2>2, <2>3
  <2>5. QED
    BY <1>1, <1>2, <2>4 DEF Offset, Fields
<1>3. CASE ~IsField(k)
  <2>1. Fields(k + 1) = Fields(k)
    BY <1>3
  <2>2. QED
    BY <1>1, <1>3, <2>1 DEF Offset
<1>4. QED
  BY <1>2, <1>3

NextOffsets == \A k \in Nat : k >= 1 => Offset(k + 1) = Offset(k) + (IF IsField(k) THEN 2 ELSE 1)

\* The same after a step.
LEMMA OffsetNextAfter == NextOffsets'
<1>1. NextOffsets
  BY OffsetNext DEF NextOffsets
<1>2. QED
  BY <1>1, PTL

\* A token that follows leaves the offsets of those before it.
LEMMA OffsetKept ==
  ASSUME tokens \in Seq(Token), NEW token \in Token, tokens' = Append(tokens, token),
         operation' = operation
  PROVE  \A k \in 1 .. Len(tokens) + 1 : Offset(k)' = Offset(k)
<1>1. \A j \in 1 .. Len(tokens) : tokens'[j] = tokens[j]
  BY AppendProperties
<1>2. ASSUME NEW k \in 1 .. Len(tokens) + 1 PROVE Offset(k)' = Offset(k)
  <2>1. \A j \in 1 .. k - 1 : j \in 1 .. Len(tokens)
    BY LenProperties
  <2>2. {j \in 1 .. k - 1 : IsField(j)}' = {j \in 1 .. k - 1 : IsField(j)}
    BY <1>1, <2>1 DEF IsField
  <2>3. QED
    BY <2>2 DEF Offset
<1>3. QED
  BY <1>2

\* Taking a token as its bytes keeps all tokens at their offsets.
LEMMA SpecifyTokens ==
  ASSUME TypeOK, StatementInv, AtToken, NEW token \in Token, NEW entries \in Seq(Entry),
         Specify(token, entries),
         Len(entries) = IF operation = "send" /\ token.kind = "&" THEN 2 ELSE 1,
         token.kind = "hex" => entries[1] = Exact(token.value % ByteRange),
         token.kind = "?" => operation = "send" /\ entries[1] = Masked(token.value % ByteRange),
         token.kind \in {"*", "&"} /\ operation = "receive" => entries[1] = Masked(MASK_SKIP)
  PROVE  /\ TokensInv'
         /\ specified' \in Seq(Entry)
         /\ Len(specified') = Len(specified) + Len(entries)
         /\ Len(specified') <= MaxBytes + 1
         /\ \A i \in 1 .. Len(specified) : specified'[i] = specified[i]
         /\ \A i \in 1 .. Len(entries) : specified'[Len(specified) + i] = entries[i]
<1>1. /\ specified \in Seq(Entry) /\ Len(specified) \in Nat /\ Len(specified) < MaxBytes
      /\ tokens \in Seq(Token) /\ Len(tokens) \in Nat /\ DOMAIN tokens = 1 .. Len(tokens)
      /\ Len(entries) \in {1, 2}
  BY SpecifiedIs, LenProperties DEF AtToken, StatementInv, TokensInv
<1>2. /\ specified' = specified \o entries
      /\ tokens' = Append(tokens, token)
      /\ operation' = operation
  BY DEF Specify
<1>3. PICK spec : spec = specified'
  OBVIOUS
<1>4. /\ spec \in Seq(Entry) /\ Len(spec) = Len(specified) + Len(entries)
      /\ \A i \in 1 .. Len(specified) + Len(entries) : spec[i] =
           IF i <= Len(specified) THEN specified[i] ELSE entries[i - Len(specified)]
  BY <1>1, <1>2, <1>3, ConcatProperties
<1>5. /\ specified' \in Seq(Entry)
      /\ Len(specified') = Len(specified) + Len(entries)
      /\ Len(specified') <= MaxBytes + 1
      /\ \A i \in 1 .. Len(specified) : specified'[i] = specified[i]
  BY <1>1, <1>3, <1>4, BoundsAre
<1>6. \A i \in 1 .. Len(entries) : specified'[Len(specified) + i] = entries[i]
  <2>1. ASSUME NEW i \in 1 .. Len(entries) PROVE spec[Len(specified) + i] = entries[i]
    <3>1. Len(specified) + i \in 1 .. Len(specified) + Len(entries)
          /\ ~(Len(specified) + i <= Len(specified)) /\ (Len(specified) + i) - Len(specified) = i
      BY <1>1
    <3>2. QED
      BY <1>4, <3>1
  <2>2. QED
    BY <1>3, <2>1
<1>7. PICK n : n = Len(tokens) + 1
  OBVIOUS
<1>8. /\ tokens' \in Seq(Token) /\ Len(tokens') = n /\ n \in Nat /\ n >= 1
      /\ DOMAIN tokens' = 1 .. n
      /\ \A k \in 1 .. Len(tokens) : tokens'[k] = tokens[k]
      /\ tokens'[n] = token
  <2>1. PICK seq : seq = tokens'
    OBVIOUS
  <2>2. /\ seq \in Seq(Token) /\ Len(seq) = Len(tokens) + 1
        /\ \A k \in 1 .. Len(tokens) : seq[k] = tokens[k]
        /\ seq[Len(tokens) + 1] = token
    BY <1>1, <1>2, <2>1, AppendProperties
  <2>3. QED
    BY <1>1, <1>7, <2>1, <2>2, LenProperties
<1>9. \A k \in 1 .. n : Offset(k)' = Offset(k)
  BY <1>1, <1>2, <1>7, OffsetKept
<1>10. Offset(n) = Len(specified)
  BY <1>7 DEF StatementInv, TokensInv, WrittenLen
<1>11. Offset(n)' = Len(specified)
  BY <1>8, <1>9, <1>10
<1>12. WrittenLen' = Len(specified')
  <2>1. IsField(n)' <=> operation = "send" /\ token.kind = "&"
    BY <1>2, <1>8 DEF IsField
  <2>2. Offset(n + 1)' = Offset(n)' + (IF IsField(n)' THEN 2 ELSE 1)
    BY <1>8, OffsetNextAfter DEF NextOffsets
  <2>3. WrittenLen' = Offset(n + 1)'
    BY <1>8 DEF WrittenLen
  <2>4. QED
    BY <1>5, <1>11, <2>1, <2>2, <2>3
<1>13. ASSUME NEW k \in 1 .. Len(tokens) PROVE TakenAs(k)'
  <2>1. TakenAs(k) /\ k \in 1 .. n
    BY <1>1, <1>7 DEF StatementInv, TokensInv
  <2>2. Offset(k)' = Offset(k) /\ tokens'[k] = tokens[k] /\ operation' = operation
    BY <1>2, <1>8, <1>9, <2>1
  <2>3. Offset(k) \in 0 .. Len(specified) - 1
    BY <2>1 DEF TakenAs
  <2>4. Offset(k) + 1 \in 1 .. Len(specified) /\ Offset(k) \in 0 .. Len(specified') - 1
    BY <1>1, <1>5, <2>3
  <2>5. specified'[Offset(k) + 1] = specified[Offset(k) + 1]
    BY <1>5, <2>4
  <2>6. QED
    BY <2>1, <2>2, <2>4, <2>5 DEF TakenAs
<1>14. TakenAs(n)'
  <2>1. Len(specified) \in 0 .. Len(specified') - 1 /\ 1 \in 1 .. Len(entries)
    BY <1>1, <1>5
  <2>2. specified'[Len(specified) + 1] = entries[1]
    BY <1>6, <2>1
  <2>3. QED
    BY <1>2, <1>8, <1>11, <2>1, <2>2 DEF TakenAs
<1>15. \A k \in DOMAIN tokens' : TakenAs(k)'
  <2>1. \A k \in 1 .. n : k \in 1 .. Len(tokens) \/ k = n
    BY <1>1, <1>7
  <2>2. QED
    BY <1>8, <1>13, <1>14, <2>1
<1>16. QED
  BY <1>5, <1>6, <1>8, <1>12, <1>15 DEF TokensInv

-----------------------------------------------------------------------------
(* The send buffer.                                                        *)

\* A checksum takes the two bytes of its field, and they are bytes.
LEMMA FillType ==
  ASSUME NEW buf \in Buffers, NEW cs \in Field, cs.start <= cs.end => LastRead(cs) \in Positions
  PROVE  /\ FillChecksum(buf, cs) \in Buffers
         /\ \A i \in Positions : i \notin {cs.pos, cs.pos + 1} => FillChecksum(buf, cs)[i] = buf[i]
<1>1. PICK sum : sum = check_sum(buf, cs.start, cs.end)
  OBVIOUS
<1>2. sum \in 0 .. WordRange - 1
  <2>1. PICK start \in Nat, end \in Nat : start = cs.start /\ end = cs.end
    BY DEF Field
  <2>2. start <= end => IF (end - start) % 2 = 0 THEN end + 2 \in Positions ELSE end \in Positions
    BY <2>1 DEF LastRead
  <2>3. QED
    BY <1>1, <2>1, <2>2, ChecksumType
<1>3. sum \div ByteRange \in Bytes /\ sum % ByteRange \in Bytes
  <2>1. PICK B \in Nat : B = ByteRange /\ B > 1 /\ WordRange = B * B
    BY BoundsAre
  <2>2. sum \in Nat /\ sum < B * B
    BY <1>2, <2>1, BoundsAre
  <2>3. PICK q \in Nat, r \in 0 .. B - 1 : q = sum \div B /\ r = sum % B /\ sum = B * q + r
    BY <2>1, <2>2, DivMod
  <2>4. q < B
    <3>1. CASE q >= B
      <4>1. B * q >= B * B
        BY <3>1, <2>1
      <4>2. QED
        BY <4>1, <2>2, <2>3
    <3>2. QED
      BY <3>1
  <2>5. QED
    BY <2>1, <2>3, <2>4 DEF Bytes
<1>4. FillChecksum(buf, cs) = [buf EXCEPT ![cs.pos] = sum \div ByteRange, ![cs.pos + 1] = sum % ByteRange]
  BY <1>1 DEF FillChecksum
<1>5. FillChecksum(buf, cs) \in Buffers
  BY <1>3, <1>4 DEF Buffers
<1>6. \A i \in Positions : i \notin {cs.pos, cs.pos + 1} => FillChecksum(buf, cs)[i] = buf[i]
  BY <1>4 DEF Buffers
<1>7. QED
  BY <1>5, <1>6

\* The loop of packetSend writes bytes, up to the first position it refuses.
LEMMA FilledType ==
  ASSUME TypeOK, StatementInv, pc = "send"
  PROVE  /\ FilledPkt \in Buffers
         /\ Refused = {} => \A i \in 0 .. Len(specified) - 1 :
              /\ i \in Positions
              /\ specified[i + 1].mask = MASK_EXACT => FilledPkt[i] = specified[i + 1].byte
              /\ specified[i + 1].mask \in Nat => /\ specified[i + 1].mask < recvLen
                                                  /\ FilledPkt[i] = recvPkt[specified[i + 1].mask]
<1>1. /\ Len(specified) \in Nat /\ DOMAIN specified = 1 .. Len(specified)
      /\ \A i \in 1 .. Len(specified) : specified[i] \in Entry /\ specified[i].mask # MASK_SKIP
      /\ Len(specified) <= MaxBytes + 1
  BY SpecifiedIs DEF StatementInv, EntriesInv
<1>2. recvLen \in Nat /\ recvLen <= MaxPktSize /\ recvPkt \in Buffers /\ pkt \in Buffers
  BY BoundsAre DEF TypeOK, Buffers
<1>3. Filled \in Nat /\ Filled <= Len(specified) /\ \A i \in 1 .. Filled : i \notin Refused
  <2>1. CASE Refused = {}
    BY <1>1, <2>1 DEF Filled
  <2>2. CASE Refused # {}
    <3>1. Refused \in SUBSET Nat
      BY <1>1 DEF Refused
    <3>2. Min(Refused) \in Refused /\ \A y \in Refused : Min(Refused) <= y
      BY <2>2, <3>1, MinOf
    <3>3. Min(Refused) \in 1 .. Len(specified)
      BY <3>2, <1>1 DEF Refused
    <3>4. Filled = Min(Refused) - 1
      BY <2>2 DEF Filled
    <3>5. QED
      BY <1>1, <3>1, <3>2, <3>3, <3>4
  <2>3. QED
    BY <2>1, <2>2
<1>4. ASSUME NEW i \in Positions, i < Filled
      PROVE  /\ i + 1 \in 1 .. Len(specified)
             /\ specified[i + 1].mask \in {MASK_EXACT, MASK_CS} \cup Nat
             /\ specified[i + 1].mask \in Nat =>
                  specified[i + 1].mask < recvLen /\ specified[i + 1].mask \in Positions
  <2>1. i \in Nat /\ i + 1 \in 1 .. Filled /\ i + 1 \in 1 .. Len(specified)
    BY <1>1, <1>3, <1>4, BoundsAre DEF Positions
  <2>2. i + 1 \notin Refused /\ specified[i + 1] \in Entry /\ specified[i + 1].mask # MASK_SKIP
    BY <1>1, <1>3, <2>1
  <2>3. PICK m : m = specified[i + 1].mask
    OBVIOUS
  <2>4. m \in -3 .. ByteRange - 1 /\ m # -2
    BY <2>2, <2>3 DEF Entry, MASK_CS, MASK_SKIP
  <2>5. m \in {MASK_EXACT, MASK_CS} \cup Nat
    BY <2>4, BoundsAre DEF MASK_EXACT, MASK_CS
  <2>6. m >= 0 => recvLen > m
    BY <2>1, <2>2, <2>3, <1>1 DEF Refused, CopyAllowed
  <2>7. m \in Nat => m < recvLen /\ m \in Positions
    BY <2>6, <1>2, BoundsAre DEF Positions
  <2>8. QED
    BY <2>1, <2>3, <2>5, <2>7
<1>5. ASSUME NEW i \in Positions
      PROVE  /\ FilledPkt[i] \in Bytes
             /\ i < Filled /\ specified[i + 1].mask = MASK_EXACT => FilledPkt[i] = specified[i + 1].byte
             /\ i < Filled /\ specified[i + 1].mask \in Nat => FilledPkt[i] = recvPkt[specified[i + 1].mask]
  <2>1. CASE i >= Filled
    <3>1. FilledPkt[i] = pkt[i]
      BY <2>1 DEF FilledPkt
    <3>2. i \in Int
      BY BoundsAre DEF Positions
    <3>3. QED
      BY <2>1, <3>1, <3>2, <1>2, <1>3 DEF Buffers
  <2>2. CASE ~(i >= Filled)
    <3>1. i < Filled
      BY <2>2, <1>3, BoundsAre DEF Positions
    <3>2. PICK entry : entry = specified[i + 1]
      OBVIOUS
    <3>3. /\ entry \in Entry
          /\ entry.mask \in {MASK_EXACT, MASK_CS} \cup Nat
          /\ entry.mask \in Nat => entry.mask \in Positions
      BY <1>1, <1>4, <3>1, <3>2
    <3>4. FilledPkt[i] = CASE entry.mask = MASK_EXACT -> entry.byte
                           [] entry.mask = MASK_CS    -> pkt[i]
                           [] OTHER                   -> recvPkt[entry.mask]
      BY <2>2, <3>2 DEF FilledPkt
    <3>5. CASE entry.mask = MASK_EXACT
      BY <3>2, <3>3, <3>4, <3>5 DEF MASK_EXACT, MASK_CS, Entry
    <3>6. CASE entry.mask = MASK_CS
      BY <3>2, <3>4, <3>6, <1>2 DEF MASK_EXACT, MASK_CS, Buffers
    <3>7. CASE entry.mask \in Nat
      <4>1. FilledPkt[i] = recvPkt[entry.mask]
        BY <3>4, <3>7 DEF MASK_EXACT, MASK_CS
      <4>2. entry.mask # MASK_EXACT
        BY <3>7 DEF MASK_EXACT
      <4>3. QED
        BY <3>2, <3>3, <3>7, <4>1, <4>2, <1>2 DEF Buffers
    <3>8. QED
      BY <3>3, <3>5, <3>6, <3>7
  <2>3. QED
    BY <2>1, <2>2
<1>6. FilledPkt \in Buffers
  <2>1. FilledPkt = [i \in Positions |-> FilledPkt[i]]
    BY DEF FilledPkt
  <2>2. QED
    BY <2>1, <1>5 DEF Buffers
<1>7. ASSUME Refused = {}, NEW i \in 0 .. Len(specified) - 1
      PROVE  i \in Positions /\ i < Filled
  BY <1>1, <1>7, BoundsAre DEF Filled, Positions
<1>8. QED
  BY <1>4, <1>5, <1>6, <1>7

\* The checksums are filled into the packet one after the other.
LEMMA SendFills ==
  ASSUME TypeOK, StatementInv, Send
  PROVE  \E before \in [0 .. Len(csArr) -> Buffers] :
           /\ before[0] = FilledPkt
           /\ \A k \in 1 .. Len(csArr) : before[k] = FillChecksum(before[k - 1], csArr[k])
           /\ pkt' = before[Len(csArr)]
<1>1. /\ pc = "send" /\ RangesInPkt
      /\ pkt' = FoldLeft(FillChecksum, FilledPkt, csArr)
  BY DEF Send
<1>2. PICK n, base : n = Len(csArr) /\ base = FilledPkt
  OBVIOUS
<1>3. n \in Nat /\ DOMAIN csArr = 1 .. n /\ base \in Buffers
  BY <1>1, <1>2, SpecifiedIs, FilledType
<1>4. \A b \in Buffers, i \in 1 .. n : FillChecksum(b, csArr[i]) \in Buffers
  <2>1. ASSUME NEW b \in Buffers, NEW i \in 1 .. n PROVE FillChecksum(b, csArr[i]) \in Buffers
    <3>1. PICK cs : cs = csArr[i]
      OBVIOUS
    <3>2. cs \in Field
      BY <3>1, <1>2, SpecifiedIs
    <3>3. cs.start <= cs.end => LastRead(cs) \in Positions
      BY <3>1, <1>1, <1>3 DEF RangesInPkt
    <3>4. QED
      BY <3>1, <3>2, <3>3, FillType
  <2>2. QED
    BY <2>1
<1>5. PICK before \in [0 .. n -> Buffers] :
        /\ before[0] = base
        /\ \A k \in 1 .. n : before[k] = FillChecksum(before[k - 1], csArr[k])
        /\ FoldLeft(FillChecksum, base, csArr) = before[n]
  BY <1>3, <1>4, FillsInOrder, ZenonT(30)
<1>6. QED
  BY <1>1, <1>2, <1>5

\* Bytes that are not part of a checksum stay as the loop of packetSend left them.
LEMMA SendKeeps ==
  ASSUME TypeOK, StatementInv, Send
  PROVE  /\ pkt' \in Buffers
         /\ \A i \in Positions : i \notin FieldPositions => pkt'[i] = FilledPkt[i]
<1>1. PICK n : n = Len(csArr)
  OBVIOUS
<1>2. PICK before \in [0 .. n -> Buffers] :
        /\ before[0] = FilledPkt
        /\ \A k \in 1 .. n : before[k] = FillChecksum(before[k - 1], csArr[k])
        /\ pkt' = before[n]
  BY <1>1, SendFills
<1>3. n \in Nat /\ DOMAIN csArr = 1 .. n
  BY <1>1, SpecifiedIs
<1>4. ASSUME NEW i \in Positions, i \notin FieldPositions
      PROVE  pkt'[i] = FilledPkt[i]
  <2> DEFINE Kept == {k \in 0 .. n : before[k][i] = FilledPkt[i]}
  <2>1. 0 \in Kept
    BY <1>2, <1>3
  <2>2. ASSUME NEW k \in 1 .. n, k - 1 \in Kept
        PROVE  k \in Kept
    <3>1. PICK cs, b : cs = csArr[k] /\ b = before[k - 1]
      OBVIOUS
    <3>2. k - 1 \in 0 .. n
      BY <1>3
    <3>3. cs \in Field /\ b \in Buffers /\ before[k] = FillChecksum(b, cs)
      BY <3>1, <3>2, <1>1, <1>2, SpecifiedIs
    <3>4. cs.start <= cs.end => LastRead(cs) \in Positions
      BY <3>1, <1>3 DEF Send, RangesInPkt
    <3>5. i \notin {cs.pos, cs.pos + 1}
      BY <3>1, <1>3, <1>4 DEF FieldPositions
    <3>6. FillChecksum(b, cs)[i] = b[i]
      BY <3>3, <3>4, <3>5, <1>4, FillType
    <3>7. QED
      BY <2>2, <3>1, <3>3, <3>6, <1>3
  <2> HIDE DEF Kept
  <2>3. 0 .. n \subseteq Kept
    BY <2>1, <2>2, <1>3, Stepwise
  <2>4. n \in Kept
    BY <2>3, <1>3
  <2>5. QED
    BY <2>4, <1>2 DEF Kept
<1>5. pkt' \in Buffers
  BY <1>2, <1>3
<1>6. QED
  BY <1>4, <1>5

-----------------------------------------------------------------------------
(* Type correctness.                                                       *)

\* The statement that is specified ends, whatever becomes of it.
LEMMA DoneType ==
  ASSUME TypeOK, StatementInv, NEW how \in {"sent", "matched", "failed", "error"}, Done(how),
         UNCHANGED <<operation, statements>>,
         recvPkt' \in Buffers, pkt' \in Buffers, recvLen' \in 0 .. MaxPktSize,
         lastFrame' \in Seq(Bytes)
  PROVE  TypeOK' /\ StatementInv'
<1>1. /\ pc' = "idle" /\ outcome' = how
      /\ specified' = <<>> /\ csArr' = <<>> /\ tokens' = <<>>
  BY DEF Done
<1>2. /\ <<>> \in Seq([mask : MASK_CS .. ByteRange - 1, byte : Bytes])
      /\ <<>> \in Seq([pos : Positions, start : Nat, end : Nat])
      /\ <<>> \in Seq(Token) /\ Len(<<>>) = 0 /\ DOMAIN <<>> = {}
  BY LenProperties
<1>3. TypeOK'
  BY <1>1, <1>2, BoundsAre DEF TypeOK, Buffers
<1>4. Offset(1)' = 0
  <2>1. {j \in 1 .. 1 - 1 : IsField(j)}' = {}
    OBVIOUS
  <2>2. Cardinality({}) = 0
    BY FS_EmptySet
  <2>3. QED
    BY <2>1, <2>2 DEF Offset
<1>5. WrittenLen' = Len(specified')
  <2>1. WrittenLen' = Offset(1)'
    BY <1>1, <1>2 DEF WrittenLen
  <2>2. QED
    BY <1>1, <1>2, <1>4, <2>1
<1>6. TokensInv'
  BY <1>1, <1>2, <1>5 DEF TokensInv
<1>7. EntriesInv'
  BY <1>1, <1>2 DEF EntriesInv
<1>8. QED
  BY <1>1, <1>2, <1>3, <1>6, <1>7, BoundsAre DEF StatementInv

\* A token is one of the entries it stands for, so the packet stays well typed.
LEMMA TokenType ==
  ASSUME TypeOK, StatementInv, AtToken, NEW token \in Token, NEW entries \in Seq(Entry),
         Specify(token, entries),
         Len(entries) = IF operation = "send" /\ token.kind = "&" THEN 2 ELSE 1,
         token.kind = "hex" => entries[1] = Exact(token.value % ByteRange),
         token.kind = "?" => operation = "send" /\ entries[1] = Masked(token.value % ByteRange),
         token.kind \in {"*", "&"} /\ operation = "receive" => entries[1] = Masked(MASK_SKIP),
         operation = "send" => \A i \in 1 .. Len(entries) : entries[i].mask # MASK_SKIP,
         \/ csArr' = csArr
         \/ \E field \in Field : /\ csArr' = Append(csArr, field) /\ Len(csArr) < MaxCsSize
                                 /\ field.pos = Len(specified) /\ Len(entries) = 2
                                 /\ entries[1].mask = MASK_CS /\ entries[2].mask = MASK_CS
  PROVE  TypeOK' /\ StatementInv'
<1>1. /\ TokensInv'
      /\ specified' \in Seq(Entry)
      /\ Len(specified') = Len(specified) + Len(entries)
      /\ Len(specified') <= MaxBytes + 1
      /\ \A i \in 1 .. Len(specified) : specified'[i] = specified[i]
      /\ \A i \in 1 .. Len(entries) : specified'[Len(specified) + i] = entries[i]
  BY SpecifyTokens
<1>2. /\ Len(specified) \in Nat /\ DOMAIN specified = 1 .. Len(specified)
      /\ Len(entries) \in {1, 2}
      /\ csArr \in Seq(Field) /\ Len(csArr) \in Nat /\ DOMAIN csArr = 1 .. Len(csArr)
      /\ Len(csArr) <= MaxCsSize
  BY SpecifiedIs DEF TypeOK
<1>3. UNCHANGED <<pc, operation, recvPkt, recvLen, pkt, outcome, statements, lastFrame>>
      /\ pc = "tokens"
  BY DEF Specify, AtToken
<1>4. PICK size : size = Len(specified') /\ size \in Nat /\ DOMAIN specified' = 1 .. size
  <2>1. PICK spec : spec = specified'
    OBVIOUS
  <2>2. Len(spec) \in Nat /\ DOMAIN spec = 1 .. Len(spec)
    BY <1>1, <2>1, LenProperties
  <2>3. QED
    BY <2>1, <2>2
<1>5. operation' = "send" => \A i \in DOMAIN specified' : specified'[i].mask # MASK_SKIP
  <2>1. SUFFICES ASSUME operation = "send", NEW i \in 1 .. size
                 PROVE  specified'[i].mask # MASK_SKIP
    BY <1>3, <1>4
  <2>2. CASE i <= Len(specified)
    <3>1. i \in 1 .. Len(specified)
      BY <2>2, <1>2, <1>4
    <3>2. QED
      BY <3>1, <2>1, <1>1, <1>2 DEF StatementInv, EntriesInv
  <2>3. CASE ~(i <= Len(specified))
    <3>1. PICK j : j = i - Len(specified)
      OBVIOUS
    <3>2. j \in 1 .. Len(entries) /\ i = Len(specified) + j
      BY <3>1, <2>3, <1>1, <1>2, <1>4
    <3>3. QED
      BY <3>2, <2>1, <1>1
  <2>4. QED
    BY <2>2, <2>3
<1>6. ASSUME NEW field \in Field, field.pos + 2 <= Len(specified'), field.pos + 2 <= Len(specified),
             specified[field.pos + 1].mask = MASK_CS, specified[field.pos + 2].mask = MASK_CS
      PROVE  /\ specified'[field.pos + 1].mask = MASK_CS
             /\ specified'[field.pos + 2].mask = MASK_CS
  <2>1. PICK p \in Nat : p = field.pos
    BY BoundsAre DEF Field, Positions
  <2>2. p + 1 \in 1 .. Len(specified) /\ p + 2 \in 1 .. Len(specified)
    BY <2>1, <1>6, <1>2
  <2>3. QED
    BY <2>1, <2>2, <1>6, <1>1
<1>7. \A i \in DOMAIN csArr : /\ csArr[i].pos + 2 <= Len(specified')
                              /\ specified'[csArr[i].pos + 1].mask = MASK_CS
                              /\ specified'[csArr[i].pos + 2].mask = MASK_CS
  <2>1. ASSUME NEW i \in 1 .. Len(csArr)
        PROVE  /\ csArr[i].pos + 2 <= Len(specified')
               /\ specified'[csArr[i].pos + 1].mask = MASK_CS
               /\ specified'[csArr[i].pos + 2].mask = MASK_CS
    <3>1. PICK field : field = csArr[i]
      OBVIOUS
    <3>2. /\ field \in Field /\ field.pos + 2 <= Len(specified)
          /\ specified[field.pos + 1].mask = MASK_CS /\ specified[field.pos + 2].mask = MASK_CS
      BY <3>1, <1>2, SpecifiedIs DEF StatementInv, EntriesInv
    <3>3. field.pos \in Nat
      BY <3>2, BoundsAre DEF Field, Positions
    <3>4. field.pos + 2 <= Len(specified')
      BY <3>2, <3>3, <1>1, <1>2
    <3>5. QED
      BY <3>1, <3>2, <3>4, <1>6
  <2>2. QED
    BY <2>1, <1>2
<1>8. /\ csArr' \in Seq(Field) /\ Len(csArr') <= MaxCsSize
      /\ \A i \in DOMAIN csArr' : /\ csArr'[i].pos + 2 <= Len(specified')
                                  /\ specified'[csArr'[i].pos + 1].mask = MASK_CS
                                  /\ specified'[csArr'[i].pos + 2].mask = MASK_CS
  <2>1. CASE csArr' = csArr
    BY <2>1, <1>2, <1>7
  <2>2. ASSUME NEW field \in Field, csArr' = Append(csArr, field), Len(csArr) < MaxCsSize,
               field.pos = Len(specified), Len(entries) = 2,
               entries[1].mask = MASK_CS, entries[2].mask = MASK_CS
        PROVE  /\ csArr' \in Seq(Field) /\ Len(csArr') <= MaxCsSize
               /\ \A i \in DOMAIN csArr' : /\ csArr'[i].pos + 2 <= Len(specified')
                                           /\ specified'[csArr'[i].pos + 1].mask = MASK_CS
                                           /\ specified'[csArr'[i].pos + 2].mask = MASK_CS
    <3>1. PICK arr : arr = csArr'
      OBVIOUS
    <3>2. /\ arr \in Seq(Field) /\ Len(arr) = Len(csArr) + 1
          /\ \A i \in 1 .. Len(csArr) : arr[i] = csArr[i]
          /\ arr[Len(csArr) + 1] = field
      <4>1. PICK seq : seq = csArr
        OBVIOUS
      <4>2. seq \in Seq(Field) /\ field \in Field /\ arr = Append(seq, field)
        BY <4>1, <3>1, <2>2, <1>2
      <4>3. /\ arr \in Seq(Field) /\ Len(arr) = Len(seq) + 1
            /\ \A i \in 1 .. Len(seq) : arr[i] = seq[i]
            /\ arr[Len(seq) + 1] = field
        BY <4>2, AppendProperties
      <4>4. QED
        BY <4>1, <4>3
    <3>3. DOMAIN arr = 1 .. Len(csArr) + 1
      BY <3>2, LenProperties
    <3>4. /\ field.pos + 2 <= Len(specified')
          /\ specified'[field.pos + 1].mask = MASK_CS
          /\ specified'[field.pos + 2].mask = MASK_CS
      <4>1. 1 \in 1 .. Len(entries) /\ 2 \in 1 .. Len(entries)
        BY <2>2
      <4>2. /\ specified'[Len(specified) + 1] = entries[1]
            /\ specified'[Len(specified) + 2] = entries[2]
        BY <4>1, <1>1
      <4>3. field.pos + 2 <= Len(specified')
        <5>1. PICK m, new : m = Len(specified) /\ new = Len(specified')
          OBVIOUS
        <5>2. m \in Nat /\ field.pos = m
          BY <5>1, <2>2, <1>2
        <5>3. new = m + 2
          BY <5>1, <2>2, <1>1
        <5>4. QED
          BY <5>1, <5>2, <5>3
      <4>4. QED
        BY <4>2, <4>3, <2>2
    <3>5. Len(arr) <= MaxCsSize
      <4>1. Len(arr) = Len(csArr) + 1 /\ Len(csArr) < MaxCsSize
        BY <3>2, <2>2
      <4>2. QED
        BY <4>1, <1>2, BoundsAre
    <3>6. ASSUME NEW i \in DOMAIN arr
          PROVE  /\ arr[i].pos + 2 <= Len(specified')
                 /\ specified'[arr[i].pos + 1].mask = MASK_CS
                 /\ specified'[arr[i].pos + 2].mask = MASK_CS
      <4>1. i \in 1 .. Len(csArr) \/ i = Len(csArr) + 1
        BY <3>3, <1>2
      <4>2. CASE i \in 1 .. Len(csArr)
        BY <4>2, <3>2, <1>2, <1>7
      <4>3. CASE i = Len(csArr) + 1
        BY <4>3, <3>2, <3>4
      <4>4. QED
        BY <4>1, <4>2, <4>3
    <3>7. QED
      BY <3>1, <3>2, <3>5, <3>6
  <2>3. QED
    BY <2>1, <2>2
<1>9. TypeOK'
  <2>1. specified' \in Seq([mask : MASK_CS .. ByteRange - 1, byte : Bytes])
    BY <1>1 DEF Entry
  <2>2. csArr' \in Seq([pos : Positions, start : Nat, end : Nat])
    BY <1>8 DEF Field
  <2>3. QED
    BY <1>3, <1>8, <2>1, <2>2 DEF TypeOK
<1>10. EntriesInv'
  BY <1>5, <1>8 DEF EntriesInv
<1>11. StatementInv'
  BY <1>1, <1>3, <1>10 DEF StatementInv
<1>12. QED
  BY <1>9, <1>11

\* What the tokens are and what they are taken as.
LEMMA EntryIs ==
  /\ \A v \in Nat : v % ByteRange \in Bytes /\ Exact(v % ByteRange) \in Entry
                    /\ Masked(v % ByteRange) \in Entry
  /\ \A v \in Nat : Exact(v % ByteRange).mask # MASK_SKIP /\ Masked(v % ByteRange).mask # MASK_SKIP
  /\ Masked(MASK_SKIP) \in Entry
  /\ Masked(MASK_CS) \in Entry /\ Masked(MASK_CS).mask = MASK_CS /\ MASK_CS # MASK_SKIP
<1>1. ASSUME NEW v \in Nat
      PROVE  /\ v % ByteRange \in Bytes /\ Exact(v % ByteRange) \in Entry
             /\ Masked(v % ByteRange) \in Entry
             /\ Exact(v % ByteRange).mask # MASK_SKIP /\ Masked(v % ByteRange).mask # MASK_SKIP
  <2>1. PICK r \in 0 .. ByteRange - 1 : r = v % ByteRange
    BY BoundsAre, DivMod
  <2>2. -1 \in -3 .. ByteRange - 1 /\ r \in -3 .. ByteRange - 1 /\ 0 \in 0 .. ByteRange - 1
    BY BoundsAre
  <2>3. QED
    BY <2>1, <2>2 DEF Bytes, Exact, Masked, Entry, MASK_EXACT, MASK_SKIP, MASK_CS
<1>2. -2 \in -3 .. ByteRange - 1 /\ -3 \in -3 .. ByteRange - 1 /\ 0 \in 0 .. ByteRange - 1
  BY BoundsAre
<1>3. /\ Masked(MASK_SKIP) \in Entry
      /\ Masked(MASK_CS) \in Entry /\ Masked(MASK_CS).mask = MASK_CS /\ MASK_CS # MASK_SKIP
  BY <1>2 DEF Bytes, Masked, Entry, MASK_SKIP, MASK_CS
<1>4. QED
  BY <1>1, <1>3

\* A hex byte becomes an entry of its own.
LEMMA ReadHexType ==
  ASSUME TypeOK, StatementInv, NEW v \in HexValues, ReadHex(v)
  PROVE  TypeOK' /\ StatementInv'
<1>1. v \in Nat
  BY PacketAssumption
<1>2. PICK token, entry : token = [kind |-> "hex", value |-> v] /\ entry = Exact(v % ByteRange)
  OBVIOUS
<1>3. token \in Token /\ token.kind = "hex" /\ token.value = v
  BY <1>1, <1>2 DEF Token
<1>4. entry \in Entry /\ entry.mask # MASK_SKIP
  BY <1>1, <1>2, EntryIs
<1>5. PICK entries : entries = <<entry>>
  OBVIOUS
<1>6. entries \in Seq(Entry) /\ Len(entries) = 1 /\ entries[1] = entry
  BY <1>4, <1>5
<1>7. AtToken /\ Specify(token, entries) /\ csArr' = csArr
  BY <1>2, <1>5 DEF ReadHex
<1>8. \A i \in 1 .. Len(entries) : entries[i].mask # MASK_SKIP
  BY <1>4, <1>6
<1>9. QED
  BY <1>2, <1>3, <1>6, <1>7, <1>8, TokenType

\* A byte copied from the packet received becomes an entry of its own.
LEMMA ReadCopyType ==
  ASSUME TypeOK, StatementInv, NEW n \in CopyPositions, ReadCopy(n)
  PROVE  TypeOK' /\ StatementInv'
<1>1. n \in Nat
  BY PacketAssumption
<1>2. PICK token, entry : token = [kind |-> "?", value |-> n] /\ entry = Masked(n % ByteRange)
  OBVIOUS
<1>3. token \in Token /\ token.kind = "?" /\ token.value = n
  BY <1>1, <1>2 DEF Token
<1>4. entry \in Entry /\ entry.mask # MASK_SKIP
  BY <1>1, <1>2, EntryIs
<1>5. PICK entries : entries = <<entry>>
  OBVIOUS
<1>6. entries \in Seq(Entry) /\ Len(entries) = 1 /\ entries[1] = entry
  BY <1>4, <1>5
<1>7. AtToken /\ Specify(token, entries) /\ csArr' = csArr /\ operation = "send"
  BY <1>2, <1>5 DEF ReadCopy
<1>8. \A i \in 1 .. Len(entries) : entries[i].mask # MASK_SKIP
  BY <1>4, <1>6
<1>9. QED
  BY <1>2, <1>3, <1>6, <1>7, <1>8, TokenType

\* A wildcard becomes an entry that is not compared.
LEMMA ReadWildcardType ==
  ASSUME TypeOK, StatementInv, ReadWildcard
  PROVE  TypeOK' /\ StatementInv'
<1>1. PICK token, entry : token = [kind |-> "*"] /\ entry = Masked(MASK_SKIP)
  OBVIOUS
<1>2. token \in Token /\ token.kind = "*"
  BY <1>1 DEF Token
<1>3. entry \in Entry
  BY <1>1, EntryIs
<1>4. PICK entries : entries = <<entry>>
  OBVIOUS
<1>5. entries \in Seq(Entry) /\ Len(entries) = 1 /\ entries[1] = entry
  BY <1>3, <1>4
<1>6. AtToken /\ Specify(token, entries) /\ csArr' = csArr /\ operation # "send"
  BY <1>1, <1>4 DEF ReadWildcard
<1>7. QED
  BY <1>1, <1>2, <1>5, <1>6, TokenType

\* A checksum of a receive statement becomes one entry that is not compared.
LEMMA ReadChecksumAsWildcardType ==
  ASSUME TypeOK, StatementInv, NEW r \in Ranges, ReadChecksumAsWildcard(r)
  PROVE  TypeOK' /\ StatementInv'
<1>1. PICK token, entry : token = [kind |-> "&", value |-> r] /\ entry = Masked(MASK_SKIP)
  OBVIOUS
<1>2. token \in Token /\ token.kind = "&"
  BY <1>1 DEF Token
<1>3. entry \in Entry
  BY <1>1, EntryIs
<1>4. PICK entries : entries = <<entry>>
  OBVIOUS
<1>5. entries \in Seq(Entry) /\ Len(entries) = 1 /\ entries[1] = entry
  BY <1>3, <1>4
<1>6. AtToken /\ Specify(token, entries) /\ csArr' = csArr /\ operation # "send"
  BY <1>1, <1>4 DEF ReadChecksumAsWildcard
<1>7. QED
  BY <1>1, <1>2, <1>5, <1>6, TokenType

\* A checksum becomes two entries and a field of cs_arr.
LEMMA ReadChecksumType ==
  ASSUME TypeOK, StatementInv, NEW r \in Ranges, ReadChecksum(r)
  PROVE  TypeOK' /\ StatementInv'
<1>1. PICK token, entry : token = [kind |-> "&", value |-> r] /\ entry = Masked(MASK_CS)
  OBVIOUS
<1>2. token \in Token /\ token.kind = "&"
  BY <1>1 DEF Token
<1>3. entry \in Entry /\ entry.mask = MASK_CS /\ entry.mask # MASK_SKIP
  BY <1>1, EntryIs
<1>4. PICK entries : entries = <<entry, entry>>
  OBVIOUS
<1>5. entries \in Seq(Entry) /\ Len(entries) = 2 /\ entries[1] = entry /\ entries[2] = entry
  BY <1>3, <1>4
<1>6. PICK field : field = [pos |-> Len(specified), start |-> r[1], end |-> r[2]]
  OBVIOUS
<1>7. /\ AtToken /\ Specify(token, entries) /\ operation = "send"
      /\ csArr' = Append(csArr, field) /\ Len(csArr) < MaxCsSize
  BY <1>1, <1>4, <1>6 DEF ReadChecksum
<1>8. field \in Field /\ field.pos = Len(specified)
  <2>1. r[1] \in Nat /\ r[2] \in Nat
    BY PacketAssumption
  <2>2. Len(specified) \in Nat /\ Len(specified) < MaxBytes
    BY <1>7, SpecifiedIs DEF AtToken
  <2>3. Len(specified) \in Positions
    BY <2>2, BoundsAre DEF Positions
  <2>4. QED
    BY <1>6, <2>1, <2>3 DEF Field
<1>9. \A i \in 1 .. Len(entries) : entries[i].mask # MASK_SKIP
  BY <1>3, <1>5
<1>10. QED
  BY <1>2, <1>3, <1>5, <1>7, <1>8, <1>9, TokenType

\* Steps that leave the statement and the buffers as they are.
LEMMA PhaseType ==
  ASSUME TypeOK, StatementInv,
         UNCHANGED <<specified, csArr, recvPkt, recvLen, pkt, tokens, lastFrame, operation>>,
         pc' \in {"tokens", "send", "receive", "overrun", "crashed"},
         pc' = "tokens" => operation \in {"send", "receive"},
         pc' \in {"send", "receive"} => operation = pc',
         statements' \in 0 .. MaxStatements,
         outcome' \in {"none", "sent", "matched", "failed", "error"}
  PROVE  TypeOK' /\ StatementInv'
<1>1. TypeOK'
  BY DEF TypeOK
<1>2. WrittenLen' = WrittenLen /\ \A k \in DOMAIN tokens : TakenAs(k)' <=> TakenAs(k)
  BY DEF WrittenLen, TakenAs, Offset, IsField
<1>3. TokensInv' /\ EntriesInv'
  BY <1>2 DEF StatementInv, TokensInv, EntriesInv
<1>4. QED
  BY <1>1, <1>3 DEF StatementInv

\* A statement begins with nothing specified.
LEMMA StartType ==
  ASSUME TypeOK, StatementInv, NEW op \in {"send", "receive"}, StartStatement(op)
  PROVE  TypeOK' /\ StatementInv'
<1>1. /\ specified = <<>> /\ csArr = <<>> /\ tokens = <<>>
      /\ UNCHANGED <<specified, csArr, recvPkt, recvLen, pkt, tokens, lastFrame>>
      /\ pc' = "tokens" /\ operation' = op /\ outcome' = "none"
      /\ statements < MaxStatements /\ statements' = statements + 1
  BY DEF StartStatement, StatementInv
<1>2. TypeOK'
  BY <1>1, BoundsAre DEF TypeOK
<1>3. Offset(1)' = Offset(1)
  <2>1. {j \in 1 .. 1 - 1 : IsField(j)} = {} /\ {j \in 1 .. 1 - 1 : IsField(j)}' = {}
    OBVIOUS
  <2>2. QED
    BY <2>1 DEF Offset
<1>4. Len(<<>>) = 0 /\ DOMAIN <<>> = {}
  OBVIOUS
<1>5. WrittenLen' = WrittenLen
  BY <1>1, <1>3, <1>4 DEF WrittenLen
<1>6. TokensInv' /\ EntriesInv'
  BY <1>1, <1>4, <1>5 DEF StatementInv, TokensInv, EntriesInv
<1>7. QED
  BY <1>1, <1>2, <1>6 DEF StatementInv

\* A frame is written to the beginning of the receive buffer, and its length is
\* at least what is kept of it.
LEMMA ReceivedIs ==
  ASSUME TypeOK, StatementInv, NEW frame \in Frames, ReceiveFrame(frame)
  PROVE  /\ frame \in Seq(Bytes) /\ frame # <<>> /\ Len(frame) \in 1 .. MaxPktSize
         /\ recvPkt' \in Buffers
         /\ \A i \in Positions : i < Len(frame) => recvPkt'[i] = frame[i + 1]
         /\ recvLen' \in Nat /\ recvLen' <= Len(frame) /\ recvLen' \in 0 .. MaxPktSize
         /\ lastFrame' = frame
<1>1. frame \in Seq(Bytes) /\ Len(frame) \in 1 .. MaxPktSize
  BY PacketAssumption DEF Bytes
<1>2. recvPkt' = [i \in Positions |-> IF i < Len(frame) THEN frame[i + 1] ELSE recvPkt[i]]
  BY DEF ReceiveFrame, Received
<1>3. \A i \in 1 .. Len(frame) : frame[i] \in Bytes
  BY <1>1, ElementOfSeq
<1>4. \A i \in Positions : i < Len(frame) => i + 1 \in 1 .. Len(frame)
  BY <1>1, BoundsAre DEF Positions
<1>5. recvPkt' \in Buffers
  BY <1>2, <1>3, <1>4 DEF TypeOK, Buffers
<1>6. \A i \in Positions : i < Len(frame) => recvPkt'[i] = frame[i + 1]
  BY <1>2
<1>7. recvLen' \in Nat /\ recvLen' <= Len(frame)
  <2>1. Len(specified) \in Nat
    BY SpecifiedIs
  <2>2. Shorter(Len(specified), Len(frame)) \in Nat /\ Shorter(Len(specified), Len(frame)) <= Len(frame)
    BY <1>1, <2>1 DEF Shorter
  <2>3. recvLen' \in {Shorter(Len(specified), Len(frame)), Len(frame)}
    BY DEF ReceiveFrame
  <2>4. QED
    BY <1>1, <2>2, <2>3
<1>8. frame # <<>>
  BY <1>1
<1>9. lastFrame' = frame
  BY DEF ReceiveFrame
<1>10. recvLen' \in 0 .. MaxPktSize
  BY <1>1, <1>7, BoundsAre
<1>11. QED
  BY <1>1, <1>5, <1>6, <1>7, <1>8, <1>9, <1>10

\* The initial state is well typed.
LEMMA InitType == Init => TypeOK /\ StatementInv
<1> SUFFICES ASSUME Init
             PROVE  TypeOK /\ StatementInv
  OBVIOUS
<1>1. /\ <<>> \in Seq([mask : MASK_CS .. ByteRange - 1, byte : Bytes])
      /\ <<>> \in Seq([pos : Positions, start : Nat, end : Nat])
      /\ <<>> \in Seq(Token) /\ <<>> \in Seq(Bytes) /\ Len(<<>>) = 0 /\ DOMAIN <<>> = {}
  OBVIOUS
<1>2. 0 \in Bytes /\ 0 \in 0 .. MaxPktSize /\ 0 \in 0 .. MaxStatements
  BY BoundsAre DEF Bytes
<1>3. TypeOK
  BY <1>1, <1>2, BoundsAre DEF Init, TypeOK
<1>4. WrittenLen = 0
  <2>1. {j \in 1 .. 1 - 1 : IsField(j)} = {} /\ Cardinality({}) = 0
    BY FS_EmptySet
  <2>2. WrittenLen = Offset(1)
    BY <1>1 DEF Init, WrittenLen
  <2>3. QED
    BY <2>1, <2>2 DEF Offset
<1>5. TokensInv /\ EntriesInv
  BY <1>1, <1>4 DEF Init, TokensInv, EntriesInv
<1>6. QED
  BY <1>1, <1>3, <1>5, BoundsAre DEF Init, StatementInv

\* Every step keeps the types and the statement.
LEMMA NextType ==
  ASSUME TypeOK, StatementInv, [Next]_vars
  PROVE  TypeOK' /\ StatementInv'
<1>1. recvPkt \in Buffers /\ pkt \in Buffers /\ recvLen \in 0 .. MaxPktSize
      /\ lastFrame \in Seq(Bytes) /\ statements \in 0 .. MaxStatements
      /\ outcome \in {"none", "sent", "matched", "failed", "error"}
  BY DEF TypeOK, Buffers
<1>2. ASSUME NEW op \in {"send", "receive"}, StartStatement(op) PROVE TypeOK' /\ StatementInv'
  BY <1>2, StartType
<1>3. CASE ReadToken
  <2>1. ASSUME NEW v \in HexValues, ReadHex(v) PROVE TypeOK' /\ StatementInv'
    BY <2>1, ReadHexType
  <2>2. ASSUME NEW n \in CopyPositions, ReadCopy(n) PROVE TypeOK' /\ StatementInv'
    BY <2>2, ReadCopyType
  <2>3. ASSUME NEW r \in Ranges, ReadChecksum(r) PROVE TypeOK' /\ StatementInv'
    BY <2>3, ReadChecksumType
  <2>4. ASSUME NEW r \in Ranges, ReadChecksumAsWildcard(r) PROVE TypeOK' /\ StatementInv'
    BY <2>4, ReadChecksumAsWildcardType
  <2>5. CASE ReadWildcard
    BY <2>5, ReadWildcardType
  <2>6. CASE ChecksumTableOverrun
    <3>1. /\ UNCHANGED <<specified, csArr, recvPkt, recvLen, pkt, tokens, lastFrame, operation>>
          /\ pc' = "overrun" /\ outcome' = outcome /\ statements' = statements
      BY <2>6 DEF ChecksumTableOverrun
    <3>2. QED
      BY <1>1, <3>1, PhaseType
  <2>7. CASE ChecksumWithoutRange
    <3>1. /\ UNCHANGED <<specified, csArr, recvPkt, recvLen, pkt, tokens, lastFrame, operation>>
          /\ pc' = "crashed" /\ outcome' = outcome /\ statements' = statements
      BY <2>7 DEF ChecksumWithoutRange
    <3>2. QED
      BY <1>1, <3>1, PhaseType
  <2>8. QED
    BY <1>3, <2>1, <2>2, <2>3, <2>4, <2>5, <2>6, <2>7 DEF ReadToken
<1>4. CASE Refuse
  <2>1. Done("error") /\ UNCHANGED <<operation, statements>>
        /\ recvPkt' = recvPkt /\ pkt' = pkt /\ recvLen' = recvLen /\ lastFrame' = lastFrame
    BY <1>4 DEF Refuse
  <2>2. QED
    BY <1>1, <2>1, DoneType
<1>5. CASE EndOfStatement
  <2>1. /\ UNCHANGED <<specified, csArr, recvPkt, recvLen, pkt, tokens, lastFrame, operation>>
        /\ pc = "tokens" /\ pc' = operation /\ outcome' = outcome /\ statements' = statements
    BY <1>5 DEF EndOfStatement
  <2>2. operation \in {"send", "receive"}
    BY <2>1 DEF StatementInv
  <2>3. QED
    BY <1>1, <2>1, <2>2, PhaseType
<1>6. CASE CopyRefused
  <2>1. Done("error") /\ UNCHANGED <<operation, statements>> /\ pc = "send"
        /\ recvPkt' = recvPkt /\ pkt' = FilledPkt /\ recvLen' = recvLen /\ lastFrame' = lastFrame
    BY <1>6 DEF CopyRefused
  <2>2. FilledPkt \in Buffers
    BY <2>1, FilledType
  <2>3. QED
    BY <1>1, <2>1, <2>2, DoneType
<1>7. CASE ChecksumOverrun
  <2>1. /\ UNCHANGED <<specified, csArr, recvPkt, recvLen, pkt, tokens, lastFrame, operation>>
        /\ pc' = "overrun" /\ outcome' = outcome /\ statements' = statements
    BY <1>7 DEF ChecksumOverrun
  <2>2. QED
    BY <1>1, <2>1, PhaseType
<1>8. CASE Send
  <2>1. pkt' \in Buffers
    BY <1>8, SendKeeps
  <2>2. UNCHANGED <<operation, statements>>
        /\ recvPkt' = recvPkt /\ recvLen' = recvLen /\ lastFrame' = lastFrame
    BY <1>8 DEF Send
  <2>3. Done("error") \/ Done("sent")
    BY <1>8 DEF Send
  <2>4. CASE Done("error")
    BY <1>1, <2>1, <2>2, <2>4, DoneType
  <2>5. CASE Done("sent")
    BY <1>1, <2>1, <2>2, <2>5, DoneType
  <2>6. QED
    BY <2>3, <2>4, <2>5
<1>9. ASSUME NEW frame \in Frames, ReceiveFrame(frame) PROVE TypeOK' /\ StatementInv'
  <2>1. /\ frame \in Seq(Bytes) /\ recvPkt' \in Buffers /\ recvLen' \in 0 .. MaxPktSize
        /\ lastFrame' = frame
    BY <1>9, ReceivedIs
  <2>2. UNCHANGED <<operation, statements>> /\ pkt' = pkt
    BY <1>9 DEF ReceiveFrame
  <2>3. Done("matched") \/ Done("failed")
    BY <1>9 DEF ReceiveFrame
  <2>4. CASE Done("matched")
    BY <1>1, <2>1, <2>2, <2>4, DoneType
  <2>5. CASE Done("failed")
    BY <1>1, <2>1, <2>2, <2>5, DoneType
  <2>6. QED
    BY <2>3, <2>4, <2>5
<1>10. CASE ReceiveNothing
  <2>1. UNCHANGED <<operation, statements>>
        /\ recvPkt' = recvPkt /\ pkt' = pkt /\ recvLen' = MaxPktSize /\ lastFrame' = <<>>
    BY <1>10 DEF ReceiveNothing
  <2>2. MaxPktSize \in 0 .. MaxPktSize /\ <<>> \in Seq(Bytes)
    BY BoundsAre
  <2>3. PICK how \in {"failed", "error"} : Done(how)
    BY <1>10 DEF ReceiveNothing
  <2>4. QED
    BY <1>1, <2>1, <2>2, <2>3, DoneType
<1>11. CASE UNCHANGED vars
  <2>1. TypeOK'
    BY <1>11 DEF vars, TypeOK
  <2>2. UNCHANGED <<pc, operation, specified, csArr, tokens>>
    BY <1>11 DEF vars
  <2>3. WrittenLen' = WrittenLen /\ \A k \in DOMAIN tokens : TakenAs(k)' <=> TakenAs(k)
    BY <2>2 DEF WrittenLen, TakenAs, Offset, IsField
  <2>4. TokensInv' /\ EntriesInv'
    BY <2>2, <2>3 DEF StatementInv, TokensInv, EntriesInv
  <2>5. QED
    BY <2>1, <2>2, <2>4 DEF StatementInv
<1>12. QED
  BY <1>2, <1>3, <1>4, <1>5, <1>6, <1>7, <1>8, <1>9, <1>10, <1>11 DEF Next

\* The tokens of a statement are its specified packet, byte by byte.
THEOREM StatementIsSpecified == Spec => [](TypeOK /\ StatementInv)
<1>1. Init => TypeOK /\ StatementInv
  BY InitType
<1>2. TypeOK /\ StatementInv /\ [Next]_vars => TypeOK' /\ StatementInv'
  BY NextType
<1>3. QED
  BY <1>1, <1>2, PTL DEF Spec

\* Whatever statements are written and whatever arrives, the buffers hold bytes
\* and the checksum table its fields, up to the step that leaves an array.
THEOREM TypeCorrect == Spec => []TypeOK
  BY StatementIsSpecified, PTL

-----------------------------------------------------------------------------
(* What is sent.                                                           *)

\* Of all steps only Send ends a statement as sent.
LEMMA SendingIsSend ==
  ASSUME [Next]_vars, Sending
  PROVE  Send
<1>1. pc = "send" /\ pc' = "idle" /\ outcome' = "sent"
  BY DEF Sending
<1>2. ~ReadToken
  BY <1>1 DEF ReadToken, ReadHex, ReadCopy, ReadChecksum, ReadChecksumAsWildcard, ReadWildcard,
              ChecksumTableOverrun, ChecksumWithoutRange, AtToken
<1>3. ~Refuse /\ ~EndOfStatement /\ ~ReceiveNothing /\ \A op \in {"send", "receive"} : ~StartStatement(op)
  BY <1>1 DEF Refuse, EndOfStatement, ReceiveNothing, StartStatement
<1>4. ~CopyRefused /\ ~ChecksumOverrun /\ \A frame \in Frames : ~ReceiveFrame(frame)
  BY <1>1 DEF CopyRefused, ChecksumOverrun, ReceiveFrame, Done
<1>5. vars' # vars
  BY <1>1 DEF vars
<1>6. QED
  BY <1>2, <1>3, <1>4, <1>5 DEF Next

\* A hex byte or a copied byte is no part of a checksum: what the loop of
\* packetSend writes for it is sent.
LEMMA SentByte ==
  ASSUME TypeOK, StatementInv, Send, NEW k \in DOMAIN tokens, tokens[k].kind \in {"hex", "?"}
  PROVE  /\ pkt'[Offset(k)] = FilledPkt[Offset(k)]
         /\ tokens[k].kind = "hex" => pkt'[Offset(k)] = tokens[k].value % ByteRange
         /\ tokens[k].kind = "?" => /\ tokens[k].value % ByteRange < recvLen
                                    /\ pkt'[Offset(k)] = recvPkt[tokens[k].value % ByteRange]
<1>1. pc = "send" /\ Refused = {} /\ operation = "send" /\ TakenAs(k)
  BY DEF Send, StatementInv, TokensInv
<1>2. tokens[k].value \in Nat
  <2>1. tokens[k] \in Token
    BY ElementOfSeq, LenProperties DEF StatementInv, TokensInv
  <2>2. QED
    BY <2>1 DEF Token
<1>3. PICK v \in Bytes : v = tokens[k].value % ByteRange
  BY <1>2, EntryIs
<1>4. v \in Nat
  BY <1>3, BoundsAre DEF Bytes
<1>5. PICK off : off = Offset(k)
  OBVIOUS
<1>6. PICK entry : entry = specified[off + 1]
  OBVIOUS
<1>7. /\ off \in 0 .. Len(specified) - 1
      /\ tokens[k].kind = "hex" => entry = Exact(v)
      /\ tokens[k].kind = "?" => entry = Masked(v)
  BY <1>1, <1>3, <1>5, <1>6 DEF TakenAs
<1>8. /\ off \in Positions
      /\ entry.mask = MASK_EXACT => FilledPkt[off] = entry.byte
      /\ entry.mask \in Nat => entry.mask < recvLen /\ FilledPkt[off] = recvPkt[entry.mask]
  BY <1>1, <1>6, <1>7, FilledType
<1>9. off \notin FieldPositions
  <2>1. SUFFICES ASSUME off \in FieldPositions
                 PROVE  FALSE
    OBVIOUS
  <2>2. PICK i \in DOMAIN csArr : off \in {csArr[i].pos, csArr[i].pos + 1}
    BY <2>1 DEF FieldPositions
  <2>3. specified[csArr[i].pos + 1].mask = MASK_CS /\ specified[csArr[i].pos + 2].mask = MASK_CS
    BY <2>2 DEF StatementInv, EntriesInv
  <2>4. csArr[i].pos \in Nat
    BY <2>2, SpecifiedIs, BoundsAre DEF Field, Positions
  <2>5. (csArr[i].pos + 1) + 1 = csArr[i].pos + 2
    BY <2>4
  <2>6. entry.mask = MASK_CS
    BY <1>6, <2>2, <2>3, <2>5
  <2>7. QED
    BY <2>6, <1>4, <1>7 DEF Exact, Masked, MASK_EXACT, MASK_CS
<1>10. pkt'[off] = FilledPkt[off]
  BY <1>8, <1>9, SendKeeps
<1>11. CASE tokens[k].kind = "hex"
  <2>1. entry.mask = MASK_EXACT /\ entry.byte = v
    BY <1>7, <1>11 DEF Exact
  <2>2. QED
    BY <2>1, <1>3, <1>5, <1>8, <1>10, <1>11
<1>12. CASE tokens[k].kind = "?"
  <2>1. entry.mask = v
    BY <1>7, <1>12 DEF Masked
  <2>2. QED
    BY <2>1, <1>3, <1>4, <1>5, <1>8, <1>10, <1>12
<1>13. QED
  BY <1>11, <1>12, <1>5, <1>10

\* The bytes of a statement are sent at their places: SentAsWritten, for
\* statements and packets of any length.
THEOREM PacketsAreSentAsWritten == Spec => SentAsWritten
<1>1. ASSUME TypeOK, StatementInv, [Next]_vars, Sending
      PROVE  /\ Len(specified) = WrittenLen
             /\ \A k \in DOMAIN tokens :
                  tokens[k].kind = "hex" => pkt'[Offset(k)] = tokens[k].value % ByteRange
  <2>1. Send
    BY <1>1, SendingIsSend
  <2>2. Len(specified) = WrittenLen
    BY <1>1 DEF StatementInv, TokensInv
  <2>3. QED
    BY <1>1, <2>1, <2>2, SentByte
<1>2. TypeOK /\ StatementInv /\ [Next]_vars =>
        [Sending => /\ Len(specified) = WrittenLen
                    /\ \A k \in DOMAIN tokens :
                         tokens[k].kind = "hex" => pkt'[Offset(k)] = tokens[k].value % ByteRange]_vars
  BY <1>1
<1>3. QED
  BY <1>2, StatementIsSpecified, PTL DEF Spec, SentAsWritten

\* The length kept of the last packet does not exceed it, and its bytes are the
\* first of the receive buffer; after a timeout the length is that of the buffer.
RecvInv ==
  \/ lastFrame = <<>> /\ recvLen \in {0, MaxPktSize}
  \/ /\ lastFrame # <<>> /\ recvLen <= Len(lastFrame)
     /\ \A i \in Positions : i < Len(lastFrame) => recvPkt[i] = lastFrame[i + 1]

\* The packet last received is in RecvPkt, at all times.
LEMMA RecvIsLast == Spec => [](TypeOK /\ StatementInv /\ RecvInv)
<1>1. Init => RecvInv
  BY DEF Init, RecvInv
<1>2. ASSUME TypeOK, StatementInv, RecvInv, [Next]_vars PROVE RecvInv'
  <2>1. ASSUME NEW frame \in Frames, ReceiveFrame(frame) PROVE RecvInv'
    BY <1>2, <2>1, ReceivedIs DEF RecvInv
  <2>2. CASE ReceiveNothing
    BY <2>2 DEF ReceiveNothing, RecvInv
  <2>3. CASE UNCHANGED <<recvPkt, recvLen, lastFrame>>
    BY <1>2, <2>3 DEF RecvInv
  <2>4. CASE ReadToken
    <3>1. UNCHANGED <<recvPkt, recvLen, lastFrame>>
      BY <2>4 DEF ReadToken, ReadHex, ReadCopy, ReadChecksum, ReadChecksumAsWildcard,
                  ReadWildcard, ChecksumTableOverrun, ChecksumWithoutRange, Specify
    <3>2. QED
      BY <3>1, <2>3
  <2>5. ASSUME NEW op \in {"send", "receive"}, StartStatement(op) PROVE RecvInv'
    BY <2>3, <2>5 DEF StartStatement
  <2>6. CASE Refuse \/ EndOfStatement \/ CopyRefused \/ ChecksumOverrun \/ Send
    BY <2>3, <2>6 DEF Refuse, EndOfStatement, CopyRefused, ChecksumOverrun, Send
  <2>7. CASE UNCHANGED vars
    BY <2>3, <2>7 DEF vars
  <2>8. QED
    BY <1>2, <2>1, <2>2, <2>4, <2>5, <2>6, <2>7 DEF Next
<1>3. TypeOK /\ StatementInv /\ RecvInv /\ [Next]_vars => RecvInv'
  BY <1>2
<1>4. QED
  BY <1>1, <1>3, StatementIsSpecified, PTL DEF Spec

\* A copied byte is one of the packet just received: CopiesAreReceived, however
\* long the packets before it were.
THEOREM CopiedBytesAreReceived == Spec => CopiesAreReceived
<1>1. ASSUME TypeOK, StatementInv, RecvInv, [Next]_vars, Sending,
             NEW k \in DOMAIN tokens, tokens[k].kind = "?"
      PROVE  LET n == tokens[k].value % ByteRange
             IN \/ lastFrame = <<>> /\ recvLen = MaxPktSize
                \/ n < Len(lastFrame) /\ pkt'[Offset(k)] = lastFrame[n + 1]
  <2>1. Send
    BY <1>1, SendingIsSend
  <2>2. tokens[k].value \in Nat
    <3>1. tokens[k] \in Token
      BY <1>1, ElementOfSeq, LenProperties DEF StatementInv, TokensInv
    <3>2. QED
      BY <1>1, <3>1 DEF Token
  <2>3. PICK n \in Bytes : n = tokens[k].value % ByteRange
    BY <2>2, EntryIs
  <2>4. n \in Nat
    BY <2>3, BoundsAre DEF Bytes
  <2>5. n < recvLen /\ pkt'[Offset(k)] = recvPkt[n]
    BY <1>1, <2>1, <2>3, SentByte
  <2>6. recvLen \in Nat /\ recvLen <= MaxPktSize /\ n \in Positions
    BY <1>1, <2>4, <2>5, BoundsAre DEF TypeOK, Positions
  <2>7. CASE lastFrame = <<>>
    <3>1. recvLen \in {0, MaxPktSize}
      BY <1>1, <2>7 DEF RecvInv
    <3>2. recvLen # 0
      BY <2>4, <2>5
    <3>3. QED
      BY <3>1, <3>2, <2>7
  <2>8. CASE lastFrame # <<>>
    <3>1. /\ recvLen <= Len(lastFrame)
          /\ \A i \in Positions : i < Len(lastFrame) => recvPkt[i] = lastFrame[i + 1]
      BY <1>1, <2>8 DEF RecvInv
    <3>2. Len(lastFrame) \in Nat
      BY <1>1, LenProperties DEF TypeOK
    <3>3. n < Len(lastFrame)
      BY <3>1, <3>2, <2>4, <2>5, <2>6
    <3>4. QED
      BY <3>1, <3>3, <2>3, <2>5, <2>6
  <2>9. QED
    BY <2>7, <2>8
<1>2. TypeOK /\ StatementInv /\ RecvInv /\ [Next]_vars =>
        [Sending => \A k \in DOMAIN tokens : tokens[k].kind = "?" =>
           LET n == tokens[k].value % ByteRange
           IN \/ lastFrame = <<>> /\ recvLen = MaxPktSize
              \/ n < Len(lastFrame) /\ pkt'[Offset(k)] = lastFrame[n + 1]]_vars
  BY <1>1
<1>3. QED
  BY <1>2, RecvIsLast, PTL DEF Spec, CopiesAreReceived

\* Over ranges of an even number of bytes the fields are filled as they are meant.
LEMMA FillsAsMeant ==
  ASSUME TypeOK, StatementInv, Send, EvenRanges
  PROVE  pkt' = FoldLeft(FillMeant, FilledPkt, csArr)
<1>1. PICK n, base : n = Len(csArr) /\ base = FilledPkt
  OBVIOUS
<1>2. n \in Nat /\ DOMAIN csArr = 1 .. n /\ base \in Buffers
  BY <1>1, SpecifiedIs, FilledType DEF Send
<1>3. \A b \in Buffers, i \in 1 .. n : /\ FillMeant(b, csArr[i]) = FillChecksum(b, csArr[i])
                                       /\ FillChecksum(b, csArr[i]) \in Buffers
  <2>1. ASSUME NEW b \in Buffers, NEW i \in 1 .. n
        PROVE  /\ FillMeant(b, csArr[i]) = FillChecksum(b, csArr[i])
               /\ FillChecksum(b, csArr[i]) \in Buffers
    <3>1. PICK cs : cs = csArr[i]
      OBVIOUS
    <3>2. cs \in Field /\ Len(specified) \in Nat /\ Len(specified) <= MaxBytes + 1
      BY <3>1, <1>1, SpecifiedIs DEF StatementInv
    <3>3. cs.start < cs.end /\ cs.end < Len(specified) /\ (cs.end - cs.start) % 2 = 1
      BY <3>1, <1>2 DEF EvenRanges
    <3>4. PICK start \in Nat, end \in Nat : start = cs.start /\ end = cs.end
      BY <3>2 DEF Field
    <3>5. end \in Positions
      BY <3>2, <3>3, <3>4, BoundsAre DEF Positions
    <3>6. check_sum(b, start, end) = InternetChecksum(b, start, end)
      BY <3>3, <3>4, <3>5, EvenChecksum
    <3>7. FillMeant(b, cs) = FillChecksum(b, cs)
      BY <3>4, <3>6 DEF FillMeant, FillChecksum
    <3>8. cs.start <= cs.end => LastRead(cs) \in Positions
      BY <3>1, <1>2 DEF Send, RangesInPkt
    <3>9. FillChecksum(b, cs) \in Buffers
      BY <3>2, <3>8, FillType
    <3>10. QED
      BY <3>1, <3>7, <3>9
  <2>2. QED
    BY <2>1
<1>4. PICK before \in [0 .. n -> Buffers] :
        /\ before[0] = base
        /\ \A k \in 1 .. n : before[k] = FillChecksum(before[k - 1], csArr[k])
        /\ pkt' = before[n]
  BY <1>1, SendFills
<1>5. PICK meant \in [0 .. n -> Buffers] :
        /\ meant[0] = base
        /\ \A k \in 1 .. n : meant[k] = FillMeant(meant[k - 1], csArr[k])
        /\ FoldLeft(FillMeant, base, csArr) = meant[n]
  <2>1. \A b \in Buffers, i \in 1 .. n : FillMeant(b, csArr[i]) \in Buffers
    BY <1>3
  <2>2. QED
    BY <1>2, <2>1, MeantInOrder, ZenonT(30)
<1> DEFINE Same == {k \in 0 .. n : before[k] = meant[k]}
<1>6. 0 \in Same
  BY <1>2, <1>4, <1>5
<1>7. ASSUME NEW k \in 1 .. n, k - 1 \in Same
      PROVE  k \in Same
  <2>1. k - 1 \in 0 .. n /\ k \in 0 .. n
    BY <1>2
  <2>2. PICK b : b = before[k - 1] /\ b = meant[k - 1]
    BY <1>7
  <2>3. b \in Buffers
    BY <2>1, <2>2
  <2>4. FillMeant(b, csArr[k]) = FillChecksum(b, csArr[k])
    BY <1>3, <2>3
  <2>5. before[k] = FillChecksum(b, csArr[k]) /\ meant[k] = FillMeant(b, csArr[k])
    BY <1>4, <1>5, <2>2
  <2>6. QED
    BY <2>1, <2>4, <2>5
<1> HIDE DEF Same
<1>8. 0 .. n \subseteq Same
  BY <1>2, <1>6, <1>7, Stepwise
<1>9. before[n] = meant[n]
  BY <1>2, <1>8 DEF Same
<1>10. QED
  BY <1>1, <1>4, <1>5, <1>9

\* Field bytes that are still zero count as zero: the packet meant starts from
\* what the loop of packetSend leaves.
LEMMA BlankIsFilled ==
  ASSUME TypeOK, StatementInv, Send, \A i \in FieldPositions : pkt[i] = 0
  PROVE  [i \in Positions |-> IF i \in FieldPositions THEN 0 ELSE FilledPkt[i]] = FilledPkt
<1>1. FilledPkt = [i \in Positions |-> FilledPkt[i]]
  BY DEF FilledPkt
<1>2. ASSUME NEW i \in Positions, i \in FieldPositions
      PROVE  FilledPkt[i] = 0
  <2>1. PICK j \in DOMAIN csArr : i \in {csArr[j].pos, csArr[j].pos + 1}
    BY <1>2 DEF FieldPositions
  <2>2. csArr[j].pos \in Nat
    BY <2>1, SpecifiedIs, BoundsAre DEF Field, Positions
  <2>3. /\ csArr[j].pos + 2 <= Len(specified)
        /\ specified[csArr[j].pos + 1].mask = MASK_CS
        /\ specified[csArr[j].pos + 2].mask = MASK_CS
    BY <2>1 DEF StatementInv, EntriesInv
  <2>4. (csArr[j].pos + 1) + 1 = csArr[j].pos + 2
    BY <2>2
  <2>5. specified[i + 1].mask = MASK_CS
    BY <2>1, <2>3, <2>4
  <2>6. i < Len(specified)
    BY <2>1, <2>2, <2>3, SpecifiedIs
  <2>7. Filled = Len(specified)
    BY DEF Send, Filled
  <2>8. ~(i >= Filled)
    BY <2>6, <2>7, SpecifiedIs, BoundsAre DEF Positions
  <2>9. PICK entry : entry = specified[i + 1]
    OBVIOUS
  <2>10. entry.mask = -3
    BY <2>5, <2>9 DEF MASK_CS
  <2>11. FilledPkt[i] = pkt[i]
    BY <2>8, <2>9, <2>10 DEF FilledPkt, MASK_EXACT, MASK_CS
  <2>12. QED
    BY <1>2, <2>11
<1>3. \A i \in Positions : (IF i \in FieldPositions THEN 0 ELSE FilledPkt[i]) = FilledPkt[i]
  BY <1>2
<1>4. PICK f : f = FilledPkt
  OBVIOUS
<1>5. QED
  BY <1>1, <1>3

\* Over ranges of an even number of bytes the checksums sent are the Internet
\* checksum, for bytes of any number of values and however often the carries
\* carry again: ChecksumsRight.
THEOREM EvenChecksumsAreRight == Spec => ChecksumsRight
<1>1. ASSUME TypeOK, StatementInv, [Next]_vars, Sending, EvenRanges,
             \A i \in FieldPositions : pkt[i] = 0
      PROVE  pkt' = PacketMeant
  <2>1. Send
    BY <1>1, SendingIsSend
  <2>2. PICK filled : filled = FilledPkt
    OBVIOUS
  <2>3. [i \in Positions |-> IF i \in FieldPositions THEN 0 ELSE FilledPkt[i]] = FilledPkt
    BY <1>1, <2>1, BlankIsFilled
  <2>4. PacketMeant = FoldLeft(FillMeant, FilledPkt, csArr)
    BY <2>3 DEF PacketMeant
  <2>5. QED
    BY <1>1, <2>1, <2>4, FillsAsMeant
<1>2. TypeOK /\ StatementInv /\ [Next]_vars =>
        [Sending /\ EvenRanges /\ (\A i \in FieldPositions : pkt[i] = 0)
           => \A i \in 0 .. Len(specified) - 1 : pkt'[i] = PacketMeant[i]]_vars
  BY <1>1
<1>3. QED
  BY <1>2, StatementIsSpecified, PTL DEF Spec, ChecksumsRight

-----------------------------------------------------------------------------
(* What is received.                                                       *)

\* Of all steps only ReceiveFrame ends a receive statement with a packet.
LEMMA ReceivingIsReceiveFrame ==
  ASSUME [Next]_vars, Receiving
  PROVE  \E frame \in Frames : ReceiveFrame(frame)
<1>1. pc = "receive" /\ pc' = "idle" /\ lastFrame' # <<>>
  BY DEF Receiving
<1>2. ~ReadToken
  BY <1>1 DEF ReadToken, ReadHex, ReadCopy, ReadChecksum, ReadChecksumAsWildcard, ReadWildcard,
              ChecksumTableOverrun, ChecksumWithoutRange, AtToken
<1>3. ~Refuse /\ ~EndOfStatement /\ ~ReceiveNothing /\ \A op \in {"send", "receive"} : ~StartStatement(op)
  BY <1>1 DEF Refuse, EndOfStatement, ReceiveNothing, StartStatement
<1>4. ~CopyRefused /\ ~ChecksumOverrun /\ ~Send
  BY <1>1 DEF CopyRefused, ChecksumOverrun, Send
<1>5. vars' # vars
  BY <1>1 DEF vars
<1>6. QED
  BY <1>2, <1>3, <1>4, <1>5 DEF Next

\* In a receive statement every token is one byte.
LEMMA ReceiveTokens ==
  ASSUME TypeOK, StatementInv, operation = "receive"
  PROVE  /\ Len(tokens) \in Nat /\ DOMAIN tokens = 1 .. Len(tokens)
         /\ WrittenLen = Len(tokens) /\ Len(specified) = Len(tokens)
         /\ \A k \in 1 .. Len(tokens) :
              \/ tokens[k].kind = "hex" /\ specified[k] = Exact(tokens[k].value % ByteRange)
              \/ tokens[k].kind # "hex" /\ specified[k] = Masked(MASK_SKIP)
<1>1. tokens \in Seq(Token) /\ Len(tokens) \in Nat /\ DOMAIN tokens = 1 .. Len(tokens)
  BY LenProperties DEF StatementInv, TokensInv
<1>2. \A k \in Nat : Offset(k) = k - 1
  <2>1. ASSUME NEW k \in Nat PROVE Offset(k) = k - 1
    <3>1. {j \in 1 .. k - 1 : IsField(j)} = {}
      BY DEF IsField
    <3>2. Cardinality({}) = 0
      BY FS_EmptySet
    <3>3. QED
      BY <3>1, <3>2 DEF Offset
  <2>2. QED
    BY <2>1
<1>3. WrittenLen = Len(tokens)
  BY <1>1, <1>2 DEF WrittenLen
<1>4. Len(specified) = Len(tokens)
  BY <1>3 DEF StatementInv, TokensInv
<1>5. ASSUME NEW k \in 1 .. Len(tokens)
      PROVE  \/ tokens[k].kind = "hex" /\ specified[k] = Exact(tokens[k].value % ByteRange)
             \/ tokens[k].kind # "hex" /\ specified[k] = Masked(MASK_SKIP)
  <2>1. TakenAs(k)
    BY <1>1 DEF StatementInv, TokensInv
  <2>2. Offset(k) + 1 = k
    <3>1. Offset(k) = k - 1 /\ k \in Int
      BY <1>2
    <3>2. QED
      BY <3>1
  <2>3. tokens[k] \in Token
    BY <1>1, ElementOfSeq
  <2>4. tokens[k].kind \in {"hex", "?", "*", "&"}
    BY <2>3 DEF Token
  <2>5. QED
    BY <2>1, <2>2, <2>4 DEF TakenAs
<1>6. QED
  BY <1>1, <1>3, <1>4, <1>5

\* A receive statement accepts the packets it spells out, none with another byte,
\* and of the longer packets no others: MatchesWrittenPackets, for packets of any
\* length.
THEOREM WrittenPacketsMatch == Spec => MatchesWrittenPackets
<1>1. ASSUME TypeOK, StatementInv, [Next]_vars, Receiving
      PROVE  /\ IsWrittenPacket(lastFrame') => outcome' = "matched"
             /\ outcome' = "matched" => AgreesAsFarAsItGoes(lastFrame')
             /\ outcome' = "matched" /\ Len(lastFrame') > PadTo => IsWrittenPacket(lastFrame')
  <2>1. PICK frame \in Frames : ReceiveFrame(frame)
    BY <1>1, ReceivingIsReceiveFrame
  <2>2. frame \in Seq(Bytes) /\ Len(frame) \in Nat /\ lastFrame' = frame
    BY <1>1, <2>1, ReceivedIs
  <2>3. operation = "receive"
    BY <1>1, <2>1 DEF ReceiveFrame, StatementInv
  <2>4. PICK n \in Nat, m \in Nat : n = Len(specified) /\ m = Len(frame)
    BY <1>1, <2>2, SpecifiedIs
  <2>5. /\ Len(tokens) = n /\ DOMAIN tokens = 1 .. n /\ WrittenLen = n
        /\ \A k \in 1 .. n :
             \/ tokens[k].kind = "hex" /\ specified[k] = Exact(tokens[k].value % ByteRange)
             \/ tokens[k].kind # "hex" /\ specified[k] = Masked(MASK_SKIP)
    BY <1>1, <2>3, <2>4, ReceiveTokens
  <2>6. \A k \in 1 .. n : /\ specified[k].mask = MASK_EXACT <=> tokens[k].kind = "hex"
                          /\ tokens[k].kind = "hex" => specified[k].byte = tokens[k].value % ByteRange
    <3>1. ASSUME NEW k \in 1 .. n
          PROVE  /\ specified[k].mask = MASK_EXACT <=> tokens[k].kind = "hex"
                 /\ tokens[k].kind = "hex" => specified[k].byte = tokens[k].value % ByteRange
      <4>1. PICK v, entry : v = tokens[k].value % ByteRange /\ entry = specified[k]
        OBVIOUS
      <4>2. \/ tokens[k].kind = "hex" /\ entry = Exact(v)
            \/ tokens[k].kind # "hex" /\ entry = Masked(MASK_SKIP)
        BY <2>5, <4>1
      <4>3. Exact(v).mask = -1 /\ Exact(v).byte = v /\ Masked(MASK_SKIP).mask = -2
        BY DEF Exact, Masked, MASK_EXACT, MASK_SKIP
      <4>4. QED
        BY <4>1, <4>2, <4>3 DEF MASK_EXACT
    <3>2. QED
      BY <3>1
  <2>7. outcome' = "matched" <=> SameBytes(frame) /\ LengthFits(frame)
    BY <2>1 DEF ReceiveFrame, Done
  <2>8. SameBytes(frame) <=>
          \A k \in 1 .. Shorter(n, m) :
            tokens[k].kind = "hex" => frame[k] = tokens[k].value % ByteRange
    <3>1. \A k \in 1 .. Shorter(n, m) : k \in 1 .. n
      BY DEF Shorter
    <3>2. QED
      BY <2>4, <2>6, <3>1 DEF SameBytes
  <2>9. ASSUME IsWrittenPacket(frame)
        PROVE  outcome' = "matched"
    <3>1. /\ m = n \/ m = PadTo
          /\ \A k \in 1 .. n : tokens[k].kind = "hex" => frame[k] = tokens[k].value % ByteRange
      BY <2>9, <2>4, <2>5 DEF IsWrittenPacket
    <3>2. LengthFits(frame)
      BY <3>1, <2>4, BoundsAre DEF LengthFits
    <3>3. \A k \in 1 .. Shorter(n, m) : k \in 1 .. n
      BY DEF Shorter
    <3>4. QED
      BY <2>7, <2>8, <3>1, <3>2, <3>3
  <2>10. ASSUME outcome' = "matched", m > PadTo
         PROVE  IsWrittenPacket(frame)
    <3>1. SameBytes(frame) /\ LengthFits(frame)
      BY <2>7, <2>10
    <3>2. m = n
      BY <3>1, <2>4, <2>10, BoundsAre DEF LengthFits
    <3>3. Shorter(n, m) = n
      BY <3>2 DEF Shorter
    <3>4. \A k \in 1 .. n : tokens[k].kind = "hex" => frame[k] = tokens[k].value % ByteRange
      BY <2>8, <3>1, <3>3
    <3>5. QED
      BY <2>4, <2>5, <3>2, <3>4 DEF IsWrittenPacket
  <2>11. ASSUME outcome' = "matched"
         PROVE  AgreesAsFarAsItGoes(frame)
    <3>1. \A k \in 1 .. n : k <= m => k \in 1 .. Shorter(n, m)
      BY DEF Shorter
    <3>2. \A k \in 1 .. Shorter(n, m) :
            tokens[k].kind = "hex" => frame[k] = tokens[k].value % ByteRange
      BY <2>7, <2>8, <2>11
    <3>3. QED
      BY <2>4, <2>5, <3>1, <3>2 DEF AgreesAsFarAsItGoes
  <2>12. /\ IsWrittenPacket(frame) <=> IsWrittenPacket(lastFrame')
         /\ AgreesAsFarAsItGoes(frame) <=> AgreesAsFarAsItGoes(lastFrame')
    BY <2>2 DEF IsWrittenPacket, AgreesAsFarAsItGoes
  <2>13. QED
    BY <2>2, <2>4, <2>9, <2>10, <2>11, <2>12
<1>2. TypeOK /\ StatementInv /\ [Next]_vars =>
        [Receiving => /\ IsWrittenPacket(lastFrame') => outcome' = "matched"
                      /\ outcome' = "matched" => AgreesAsFarAsItGoes(lastFrame')
                      /\ outcome' = "matched" /\ Len(lastFrame') > PadTo
                           => IsWrittenPacket(lastFrame')]_vars
  BY <1>1
<1>3. QED
  BY <1>2, StatementIsSpecified, PTL DEF Spec, MatchesWrittenPackets
=============================================================================
