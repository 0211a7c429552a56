---------------------------- MODULE SeqNumProofs ----------------------------
(***************************************************************************)
(* Serial number arithmetic in linear form: the modulus is taken once, in  *)
(* these lemmas, and the proofs that cite them only see sums, differences  *)
(* and comparisons.                                                        *)
(***************************************************************************)
EXTENDS SeqNum, TLAPS

\* A number within one modulus of the range wraps at most once.
LEMMA ModSmall ==
  ASSUME NEW m \in Nat \ {0}, NEW x \in 0 .. m - 1
  PROVE  x % m = x
  BY SMT

\* A number less than one round past the end: the remainder is what is left
\* after one round.
LEMMA ModOver ==
  ASSUME NEW m \in Nat \ {0}, NEW x \in m .. 2 * m - 1
  PROVE  x % m = x - m
  BY SMT

\* A number less than one round below zero: the remainder is one round
\* more.
LEMMA ModUnder ==
  ASSUME NEW m \in Nat \ {0}, NEW x \in -m .. -1
  PROVE  x % m = x + m
  BY SMT

\* seq_num_bits_add, for at most one round.
LEMMA AddLinear ==
  ASSUME NEW a \in SeqNums, NEW n \in 0 .. SeqMod
  PROVE  add(a, n) = IF a + n < SeqMod THEN a + n ELSE a + n - SeqMod
<1>1. SeqMod \in Nat \ {0} /\ a \in 0 .. SeqMod - 1
  BY HalfAssumption DEF SeqMod, SeqNums
<1>2. CASE a + n < SeqMod
  BY <1>1, <1>2, ModSmall DEF add
<1>3. CASE a + n >= SeqMod
  BY <1>1, <1>3, ModOver DEF add
<1> QED
  BY <1>1, <1>2, <1>3

\* The distance from a up to b.
LEMMA AheadLinear ==
  ASSUME NEW a \in SeqNums, NEW b \in SeqNums
  PROVE  Ahead(a, b) = IF a <= b THEN b - a ELSE b - a + SeqMod
<1>1. SeqMod \in Nat \ {0} /\ a \in 0 .. SeqMod - 1 /\ b \in 0 .. SeqMod - 1
  BY HalfAssumption DEF SeqMod, SeqNums
<1>2. CASE a <= b
  BY <1>1, <1>2, ModSmall DEF Ahead
<1>3. CASE a > b
  <2>1. b - a \in -SeqMod .. -1
    BY <1>1, <1>3
  <2> QED
    BY <1>1, <1>3, <2>1, ModUnder DEF Ahead
<1> QED
  BY <1>1, <1>2, <1>3

\* Sums and distances are sequence numbers.
LEMMA SeqNumTypes ==
  /\ SeqMod \in Nat /\ SeqMod = 2 * Half /\ Half \in Nat /\ Half > 0
  /\ \A a \in SeqNums : a \in Nat /\ a < SeqMod
  /\ \A a \in Nat : a < SeqMod => a \in SeqNums
  /\ \A a \in SeqNums, n \in 0 .. SeqMod : add(a, n) \in SeqNums
  /\ \A a, b \in SeqNums : Ahead(a, b) \in SeqNums
<1>1. /\ SeqMod \in Nat /\ SeqMod = 2 * Half /\ Half \in Nat /\ Half > 0
      /\ \A a \in SeqNums : a \in Nat /\ a < SeqMod
      /\ \A a \in Nat : a < SeqMod => a \in SeqNums
  BY HalfAssumption DEF SeqMod, SeqNums
<1>2. ASSUME NEW a \in SeqNums, NEW n \in 0 .. SeqMod
      PROVE  add(a, n) \in SeqNums
  BY <1>1, AddLinear DEF SeqNums
<1>3. ASSUME NEW a \in SeqNums, NEW b \in SeqNums
      PROVE  Ahead(a, b) \in SeqNums
  BY <1>1, AheadLinear DEF SeqNums
<1> QED
  BY <1>1, <1>2, <1>3

\* The distance between two sequence numbers is less than a round.
LEMMA AheadType ==
  ASSUME NEW a \in SeqNums, NEW b \in SeqNums
  PROVE  /\ Ahead(a, b) \in SeqNums /\ Ahead(a, b) \in Nat
         /\ Ahead(a, b) < SeqMod
  BY SeqNumTypes

\* Seq_num_bits_add returns a sequence number.
LEMMA AddType ==
  ASSUME NEW a \in SeqNums, NEW n \in Nat, n <= SeqMod
  PROVE  add(a, n) \in SeqNums
<1>1. n \in 0 .. SeqMod
  BY SeqNumTypes
<1> QED
  BY <1>1, SeqNumTypes

\* Going up by the distance arrives.
LEMMA AddAhead ==
  ASSUME NEW a \in SeqNums, NEW b \in SeqNums
  PROVE  add(a, Ahead(a, b)) = b
<1> DEFINE n == Ahead(a, b)
<1>1. /\ a \in Nat /\ b \in Nat /\ n \in Nat /\ SeqMod \in Nat
      /\ a < SeqMod /\ b < SeqMod /\ n < SeqMod
  BY SeqNumTypes
<1>2. n = IF a <= b THEN b - a ELSE b - a + SeqMod
  BY AheadLinear
<1>3. add(a, n) = IF a + n < SeqMod THEN a + n ELSE a + n - SeqMod
  BY <1>1, AddLinear
<1> HIDE DEF n
<1>4. add(a, n) = b
  BY <1>1, <1>2, <1>3
<1> QED
  BY <1>4 DEF n

\* The number n after a is n ahead of it.
LEMMA AheadAdd ==
  ASSUME NEW a \in SeqNums, NEW n \in 0 .. SeqMod - 1
  PROVE  Ahead(a, add(a, n)) = n
<1> DEFINE b == add(a, n)
<1>1. /\ a \in Nat /\ n \in Nat /\ SeqMod \in Nat
      /\ a < SeqMod /\ n < SeqMod
  BY SeqNumTypes
<1>2. b \in SeqNums
  BY <1>1, SeqNumTypes
<1>3. b = IF a + n < SeqMod THEN a + n ELSE a + n - SeqMod
  BY <1>1, AddLinear
<1>4. Ahead(a, b) = IF a <= b THEN b - a ELSE b - a + SeqMod
  BY <1>2, AheadLinear
<1> HIDE DEF b
<1>5. Ahead(a, b) = n
  BY <1>1, <1>3, <1>4
<1> QED
  BY <1>5 DEF b

\* Sums of small numbers associate.
LEMMA AddAdd ==
  ASSUME NEW a \in SeqNums, NEW m \in Nat, NEW n \in Nat, m + n < SeqMod
  PROVE  add(add(a, m), n) = add(a, m + n)
<1> DEFINE b == add(a, m)
<1>1. a \in Nat /\ SeqMod \in Nat /\ a < SeqMod
  BY SeqNumTypes
<1>2. b \in SeqNums
  BY <1>1, SeqNumTypes
<1>3. b = IF a + m < SeqMod THEN a + m ELSE a + m - SeqMod
  BY <1>1, AddLinear
<1>4. add(b, n) = IF b + n < SeqMod THEN b + n ELSE b + n - SeqMod
  BY <1>1, <1>2, AddLinear
<1>5. add(a, m + n) = IF a + (m + n) < SeqMod THEN a + (m + n) ELSE a + (m + n) - SeqMod
  BY <1>1, AddLinear
<1> HIDE DEF b
<1>6. add(b, n) = add(a, m + n)
  BY <1>1, <1>3, <1>4, <1>5
<1> QED
  BY <1>6 DEF b

\* The distance from a number k further up.
LEMMA AheadShift ==
  ASSUME NEW a \in SeqNums, NEW b \in SeqNums, NEW k \in Nat, k < SeqMod
  PROVE  Ahead(add(a, k), b) = IF k <= Ahead(a, b) THEN Ahead(a, b) - k
                               ELSE Ahead(a, b) - k + SeqMod
<1> DEFINE c == add(a, k)
           n == Ahead(a, b)
<1>1. /\ a \in Nat /\ b \in Nat /\ SeqMod \in Nat
      /\ a < SeqMod /\ b < SeqMod
  BY SeqNumTypes
<1>2. c \in SeqNums
  BY <1>1, SeqNumTypes
<1>3. c = IF a + k < SeqMod THEN a + k ELSE a + k - SeqMod
  BY <1>1, AddLinear
<1>4. n = IF a <= b THEN b - a ELSE b - a + SeqMod
  BY AheadLinear
<1>5. Ahead(c, b) = IF c <= b THEN b - c ELSE b - c + SeqMod
  BY <1>2, AheadLinear
<1> HIDE DEF c, n
<1>6. Ahead(c, b) = IF k <= n THEN n - k ELSE n - k + SeqMod
  BY <1>1, <1>3, <1>4, <1>5
<1> QED
  BY <1>6 DEF c, n

\* The comparisons in terms of the distance: b is behind a when it is more
\* than half the numbers ahead of it.
LEMMA CompareByAhead ==
  ASSUME NEW a \in SeqNums, NEW b \in SeqNums
  PROVE  /\ lt(a, b) <=> 0 < Ahead(a, b) /\ Ahead(a, b) < Half
         /\ lt(b, a) <=> Half < Ahead(a, b)
         /\ gt(a, b) <=> Half < Ahead(a, b)
         /\ ge(b, a) <=> Ahead(a, b) < Half
<1> DEFINE n == Ahead(a, b)
<1>1. /\ a \in Nat /\ b \in Nat /\ n \in Nat /\ Half \in Nat /\ Half > 0
      /\ a < 2 * Half /\ b < 2 * Half
  BY SeqNumTypes
<1>2. n = IF a <= b THEN b - a ELSE b - a + 2 * Half
  BY AheadLinear, SeqNumTypes
<1> HIDE DEF n
<1>3. /\ lt(a, b) <=> 0 < n /\ n < Half
      /\ lt(b, a) <=> Half < n
      /\ gt(a, b) <=> Half < n
      /\ gt(b, a) <=> 0 < n /\ n < Half
  BY <1>1, <1>2 DEF lt, gt
<1>4. a = b <=> n = 0
  BY <1>1, <1>2
<1>5. ge(b, a) <=> n < Half
  BY <1>1, <1>3, <1>4 DEF ge
<1> QED
  BY <1>3, <1>5 DEF n
=============================================================================
