------------------------ MODULE ProgressCalcProofs ------------------------
(***************************************************************************)
(* Theorems about ProgressCalc, for every width of an integer, every       *)
(* accuracy of a float, every list of sizes and every value of the         *)
(* counter. First the lemmas on the operators of the model (sums,          *)
(* division, Int64, Truncated, Percents), then the types and the           *)
(* conservation of the bytes, which hold of any sizes; then the invariant  *)
(* FilesFilledInOrder of sizes that fit, and the properties that it        *)
(* implies; last the speeds, with an invariant of their own.               *)
(***************************************************************************)
EXTENDS ProgressCalc, WellFoundedInduction, TLAPS

\* Every set of naturals has a least member.
LEMMA Least ==
    ASSUME NEW T, T \subseteq Nat, T # {}
    PROVE  \E m \in T : \A n \in T : m <= n
<1>1. \E m \in T : \A n \in T : ~(<<n, m>> \in OpToRel(<, Nat))
  BY NatLessThanWellFounded, WFMin
<1>2. PICK m \in T : \A n \in T : ~(<<n, m>> \in OpToRel(<, Nat))
  BY <1>1
<1>3. \A n \in T : ~(n < m)
  BY <1>2 DEF OpToRel
<1> QED
  BY <1>3

\* f is the function that SumOfFirst(s, n) is taken from.
IsSum(f, s, n) == f = [i \in 0 .. n |-> IF i = 0 THEN 0 ELSE f[i - 1] + s[i]]

\* SumOfFirst is defined by a recursive function: it exists,
LEMMA SumExists ==
    ASSUME NEW s, NEW n \in Nat
    PROVE  \E f : IsSum(f, s, n)
<1> DEFINE T == {m \in Nat : ~\E f : IsSum(f, s, m)}
<1> SUFFICES ASSUME T # {} PROVE FALSE
  OBVIOUS
<1>1. PICK m \in T : \A j \in T : m <= j
  BY Least
<1>2. CASE m = 0
  <2>1. IsSum([i \in 0 .. 0 |-> 0], s, 0)
    BY DEF IsSum
  <2> QED
    BY <1>1, <1>2, <2>1
<1>3. CASE m # 0
  <2>1. m - 1 \in Nat /\ m \in Nat /\ m - 1 \notin T
    BY <1>1, <1>3
  <2>2. PICK f : IsSum(f, s, m - 1)
    BY <2>1
  <2> DEFINE g == [i \in 0 .. m |-> IF i = m THEN f[m - 1] + s[m] ELSE f[i]]
  <2>3. ASSUME NEW i \in 0 .. m
        PROVE  g[i] = IF i = 0 THEN 0 ELSE g[i - 1] + s[i]
    <3>1. CASE i = 0
      BY <1>3, <2>1, <2>2, <3>1 DEF IsSum
    <3>2. CASE i = m
      BY <1>3, <2>1, <3>2
    <3>3. CASE i # 0 /\ i # m
      <4>1. i \in 0 .. m - 1 /\ i - 1 \in 0 .. m - 1
        BY <2>1, <3>3
      <4>2. f[i] = f[i - 1] + s[i]
        BY <2>2, <3>3, <4>1 DEF IsSum
      <4>3. g[i] = f[i] /\ g[i - 1] = f[i - 1]
        BY <2>1, <3>3, <4>1
      <4> QED
        BY <3>3, <4>2, <4>3
    <3> QED
      BY <3>1, <3>2, <3>3
  <2>4. g = [i \in 0 .. m |-> g[i]]
    OBVIOUS
  <2> HIDE DEF g
  <2>5. IsSum(g, s, m)
    BY <2>3, <2>4 DEF IsSum
  <2> QED
    BY <1>1, <2>5
<1> QED
  BY <1>2, <1>3

\* so SumOfFirst(s, n) is its value at n,
LEMMA SumDefined ==
    ASSUME NEW s, NEW n \in Nat
    PROVE  \E f : IsSum(f, s, n) /\ SumOfFirst(s, n) = f[n]
<1> DEFINE sum == CHOOSE f : IsSum(f, s, n)
<1>1. IsSum(sum, s, n)
  BY SumExists
<1>2. SumOfFirst(s, n) = sum[n]
  BY DEF SumOfFirst, IsSum
<1> HIDE DEF sum
<1> QED
  BY <1>1, <1>2

\* which depends on s[1] to s[n] only.
LEMMA SumUnique ==
    ASSUME NEW s, NEW t, NEW n \in Nat, NEW m \in Nat, NEW f, NEW g, IsSum(f, s, n), IsSum(g, t, m),
           NEW c \in Nat, c <= n, c <= m, \A i \in 1 .. c : s[i] = t[i]
    PROVE  f[c] = g[c]
<1> DEFINE T == {i \in 0 .. c : f[i] # g[i]}
<1> SUFFICES ASSUME T # {} PROVE FALSE
  OBVIOUS
<1>1. PICK i \in T : \A j \in T : i <= j
  <2>1. T \subseteq Nat
    OBVIOUS
  <2> HIDE DEF T
  <2> QED
    BY <2>1, Least
<1>2. CASE i = 0
  BY <1>1, <1>2 DEF IsSum
<1>3. CASE i # 0
  <2>1. i \in 1 .. c /\ i - 1 \in 0 .. c /\ i - 1 \notin T
    BY <1>1, <1>3
  <2>2. f[i - 1] = g[i - 1] /\ s[i] = t[i]
    BY <2>1
  <2>3. f[i] = f[i - 1] + s[i] /\ g[i] = g[i - 1] + t[i]
    BY <2>1 DEF IsSum
  <2> QED
    BY <1>1, <2>2, <2>3
<1> QED
  BY <1>2, <1>3

\* Sequences with the same first members have the same sum.
LEMMA SumSame ==
    ASSUME NEW s, NEW t, NEW n \in Nat, \A i \in 1 .. n : s[i] = t[i]
    PROVE  SumOfFirst(s, n) = SumOfFirst(t, n)
<1>1. n \in Nat /\ n <= n
  OBVIOUS
<1>2. PICK f : IsSum(f, s, n) /\ SumOfFirst(s, n) = f[n]
  BY SumDefined
<1>3. PICK g : IsSum(g, t, n) /\ SumOfFirst(t, n) = g[n]
  BY SumDefined
<1>4. f[n] = g[n]
  BY <1>1, <1>2, <1>3, SumUnique
<1> QED
  BY <1>2, <1>3, <1>4

\* The sum, a member at a time
LEMMA SumStep ==
    ASSUME NEW s, NEW n \in Nat
    PROVE  /\ SumOfFirst(s, 0) = 0
           /\ SumOfFirst(s, n + 1) = SumOfFirst(s, n) + s[n + 1]
<1>1. SumOfFirst(s, 0) = 0
  BY SumDefined DEF IsSum
<1>2. PICK f : IsSum(f, s, n) /\ SumOfFirst(s, n) = f[n]
  BY SumDefined
<1>3. n + 1 \in Nat /\ n <= n + 1 /\ n <= n /\ (n + 1) - 1 = n
  OBVIOUS
<1>4. PICK g : IsSum(g, s, n + 1) /\ SumOfFirst(s, n + 1) = g[n + 1]
  BY <1>3, SumDefined
<1>5. f[n] = g[n]
  BY <1>2, <1>3, <1>4, SumUnique
<1>6. g[n + 1] = g[n] + s[n + 1]
  BY <1>3, <1>4 DEF IsSum
<1> QED
  BY <1>1, <1>2, <1>4, <1>5, <1>6

\* A sum of integers is an integer,
LEMMA SumTyped ==
    ASSUME NEW s, NEW n \in Nat, \A i \in 1 .. n : s[i] \in Int
    PROVE  SumOfFirst(s, n) \in Int
<1> DEFINE T == {j \in 0 .. n : SumOfFirst(s, j) \notin Int}
<1> SUFFICES ASSUME T # {} PROVE FALSE
  OBVIOUS
<1>1. PICK j \in T : \A i \in T : j <= i
  <2>1. T \subseteq Nat
    OBVIOUS
  <2> HIDE DEF T
  <2> QED
    BY <2>1, Least
<1>2. CASE j = 0
  BY <1>1, <1>2, SumStep
<1>3. CASE j # 0
  <2>1. j \in 1 .. n /\ j - 1 \in Nat /\ j - 1 \in 0 .. n /\ j - 1 \notin T /\ (j - 1) + 1 = j
    BY <1>1, <1>3
  <2>2. SumOfFirst(s, j) = SumOfFirst(s, j - 1) + s[j]
    BY <2>1, SumStep
  <2> QED
    BY <1>1, <2>1, <2>2
<1> QED
  BY <1>2, <1>3

\* and a sum of naturals does not shrink as members are added.
LEMMA SumGrows ==
    ASSUME NEW s, NEW n \in Nat, \A i \in 1 .. n : s[i] \in Nat, NEW c \in 0 .. n
    PROVE  SumOfFirst(s, c) <= SumOfFirst(s, n)
<1> DEFINE T == {j \in c .. n : ~(SumOfFirst(s, c) <= SumOfFirst(s, j))}
<1> SUFFICES ASSUME T # {} PROVE FALSE
  OBVIOUS
<1>1. PICK j \in T : \A i \in T : j <= i
  <2>1. T \subseteq Nat
    OBVIOUS
  <2> HIDE DEF T
  <2> QED
    BY <2>1, Least
<1>2. ASSUME NEW i \in 0 .. n PROVE SumOfFirst(s, i) \in Int
  BY SumTyped
<1>3. CASE j = c
  BY <1>1, <1>2, <1>3
<1>4. CASE j # c
  <2>1. j \in 1 .. n /\ j - 1 \in Nat /\ j - 1 \in c .. n /\ j - 1 \notin T /\ (j - 1) + 1 = j
    BY <1>1, <1>4
  <2>2. SumOfFirst(s, j) = SumOfFirst(s, j - 1) + s[j]
    BY <2>1, SumStep
  <2>3. SumOfFirst(s, c) <= SumOfFirst(s, j - 1) /\ s[j] \in Nat
    BY <2>1
  <2> QED
    BY <1>1, <1>2, <2>1, <2>2, <2>3
<1> QED
  BY <1>3, <1>4
-----------------------------------------------------------------------------
\* Division with a rest, which is the only one,
LEMMA DivMod ==
    ASSUME NEW x \in Int, NEW d \in Int, d > 0
    PROVE  /\ x \div d \in Int /\ x % d \in Int
           /\ x = d * (x \div d) + (x % d)
           /\ 0 <= x % d /\ x % d < d
<1>1. x \div d \in Int /\ x % d \in Int
  OBVIOUS
<1>2. x = d * (x \div d) + (x % d)
  OBVIOUS
<1>3. 0 <= x % d /\ x % d < d
  OBVIOUS
<1> QED
  BY <1>1, <1>2, <1>3

\* so that a number with such a quotient and rest has that rest
LEMMA ModUnique ==
    ASSUME NEW x \in Int, NEW d \in Int, d > 0,
           NEW q \in Int, NEW r \in Int, 0 <= r, r < d, x = d * q + r
    PROVE  x % d = r
<1> DEFINE j == x \div d
           m == x % d
<1>1. x = d * j + m /\ 0 <= m /\ m < d /\ j \in Int /\ m \in Int
  BY DivMod
<1> HIDE DEF j, m
<1>0. m = r
  <2>2. CASE q = j
    BY <1>1, <2>2
  <2>3. CASE q > j
    <3>1. d * (q - j) >= d
      BY <1>1, <2>3
    <3>2. d * (q - j) = d * q - d * j
      BY <1>1
    <3> QED
      BY <1>1, <3>1, <3>2
  <2>4. CASE q < j
    <3>1. d * (j - q) >= d
      BY <1>1, <2>4
    <3>2. d * (j - q) = d * j - d * q
      BY <1>1
    <3> QED
      BY <1>1, <3>1, <3>2
  <2> QED
    BY <1>1, <2>2, <2>3, <2>4
<1> QED
  BY <1>0 DEF m

\* and a multiple of the divisor changes nothing.
LEMMA ModShift ==
    ASSUME NEW x \in Int, NEW d \in Int, d > 0, NEW q \in Int
    PROVE  (x + d * q) % d = x % d
<1> DEFINE j == x \div d
           m == x % d
<1>1. x = d * j + m /\ 0 <= m /\ m < d /\ j \in Int /\ m \in Int
  BY DivMod
<1> HIDE DEF j, m
<1>2. x + d * q = d * (j + q) + m
  BY <1>1
<1>3. (x + d * q) % d = m
  <2>1. x + d * q \in Int /\ j + q \in Int
    BY <1>1
  <2> QED
    BY <1>1, <1>2, <2>1, ModUnique
<1> QED
  BY <1>3 DEF m

\* The quotient is the greatest number whose multiple does not exceed x.
LEMMA DivOrder ==
    ASSUME NEW x \in Int, NEW d \in Int, d > 0
    PROVE  /\ \A y \in Int : d * y <= x <=> y <= x \div d
           /\ d * (x \div d) <= x
<1> DEFINE j == x \div d
           m == x % d
<1>1. x = d * j + m /\ 0 <= m /\ m < d /\ j \in Int /\ m \in Int
  BY DivMod
<1> HIDE DEF j, m
<1>2. d * j <= x
  BY <1>1
<1>3. ASSUME NEW y \in Int, y <= j
      PROVE  d * y <= x
  <2>1. d * (j - y) >= 0 /\ d * (j - y) = d * j - d * y
    BY <1>1, <1>3
  <2> QED
    BY <1>1, <1>2, <2>1
<1>4. ASSUME NEW y \in Int, y > j
      PROVE  d * y > x
  <2>1. d * (y - j) >= d /\ d * (y - j) = d * y - d * j
    BY <1>1, <1>4
  <2> QED
    BY <1>1, <2>1
<1>5. \A y \in Int : d * y <= x <=> y <= j
  <2> SUFFICES ASSUME NEW y \in Int
               PROVE  d * y <= x <=> y <= j
    OBVIOUS
  <2>1. d * y \in Int
    OBVIOUS
  <2> QED
    BY <1>1, <1>3, <1>4, <2>1
<1> QED
  BY <1>2, <1>5 DEF j

\* A counter that reads anything has room for it: the width is not empty.
LEMMA HalfPositive ==
    ASSUME totalBytes \in ByteCounts
    PROVE  Half \in Int /\ Half > 0
<1>1. Half \in Int
  BY CalcAssumption DEF Half
<1> QED
  BY <1>1, CalcAssumption

\* A conversion gives an int64,
LEMMA Int64Typed ==
    ASSUME NEW n \in Int, Half \in Int, Half > 0
    PROVE  Int64(n) \in Int64s
<1> DEFINE m == (n + Half) % (2 * Half)
<1>1. m \in Int /\ 0 <= m /\ m < 2 * Half
  <2>1. n + Half \in Int /\ 2 * Half \in Int /\ 2 * Half > 0
    OBVIOUS
  <2> QED
    BY <2>1, DivMod
<1>2. Int64(n) = m - Half
  BY DEF Int64
<1> HIDE DEF m
<1> QED
  BY <1>1, <1>2 DEF Int64s

\* the number itself if it is one,
LEMMA Int64Same ==
    ASSUME NEW n \in Int64s, Half \in Int, Half > 0
    PROVE  Int64(n) = n
<1>1. (n + Half) % (2 * Half) = n + Half
  <2>1. n + Half \in Int /\ 0 <= n + Half /\ n + Half < 2 * Half /\ 2 * Half \in Int /\ 2 * Half > 0
    BY DEF Int64s
  <2>2. n + Half = (2 * Half) * 0 + (n + Half)
    BY <2>1 DEF Int64s
  <2> QED
    BY <2>1, <2>2, ModUnique
<1> QED
  BY <1>1 DEF Int64, Int64s

\* and a sum that is converted after every addition is the whole sum converted.
LEMMA Int64Sum ==
    ASSUME NEW a \in Int, NEW b \in Int, Half \in Int, Half > 0
    PROVE  Int64(Int64(a) + b) = Int64(a + b)
<1> DEFINE d == 2 * Half
           q == (a + Half) \div d
<1>1. q \in Int /\ (a + Half) % d \in Int /\ a + Half = d * q + ((a + Half) % d)
  <2>1. a + Half \in Int /\ d \in Int /\ d > 0
    OBVIOUS
  <2> QED
    BY <2>1, DivMod
<1>2. Int64(a) = ((a + Half) % d) - Half
  BY DEF Int64
<1>d. d \in Int /\ d > 0
  OBVIOUS
<1>4. /\ Int64(a + b) = ((a + b + Half) % d) - Half
      /\ Int64(Int64(a) + b) = ((Int64(a) + b + Half) % d) - Half
  BY DEF Int64
<1> HIDE DEF d, q
<1>3. (Int64(a) + b + Half) + d * q = a + b + Half /\ Int64(a) \in Int
  BY <1>1, <1>2, <1>d
<1>5. (a + b + Half) % d = (Int64(a) + b + Half) % d
  <2>1. Int64(a) + b + Half \in Int
    BY <1>3
  <2>2. ((Int64(a) + b + Half) + d * q) % d = (Int64(a) + b + Half) % d
    BY <2>1, <1>1, <1>d, ModShift
  <2> QED
    BY <1>3, <2>2
<1> QED
  BY <1>4, <1>5

\* What a float64 makes of a fraction is a number, of a positive one a natural
\* number, and it exceeds the fraction by less than one part in Accuracy.
LEMMA WholePartsBounds ==
    ASSUME NEW n \in Nat, NEW d \in Nat \ {0}, NEW q \in WholeParts(n, d)
    PROVE  q \in Nat /\ Accuracy * (d * q) <= (Accuracy + 1) * n
<1> DEFINE e == Accuracy * d
           low == (Accuracy - 1) * n
           high == (Accuracy + 1) * n
<1>1. Accuracy \in Nat \ {0}
  BY AccuracyAssumption
<1>2. e \in Int /\ e > 0
  BY <1>1
<1>3. low \in Int /\ low >= 0 /\ high \in Int
  BY <1>1
<1>4. q \in low \div e .. high \div e
  BY DEF WholeParts
<1>5. Accuracy * (d * q) = e * q
  <2>1. low \div e \in Int /\ high \div e \in Int
    <3> HIDE DEF e, low, high
    <3> QED
      BY <1>2, <1>3, DivMod
  <2>2. q \in Int
    <3> HIDE DEF e, low, high
    <3> QED
      BY <1>4, <2>1
  <2> QED
    BY <1>1, <2>2
<1> HIDE DEF e, low, high
<1>6. low \div e \in Int /\ high \div e \in Int
  BY <1>2, <1>3, DivMod
<1>7. q \in Int /\ low \div e <= q /\ q <= high \div e
  BY <1>4, <1>6
<1>8. 0 <= low \div e
  <2>1. e * 0 <= low
    BY <1>2, <1>3
  <2> QED
    BY <1>2, <1>3, <2>1, DivOrder
<1>9. e * q <= high
  BY <1>2, <1>3, <1>7, DivOrder
<1> QED
  BY <1>5, <1>6, <1>7, <1>8, <1>9 DEF high

\* Of any fraction it is a number.
LEMMA TruncatedTyped ==
    ASSUME NEW n \in Int, NEW d \in Nat \ {0}, NEW q \in Truncated(n, d)
    PROVE  q \in Int
<1>1. CASE n >= 0
  <2>1. n \in Nat /\ q \in WholeParts(n, d)
    BY <1>1 DEF Truncated
  <2> QED
    BY <2>1, WholePartsBounds
<1>2. CASE ~(n >= 0)
  <2>1. -n \in Nat
    BY <1>2
  <2>2. PICK r \in WholeParts(-n, d) : q = -r
    BY <1>2 DEF Truncated
  <2>3. r \in Nat
    BY <2>1, WholePartsBounds
  <2> QED
    BY <2>2, <2>3
<1> QED
  BY <1>1, <1>2

\* The conversion gives an int64, the number itself or, of one that does not
\* fit, at the least no greater one if it was not negative.
LEMMA FloatConverted ==
    ASSUME NEW n \in Int, Half \in Int, Half > 0, NEW m \in Int64OfFloat(n)
    PROVE  m \in Int64s /\ m \in Int /\ (n >= 0 => m <= n)
<1>1. CASE n \in Int64s
  BY <1>1 DEF Int64OfFloat, Int64s
<1>2. CASE n \notin Int64s /\ n > 0
  <2>1. m = -Half \/ m = Half - 1
    BY <1>2 DEF Int64OfFloat
  <2>2. n > Half - 1
    BY <1>2 DEF Int64s
  <2> QED
    BY <2>1, <2>2 DEF Int64s
<1>3. CASE n \notin Int64s /\ ~(n > 0)
  <2>1. m = -Half
    BY <1>3 DEF Int64OfFloat
  <2> QED
    BY <1>3, <2>1 DEF Int64s
<1> QED
  BY <1>1, <1>2, <1>3

\* A percentage is at most 100,
LEMMA PercentTyped ==
    ASSUME NEW part \in Int, NEW whole \in Int, NEW percent \in Percents(part, whole)
    PROVE  percent \in Percentages
<1>1. CASE whole <= 0 \/ part >= whole
  BY <1>1 DEF Percents, Percentages
<1>2. CASE ~(whole <= 0 \/ part >= whole)
  <2>1. PICK q \in Truncated(100 * part, whole) : percent = IF q > 100 THEN 100 ELSE q
    BY <1>2 DEF Percents
  <2>2. 100 * part \in Int /\ whole \in Nat \ {0}
    BY <1>2
  <2>3. q \in Int
    BY <2>2, TruncatedTyped
  <2> QED
    BY <2>1, <2>3 DEF Percentages
<1> QED
  BY <1>1, <1>2

\* and of a part of something it is one, 100 for the whole, and for the whole
\* only if a float64 tells the whole from less.
LEMMA PercentFull ==
    ASSUME NEW part \in Nat, NEW whole \in Nat, whole > 0, NEW percent \in Percents(part, whole)
    PROVE  /\ percent \in 0 .. 100
           /\ part >= whole => percent = 100
           /\ percent = 100 /\ whole <= Accuracy => part >= whole
<1>1. CASE part >= whole
  BY <1>1 DEF Percents
<1>2. CASE part < whole
  <2>1. PICK q \in Truncated(100 * part, whole) : percent = IF q > 100 THEN 100 ELSE q
    BY <1>2 DEF Percents
  <2>2. 100 * part \in Nat /\ whole \in Nat \ {0} /\ Accuracy \in Nat \ {0}
    BY AccuracyAssumption
  <2>3. q \in WholeParts(100 * part, whole)
    BY <2>2 DEF Truncated
  <2>4. q \in Nat /\ Accuracy * (whole * q) <= (Accuracy + 1) * (100 * part)
    BY <2>2, <2>3, WholePartsBounds
  <2>5. ASSUME q >= 100, whole <= Accuracy
        PROVE  FALSE
    <3>1. whole * 100 <= whole * q
      BY <2>4, <2>5
    <3> DEFINE x == whole * q
    <3>2. x \in Int /\ whole * 100 <= x
      BY <2>4, <3>1
    <3>3. Accuracy * (whole * 100) <= Accuracy * x
      <4> HIDE DEF x
      <4> QED
        BY <2>2, <3>2
    <3>4. Accuracy * (whole * 100) <= (Accuracy + 1) * (100 * part)
      BY <2>2, <2>4, <3>3
    <3> DEFINE y == Accuracy * whole
               z == Accuracy * part
    <3>5. y \in Int /\ z \in Int
      BY <2>2
    <3>6. Accuracy * (whole * 100) = 100 * y /\ (Accuracy + 1) * (100 * part) = 100 * z + 100 * part
      BY <2>2
    <3>7. Accuracy * (part + 1) <= Accuracy * whole
      BY <1>2, <2>2
    <3>8. Accuracy * (part + 1) = z + Accuracy
      BY <2>2
    <3> HIDE DEF y, z
    <3>9. z + Accuracy <= y /\ y <= z + part
      BY <2>2, <3>4, <3>5, <3>6, <3>7, <3>8 DEF y
    <3> QED
      BY <1>2, <2>2, <2>5, <3>5, <3>9
  <2> QED
    BY <1>2, <2>1, <2>4, <2>5
<1> QED
  BY <1>1, <1>2

-----------------------------------------------------------------------------
\* The variables have their types at the start,
LEMMA TypeInit == Init => TypeOK
<1> SUFFICES ASSUME Init
             PROVE  TypeOK
  OBVIOUS
<1>1. Half \in Int /\ Half > 0
  BY HalfPositive DEF Init
<1>2. sizes \in Seq(0 .. 2 * Half - 1)
  BY CalcAssumption DEF Init
<1>3. k \in 0 .. Len(sizes)
  BY <1>2 DEF Init
<1>4. totalSize \in Int64s /\ bytesRemaining \in Int64s /\ totalTransferred \in Int64s
  BY <1>1, CalcAssumption DEF Init, Int64s
<1>5. fileItems \in Seq(FileItems)
  BY DEF Init
<1>6. totalProgress \in Percentages
  BY DEF Init, Percentages
<1> QED
  BY <1>3, <1>4, <1>5, <1>6 DEF Init, TypeOK

\* and every step of the loops keeps them.
LEMMA TypeNext == TypeOK /\ [Next]_vars => TypeOK'
<1> SUFFICES ASSUME TypeOK, [Next]_vars
             PROVE  TypeOK'
  OBVIOUS
<1>1. Half \in Int /\ Half > 0
  BY HalfPositive DEF TypeOK
<1>2. sizes \in Seq(0 .. 2 * Half - 1) /\ Len(sizes) \in Nat
  BY CalcAssumption DEF TypeOK
<1>3. \A i \in 1 .. Len(sizes) : sizes[i] \in Int
  BY <1>1, <1>2
<1>4. \A n \in Int64s : n \in Int
  BY <1>1 DEF Int64s
<1>5. CASE AddSize
  <2>1. k + 1 \in 1 .. Len(sizes)
    BY <1>2, <1>5 DEF AddSize, TypeOK
  <2>2. Int64(sizes[k + 1]) \in Int
    BY <1>1, <1>3, <1>4, <2>1, Int64Typed
  <2>3. totalSize + Int64(sizes[k + 1]) \in Int
    BY <1>4, <2>2 DEF TypeOK
  <2>4. totalSize' \in Int64s
    BY <1>1, <1>5, <2>3, Int64Typed DEF AddSize
  <2> QED
    BY <1>5, <2>1, <2>4 DEF AddSize, TypeOK, inputs
<1>6. CASE SizesDone
  BY <1>2, <1>6 DEF SizesDone, TypeOK, inputs
<1>7. CASE AddFile
  <2> DEFINE size == Int64(sizes[k + 1])
  <2>1. k + 1 \in 1 .. Len(sizes)
    BY <1>2, <1>7 DEF AddFile, TypeOK
  <2>2. size \in Int64s /\ size \in Int
    BY <1>1, <1>3, <1>4, <2>1, Int64Typed
  <2>3. bytesRemaining' = Left(size)
        /\ totalTransferred' = Int64(totalTransferred + Transferred(size))
    BY <1>7 DEF AddFile
  <2>9. PICK progress \in Percents(Transferred(size), size), speed \in FileSpeeds(size) :
          fileItems' = Append(fileItems, [size |-> size, transferred |-> Transferred(size),
                                          progress |-> progress, speed |-> speed])
    BY <1>7 DEF AddFile
  <2> HIDE DEF size
  <2>4. Transferred(size) \in Int64s /\ Transferred(size) \in Int
    BY <1>4, <2>2 DEF Transferred, TypeOK
  <2>5. Left(size) \in Int64s
    <3>1. bytesRemaining - size \in Int
      BY <1>4, <2>2 DEF TypeOK
    <3>2. 0 \in Int64s
      BY <1>1 DEF Int64s
    <3> QED
      BY <1>1, <3>1, <3>2, Int64Typed DEF Left
  <2>6. totalTransferred' \in Int64s
    <3>1. totalTransferred + Transferred(size) \in Int
      BY <1>4, <2>4 DEF TypeOK
    <3> QED
      BY <1>1, <2>3, <3>1, Int64Typed
  <2> DEFINE item == [size |-> size, transferred |-> Transferred(size),
                      progress |-> progress, speed |-> speed]
  <2>7. item \in FileItems
    <3>1. progress \in Percentages
      BY <2>2, <2>4, PercentTyped
    <3>2. speed \in Int64s
      <4>1. currentSpeed \in Int /\ totalSize \in Int
        BY <1>1, <1>4, CalcAssumption DEF TypeOK
      <4>2. currentSpeed * size \in Int
        BY <2>2, <4>1
      <4>3. CASE totalSize > 0
        <5>1. PICK n \in Truncated(currentSpeed * size, totalSize) : speed \in Int64OfFloat(n)
          BY <4>3 DEF FileSpeeds
        <5>2. totalSize \in Nat \ {0}
          BY <4>1, <4>3
        <5>3. n \in Int
          BY <4>2, <5>2, TruncatedTyped
        <5> QED
          BY <1>1, <5>1, <5>3, FloatConverted
      <4>4. CASE ~(totalSize > 0)
        BY <1>1, <4>4 DEF FileSpeeds, Int64s
      <4> QED
        BY <4>3, <4>4
    <3> QED
      BY <2>2, <2>4, <3>1, <3>2 DEF FileItems
  <2>8. fileItems' \in Seq(FileItems)
    <3> HIDE DEF item
    <3>1. fileItems' = Append(fileItems, item)
      BY <2>9 DEF item
    <3> QED
      BY <2>7, <3>1 DEF TypeOK
  <2> HIDE DEF item
  <2> QED
    BY <1>7, <2>1, <2>3, <2>5, <2>6, <2>8 DEF AddFile, TypeOK, inputs
<1>8. CASE Totals
  <2>1. totalProgress' \in Percentages
    <3>1. totalProgress' \in Percents(totalTransferred, totalSize)
      BY <1>8 DEF Totals
    <3>2. totalTransferred \in Int /\ totalSize \in Int
      BY <1>4 DEF TypeOK
    <3> QED
      BY <3>1, <3>2, PercentTyped
  <2>2. eta' = NoEta \/ eta' \in Nat
    <3> DEFINE remaining == Int64(totalSize - totalTransferred)
    <3>1. remaining \in Int
      <4>1. totalSize - totalTransferred \in Int
        BY <1>4 DEF TypeOK
      <4> QED
        BY <1>1, <1>4, <4>1, Int64Typed
    <3>2. eta' = IF avgSpeed > 0 /\ remaining > 0 THEN remaining \div avgSpeed ELSE NoEta
      BY <1>8 DEF Totals
    <3> HIDE DEF remaining
    <3>3. avgSpeed \in Int
      BY <1>1, CalcAssumption DEF TypeOK
    <3>4. CASE avgSpeed > 0 /\ remaining > 0
      <4>1. remaining \div avgSpeed \in Int
        BY <3>1, <3>3, <3>4, DivMod
      <4>2. avgSpeed * 0 <= remaining
        BY <3>1, <3>3, <3>4
      <4>3. 0 <= remaining \div avgSpeed
        BY <3>1, <3>3, <3>4, <4>2, DivOrder
      <4> QED
        BY <3>2, <3>4, <4>1, <4>3
    <3>5. CASE ~(avgSpeed > 0 /\ remaining > 0)
      BY <3>2, <3>5
    <3> QED
      BY <3>4, <3>5
  <2> QED
    BY <1>2, <1>8, <2>1, <2>2 DEF Totals, TypeOK, inputs
<1>9. CASE UNCHANGED vars
  BY <1>9 DEF vars, inputs, TypeOK
<1> QED
  BY <1>5, <1>6, <1>7, <1>8, <1>9 DEF Next

\* Whatever sizes the request names, every total buildProgressPayload computes
\* and every number it reports of a file is an int64, no percentage is above
\* 100, and the time left is not negative.
THEOREM TypeCorrect == Spec => []TypeOK
  BY TypeInit, TypeNext, PTL DEF Spec
-----------------------------------------------------------------------------
\* At the start nothing is given and the counter is left,
LEMMA ConservedInit == Init => BytesConserved
<1> SUFFICES ASSUME Init
             PROVE  BytesConserved
  OBVIOUS
<1>1. Half \in Int /\ Half > 0
  BY HalfPositive DEF Init
<1>2. totalBytes \in Int64s /\ 0 + totalBytes = totalBytes
  BY <1>1, CalcAssumption DEF Init, Int64s
<1> QED
  BY <1>1, <1>2, Int64Same DEF Init, BytesConserved

\* and a file gets what is taken off the rest, with int64s that wrap or not.
LEMMA ConservedNext == TypeOK /\ BytesConserved /\ [Next]_vars => BytesConserved'
<1> SUFFICES ASSUME TypeOK, BytesConserved, [Next]_vars
             PROVE  BytesConserved'
  OBVIOUS
<1>1. Half \in Int /\ Half > 0
  BY HalfPositive DEF TypeOK
<1>2. CASE AddFile
  <2> DEFINE size == Int64(sizes[k + 1])
             t == totalTransferred
             b == bytesRemaining
  <2>1. size \in Int64s /\ size \in Int
    <3>1. sizes \in Seq(0 .. 2 * Half - 1) /\ k + 1 \in 1 .. Len(sizes)
      BY <1>2, CalcAssumption DEF AddFile, TypeOK
    <3>2. sizes[k + 1] \in Int
      BY <1>1, <3>1
    <3> QED
      BY <1>1, <3>2, Int64Typed DEF Int64s
  <2>2. t \in Int /\ b \in Int
    BY <1>1 DEF TypeOK, Int64s
  <2>3. bytesRemaining' = Left(size) /\ totalTransferred' = Int64(t + Transferred(size))
        /\ totalBytes' = totalBytes
    BY <1>2 DEF AddFile, inputs
  <2>4. Int64(t + b) = totalBytes
    BY DEF BytesConserved
  <2>5. Left(size) = (IF b >= size THEN Int64(b - size) ELSE 0)
        /\ Transferred(size) = (IF b >= size THEN size ELSE b)
    BY DEF Left, Transferred
  <2> HIDE DEF size, t, b
  <2>6. CASE b >= size
    <3>1. Int64(Int64(t + size) + Int64(b - size)) = Int64((t + size) + Int64(b - size))
      <4>1. t + size \in Int /\ b - size \in Int
        BY <2>1, <2>2
      <4>2. Int64(b - size) \in Int
        BY <1>1, <4>1, Int64Typed DEF Int64s
      <4> QED
        BY <1>1, <4>1, <4>2, Int64Sum
    <3>2. Int64(Int64(b - size) + (t + size)) = Int64((b - size) + (t + size))
      <4>1. t + size \in Int /\ b - size \in Int
        BY <2>1, <2>2
      <4> QED
        BY <1>1, <4>1, Int64Sum
    <3>3. (t + size) + Int64(b - size) = Int64(b - size) + (t + size)
      <4>1. t + size \in Int /\ b - size \in Int
        BY <2>1, <2>2
      <4>2. Int64(b - size) \in Int
        BY <1>1, <4>1, Int64Typed DEF Int64s
      <4> QED
        BY <4>1, <4>2
    <3>4. (b - size) + (t + size) = t + b
      BY <2>1, <2>2
    <3> QED
      BY <2>3, <2>4, <2>5, <2>6, <3>1, <3>2, <3>3, <3>4 DEF BytesConserved
  <2>7. CASE ~(b >= size)
    <3>1. Int64(Int64(t + b) + 0) = Int64((t + b) + 0)
      BY <1>1, <2>2, Int64Sum
    <3>2. (t + b) + 0 = t + b
      BY <2>2
    <3> QED
      BY <2>3, <2>4, <2>5, <2>7, <3>1, <3>2 DEF BytesConserved
  <2> QED
    BY <2>6, <2>7
<1>3. CASE AddSize \/ SizesDone \/ Totals \/ UNCHANGED vars
  BY <1>3 DEF AddSize, SizesDone, Totals, vars, inputs, BytesConserved
<1> QED
  BY <1>2, <1>3 DEF Next

\* In the loop that divides the counter of the stream among the files
\* (buildProgressPayload), what the files got and what is left always make the
\* counter, also when sizes turn negative and sums wrap.
THEOREM NoByteLostOrDoubled == Spec => []BytesConserved
  BY TypeInit, TypeNext, ConservedInit, ConservedNext, PTL DEF Spec
-----------------------------------------------------------------------------
\* The numbers of a state whose type is right
LEMMA SizesTyped ==
    ASSUME TypeOK
    PROVE  /\ Half \in Int /\ Half > 0
           /\ Len(sizes) \in Nat /\ k \in 0 .. Len(sizes)
           /\ \A i \in 1 .. Len(sizes) : sizes[i] \in Nat
           /\ totalBytes \in Nat /\ totalBytes < Half /\ currentSpeed \in Nat
           /\ totalSize \in Int /\ bytesRemaining \in Int /\ totalTransferred \in Int
<1>1. Half \in Int /\ Half > 0
  BY HalfPositive DEF TypeOK
<1>2. sizes \in Seq(0 .. 2 * Half - 1)
  BY CalcAssumption DEF TypeOK
<1>3. \A i \in 1 .. Len(sizes) : sizes[i] \in Nat
  BY <1>1, <1>2
<1>4. totalBytes \in Nat /\ totalBytes < Half /\ currentSpeed \in Nat
  BY <1>1, CalcAssumption DEF TypeOK
<1> QED
  BY <1>1, <1>2, <1>3, <1>4 DEF TypeOK, Int64s

\* The sum of the sizes, a file at a time
LEMMA SizesAdd ==
    ASSUME TypeOK
    PROVE  /\ SizeOfFirst(0) = 0
           /\ \A i \in 0 .. Len(sizes) : SizeOfFirst(i) \in Nat
           /\ \A i \in 1 .. Len(sizes) : SizeOfFirst(i) = SizeOfFirst(i - 1) + sizes[i]
           /\ \A j \in 0 .. Len(sizes) : \A i \in 0 .. j : SizeOfFirst(i) <= SizeOfFirst(j)
<1>1. Len(sizes) \in Nat /\ \A i \in 1 .. Len(sizes) : sizes[i] \in Nat
  BY SizesTyped
<1>2. SizeOfFirst(0) = 0
  BY SumStep DEF SizeOfFirst
<1>3. ASSUME NEW j \in 0 .. Len(sizes), NEW i \in 0 .. j
      PROVE  SizeOfFirst(i) <= SizeOfFirst(j)
  <2>1. j \in Nat /\ \A n \in 1 .. j : sizes[n] \in Nat
    BY <1>1
  <2> QED
    BY <2>1, SumGrows DEF SizeOfFirst
<1>4. ASSUME NEW i \in 0 .. Len(sizes)
      PROVE  SizeOfFirst(i) \in Nat
  <2>1. i \in Nat /\ \A n \in 1 .. i : sizes[n] \in Int
    BY <1>1
  <2>2. SizeOfFirst(i) \in Int
    BY <2>1, SumTyped DEF SizeOfFirst
  <2>3. SizeOfFirst(0) <= SizeOfFirst(i)
    BY <2>1, <1>3
  <2> QED
    BY <1>2, <2>2, <2>3
<1>5. ASSUME NEW i \in 1 .. Len(sizes)
      PROVE  SizeOfFirst(i) = SizeOfFirst(i - 1) + sizes[i]
  <2>1. i - 1 \in Nat /\ (i - 1) + 1 = i
    BY <1>1
  <2>2. SumOfFirst(sizes, (i - 1) + 1) = SumOfFirst(sizes, i - 1) + sizes[(i - 1) + 1]
    BY <2>1, SumStep
  <2> QED
    BY <2>1, <2>2 DEF SizeOfFirst
<1> QED
  BY <1>2, <1>3, <1>4, <1>5

\* Sizes that fit are the same as int64s, and so are their sums.
LEMMA SizesKept ==
    ASSUME TypeOK, SizesFit
    PROVE  /\ \A i \in 0 .. Len(sizes) : SizeOfFirst(i) \in Int64s
           /\ \A i \in 1 .. Len(sizes) : Int64(sizes[i]) = sizes[i]
<1>1. Half \in Int /\ Half > 0 /\ Len(sizes) \in Nat
      /\ \A i \in 1 .. Len(sizes) : sizes[i] \in Nat
  BY SizesTyped
<1>2. ASSUME NEW i \in 0 .. Len(sizes)
      PROVE  SizeOfFirst(i) \in Nat /\ SizeOfFirst(i) < Half
  <2>1. Len(sizes) \in 0 .. Len(sizes) /\ i \in 0 .. Len(sizes)
    BY <1>1
  <2>2. SizeOfFirst(i) <= SizeOfFirst(Len(sizes)) /\ SizeOfFirst(i) \in Nat
        /\ SizeOfFirst(Len(sizes)) \in Nat
    BY <2>1, SizesAdd
  <2> QED
    BY <1>1, <2>2 DEF SizesFit
<1>3. ASSUME NEW i \in 1 .. Len(sizes)
      PROVE  Int64(sizes[i]) = sizes[i]
  <2>1. i - 1 \in 0 .. Len(sizes) /\ i \in 0 .. Len(sizes)
    BY <1>1
  <2>2. SizeOfFirst(i) = SizeOfFirst(i - 1) + sizes[i]
    BY SizesAdd
  <2>3. sizes[i] \in Nat /\ sizes[i] < Half
    BY <1>1, <1>2, <2>1, <2>2
  <2>4. sizes[i] \in Int64s
    BY <1>1, <2>3 DEF Int64s
  <2> QED
    BY <1>1, <2>4, Int64Same
<1> QED
  BY <1>1, <1>2, <1>3 DEF Int64s

\* The speeds that are reported
SpeedsOf(items) == [i \in 1 .. Len(items) |-> items[i].speed]

\* Their sum is a number,
LEMMA SpeedsTyped ==
    ASSUME NEW items \in Seq(FileItems)
    PROVE  SumOfFirst(SpeedsOf(items), Len(items)) \in Int
<1>1. Len(items) \in Nat
  OBVIOUS
<1>2. ASSUME NEW i \in 1 .. Len(items)
      PROVE  SpeedsOf(items)[i] \in Int
  <2>1. items[i] \in FileItems
    OBVIOUS
  <2>2. Half \in Int
    BY CalcAssumption DEF Half
  <2> QED
    BY <2>1, <2>2 DEF SpeedsOf, FileItems, Int64s
<1> QED
  BY <1>1, <1>2, SumTyped

\* and the next file adds its own.
LEMMA SpeedsAppend ==
    ASSUME NEW items \in Seq(FileItems), NEW item \in FileItems
    PROVE  SumOfFirst(SpeedsOf(Append(items, item)), Len(items) + 1)
             = SumOfFirst(SpeedsOf(items), Len(items)) + item.speed
<1> DEFINE more == Append(items, item)
           n == Len(items)
<1>1. n \in Nat /\ Len(more) = n + 1
      /\ (\A i \in 1 .. n : more[i] = items[i]) /\ more[n + 1] = item
  OBVIOUS
<1> HIDE DEF more
<1>2. \A i \in 1 .. n : SpeedsOf(more)[i] = SpeedsOf(items)[i]
  BY <1>1 DEF SpeedsOf
<1>3. SpeedsOf(more)[n + 1] = item.speed
  BY <1>1 DEF SpeedsOf
<1>4. SumOfFirst(SpeedsOf(more), n + 1) = SumOfFirst(SpeedsOf(more), n) + SpeedsOf(more)[n + 1]
  BY <1>1, SumStep
<1>5. SumOfFirst(SpeedsOf(more), n) = SumOfFirst(SpeedsOf(items), n)
  BY <1>1, <1>2, SumSame
<1> QED
  BY <1>3, <1>4, <1>5 DEF more

\* Before the loops nothing is given,
LEMMA FilledInit == Init => FilesFilledInOrder
<1> SUFFICES ASSUME Init, SizesFit
             PROVE  FilesFilledInOrder
  BY DEF FilesFilledInOrder
<1>1. TypeOK
  BY TypeInit
<1>2. SizeOfFirst(0) = 0
  BY <1>1, SizesAdd
<1>3. totalBytes \in Nat /\ Len(fileItems) = 0
  BY <1>1, SizesTyped DEF Init
<1> QED
  BY <1>2, <1>3 DEF Init, FilesFilledInOrder

\* and each iteration gives the next file its part.
LEMMA FilledNext ==
    TypeOK /\ FilesFilledInOrder /\ [Next]_vars => FilesFilledInOrder'
<1> SUFFICES ASSUME TypeOK, FilesFilledInOrder, [Next]_vars, SizesFit'
             PROVE  FilesFilledInOrder'
  BY DEF FilesFilledInOrder
<1>1. sizes' = sizes /\ totalBytes' = totalBytes /\ currentSpeed' = currentSpeed
  BY DEF Next, AddSize, SizesDone, AddFile, Totals, vars, inputs
<1>2. SizesFit
  BY <1>1 DEF SizesFit, SizeOfFirst
<1>3. Half \in Int /\ Half > 0 /\ Len(sizes) \in Nat /\ k \in 0 .. Len(sizes)
      /\ (\A i \in 1 .. Len(sizes) : sizes[i] \in Nat)
      /\ totalBytes \in Nat /\ totalBytes < Half /\ currentSpeed \in Nat
      /\ totalSize \in Int /\ bytesRemaining \in Int /\ totalTransferred \in Int
  BY SizesTyped
<1>4. totalSize = SizeOfFirst(IF pc = "sizes" THEN k ELSE Len(sizes))
      /\ Len(fileItems) = IF pc = "sizes" THEN 0 ELSE k
  BY <1>2 DEF FilesFilledInOrder
<1>5. CASE AddSize
  <2>1. k + 1 \in 1 .. Len(sizes) /\ (k + 1) - 1 = k /\ k + 1 \in 0 .. Len(sizes) /\ pc = "sizes"
    BY <1>3, <1>5 DEF AddSize
  <2>2. totalSize' = Int64(SizeOfFirst(k) + sizes[k + 1])
    BY <1>2, <1>4, <1>5, <2>1, SizesKept DEF AddSize
  <2>3. SizeOfFirst(k + 1) = SizeOfFirst(k) + sizes[k + 1]
    BY <2>1, SizesAdd
  <2>4. totalSize' = SizeOfFirst(k + 1)
    <3>1. SizeOfFirst(k + 1) \in Int64s
      BY <1>2, <2>1, SizesKept
    <3> QED
      BY <1>3, <2>2, <2>3, <3>1, Int64Same
  <2>5. totalSize' = SizeOfFirst(IF pc = "sizes" THEN k ELSE Len(sizes))'
    BY <1>1, <1>5, <2>1, <2>4 DEF AddSize, SizeOfFirst
  <2> QED
    BY <1>1, <1>2, <1>5, <2>1, <2>5
    DEF AddSize, FilesFilledInOrder, SizeOfFirst
<1>6. CASE SizesDone
  <2>1. Len(fileItems) = 0 /\ SizeOfFirst(0) = 0
    BY <1>4, <1>6, SizesAdd DEF SizesDone
  <2> QED
    BY <1>1, <1>2, <1>6, <2>1 DEF SizesDone, FilesFilledInOrder, SizeOfFirst
<1>7. CASE AddFile
  <2> DEFINE size == sizes[k + 1]
             given == SizeOfFirst(k)
  <2>1. k + 1 \in 1 .. Len(sizes) /\ (k + 1) - 1 = k /\ k + 1 \in 0 .. Len(sizes)
        /\ pc = "files" /\ pc' = "files" /\ k' = k + 1
    BY <1>3, <1>7 DEF AddFile
  <2>2. Int64(size) = size /\ size \in Nat
    BY <1>2, <1>3, <2>1, SizesKept
  <2>3. /\ bytesRemaining' = Left(size)
        /\ totalTransferred' = Int64(totalTransferred + Transferred(size))
        /\ totalSize' = totalSize
    BY <1>7, <2>2 DEF AddFile
  <2>6. PICK progress \in Percents(Transferred(size), size), speed \in FileSpeeds(size) :
          fileItems' = Append(fileItems, [size |-> size, transferred |-> Transferred(size),
                                          progress |-> progress, speed |-> speed])
    BY <1>7, <2>2 DEF AddFile
  <2> DEFINE item == [size |-> size, transferred |-> Transferred(size),
                      progress |-> progress, speed |-> speed]
  <2>4. given \in Int64s /\ SizeOfFirst(k + 1) \in Int64s /\ SizeOfFirst(k + 1) = given + size
        /\ given \in Nat
    BY <1>2, <1>3, <2>1, SizesKept, SizesAdd
  <2>5. totalSize = SizeOfFirst(Len(sizes)) /\ Len(fileItems) = k
        /\ totalTransferred = (IF given < totalBytes THEN given ELSE totalBytes)
        /\ bytesRemaining = totalBytes - totalTransferred
    BY <1>2, <1>4, <2>1 DEF FilesFilledInOrder
  <2>7. \A i \in 1 .. k :
            /\ fileItems[i].transferred = Clamp(0, totalBytes - SizeOfFirst(i - 1), sizes[i])
            /\ fileItems[i].progress \in Percents(fileItems[i].transferred, sizes[i])
    BY <1>2, <2>5 DEF FilesFilledInOrder
  <2>8. fileItems \in Seq(FileItems) /\ fileItems' \in Seq(FileItems)
    BY TypeNext DEF TypeOK
  <2>15. fileItems' = Append(fileItems, item)
    BY <2>6
  <2>9. Len(fileItems') = k + 1 /\ fileItems'[k + 1] = item
        /\ \A i \in 1 .. k : fileItems'[i] = fileItems[i]
    <3> HIDE DEF item
    <3> QED
      BY <2>5, <2>8, <2>15
  <2>10. item \in FileItems
    BY <1>3, <2>8, <2>9
  <2>11. totalSize' = SizeOfFirst(IF pc = "sizes" THEN k ELSE Len(sizes))'
    BY <1>1, <2>1, <2>3, <2>5 DEF SizeOfFirst
  <2>12. Transferred(size) = Clamp(0, totalBytes - given, size)
    <3> HIDE DEF given, size
    <3> QED
      BY <1>3, <2>2, <2>4, <2>5 DEF Transferred, Clamp
  <2>13. totalTransferred' = IF given + size < totalBytes THEN given + size ELSE totalBytes
    <3> HIDE DEF given, size
    <3>1. totalTransferred + Transferred(size)
            = IF given + size < totalBytes THEN given + size ELSE totalBytes
      BY <1>3, <2>2, <2>4, <2>5 DEF Transferred
    <3>2. totalBytes \in Int64s
      BY <1>3 DEF Int64s
    <3>3. Int64(given + size) = given + size /\ Int64(totalBytes) = totalBytes
      BY <1>3, <2>4, <3>2, Int64Same
    <3> QED
      BY <2>3, <3>1, <3>3
  <2>14. bytesRemaining' = totalBytes - totalTransferred'
    <3> HIDE DEF given, size
    <3>1. CASE bytesRemaining >= size
      <4>1. bytesRemaining - size \in Int64s
        BY <1>3, <2>2, <2>4, <2>5, <3>1 DEF Int64s
      <4>2. Left(size) = bytesRemaining - size
        BY <1>3, <3>1, <4>1, Int64Same DEF Left
      <4> QED
        BY <1>3, <2>2, <2>3, <2>4, <2>5, <2>13, <3>1, <4>2
    <3>2. CASE ~(bytesRemaining >= size)
      BY <1>3, <2>2, <2>3, <2>4, <2>5, <2>13, <3>2 DEF Left
    <3> QED
      BY <3>1, <3>2
  <2>16. \A i \in 1 .. k + 1 :
            /\ fileItems'[i].transferred = Clamp(0, totalBytes - SizeOfFirst(i - 1), sizes[i])
            /\ fileItems'[i].progress \in Percents(fileItems'[i].transferred, sizes[i])
    <3> SUFFICES ASSUME NEW i \in 1 .. k + 1
                 PROVE  /\ fileItems'[i].transferred
                             = Clamp(0, totalBytes - SizeOfFirst(i - 1), sizes[i])
                        /\ fileItems'[i].progress \in Percents(fileItems'[i].transferred, sizes[i])
      OBVIOUS
    <3>1. CASE i = k + 1
      BY <2>1, <2>6, <2>9, <2>12, <3>1
    <3>2. CASE i # k + 1
      <4>1. i \in 1 .. k
        BY <1>3, <3>2
      <4> QED
        BY <2>7, <2>9, <4>1
    <3> QED
      BY <3>1, <3>2
  <2>17. SizeOfFirst(Len(fileItems))' = given + size
    BY <1>1, <2>4, <2>9 DEF SizeOfFirst
  <2>18. \A i \in Int : SizeOfFirst(i)' = SizeOfFirst(i)
    BY <1>1 DEF SizeOfFirst
  <2> HIDE DEF given, size, item
  <2>19. LET sent == SizeOfFirst(Len(fileItems))' IN
            /\ totalTransferred' = IF sent < totalBytes' THEN sent ELSE totalBytes'
            /\ bytesRemaining' = totalBytes' - totalTransferred'
    BY <1>1, <2>13, <2>14, <2>17
  <2>20. \A i \in 1 .. Len(fileItems') :
            /\ fileItems'[i].transferred = Clamp(0, totalBytes' - SizeOfFirst(i - 1)', sizes'[i])
            /\ fileItems'[i].progress \in Percents(fileItems'[i].transferred, sizes'[i])
    BY <1>1, <2>9, <2>16, <2>18
  <2>21. Len(fileItems') = IF pc' = "sizes" THEN 0 ELSE k'
    BY <2>1, <2>9
  <2> QED
    BY <2>1, <2>11, <2>19, <2>20, <2>21 DEF FilesFilledInOrder
<1>8. CASE Totals
  BY <1>1, <1>2, <1>8 DEF Totals, FilesFilledInOrder, SizeOfFirst
<1>9. CASE UNCHANGED vars
  BY <1>1, <1>2, <1>9 DEF vars, inputs, FilesFilledInOrder, SizeOfFirst
<1> QED
  BY <1>5, <1>6, <1>7, <1>8, <1>9 DEF Next

LEMMA FilledAlways == Spec => [](TypeOK /\ FilesFilledInOrder)
<1>1. Init => TypeOK /\ FilesFilledInOrder
  BY TypeInit, FilledInit
<1>2. TypeOK /\ FilesFilledInOrder /\ [Next]_vars => (TypeOK /\ FilesFilledInOrder)'
  BY TypeNext, FilledNext
<1> QED
  BY <1>1, <1>2, PTL DEF Spec

\* The two loops of buildProgressPayload do what a formula says: of sizes that
\* fit, file i has got Clamp(0, totalBytes - sizes before it, its size).
THEOREM FilledInOrder == Spec => []FilesFilledInOrder
  BY FilledAlways, PTL
-----------------------------------------------------------------------------
\* What the invariant says of one file
LEMMA FilledFacts ==
    ASSUME TypeOK, FilesFilledInOrder, SizesFit
    PROVE  /\ Len(fileItems) \in 0 .. Len(sizes)
           /\ pc = "done" => Len(fileItems) = Len(sizes)
           /\ \A i \in 1 .. Len(fileItems) :
                /\ i \in 1 .. Len(sizes) /\ sizes[i] \in Nat
                /\ SizeOfFirst(i - 1) \in Nat
                /\ fileItems[i].transferred = Clamp(0, totalBytes - SizeOfFirst(i - 1), sizes[i])
                /\ fileItems[i].progress \in Percents(fileItems[i].transferred, sizes[i])
<1>1. Len(sizes) \in Nat /\ k \in 0 .. Len(sizes)
      /\ \A i \in 1 .. Len(sizes) : sizes[i] \in Nat
  BY SizesTyped
<1>2. /\ Len(fileItems) = IF pc = "sizes" THEN 0 ELSE k
      /\ \A i \in 1 .. Len(fileItems) :
            /\ fileItems[i].transferred = Clamp(0, totalBytes - SizeOfFirst(i - 1), sizes[i])
            /\ fileItems[i].progress \in Percents(fileItems[i].transferred, sizes[i])
      /\ pc = "done" => k = Len(sizes)
  BY DEF FilesFilledInOrder
<1>3. Len(fileItems) \in 0 .. Len(sizes) /\ (pc = "done" => Len(fileItems) = Len(sizes))
  BY <1>1, <1>2
<1>4. ASSUME NEW i \in 1 .. Len(fileItems)
      PROVE  i \in 1 .. Len(sizes) /\ sizes[i] \in Nat /\ SizeOfFirst(i - 1) \in Nat
  <2>1. i \in 1 .. Len(sizes) /\ i - 1 \in 0 .. Len(sizes)
    BY <1>1, <1>3
  <2> QED
    BY <1>1, <2>1, SizesAdd
<1> QED
  BY <1>2, <1>3, <1>4

\* The frames before the contents of a file take a number of bytes.
LEMMA FramesCount ==
    ASSUME NEW i \in Nat
    PROVE  i * FrameLength \in Nat /\ HeaderLength \in Nat
BY CalcAssumption

\* What a file gets of the bytes with and without the frames
LEMMA FramesClamped ==
    ASSUME NEW bytes \in Nat, NEW header \in Nat, NEW frames \in Nat, NEW before \in Nat,
           NEW size \in Nat
    PROVE  /\ Clamp(0, bytes - header - frames - before, size) <= Clamp(0, bytes - before, size)
           /\ Clamp(0, bytes - before, size)
                <= Clamp(0, bytes - header - frames - before, size) + header + frames
BY DEF Clamp

\* The invariant implies the properties: no file is underreported,
LEMMA FilledNeverUnder == TypeOK /\ FilesFilledInOrder => NeverUnderreported
<1> SUFFICES ASSUME TypeOK, FilesFilledInOrder, SizesFit, NEW i \in 1 .. Len(fileItems)
             PROVE  /\ ContentSent(i) <= fileItems[i].transferred
                    /\ fileItems[i].transferred > 0 =>
                          \A j \in 1 .. i - 1 : fileItems[j].transferred = sizes[j]
  BY DEF NeverUnderreported
<1>1. Len(sizes) \in Nat /\ totalBytes \in Nat
  BY SizesTyped
<1>2. /\ i \in 1 .. Len(sizes) /\ sizes[i] \in Nat /\ SizeOfFirst(i - 1) \in Nat
      /\ fileItems[i].transferred = Clamp(0, totalBytes - SizeOfFirst(i - 1), sizes[i])
  BY FilledFacts
<1>3. ContentSent(i) <= fileItems[i].transferred
  <2>1. i * FrameLength \in Nat /\ HeaderLength \in Nat
    BY <1>2, FramesCount
  <2> DEFINE frames == i * FrameLength
             before == SizeOfFirst(i - 1)
  <2>2. ContentSent(i) = Clamp(0, totalBytes - HeaderLength - frames - before, sizes[i])
    BY DEF ContentSent
  <2> HIDE DEF frames, before
  <2>3. frames \in Nat /\ before \in Nat
    BY <1>2, <2>1 DEF frames, before
  <2>4. fileItems[i].transferred = Clamp(0, totalBytes - before, sizes[i])
    BY <1>2 DEF before
  <2>5. Clamp(0, totalBytes - HeaderLength - frames - before, sizes[i])
          <= Clamp(0, totalBytes - before, sizes[i])
    BY <1>1, <1>2, <2>1, <2>3, FramesClamped, Zenon
  <2> QED
    BY <2>2, <2>4, <2>5
<1>4. ASSUME fileItems[i].transferred > 0, NEW j \in 1 .. i - 1
      PROVE  fileItems[j].transferred = sizes[j]
  <2>1. totalBytes > SizeOfFirst(i - 1)
    BY <1>1, <1>2, <1>4 DEF Clamp
  <2>2. j \in 1 .. Len(fileItems) /\ j \in 1 .. Len(sizes)
        /\ j \in 0 .. i - 1 /\ i - 1 \in 0 .. Len(sizes)
    BY <1>1, <1>2, <1>4
  <2>3. SizeOfFirst(j) <= SizeOfFirst(i - 1) /\ SizeOfFirst(j) = SizeOfFirst(j - 1) + sizes[j]
    BY <2>2, SizesAdd
  <2>4. sizes[j] \in Nat /\ SizeOfFirst(j - 1) \in Nat
        /\ fileItems[j].transferred = Clamp(0, totalBytes - SizeOfFirst(j - 1), sizes[j])
    BY <2>2, FilledFacts
  <2> QED
    BY <1>1, <1>2, <2>1, <2>3, <2>4 DEF Clamp
<1> QED
  BY <1>3, <1>4

\* none is ahead by more than the frames,
LEMMA FilledFraming == TypeOK /\ FilesFilledInOrder => OverreportIsFraming
<1> SUFFICES ASSUME TypeOK, FilesFilledInOrder, SizesFit, NEW i \in 1 .. Len(fileItems)
             PROVE  fileItems[i].transferred <= ContentSent(i) + HeaderLength + i * FrameLength
  BY DEF OverreportIsFraming
<1>1. Len(sizes) \in Nat /\ totalBytes \in Nat
  BY SizesTyped
<1>2. /\ i \in 1 .. Len(sizes) /\ sizes[i] \in Nat /\ SizeOfFirst(i - 1) \in Nat
      /\ fileItems[i].transferred = Clamp(0, totalBytes - SizeOfFirst(i - 1), sizes[i])
  BY FilledFacts
<1> DEFINE frames == i * FrameLength
           before == SizeOfFirst(i - 1)
<1>3. ContentSent(i) = Clamp(0, totalBytes - HeaderLength - frames - before, sizes[i])
  BY DEF ContentSent
<1>4. frames \in Nat /\ before \in Nat /\ HeaderLength \in Nat
  BY <1>2, FramesCount
<1>5. fileItems[i].transferred = Clamp(0, totalBytes - before, sizes[i])
  BY <1>2
<1> HIDE DEF frames, before
<1>6. Clamp(0, totalBytes - before, sizes[i])
        <= Clamp(0, totalBytes - HeaderLength - frames - before, sizes[i]) + HeaderLength + frames
  BY <1>1, <1>2, <1>4, FramesClamped, Zenon
<1>7. fileItems[i].transferred <= ContentSent(i) + HeaderLength + frames
  BY <1>3, <1>5, <1>6, Zenon
<1> QED
  BY <1>7 DEF frames

\* and the percentages agree.
LEMMA FilledTotal == TypeOK /\ FilesFilledInOrder => TotalAgreesWithFiles
<1> SUFFICES ASSUME TypeOK, FilesFilledInOrder, SizesFit, pc = "done"
             PROVE  /\ totalProgress \in 0 .. 100
                    /\ totalProgress = 100 /\ totalSize <= Accuracy =>
                        \A i \in 1 .. Len(fileItems) : sizes[i] > 0 => fileItems[i].progress = 100
  BY DEF TotalAgreesWithFiles
<1>1. Len(sizes) \in Nat /\ totalBytes \in Nat
  BY SizesTyped
<1>2. Len(fileItems) = Len(sizes) /\ Len(sizes) \in 0 .. Len(sizes)
  BY <1>1, FilledFacts
<1>3. /\ totalSize = SizeOfFirst(Len(sizes)) /\ totalSize \in Nat
      /\ totalTransferred = (IF totalSize < totalBytes THEN totalSize ELSE totalBytes)
      /\ totalProgress \in Percents(totalTransferred, totalSize)
  BY <1>2, SizesAdd DEF FilesFilledInOrder
<1>4. totalTransferred \in Nat
  BY <1>1, <1>3
<1>5. CASE totalSize = 0
  BY <1>3, <1>5 DEF Percents
<1>6. CASE totalSize > 0
  <2>1. totalProgress \in 0 .. 100 /\ (totalProgress = 100 /\ totalSize <= Accuracy => totalTransferred >= totalSize)
    BY <1>3, <1>4, <1>6, PercentFull
  <2>2. ASSUME totalProgress = 100, totalSize <= Accuracy, NEW i \in 1 .. Len(fileItems), sizes[i] > 0
        PROVE  fileItems[i].progress = 100
    <3>1. totalBytes >= totalSize
      BY <1>1, <1>3, <2>1, <2>2
    <3>2. /\ i \in 1 .. Len(sizes) /\ sizes[i] \in Nat /\ SizeOfFirst(i - 1) \in Nat
          /\ fileItems[i].transferred = Clamp(0, totalBytes - SizeOfFirst(i - 1), sizes[i])
          /\ fileItems[i].progress \in Percents(fileItems[i].transferred, sizes[i])
      BY FilledFacts
    <3>3. i \in 0 .. Len(sizes)
      BY <1>1, <3>2
    <3>4. SizeOfFirst(i) <= totalSize /\ SizeOfFirst(i) = SizeOfFirst(i - 1) + sizes[i]
      BY <1>2, <1>3, <3>2, <3>3, SizesAdd
    <3>5. fileItems[i].transferred = sizes[i]
      BY <1>1, <1>3, <3>1, <3>2, <3>4 DEF Clamp
    <3> QED
      BY <2>2, <3>2, <3>5, PercentFull
  <2> QED
    BY <2>1, <2>2
<1> QED
  BY <1>3, <1>5, <1>6

\* For sizes that fit an int64, buildProgressPayload reports no file with fewer
\* bytes than the stream has sent of it, and starts no file before the files in
\* front of it are complete: the order in which the transfer sends them.
THEOREM ReportedInOrder == Spec => []NeverUnderreported
  BY FilledAlways, FilledNeverUnder, PTL

\* A file is reported ahead of what the stream has sent of it by no more than the
\* header and the frames, which CountingStream counts with the contents.
THEOREM AheadByFramesOnly == Spec => []OverreportIsFraming
  BY FilledAlways, FilledFraming, PTL

\* The percentage of the whole that buildProgressPayload reports lies between 0
\* and 100, and at 100 so does that of every file that is not empty.
THEOREM TotalsAgree == Spec => []TotalAgreesWithFiles
  BY FilledAlways, FilledTotal, PTL
-----------------------------------------------------------------------------
\* Of sizes that fit, the speeds reported of the first files share the current
\* one as their sizes share the total, up to one part in Accuracy.
SpeedsShared ==
    SizesFit =>
        IF totalSize > 0 /\ pc # "sizes"
        THEN Accuracy * (totalSize * SpeedOfFirst(Len(fileItems)))
               <= (Accuracy + 1) * (currentSpeed * SizeOfFirst(Len(fileItems)))
        ELSE SpeedOfFirst(Len(fileItems)) = 0

LEMMA SharedInit == Init => SpeedsShared
<1> SUFFICES ASSUME Init
             PROVE  SpeedOfFirst(Len(fileItems)) = 0
  BY DEF Init, SpeedsShared
<1>1. Len(fileItems) = 0
  BY DEF Init
<1> QED
  BY <1>1, SumStep DEF SpeedOfFirst

\* No share of nothing
LEMMA TimesZero ==
    ASSUME NEW n \in Int
    PROVE  n * 0 = 0
OBVIOUS

\* The share of one more file
LEMMA ShareOfFile ==
    ASSUME NEW speed \in Nat, NEW size \in Nat, NEW total \in Nat \ {0},
           NEW n \in Truncated(speed * size, total), NEW m \in Int, n >= 0 => m <= n
    PROVE  Accuracy * (total * m) <= (Accuracy + 1) * (speed * size)
<1> DEFINE share == speed * size
<1>1. share \in Nat
  OBVIOUS
<1>2. Accuracy \in Nat \ {0}
  BY AccuracyAssumption
<1> HIDE DEF share
<1>3. n \in WholeParts(share, total)
  BY <1>1 DEF Truncated, share
<1>4. n \in Nat /\ Accuracy * (total * n) <= (Accuracy + 1) * share
  BY <1>1, <1>3, WholePartsBounds
<1>5. total * m <= total * n /\ total * m \in Int /\ total * n \in Int
  BY <1>4
<1> DEFINE x == total * m
           y == total * n
<1> HIDE DEF x, y
<1>6. Accuracy * x <= Accuracy * y
  BY <1>2, <1>5 DEF x, y
<1>7. Accuracy * x \in Int /\ Accuracy * y \in Int /\ (Accuracy + 1) * share \in Int
  BY <1>1, <1>2, <1>5 DEF x, y
<1>8. Accuracy * y <= (Accuracy + 1) * share
  BY <1>4 DEF y
<1>9. Accuracy * x <= (Accuracy + 1) * share
  BY <1>6, <1>7, <1>8
<1> QED
  BY <1>9 DEF x, share

\* keeps the shares in proportion.
LEMMA SharedNext ==
    TypeOK /\ FilesFilledInOrder /\ SpeedsShared /\ [Next]_vars => SpeedsShared'
<1> SUFFICES ASSUME TypeOK, FilesFilledInOrder, SpeedsShared, [Next]_vars, SizesFit'
             PROVE  SpeedsShared'
  BY DEF SpeedsShared
<1>1. sizes' = sizes /\ currentSpeed' = currentSpeed
  BY DEF Next, AddSize, SizesDone, AddFile, Totals, vars, inputs
<1>2. SizesFit
  BY <1>1 DEF SizesFit, SizeOfFirst
<1>3. Half \in Int /\ Half > 0 /\ Len(sizes) \in Nat /\ k \in 0 .. Len(sizes)
      /\ (\A i \in 1 .. Len(sizes) : sizes[i] \in Nat)
      /\ currentSpeed \in Nat /\ totalSize \in Int
  BY SizesTyped
<1>4. Len(fileItems) = IF pc = "sizes" THEN 0 ELSE k
  BY <1>2 DEF FilesFilledInOrder
<1>5. CASE AddSize \/ SizesDone
  <2>1. Len(fileItems) = 0 /\ fileItems' = fileItems
    BY <1>4, <1>5 DEF AddSize, SizesDone
  <2>2. SpeedOfFirst(Len(fileItems))' = 0
    BY <2>1, SumStep DEF SpeedOfFirst
  <2>3. SizeOfFirst(Len(fileItems))' = 0
    BY <2>1, SumStep DEF SizeOfFirst
  <2>4. Accuracy * (totalSize' * 0) <= (Accuracy + 1) * (currentSpeed' * 0)
    <3>1. totalSize' \in Int /\ currentSpeed' \in Int
      BY <1>1, <1>3, TypeNext DEF TypeOK, Int64s
    <3>2. totalSize' * 0 = 0 /\ currentSpeed' * 0 = 0
      BY <3>1, TimesZero
    <3>3. Accuracy * 0 <= (Accuracy + 1) * 0
      BY AccuracyAssumption
    <3> QED
      BY <3>2, <3>3, Zenon
  <2>5. Accuracy * (totalSize' * SpeedOfFirst(Len(fileItems))')
          <= (Accuracy + 1) * (currentSpeed' * SizeOfFirst(Len(fileItems))')
    BY <2>2, <2>3, <2>4, Zenon
  <2> QED
    BY <2>2, <2>5, Zenon DEF SpeedsShared
<1>6. CASE AddFile
  <2> DEFINE size == sizes[k + 1]
             given == SizeOfFirst(k)
             sum == SpeedOfFirst(k)
  <2>1. k + 1 \in 1 .. Len(sizes) /\ (k + 1) - 1 = k
        /\ pc = "files" /\ pc' = "files" /\ totalSize' = totalSize
    BY <1>3, <1>6 DEF AddFile
  <2>2. Int64(size) = size /\ size \in Nat
    BY <1>2, <1>3, <2>1, SizesKept
  <2>3. PICK progress \in Percents(Transferred(size), size), speed \in FileSpeeds(size) :
          fileItems' = Append(fileItems, [size |-> size, transferred |-> Transferred(size),
                                          progress |-> progress, speed |-> speed])
    BY <1>6, <2>2 DEF AddFile
  <2> DEFINE item == [size |-> size, transferred |-> Transferred(size),
                      progress |-> progress, speed |-> speed]
  <2>4. fileItems' = Append(fileItems, item) /\ item.speed = speed
    BY <2>3
  <2>5. SizeOfFirst(k + 1) = given + size /\ given \in Nat
    BY <1>3, <2>1, SizesAdd
  <2> HIDE DEF item
  <2>6. fileItems \in Seq(FileItems) /\ fileItems' \in Seq(FileItems) /\ Len(fileItems) = k
    BY <1>4, <2>1, TypeNext DEF TypeOK
  <2>7. Len(fileItems') = k + 1 /\ fileItems'[k + 1] = item
    BY <2>4, <2>6
  <2>8. item \in FileItems
    BY <1>3, <2>6, <2>7
  <2>9. sum \in Int
    BY <2>6, SpeedsTyped DEF SpeedOfFirst, SpeedsOf
  <2>10. SpeedOfFirst(Len(fileItems))' = sum + speed
    <3>1. SpeedOfFirst(Len(fileItems))' = SumOfFirst(SpeedsOf(Append(fileItems, item)), k + 1)
      BY <2>4, <2>7 DEF SpeedOfFirst, SpeedsOf
    <3>2. sum = SumOfFirst(SpeedsOf(fileItems), k)
      BY DEF SpeedOfFirst, SpeedsOf
    <3> QED
      BY <2>4, <2>6, <2>8, <3>1, <3>2, SpeedsAppend
  <2>11. SizeOfFirst(Len(fileItems))' = given + size
    BY <1>1, <2>5, <2>7 DEF SizeOfFirst
  <2>12. IF totalSize > 0
         THEN Accuracy * (totalSize * sum) <= (Accuracy + 1) * (currentSpeed * given)
         ELSE sum = 0
    BY <1>2, <2>1, <2>6 DEF SpeedsShared
  <2> HIDE DEF sum, given, size
  <2>13. CASE totalSize > 0
    <3>1. PICK n \in Truncated(currentSpeed * size, totalSize) : speed \in Int64OfFloat(n)
      BY <2>3, <2>13 DEF FileSpeeds
    <3>2. totalSize \in Nat \ {0}
      BY <1>3, <2>13
    <3>3. currentSpeed * size \in Int
      BY <1>3, <2>2
    <3>4. n \in Int
      BY <3>2, <3>3, TruncatedTyped
    <3>5. speed \in Int /\ (n >= 0 => speed <= n)
      BY <1>3, <3>1, <3>4, FloatConverted
    <3>6. Accuracy * (totalSize * speed) <= (Accuracy + 1) * (currentSpeed * size)
      BY <1>3, <2>2, <3>2, <3>5, ShareOfFile
    <3>7. Accuracy \in Nat
      BY AccuracyAssumption
    <3>8. Accuracy * (totalSize * (sum + speed))
            = Accuracy * (totalSize * sum) + Accuracy * (totalSize * speed)
      BY <2>9, <3>2, <3>5, <3>7
    <3>9. (Accuracy + 1) * (currentSpeed * (given + size))
            = (Accuracy + 1) * (currentSpeed * given) + (Accuracy + 1) * (currentSpeed * size)
      BY <1>3, <2>2, <2>5, <3>7
    <3>10. /\ Accuracy * (totalSize * sum) \in Int /\ Accuracy * (totalSize * speed) \in Int
           /\ (Accuracy + 1) * (currentSpeed * given) \in Int
           /\ (Accuracy + 1) * (currentSpeed * size) \in Int
      BY <1>3, <2>2, <2>5, <2>9, <3>2, <3>5, <3>7
    <3>11. Accuracy * (totalSize * (sum + speed))
             <= (Accuracy + 1) * (currentSpeed * (given + size))
      BY <2>12, <2>13, <3>6, <3>8, <3>9, <3>10
    <3> QED
      BY <1>1, <2>1, <2>10, <2>11, <2>13, <3>11 DEF SpeedsShared
  <2>14. CASE ~(totalSize > 0)
    <3>1. speed = 0
      BY <2>3, <2>14 DEF FileSpeeds
    <3> QED
      BY <2>1, <2>9, <2>10, <2>12, <2>14, <3>1 DEF SpeedsShared
  <2> QED
    BY <2>13, <2>14
<1>7. CASE Totals
  <2>1. totalSize' = totalSize /\ fileItems' = fileItems /\ pc = "files" /\ pc' = "done"
    BY <1>7 DEF Totals
  <2> QED
    BY <1>1, <1>2, <2>1 DEF SpeedsShared, SizeOfFirst, SpeedOfFirst
<1>8. CASE UNCHANGED vars
  BY <1>1, <1>2, <1>8 DEF vars, inputs, SpeedsShared, SizeOfFirst, SpeedOfFirst
<1> QED
  BY <1>5, <1>6, <1>7, <1>8 DEF Next

\* The shares of files that make up the total make no more than the whole.
LEMMA SharedSum == TypeOK /\ FilesFilledInOrder /\ SpeedsShared => SpeedsAddUp
<1> SUFFICES ASSUME TypeOK, FilesFilledInOrder, SpeedsShared, SizesFit
             PROVE  SpeedOfFirst(Len(fileItems)) <= currentSpeed + currentSpeed \div Accuracy
  BY DEF SpeedsAddUp
<1> DEFINE sum == SpeedOfFirst(Len(fileItems))
           given == SizeOfFirst(Len(fileItems))
           slack == currentSpeed \div Accuracy
<1>1. Len(sizes) \in Nat /\ currentSpeed \in Nat /\ totalSize \in Int
  BY SizesTyped
<1>2. sum \in Int
  BY SpeedsTyped DEF TypeOK, SpeedOfFirst, SpeedsOf
<1>3. Len(fileItems) \in 0 .. Len(sizes) /\ Len(sizes) \in 0 .. Len(sizes)
  BY <1>1, FilledFacts
<1>4. given \in Nat /\ SizeOfFirst(Len(sizes)) \in Nat /\ given <= SizeOfFirst(Len(sizes))
  BY <1>3, SizesAdd
<1>5. /\ totalSize = SizeOfFirst(IF pc = "sizes" THEN k ELSE Len(sizes))
      /\ IF totalSize > 0 /\ pc # "sizes"
         THEN Accuracy * (totalSize * sum) <= (Accuracy + 1) * (currentSpeed * given)
         ELSE sum = 0
  BY DEF FilesFilledInOrder, SpeedsShared
<1>6. Accuracy \in Nat \ {0} /\ Accuracy \in Int /\ Accuracy > 0 /\ currentSpeed \in Int
  BY <1>1, AccuracyAssumption
<1>7. slack \in Int /\ \A y \in Int : Accuracy * y <= currentSpeed <=> y <= slack
  BY <1>6, DivMod, DivOrder
<1> HIDE DEF sum, given, slack
<1>8. CASE totalSize > 0 /\ pc # "sizes"
  <2>1. given <= totalSize
    BY <1>4, <1>5, <1>8
  <2> DEFINE x == currentSpeed * given
             y == currentSpeed * totalSize
             a == Accuracy * sum
             b == (Accuracy + 1) * currentSpeed
  <2>2. x \in Int /\ y \in Int /\ x <= y /\ a \in Int /\ b \in Int
    BY <1>1, <1>2, <1>4, <1>6, <2>1
  <2>3. Accuracy * (totalSize * sum) = totalSize * a /\ (Accuracy + 1) * y = totalSize * b
    BY <1>1, <1>2, <1>6
  <2>4. (Accuracy + 1) * x <= (Accuracy + 1) * y
    <3> HIDE DEF x, y
    <3> QED
      BY <1>6, <2>2
  <2>5. totalSize * a <= (Accuracy + 1) * x
    BY <1>5, <1>8, <2>3
  <2>6. Accuracy * (sum - currentSpeed) = a - Accuracy * currentSpeed
        /\ b = Accuracy * currentSpeed + currentSpeed /\ Accuracy * currentSpeed \in Int
    BY <1>1, <1>2, <1>6
  <2>7. (Accuracy + 1) * x \in Int /\ (Accuracy + 1) * y \in Int
        /\ totalSize * a \in Int /\ totalSize * b \in Int
    <3> HIDE DEF x, y, a, b
    <3> QED
      BY <1>1, <1>6, <2>2
  <2> HIDE DEF x, y, a, b
  <2>8. totalSize * a <= totalSize * b
    BY <2>3, <2>4, <2>5, <2>7
  <2>9. a <= b
    BY <1>1, <1>8, <2>2, <2>8
  <2>10. Accuracy * (sum - currentSpeed) <= currentSpeed
    BY <1>1, <2>2, <2>6, <2>9
  <2>11. sum - currentSpeed <= slack
    BY <1>1, <1>2, <1>7, <2>10
  <2> QED
    BY <1>1, <1>2, <1>7, <2>11 DEF sum, slack
<1>9. CASE ~(totalSize > 0 /\ pc # "sizes")
  <2>1. Accuracy * 0 <= currentSpeed
    BY <1>1, <1>6
  <2>2. 0 <= slack
    BY <1>7, <2>1
  <2> QED
    BY <1>1, <1>5, <1>7, <1>9, <2>2 DEF sum, slack
<1> QED
  BY <1>8, <1>9

\* The speeds of the files, each computed in float64 and cut to an int64, add up
\* to no more than the current speed of the stream they are shares of and one
\* part in Accuracy of it.
THEOREM SpeedsBounded == Spec => []SpeedsAddUp
<1>1. Init => TypeOK /\ FilesFilledInOrder /\ SpeedsShared
  BY TypeInit, FilledInit, SharedInit
<1>2. TypeOK /\ FilesFilledInOrder /\ SpeedsShared /\ [Next]_vars
        => (TypeOK /\ FilesFilledInOrder /\ SpeedsShared)'
  BY TypeNext, FilledNext, SharedNext
<1> QED
  BY <1>1, <1>2, SharedSum, PTL DEF Spec
=============================================================================
