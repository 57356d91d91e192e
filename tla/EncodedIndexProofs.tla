------------------------- MODULE EncodedIndexProofs -------------------------
(***************************************************************************)
(* The key encoders and the index over the keys they make.                 *)
(* First the encoders, for every Base and every row of columns: what each  *)
(* encoder writes it reads back, or another value of the same key;         *)
(* compareBytes orders the keys totally; and where the numbers are not     *)
(* negative the order of keys is that of values.                           *)
(* Then the index, for any callers and any number of inserts: the          *)
(* partitions' bounds are chained, the leaves sorted, within their bounds  *)
(* and complete, as long as the encoders keep the values whole.  Every     *)
(* invariant that EncodedIndex states follows, and that it implements      *)
(* PartitionedIndex.                                                       *)
(***************************************************************************)
EXTENDS EncodedIndex, SequenceLemmas

\* The powers of b.
Powers(h, b, n) ==
  /\ h \in [0 .. n -> Nat]
  /\ h[0] = 1
  /\ \A i \in 1 .. n : h[i] = h[i - 1] * b

\* Power is what its recursion says.
LEMMA PowersExist ==
  ASSUME NEW b \in Nat, NEW n \in Nat
  PROVE  \E h : Powers(h, b, n) /\ Power(b, n) = h[n]
<1> DEFINE g == [i \in 1 .. n |-> [t \in Nat |-> t * b]]
<1>1. Steps(g, n, Nat)
  BY DEF Steps
<1>2. \A i \in 1 .. n : \A t \in Nat : g[i][t] = t * b
  OBVIOUS
<1> HIDE DEF g
<1>3. PICK f : Iterates(f, g, n, Nat, 1)
  BY <1>1, Recursion
<1>4. f = [i \in 0 .. n |-> IF i = 0 THEN 1 ELSE f[i - 1] * b]
  <2>1. f \in [0 .. n -> Nat] /\ f[0] = 1
    BY <1>3 DEF Iterates
  <2>2. ASSUME NEW i \in 1 .. n PROVE f[i] = f[i - 1] * b
    <3>1. f[i] = g[i][f[i - 1]] /\ f[i - 1] \in Nat
      BY <1>3 DEF Iterates
    <3> QED
      BY <1>2, <3>1
  <2> QED
    BY <2>1, <2>2
<1>5. PICK h : /\ h = [i \in 0 .. n |-> IF i = 0 THEN 1 ELSE h[i - 1] * b]
               /\ Power(b, n) = h[n]
  BY <1>4 DEF Power
<1>6. h[0] = 1 /\ \A i \in 1 .. n : h[i] = h[i - 1] * b
  BY <1>5
<1> DEFINE T == {i \in 0 .. n : h[i] \in Nat}
<1>7. 0 \in T
  BY <1>6
<1>8. \A i \in 0 .. n - 1 : i \in T => i + 1 \in T
  BY <1>6
<1> HIDE DEF T
<1>9. \A i \in 0 .. n : i \in T
  BY <1>7, <1>8, UpTo
<1>10. h \in [0 .. n -> Nat]
  BY <1>5, <1>9 DEF T
<1> QED
  BY <1>5, <1>6, <1>10 DEF Powers

\* What is left of v without its last digits.
Shifts(h, v, b, n) ==
  /\ h \in [0 .. n -> Int]
  /\ h[0] = v
  /\ \A i \in 1 .. n : h[i] = h[i - 1] \div b

\* So is Shifted.
LEMMA ShiftsExist ==
  ASSUME NEW v \in Int, NEW b \in Nat, b > 0, NEW n \in Nat
  PROVE  \E h : Shifts(h, v, b, n) /\ Shifted(v, b, n) = h
<1> DEFINE g == [i \in 1 .. n |-> [t \in Int |-> t \div b]]
<1>1. Steps(g, n, Int)
  BY DEF Steps
<1>2. \A i \in 1 .. n : \A t \in Int : g[i][t] = t \div b
  OBVIOUS
<1> HIDE DEF g
<1>3. PICK f : Iterates(f, g, n, Int, v)
  BY <1>1, Recursion
<1>4. f = [i \in 0 .. n |-> IF i = 0 THEN v ELSE f[i - 1] \div b]
  <2>1. f \in [0 .. n -> Int] /\ f[0] = v
    BY <1>3 DEF Iterates
  <2>2. ASSUME NEW i \in 1 .. n PROVE f[i] = f[i - 1] \div b
    <3>1. f[i] = g[i][f[i - 1]] /\ f[i - 1] \in Int
      BY <1>3 DEF Iterates
    <3> QED
      BY <1>2, <3>1
  <2> QED
    BY <2>1, <2>2
<1>5. PICK h : /\ h = [i \in 0 .. n |-> IF i = 0 THEN v ELSE h[i - 1] \div b]
               /\ Shifted(v, b, n) = h
  BY <1>4 DEF Shifted
<1>6. h[0] = v /\ \A i \in 1 .. n : h[i] = h[i - 1] \div b
  BY <1>5
<1> DEFINE T == {i \in 0 .. n : h[i] \in Int}
<1>7. 0 \in T
  BY <1>6
<1>8. \A i \in 0 .. n - 1 : i \in T => i + 1 \in T
  BY <1>6
<1> HIDE DEF T
<1>9. \A i \in 0 .. n : i \in T
  BY <1>7, <1>8, UpTo
<1>10. h \in [0 .. n -> Int]
  BY <1>5, <1>9 DEF T
<1> QED
  BY <1>5, <1>6, <1>10 DEF Shifts

\* The numbers that the first digits stand for.
Numbers(h, d, b, n) ==
  /\ h \in [0 .. n -> Int]
  /\ h[0] = 0
  /\ \A i \in 1 .. n : h[i] = h[i - 1] * b + d[i]

\* Digits can be added up one by one.
LEMMA NumbersIterate ==
  ASSUME NEW b \in Nat, NEW n \in Nat, NEW d, \A i \in 1 .. n : d[i] \in Int
  PROVE  \E f : Numbers(f, d, b, n)
<1> DEFINE g == [i \in 1 .. n |-> [t \in Int |-> t * b + d[i]]]
<1>1. ASSUME NEW i \in 1 .. n, NEW t \in Int
      PROVE  g[i][t] = t * b + d[i] /\ g[i][t] \in Int
  OBVIOUS
<1> HIDE DEF g
<1>2. Steps(g, n, Int)
  BY <1>1 DEF Steps
<1>3. PICK f : Iterates(f, g, n, Int, 0)
  BY <1>2, Recursion, 0 \in Int
<1>4. ASSUME NEW i \in 1 .. n PROVE f[i] = f[i - 1] * b + d[i]
  <2>1. f[i] = g[i][f[i - 1]] /\ f[i - 1] \in Int
    BY <1>3 DEF Iterates
  <2> QED
    BY <1>1, <2>1
<1> QED
  BY <1>3, <1>4 DEF Iterates, Numbers

\* Number does that.
LEMMA NumbersExist ==
  ASSUME NEW d \in Seq(Int), NEW b \in Nat, NEW n \in Nat, n = Len(d)
  PROVE  \E h : Numbers(h, d, b, n) /\ Number(d, b) = h[n]
<1>1. \A i \in 1 .. n : d[i] \in Int
  BY ElementOfSeq
<1>2. PICK f : Numbers(f, d, b, n)
  BY <1>1, NumbersIterate
<1>3. f = [i \in 0 .. n |-> IF i = 0 THEN 0 ELSE f[i - 1] * b + d[i]]
  <2>1. f \in [0 .. n -> Int] /\ f[0] = 0 /\ \A i \in 1 .. n : f[i] = f[i - 1] * b + d[i]
    BY <1>2 DEF Numbers
  <2> QED
    BY <2>1
<1>4. PICK h : /\ h = [i \in 0 .. n |-> IF i = 0 THEN 0 ELSE h[i - 1] * b + d[i]]
               /\ Number(d, b) = h[n]
  BY <1>3 DEF Number
<1>5. \A i \in 0 .. n : h[i] = IF i = 0 THEN 0 ELSE h[i - 1] * b + d[i]
  BY <1>4, Zenon
<1>6. h[0] = 0 /\ \A i \in 1 .. n : h[i] = h[i - 1] * b + d[i]
  BY <1>5
<1> DEFINE T == {i \in 0 .. n : h[i] \in Int}
<1>7. 0 \in T
  BY <1>6
<1>8. ASSUME NEW i \in 0 .. n - 1, i \in T PROVE i + 1 \in T
  <2>1. i + 1 \in 1 .. n /\ (i + 1) - 1 = i /\ h[i] \in Int
    BY <1>8
  <2>2. h[i + 1] = h[i] * b + d[i + 1]
    BY <1>6, <2>1
  <2> QED
    BY <1>1, <2>1, <2>2
<1> HIDE DEF T
<1>9. \A i \in 0 .. n : i \in T
  <2>1. \A i \in 0 .. n - 1 : i \in T => i + 1 \in T
    BY <1>8
  <2> QED
    BY <1>7, <2>1, UpTo
<1>10. h \in [0 .. n -> Int]
  BY <1>4, <1>9 DEF T
<1> QED
  BY <1>4, <1>6, <1>10 DEF Numbers

-----------------------------------------------------------------------------
\* Division by b takes away the last digit.
LEMMA LastDigit ==
  ASSUME NEW b \in Nat, b > 0, NEW q \in Int, NEW r \in 0 .. b - 1
  PROVE  (q * b + r) \div b = q /\ (q * b + r) % b = r
OBVIOUS

\* The quotient and the remainder, for the code's DataView arithmetic.
LEMMA Division ==
  ASSUME NEW b \in Nat, b > 0, NEW v \in Int
  PROVE  /\ v \div b \in Int /\ v % b \in 0 .. b - 1
         /\ v = (v \div b) * b + (v % b)
OBVIOUS

\* Multiplication by b keeps the order.
LEMMA Scale ==
  ASSUME NEW b \in Nat, NEW x \in Int, NEW y \in Int, x <= y
  PROVE  x * b \in Int /\ y * b \in Int /\ x * b <= y * b
OBVIOUS

\* One more digit, in the number that digits stand for.
LEMMA Collect ==
  ASSUME NEW b \in Int, NEW x \in Int, NEW y \in Int, NEW c \in Int, NEW d \in Int
  PROVE  (x * b + d) + c * (y * b) = (x + c * y) * b + d
OBVIOUS

\* The same for what is left of a number.
LEMMA Take ==
  ASSUME NEW b \in Int, NEW x \in Int, NEW y \in Int, NEW c \in Int, NEW d \in Int
  PROVE  (x - c * y) * b + d = (x * b + d) - c * (y * b)
OBVIOUS

\* A digit to the base b stays below the next multiple of b.
LEMMA Below ==
  ASSUME NEW b \in Nat, NEW x \in Nat, NEW y \in Nat, x < y, NEW d \in 0 .. b - 1
  PROVE  x * b + d \in 0 .. y * b - 1
<1>1. (x + 1) * b <= y * b
  BY Scale, x + 1 <= y
<1>2. (x + 1) * b = x * b + b /\ x * b \in Nat /\ y * b \in Nat
  OBVIOUS
<1> QED
  BY <1>1, <1>2

\* Digits are n digits to the base b.
LEMMA DigitsTyped ==
  ASSUME NEW v \in Int, NEW b \in Nat, b > 0, NEW n \in Nat
  PROVE  Digits(v, b, n) \in Seq(0 .. b - 1) /\ Len(Digits(v, b, n)) = n
<1>1. PICK s : Shifts(s, v, b, n) /\ Shifted(v, b, n) = s
  BY ShiftsExist
<1>2. \A i \in 1 .. n : s[n - i] \in Int
  BY <1>1 DEF Shifts
<1>3. \A i \in 1 .. n : s[n - i] % b \in 0 .. b - 1
  BY <1>2
<1> QED
  BY <1>1, <1>3 DEF Digits

\* The digits of the number that digits stand for are these digits, also after
\* adding a multiple of the power of b behind them.
LEMMA DigitsOfNumber ==
  ASSUME NEW b \in Nat, b > 0, NEW d \in Seq(0 .. b - 1), NEW c \in Int
  PROVE  Digits(Number(d, b) + c * Power(b, Len(d)), b, Len(d)) = d
<1> DEFINE n == Len(d)
           v == Number(d, b) + c * Power(b, n)
<1>1. n \in Nat /\ d \in Seq(Int) /\ \A i \in 1 .. n : d[i] \in 0 .. b - 1
  BY LenProperties, ElementOfSeq, SeqMonotonic
<1>2. PICK h : Numbers(h, d, b, n) /\ Number(d, b) = h[n]
  BY <1>1, NumbersExist
<1>3. PICK p : Powers(p, b, n) /\ Power(b, n) = p[n]
  BY <1>1, PowersExist
<1> HIDE DEF n
<1>4. v \in Int
  BY <1>1, <1>2, <1>3 DEF Numbers, Powers
<1>5. PICK s : Shifts(s, v, b, n) /\ Shifted(v, b, n) = s
  BY <1>1, <1>4, ShiftsExist
<1> DEFINE T == {k \in 0 .. n : s[k] = h[n - k] + c * p[n - k]}
<1>6. 0 \in T
  BY <1>1, <1>2, <1>3, <1>5 DEF Shifts
<1> HIDE DEF v
<1>7. ASSUME NEW k \in 0 .. n - 1, k \in T
      PROVE  /\ k + 1 \in T
             /\ s[k] % b = d[n - k]
  <2> DEFINE j == n - k
  <2>1. j \in 1 .. n /\ j - 1 \in 0 .. n /\ j - 1 = n - (k + 1)
    BY <1>1
  <2>2. s[k] = h[j] + c * p[j]
    BY <1>7
  <2>3. s[k + 1] = s[k] \div b
    BY <1>1, <1>5 DEF Shifts
  <2> HIDE DEF j
  <2>4. /\ h[j] = h[j - 1] * b + d[j] /\ h[j - 1] \in Int
        /\ p[j] = p[j - 1] * b /\ p[j - 1] \in Int
        /\ d[j] \in 0 .. b - 1
    BY <1>1, <1>2, <1>3, <2>1 DEF Numbers, Powers
  <2> DEFINE q == h[j - 1] + c * p[j - 1]
  <2>5. q \in Int
    BY <2>4
  <2>6. s[k] = q * b + d[j]
    <3> DEFINE x == h[j - 1]
               y == p[j - 1]
               e == d[j]
    <3>1. x \in Int /\ y \in Int /\ e \in Int /\ s[k] = (x * b + e) + c * (y * b)
      BY <2>2, <2>4
    <3>2. q = x + c * y
      OBVIOUS
    <3> HIDE DEF x, y, e, q
    <3>3. (x * b + e) + c * (y * b) = (x + c * y) * b + e
      BY <3>1, Collect
    <3> QED
      BY <3>1, <3>2, <3>3 DEF e
  <2> HIDE DEF q
  <2>7. s[k] \div b = q /\ s[k] % b = d[j]
    <3> DEFINE e == d[j]
    <3>1. e \in 0 .. b - 1
      BY <2>4
    <3> HIDE DEF e
    <3>2. (q * b + e) \div b = q /\ (q * b + e) % b = e
      BY <2>5, <3>1, LastDigit
    <3> QED
      BY <2>6, <3>2 DEF e
  <2>8. s[k + 1] = h[n - (k + 1)] + c * p[n - (k + 1)]
    BY <2>1, <2>3, <2>7 DEF q
  <2> QED
    BY <1>1, <2>7, <2>8 DEF j
<1> HIDE DEF T
<1>8. \A k \in 0 .. n : k \in T
  <2>1. \A k \in 0 .. n - 1 : k \in T => k + 1 \in T
    BY <1>7
  <2> QED
    BY <1>1, <1>6, <2>1, UpTo
<1>9. ASSUME NEW i \in 1 .. n PROVE s[n - i] % b = d[i]
  <2>1. n - i \in 0 .. n - 1 /\ n - i \in 0 .. n /\ n - (n - i) = i
    BY <1>1
  <2>2. n - i \in T
    BY <1>8, <2>1
  <2> QED
    BY <1>7, <2>1, <2>2
<1>10. Digits(v, b, n) = [i \in 1 .. n |-> d[i]]
  BY <1>5, <1>9 DEF Digits
<1>11. d = [i \in 1 .. n |-> d[i]]
  BY DEF n
<1> QED
  BY <1>10, <1>11 DEF v, n

\* The number that the digits of v stand for differs from v by a multiple of
\* the power of b behind them.
LEMMA NumberOfDigits ==
  ASSUME NEW v \in Int, NEW b \in Nat, b > 0, NEW n \in Nat
  PROVE  /\ Shifted(v, b, n)[n] \in Int
         /\ Number(Digits(v, b, n), b) = v - Shifted(v, b, n)[n] * Power(b, n)
<1> DEFINE d == Digits(v, b, n)
<1>1. PICK s : Shifts(s, v, b, n) /\ Shifted(v, b, n) = s
  BY ShiftsExist
<1>2. d \in Seq(Int) /\ Len(d) = n
  BY DigitsTyped, SeqMonotonic
<1>3. \A i \in 1 .. n : d[i] = s[n - i] % b
  BY <1>1 DEF Digits
<1> HIDE DEF d
<1>4. PICK h : Numbers(h, d, b, n) /\ Number(d, b) = h[n]
  BY <1>2, NumbersExist
<1>5. PICK p : Powers(p, b, n) /\ Power(b, n) = p[n]
  BY PowersExist
<1>6. s[n] \in Int
  BY <1>1 DEF Shifts
<1> DEFINE T == {i \in 0 .. n : h[i] = s[n - i] - s[n] * p[i]}
<1>7. 0 \in T
  BY <1>4, <1>5, <1>6 DEF Numbers, Powers
<1>8. ASSUME NEW i \in 0 .. n - 1, i \in T
      PROVE  i + 1 \in T
  <2> DEFINE j == n - (i + 1)
  <2>1. j \in 0 .. n - 1 /\ j + 1 = n - i /\ i + 1 \in 1 .. n
    OBVIOUS
  <2>2. h[i] = s[j + 1] - s[n] * p[i]
    BY <1>8, <2>1
  <2>3. h[i + 1] = h[i] * b + d[i + 1] /\ p[i + 1] = p[i] * b
    BY <1>4, <1>5, <2>1 DEF Numbers, Powers
  <2>4. d[i + 1] = s[j] % b
    BY <1>3, <2>1
  <2> HIDE DEF j
  <2>5. s[j] \in Int /\ s[j + 1] \in Int /\ p[i] \in Int /\ h[i] \in Int
    <3>1. j \in 0 .. n /\ j + 1 \in 0 .. n /\ i \in 0 .. n
      BY <2>1
    <3>2. s[j] \in Int /\ s[j + 1] \in Int
      BY <1>1, <3>1 DEF Shifts
    <3>3. p[i] \in Int /\ h[i] \in Int
      BY <1>4, <1>5, <3>1 DEF Powers, Numbers
    <3> QED
      BY <3>2, <3>3
  <2>6. s[j + 1] = s[j] \div b
    BY <1>1, <2>1 DEF Shifts
  <2>7. s[j] = s[j + 1] * b + (s[j] % b)
    BY <2>5, <2>6, Division
  <2>8. h[i + 1] = s[j] - s[n] * p[i + 1]
    <3>1. h[i + 1] = (s[j + 1] - s[n] * p[i]) * b + (s[j] % b)
      BY <2>2, <2>3, <2>4
    <3>2. s[j] % b \in Int
      BY <2>5, Division
    <3>3. (s[j + 1] - s[n] * p[i]) * b + (s[j] % b)
            = (s[j + 1] * b + (s[j] % b)) - s[n] * (p[i] * b)
      BY <1>6, <2>5, <3>2, Take
    <3> QED
      BY <2>3, <2>7, <3>1, <3>3
  <2> QED
    BY <2>8 DEF j
<1> HIDE DEF T
<1>9. \A i \in 0 .. n : i \in T
  <2>1. \A i \in 0 .. n - 1 : i \in T => i + 1 \in T
    BY <1>8
  <2> QED
    BY <1>7, <2>1, UpTo
<1>10. h[n] = s[0] - s[n] * p[n]
  BY <1>9 DEF T
<1>11. s[0] = v
  BY <1>1 DEF Shifts
<1> QED
  BY <1>1, <1>4, <1>5, <1>6, <1>10, <1>11 DEF d

\* A number is below the power of b behind its digits.
LEMMA NumberBound ==
  ASSUME NEW b \in Nat, b > 0, NEW d \in Seq(0 .. b - 1)
  PROVE  Number(d, b) \in 0 .. Power(b, Len(d)) - 1 /\ Power(b, Len(d)) \in Nat
<1> DEFINE n == Len(d)
<1>1. n \in Nat /\ d \in Seq(Int) /\ \A i \in 1 .. n : d[i] \in 0 .. b - 1
  BY LenProperties, ElementOfSeq, SeqMonotonic
<1>2. PICK h : Numbers(h, d, b, n) /\ Number(d, b) = h[n]
  BY <1>1, NumbersExist
<1>3. PICK p : Powers(p, b, n) /\ Power(b, n) = p[n]
  BY <1>1, PowersExist
<1> HIDE DEF n
<1> DEFINE T == {i \in 0 .. n : h[i] \in 0 .. p[i] - 1}
<1>4. 0 \in T
  BY <1>1, <1>2, <1>3 DEF Numbers, Powers
<1>5. ASSUME NEW i \in 0 .. n - 1, i \in T
      PROVE  i + 1 \in T
  <2>1. /\ i + 1 \in 1 .. n
        /\ h[i + 1] = h[i] * b + d[i + 1] /\ p[i + 1] = p[i] * b
        /\ d[i + 1] \in 0 .. b - 1
        /\ h[i] \in 0 .. p[i] - 1 /\ p[i] \in Nat
    <3>1. i + 1 \in 1 .. n /\ (i + 1) - 1 = i /\ i \in 0 .. n
      BY <1>1
    <3>2. h[i + 1] = h[i] * b + d[i + 1]
      BY <1>2, <3>1 DEF Numbers
    <3>3. p[i + 1] = p[i] * b /\ p[i] \in Nat
      BY <1>3, <3>1 DEF Powers
    <3> QED
      BY <1>1, <1>5, <3>1, <3>2, <3>3
  <2>2. h[i] \in Nat /\ h[i] < p[i]
    BY <2>1
  <2>7. h[i + 1] \in 0 .. p[i + 1] - 1
    BY <2>1, <2>2, Below
  <2>8. i + 1 \in 0 .. n
    BY <1>1
  <2> QED
    BY <2>7, <2>8
<1> HIDE DEF T
<1>6. \A i \in 0 .. n : i \in T
  <2>1. \A i \in 0 .. n - 1 : i \in T => i + 1 \in T
    BY <1>5
  <2> QED
    BY <1>1, <1>4, <2>1, UpTo
<1>7. h[n] \in 0 .. p[n] - 1 /\ p[n] \in Nat
  BY <1>1, <1>3, <1>6 DEF T, Powers
<1> QED
  BY <1>2, <1>3, <1>7 DEF n

-----------------------------------------------------------------------------
\* The powers of a base are positive, and each is the one before times b.
LEMMA PowerProperties ==
  ASSUME NEW b \in Nat, b > 0, NEW n \in Nat
  PROVE  /\ Power(b, n) \in Nat /\ Power(b, n) > 0
         /\ Power(b, 0) = 1 /\ Power(b, n + 1) = Power(b, n) * b
<1>1. PICK p : Powers(p, b, n + 1) /\ Power(b, n + 1) = p[n + 1]
  BY PowersExist, n + 1 \in Nat
<1>2. PICK q : Powers(q, b, n) /\ Power(b, n) = q[n]
  BY PowersExist
<1>3. PICK z : Powers(z, b, 0) /\ Power(b, 0) = z[0]
  BY PowersExist, 0 \in Nat
<1> DEFINE T == {i \in 0 .. n : p[i] = q[i] /\ q[i] > 0}
<1>4. 0 \in T
  BY <1>1, <1>2 DEF Powers
<1>5. ASSUME NEW i \in 0 .. n - 1, i \in T PROVE i + 1 \in T
  <2>1. i + 1 \in 1 .. n /\ i + 1 \in 1 .. n + 1 /\ (i + 1) - 1 = i
    OBVIOUS
  <2>2. p[i + 1] = p[i] * b /\ q[i + 1] = q[i] * b /\ q[i] \in Nat
    <3>1. p[i + 1] = p[i] * b
      BY <1>1, <2>1 DEF Powers
    <3>2. q[i + 1] = q[i] * b /\ q[i] \in Nat
      BY <1>2, <2>1 DEF Powers
    <3> QED
      BY <3>1, <3>2
  <2>3. p[i] = q[i] /\ q[i] > 0
    BY <1>5
  <2>4. q[i] * b > 0
    BY <2>2, <2>3
  <2> QED
    BY <2>1, <2>2, <2>3, <2>4
<1> HIDE DEF T
<1>6. \A i \in 0 .. n : i \in T
  <2>1. \A i \in 0 .. n - 1 : i \in T => i + 1 \in T
    BY <1>5
  <2> QED
    BY <1>4, <2>1, UpTo
<1>7. p[n] = q[n] /\ q[n] > 0 /\ q[n] \in Nat
  BY <1>2, <1>6 DEF T, Powers
<1>8. p[n + 1] = p[n] * b
  BY <1>1 DEF Powers
<1> QED
  BY <1>1, <1>2, <1>3, <1>7, <1>8 DEF Powers

\* Two numbers below p that differ by a multiple of p are the same.
LEMMA SameRemainder ==
  ASSUME NEW p \in Nat, NEW x \in 0 .. p - 1, NEW y \in 0 .. p - 1,
         NEW c \in Int, x = y - c * p
  PROVE  x = y
<1>1. CASE c = 0
  BY <1>1
<1>2. CASE c >= 1
  <2>1. 1 * p <= c * p
    BY <1>2, Scale
  <2> QED
    BY <2>1, c * p \in Int
<1>3. CASE c <= -1
  <2>1. c * p <= (-1) * p
    BY <1>3, Scale
  <2> QED
    BY <2>1, c * p \in Int
<1> QED
  BY <1>1, <1>2, <1>3

\* The digits of v stand for v, if they are enough for v.
LEMMA NumberOfAllDigits ==
  ASSUME NEW b \in Nat, b > 0, NEW n \in Nat, NEW v \in 0 .. Power(b, n) - 1
  PROVE  Number(Digits(v, b, n), b) = v
<1> DEFINE d == Digits(v, b, n)
           c == Shifted(v, b, n)[n]
<1>0. v \in Int
  BY PowerProperties
<1>1. d \in Seq(0 .. b - 1) /\ Len(d) = n
  BY <1>0, DigitsTyped
<1>2. Number(d, b) \in 0 .. Power(b, n) - 1 /\ Power(b, n) \in Nat
  BY <1>1, NumberBound
<1>3. c \in Int /\ Number(d, b) = v - c * Power(b, n)
  BY <1>0, NumberOfDigits
<1> HIDE DEF c, d
<1> QED
  BY <1>2, <1>3, SameRemainder DEF d

\* Half of an even power: where setInt32 and the sign bit of a double divide
\* the range.
LEMMA HalfRangeProperties ==
  ASSUME NEW n \in Nat \ {0}
  PROVE  /\ HalfRange(n) \in Nat /\ HalfRange(n) > 0
         /\ Power(Base, n) \in Nat
         /\ Power(Base, n) = 2 * HalfRange(n)
<1> DEFINE p == Power(Base, n - 1)
<1>1. Base \in Nat /\ Base > 0 /\ Base = 2 * (Base \div 2) /\ Base \div 2 \in Nat /\ Base \div 2 > 0
  BY BaseAssumption
<1>2. p \in Nat /\ p > 0 /\ Power(Base, n) = p * Base
  <2>1. n - 1 \in Nat /\ (n - 1) + 1 = n
    OBVIOUS
  <2> QED
    BY <1>1, <2>1, PowerProperties
<1> HIDE DEF p
<1> DEFINE h == Base \div 2
<1>3. p * Base = 2 * (p * h)
  <2> HIDE DEF h
  <2> QED
    BY <1>1, <1>2 DEF h
<1>4. p * h \in Nat /\ p * h > 0
  <2> HIDE DEF h
  <2> QED
    BY <1>1, <1>2 DEF h
<1> DEFINE m == p * h
<1>5. m \in Nat /\ m > 0 /\ Power(Base, n) = 2 * m
  BY <1>2, <1>3, <1>4
<1> HIDE DEF m
<1>6. (2 * m) \div 2 = m
  BY <1>5
<1> QED
  BY <1>5, <1>6 DEF HalfRange

\* A slice of a concatenation.
LEMMA SecondPart ==
  ASSUME NEW S, NEW a \in Seq(S), NEW b \in Seq(S)
  PROVE  SubSeq(a \o b, Len(a) + 1, Len(a) + Len(b)) = b
<1> DEFINE c == a \o b
           m == Len(a)
           n == Len(b)
           s == SubSeq(c, m + 1, m + n)
<1>1. /\ c \in Seq(S) /\ Len(c) = m + n
      /\ \A i \in 1 .. m + n : c[i] = IF i <= m THEN a[i] ELSE b[i - m]
  BY ConcatProperties
<1>2. m \in Nat /\ n \in Nat
  BY LenProperties
<1> HIDE DEF m, n, c
<1>3. \A i \in m + 1 .. m + n : c[i] \in S
  <2> SUFFICES ASSUME NEW i \in m + 1 .. m + n PROVE c[i] \in S
    OBVIOUS
  <2>1. i \in 1 .. Len(c)
    BY <1>1, <1>2
  <2> QED
    BY <1>1, <2>1, ElementOfSeq
<1>4. /\ s \in Seq(S)
      /\ Len(s) = IF m + 1 <= m + n THEN (m + n) - (m + 1) + 1 ELSE 0
      /\ \A i \in 1 .. (m + n) - (m + 1) + 1 : s[i] = c[(m + 1) + i - 1]
  <2>1. m + 1 \in Int /\ m + n \in Int
    BY <1>2
  <2> QED
    BY <1>3, <2>1, SubSeqProperties
<1> HIDE DEF s, n
<1>5. Len(s) = n
  BY <1>2, <1>4
<1>6. ASSUME NEW i \in 1 .. n PROVE s[i] = b[i]
  <2>1. s[i] = c[m + i]
    BY <1>2, <1>4
  <2>2. m + i \in 1 .. m + n /\ ~ (m + i <= m) /\ (m + i) - m = i
    BY <1>2
  <2> QED
    BY <1>1, <2>1, <2>2
<1> QED
  BY <1>4, <1>5, <1>6, SeqEqual DEF c, m, n, s

\* The low half of eight bytes, which getInt32(4) reads.
LEMMA TwoParts ==
  ASSUME NEW S, NEW a \in Seq(S), NEW b \in Seq(S), Len(a) = 4, Len(b) = 4
  PROVE  /\ a \o b \in Seq(S) /\ Len(a \o b) = 8
         /\ SubSeq(a \o b, 5, 8) = b
<1>1. SubSeq(a \o b, Len(a) + 1, Len(a) + Len(b)) = b
  BY SecondPart
<1>2. a \o b \in Seq(S) /\ Len(a \o b) = Len(a) + Len(b)
  BY ConcatProperties
<1>3. Len(a) + 1 = 5 /\ Len(a) + Len(b) = 8
  OBVIOUS
<1> QED
  BY <1>1, <1>2, <1>3

\* A DataView writes n bytes.
LEMMA BigEndianTyped ==
  ASSUME NEW v \in Int, NEW n \in Nat
  PROVE  BigEndian(v, n) \in Seq(Bytes) /\ Len(BigEndian(v, n)) = n
BY DigitsTyped, BaseAssumption DEF BigEndian, Bytes

\* What it reads of n bytes is below 2^(8n), with Base for 2^8.
LEMMA UnsignedBound ==
  ASSUME NEW d \in Seq(Bytes)
  PROVE  Unsigned(d) \in 0 .. Power(Base, Len(d)) - 1
BY NumberBound, BaseAssumption DEF Unsigned, Bytes

\* IntegerEncoder: what it decodes an integer's key to has the same key, and is
\* that integer if it has 32 bits.
LEMMA IntegerSurvives ==
  ASSUME NEW v \in Int
  PROVE  LET k == EncodeInteger(v)
         IN  /\ k \in Seq(Bytes) /\ Len(k) = 8
             /\ DecodeInteger(k) \in Int
             /\ EncodeInteger(DecodeInteger(k)) = k
             /\ v \in -HalfRange(4) .. HalfRange(4) - 1 => DecodeInteger(k) = v
<1> DEFINE z == BigEndian(0, 4)
           d == BigEndian(v, 4)
           k == z \o d
           P == Power(Base, 4)
           H == HalfRange(4)
           c == Shifted(v, Base, 4)[4]
           u == Unsigned(d)
<1>1. /\ z \in Seq(Bytes) /\ Len(z) = 4
      /\ d \in Seq(Bytes) /\ Len(d) = 4
  BY BigEndianTyped, 0 \in Int, 4 \in Nat
<1>2. P \in Nat /\ H \in Nat /\ P = 2 * H
  BY HalfRangeProperties, 4 \in Nat \ {0}
<1>3. c \in Int /\ u = v - c * P
  BY NumberOfDigits, BaseAssumption, 4 \in Nat DEF BigEndian, Unsigned
<1>4. u \in 0 .. P - 1
  BY <1>1, UnsignedBound
<1>5. ASSUME NEW e \in Int PROVE BigEndian(u + e * P, 4) = d
  <2>1. d \in Seq(0 .. Base - 1) /\ Len(d) = 4
    BY <1>1 DEF Bytes
  <2>2. Base \in Nat /\ Base > 0
    BY BaseAssumption
  <2> HIDE DEF d
  <2>3. Digits(Number(d, Base) + e * Power(Base, Len(d)), Base, Len(d)) = d
    BY <2>1, <2>2, DigitsOfNumber
  <2> QED
    BY <2>1, <2>3 DEF BigEndian, Unsigned
<1>6. k \in Seq(Bytes) /\ Len(k) = 8 /\ SubSeq(k, 5, 8) = d
  <2> HIDE DEF z, d
  <2> QED
    BY <1>1, TwoParts
<1>8. EncodeInteger(v) = k
  BY DEF EncodeInteger
<1>9. DecodeInteger(k) = IF u < H THEN u ELSE u - P
  BY <1>6 DEF DecodeInteger
<1>10. \A w \in Int : BigEndian(w, 4) = d => EncodeInteger(w) = k
  BY DEF EncodeInteger
<1> HIDE DEF z, d, k, P, H, c, u
<1>11. DecodeInteger(k) \in Int /\ BigEndian(DecodeInteger(k), 4) = d
  <2>1. u = u + 0 * P /\ u - P = u + (-1) * P
    BY <1>2, <1>4
  <2>2. BigEndian(u, 4) = d /\ BigEndian(u - P, 4) = d
    BY <1>5, <2>1, 0 \in Int, -1 \in Int
  <2> QED
    BY <1>2, <1>4, <1>9, <2>2
<1>12. ASSUME v \in -H .. H - 1 PROVE DecodeInteger(k) = v
  <2>1. CASE v >= 0
    <3>1. v \in 0 .. P - 1
      BY <1>2, <1>12, <2>1
    <3>2. u = v
      BY <1>2, <1>3, <1>4, <3>1, SameRemainder
    <3> QED
      BY <1>2, <1>9, <1>12, <3>2
  <2>2. CASE v < 0
    <3>1. v + P \in 0 .. P - 1
      BY <1>2, <1>12, <2>2
    <3>2. u = (v + P) - (c + 1) * P
      BY <1>2, <1>3
    <3>3. u = v + P
      BY <1>2, <1>3, <1>4, <3>1, <3>2, SameRemainder, c + 1 \in Int
    <3> QED
      BY <1>2, <1>9, <1>12, <2>2, <3>3
  <2> QED
    BY <1>12, <1>2, <2>1, <2>2
<1> QED
  BY <1>6, <1>8, <1>10, <1>11, <1>12 DEF H

\* RealEncoder: every double is what its key decodes to.
LEMMA RealSurvives ==
  ASSUME NEW r \in -HalfRange(8) .. HalfRange(8) - 1
  PROVE  LET k == EncodeReal(r)
         IN  k \in Seq(Bytes) /\ Len(k) = 8 /\ DecodeReal(k) = r
<1> DEFINE P == Power(Base, 8)
           H == HalfRange(8)
           w == IF r >= 0 THEN r ELSE H - 1 - r
           k == BigEndian(w, 8)
<1>1. P \in Nat /\ H \in Nat /\ P = 2 * H
  BY HalfRangeProperties, 8 \in Nat \ {0}
<1>2. r \in -H .. H - 1
  OBVIOUS
<1>3. EncodeReal(r) = k
  BY DEF EncodeReal
<1> HIDE DEF H
<1>4. w \in Int /\ w \in 0 .. P - 1
  BY <1>1, <1>2
<1> HIDE DEF w
<1>5. k \in Seq(Bytes) /\ Len(k) = 8
  BY <1>4, BigEndianTyped, 8 \in Nat
<1>6. Unsigned(k) = w
  BY <1>4, NumberOfAllDigits, BaseAssumption, 8 \in Nat DEF Unsigned, BigEndian
<1>7. DecodeReal(k) = IF w < H THEN w ELSE H - 1 - w
  BY <1>6 DEF DecodeReal, H
<1>8. DecodeReal(k) = r
  BY <1>1, <1>2, <1>7 DEF w
<1> QED
  BY <1>3, <1>5, <1>8

-----------------------------------------------------------------------------
\* A power is above its exponent.
LEMMA PowerExceeds ==
  ASSUME NEW b \in Nat, b >= 2, NEW n \in Nat
  PROVE  Power(b, n) > n
<1> DEFINE T == {i \in 0 .. n : Power(b, i) > i}
<1>1. 0 \in T
  BY PowerProperties
<1>2. ASSUME NEW i \in 0 .. n - 1, i \in T PROVE i + 1 \in T
  <2> DEFINE p == Power(b, i)
  <2>1. p \in Nat /\ Power(b, i + 1) = p * b
    BY PowerProperties, i \in Nat, b > 0
  <2>2. p > i
    BY <1>2
  <2> HIDE DEF p
  <2>3. p * 2 <= p * b
    BY <2>1
  <2>4. p * b > i + 1
    BY <2>1, <2>2, <2>3
  <2> QED
    BY <2>1, <2>4
<1> HIDE DEF T
<1>3. n \in T
  <2>1. \A i \in 0 .. n - 1 : i \in T => i + 1 \in T
    BY <1>2
  <2> QED
    BY <1>1, <2>1, UpTo
<1> QED
  BY <1>3 DEF T

\* String(n) has enough digits.
LEMMA NumDigitsProperties ==
  ASSUME NEW n \in Nat
  PROVE  NumDigits(n) \in Nat \ {0} /\ n < Power(Radix, NumDigits(n))
<1> DEFINE S == {d \in 1 .. n + 1 : n < Power(Radix, d)}
<1>1. Radix \in Nat /\ Radix >= 2
  BY DigitsAssumption
<1>2. n + 1 \in S
  <2>1. Power(Radix, n + 1) > n + 1 /\ Power(Radix, n + 1) \in Nat
    BY <1>1, PowerExceeds, PowerProperties, n + 1 \in Nat
  <2> QED
    BY <2>1
<1>3. PICK m \in S : \A j \in S : m <= j
  <2>1. S \in SUBSET Nat /\ S # {}
    BY <1>2
  <2> HIDE DEF S
  <2> QED
    BY <2>1, LeastElement
<1>4. m \in 1 .. n + 1 /\ n < Power(Radix, m)
  BY <1>3
<1>5. m = 1 \/ Power(Radix, m - 1) <= n
  <2> SUFFICES ASSUME m # 1 PROVE Power(Radix, m - 1) <= n
    OBVIOUS
  <2>1. m - 1 \in 1 .. n + 1 /\ ~ (m <= m - 1)
    BY <1>4
  <2>2. ~ (n < Power(Radix, m - 1))
    BY <1>3, <2>1
  <2>3. Power(Radix, m - 1) \in Nat
    BY <1>1, <2>1, PowerProperties, m - 1 \in Nat, Radix > 0
  <2> QED
    BY <2>2, <2>3
<1>6. \E d \in 1 .. n + 1 : n < Power(Radix, d) /\ (d = 1 \/ Power(Radix, d - 1) <= n)
  BY <1>4, <1>5
<1>7. NumDigits(n) \in 1 .. n + 1 /\ n < Power(Radix, NumDigits(n))
  BY <1>6 DEF NumDigits
<1> QED
  BY <1>7

\* String(number) writes digits that parseFloat reads.
LEMMA NumeralProperties ==
  ASSUME NEW n \in Nat
  PROVE  LET s == Numeral(n)
         IN  /\ s \in Seq(Bytes) /\ Len(s) > 0 /\ s[1] # Minus
             /\ Number([i \in 1 .. Len(s) |-> s[i] - Zero], Radix) = n
<1> DEFINE k == NumDigits(n)
           d == Digits(n, Radix, k)
           s == [i \in 1 .. k |-> Zero + d[i]]
<1>1. /\ Radix \in Nat /\ Radix > 0 /\ Minus \in Nat /\ Zero \in Nat
      /\ Minus < Zero /\ Zero + Radix <= Base \div 2
  BY DigitsAssumption
<1>2. k \in Nat \ {0} /\ n < Power(Radix, k)
  BY NumDigitsProperties
<1> HIDE DEF k
<1>3. d \in Seq(0 .. Radix - 1) /\ Len(d) = k
  BY <1>1, <1>2, DigitsTyped
<1>4. Number(d, Radix) = n
  BY <1>1, <1>2, NumberOfAllDigits, PowerProperties
<1> HIDE DEF d
<1>5. \A i \in 1 .. k : d[i] \in 0 .. Radix - 1
  BY <1>3, ElementOfSeq
<1>6. Base \in Nat /\ Base \div 2 \in Nat /\ Base \div 2 < Base
  BY BaseAssumption
<1>7. \A i \in 1 .. k : Zero + d[i] \in Bytes /\ Zero + d[i] # Minus
  BY <1>1, <1>5, <1>6 DEF Bytes
<1>8. s \in Seq(Bytes) /\ Len(s) = k /\ s[1] # Minus
  BY <1>2, <1>7
<1>9. Numeral(n) = s
  BY DEF Numeral, k, d
<1>10. d = [i \in 1 .. k |-> d[i]]
  BY <1>3
<1>11. \A i \in 1 .. k : s[i] - Zero = d[i]
  BY <1>1, <1>5
<1> HIDE DEF s
<1>12. [i \in 1 .. Len(s) |-> s[i] - Zero] = d
  BY <1>8, <1>10, <1>11
<1> QED
  BY <1>2, <1>4, <1>8, <1>9, <1>12

\* NumericEncoder: every integer is what its key decodes to.
LEMMA NumericSurvives ==
  ASSUME NEW v \in Int
  PROVE  EncodeNumeric(v) \in Seq(Bytes) /\ DecodeNumeric(EncodeNumeric(v)) = v
<1>1. CASE v >= 0
  <2> DEFINE s == Numeral(v)
  <2>1. /\ s \in Seq(Bytes) /\ Len(s) > 0 /\ s[1] # Minus
        /\ Number([i \in 1 .. Len(s) |-> s[i] - Zero], Radix) = v
    BY <1>1, NumeralProperties
  <2>2. EncodeNumeric(v) = s
    BY <1>1 DEF EncodeNumeric
  <2> HIDE DEF s
  <2> QED
    BY <2>1, <2>2 DEF DecodeNumeric
<1>2. CASE v < 0
  <2> DEFINE s == Numeral(-v)
             k == << Minus >> \o s
  <2>1. -v \in Nat /\ -(-v) = v
    BY <1>2
  <2>2. /\ s \in Seq(Bytes)
        /\ Number([i \in 1 .. Len(s) |-> s[i] - Zero], Radix) = -v
    BY <2>1, NumeralProperties
  <2>3. EncodeNumeric(v) = k
    BY <1>2 DEF EncodeNumeric
  <2> HIDE DEF s
  <2>4. << Minus >> \in Seq(Bytes) /\ Len(<< Minus >>) = 1
    BY DigitsAssumption, BaseAssumption DEF Bytes
  <2>5. k \in Seq(Bytes) /\ Len(k) = 1 + Len(s) /\ k[1] = Minus /\ Tail(k) = s
    <3>1. /\ k \in Seq(Bytes) /\ Len(k) = 1 + Len(s) /\ Len(s) \in Nat
          /\ k[1] = Minus
          /\ \A i \in 1 .. Len(s) : k[1 + i] = s[i]
      <4> DEFINE a == << Minus >>
      <4>1. a \in Seq(Bytes) /\ Len(a) = 1 /\ a[1] = Minus
        BY <2>4
      <4> HIDE DEF a
      <4>2. k = a \o s
        BY DEF a
      <4> HIDE DEF k
      <4>3. /\ k \in Seq(Bytes)
            /\ Len(a) \in Nat /\ Len(s) \in Nat /\ Len(k) = Len(a) + Len(s)
            /\ \A i \in 1 .. Len(a) : k[i] = a[i]
            /\ \A i \in 1 .. Len(s) : k[Len(a) + i] = s[i]
        <5>1. s \in Seq(Bytes) /\ a \in Seq(Bytes)
          BY <2>2, <4>1
        <5> QED
          BY <4>2, <5>1, Joined
      <4> QED
        BY <4>1, <4>3
    <3> HIDE DEF k
    <3>2. k # << >>
      BY <3>1
    <3>3. /\ Tail(k) \in Seq(Bytes) /\ Len(Tail(k)) = Len(k) - 1
          /\ \A i \in 1 .. Len(Tail(k)) : Tail(k)[i] = k[i + 1]
      BY <3>1, <3>2, HeadTailProperties
    <3>4. Len(Tail(k)) = Len(s) /\ \A i \in 1 .. Len(Tail(k)) : Tail(k)[i] = s[i]
      BY <3>1, <3>3
    <3>5. Tail(k) = s
      BY <2>2, <3>3, <3>4, SeqEqual
    <3> QED
      BY <3>1, <3>5
  <2> HIDE DEF k
  <2>6. Len(k) > 0
    BY <2>2, <2>5, LenProperties
  <2> QED
    BY <2>1, <2>2, <2>3, <2>5, <2>6 DEF DecodeNumeric
<1> QED
  BY <1>1, <1>2

-----------------------------------------------------------------------------
\* What a text loses in its key: a lone surrogate becomes U+FFFD.
WellFormed(c) == IF c = Base - 1 THEN Base - 2 ELSE c

\* One character of UTF-8.
LEMMA Utf8Properties ==
  ASSUME NEW c \in Bytes
  PROVE  /\ WellFormed(c) \in Bytes /\ Utf8(WellFormed(c)) = Utf8(c)
         /\ Utf8(c) \in Seq(Bytes) /\ Len(Utf8(c)) \in 1 .. 2
         /\ Len(Utf8(c)) = 1 => /\ Utf8(c)[1] < Base \div 2
                                /\ Utf8(c)[1] = WellFormed(c)
         /\ Len(Utf8(c)) = 2 => /\ Utf8(c)[1] > Base \div 2
                                /\ Utf8(c)[1] - 1 = WellFormed(c)
                                /\ Utf8(c)[2] = Base \div 2
<1> DEFINE h == Base \div 2
<1>1. h \in Nat /\ Base = 2 * h /\ h >= 3
  BY BaseAssumption
<1> HIDE DEF h
<1>2. c \in 0 .. 2 * h - 1 /\ Bytes = 0 .. 2 * h - 1
  BY <1>1 DEF Bytes
<1>3. CASE c < h
  <2>1. WellFormed(c) = c /\ Utf8(c) = << c >>
    BY <1>1, <1>2, <1>3 DEF WellFormed, Utf8, h
  <2> QED
    BY <1>1, <1>2, <1>3, <2>1 DEF h
<1>4. CASE c = Base - 1
  <2>1. WellFormed(c) = Base - 2 /\ Utf8(c) = << Base - 1, h >>
    BY <1>1, <1>2, <1>4 DEF WellFormed, Utf8, h
  <2>2. Utf8(Base - 2) = << Base - 1, h >>
    BY <1>1 DEF Utf8, h
  <2>3. Len(<< Base - 1, h >>) = 2 /\ << Base - 1, h >>[1] = Base - 1 /\ << Base - 1, h >>[2] = h
    OBVIOUS
  <2>4. << Base - 1, h >> \in Seq(Bytes) /\ Base - 2 \in Bytes
    BY <1>1, <1>2
  <2>5. Base - 1 > h /\ (Base - 1) - 1 = Base - 2
    BY <1>1
  <2> QED
    BY <2>1, <2>2, <2>3, <2>4, <2>5 DEF h
<1>5. CASE c >= h /\ c # Base - 1
  <2>1. WellFormed(c) = c /\ Utf8(c) = << c + 1, h >>
    BY <1>1, <1>2, <1>5 DEF WellFormed, Utf8, h
  <2> QED
    BY <1>1, <1>2, <1>5, <2>1 DEF h
<1> QED
  BY <1>1, <1>2, <1>3, <1>4, <1>5

\* f[i] encodes the first i characters of a text.
Encodes(f, text) ==
  /\ f[0] = << >>
  /\ \A i \in 0 .. Len(text) : Len(f[i]) \in Nat /\ Len(f[i]) <= Len(EncodeText(text))
  /\ f[Len(text)] = EncodeText(text)
  /\ \A i \in 1 .. Len(text) :
       /\ f[i] = f[i - 1] \o Utf8(text[i])
       /\ Len(f[i]) = Len(f[i - 1]) + Len(Utf8(text[i]))
       /\ \A k \in 1 .. Len(Utf8(text[i])) :
            EncodeText(text)[Len(f[i - 1]) + k] = Utf8(text[i])[k]

\* EncodeText puts the bytes of each character behind those of the others.
LEMMA EncodesExist ==
  ASSUME NEW text \in Seq(Bytes)
  PROVE  EncodeText(text) \in Seq(Bytes) /\ \E f : Encodes(f, text)
<1> DEFINE n == Len(text)
           s == [i \in 1 .. n |-> Utf8(text[i])]
<1>1. n \in Nat /\ \A i \in 1 .. n : text[i] \in Bytes
  BY LenProperties, ElementOfSeq
<1>2. \A i \in 1 .. n : Utf8(text[i]) \in Seq(Bytes)
  BY <1>1, Utf8Properties
<1>3. s \in Seq(Seq(Bytes)) /\ Len(s) = n /\ \A i \in 1 .. n : s[i] = Utf8(text[i])
  BY <1>1, <1>2
<1>4. EncodeText(text) = FlattenSeq(s)
  BY DEF EncodeText
<1> HIDE DEF s
<1>5. PICK f : Flattens(f, s, Bytes)
  BY <1>3, FlattenPrefixes
<1>6. /\ FlattenSeq(s) \in Seq(Bytes)
      /\ \A i \in 0 .. Len(s) : Len(f[i]) \in Nat /\ Len(f[i]) <= Len(FlattenSeq(s))
      /\ \A i \in 1 .. Len(s) :
           /\ Len(f[i]) = Len(f[i - 1]) + Len(s[i])
           /\ \A k \in 1 .. Len(s[i]) : FlattenSeq(s)[Len(f[i - 1]) + k] = s[i][k]
  BY <1>5 DEF Flattens
<1>7. /\ f[0] = << >> /\ f[n] = FlattenSeq(s)
      /\ \A i \in 1 .. n : f[i] = f[i - 1] \o s[i]
  BY <1>3, <1>5 DEF Flattens, FlattensTo
<1> HIDE DEF n
<1>8. ASSUME NEW i \in 1 .. n
      PROVE  /\ f[i] = f[i - 1] \o Utf8(text[i])
             /\ Len(f[i]) = Len(f[i - 1]) + Len(Utf8(text[i]))
             /\ \A k \in 1 .. Len(Utf8(text[i])) :
                  FlattenSeq(s)[Len(f[i - 1]) + k] = Utf8(text[i])[k]
  BY <1>3, <1>6, <1>7
<1>9. Encodes(f, text)
  BY <1>3, <1>4, <1>6, <1>7, <1>8 DEF Encodes, n
<1> QED
  BY <1>4, <1>6, <1>9

\* The characters read up to a byte.
Reads(h, bytes) ==
  /\ \A i \in 0 .. Len(bytes) : h[i] \in Seq(Bytes)
  /\ h[0] = << >>
  /\ \A i \in 1 .. Len(bytes) :
       h[i] = IF Continues(bytes, i) THEN h[i - 1] ELSE Append(h[i - 1], CharAt(bytes, i))
  /\ Characters(bytes) = h[Len(bytes)]

\* Each byte is read as a character.
LEMMA CharAtTyped ==
  ASSUME NEW bytes \in Seq(Bytes), NEW i \in 1 .. Len(bytes)
  PROVE  CharAt(bytes, i) \in Bytes
<1>1. bytes[i] \in Bytes
  BY ElementOfSeq
<1>2. Base - 2 \in Bytes /\ Base \div 2 \in Nat
  BY BaseAssumption DEF Bytes
<1> DEFINE x == bytes[i]
<1>3. CharAt(bytes, i) = x \/ (CharAt(bytes, i) = x - 1 /\ x > Base \div 2) \/ CharAt(bytes, i) = Base - 2
  BY DEF CharAt
<1>4. x \in Bytes
  BY <1>1
<1> HIDE DEF x
<1> QED
  BY <1>2, <1>3, <1>4, BaseAssumption DEF Bytes

\* Characters reads byte by byte.
LEMMA ReadsExist ==
  ASSUME NEW bytes \in Seq(Bytes)
  PROVE  \E h : Reads(h, bytes)
<1> DEFINE n == Len(bytes)
           Q == Seq(Bytes)
           g == [i \in 1 .. n |-> [t \in Q |->
                  IF Continues(bytes, i) THEN t ELSE Append(t, CharAt(bytes, i))]]
<1>1. n \in Nat
  BY LenProperties
<1>2. << >> \in Q
  OBVIOUS
<1>3. ASSUME NEW i \in 1 .. n, NEW t \in Q
      PROVE  Append(t, CharAt(bytes, i)) \in Q
  <2>1. CharAt(bytes, i) \in Bytes
    BY CharAtTyped
  <2> QED
    BY <2>1, AppendProperties
<1> HIDE DEF n, Q
<1>4. ASSUME NEW i \in 1 .. n, NEW t \in Q
      PROVE  /\ g[i][t] = IF Continues(bytes, i) THEN t ELSE Append(t, CharAt(bytes, i))
             /\ g[i][t] \in Q
  BY <1>3
<1> HIDE DEF g
<1>5. Steps(g, n, Q)
  BY <1>4 DEF Steps
<1>6. PICK f : Iterates(f, g, n, Q, << >>)
  BY <1>1, <1>2, <1>5, Recursion
<1>7. /\ f \in [0 .. n -> Q] /\ f[0] = << >>
      /\ \A i \in 0 .. n : f[i] \in Q
      /\ \A i \in 1 .. n : f[i] = g[i][f[i - 1]]
  BY <1>6 DEF Iterates
<1>8. ASSUME NEW i \in 1 .. n
      PROVE  f[i] = IF Continues(bytes, i) THEN f[i - 1]
                    ELSE Append(f[i - 1], CharAt(bytes, i))
  <2>1. f[i - 1] \in Q
    BY <1>1, <1>7
  <2> QED
    BY <1>4, <1>7, <2>1
<1>9. f = [i \in 0 .. n |-> IF i = 0 THEN << >>
                            ELSE IF Continues(bytes, i) THEN f[i - 1]
                            ELSE Append(f[i - 1], CharAt(bytes, i))]
  <2>1. ASSUME NEW i \in 0 .. n
        PROVE  f[i] = IF i = 0 THEN << >>
                      ELSE IF Continues(bytes, i) THEN f[i - 1]
                      ELSE Append(f[i - 1], CharAt(bytes, i))
    <3>1. CASE i = 0
      BY <1>7, <3>1, Zenon
    <3>2. CASE i # 0
      <4>1. i \in 1 .. n
        BY <1>1, <3>2
      <4> QED
        BY <1>8, <3>2, <4>1, Zenon
    <3> QED
      BY <3>1, <3>2
  <2>2. f = [i \in 0 .. n |-> f[i]]
    BY <1>7
  <2> QED
    BY <2>1, <2>2, Zenon
<1>10. PICK h : /\ h = [i \in 0 .. n |-> IF i = 0 THEN << >>
                                         ELSE IF Continues(bytes, i) THEN h[i - 1]
                                         ELSE Append(h[i - 1], CharAt(bytes, i))]
                /\ Characters(bytes) = h[n]
  BY <1>9 DEF Characters, n
<1>11. \A i \in 0 .. n : h[i] = IF i = 0 THEN << >>
                                ELSE IF Continues(bytes, i) THEN h[i - 1]
                                ELSE Append(h[i - 1], CharAt(bytes, i))
  BY <1>10, Zenon
<1>12. h[0] = << >>
  <2>1. 0 \in 0 .. n
    BY <1>1
  <2> QED
    BY <1>11, <2>1, Zenon
<1>13. ASSUME NEW i \in 1 .. n
       PROVE  h[i] = IF Continues(bytes, i) THEN h[i - 1]
                     ELSE Append(h[i - 1], CharAt(bytes, i))
  <2>1. i \in 0 .. n /\ i # 0
    BY <1>1
  <2> QED
    BY <1>11, <2>1
<1> DEFINE T == {i \in 0 .. n : h[i] \in Q}
<1>14. 0 \in T
  BY <1>1, <1>2, <1>12
<1>15. ASSUME NEW i \in 0 .. n - 1, i \in T PROVE i + 1 \in T
  <2>1. i + 1 \in 1 .. n /\ (i + 1) - 1 = i /\ i + 1 \in 0 .. n /\ h[i] \in Q
    BY <1>1, <1>15
  <2>2. h[i + 1] = IF Continues(bytes, i + 1) THEN h[i]
                   ELSE Append(h[i], CharAt(bytes, i + 1))
    BY <1>13, <2>1
  <2> QED
    BY <1>3, <2>1, <2>2
<1> HIDE DEF T
<1>16. \A i \in 0 .. n : i \in T
  <2>1. \A i \in 0 .. n - 1 : i \in T => i + 1 \in T
    BY <1>15
  <2> QED
    BY <1>1, <1>14, <2>1, UpTo
<1>17. \A i \in 0 .. n : h[i] \in Q
  BY <1>16 DEF T
<1>18. Reads(h, bytes)
  BY <1>10, <1>12, <1>13, <1>17 DEF Reads, n, Q
<1> QED
  BY <1>18

-----------------------------------------------------------------------------
WellFormedText(text) == [i \in 1 .. Len(text) |-> WellFormed(text[i])]

\* A text stays a text of its length.
LEMMA WellFormedTyped ==
  ASSUME NEW text \in Seq(Bytes)
  PROVE  /\ WellFormedText(text) \in Seq(Bytes)
         /\ Len(WellFormedText(text)) = Len(text)
         /\ \A i \in 1 .. Len(text) : WellFormedText(text)[i] = WellFormed(text[i])
<1>1. Len(text) \in Nat /\ \A i \in 1 .. Len(text) : text[i] \in Bytes
  BY LenProperties, ElementOfSeq
<1>2. \A i \in 1 .. Len(text) : WellFormed(text[i]) \in Bytes
  BY <1>1, Utf8Properties
<1> QED
  BY <1>1, <1>2 DEF WellFormedText

\* TextDecoder reads the characters that TextEncoder wrote.
LEMMA CharactersOfText ==
  ASSUME NEW text \in Seq(Bytes)
  PROVE  Characters(EncodeText(text)) = WellFormedText(text)
<1> DEFINE n == Len(text)
           k == EncodeText(text)
           w == WellFormedText(text)
           H == Base \div 2
<1>1. n \in Nat /\ \A i \in 1 .. n : text[i] \in Bytes
  BY LenProperties, ElementOfSeq
<1>2. w \in Seq(Bytes) /\ Len(w) = n /\ \A i \in 1 .. n : w[i] = WellFormed(text[i])
  BY WellFormedTyped
<1>3. k \in Seq(Bytes) /\ Len(k) \in Nat
  BY EncodesExist, LenProperties
<1>4. PICK f : Encodes(f, text)
  BY EncodesExist
<1>5. PICK h : Reads(h, k)
  BY <1>3, ReadsExist
<1>6. /\ f[0] = << >> /\ Len(f[n]) = Len(k)
      /\ \A i \in 0 .. n : Len(f[i]) \in Nat /\ Len(f[i]) <= Len(k)
      /\ \A i \in 1 .. n :
           /\ Len(f[i]) = Len(f[i - 1]) + Len(Utf8(text[i]))
           /\ \A j \in 1 .. Len(Utf8(text[i])) : k[Len(f[i - 1]) + j] = Utf8(text[i])[j]
  BY <1>4 DEF Encodes
<1>7. /\ h[0] = << >> /\ Characters(k) = h[Len(k)]
      /\ \A i \in 1 .. Len(k) :
           h[i] = IF Continues(k, i) THEN h[i - 1] ELSE Append(h[i - 1], CharAt(k, i))
  BY <1>5 DEF Reads
<1> HIDE DEF n, k, w
<1> DEFINE T == {i \in 0 .. n : h[Len(f[i])] = [j \in 1 .. i |-> w[j]]}
<1>8. 0 \in T
  <2>1. h[Len(f[0])] = << >>
    BY <1>6, <1>7
  <2>2. [j \in 1 .. 0 |-> w[j]] = << >>
    OBVIOUS
  <2> QED
    BY <1>1, <2>1, <2>2
<1>9. ASSUME NEW i \in 0 .. n - 1, i \in T PROVE i + 1 \in T
  <2> DEFINE m == Len(f[i])
             c == text[i + 1]
             u == Utf8(c)
  <2>1. i + 1 \in 1 .. n /\ (i + 1) - 1 = i /\ i \in 0 .. n /\ i + 1 \in 0 .. n
    BY <1>1
  <2>2. c \in Bytes
    BY <1>1, <2>1
  <2>3. /\ m \in Nat /\ Len(f[i + 1]) = m + Len(u) /\ m + Len(u) <= Len(k)
        /\ \A j \in 1 .. Len(u) : k[m + j] = u[j]
    BY <1>6, <2>1
  <2>4. h[m] = [j \in 1 .. i |-> w[j]]
    BY <1>9
  <2>5. w[i + 1] = WellFormed(c)
    BY <1>2, <2>1
  <2> HIDE DEF m, c
  <2>6. /\ Len(u) \in 1 .. 2
        /\ Len(u) = 1 => u[1] < H /\ u[1] = WellFormed(c)
        /\ Len(u) = 2 => u[1] > H /\ u[1] - 1 = WellFormed(c) /\ u[2] = H
        /\ u \in Seq(Bytes)
    BY <2>2, Utf8Properties
  <2> HIDE DEF u
  <2>7. H \in Nat
    BY BaseAssumption
  <2>8. u[1] \in Nat
    BY <2>6, ElementOfSeq, BaseAssumption DEF Bytes
  <2>9. k[m + 1] = u[1] /\ m + 1 \in 1 .. Len(k)
    BY <1>3, <2>3, <2>6
  <2>10. ~ Continues(k, m + 1)
    <3>1. u[1] # H
      BY <2>6, <2>7, <2>8
    <3> QED
      BY <2>9, <3>1 DEF Continues
  <2>11. h[m + 1] = Append(h[m], CharAt(k, m + 1))
    <3>1. (m + 1) - 1 = m
      BY <2>3
    <3> QED
      BY <1>7, <2>9, <2>10, <3>1
  <2>12. CharAt(k, m + 1) = WellFormed(c) /\ h[Len(f[i + 1])] = h[m + 1]
    <3>1. CASE Len(u) = 1
      <4>1. k[m + 1] < H /\ k[m + 1] = WellFormed(c)
        BY <2>6, <2>9, <3>1
      <4>2. CharAt(k, m + 1) = k[m + 1]
        <5>1. ~ (k[m + 1] > H)
          BY <2>7, <2>8, <2>9, <4>1
        <5> QED
          BY <4>1, <5>1 DEF CharAt
      <4>3. Len(f[i + 1]) = m + 1
        BY <2>3, <3>1
      <4> QED
        BY <4>1, <4>2, <4>3
    <3>2. CASE Len(u) = 2
      <4>1. k[m + 2] = H /\ m + 2 \in 2 .. Len(k) /\ (m + 2) - 1 = m + 1 /\ (m + 1) + 1 = m + 2
        BY <1>3, <2>3, <2>6, <3>2
      <4>2. k[m + 1] > H
        BY <2>6, <2>9, <3>2
      <4>3. Continues(k, m + 2)
        BY <4>1, <4>2 DEF Continues
      <4>4. h[m + 2] = h[m + 1]
        <5>1. m + 2 \in 1 .. Len(k)
          BY <2>3, <4>1
        <5> QED
          BY <1>7, <4>1, <4>3, <5>1
      <4>5. CharAt(k, m + 1) = k[m + 1] - 1
        <5>1. ~ (k[m + 1] < H)
          BY <2>7, <2>8, <2>9, <4>2
        <5> QED
          BY <4>1, <4>2, <4>3, <5>1 DEF CharAt
      <4> QED
        BY <2>3, <2>6, <2>9, <3>2, <4>4, <4>5
    <3> QED
      BY <2>6, <3>1, <3>2
  <2>13. Append([j \in 1 .. i |-> w[j]], w[i + 1]) = [j \in 1 .. i + 1 |-> w[j]]
    <3>1. i \in 0 .. Len(w) - 1
      BY <1>2
    <3> QED
      BY <1>2, <3>1, AppendToPrefix
  <2> QED
    BY <2>1, <2>4, <2>5, <2>11, <2>12, <2>13
<1> HIDE DEF T
<1>10. n \in T
  <2>1. \A i \in 0 .. n - 1 : i \in T => i + 1 \in T
    BY <1>9
  <2>2. \A i \in 0 .. n : i \in T
    BY <1>1, <1>8, <2>1, UpTo
  <2> QED
    BY <1>1, <2>2
<1>11. h[Len(k)] = [j \in 1 .. n |-> w[j]]
  BY <1>6, <1>10 DEF T
<1>12. w = [j \in 1 .. n |-> w[j]]
  BY <1>2
<1> QED
  BY <1>7, <1>11, <1>12 DEF k, w

\* TextEncoder and TextDecoder: what a text's key is decoded to has the same key,
\* and is that text if it has no lone surrogates, unless it starts with a byte
\* order mark.
LEMMA TextSurvives ==
  ASSUME NEW text \in Seq(Bytes), ~ StartsWithBom(text)
  PROVE  LET k == EncodeText(text)
         IN  /\ k \in Seq(Bytes) /\ DecodeText(k) \in Seq(Bytes)
             /\ EncodeText(DecodeText(k)) = k
             /\ Base - 1 \notin Range(text) => DecodeText(k) = text
<1> DEFINE w == WellFormedText(text)
           n == Len(text)
<1>1. n \in Nat /\ \A i \in 1 .. n : text[i] \in Bytes
  BY LenProperties, ElementOfSeq
<1>2. w \in Seq(Bytes) /\ Len(w) = n /\ \A i \in 1 .. n : w[i] = WellFormed(text[i])
  BY WellFormedTyped
<1>3. ~ StartsWithBom(w)
  <2> SUFFICES ASSUME n > 0 PROVE w[1] # Bom
    BY <1>2 DEF StartsWithBom
  <2>1. text[1] # Bom /\ w[1] = WellFormed(text[1])
    BY <1>1, <1>2 DEF StartsWithBom
  <2>2. Base - 2 # Bom
    BY BomAssumption, BaseAssumption
  <2> QED
    BY <2>1, <2>2 DEF WellFormed
<1> DEFINE k == EncodeText(text)
<1>4. Characters(k) = w
  BY CharactersOfText
<1> HIDE DEF w
<1>5. DecodeText(k) = w
  BY <1>3, <1>4 DEF DecodeText
<1>6. EncodeText(w) = k
  <2>1. \A i \in 1 .. n : Utf8(w[i]) = Utf8(text[i])
    BY <1>1, <1>2, Utf8Properties
  <2>2. [i \in 1 .. Len(w) |-> Utf8(w[i])] = [i \in 1 .. Len(text) |-> Utf8(text[i])]
    BY <1>2, <2>1
  <2> QED
    BY <2>2 DEF EncodeText
<1>7. ASSUME Base - 1 \notin Range(text) PROVE w = text
  <2>1. \A i \in 1 .. n : text[i] # Base - 1
    BY <1>1, <1>7, LenProperties DEF Range
  <2>2. \A i \in 1 .. Len(w) : w[i] = text[i]
    BY <1>2, <2>1 DEF WellFormed
  <2> QED
    BY <1>2, <2>2, SeqEqual
<1> QED
  BY <1>2, <1>5, <1>6, <1>7, EncodesExist

-----------------------------------------------------------------------------
\* Any digits stand for a number.
LEMMA NumberTyped ==
  ASSUME NEW d \in Seq(Int), NEW b \in Nat
  PROVE  Number(d, b) \in Int
<1>1. Len(d) \in Nat
  BY LenProperties
<1>2. PICK h : Numbers(h, d, b, Len(d)) /\ Number(d, b) = h[Len(d)]
  BY <1>1, NumbersExist
<1> QED
  BY <1>1, <1>2 DEF Numbers

\* What the encoder of a column writes are bytes.
LEMMA EncodeColumnTyped ==
  ASSUME NEW type \in Types, NEW c \in ColumnValues(type)
  PROVE  EncodeColumn(type, c) \in Seq(Bytes)
<1>1. CASE type = "INTEGER"
  <2>1. c \in Int
    BY <1>1 DEF ColumnValues
  <2> QED
    BY <1>1, <2>1, IntegerSurvives DEF EncodeColumn
<1>2. CASE type = "REAL"
  <2>1. c \in -HalfRange(8) .. HalfRange(8) - 1
    BY <1>2 DEF ColumnValues
  <2> QED
    BY <1>2, <2>1, RealSurvives DEF EncodeColumn
<1>3. CASE type = "TEXT"
  <2>1. c \in Seq(Bytes)
    BY <1>3 DEF ColumnValues
  <2> QED
    BY <1>3, <2>1, EncodesExist DEF EncodeColumn
<1>4. CASE type = "NUMERIC"
  <2>1. c \in Int
    BY <1>4 DEF ColumnValues
  <2> QED
    BY <1>4, <2>1, NumericSurvives DEF EncodeColumn
<1>5. CASE type = "BLOB"
  <2>1. c \in Seq(Bytes)
    BY <1>5 DEF ColumnValues
  <2> QED
    BY <1>5, <2>1 DEF EncodeColumn
<1> QED
  BY <1>1, <1>2, <1>3, <1>4, <1>5 DEF Types

\* A slice that ends within the bytes.
LEMMA SubSeqTyped ==
  ASSUME NEW S, NEW s \in Seq(S), NEW m \in Nat, m > 0, NEW n \in Nat, n <= Len(s)
  PROVE  /\ SubSeq(s, m, n) \in Seq(S)
         /\ Len(SubSeq(s, m, n)) = IF m <= n THEN n - m + 1 ELSE 0
         /\ \A i \in 1 .. n - m + 1 : SubSeq(s, m, n)[i] = s[m + i - 1]
<1>1. Len(s) \in Nat
  BY LenProperties
<1>2. \A i \in m .. n : s[i] \in S
  BY <1>1, ElementOfSeq
<1> QED
  BY <1>2, SubSeqProperties, m \in Int, n \in Int

\* So do any bytes.
LEMMA UnsignedTyped ==
  ASSUME NEW d \in Seq(Bytes)
  PROVE  Unsigned(d) \in Int
<1>1. d \in Seq(Int)
  BY SeqMonotonic, BaseAssumption DEF Bytes
<1> QED
  BY <1>1, NumberTyped, BaseAssumption DEF Unsigned

\* Any bytes are read as a text.
LEMMA CharactersTyped ==
  ASSUME NEW bytes \in Seq(Bytes)
  PROVE  Characters(bytes) \in Seq(Bytes)
<1>1. PICK h : Reads(h, bytes)
  BY ReadsExist
<1>2. Len(bytes) \in 0 .. Len(bytes)
  BY LenProperties
<1> QED
  BY <1>1, <1>2 DEF Reads

\* Any bytes are read as a number.
LEMMA DecodeNumericTyped ==
  ASSUME NEW bytes \in Seq(Bytes)
  PROVE  DecodeNumeric(bytes) \in Int
<1>1. ASSUME NEW s \in Seq(Bytes)
      PROVE  Number([i \in 1 .. Len(s) |-> s[i] - Zero], Radix) \in Int
  <2>1. Len(s) \in Nat /\ \A i \in 1 .. Len(s) : s[i] \in Bytes
    BY LenProperties, ElementOfSeq
  <2>4. Zero \in Int /\ \A b \in Bytes : b \in Int
    BY DigitsAssumption, BaseAssumption DEF Bytes
  <2>2. ASSUME NEW i \in 1 .. Len(s)
        PROVE  s[i] - Zero \in Int
    <3>1. s[i] \in Int
      BY <2>1, <2>4
    <3> QED
      BY <2>4, <3>1
  <2>3. [i \in 1 .. Len(s) |-> s[i] - Zero] \in Seq(Int)
    BY <2>1, <2>2
  <2> HIDE <2>2
  <2> QED
    BY <2>3, NumberTyped, DigitsAssumption
<1>2. CASE Len(bytes) > 0 /\ bytes[1] = Minus
  <2>1. Tail(bytes) \in Seq(Bytes)
    BY <1>2, HeadTailProperties, EmptySeq
  <2> DEFINE s == Tail(bytes)
             x == Number([i \in 1 .. Len(s) |-> s[i] - Zero], Radix)
  <2>2. x \in Int
    BY <1>1, <2>1
  <2>3. DecodeNumeric(bytes) = -x
    BY <1>2 DEF DecodeNumeric
  <2> HIDE DEF x
  <2> QED
    BY <2>2, <2>3
<1>3. CASE ~ (Len(bytes) > 0 /\ bytes[1] = Minus)
  BY <1>1, <1>3 DEF DecodeNumeric
<1> QED
  BY <1>2, <1>3

\* Whatever bytes a column's decoder is given, it throws or makes a value of the
\* column's type of them.
LEMMA DecodeColumnTyped ==
  ASSUME NEW type \in Types, NEW k \in Seq(Bytes)
  PROVE  DecodeColumn(type, k) = Throws \/ DecodeColumn(type, k) \in ColumnValues(type)
<1>0. Len(k) \in Nat
  BY LenProperties
<1>1. CASE type \in {"INTEGER", "REAL"} /\ Len(k) < 8
  BY <1>0, <1>1 DEF DecodeColumn
<1>2. CASE type = "INTEGER" /\ Len(k) >= 8
  <2> DEFINE u == Unsigned(SubSeq(k, 5, 8))
  <2>1. u \in Int
    <3>1. SubSeq(k, 5, 8) \in Seq(Bytes)
      BY <1>0, <1>2, SubSeqTyped
    <3> QED
      BY <3>1, UnsignedTyped
  <2>2. Power(Base, 4) \in Nat /\ HalfRange(4) \in Nat
    BY HalfRangeProperties, 4 \in Nat \ {0}
  <2>3. DecodeInteger(k) = IF u < HalfRange(4) THEN u ELSE u - Power(Base, 4)
    BY DEF DecodeInteger
  <2> HIDE DEF u
  <2>4. DecodeInteger(k) \in Int
    BY <2>1, <2>2, <2>3
  <2>5. DecodeColumn(type, k) = DecodeInteger(k)
    BY <1>0, <1>2 DEF DecodeColumn
  <2> QED
    BY <1>2, <2>4, <2>5 DEF ColumnValues
<1>3. CASE type = "REAL" /\ Len(k) >= 8
  <2> DEFINE s == SubSeq(k, 1, 8)
             u == Unsigned(s)
             H == HalfRange(8)
  <2>1. s \in Seq(Bytes) /\ Len(s) = 8
    BY <1>0, <1>3, SubSeqTyped
  <2> HIDE DEF s
  <2>2. Power(Base, 8) = 2 * H /\ H \in Nat
    BY HalfRangeProperties, 8 \in Nat \ {0}
  <2>3. DecodeReal(s) = IF u < H THEN u ELSE H - 1 - u
    BY DEF DecodeReal
  <2>4. u \in 0 .. 2 * H - 1
    BY <2>1, <2>2, UnsignedBound
  <2>5. DecodeColumn(type, k) = DecodeReal(s)
    BY <1>0, <1>3 DEF DecodeColumn, s
  <2>6. ColumnValues(type) = -H .. H - 1
    BY <1>3 DEF ColumnValues
  <2> HIDE DEF u, H
  <2>7. DecodeReal(s) \in -H .. H - 1
    BY <2>2, <2>3, <2>4
  <2> QED
    BY <2>5, <2>6, <2>7
<1>4. CASE type = "TEXT"
  <2> DEFINE t == Characters(k)
  <2>1. t \in Seq(Bytes)
    BY CharactersTyped
  <2>2. DecodeColumn(type, k) = IF StartsWithBom(t) THEN Tail(t) ELSE t
    BY <1>4 DEF DecodeColumn, DecodeText
  <2>3. ColumnValues(type) = Seq(Bytes)
    BY <1>4 DEF ColumnValues
  <2> HIDE DEF t
  <2>4. StartsWithBom(t) => Tail(t) \in Seq(Bytes)
    BY <2>1, HeadTailProperties, EmptySeq DEF StartsWithBom
  <2> QED
    BY <2>1, <2>2, <2>3, <2>4
<1>5. CASE type = "NUMERIC"
  BY <1>5, DecodeNumericTyped DEF DecodeColumn, ColumnValues
<1>6. CASE type = "BLOB"
  BY <1>6 DEF DecodeColumn, ColumnValues
<1> QED
  BY <1>0, <1>1, <1>2, <1>3, <1>4, <1>5, <1>6 DEF Types

ExactColumn(type, c) ==
  /\ type = "INTEGER" => c \in -HalfRange(4) .. HalfRange(4) - 1
  /\ type = "TEXT" => Base - 1 \notin Range(c)

\* A column's encoder can read what it wrote.
LEMMA ColumnSurvives ==
  ASSUME NEW type \in Types, NEW c \in ColumnValues(type),
         type = "TEXT" => ~ StartsWithBom(c)
  PROVE  LET k == EncodeColumn(type, c)
         IN  /\ k \in Seq(Bytes)
             /\ DecodeColumn(type, k) \in ColumnValues(type)
             /\ EncodeColumn(type, DecodeColumn(type, k)) = k
             /\ ExactColumn(type, c) => DecodeColumn(type, k) = c
<1> DEFINE k == EncodeColumn(type, c)
<1>1. CASE type = "INTEGER"
  <2>1. c \in Int /\ k = EncodeInteger(c)
    BY <1>1 DEF ColumnValues, EncodeColumn
  <2>2. /\ k \in Seq(Bytes) /\ Len(k) = 8 /\ DecodeInteger(k) \in Int
        /\ EncodeInteger(DecodeInteger(k)) = k
        /\ c \in -HalfRange(4) .. HalfRange(4) - 1 => DecodeInteger(k) = c
    BY <2>1, IntegerSurvives
  <2> HIDE DEF k
  <2>3. DecodeColumn(type, k) = DecodeInteger(k)
    BY <1>1, <2>2 DEF DecodeColumn
  <2> QED
    BY <1>1, <2>2, <2>3 DEF ColumnValues, EncodeColumn, ExactColumn, k
<1>2. CASE type = "REAL"
  <2>1. c \in -HalfRange(8) .. HalfRange(8) - 1 /\ k = EncodeReal(c)
    BY <1>2 DEF ColumnValues, EncodeColumn
  <2>2. k \in Seq(Bytes) /\ Len(k) = 8 /\ DecodeReal(k) = c
    BY <2>1, RealSurvives
  <2> HIDE DEF k
  <2>3. SubSeq(k, 1, 8) = k
    BY <2>2, SubSeqFull
  <2>4. DecodeColumn(type, k) = DecodeReal(SubSeq(k, 1, 8))
    BY <1>2, <2>2 DEF DecodeColumn
  <2> QED
    BY <2>2, <2>3, <2>4 DEF k
<1>3. CASE type = "TEXT"
  <2>1. c \in Seq(Bytes) /\ k = EncodeText(c) /\ ~ StartsWithBom(c)
    BY <1>3 DEF ColumnValues, EncodeColumn
  <2>2. /\ k \in Seq(Bytes) /\ DecodeText(k) \in Seq(Bytes)
        /\ EncodeText(DecodeText(k)) = k
        /\ Base - 1 \notin Range(c) => DecodeText(k) = c
    BY <2>1, TextSurvives
  <2> HIDE DEF k
  <2>3. DecodeColumn(type, k) = DecodeText(k)
    BY <1>3 DEF DecodeColumn
  <2> QED
    BY <1>3, <2>2, <2>3 DEF ColumnValues, EncodeColumn, ExactColumn, k
<1>4. CASE type = "NUMERIC"
  <2>1. c \in Int /\ k = EncodeNumeric(c)
    BY <1>4 DEF ColumnValues, EncodeColumn
  <2>2. k \in Seq(Bytes) /\ DecodeNumeric(k) = c
    BY <2>1, NumericSurvives
  <2> HIDE DEF k
  <2>3. DecodeColumn(type, k) = c
    BY <1>4, <2>2 DEF DecodeColumn
  <2> QED
    BY <2>2, <2>3 DEF k
<1>5. CASE type = "BLOB"
  BY <1>5 DEF ColumnValues, EncodeColumn, DecodeColumn
<1> QED
  BY <1>1, <1>2, <1>3, <1>4, <1>5 DEF Types

-----------------------------------------------------------------------------
\* The first difference of two keys that differ within both: a position of
\* both, before which they agree.
LEMMA FirstDifferenceProperties ==
  ASSUME NEW a \in Seq(Int), NEW b \in Seq(Int), Differences(a, b) # {}
  PROVE  LET i == FirstDifference(a, b)
         IN  /\ i \in 1 .. Len(a) /\ i \in 1 .. Len(b)
             /\ a[i] # b[i]
             /\ \A j \in 1 .. i - 1 : a[j] = b[j]
<1> DEFINE D == Differences(a, b)
           i == FirstDifference(a, b)
<1>1. D \in SUBSET Nat
  BY DEF Differences
<1>2. \E k \in D : \A j \in D : k <= j
  BY <1>1, LeastElement
<1>3. i \in D /\ \A j \in D : i <= j
  BY <1>2 DEF FirstDifference
<1>4. i \in 1 .. Len(a) /\ i \in 1 .. Len(b) /\ a[i] # b[i]
  BY <1>3 DEF Differences
<1>5. ASSUME NEW j \in 1 .. i - 1
      PROVE  a[j] = b[j]
  <2>1. Len(a) \in Nat /\ Len(b) \in Nat /\ i \in Nat
    BY <1>4, LenProperties
  <2> HIDE DEF i
  <2>2. j \in 1 .. Len(a) /\ j <= Len(b) /\ ~ (i <= j)
    BY <1>4, <2>1
  <2>3. j \notin D
    BY <1>3, <2>2
  <2> QED
    BY <2>2, <2>3 DEF Differences
<1> QED
  BY <1>4, <1>5

\* What compareBytes computes, by the place where two keys first differ: either
\* they agree on all positions of both, or there is a first difference.
LEMMA CompareCases ==
  ASSUME NEW a \in Seq(Int), NEW b \in Seq(Int)
  PROVE  \/ /\ \A j \in 1 .. Len(a) : j <= Len(b) => a[j] = b[j]
            /\ CompareBytes(a, b) = Len(a) - Len(b)
         \/ \E i \in 1 .. Len(a) :
              /\ i <= Len(b)
              /\ a[i] # b[i]
              /\ \A j \in 1 .. i - 1 : a[j] = b[j]
              /\ CompareBytes(a, b) = a[i] - b[i]
<1>1. CASE Differences(a, b) = {}
  BY <1>1 DEF CompareBytes, Differences
<1>2. CASE Differences(a, b) # {}
  <2> DEFINE i == FirstDifference(a, b)
  <2>1. /\ i \in 1 .. Len(a) /\ i \in 1 .. Len(b)
        /\ a[i] # b[i]
        /\ \A j \in 1 .. i - 1 : a[j] = b[j]
    BY <1>2, FirstDifferenceProperties
  <2>2. CompareBytes(a, b) = a[i] - b[i]
    BY <1>2 DEF CompareBytes
  <2> HIDE DEF i
  <2>3. i <= Len(b)
    BY <2>1
  <2> QED
    BY <2>1, <2>2, <2>3
<1> QED
  BY <1>1, <1>2

\* compareBytes gives 0 for equal keys and for no others
\* (KeyEncoder.js:11, "0 if equal").
THEOREM CompareZero ==
  ASSUME NEW a \in Seq(Int), NEW b \in Seq(Int)
  PROVE  CompareBytes(a, b) = 0 <=> a = b
<1>1. ASSUME a = b PROVE CompareBytes(a, b) = 0
  BY <1>1, CompareCases
<1>2. ASSUME CompareBytes(a, b) = 0 PROVE a = b
  <2>1. \A i \in 1 .. Len(a) : i <= Len(b) => a[i] \in Int /\ b[i] \in Int
    OBVIOUS
  <2>2. \A x, y \in Int : x # y => x - y # 0
    OBVIOUS
  <2>3. ASSUME NEW i \in 1 .. Len(a), i <= Len(b), a[i] # b[i],
               CompareBytes(a, b) = a[i] - b[i]
        PROVE  FALSE
    BY <1>2, <2>1, <2>2, <2>3
  <2>4. /\ \A j \in 1 .. Len(a) : j <= Len(b) => a[j] = b[j]
        /\ CompareBytes(a, b) = Len(a) - Len(b)
    BY <2>3, CompareCases
  <2>5. Len(a) \in Nat /\ Len(b) \in Nat
    BY LenProperties
  <2>6. Len(a) = Len(b)
    BY <1>2, <2>4, <2>5
  <2>7. \A j \in 1 .. Len(a) : a[j] = b[j]
    BY <2>4, <2>5, <2>6
  <2> QED
    BY <2>6, <2>7, SeqEqual
<1> QED
  BY <1>1, <1>2

\* compareBytes changes its sign when its arguments are swapped: insert, search
\* and remove, which pass the sought key first, agree with the range search,
\* which passes it second.
THEOREM CompareAntisymmetric ==
  ASSUME NEW a \in Seq(Int), NEW b \in Seq(Int)
  PROVE  CompareBytes(a, b) = - CompareBytes(b, a)
<1>1. CASE \A j \in 1 .. Len(a) : j <= Len(b) => a[j] = b[j]
  BY <1>1, CompareCases
<1>2. CASE \E i \in 1 .. Len(a) :
             /\ i <= Len(b) /\ a[i] # b[i]
             /\ \A j \in 1 .. i - 1 : a[j] = b[j]
             /\ CompareBytes(a, b) = a[i] - b[i]
  <2>1. PICK i \in 1 .. Len(a) :
             /\ i <= Len(b) /\ a[i] # b[i]
             /\ \A j \in 1 .. i - 1 : a[j] = b[j]
             /\ CompareBytes(a, b) = a[i] - b[i]
    BY <1>2
  <2>2. PICK k \in 1 .. Len(b) :
             /\ k <= Len(a) /\ b[k] # a[k]
             /\ \A j \in 1 .. k - 1 : b[j] = a[j]
             /\ CompareBytes(b, a) = b[k] - a[k]
    BY <2>1, CompareCases
  <2>3. i = k
    BY <2>1, <2>2
  <2> QED
    BY <2>1, <2>2, <2>3
<1> QED
  BY <1>1, <1>2, CompareCases

\* x is less than y at position i, where they first differ or x has ended.
LessAt(x, y, i) ==
  /\ i \in 1 .. Len(y) /\ i <= Len(x) + 1
  /\ \A j \in 1 .. i - 1 : x[j] = y[j]
  /\ i <= Len(x) => x[i] < y[i]

\* compareBytes is negative exactly if there is such a position.
LEMMA CompareLess ==
  ASSUME NEW x \in Seq(Int), NEW y \in Seq(Int)
  PROVE  CompareBytes(x, y) < 0 <=> \E i \in Nat : LessAt(x, y, i)
<1>1. \A i \in 1 .. Len(x) : x[i] \in Int
  OBVIOUS
<1>2. \A i \in 1 .. Len(y) : y[i] \in Int
  OBVIOUS
<1>3. Len(x) \in Nat /\ Len(y) \in Nat
  OBVIOUS
<1>4. CASE /\ \A j \in 1 .. Len(x) : j <= Len(y) => x[j] = y[j]
           /\ CompareBytes(x, y) = Len(x) - Len(y)
  <2>1. ASSUME CompareBytes(x, y) < 0
        PROVE  LessAt(x, y, Len(x) + 1)
    <3>1. Len(x) < Len(y)
      BY <1>3, <1>4, <2>1
    <3> QED
      BY <1>3, <1>4, <3>1 DEF LessAt
  <2>2. ASSUME NEW i \in Nat, LessAt(x, y, i)
        PROVE  CompareBytes(x, y) < 0
    <3>1. ~ (i <= Len(x))
      BY <1>1, <1>2, <1>3, <1>4, <2>2 DEF LessAt
    <3>2. Len(x) < Len(y)
      BY <1>3, <2>2, <3>1 DEF LessAt
    <3> QED
      BY <1>3, <1>4, <3>2
  <2>3. Len(x) + 1 \in Nat
    BY <1>3
  <2> QED
    BY <2>1, <2>2, <2>3
<1>5. CASE \E k \in 1 .. Len(x) :
             /\ k <= Len(y) /\ x[k] # y[k]
             /\ \A j \in 1 .. k - 1 : x[j] = y[j]
             /\ CompareBytes(x, y) = x[k] - y[k]
  <2>1. PICK k \in 1 .. Len(x) :
             /\ k <= Len(y) /\ x[k] # y[k]
             /\ \A j \in 1 .. k - 1 : x[j] = y[j]
             /\ CompareBytes(x, y) = x[k] - y[k]
    BY <1>5
  <2>2. k \in 1 .. Len(y) /\ k \in Nat
    BY <1>3, <2>1
  <2>3. ASSUME CompareBytes(x, y) < 0
        PROVE  LessAt(x, y, k)
    <3>2. x[k] \in Int /\ y[k] \in Int
      BY <1>1, <1>2, <2>1, <2>2
    <3>1. x[k] < y[k]
      BY <2>1, <2>3, <3>2
    <3>3. k <= Len(x) + 1
      BY <1>3, <2>1
    <3> QED
      BY <2>1, <2>2, <3>1, <3>3 DEF LessAt
  <2>4. ASSUME NEW i \in Nat, LessAt(x, y, i)
        PROVE  CompareBytes(x, y) < 0
    <3>5. /\ i \in 1 .. Len(y) /\ i <= Len(x) + 1
          /\ \A j \in 1 .. i - 1 : x[j] = y[j]
          /\ i <= Len(x) => x[i] < y[i]
      BY <2>4 DEF LessAt
    <3>6. k < i => k \in 1 .. i - 1
      BY <2>2, <2>4
    <3>1. ~ (k < i)
      BY <2>1, <3>5, <3>6
    <3>7. i <= Len(x)
      BY <1>3, <2>1, <2>4, <3>1
    <3>2. i \in 1 .. Len(x) /\ i \in 1 .. Len(y) /\ x[i] < y[i]
      BY <1>3, <2>4, <3>5, <3>7
    <3>8. x[i] # y[i]
      BY <1>1, <1>2, <3>2
    <3>9. i < k => i \in 1 .. k - 1
      BY <2>1, <2>2, <3>2
    <3>3. ~ (i < k)
      BY <2>1, <3>8, <3>9
    <3>4. i = k
      BY <2>2, <3>1, <3>3
    <3> QED
      BY <1>1, <1>2, <2>1, <3>2, <3>4
  <2> QED
    BY <2>2, <2>3, <2>4
<1> QED
  BY <1>4, <1>5, CompareCases

\* compareBytes is transitive: with CompareZero and CompareAntisymmetric, it
\* orders all keys totally.
THEOREM CompareTransitive ==
  ASSUME NEW a \in Seq(Int), NEW b \in Seq(Int), NEW c \in Seq(Int),
         CompareBytes(a, b) < 0, CompareBytes(b, c) < 0
  PROVE  CompareBytes(a, c) < 0
<1> DEFINE l == Len(a)
           m == Len(b)
           n == Len(c)
<1>1. PICK i \in Nat : LessAt(a, b, i)
  BY CompareLess
<1>2. PICK k \in Nat : LessAt(b, c, k)
  BY CompareLess
<1>3. /\ l \in Nat /\ m \in Nat /\ n \in Nat
      /\ \A j \in 1 .. l : a[j] \in Int
      /\ \A j \in 1 .. m : b[j] \in Int
      /\ \A j \in 1 .. n : c[j] \in Int
  OBVIOUS
<1>4. /\ i \in 1 .. m /\ i <= l + 1
      /\ \A j \in 1 .. i - 1 : a[j] = b[j]
      /\ i <= l => a[i] < b[i]
  BY <1>1 DEF LessAt
<1>5. /\ k \in 1 .. n /\ k <= m + 1
      /\ \A j \in 1 .. k - 1 : b[j] = c[j]
      /\ k <= m => b[k] < c[k]
  BY <1>2 DEF LessAt
<1>6. ASSUME NEW d \in 1 .. n, d <= l + 1,
             \A j \in 1 .. d - 1 : a[j] = c[j],
             d <= l => a[d] < c[d]
      PROVE  CompareBytes(a, c) < 0
  <2>1. LessAt(a, c, d)
    BY <1>6 DEF LessAt
  <2>2. \E j \in Nat : LessAt(a, c, j)
    BY <2>1
  <2> QED
    BY <2>2, CompareLess
<1> HIDE DEF l, m, n
<1>7. CASE i < k
  <2>1. i \in 1 .. k - 1 /\ i \in 1 .. n /\ i <= l + 1
    BY <1>3, <1>4, <1>5, <1>7
  <2>2. b[i] = c[i]
    BY <1>5, <2>1
  <2>3. ASSUME NEW j \in 1 .. i - 1 PROVE a[j] = c[j]
    <3>1. j \in 1 .. k - 1
      BY <2>1
    <3> QED
      BY <1>4, <1>5, <3>1
  <2>4. i <= l => a[i] < c[i]
    BY <1>4, <2>2
  <2> QED
    BY <1>6, <2>1, <2>3, <2>4
<1>8. CASE k < i
  <2>1. k \in 1 .. i - 1 /\ k <= l + 1 /\ k <= m
    BY <1>3, <1>4, <1>5, <1>8
  <2>2. a[k] = b[k] /\ b[k] < c[k]
    BY <1>4, <1>5, <2>1
  <2>3. ASSUME NEW j \in 1 .. k - 1 PROVE a[j] = c[j]
    <3>1. j \in 1 .. i - 1
      BY <2>1
    <3> QED
      BY <1>4, <1>5, <3>1
  <2>4. k <= l => a[k] < c[k]
    BY <2>2
  <2> QED
    BY <1>5, <1>6, <2>1, <2>3, <2>4
<1>9. CASE i = k
  <2>1. i \in 1 .. n /\ i \in 1 .. m /\ i <= l + 1
    BY <1>4, <1>5, <1>9
  <2>2. ASSUME i <= l PROVE a[i] < c[i]
    <3> DEFINE x == a[i]
               y == b[i]
               z == c[i]
    <3>1. x < y /\ y < z
      BY <1>4, <1>5, <1>9, <2>1, <2>2
    <3>2. x \in Int /\ y \in Int /\ z \in Int
      BY <1>3, <2>1, <2>2
    <3> HIDE DEF x, y, z
    <3>3. x < z
      BY <3>1, <3>2
    <3> QED
      BY <3>3 DEF x, z
  <2>3. ASSUME NEW j \in 1 .. i - 1 PROVE a[j] = c[j]
    BY <1>4, <1>5, <1>9
  <2> QED
    BY <1>6, <2>1, <2>2, <2>3
<1> QED
  BY <1>7, <1>8, <1>9

-----------------------------------------------------------------------------
\* compareBytes returns a number.
LEMMA CompareTyped ==
  ASSUME NEW a \in Seq(Int), NEW b \in Seq(Int)
  PROVE  CompareBytes(a, b) \in Int
<1>1. Len(a) \in Nat /\ Len(b) \in Nat
  BY LenProperties
<1>2. \A i \in 1 .. Len(a) : i <= Len(b) => a[i] \in Int /\ b[i] \in Int
  BY <1>1, ElementOfSeq
<1>3. ASSUME NEW i \in 1 .. Len(a), i <= Len(b) PROVE a[i] - b[i] \in Int
  BY <1>2, <1>3
<1>4. Len(a) - Len(b) \in Int
  BY <1>1
<1> QED
  BY <1>3, <1>4, CompareCases

\* Keys are sequences of integers.
LEMMA BytesAreIntegers ==
  ASSUME NEW a \in Seq(Bytes)
  PROVE  a \in Seq(Int)
BY SeqMonotonic, BaseAssumption DEF Bytes

\* A smaller number stays smaller with another digit.
LEMMA SmallerWithDigit ==
  ASSUME NEW b \in Nat, NEW x \in Int, NEW y \in Int, x < y,
         NEW p \in 0 .. b - 1, NEW q \in Nat
  PROVE  x * b + p < y * b + q
<1>1. (x + 1) * b <= y * b
  BY Scale, x + 1 <= y
<1>2. (x + 1) * b = x * b + b /\ x * b \in Int /\ y * b \in Int
  OBVIOUS
<1> QED
  BY <1>1, <1>2

\* As many digits are ordered like the numbers they stand for.
LEMMA DigitsOrdered ==
  ASSUME NEW b \in Nat, b > 0, NEW a \in Seq(0 .. b - 1), NEW c \in Seq(0 .. b - 1),
         NEW n \in Nat, n = Len(a), n = Len(c), CompareBytes(a, c) < 0
  PROVE  Number(a, b) < Number(c, b)
<1>1. /\ a \in Seq(Int) /\ c \in Seq(Int)
      /\ \A i \in 1 .. n : a[i] \in 0 .. b - 1 /\ c[i] \in 0 .. b - 1
  <2>1. 0 .. b - 1 \subseteq Int
    OBVIOUS
  <2>2. a \in Seq(Int) /\ c \in Seq(Int)
    BY <2>1, SeqMonotonic
  <2> QED
    BY <2>2, ElementOfSeq
<1>2. PICK i \in Nat : LessAt(a, c, i)
  BY <1>1, CompareLess
<1>3. i \in 1 .. n /\ a[i] < c[i] /\ \A j \in 1 .. i - 1 : a[j] = c[j]
  BY <1>2 DEF LessAt
<1>4. PICK h : Numbers(h, a, b, n) /\ Number(a, b) = h[n]
  BY <1>1, NumbersExist
<1>5. PICK g : Numbers(g, c, b, n) /\ Number(c, b) = g[n]
  BY <1>1, NumbersExist
<1> DEFINE T == {k \in 0 .. n : IF k < i THEN h[k] = g[k] ELSE h[k] < g[k]}
<1>6. 0 \in T
  BY <1>3, <1>4, <1>5 DEF Numbers
<1>7. ASSUME NEW k \in 0 .. n - 1, k \in T PROVE k + 1 \in T
  <2> DEFINE x == h[k]
             y == g[k]
             p == a[k + 1]
             q == c[k + 1]
  <2>1. k + 1 \in 1 .. n /\ k + 1 \in 0 .. n /\ (k + 1) - 1 = k /\ k \in 0 .. n
    OBVIOUS
  <2>2. h[k + 1] = x * b + p /\ g[k + 1] = y * b + q /\ x \in Int /\ y \in Int
    BY <1>4, <1>5, <2>1 DEF Numbers
  <2>3. p \in 0 .. b - 1 /\ q \in 0 .. b - 1 /\ q \in Nat
    BY <1>1, <2>1
  <2>4. IF k < i THEN x = y ELSE x < y
    BY <1>7
  <2>5. k + 1 < i => p = q
    BY <1>3, <2>1
  <2>6. k + 1 = i => p < q
    BY <1>3
  <2> HIDE DEF x, y, p, q
  <2>7. CASE k + 1 < i
    <3>1. k < i /\ p = q
      BY <1>3, <2>5, <2>7
    <3>2. x = y
      BY <2>4, <3>1
    <3>3. h[k + 1] = g[k + 1]
      BY <2>2, <3>1, <3>2
    <3> QED
      BY <2>1, <2>7, <3>3
  <2>8. CASE k + 1 = i
    <3>1. x * b \in Int /\ x = y
      BY <2>2, <2>4, <2>8
    <3>2. x * b + p < y * b + q
      BY <2>3, <2>6, <2>8, <3>1
    <3> QED
      BY <2>1, <2>2, <2>8, <3>2
  <2>9. CASE k >= i
    <3>1. x * b + p < y * b + q
      <4>1. x < y
        BY <1>3, <2>4, <2>9
      <4> QED
        BY <2>2, <2>3, <4>1, SmallerWithDigit
    <3> QED
      BY <1>3, <2>1, <2>2, <2>9, <3>1
  <2> QED
    BY <1>3, <2>7, <2>8, <2>9
<1> HIDE DEF T
<1>8. \A k \in 0 .. n : k \in T
  <2>1. \A k \in 0 .. n - 1 : k \in T => k + 1 \in T
    BY <1>7
  <2> QED
    BY <1>6, <2>1, UpTo
<1>9. h[n] < g[n]
  BY <1>3, <1>8 DEF T
<1> QED
  BY <1>4, <1>5, <1>9

\* A map of keys that keeps what is less keeps the order.
LEMMA KeepsOrder ==
  ASSUME NEW a \in Seq(Int), NEW b \in Seq(Int), NEW x \in Seq(Int), NEW y \in Seq(Int),
         a = b => x = y,
         CompareBytes(a, b) < 0 => CompareBytes(x, y) < 0,
         CompareBytes(b, a) < 0 => CompareBytes(y, x) < 0
  PROVE  CompareBytes(x, y) < 0 <=> CompareBytes(a, b) < 0
<1>1. /\ CompareBytes(a, b) \in Int /\ CompareBytes(b, a) \in Int
      /\ CompareBytes(x, y) \in Int /\ CompareBytes(y, x) \in Int
  BY CompareTyped
<1>2. /\ CompareBytes(a, b) = -CompareBytes(b, a)
      /\ CompareBytes(x, y) = -CompareBytes(y, x)
  BY CompareAntisymmetric
<1>3. /\ CompareBytes(a, b) = 0 <=> a = b
      /\ CompareBytes(x, y) = 0 <=> x = y
  BY CompareZero
<1> QED
  BY <1>1, <1>2, <1>3

\* Big-endian numbers are ordered like the numbers.
LEMMA BigEndianOrdered ==
  ASSUME NEW n \in Nat, NEW v \in 0 .. Power(Base, n) - 1, NEW w \in 0 .. Power(Base, n) - 1
  PROVE  CompareBytes(BigEndian(v, n), BigEndian(w, n)) < 0 <=> v < w
<1> DEFINE a == BigEndian(v, n)
           c == BigEndian(w, n)
<1>1. Base \in Nat /\ Base > 0 /\ v \in Int /\ w \in Int
  BY PowerProperties, BaseAssumption
<1>2. /\ a \in Seq(0 .. Base - 1) /\ Len(a) = n
      /\ c \in Seq(0 .. Base - 1) /\ Len(c) = n
  BY <1>1, DigitsTyped DEF BigEndian
<1>3. Number(a, Base) = v /\ Number(c, Base) = w
  BY <1>1, NumberOfAllDigits DEF BigEndian
<1> HIDE DEF a, c
<1>4. CompareBytes(a, c) < 0 => v < w
  BY <1>1, <1>2, <1>3, DigitsOrdered
<1>5. CompareBytes(c, a) < 0 => w < v
  BY <1>1, <1>2, <1>3, DigitsOrdered
<1>6. a \in Seq(Int) /\ c \in Seq(Int)
  <2>1. 0 .. Base - 1 \subseteq Int
    BY <1>1
  <2> QED
    BY <1>2, <2>1, SeqMonotonic
<1>7. CompareBytes(a, c) \in Int /\ CompareBytes(c, a) \in Int
  BY <1>6, CompareTyped
<1>8. CompareBytes(a, c) = -CompareBytes(c, a)
  BY <1>6, CompareAntisymmetric
<1>9. CompareBytes(a, c) = 0 => v = w
  BY <1>3, <1>6, CompareZero
<1>10. CompareBytes(a, c) < 0 <=> v < w
  BY <1>1, <1>4, <1>5, <1>7, <1>8, <1>9
<1> QED
  BY <1>10 DEF a, c

\* A common prefix does not matter.
LEMMA CommonPrefix ==
  ASSUME NEW z \in Seq(Int), NEW a \in Seq(Int), NEW b \in Seq(Int)
  PROVE  CompareBytes(z \o a, z \o b) < 0 <=> CompareBytes(a, b) < 0
<1>1. ASSUME NEW c \in Seq(Int), NEW d \in Seq(Int), CompareBytes(c, d) < 0
      PROVE  CompareBytes(z \o c, z \o d) < 0
  <2> DEFINE x == z \o c
             y == z \o d
             m == Len(z)
  <2>1. /\ x \in Seq(Int) /\ m \in Nat /\ Len(c) \in Nat /\ Len(x) = m + Len(c)
        /\ \A k \in 1 .. m : x[k] = z[k]
        /\ \A k \in 1 .. Len(c) : x[m + k] = c[k]
    BY Joined
  <2>2. /\ y \in Seq(Int) /\ Len(d) \in Nat /\ Len(y) = m + Len(d)
        /\ \A k \in 1 .. m : y[k] = z[k]
        /\ \A k \in 1 .. Len(d) : y[m + k] = d[k]
    BY Joined
  <2>3. PICK i \in Nat : LessAt(c, d, i)
    BY <1>1, CompareLess
  <2>4. /\ i \in 1 .. Len(d) /\ i <= Len(c) + 1
        /\ \A j \in 1 .. i - 1 : c[j] = d[j]
        /\ i <= Len(c) => c[i] < d[i]
    BY <2>3 DEF LessAt
  <2> HIDE DEF x, y, m
  <2>5. m + i \in 1 .. Len(y) /\ m + i <= Len(x) + 1
    BY <2>1, <2>2, <2>4
  <2>6. ASSUME NEW j \in 1 .. (m + i) - 1 PROVE x[j] = y[j]
    <3>1. CASE j <= m
      BY <2>1, <2>2, <3>1
    <3>2. CASE j > m
      <4>1. j - m \in 1 .. i - 1 /\ j - m \in 1 .. Len(c) /\ j - m \in 1 .. Len(d) /\ m + (j - m) = j
        <5>1. j - m \in 1 .. i - 1 /\ m + (j - m) = j
          BY <2>1, <2>4, <3>2
        <5>2. j - m \in 1 .. Len(c) /\ j - m \in 1 .. Len(d)
          <6>1. Len(c) \in Nat /\ Len(d) \in Nat /\ i <= Len(d) /\ i <= Len(c) + 1
            BY <2>1, <2>2, <2>4
          <6> DEFINE l == j - m
          <6>2. l \in 1 .. i - 1
            BY <5>1
          <6> HIDE DEF l
          <6>3. l \in 1 .. Len(c) /\ l \in 1 .. Len(d)
            BY <6>1, <6>2
          <6> QED
            BY <6>3 DEF l
        <5> QED
          BY <5>1, <5>2
      <4>2. x[m + (j - m)] = c[j - m] /\ y[m + (j - m)] = d[j - m]
        BY <2>1, <2>2, <4>1
      <4> QED
        BY <2>4, <4>1, <4>2
    <3> QED
      BY <2>1, <3>1, <3>2
  <2>7. ASSUME m + i <= Len(x) PROVE x[m + i] < y[m + i]
    <3>1. i <= Len(c) /\ i \in 1 .. Len(c)
      BY <2>1, <2>4, <2>7
    <3> QED
      BY <2>1, <2>2, <2>4, <3>1
  <2>8. LessAt(x, y, m + i) /\ m + i \in Nat
    BY <2>1, <2>4, <2>5, <2>6, <2>7 DEF LessAt
  <2>9. CompareBytes(x, y) < 0
    BY <2>1, <2>2, <2>8, CompareLess
  <2> QED
    BY <2>9 DEF x, y
<1> DEFINE x == z \o a
           y == z \o b
<1>2. x \in Seq(Int) /\ y \in Seq(Int)
  BY ConcatProperties
<1>3. /\ CompareBytes(a, b) < 0 => CompareBytes(x, y) < 0
      /\ CompareBytes(b, a) < 0 => CompareBytes(y, x) < 0
  BY <1>1
<1>4. a = b => x = y
  OBVIOUS
<1> HIDE DEF x, y
<1>5. CompareBytes(x, y) < 0 <=> CompareBytes(a, b) < 0
  BY <1>2, <1>3, <1>4, KeepsOrder
<1> QED
  BY <1>5 DEF x, y

-----------------------------------------------------------------------------
\* The characters of texts without lone surrogates are encoded in order.
LEMMA Utf8Ordered ==
  ASSUME NEW c \in Bytes, NEW d \in Bytes, c < d, c # Base - 1, d # Base - 1
  PROVE  Utf8(c)[1] < Utf8(d)[1]
<1> DEFINE h == Base \div 2
<1>1. h \in Nat /\ Base = 2 * h /\ h >= 3
  BY BaseAssumption
<1>2. c \in 0 .. 2 * h - 1 /\ d \in 0 .. 2 * h - 1
  BY <1>1 DEF Bytes
<1>3. /\ c < h => Utf8(c)[1] = c
      /\ c >= h => Utf8(c)[1] = c + 1
      /\ d < h => Utf8(d)[1] = d
      /\ d >= h => Utf8(d)[1] = d + 1
  BY <1>1, <1>2 DEF Utf8
<1> HIDE DEF h
<1> QED
  BY <1>1, <1>2, <1>3

\* A text that is less than another has the lesser key.
LEMMA LessTextFirst ==
  ASSUME NEW a \in Seq(Bytes), NEW c \in Seq(Bytes),
         Base - 1 \notin Range(a), Base - 1 \notin Range(c),
         CompareBytes(a, c) < 0
  PROVE  CompareBytes(EncodeText(a), EncodeText(c)) < 0
<1> DEFINE x == EncodeText(a)
           y == EncodeText(c)
<1>1. /\ Len(a) \in Nat /\ \A i \in 1 .. Len(a) : a[i] \in Bytes /\ a[i] # Base - 1
      /\ Len(c) \in Nat /\ \A i \in 1 .. Len(c) : c[i] \in Bytes /\ c[i] # Base - 1
  BY LenProperties, ElementOfSeq DEF Range
<1>2. x \in Seq(Int) /\ y \in Seq(Int) /\ Len(x) \in Nat /\ Len(y) \in Nat
  BY EncodesExist, BytesAreIntegers, LenProperties
<1>3. PICK f : Encodes(f, a)
  BY EncodesExist
<1>4. PICK g : Encodes(g, c)
  BY EncodesExist
<1>5. PICK i \in Nat : LessAt(a, c, i)
  BY BytesAreIntegers, CompareLess
<1>6. /\ i \in 1 .. Len(c) /\ i <= Len(a) + 1
      /\ \A j \in 1 .. i - 1 : a[j] = c[j]
      /\ i <= Len(a) => a[i] < c[i]
  BY <1>5 DEF LessAt
<1>7. /\ f[0] = << >> /\ f[Len(a)] = x
      /\ \A j \in 0 .. Len(a) : Len(f[j]) \in Nat /\ Len(f[j]) <= Len(x)
      /\ \A j \in 1 .. Len(a) :
           /\ Len(f[j]) = Len(f[j - 1]) + Len(Utf8(a[j]))
           /\ \A k \in 1 .. Len(Utf8(a[j])) : x[Len(f[j - 1]) + k] = Utf8(a[j])[k]
  BY <1>3 DEF Encodes
<1>8. /\ g[0] = << >>
      /\ \A j \in 0 .. Len(c) : Len(g[j]) \in Nat /\ Len(g[j]) <= Len(y)
      /\ \A j \in 1 .. Len(c) :
           /\ Len(g[j]) = Len(g[j - 1]) + Len(Utf8(c[j]))
           /\ \A k \in 1 .. Len(Utf8(c[j])) : y[Len(g[j - 1]) + k] = Utf8(c[j])[k]
  BY <1>4 DEF Encodes
<1> HIDE DEF x, y
<1> DEFINE T == {j \in 0 .. i - 1 : /\ Len(f[j]) = Len(g[j])
                                   /\ \A k \in 1 .. Len(f[j]) : x[k] = y[k]}
<1>9. 0 \in T
  <2>1. Len(f[0]) = 0 /\ Len(g[0]) = 0
    BY <1>7, <1>8
  <2> QED
    BY <1>6, <2>1
<1>10. ASSUME NEW j \in 0 .. (i - 1) - 1, j \in T PROVE j + 1 \in T
  <2> DEFINE m == Len(f[j])
             u == Utf8(a[j + 1])
  <2>1. /\ j + 1 \in 1 .. Len(a) /\ j + 1 \in 1 .. Len(c) /\ (j + 1) - 1 = j
        /\ j + 1 \in 0 .. i - 1 /\ a[j + 1] = c[j + 1] /\ j \in 0 .. Len(a)
    <3>1. Len(a) \in Nat /\ Len(c) \in Nat /\ i \in Nat /\ i <= Len(c) /\ i <= Len(a) + 1
      BY <1>1, <1>6
    <3>2. j + 1 \in 1 .. i - 1 /\ j \in Nat
      BY <3>1
    <3>3. j + 1 \in 1 .. Len(a) /\ j + 1 \in 1 .. Len(c) /\ j \in 0 .. Len(a)
      BY <3>1, <3>2
    <3> QED
      BY <1>6, <3>2, <3>3
  <2>2. /\ Len(f[j + 1]) = m + Len(u)
        /\ \A k \in 1 .. Len(u) : x[m + k] = u[k]
    BY <1>7, <2>1
  <2>3. Len(g[j]) = m /\ \A k \in 1 .. m : x[k] = y[k]
    BY <1>10
  <2>4. /\ Len(g[j + 1]) = m + Len(u)
        /\ \A k \in 1 .. Len(u) : y[m + k] = u[k]
    <3> DEFINE v == Utf8(c[j + 1])
    <3>1. /\ Len(g[j + 1]) = Len(g[j]) + Len(v)
          /\ \A k \in 1 .. Len(v) : y[Len(g[j]) + k] = v[k]
      BY <1>8, <2>1
    <3>2. v = u
      BY <2>1
    <3> HIDE DEF u, v, m
    <3> QED
      BY <2>3, <3>1, <3>2
  <2>5. m \in Nat /\ Len(u) \in Nat
    <3>1. a[j + 1] \in Bytes
      BY <1>1, <2>1
    <3> QED
      BY <1>7, <2>1, <3>1, Utf8Properties
  <2> HIDE DEF m, u
  <2>6. ASSUME NEW k \in 1 .. m + Len(u) PROVE x[k] = y[k]
    <3>1. CASE k <= m
      BY <2>3, <2>5, <3>1
    <3>2. CASE k > m
      <4>1. k - m \in 1 .. Len(u) /\ m + (k - m) = k
        BY <2>5, <3>2
      <4> QED
        BY <2>2, <2>4, <4>1
    <3> QED
      BY <2>5, <3>1, <3>2
  <2> QED
    BY <2>1, <2>2, <2>4, <2>6
<1> HIDE DEF T
<1>11. i - 1 \in T
  <2>1. \A j \in 0 .. (i - 1) - 1 : j \in T => j + 1 \in T
    BY <1>10
  <2>2. \A j \in 0 .. i - 1 : j \in T
    BY <1>6, <1>9, <2>1, UpTo, i - 1 \in Nat
  <2> QED
    BY <1>6, <2>2
<1> DEFINE m == Len(f[i - 1])
<1>12. Len(g[i - 1]) = m /\ \A k \in 1 .. m : x[k] = y[k]
  BY <1>11 DEF T
<1>13. m \in Nat /\ m <= Len(x)
  <2>1. i - 1 \in 0 .. Len(a)
    BY <1>1, <1>6
  <2> QED
    BY <1>7, <2>1
<1>14. m + 1 \in 1 .. Len(y) /\ y[m + 1] = Utf8(c[i])[1]
  <2> DEFINE u == Utf8(c[i])
  <2>1. c[i] \in Bytes /\ i \in 0 .. Len(c)
    BY <1>1, <1>6
  <2>2. Len(u) \in 1 .. 2
    BY <2>1, Utf8Properties
  <2>3. Len(g[i]) = m + Len(u) /\ Len(g[i]) <= Len(y) /\ \A k \in 1 .. Len(u) : y[m + k] = u[k]
    BY <1>6, <1>8, <1>12, <2>1
  <2> HIDE DEF m, u
  <2>4. m + 1 \in 1 .. Len(y) /\ y[m + 1] = u[1]
    <3> DEFINE l == Len(g[i])
               n == Len(u)
    <3>1. l = m + n /\ l <= Len(y) /\ n \in 1 .. 2 /\ \A k \in 1 .. n : y[m + k] = u[k]
      BY <2>2, <2>3
    <3> HIDE DEF l, n
    <3>2. 1 \in 1 .. n /\ m + 1 \in 1 .. Len(y)
      BY <1>2, <1>13, <3>1
    <3> QED
      BY <3>1, <3>2
  <2> QED
    BY <2>4 DEF u
<1>15. ASSUME m + 1 <= Len(x) PROVE x[m + 1] < y[m + 1]
  <2>1. i <= Len(a)
    <3> SUFFICES ASSUME i = Len(a) + 1 PROVE FALSE
      BY <1>1, <1>6
    <3>1. i - 1 = Len(a)
      BY <1>1, <1>6
    <3>2. m = Len(x)
      BY <1>7, <3>1
    <3> QED
      BY <1>2, <1>15, <3>2
  <2>2. i \in 1 .. Len(a) /\ a[i] \in Bytes /\ c[i] \in Bytes /\ a[i] < c[i]
        /\ a[i] # Base - 1 /\ c[i] # Base - 1
    BY <1>1, <1>6, <2>1
  <2>3. Utf8(a[i])[1] < Utf8(c[i])[1]
    BY <2>2, Utf8Ordered
  <2>4. x[m + 1] = Utf8(a[i])[1]
    <3> DEFINE u == Utf8(a[i])
    <3>1. 1 \in 1 .. Len(u)
      BY <2>2, Utf8Properties
    <3>2. \A k \in 1 .. Len(u) : x[m + k] = u[k]
      BY <1>7, <2>2
    <3> HIDE DEF u, m
    <3>3. x[m + 1] = u[1]
      BY <3>1, <3>2
    <3> QED
      BY <3>3 DEF u
  <2> QED
    BY <1>14, <2>3, <2>4
<1> HIDE DEF m
<1>16. LessAt(x, y, m + 1) /\ m + 1 \in Nat
  <2>1. (m + 1) - 1 = m
    BY <1>13
  <2> QED
    BY <1>2, <1>12, <1>13, <1>14, <1>15, <2>1 DEF LessAt
<1>17. CompareBytes(x, y) < 0
  BY <1>2, <1>16, CompareLess
<1> QED
  BY <1>17 DEF x, y

OrderedColumn(type, c) ==
  /\ ExactColumn(type, c)
  /\ type # "NUMERIC"
  /\ type \in {"INTEGER", "REAL"} => c >= 0

ColumnLess(type, a, c) ==
  IF type \in {"TEXT", "BLOB"} THEN CompareBytes(a, c) < 0 ELSE a < c

\* The keys of a column are in the order of its values.
LEMMA ColumnOrdered ==
  ASSUME NEW type \in Types, NEW a \in ColumnValues(type), NEW c \in ColumnValues(type),
         OrderedColumn(type, a), OrderedColumn(type, c)
  PROVE  CompareBytes(EncodeColumn(type, a), EncodeColumn(type, c)) < 0 <=> ColumnLess(type, a, c)
<1>1. CASE type = "INTEGER"
  <2> DEFINE z == BigEndian(0, 4)
             H == HalfRange(4)
  <2>1. a \in 0 .. H - 1 /\ c \in 0 .. H - 1
    BY <1>1 DEF OrderedColumn, ExactColumn, ColumnValues
  <2>2. H \in Nat /\ Power(Base, 4) \in Nat /\ Power(Base, 4) = 2 * H
    BY HalfRangeProperties, 4 \in Nat \ {0}
  <2> HIDE DEF H
  <2>3. a \in 0 .. Power(Base, 4) - 1 /\ c \in 0 .. Power(Base, 4) - 1 /\ a \in Int /\ c \in Int
    BY <2>1, <2>2
  <2> DEFINE x == BigEndian(a, 4)
             y == BigEndian(c, 4)
  <2>4. z \in Seq(Int) /\ x \in Seq(Int) /\ y \in Seq(Int)
    BY <2>3, BigEndianTyped, BytesAreIntegers, 0 \in Int, 4 \in Nat
  <2>5. CompareBytes(x, y) < 0 <=> a < c
    BY <2>3, BigEndianOrdered, 4 \in Nat
  <2>6. EncodeColumn(type, a) = z \o x /\ EncodeColumn(type, c) = z \o y
    BY <1>1 DEF EncodeColumn, EncodeInteger
  <2> HIDE DEF x, y, z
  <2>7. CompareBytes(z \o x, z \o y) < 0 <=> a < c
    BY <2>4, <2>5, CommonPrefix
  <2> QED
    BY <1>1, <2>6, <2>7 DEF ColumnLess
<1>2. CASE type = "REAL"
  <2> DEFINE H == HalfRange(8)
  <2>1. a \in 0 .. H - 1 /\ c \in 0 .. H - 1
    BY <1>2 DEF OrderedColumn, ColumnValues
  <2>2. H \in Nat /\ Power(Base, 8) \in Nat /\ Power(Base, 8) = 2 * H
    BY HalfRangeProperties, 8 \in Nat \ {0}
  <2> HIDE DEF H
  <2>3. a \in 0 .. Power(Base, 8) - 1 /\ c \in 0 .. Power(Base, 8) - 1 /\ a >= 0 /\ c >= 0
    BY <2>1, <2>2
  <2>4. EncodeColumn(type, a) = BigEndian(a, 8) /\ EncodeColumn(type, c) = BigEndian(c, 8)
    BY <1>2, <2>3 DEF EncodeColumn, EncodeReal
  <2>5. CompareBytes(BigEndian(a, 8), BigEndian(c, 8)) < 0 <=> a < c
    BY <2>3, BigEndianOrdered, 8 \in Nat
  <2> QED
    BY <1>2, <2>4, <2>5 DEF ColumnLess
<1>3. CASE type = "TEXT"
  <2>1. /\ a \in Seq(Bytes) /\ c \in Seq(Bytes)
        /\ Base - 1 \notin Range(a) /\ Base - 1 \notin Range(c)
        /\ EncodeColumn(type, a) = EncodeText(a) /\ EncodeColumn(type, c) = EncodeText(c)
    BY <1>3 DEF OrderedColumn, ExactColumn, ColumnValues, EncodeColumn
  <2> DEFINE x == EncodeText(a)
             y == EncodeText(c)
  <2>2. /\ a \in Seq(Int) /\ c \in Seq(Int) /\ x \in Seq(Int) /\ y \in Seq(Int)
    BY <2>1, EncodesExist, BytesAreIntegers
  <2>3. /\ CompareBytes(a, c) < 0 => CompareBytes(x, y) < 0
        /\ CompareBytes(c, a) < 0 => CompareBytes(y, x) < 0
        /\ a = c => x = y
    BY <2>1, LessTextFirst
  <2> HIDE DEF x, y
  <2>4. CompareBytes(x, y) < 0 <=> CompareBytes(a, c) < 0
    BY <2>2, <2>3, KeepsOrder
  <2> QED
    BY <1>3, <2>1, <2>4 DEF ColumnLess, x, y
<1>4. CASE type = "BLOB"
  BY <1>4 DEF EncodeColumn, ColumnLess
<1> QED
  BY <1>1, <1>2, <1>3, <1>4 DEF Types, OrderedColumn

-----------------------------------------------------------------------------
\* A length prefix can be read back, if it holds the length.
LEMMA LengthPrefix ==
  ASSUME NEW l \in Nat, l < Power(Base, 2)
  PROVE  LET p == BigEndian(l, 2)
         IN  /\ p \in Seq(Bytes) /\ Len(p) = 2 /\ p[1] \in Nat /\ p[2] \in Nat
             /\ p[1] * Base + p[2] = l
<1> DEFINE p == BigEndian(l, 2)
<1>1. Base \in Nat /\ Base > 0
  BY BaseAssumption
<1>2. p \in Seq(Bytes) /\ Len(p) = 2
  BY BigEndianTyped, l \in Int, 2 \in Nat
<1>3. Number(p, Base) = l
  <2>1. Power(Base, 2) \in Nat
    BY <1>1, PowerProperties, 2 \in Nat
  <2>2. l \in 0 .. Power(Base, 2) - 1
    BY <2>1
  <2> QED
    BY <1>1, <2>2, NumberOfAllDigits, 2 \in Nat DEF BigEndian
<1> HIDE DEF p
<1>4. p[1] \in Nat /\ p[2] \in Nat
  <2>1. 1 \in 1 .. Len(p) /\ 2 \in 1 .. Len(p)
    BY <1>2
  <2>2. p[1] \in Bytes /\ p[2] \in Bytes
    BY <1>2, <2>1, ElementOfSeq
  <2> QED
    BY <1>1, <2>2 DEF Bytes
<1>5. PICK h : Numbers(h, p, Base, 2) /\ Number(p, Base) = h[2]
  BY <1>1, <1>2, BytesAreIntegers, NumbersExist, 2 \in Nat
<1>6. h[0] = 0 /\ h[1] = h[0] * Base + p[1] /\ h[2] = h[1] * Base + p[2]
  BY <1>5 DEF Numbers
<1>7. h[1] = p[1]
  BY <1>1, <1>4, <1>6
<1>8. p[1] * Base + p[2] = l
  BY <1>3, <1>5, <1>6, <1>7
<1> QED
  BY <1>2, <1>4, <1>8 DEF p

\* Any two bytes are a length.
LEMMA PrefixTyped ==
  ASSUME NEW k \in Seq(Bytes), NEW o \in Nat
  PROVE  PrefixAt(k, o) \in Nat
<1>1. Len(k) \in Nat /\ Base \in Nat
  BY LenProperties, BaseAssumption
<1>2. \A i \in Nat \ {0} : ByteAt(k, i) \in Nat
  BY <1>1, ElementOfSeq DEF ByteAt, Bytes
<1>3. ByteAt(k, o + 1) \in Nat /\ ByteAt(k, o + 2) \in Nat
  BY <1>2
<1> DEFINE x == ByteAt(k, o + 1)
           y == ByteAt(k, o + 2)
<1>4. x \in Nat /\ y \in Nat
  BY <1>3
<1>5. PrefixAt(k, o) = x * Base + y
  BY DEF PrefixAt
<1> HIDE DEF x, y
<1>6. x * Base + y \in Nat
  BY <1>1, <1>4
<1> QED
  BY <1>5, <1>6

\* Where the columns end in a key.
Ends(h, n, k) ==
  /\ Offsets(n, k) = h
  /\ h[0] = 0
  /\ \A i \in 0 .. n : h[i] \in Nat
  /\ \A i \in 1 .. n : h[i] = h[i - 1] + 2 + PrefixAt(k, h[i - 1])

\* Offsets adds up the columns' prefixes and lengths.
LEMMA EndsExist ==
  ASSUME NEW n \in Nat, NEW k \in Seq(Bytes)
  PROVE  \E h : Ends(h, n, k)
<1> DEFINE g == [i \in 1 .. n |-> [t \in Nat |-> t + 2 + PrefixAt(k, t)]]
<1>1. ASSUME NEW i \in 1 .. n, NEW t \in Nat
      PROVE  g[i][t] = t + 2 + PrefixAt(k, t) /\ g[i][t] \in Nat
  <2>1. PrefixAt(k, t) \in Nat
    BY PrefixTyped
  <2> QED
    BY <2>1
<1> HIDE DEF g
<1>2. Steps(g, n, Nat)
  BY <1>1 DEF Steps
<1>3. PICK f : Iterates(f, g, n, Nat, 0)
  BY <1>2, Recursion, 0 \in Nat
<1>4. f = [i \in 0 .. n |-> IF i = 0 THEN 0 ELSE f[i - 1] + 2 + PrefixAt(k, f[i - 1])]
  <2>1. f \in [0 .. n -> Nat] /\ f[0] = 0
    BY <1>3 DEF Iterates
  <2>2. ASSUME NEW i \in 1 .. n PROVE f[i] = f[i - 1] + 2 + PrefixAt(k, f[i - 1])
    <3>1. f[i] = g[i][f[i - 1]] /\ f[i - 1] \in Nat
      BY <1>3 DEF Iterates
    <3> QED
      BY <1>1, <3>1
  <2> QED
    BY <2>1, <2>2
<1>5. PICK h : /\ h = [i \in 0 .. n |-> IF i = 0 THEN 0 ELSE h[i - 1] + 2 + PrefixAt(k, h[i - 1])]
               /\ Offsets(n, k) = h
  BY <1>4 DEF Offsets
<1>6. \A i \in 0 .. n : h[i] = IF i = 0 THEN 0 ELSE h[i - 1] + 2 + PrefixAt(k, h[i - 1])
  BY <1>5, Zenon
<1>7. h[0] = 0 /\ \A i \in 1 .. n : h[i] = h[i - 1] + 2 + PrefixAt(k, h[i - 1])
  BY <1>6
<1> DEFINE T == {i \in 0 .. n : h[i] \in Nat}
<1>8. 0 \in T
  BY <1>7
<1>9. ASSUME NEW i \in 0 .. n - 1, i \in T PROVE i + 1 \in T
  <2>1. i + 1 \in 1 .. n /\ (i + 1) - 1 = i /\ h[i] \in Nat
    BY <1>9
  <2>2. h[i + 1] = h[i] + 2 + PrefixAt(k, h[i]) /\ PrefixAt(k, h[i]) \in Nat
    BY <1>7, <2>1, PrefixTyped
  <2> QED
    BY <2>1, <2>2
<1> HIDE DEF T
<1>10. \A i \in 0 .. n : i \in T
  <2>1. \A i \in 0 .. n - 1 : i \in T => i + 1 \in T
    BY <1>9
  <2> QED
    BY <1>8, <2>1, UpTo
<1>11. \A i \in 0 .. n : h[i] \in Nat
  BY <1>10 DEF T
<1>12. Ends(h, n, k)
  BY <1>5, <1>7, <1>11 DEF Ends
<1> QED
  BY <1>12

\* Any slice is bytes.
LEMMA SliceTyped ==
  ASSUME NEW k \in Seq(Bytes), NEW o \in Nat
  PROVE  Slice(k, o) \in Seq(Bytes)
<1> DEFINE end == o + 2 + PrefixAt(k, o)
           last == IF end < Len(k) THEN end ELSE Len(k)
<1>1. end \in Nat /\ Len(k) \in Nat
  <2>1. PrefixAt(k, o) \in Nat
    BY PrefixTyped
  <2> QED
    BY <2>1, LenProperties
<1>2. Slice(k, o) = SubSeq(k, o + 3, last)
  BY DEF Slice
<1> HIDE DEF end
<1>3. last \in Nat /\ last <= Len(k)
  BY <1>1
<1> HIDE DEF last
<1>4. SubSeq(k, o + 3, last) \in Seq(Bytes)
  <2>1. o + 3 \in Nat /\ o + 3 > 0
    OBVIOUS
  <2> QED
    BY <1>3, <2>1, SubSeqTyped
<1> QED
  BY <1>2, <1>4

\* A key begins with what is read back from it.
LEMMA SliceOfPart ==
  ASSUME NEW k \in Seq(Bytes), NEW o \in Nat, NEW c \in Seq(Bytes),
         Len(c) < Power(Base, 2), o + 2 + Len(c) <= Len(k),
         \A i \in 1 .. 2 : k[o + i] = BigEndian(Len(c), 2)[i],
         \A i \in 1 .. Len(c) : k[o + 2 + i] = c[i]
  PROVE  PrefixAt(k, o) = Len(c) /\ Slice(k, o) = c
<1> DEFINE l == Len(c)
           p == BigEndian(l, 2)
<1>1. l \in Nat /\ Len(k) \in Nat
  BY LenProperties
<1>2. p[1] \in Nat /\ p[2] \in Nat /\ p[1] * Base + p[2] = l
  BY <1>1, LengthPrefix
<1>3. k[o + 1] = p[1] /\ k[o + 2] = p[2]
  OBVIOUS
<1>4. o + 2 + l <= Len(k) /\ \A i \in 1 .. l : k[o + 2 + i] = c[i]
  OBVIOUS
<1> HIDE DEF l, p
<1>5. PrefixAt(k, o) = l
  <2>1. o + 1 <= Len(k) /\ o + 2 <= Len(k)
    BY <1>1, <1>4
  <2>2. ByteAt(k, o + 1) = p[1] /\ ByteAt(k, o + 2) = p[2]
    BY <1>3, <2>1 DEF ByteAt
  <2> QED
    BY <1>2, <2>2 DEF PrefixAt
<1> DEFINE n == o + 2 + l
           s == SubSeq(k, o + 3, n)
<1>6. Slice(k, o) = s
  <2> DEFINE end == o + 2 + PrefixAt(k, o)
  <2>1. end = n
    BY <1>5
  <2>2. Slice(k, o) = SubSeq(k, o + 3, IF end < Len(k) THEN end ELSE Len(k))
    BY DEF Slice
  <2> HIDE DEF end
  <2>3. (IF end < Len(k) THEN end ELSE Len(k)) = n
    <3>1. n \in Nat /\ n <= Len(k)
      BY <1>1, <1>4
    <3> HIDE DEF n
    <3> QED
      BY <1>1, <2>1, <3>1
  <2> QED
    BY <2>2, <2>3
<1>7. n \in Nat /\ n <= Len(k) /\ o + 3 \in Nat /\ o + 3 > 0
  BY <1>1, <1>4
<1>8. /\ s \in Seq(Bytes)
      /\ Len(s) = IF o + 3 <= n THEN n - (o + 3) + 1 ELSE 0
      /\ \A i \in 1 .. n - (o + 3) + 1 : s[i] = k[(o + 3) + i - 1]
  <2> HIDE DEF n
  <2> QED
    BY <1>7, SubSeqTyped
<1> HIDE DEF s
<1>9. Len(s) = l
  BY <1>1, <1>8
<1>10. ASSUME NEW i \in 1 .. l PROVE s[i] = c[i]
  <2>1. n - (o + 3) + 1 = l /\ (o + 3) + i - 1 = o + 2 + i
    BY <1>1
  <2> QED
    BY <1>4, <1>8, <2>1
<1>11. s = c
  BY <1>8, <1>9, <1>10, SeqEqual DEF l
<1> QED
  BY <1>5, <1>6, <1>11 DEF l

-----------------------------------------------------------------------------
\* What the encoder of its column makes of the value of column i.
ColumnKey(types, v, i) == EncodeColumn(types[i], v[i])

\* The columns of a key, as its length prefixes tell.
Layout(types, v, k) ==
  LET n == Len(types)
      offset == Offsets(n, k)
  IN  /\ offset[n] = Len(k)
      /\ \A i \in 1 .. n : /\ offset[i - 1] \in Nat
                           /\ offset[i - 1] + 2 <= Len(k)
                           /\ Slice(k, offset[i - 1]) = ColumnKey(types, v, i)

\* A row has a value of its type for each column, and the value a key.
LEMMA RowTyped ==
  ASSUME NEW types \in Seq(Types), NEW v, IsRow(types, v)
  PROVE  /\ Len(types) \in Nat /\ DOMAIN v = 1 .. Len(types) /\ Len(v) = Len(types)
         /\ \A i \in 1 .. Len(types) :
              /\ types[i] \in Types /\ v[i] \in ColumnValues(types[i])
              /\ ColumnKey(types, v, i) \in Seq(Bytes)
<1>1. Len(types) \in Nat /\ \A i \in 1 .. Len(types) : types[i] \in Types
  BY LenProperties, ElementOfSeq
<1>2. v = [i \in 1 .. Len(types) |-> v[i]] /\ \A i \in 1 .. Len(types) : v[i] \in ColumnValues(types[i])
  BY DEF IsRow
<1>3. DOMAIN v = 1 .. Len(types)
  BY <1>2
<1>4. Len(v) = Len(types)
  BY <1>1, <1>2
<1> QED
  BY <1>1, <1>2, <1>3, <1>4, EncodeColumnTyped DEF ColumnKey

\* CompoundEncoder.encode writes bytes, which its decode and compareBytes read as
\* the columns they are.
LEMMA CompoundLayout ==
  ASSUME NEW types \in Seq(Types), NEW v, IsRow(types, v)
  PROVE  LET k == EncodeCompound(types, v)
         IN  /\ k \in Seq(Bytes)
             /\ (\A i \in 1 .. Len(types) : Len(ColumnKey(types, v, i)) < Power(Base, 2))
                  => Layout(types, v, k)
<1> DEFINE n == Len(types)
           c == [i \in 1 .. n |-> ColumnKey(types, v, i)]
           s == [i \in 1 .. n |-> BigEndian(Len(c[i]), 2) \o c[i]]
           k == EncodeCompound(types, v)
<1>1. n \in Nat /\ \A i \in 1 .. n : c[i] \in Seq(Bytes) /\ c[i] = ColumnKey(types, v, i)
  BY RowTyped
<1>2. k = FlattenSeq(s)
  BY DEF EncodeCompound, ColumnKey
<1> HIDE DEF n, c, k
<1>3. ASSUME NEW i \in 1 .. n
      PROVE  LET p == BigEndian(Len(c[i]), 2)
             IN  /\ Len(c[i]) \in Nat
                 /\ p \in Seq(Bytes) /\ Len(p) = 2
                 /\ s[i] \in Seq(Bytes) /\ Len(s[i]) = 2 + Len(c[i])
                 /\ \A j \in 1 .. 2 : s[i][j] = p[j]
                 /\ \A j \in 1 .. Len(c[i]) : s[i][2 + j] = c[i][j]
  <2> DEFINE p == BigEndian(Len(c[i]), 2)
             b == c[i]
             q == s[i]
  <2>1. b \in Seq(Bytes) /\ Len(b) \in Nat
    BY <1>1, LenProperties
  <2>2. p \in Seq(Bytes) /\ Len(p) = 2
    BY <2>1, BigEndianTyped, Len(c[i]) \in Int, 2 \in Nat
  <2>3. q = p \o b
    OBVIOUS
  <2> HIDE DEF p, b, q
  <2>4. /\ q \in Seq(Bytes) /\ Len(q) = Len(p) + Len(b)
        /\ \A j \in 1 .. Len(p) : q[j] = p[j]
        /\ \A j \in 1 .. Len(b) : q[Len(p) + j] = b[j]
    <3>1. p \in Seq(Bytes) /\ b \in Seq(Bytes)
      BY <2>1, <2>2
    <3> QED
      BY <2>3, <3>1, Joined
  <2>5. /\ q \in Seq(Bytes) /\ Len(q) = 2 + Len(b)
        /\ \A j \in 1 .. 2 : q[j] = p[j]
        /\ \A j \in 1 .. Len(b) : q[2 + j] = b[j]
    BY <2>2, <2>4
  <2> QED
    BY <2>1, <2>2, <2>5 DEF p, b, q
<1>4. s \in Seq(Seq(Bytes)) /\ Len(s) = n
  <2>1. \A i \in 1 .. n : s[i] \in Seq(Bytes)
    BY <1>3
  <2>2. s = [i \in 1 .. n |-> s[i]]
    OBVIOUS
  <2> HIDE DEF s
  <2> QED
    BY <1>1, <2>1, <2>2, IsSequence
<1> HIDE DEF s
<1>5. PICK f : Flattens(f, s, Bytes)
  BY <1>4, FlattenPrefixes
<1>6. /\ k \in Seq(Bytes) /\ f[0] = << >> /\ f[n] = k
      /\ \A i \in 0 .. n : Len(f[i]) \in Nat /\ Len(f[i]) <= Len(k)
      /\ \A i \in 1 .. n : /\ Len(f[i]) = Len(f[i - 1]) + Len(s[i])
                           /\ \A j \in 1 .. Len(s[i]) : k[Len(f[i - 1]) + j] = s[i][j]
  BY <1>2, <1>4, <1>5 DEF Flattens, FlattensTo
<1>7. ASSUME \A i \in 1 .. n : Len(c[i]) < Power(Base, 2)
      PROVE  Layout(types, v, k)
  <2>1. PICK h : Ends(h, n, k)
    BY <1>1, <1>6, EndsExist
  <2>2. /\ Offsets(n, k) = h /\ h[0] = 0
        /\ \A i \in 1 .. n : h[i] = h[i - 1] + 2 + PrefixAt(k, h[i - 1])
    BY <2>1 DEF Ends
  <2>3. ASSUME NEW i \in 1 .. n
        PROVE  LET m == Len(f[i - 1])
               IN  /\ m \in Nat /\ m + 2 <= Len(k)
                   /\ Len(f[i]) = m + 2 + PrefixAt(k, m)
                   /\ Slice(k, m) = c[i]
    <3> DEFINE m == Len(f[i - 1])
               b == c[i]
               p == BigEndian(Len(b), 2)
    <3>1. i - 1 \in 0 .. n /\ i \in 0 .. n
      BY <1>1
    <3>2. m \in Nat /\ Len(k) \in Nat
      BY <1>6, <3>1, LenProperties
    <3>3. /\ b \in Seq(Bytes) /\ Len(b) \in Nat /\ Len(b) < Power(Base, 2)
          /\ Len(s[i]) = 2 + Len(b)
          /\ \A j \in 1 .. 2 : s[i][j] = p[j]
          /\ \A j \in 1 .. Len(b) : s[i][2 + j] = b[j]
      BY <1>1, <1>3, <1>7
    <3>4. /\ Len(f[i]) = m + Len(s[i]) /\ Len(f[i]) <= Len(k)
          /\ \A j \in 1 .. Len(s[i]) : k[m + j] = s[i][j]
      BY <1>6, <3>1
    <3> DEFINE e == Len(f[i])
    <3>5. e = m + Len(s[i]) /\ e <= Len(k)
      BY <3>4
    <3> HIDE DEF m, b, p, e
    <3>6. e = m + 2 + Len(b) /\ m + 2 + Len(b) <= Len(k) /\ m + 2 <= Len(k)
      BY <3>2, <3>3, <3>5
    <3>7. \A j \in 1 .. 2 : k[m + j] = p[j]
      <4>1. \A j \in 1 .. 2 : j \in 1 .. Len(s[i])
        BY <3>3
      <4> QED
        BY <3>3, <3>4, <4>1
    <3>8. ASSUME NEW j \in 1 .. Len(b) PROVE k[m + 2 + j] = b[j]
      <4>1. 2 + j \in 1 .. Len(s[i]) /\ m + (2 + j) = m + 2 + j
        BY <3>2, <3>3
      <4> QED
        BY <3>3, <3>4, <4>1
    <3>9. PrefixAt(k, m) = Len(b) /\ Slice(k, m) = b
      BY <1>6, <3>2, <3>3, <3>6, <3>7, <3>8, SliceOfPart DEF p
    <3> QED
      BY <3>2, <3>6, <3>9 DEF m, b, e
  <2> DEFINE T == {i \in 0 .. n : h[i] = Len(f[i])}
  <2>4. 0 \in T
    BY <1>1, <1>6, <2>2
  <2>5. ASSUME NEW i \in 0 .. n - 1, i \in T PROVE i + 1 \in T
    <3>1. i + 1 \in 1 .. n /\ (i + 1) - 1 = i /\ i + 1 \in 0 .. n
      BY <1>1
    <3>2. h[i] = Len(f[i])
      BY <2>5
    <3>3. Len(f[i + 1]) = Len(f[i]) + 2 + PrefixAt(k, Len(f[i]))
      BY <2>3, <3>1
    <3>4. h[i + 1] = h[i] + 2 + PrefixAt(k, h[i])
      BY <2>2, <3>1
    <3>5. h[i + 1] = Len(f[i + 1])
      BY <3>2, <3>3, <3>4
    <3> QED
      BY <3>1, <3>5
  <2> HIDE DEF T
  <2>6. \A i \in 0 .. n : i \in T
    <3>1. \A i \in 0 .. n - 1 : i \in T => i + 1 \in T
      BY <2>5
    <3> QED
      BY <1>1, <2>4, <3>1, UpTo
  <2>7. \A i \in 0 .. n : h[i] = Len(f[i])
    BY <2>6 DEF T
  <2>8. h[n] = Len(k)
    BY <1>1, <1>6, <2>7
  <2>9. ASSUME NEW i \in 1 .. n
        PROVE  h[i - 1] \in Nat /\ h[i - 1] + 2 <= Len(k) /\ Slice(k, h[i - 1]) = ColumnKey(types, v, i)
    <3>1. i - 1 \in 0 .. n
      BY <1>1
    <3>2. h[i - 1] = Len(f[i - 1])
      BY <2>7, <3>1
    <3> QED
      BY <1>1, <2>3, <3>2
  <2> QED
    BY <2>2, <2>8, <2>9 DEF Layout, n
<1> QED
  BY <1>1, <1>6, <1>7 DEF n, k

-----------------------------------------------------------------------------
\* c is the first of d that is not 0.
FirstOf(c, d, n) ==
  /\ (\A i \in 1 .. n : d[i] = 0) => c = 0
  /\ \A i \in 1 .. n : d[i] # 0 /\ (\A j \in 1 .. i - 1 : d[j] = 0) => c = d[i]

\* CompoundEncoder.compareBytes: the first column that differs decides.
LEMMA CompareCompoundCases ==
  ASSUME NEW types \in Seq(Types), NEW v, NEW w, IsRow(types, v), IsRow(types, w),
         NEW a, NEW b, Layout(types, v, a), Layout(types, w, b),
         NEW c, c = [i \in 1 .. Len(types) |->
                       CompareBytes(ColumnKey(types, v, i), ColumnKey(types, w, i))],
         Len(a) \in Nat, Len(b) \in Nat
  PROVE  FirstOf(CompareCompound(Len(types), a, b), c, Len(types))
<1> DEFINE n == Len(types)
           atA == Offsets(n, a)
           atB == Offsets(n, b)
           Column(i) == IF atA[i - 1] + 2 > Len(a) THEN -1
                        ELSE IF atB[i - 1] + 2 > Len(b) THEN 1
                        ELSE CompareBytes(Slice(a, atA[i - 1]), Slice(b, atB[i - 1]))
           d == [i \in 1 .. n |-> Column(i)]
           f == SelectInSeq(d, LAMBDA x : x # 0)
<1>1. CompareCompound(n, a, b) =
        CASE f # 0 -> Column(f)
          [] f = 0 /\ atA[n] < Len(a) -> 1
          [] f = 0 /\ atA[n] >= Len(a) /\ atB[n] < Len(b) -> -1
          [] OTHER -> 0
  BY DEF CompareCompound
<1>2. n \in Nat
  BY RowTyped
<1>3. ASSUME NEW i \in 1 .. n PROVE Column(i) = c[i]
  <2>1. /\ atA[i - 1] \in Nat /\ atA[i - 1] + 2 <= Len(a)
        /\ Slice(a, atA[i - 1]) = ColumnKey(types, v, i)
        /\ atB[i - 1] \in Nat /\ atB[i - 1] + 2 <= Len(b)
        /\ Slice(b, atB[i - 1]) = ColumnKey(types, w, i)
    BY DEF Layout
  <2>2. c[i] = CompareBytes(ColumnKey(types, v, i), ColumnKey(types, w, i))
    OBVIOUS
  <2> HIDE DEF atA, atB
  <2>3. ~ (atA[i - 1] + 2 > Len(a)) /\ ~ (atB[i - 1] + 2 > Len(b))
    BY <2>1
  <2> QED
    BY <2>1, <2>2, <2>3
<1>4. atA[n] = Len(a) /\ atB[n] = Len(b)
  BY DEF Layout
<1> HIDE DEF atA, atB, Column
<1>5. Len(d) = n /\ \A i \in 1 .. n : d[i] = c[i]
  BY <1>2, <1>3
<1>6. d = c
  BY <1>3
<1> DEFINE S == {i \in 1 .. Len(c) : c[i] # 0}
<1>7. f = IF S # {} THEN Min(S) ELSE 0
  BY <1>6 DEF SelectInSeq
<1>8. Len(c) = n
  BY <1>2
<1> HIDE DEF d, f
<1>9. ASSUME \A i \in 1 .. n : c[i] = 0
      PROVE  CompareCompound(n, a, b) = 0
  <2>1. f = 0
    BY <1>7, <1>8, <1>9
  <2>2. ~ (atA[n] < Len(a)) /\ ~ (atB[n] < Len(b))
    BY <1>4
  <2> QED
    BY <1>1, <2>1, <2>2
<1>10. ASSUME NEW i \in 1 .. n, c[i] # 0, \A j \in 1 .. i - 1 : c[j] = 0
       PROVE  CompareCompound(n, a, b) = c[i]
  <2>1. i \in S /\ S \in SUBSET Nat
    BY <1>8, <1>10
  <2>2. Min(S) \in S /\ \A j \in S : Min(S) <= j
    BY <2>1, MinProperties
  <2>3. Min(S) \in 1 .. n /\ c[Min(S)] # 0 /\ Min(S) <= i
    BY <1>8, <2>1, <2>2
  <2>4. Min(S) = i
    <3> DEFINE k == Min(S)
    <3>1. k \in 1 .. n /\ c[k] # 0 /\ k <= i
      BY <2>3
    <3> HIDE DEF k
    <3>2. ~ (k \in 1 .. i - 1)
      BY <1>10, <3>1
    <3>3. k = i
      BY <1>2, <3>1, <3>2
    <3> QED
      BY <3>3 DEF k
  <2>5. f = i /\ i # 0
    <3>1. S # {}
      BY <2>1
    <3> HIDE DEF S
    <3>2. f = i
      BY <1>7, <2>4, <3>1
    <3> QED
      BY <1>2, <3>2
  <2>6. CompareCompound(n, a, b) = Column(i)
    BY <1>1, <2>5
  <2> QED
    BY <1>3, <2>6
<1> QED
  BY <1>9, <1>10 DEF FirstOf

\* The key of row v is less than that of row w in the first column where they
\* differ.
KeyLess(columns, v, w) ==
  \E i \in 1 .. Len(columns) :
    /\ CompareBytes(ColumnKey(columns, v, i), ColumnKey(columns, w, i)) < 0
    /\ \A j \in 1 .. i - 1 : ColumnKey(columns, v, j) = ColumnKey(columns, w, j)

SameKeys(columns, v, w) ==
  \A i \in 1 .. Len(columns) : ColumnKey(columns, v, i) = ColumnKey(columns, w, i)

\* An encoder has at least one column.
LEMMA EncoderTyped ==
  ASSUME NEW encoder, IsEncoder(encoder)
  PROVE  /\ encoder.columns \in Seq(Types) /\ Len(encoder.columns) \in Nat \ {0}
         /\ encoder.columns[1] \in Types
         /\ ~ encoder.compound => Len(encoder.columns) = 1
<1>1. encoder.columns \in Seq(Types) /\ Len(encoder.columns) > 0
  BY DEF IsEncoder
<1>2. Len(encoder.columns) \in Nat \ {0}
  BY <1>1, LenProperties
<1> QED
  BY <1>1, <1>2, ElementOfSeq DEF IsEncoder

\* The lengths of the columns fit their prefixes.
LEMMA RegularLayout ==
  ASSUME NEW encoder, IsEncoder(encoder), encoder.compound,
         NEW v, IsRow(encoder.columns, v), Regular(encoder, v)
  PROVE  Layout(encoder.columns, v, Encode(encoder, v))
<1>1. encoder.columns \in Seq(Types)
  BY EncoderTyped
<1>2. Len(v) = Len(encoder.columns)
  BY <1>1, RowTyped
<1>3. \A i \in 1 .. Len(encoder.columns) : Len(ColumnKey(encoder.columns, v, i)) < Power(Base, 2)
  BY <1>2 DEF Regular, ColumnKey
<1> QED
  BY <1>1, <1>3, CompoundLayout DEF Encode

\* The bytes an encoder writes.
LEMMA EncodeTyped ==
  ASSUME NEW encoder, IsEncoder(encoder), NEW v, IsRow(encoder.columns, v)
  PROVE  Encode(encoder, v) \in Seq(Bytes)
<1>1. CASE encoder.compound
  BY <1>1, EncoderTyped, CompoundLayout DEF Encode
<1>2. CASE ~ encoder.compound
  <2>1. v[1] \in ColumnValues(encoder.columns[1]) /\ encoder.columns[1] \in Types
    BY <1>2, EncoderTyped DEF IsRow
  <2> QED
    BY <1>2, <2>1, EncodeColumnTyped DEF Encode
<1> QED
  BY <1>1, <1>2

\* Rows have the same key exactly if their columns have.
LEMMA SameKeysSameKey ==
  ASSUME NEW encoder, IsEncoder(encoder),
         NEW v, IsRow(encoder.columns, v), Regular(encoder, v),
         NEW w, IsRow(encoder.columns, w), Regular(encoder, w)
  PROVE  SameKeys(encoder.columns, v, w) <=> Encode(encoder, v) = Encode(encoder, w)
<1> DEFINE types == encoder.columns
<1>1. CASE encoder.compound
  <2>1. Layout(types, v, Encode(encoder, v)) /\ Layout(types, w, Encode(encoder, w))
    BY <1>1, RegularLayout
  <2>2. Encode(encoder, v) = Encode(encoder, w) => SameKeys(types, v, w)
    BY <2>1 DEF Layout, SameKeys
  <2>3. ASSUME SameKeys(types, v, w)
        PROVE  EncodeCompound(types, v) = EncodeCompound(types, w)
    <3>1. \A i \in 1 .. Len(types) : EncodeColumn(types[i], v[i]) = EncodeColumn(types[i], w[i])
      BY <2>3 DEF SameKeys, ColumnKey
    <3> DEFINE S(x) == [i \in 1 .. Len(types) |->
                         BigEndian(Len(EncodeColumn(types[i], x[i])), 2)
                           \o EncodeColumn(types[i], x[i])]
    <3>2. S(v) = S(w)
      BY <3>1
    <3>3. EncodeCompound(types, v) = FlattenSeq(S(v)) /\ EncodeCompound(types, w) = FlattenSeq(S(w))
      BY DEF EncodeCompound
    <3> HIDE DEF S
    <3> QED
      BY <3>2, <3>3
  <2> QED
    BY <1>1, <2>2, <2>3 DEF Encode
<1>2. CASE ~ encoder.compound
  <2>1. Len(types) = 1
    BY <1>2, EncoderTyped
  <2> QED
    BY <1>2, <2>1 DEF Encode, SameKeys, ColumnKey
<1> QED
  BY <1>1, <1>2

\* The encoder's compareBytes, by columns.
LEMMA CompareByColumns ==
  ASSUME NEW encoder, IsEncoder(encoder),
         NEW v, IsRow(encoder.columns, v), Regular(encoder, v),
         NEW w, IsRow(encoder.columns, w), Regular(encoder, w)
  PROVE  LET c == Compare(encoder, Encode(encoder, v), Encode(encoder, w))
         IN  /\ c \in Int
             /\ c < 0 <=> KeyLess(encoder.columns, v, w)
             /\ c > 0 <=> KeyLess(encoder.columns, w, v)
             /\ c = 0 <=> SameKeys(encoder.columns, v, w)
<1> DEFINE types == encoder.columns
           n == Len(types)
           d == [i \in 1 .. n |-> CompareBytes(ColumnKey(types, v, i), ColumnKey(types, w, i))]
           c == Compare(encoder, Encode(encoder, v), Encode(encoder, w))
<1>1. types \in Seq(Types) /\ n \in Nat /\ n > 0
  BY EncoderTyped
<1>2. ASSUME NEW i \in 1 .. n
      PROVE  /\ ColumnKey(types, v, i) \in Seq(Int) /\ ColumnKey(types, w, i) \in Seq(Int)
             /\ d[i] \in Int
             /\ d[i] = CompareBytes(ColumnKey(types, v, i), ColumnKey(types, w, i))
             /\ d[i] < 0 <=> CompareBytes(ColumnKey(types, v, i), ColumnKey(types, w, i)) < 0
             /\ d[i] > 0 <=> CompareBytes(ColumnKey(types, w, i), ColumnKey(types, v, i)) < 0
             /\ d[i] = 0 <=> ColumnKey(types, v, i) = ColumnKey(types, w, i)
  <2> DEFINE x == ColumnKey(types, v, i)
             y == ColumnKey(types, w, i)
  <2>1. x \in Seq(Int) /\ y \in Seq(Int)
    BY <1>1, RowTyped, BytesAreIntegers
  <2>2. d[i] = CompareBytes(x, y)
    OBVIOUS
  <2> HIDE DEF x, y, d
  <2>3. CompareBytes(x, y) \in Int /\ CompareBytes(y, x) \in Int
    BY <2>1, CompareTyped
  <2>4. CompareBytes(x, y) = -CompareBytes(y, x)
    BY <2>1, CompareAntisymmetric
  <2>5. CompareBytes(x, y) = 0 <=> x = y
    BY <2>1, CompareZero
  <2>6. d[i] > 0 <=> CompareBytes(y, x) < 0
    BY <2>2, <2>3, <2>4
  <2> QED
    BY <2>1, <2>2, <2>3, <2>5, <2>6 DEF x, y
<1>3. /\ (\A i \in 1 .. n : d[i] = 0) => c = 0
      /\ \A i \in 1 .. n : d[i] # 0 /\ (\A j \in 1 .. i - 1 : d[j] = 0) => c = d[i]
  <2>1. CASE encoder.compound
    <3> DEFINE a == Encode(encoder, v)
               b == Encode(encoder, w)
    <3>1. Layout(types, v, a) /\ Layout(types, w, b)
      BY <2>1, RegularLayout
    <3>2. Len(a) \in Nat /\ Len(b) \in Nat
      BY EncodeTyped, LenProperties
    <3>3. c = CompareCompound(n, a, b)
      BY <2>1 DEF Compare
    <3> HIDE DEF a, b, c
    <3>9. d = [i \in 1 .. Len(types) |->
                 CompareBytes(ColumnKey(types, v, i), ColumnKey(types, w, i))]
      OBVIOUS
    <3> HIDE DEF d, types
    <3>4. IsRow(types, v) /\ IsRow(types, w) /\ types \in Seq(Types)
      BY <1>1 DEF types
    <3>5. FirstOf(CompareCompound(Len(types), a, b), d, Len(types))
      BY <3>1, <3>2, <3>4, <3>9, CompareCompoundCases
    <3> QED
      BY <3>3, <3>5 DEF FirstOf
  <2>2. CASE ~ encoder.compound
    <3>1. n = 1
      BY <2>2, EncoderTyped
    <3>2. c = d[1]
      BY <2>2, <3>1 DEF Compare, Encode, ColumnKey
    <3> HIDE DEF c, d
    <3> QED
      BY <3>1, <3>2
  <2> QED
    BY <2>1, <2>2
<1> HIDE DEF d, c
<1>4. CASE \A i \in 1 .. n : d[i] = 0
  <2>1. SameKeys(types, v, w) /\ c = 0
    BY <1>2, <1>3, <1>4 DEF SameKeys
  <2>2. ~ KeyLess(types, v, w)
    BY <1>2, <1>4 DEF KeyLess
  <2>3. ~ KeyLess(types, w, v)
    <3>1. \A i \in 1 .. n : ~ (CompareBytes(ColumnKey(types, w, i), ColumnKey(types, v, i)) < 0)
      BY <1>2, <1>4
    <3> QED
      BY <3>1 DEF KeyLess
  <2> QED
    BY <2>1, <2>2, <2>3 DEF c
<1>5. CASE ~ \A i \in 1 .. n : d[i] = 0
  <2> DEFINE S == {i \in 1 .. n : d[i] # 0}
  <2>1. S \in SUBSET Nat /\ S # {}
    BY <1>1, <1>5
  <2>2. PICK i \in S : \A j \in S : i <= j
    BY <2>1, LeastElement
  <2>3. i \in 1 .. n /\ d[i] # 0
    BY <2>2
  <2>4. ASSUME NEW j \in 1 .. i - 1
        PROVE  j \in 1 .. n /\ d[j] = 0 /\ ColumnKey(types, v, j) = ColumnKey(types, w, j)
    <3>1. j \in 1 .. n /\ ~ (i <= j)
      BY <1>1, <2>3
    <3>2. d[j] = 0
      BY <2>2, <3>1
    <3> QED
      BY <1>2, <3>1, <3>2
  <2>5. c = d[i]
    BY <1>3, <2>3, <2>4
  <2>6. ~ SameKeys(types, v, w)
    BY <1>2, <2>3 DEF SameKeys
  <2>7. c < 0 => KeyLess(types, v, w)
    BY <1>2, <2>3, <2>4, <2>5 DEF KeyLess
  <2>8. c > 0 => KeyLess(types, w, v)
    <3> SUFFICES ASSUME c > 0 PROVE KeyLess(types, w, v)
      OBVIOUS
    <3>1. CompareBytes(ColumnKey(types, w, i), ColumnKey(types, v, i)) < 0
      BY <1>2, <2>3, <2>5
    <3>2. \A j \in 1 .. i - 1 : ColumnKey(types, w, j) = ColumnKey(types, v, j)
      BY <2>4
    <3> QED
      BY <2>3, <3>1, <3>2 DEF KeyLess
  <2>9. ASSUME NEW k \in 1 .. n, d[k] # 0,
               \A j \in 1 .. k - 1 : ColumnKey(types, v, j) = ColumnKey(types, w, j)
        PROVE  k = i
    <3>1. i <= k
      BY <2>2, <2>9
    <3>2. ~ (i \in 1 .. k - 1)
      BY <1>2, <2>3, <2>9
    <3> QED
      BY <1>1, <2>3, <3>1, <3>2
  <2>10. KeyLess(types, v, w) => c < 0
    <3> SUFFICES ASSUME KeyLess(types, v, w) PROVE c < 0
      OBVIOUS
    <3>1. PICK k \in 1 .. n :
            /\ CompareBytes(ColumnKey(types, v, k), ColumnKey(types, w, k)) < 0
            /\ \A j \in 1 .. k - 1 : ColumnKey(types, v, j) = ColumnKey(types, w, j)
      BY DEF KeyLess
    <3>2. d[k] < 0 /\ d[k] # 0
      BY <1>2, <3>1
    <3> QED
      BY <2>5, <2>9, <3>1, <3>2
  <2>11. KeyLess(types, w, v) => c > 0
    <3> SUFFICES ASSUME KeyLess(types, w, v) PROVE c > 0
      OBVIOUS
    <3>1. PICK k \in 1 .. n :
            /\ CompareBytes(ColumnKey(types, w, k), ColumnKey(types, v, k)) < 0
            /\ \A j \in 1 .. k - 1 : ColumnKey(types, w, j) = ColumnKey(types, v, j)
      BY DEF KeyLess
    <3>2. d[k] > 0 /\ d[k] # 0
      BY <1>2, <3>1
    <3>3. \A j \in 1 .. k - 1 : ColumnKey(types, v, j) = ColumnKey(types, w, j)
      BY <3>1
    <3> QED
      BY <2>5, <2>9, <3>2, <3>3
  <2>12. c \in Int /\ c # 0
    BY <1>2, <2>3, <2>5
  <2> QED
    BY <2>6, <2>7, <2>8, <2>10, <2>11, <2>12 DEF c
<1> QED
  BY <1>4, <1>5

-----------------------------------------------------------------------------
\* A key the encoder keeps whole.
IsKey(encoder, k) ==
  \E v : IsRow(encoder.columns, v) /\ Regular(encoder, v) /\ k = Encode(encoder, v)

\* Rows are ordered by their keys, column by column.
LEMMA KeyLessTransitive ==
  ASSUME NEW types \in Seq(Types), NEW u, IsRow(types, u), NEW v, IsRow(types, v),
         NEW w, IsRow(types, w), KeyLess(types, u, v), KeyLess(types, v, w)
  PROVE  KeyLess(types, u, w)
<1> DEFINE n == Len(types)
           a == [i \in 1 .. n |-> ColumnKey(types, u, i)]
           b == [i \in 1 .. n |-> ColumnKey(types, v, i)]
           c == [i \in 1 .. n |-> ColumnKey(types, w, i)]
<1>1. n \in Nat /\ \A i \in 1 .. n : a[i] \in Seq(Int) /\ b[i] \in Seq(Int) /\ c[i] \in Seq(Int)
  BY RowTyped, BytesAreIntegers
<1>2. PICK i \in 1 .. n : CompareBytes(a[i], b[i]) < 0 /\ \A j \in 1 .. i - 1 : a[j] = b[j]
  BY DEF KeyLess
<1>3. PICK k \in 1 .. n : CompareBytes(b[k], c[k]) < 0 /\ \A j \in 1 .. k - 1 : b[j] = c[j]
  BY DEF KeyLess
<1>4. (\E m \in 1 .. n : CompareBytes(a[m], c[m]) < 0 /\ \A j \in 1 .. m - 1 : a[j] = c[j])
        => KeyLess(types, u, w)
  <2> SUFFICES ASSUME NEW m \in 1 .. n, CompareBytes(a[m], c[m]) < 0,
                      \A j \in 1 .. m - 1 : a[j] = c[j]
               PROVE  KeyLess(types, u, w)
    OBVIOUS
  <2>1. \A j \in 1 .. m - 1 : j \in 1 .. n
    BY <1>1
  <2> QED
    BY <2>1 DEF KeyLess
<1> HIDE DEF n, a, b, c
<1>5. i \in Int /\ k \in Int
  BY <1>1
<1>6. CASE i < k
  <2>1. i \in 1 .. k - 1 /\ \A j \in 1 .. i - 1 : j \in 1 .. k - 1
    BY <1>1, <1>6
  <2> QED
    BY <1>2, <1>3, <1>4, <2>1
<1>7. CASE k < i
  <2>1. k \in 1 .. i - 1 /\ \A j \in 1 .. k - 1 : j \in 1 .. i - 1
    BY <1>1, <1>7
  <2> QED
    BY <1>2, <1>3, <1>4, <2>1
<1>8. CASE i = k
  <2>1. CompareBytes(a[i], c[i]) < 0
    BY <1>1, <1>2, <1>3, <1>8, CompareTransitive
  <2> QED
    BY <1>2, <1>3, <1>4, <1>8, <2>1
<1> QED
  BY <1>5, <1>6, <1>7, <1>8

\* compareBytes is a total order of the keys that an encoder keeps whole: 0 only
\* for equal keys, antisymmetric and transitive (KeyEncoder.compareBytes and
\* CompoundEncoder.compareBytes).
THEOREM KeysOrdered ==
  ASSUME NEW encoder, IsEncoder(encoder), NEW j, IsKey(encoder, j), NEW k, IsKey(encoder, k),
         NEW l, IsKey(encoder, l)
  PROVE  /\ Compare(encoder, j, k) \in Int
         /\ Compare(encoder, j, k) = 0 <=> j = k
         /\ Compare(encoder, j, k) < 0 <=> Compare(encoder, k, j) > 0
         /\ Compare(encoder, j, k) < 0 /\ Compare(encoder, k, l) < 0 => Compare(encoder, j, l) < 0
<1> DEFINE types == encoder.columns
<1>1. PICK u : IsRow(types, u) /\ Regular(encoder, u) /\ j = Encode(encoder, u)
  BY DEF IsKey
<1>2. PICK v : IsRow(types, v) /\ Regular(encoder, v) /\ k = Encode(encoder, v)
  BY DEF IsKey
<1>3. PICK w : IsRow(types, w) /\ Regular(encoder, w) /\ l = Encode(encoder, w)
  BY DEF IsKey
<1>4. /\ Compare(encoder, j, k) \in Int
      /\ Compare(encoder, j, k) < 0 <=> KeyLess(types, u, v)
      /\ Compare(encoder, j, k) = 0 <=> SameKeys(types, u, v)
  BY <1>1, <1>2, CompareByColumns
<1>5. /\ Compare(encoder, k, j) > 0 <=> KeyLess(types, u, v)
  BY <1>1, <1>2, CompareByColumns
<1>6. Compare(encoder, k, l) < 0 <=> KeyLess(types, v, w)
  BY <1>2, <1>3, CompareByColumns
<1>7. Compare(encoder, j, l) < 0 <=> KeyLess(types, u, w)
  BY <1>1, <1>3, CompareByColumns
<1>8. SameKeys(types, u, v) <=> j = k
  BY <1>1, <1>2, SameKeysSameKey
<1>9. types \in Seq(Types)
  BY EncoderTyped
<1>10. KeyLess(types, u, v) /\ KeyLess(types, v, w) => KeyLess(types, u, w)
  BY <1>1, <1>2, <1>3, <1>9, KeyLessTransitive
<1> QED
  BY <1>4, <1>5, <1>6, <1>7, <1>8, <1>10

\* Rows are equal if their columns are.
LEMMA RowsEqual ==
  ASSUME NEW types, NEW v, IsRow(types, v), NEW w, IsRow(types, w),
         \A i \in 1 .. Len(types) : v[i] = w[i]
  PROVE  v = w
BY DEF IsRow

\* What one decodes of a key one encodes to the same key, also where the value is
\* another; a value that is the only one of its key one gets back.
THEOREM KeysSurvive ==
  ASSUME NEW encoder, IsEncoder(encoder), Throws \notin Int, Throws \notin Seq(Bytes),
         NEW v, IsRow(encoder.columns, v), Regular(encoder, v)
  PROVE  LET k == Encode(encoder, v)
         IN  /\ k \in Seq(Bytes)
             /\ Throws \notin Range(Decode(encoder, k))
             /\ IsRow(encoder.columns, Decode(encoder, k))
             /\ Encode(encoder, Decode(encoder, k)) = k
             /\ Exact(encoder, v) => Decode(encoder, k) = v
<1> DEFINE types == encoder.columns
           k == Encode(encoder, v)
           n == Len(types)
           d == Decode(encoder, k)
<1>1. types \in Seq(Types) /\ n \in Nat /\ n > 0 /\ types[1] \in Types
  BY EncoderTyped
<1>2. Len(v) = n /\ \A i \in 1 .. n : types[i] \in Types /\ v[i] \in ColumnValues(types[i])
  BY <1>1, RowTyped
<1>3. /\ d = [i \in 1 .. n |-> d[i]]
      /\ \A i \in 1 .. n : d[i] = DecodeColumn(types[i], ColumnKey(types, v, i))
  <2>1. CASE encoder.compound
    <3>1. d = DecodeCompound(types, k)
      BY <2>1 DEF Decode
    <3> DEFINE atK == Offsets(n, k)
    <3>2. d = [i \in 1 .. n |-> DecodeColumn(types[i], Slice(k, atK[i - 1]))]
      BY <3>1 DEF DecodeCompound
    <3>3. \A i \in 1 .. n : Slice(k, atK[i - 1]) = ColumnKey(types, v, i)
      BY <2>1, RegularLayout DEF Layout
    <3> HIDE DEF atK, d, k, n
    <3> QED
      BY <3>2, <3>3
  <2>2. CASE ~ encoder.compound
    <3>1. n = 1 /\ k = EncodeColumn(types[1], v[1])
      BY <2>2, EncoderTyped DEF Encode
    <3>2. d = << DecodeColumn(types[1], k) >>
      BY <2>2 DEF Decode
    <3> HIDE DEF d, k, n
    <3> QED
      BY <3>1, <3>2 DEF ColumnKey
  <2> QED
    BY <2>1, <2>2
<1>4. ASSUME NEW i \in 1 .. n
      PROVE  /\ d[i] \in ColumnValues(types[i])
             /\ EncodeColumn(types[i], d[i]) = EncodeColumn(types[i], v[i])
             /\ Exact(encoder, v) => d[i] = v[i]
             /\ d[i] # Throws
  <2>1. types[i] = "TEXT" => ~ StartsWithBom(v[i])
    BY <1>2 DEF Regular
  <2>2. Exact(encoder, v) => ExactColumn(types[i], v[i])
    BY <1>2 DEF Exact, ExactColumn
  <2>3. d[i] = DecodeColumn(types[i], EncodeColumn(types[i], v[i]))
    BY <1>3 DEF ColumnKey
  <2>4. types[i] \in Types /\ v[i] \in ColumnValues(types[i])
    BY <1>2
  <2> HIDE DEF d, types
  <2>5. /\ d[i] \in ColumnValues(types[i])
        /\ EncodeColumn(types[i], d[i]) = EncodeColumn(types[i], v[i])
        /\ ExactColumn(types[i], v[i]) => d[i] = v[i]
    BY <2>1, <2>3, <2>4, ColumnSurvives
  <2>6. ColumnValues(types[i]) \subseteq Int \/ ColumnValues(types[i]) \subseteq Seq(Bytes)
    <3>1. -HalfRange(8) .. HalfRange(8) - 1 \subseteq Int
      BY HalfRangeProperties
    <3> QED
      BY <2>4, <3>1 DEF ColumnValues, Types
  <2> QED
    BY <2>2, <2>5, <2>6
<1> HIDE DEF d
<1>5. IsRow(types, d)
  BY <1>3, <1>4 DEF IsRow
<1>6. Exact(encoder, v) => d = v
  BY <1>4, <1>5, RowsEqual
<1>7. Throws \notin Range(d)
  BY <1>3, <1>4 DEF Range
<1>8. Encode(encoder, d) = k
  <2>1. CASE encoder.compound
    <3> DEFINE S(x) == [i \in 1 .. Len(types) |->
                         BigEndian(Len(EncodeColumn(types[i], x[i])), 2)
                           \o EncodeColumn(types[i], x[i])]
    <3>1. S(d) = S(v)
      BY <1>4
    <3>2. EncodeCompound(types, d) = FlattenSeq(S(d)) /\ EncodeCompound(types, v) = FlattenSeq(S(v))
      BY DEF EncodeCompound
    <3> HIDE DEF S
    <3> QED
      BY <2>1, <3>1, <3>2 DEF Encode
  <2>2. CASE ~ encoder.compound
    BY <1>1, <1>4, <2>2 DEF Encode
  <2> QED
    BY <2>1, <2>2
<1> QED
  BY <1>5, <1>6, <1>7, <1>8, EncodeTyped DEF d

\* Integers and doubles that are not negative, texts without lone surrogates and
\* blobs are ordered like their keys, and so are rows of these.
THEOREM OrderOfValues ==
  ASSUME NEW encoder, IsEncoder(encoder),
         NEW v, IsRow(encoder.columns, v), Ordered(encoder, v),
         NEW w, IsRow(encoder.columns, w), Ordered(encoder, w)
  PROVE  Compare(encoder, Encode(encoder, v), Encode(encoder, w)) < 0 <=> Less(encoder, v, w)
<1> DEFINE types == encoder.columns
           n == Len(types)
<1>1. types \in Seq(Types) /\ n \in Nat
  BY EncoderTyped
<1>2. /\ Len(v) = n /\ Len(w) = n
      /\ \A i \in 1 .. n : types[i] \in Types /\ v[i] \in ColumnValues(types[i])
                                              /\ w[i] \in ColumnValues(types[i])
  BY <1>1, RowTyped
<1>3. Regular(encoder, v) /\ Regular(encoder, w) /\ Exact(encoder, v) /\ Exact(encoder, w)
  BY DEF Ordered, Exact
<1>4. ASSUME NEW i \in 1 .. n
      PROVE  /\ CompareBytes(ColumnKey(types, v, i), ColumnKey(types, w, i)) < 0
                  <=> ColumnLess(types[i], v[i], w[i])
             /\ ColumnKey(types, v, i) = ColumnKey(types, w, i) <=> v[i] = w[i]
  <2>1. OrderedColumn(types[i], v[i]) /\ OrderedColumn(types[i], w[i])
    BY <1>2, <1>3 DEF Ordered, Exact, OrderedColumn, ExactColumn
  <2>2. ExactColumn(types[i], v[i]) /\ ExactColumn(types[i], w[i])
    BY <2>1 DEF OrderedColumn
  <2>3. types[i] = "TEXT" => ~ StartsWithBom(v[i]) /\ ~ StartsWithBom(w[i])
    BY <1>2, <1>3 DEF Regular
  <2>4. types[i] \in Types /\ v[i] \in ColumnValues(types[i]) /\ w[i] \in ColumnValues(types[i])
    BY <1>2
  <2>5. /\ DecodeColumn(types[i], ColumnKey(types, v, i)) = v[i]
        /\ DecodeColumn(types[i], ColumnKey(types, w, i)) = w[i]
    BY <2>2, <2>3, <2>4, ColumnSurvives DEF ColumnKey
  <2>6. v[i] = w[i] => ColumnKey(types, v, i) = ColumnKey(types, w, i)
    BY DEF ColumnKey
  <2> QED
    BY <2>1, <2>4, <2>5, <2>6, ColumnOrdered DEF ColumnKey
<1>5. KeyLess(types, v, w) <=> Less(encoder, v, w)
  <2>1. Less(encoder, v, w) <=>
          \E i \in 1 .. n : ColumnLess(types[i], v[i], w[i]) /\ \A j \in 1 .. i - 1 : v[j] = w[j]
    BY <1>2 DEF Less, ColumnLess
  <2>2. \A i \in 1 .. n : \A j \in 1 .. i - 1 : j \in 1 .. n
    BY <1>1
  <2> QED
    BY <1>4, <2>1, <2>2 DEF KeyLess
<1> QED
  BY <1>3, <1>5, CompareByColumns

-----------------------------------------------------------------------------
\* Any bytes whose columns do not throw are decoded as a row.
LEMMA DecodeTyped ==
  ASSUME NEW encoder, IsEncoder(encoder), NEW k \in Seq(Bytes),
         Throws \notin Range(Decode(encoder, k))
  PROVE  IsRow(encoder.columns, Decode(encoder, k))
<1> DEFINE types == encoder.columns
           n == Len(types)
           d == Decode(encoder, k)
<1>1. types \in Seq(Types) /\ n \in Nat /\ n > 0 /\ types[1] \in Types
  BY EncoderTyped
<1>2. \A i \in 1 .. n : types[i] \in Types
  BY <1>1, ElementOfSeq
<1>3. /\ d = [i \in 1 .. n |-> d[i]]
      /\ \A i \in 1 .. n : d[i] = Throws \/ d[i] \in ColumnValues(types[i])
  <2>1. CASE encoder.compound
    <3> DEFINE o == Offsets(n, k)
    <3>1. d = [i \in 1 .. n |-> DecodeColumn(types[i], Slice(k, o[i - 1]))]
      BY <2>1 DEF Decode, DecodeCompound
    <3>2. PICK h : Ends(h, n, k)
      BY <1>1, EndsExist
    <3>3. \A i \in 0 .. n : o[i] \in Nat
      BY <3>2 DEF Ends
    <3> HIDE DEF d, o, n
    <3>4. ASSUME NEW i \in 1 .. n PROVE d[i] = Throws \/ d[i] \in ColumnValues(types[i])
      <4> DEFINE s == Slice(k, o[i - 1])
      <4>1. i - 1 \in 0 .. n
        BY <1>1
      <4>2. o[i - 1] \in Nat
        BY <3>3, <4>1
      <4>3. s \in Seq(Bytes)
        BY <4>2, SliceTyped
      <4>4. d[i] = DecodeColumn(types[i], s)
        BY <3>1
      <4>5. types[i] \in Types
        BY <1>2
      <4> HIDE DEF s, types
      <4> QED
        BY <4>3, <4>4, <4>5, DecodeColumnTyped
    <3> QED
      BY <3>1, <3>4
  <2>2. CASE ~ encoder.compound
    <3>1. n = 1
      BY <2>2, EncoderTyped
    <3>2. d = << DecodeColumn(types[1], k) >>
      BY <2>2 DEF Decode
    <3>3. DecodeColumn(types[1], k) = Throws \/ DecodeColumn(types[1], k) \in ColumnValues(types[1])
      BY <1>1, DecodeColumnTyped
    <3> HIDE DEF d, n
    <3> QED
      BY <3>1, <3>2, <3>3
  <2> QED
    BY <2>1, <2>2
<1>4. \A i \in 1 .. n : d[i] # Throws
  <2>1. Throws \notin Range(d)
    OBVIOUS
  <2> HIDE DEF d, n
  <2>2. DOMAIN d = 1 .. n
    BY <1>3
  <2> QED
    BY <2>1, <2>2 DEF Range
<1> HIDE DEF d
<1> QED
  BY <1>3, <1>4 DEF IsRow, d

-----------------------------------------------------------------------------
\* The index over the keys.

Before(encoder, j, k) == Compare(encoder, j, k) < 0

KeysOf(encoder, rows) == {Encode(encoder, v) : v \in rows}

Whole(encoder, rows) == \A v \in rows : IsRow(encoder.columns, v) /\ Regular(encoder, v)

TotalOrder(encoder, keys) ==
  /\ \A j, k \in keys :
       /\ Compare(encoder, j, k) \in Int
       /\ Compare(encoder, j, k) = 0 <=> j = k
       /\ Compare(encoder, j, k) < 0 <=> Before(encoder, j, k)
       /\ Compare(encoder, j, k) > 0 <=> Before(encoder, k, j)
  /\ \A j, k, l \in keys : Before(encoder, j, k) /\ Before(encoder, k, l) => Before(encoder, j, l)

\* The keys of rows that the encoder keeps whole are totally ordered.
LEMMA Ordering ==
  ASSUME NEW encoder, IsEncoder(encoder), NEW rows, Whole(encoder, rows)
  PROVE  TotalOrder(encoder, KeysOf(encoder, rows))
<1>1. ASSUME NEW k \in KeysOf(encoder, rows) PROVE IsKey(encoder, k)
  BY DEF KeysOf, Whole, IsKey
<1>2. ASSUME NEW j \in KeysOf(encoder, rows), NEW k \in KeysOf(encoder, rows),
             NEW l \in KeysOf(encoder, rows)
      PROVE  /\ Compare(encoder, j, k) \in Int
             /\ Compare(encoder, j, k) = 0 <=> j = k
             /\ Compare(encoder, j, k) < 0 <=> Before(encoder, j, k)
             /\ Compare(encoder, j, k) > 0 <=> Before(encoder, k, j)
             /\ Before(encoder, j, k) /\ Before(encoder, k, l) => Before(encoder, j, l)
  <2>1. IsKey(encoder, j) /\ IsKey(encoder, k) /\ IsKey(encoder, l)
    BY <1>1
  <2>2. Compare(encoder, k, j) < 0 <=> Compare(encoder, j, k) > 0
    BY <2>1, KeysOrdered
  <2> QED
    BY <2>1, <2>2, KeysOrdered DEF Before
<1> QED
  BY <1>2 DEF TotalOrder

-----------------------------------------------------------------------------
Leaf(rows) == Seq([key : Seq(Bytes), row : rows])

Sorted(encoder, leaf) ==
  /\ \A i \in 1 .. Len(leaf) : leaf[i].key = Encode(encoder, leaf[i].row)
  /\ \A i, j \in 1 .. Len(leaf) : i < j =>
       /\ ~ Before(encoder, leaf[j].key, leaf[i].key)
       /\ leaf[i].row # leaf[j].row

\* An entry has a key and a row.
LEMMA LeafTyped ==
  ASSUME NEW rows, NEW leaf \in Leaf(rows)
  PROVE  /\ Len(leaf) \in Nat
         /\ \A i \in 1 .. Len(leaf) :
              /\ leaf[i] \in [key : Seq(Bytes), row : rows]
              /\ leaf[i].key \in Seq(Bytes) /\ leaf[i].row \in rows
<1>1. Len(leaf) \in Nat /\ \A i \in 1 .. Len(leaf) : leaf[i] \in [key : Seq(Bytes), row : rows]
  BY LenProperties, ElementOfSeq DEF Leaf
<1> QED
  BY <1>1

\* The keys of a sorted leaf are keys of rows.
LEMMA SortedKeys ==
  ASSUME NEW encoder, NEW rows, NEW leaf \in Leaf(rows), Sorted(encoder, leaf)
  PROVE  \A i \in 1 .. Len(leaf) : leaf[i].key \in KeysOf(encoder, rows)
BY LeafTyped DEF Sorted, KeysOf

\* A leaf of some rows is one of more rows.
LEMMA LeafMonotonic ==
  ASSUME NEW rows, NEW more, rows \subseteq more, NEW leaf \in Leaf(rows)
  PROVE  leaf \in Leaf(more)
<1>1. [key : Seq(Bytes), row : rows] \subseteq [key : Seq(Bytes), row : more]
  OBVIOUS
<1> QED
  BY <1>1, SeqMonotonic DEF Leaf

\* _findInsertPos
LEMMA InsertPosTyped ==
  ASSUME NEW S, NEW leaf \in Seq(S), NEW k
  PROVE  /\ InsertPos(leaf, k) \in 1 .. Len(leaf) + 1
         /\ \A i \in 1 .. InsertPos(leaf, k) - 1 : ~ (Compare(Encoder, k, leaf[i].key) <= 0)
         /\ InsertPos(leaf, k) <= Len(leaf) =>
              Compare(Encoder, k, leaf[InsertPos(leaf, k)].key) <= 0
         /\ Find(leaf, k) =
              IF InsertPos(leaf, k) <= Len(leaf)
                 /\ Compare(Encoder, k, leaf[InsertPos(leaf, k)].key) = 0
              THEN InsertPos(leaf, k) ELSE 0
<1> DEFINE C == {i \in 1 .. Len(leaf) : Compare(Encoder, k, leaf[i].key) <= 0}
           f == SelectInSeq(leaf, LAMBDA e : Compare(Encoder, k, e.key) <= 0)
<1>1. Len(leaf) \in Nat
  BY LenProperties
<1>2. f = IF C # {} THEN Min(C) ELSE 0
  BY DEF SelectInSeq
<1>3. InsertPos(leaf, k) = IF f = 0 THEN Len(leaf) + 1 ELSE f
  BY DEF InsertPos
<1>4. Find(leaf, k) = IF f # 0 /\ Compare(Encoder, k, leaf[f].key) = 0 THEN f ELSE 0
  BY DEF Find
<1>5. C \in SUBSET Nat
  BY <1>1
<1>6. C # {} => Min(C) \in C /\ \A i \in C : Min(C) <= i
  BY <1>5, MinProperties
<1> HIDE DEF f
<1> DEFINE c == Min(C)
<1>7. CASE C = {}
  <2>1. f = 0
    BY <1>2, <1>7
  <2>2. InsertPos(leaf, k) = Len(leaf) + 1 /\ Find(leaf, k) = 0
    BY <1>3, <1>4, <2>1
  <2>3. \A i \in 1 .. Len(leaf) : ~ (Compare(Encoder, k, leaf[i].key) <= 0)
    BY <1>7
  <2> QED
    BY <1>1, <2>2, <2>3
<1>8. CASE C # {}
  <2>1. c \in C /\ \A i \in C : c <= i
    BY <1>6, <1>8
  <2> HIDE DEF c
  <2>2. c \in 1 .. Len(leaf) /\ Compare(Encoder, k, leaf[c].key) <= 0
    BY <2>1
  <2>3. f = c
    BY <1>2, <1>8 DEF c
  <2>4. InsertPos(leaf, k) = c /\ (Find(leaf, k) = IF Compare(Encoder, k, leaf[c].key) = 0 THEN c ELSE 0)
    BY <1>1, <1>3, <1>4, <2>2, <2>3
  <2>5. ASSUME NEW i \in 1 .. c - 1 PROVE ~ (Compare(Encoder, k, leaf[i].key) <= 0)
    <3>1. i \in 1 .. Len(leaf) /\ ~ (c <= i)
      BY <1>1, <2>2
    <3> QED
      BY <2>1, <3>1
  <2> QED
    BY <1>1, <2>2, <2>4, <2>5
<1> QED
  BY <1>7, <1>8

\* On a sorted leaf: the keys before the position are less, the others are not.
LEMMA InsertPosSorted ==
  ASSUME IsEncoder(Encoder), NEW rows, Whole(Encoder, rows), NEW leaf \in Leaf(rows),
         Sorted(Encoder, leaf), NEW k \in KeysOf(Encoder, rows)
  PROVE  /\ InsertPos(leaf, k) \in 1 .. Len(leaf) + 1
         /\ \A i \in 1 .. Len(leaf) : i < InsertPos(leaf, k) <=> Before(Encoder, leaf[i].key, k)
         /\ Find(leaf, k) = IF InsertPos(leaf, k) <= Len(leaf) /\ leaf[InsertPos(leaf, k)].key = k
                            THEN InsertPos(leaf, k) ELSE 0
<1> DEFINE p == InsertPos(leaf, k)
           K == KeysOf(Encoder, rows)
<1>1. TotalOrder(Encoder, K)
  BY Ordering
<1>2. Len(leaf) \in Nat /\ \A i \in 1 .. Len(leaf) : leaf[i].key \in K
  BY LeafTyped, SortedKeys
<1>3. /\ p \in 1 .. Len(leaf) + 1
      /\ \A i \in 1 .. p - 1 : ~ (Compare(Encoder, k, leaf[i].key) <= 0)
      /\ p <= Len(leaf) => Compare(Encoder, k, leaf[p].key) <= 0
      /\ Find(leaf, k) = IF p <= Len(leaf) /\ Compare(Encoder, k, leaf[p].key) = 0 THEN p ELSE 0
  BY InsertPosTyped DEF Leaf
<1>4. k \in K
  OBVIOUS
<1> HIDE DEF p, K
<1>5. ASSUME NEW i \in 1 .. Len(leaf), i < p PROVE Before(Encoder, leaf[i].key, k)
  <2>1. i \in 1 .. p - 1
    BY <1>2, <1>3, <1>5
  <2>2. ~ (Compare(Encoder, k, leaf[i].key) <= 0) /\ leaf[i].key \in K
    BY <1>2, <1>3, <2>1
  <2> QED
    BY <1>1, <1>4, <2>2 DEF TotalOrder
<1>6. ASSUME NEW i \in 1 .. Len(leaf), ~ (i < p) PROVE ~ Before(Encoder, leaf[i].key, k)
  <2>1. p \in 1 .. Len(leaf) /\ (p = i \/ p < i)
    BY <1>2, <1>3, <1>6
  <2>2. Compare(Encoder, k, leaf[p].key) <= 0 /\ leaf[p].key \in K /\ leaf[i].key \in K
    BY <1>2, <1>3, <2>1
  <2>3. ~ Before(Encoder, leaf[p].key, k)
    BY <1>1, <1>4, <2>2 DEF TotalOrder
  <2>4. p < i => ~ Before(Encoder, leaf[i].key, leaf[p].key)
    BY <2>1 DEF Sorted
  <2>5. leaf[p].key = k \/ Before(Encoder, k, leaf[p].key)
    BY <1>1, <1>4, <2>2 DEF TotalOrder
  <2>6. Before(Encoder, leaf[i].key, k) /\ Before(Encoder, k, leaf[p].key)
          => Before(Encoder, leaf[i].key, leaf[p].key)
    BY <1>1, <1>4, <2>2 DEF TotalOrder
  <2> QED
    BY <2>1, <2>3, <2>4, <2>5, <2>6
<1>7. p <= Len(leaf) => (Compare(Encoder, k, leaf[p].key) = 0 <=> leaf[p].key = k)
  <2>1. p <= Len(leaf) => leaf[p].key \in K
    BY <1>2, <1>3
  <2> QED
    BY <1>1, <1>4, <2>1 DEF TotalOrder
<1>8. Find(leaf, k) = IF p <= Len(leaf) /\ leaf[p].key = k THEN p ELSE 0
  BY <1>3, <1>7
<1> QED
  BY <1>3, <1>5, <1>6, <1>8 DEF p

\* searchEncoded finds an entry of the key if there is one.
LEMMA FindSorted ==
  ASSUME IsEncoder(Encoder), NEW rows, Whole(Encoder, rows), NEW leaf \in Leaf(rows),
         Sorted(Encoder, leaf), NEW k \in KeysOf(Encoder, rows)
  PROVE  /\ Find(leaf, k) \in 0 .. Len(leaf)
         /\ Find(leaf, k) # 0 => leaf[Find(leaf, k)].key = k
         /\ Find(leaf, k) = 0 => \A i \in 1 .. Len(leaf) : leaf[i].key # k
<1> DEFINE p == InsertPos(leaf, k)
           K == KeysOf(Encoder, rows)
<1>1. /\ p \in 1 .. Len(leaf) + 1
      /\ \A i \in 1 .. Len(leaf) : i < p <=> Before(Encoder, leaf[i].key, k)
      /\ Find(leaf, k) = IF p <= Len(leaf) /\ leaf[p].key = k THEN p ELSE 0
  BY InsertPosSorted
<1>2. Len(leaf) \in Nat /\ \A i \in 1 .. Len(leaf) : leaf[i].key \in K
  BY LeafTyped, SortedKeys
<1>3. TotalOrder(Encoder, K) /\ k \in K
  BY Ordering
<1> HIDE DEF p, K
<1>4. ASSUME NEW i \in 1 .. Len(leaf), leaf[i].key = k PROVE p <= Len(leaf) /\ leaf[p].key = k
  <2>1. ~ Before(Encoder, k, k)
    BY <1>3 DEF TotalOrder
  <2>2. p <= i /\ p \in 1 .. Len(leaf)
    BY <1>1, <1>2, <1>4, <2>1
  <2>3. ~ Before(Encoder, leaf[p].key, k)
    BY <1>1, <2>2
  <2>4. p < i => ~ Before(Encoder, k, leaf[p].key)
    BY <1>4, <2>2 DEF Sorted
  <2>5. leaf[p].key = k
    <3>1. leaf[p].key \in K
      BY <1>2, <2>2
    <3>2. p = i \/ p < i
      BY <1>2, <2>2
    <3> QED
      BY <1>3, <1>4, <2>3, <2>4, <3>1, <3>2 DEF TotalOrder
  <2> QED
    BY <1>2, <2>2, <2>5
<1> QED
  BY <1>1, <1>2, <1>4

-----------------------------------------------------------------------------
\* insertEncoded, on any leaf.
LEMMA InsertEncodedTyped ==
  ASSUME NEW rows, NEW leaf \in Leaf(rows), NEW k \in Seq(Bytes), NEW v \in rows
  PROVE  LET t == InsertEncoded(leaf, k, v)
         IN  /\ t \in Leaf(rows) /\ Len(t) = Len(leaf) + 1 /\ Len(leaf) \in Nat
             /\ Inserts(t, leaf, InsertPos(leaf, k), [key |-> k, row |-> v])
<1> DEFINE S == [key : Seq(Bytes), row : rows]
           p == InsertPos(leaf, k)
           e == [key |-> k, row |-> v]
           t == InsertEncoded(leaf, k, v)
<1>1. leaf \in Seq(S) /\ e \in S
  BY DEF Leaf
<1>2. p \in 1 .. Len(leaf) + 1
  BY <1>1, InsertPosTyped
<1>3. t = InsertAt(leaf, p, e)
  BY DEF InsertEncoded
<1> HIDE DEF S, p, e, t
<1>4. LET u == InsertAt(leaf, p, e)
      IN  u \in Seq(S) /\ Len(u) = Len(leaf) + 1 /\ Inserts(u, leaf, p, e)
  <2>1. leaf \in Seq(S)
    BY <1>1
  <2>2. e \in S
    BY <1>1
  <2> QED
    BY <1>2, <2>1, <2>2, InsertAtProperties
<1>5. Len(leaf) \in Nat
  BY LeafTyped
<1> QED
  BY <1>3, <1>4, <1>5 DEF S, p, e, t, Leaf

\* t has the entries of leaf, and e.
Adds(t, leaf, e) ==
  /\ \E i \in 1 .. Len(t) : t[i] = e
  /\ \A i \in 1 .. Len(leaf) : \E j \in 1 .. Len(t) : t[j] = leaf[i]
  /\ \A j \in 1 .. Len(t) : t[j] = e \/ \E i \in 1 .. Len(leaf) : t[j] = leaf[i]

\* On a sorted leaf, insertEncoded keeps the order and adds the row.
LEMMA InsertEncodedSorted ==
  ASSUME IsEncoder(Encoder), NEW rows, Whole(Encoder, rows), NEW leaf \in Leaf(rows),
         Sorted(Encoder, leaf), NEW v \in rows, \A i \in 1 .. Len(leaf) : leaf[i].row # v
  PROVE  LET t == InsertEncoded(leaf, KeyOf(v), v)
         IN  /\ t \in Leaf(rows) /\ Len(t) = Len(leaf) + 1
             /\ Sorted(Encoder, t) /\ Adds(t, leaf, [key |-> KeyOf(v), row |-> v])
<1> DEFINE k == KeyOf(v)
           p == InsertPos(leaf, k)
           t == InsertEncoded(leaf, k, v)
           K == KeysOf(Encoder, rows)
           Old(i) == IF i < p THEN i ELSE i - 1
<1>1. k \in K
  BY DEF KeyOf, KeysOf
<1>2. k \in Seq(Bytes) /\ k = Encode(Encoder, v)
  BY EncodeTyped DEF Whole, KeyOf
<1>3. TotalOrder(Encoder, K)
  BY Ordering
<1>4. \A i \in 1 .. Len(leaf) : leaf[i].key \in K /\ (i < p <=> Before(Encoder, leaf[i].key, k))
  <2>1. \A i \in 1 .. Len(leaf) : leaf[i].key \in K
    BY SortedKeys
  <2>2. \A i \in 1 .. Len(leaf) : i < p <=> Before(Encoder, leaf[i].key, k)
    BY <1>1, InsertPosSorted
  <2> QED
    BY <2>1, <2>2
<1>5. /\ t \in Leaf(rows) /\ Len(t) = Len(leaf) + 1 /\ Len(leaf) \in Nat
      /\ p \in 1 .. Len(leaf) + 1
      /\ t[p] = [key |-> k, row |-> v]
      /\ \A i \in 1 .. p - 1 : t[i] = leaf[i]
      /\ \A i \in p + 1 .. Len(leaf) + 1 : t[i] = leaf[i - 1]
  <2>1. /\ t \in Leaf(rows) /\ Len(t) = Len(leaf) + 1 /\ Len(leaf) \in Nat
        /\ Inserts(t, leaf, p, [key |-> k, row |-> v])
    BY <1>2, InsertEncodedTyped
  <2> HIDE DEF k, p, t
  <2>2. t \in Leaf(rows) /\ Len(t) = Len(leaf) + 1 /\ Len(leaf) \in Nat
    BY <2>1
  <2> QED
    BY <2>1, <2>2 DEF Inserts
<1> HIDE DEF k, p, t, K
<1>6. ASSUME NEW i \in 1 .. Len(t), i # p
      PROVE  Old(i) \in 1 .. Len(leaf) /\ t[i] = leaf[Old(i)]
  <2>1. CASE i < p
    <3>1. i \in 1 .. p - 1 /\ i \in 1 .. Len(leaf)
      BY <1>5, <2>1
    <3> QED
      BY <1>5, <2>1, <3>1
  <2>2. CASE ~ (i < p)
    <3>1. i \in p + 1 .. Len(leaf) + 1 /\ i - 1 \in 1 .. Len(leaf)
      BY <1>5, <1>6, <2>2
    <3> QED
      BY <1>5, <2>2, <3>1
  <2> QED
    BY <2>1, <2>2
<1>7. t[p].key = k /\ t[p].row = v /\ p \in 1 .. Len(t)
  BY <1>5
<1>8. \A i \in 1 .. Len(t) : t[i].key = Encode(Encoder, t[i].row)
  BY <1>2, <1>6, <1>7 DEF Sorted
<1>9. ASSUME NEW i \in 1 .. Len(t), NEW j \in 1 .. Len(t), i < j
      PROVE  ~ Before(Encoder, t[j].key, t[i].key) /\ t[i].row # t[j].row
  <2>0. i \in Nat /\ j \in Nat /\ p \in Nat
    BY <1>5
  <2>1. CASE i # p /\ j # p
    <3> DEFINE a == Old(i)
               b == Old(j)
    <3>1. a \in 1 .. Len(leaf) /\ b \in 1 .. Len(leaf) /\ t[i] = leaf[a] /\ t[j] = leaf[b]
      BY <1>6, <2>1
    <3>2. a < b
      BY <1>9, <2>0, <2>1
    <3> HIDE DEF a, b
    <3> QED
      BY <3>1, <3>2 DEF Sorted
  <2>2. CASE i = p
    <3> DEFINE b == Old(j)
    <3>1. b \in 1 .. Len(leaf) /\ t[j] = leaf[b] /\ ~ (b < p)
      BY <1>6, <1>9, <2>0, <2>2
    <3> HIDE DEF b
    <3> QED
      BY <1>4, <1>7, <2>2, <3>1
  <2>3. CASE j = p
    <3> DEFINE a == Old(i)
    <3>1. a \in 1 .. Len(leaf) /\ t[i] = leaf[a] /\ a < p
      BY <1>6, <1>9, <2>0, <2>3
    <3> HIDE DEF a
    <3>2. leaf[a].key \in K /\ Before(Encoder, leaf[a].key, k) /\ leaf[a].row # v
      BY <1>4, <3>1
    <3>3. ~ Before(Encoder, k, leaf[a].key)
      BY <1>1, <1>3, <3>2 DEF TotalOrder
    <3> QED
      BY <1>7, <2>3, <3>1, <3>2, <3>3
  <2> QED
    BY <2>1, <2>2, <2>3
<1>10. ASSUME NEW i \in 1 .. Len(leaf) PROVE \E j \in 1 .. Len(t) : t[j] = leaf[i]
  <2>1. CASE i < p
    <3>1. i \in 1 .. p - 1 /\ i \in 1 .. Len(t)
      BY <1>5, <2>1
    <3> QED
      BY <1>5, <3>1
  <2>2. CASE ~ (i < p)
    <3>1. i + 1 \in p + 1 .. Len(leaf) + 1 /\ i + 1 \in 1 .. Len(t) /\ (i + 1) - 1 = i
      BY <1>5, <2>2
    <3>2. t[i + 1] = leaf[i]
      BY <1>5, <3>1
    <3> QED
      BY <3>1, <3>2
  <2> QED
    BY <2>1, <2>2
<1>11. \A j \in 1 .. Len(t) : \/ t[j] = [key |-> k, row |-> v]
                              \/ \E i \in 1 .. Len(leaf) : t[j] = leaf[i]
  BY <1>5, <1>6
<1>12. Sorted(Encoder, t)
  BY <1>8, <1>9 DEF Sorted
<1> QED
  <2>1. Adds(t, leaf, [key |-> k, row |-> v])
    BY <1>5, <1>7, <1>10, <1>11 DEF Adds
  <2> QED
    BY <1>5, <1>12, <2>1 DEF t, k

-----------------------------------------------------------------------------
\* rangeSearchEncoded collects entry by entry.
Collects(f, leaf, a, b, S) ==
  /\ f \in [0 .. Len(leaf) -> Seq(S)]
  /\ f[0] = << >>
  /\ \A i \in 1 .. Len(leaf) :
       f[i] = IF InRange(leaf[i].key, a, b) THEN Append(f[i - 1], leaf[i]) ELSE f[i - 1]
  /\ RangeSearchEncoded(leaf, a, b) = f[Len(leaf)]

\* rangeSearchEncoded is that collection.
LEMMA CollectsExist ==
  ASSUME NEW S, NEW leaf \in Seq(S), NEW a, NEW b
  PROVE  \E f : Collects(f, leaf, a, b, S)
<1> DEFINE n == Len(leaf)
           Q == Seq(S)
           g == [i \in 1 .. n |-> [t \in Q |->
                   IF InRange(leaf[i].key, a, b) THEN Append(t, leaf[i]) ELSE t]]
<1>1. n \in Nat /\ \A i \in 1 .. n : leaf[i] \in S
  BY LenProperties, ElementOfSeq
<1>2. << >> \in Q
  OBVIOUS
<1>3. ASSUME NEW i \in 1 .. n, NEW t \in Q
      PROVE  /\ g[i][t] = IF InRange(leaf[i].key, a, b) THEN Append(t, leaf[i]) ELSE t
             /\ g[i][t] \in Q
  <2>1. leaf[i] \in S
    BY <1>1
  <2>2. Append(t, leaf[i]) \in Q
    BY <2>1, AppendProperties
  <2> QED
    BY <2>2
<1> HIDE DEF Q, g
<1>4. Steps(g, n, Q)
  BY <1>3 DEF Steps
<1>5. PICK f : Iterates(f, g, n, Q, << >>)
  BY <1>1, <1>2, <1>4, Recursion
<1>6. /\ f \in [0 .. n -> Q] /\ f[0] = << >>
      /\ \A i \in 1 .. n : f[i] = g[i][f[i - 1]]
  BY <1>5 DEF Iterates
<1>7. ASSUME NEW i \in 1 .. n
      PROVE  f[i] = IF InRange(leaf[i].key, a, b) THEN Append(f[i - 1], leaf[i]) ELSE f[i - 1]
  <2>1. i - 1 \in 0 .. n
    BY <1>1
  <2>2. f[i - 1] \in Q
    BY <1>6, <2>1
  <2> QED
    BY <1>3, <1>6, <2>2
<1> DEFINE R(h) == [i \in 0 .. n |->
                     IF i = 0 THEN << >>
                     ELSE IF InRange(leaf[i].key, a, b) THEN Append(h[i - 1], leaf[i])
                     ELSE h[i - 1]]
<1>8. f = R(f)
  <2>1. ASSUME NEW i \in 0 .. n PROVE f[i] = R(f)[i]
    <3>1. i = 0 \/ i \in 1 .. n
      BY <1>1
    <3>2. R(f)[i] = IF i = 0 THEN << >>
                    ELSE IF InRange(leaf[i].key, a, b) THEN Append(f[i - 1], leaf[i])
                    ELSE f[i - 1]
      OBVIOUS
    <3> HIDE DEF R
    <3>3. CASE i = 0
      BY <1>6, <3>2, <3>3
    <3>4. CASE i \in 1 .. n
      <4>1. i # 0
        BY <1>1, <3>4
      <4> QED
        BY <1>7, <3>2, <3>4, <4>1
    <3> QED
      BY <3>1, <3>3, <3>4
  <2> HIDE DEF R
  <2>2. f = [i \in 0 .. n |-> f[i]] /\ R(f) = [i \in 0 .. n |-> R(f)[i]]
    BY <1>6 DEF R
  <2> QED
    BY <2>1, <2>2
<1>9. PICK h : h = R(h) /\ RangeSearchEncoded(leaf, a, b) = h[n]
  BY <1>8 DEF RangeSearchEncoded
<1>10. /\ h[0] = << >>
       /\ \A i \in 1 .. n : h[i] = IF InRange(leaf[i].key, a, b) THEN Append(h[i - 1], leaf[i])
                                   ELSE h[i - 1]
  <2>1. ASSUME NEW i \in 0 .. n
        PROVE  h[i] = IF i = 0 THEN << >>
                      ELSE IF InRange(leaf[i].key, a, b) THEN Append(h[i - 1], leaf[i])
                      ELSE h[i - 1]
    BY <1>9, Zenon
  <2>2. 0 \in 0 .. n /\ \A i \in 1 .. n : i \in 0 .. n /\ i # 0
    BY <1>1
  <2> QED
    BY <2>1, <2>2, Zenon
<1> DEFINE T == {i \in 0 .. n : h[i] = f[i]}
<1>11. 0 \in T
  BY <1>1, <1>6, <1>10
<1>12. \A i \in 0 .. n - 1 : i \in T => i + 1 \in T
  <2> SUFFICES ASSUME NEW i \in 0 .. n - 1, i \in T PROVE i + 1 \in T
    OBVIOUS
  <2>1. i + 1 \in 1 .. n /\ (i + 1) - 1 = i /\ i + 1 \in 0 .. n /\ h[i] = f[i]
    BY <1>1
  <2>2. h[i + 1] = f[i + 1]
    BY <1>7, <1>10, <2>1
  <2> QED
    BY <2>1, <2>2
<1> HIDE DEF T
<1>13. \A i \in 0 .. n : i \in T
  BY <1>1, <1>11, <1>12, UpTo
<1>14. n \in T
  BY <1>1, <1>13
<1>15. RangeSearchEncoded(leaf, a, b) = f[n]
  BY <1>9, <1>14 DEF T
<1> QED
  BY <1>6, <1>7, <1>15 DEF Collects, Q

\* It finds entries of the leaf.
LEMMA RangeSearchEncodedTyped ==
  ASSUME NEW S, NEW leaf \in Seq(S), NEW a, NEW b
  PROVE  /\ RangeSearchEncoded(leaf, a, b) \in Seq(S)
         /\ \A j \in 1 .. Len(RangeSearchEncoded(leaf, a, b)) :
              \E i \in 1 .. Len(leaf) : RangeSearchEncoded(leaf, a, b)[j] = leaf[i]
<1> DEFINE n == Len(leaf)
           From(s) == \A j \in 1 .. Len(s) : \E i \in 1 .. n : s[j] = leaf[i]
<1>1. PICK f : Collects(f, leaf, a, b, S)
  BY CollectsExist
<1>2. n \in Nat /\ \A i \in 1 .. n : leaf[i] \in S
  BY LenProperties, ElementOfSeq
<1>3. /\ \A i \in 0 .. n : f[i] \in Seq(S)
      /\ f[0] = << >>
      /\ \A i \in 1 .. n : f[i] = IF InRange(leaf[i].key, a, b) THEN Append(f[i - 1], leaf[i])
                                  ELSE f[i - 1]
      /\ RangeSearchEncoded(leaf, a, b) = f[n]
  BY <1>1 DEF Collects
<1> DEFINE T == {i \in 0 .. n : From(f[i])}
<1>4. 0 \in T
  BY <1>2, <1>3
<1>5. \A i \in 0 .. n - 1 : i \in T => i + 1 \in T
  <2> SUFFICES ASSUME NEW i \in 0 .. n - 1, i \in T PROVE i + 1 \in T
    OBVIOUS
  <2> DEFINE s == f[i]
             e == leaf[i + 1]
             u == f[i + 1]
  <2>1. i + 1 \in 1 .. n /\ (i + 1) - 1 = i /\ i + 1 \in 0 .. n /\ i \in 0 .. n
    BY <1>2
  <2>2. From(s) /\ s \in Seq(S) /\ e \in S
    BY <1>2, <1>3, <2>1
  <2>3. u = s \/ u = Append(s, e)
    BY <1>3, <2>1
  <2> HIDE DEF s, u
  <2>4. From(Append(s, e))
    <3>1. /\ Len(s) \in Nat /\ Len(Append(s, e)) = Len(s) + 1
          /\ \A j \in 1 .. Len(s) : Append(s, e)[j] = s[j]
          /\ Append(s, e)[Len(s) + 1] = e
      BY <2>2, AppendProperties, LenProperties
    <3>2. \A j \in 1 .. Len(s) + 1 : j \in 1 .. Len(s) \/ j = Len(s) + 1
      BY <3>1
    <3>3. ASSUME NEW j \in 1 .. Len(s) + 1
          PROVE  \E k \in 1 .. n : Append(s, e)[j] = leaf[k]
      <4>1. CASE j \in 1 .. Len(s)
        <5>1. Append(s, e)[j] = s[j]
          BY <3>1, <4>1
        <5>2. \E k \in 1 .. n : s[j] = leaf[k]
          BY <2>2, <4>1
        <5> QED
          BY <5>1, <5>2
      <4>2. CASE j = Len(s) + 1
        <5>1. Append(s, e)[j] = leaf[i + 1]
          BY <3>1, <4>2
        <5> QED
          BY <2>1, <5>1
      <4> QED
        BY <3>2, <4>1, <4>2
    <3> QED
      BY <3>1, <3>3
  <2>5. From(u)
    <3>1. From(s)
      BY <2>2
    <3> HIDE DEF From
    <3> QED
      BY <2>3, <2>4, <3>1
  <2> QED
    BY <2>1, <2>5 DEF u
<1> HIDE DEF T
<1>6. \A i \in 0 .. n : i \in T
  BY <1>2, <1>4, <1>5, UpTo
<1>7. n \in T
  BY <1>2, <1>6
<1> QED
  BY <1>2, <1>3, <1>7 DEF T

\* The entries within the range are those from lo + 1 to hi.
Segment(leaf, a, b, lo, hi) ==
  /\ lo \in Nat /\ hi \in Nat /\ lo <= hi /\ hi <= Len(leaf)
  /\ \A i \in 1 .. Len(leaf) : InRange(leaf[i].key, a, b) <=> lo < i /\ i <= hi

\* Then it finds these, in their order.
LEMMA RangeSearchSegment ==
  ASSUME NEW S, NEW leaf \in Seq(S), NEW a, NEW b, NEW lo, NEW hi,
         Segment(leaf, a, b, lo, hi)
  PROVE  LET found == RangeSearchEncoded(leaf, a, b)
         IN  /\ found \in Seq(S) /\ Len(found) = hi - lo
             /\ \A j \in 1 .. hi - lo : found[j] = leaf[lo + j]
<1> DEFINE n == Len(leaf)
           Size(i) == IF i <= lo THEN 0 ELSE IF i <= hi THEN i - lo ELSE hi - lo
           Good(s, i) == Len(s) = Size(i) /\ \A j \in 1 .. Size(i) : s[j] = leaf[lo + j]
<1>0. /\ lo \in Nat /\ hi \in Nat /\ lo <= hi /\ hi <= n
      /\ \A i \in 1 .. n : InRange(leaf[i].key, a, b) <=> lo < i /\ i <= hi
  BY DEF Segment
<1>1. PICK f : Collects(f, leaf, a, b, S)
  BY CollectsExist
<1>2. n \in Nat /\ \A i \in 1 .. n : leaf[i] \in S
  BY LenProperties, ElementOfSeq
<1>3. /\ \A i \in 0 .. n : f[i] \in Seq(S)
      /\ f[0] = << >>
      /\ \A i \in 1 .. n : f[i] = IF InRange(leaf[i].key, a, b) THEN Append(f[i - 1], leaf[i])
                                  ELSE f[i - 1]
      /\ RangeSearchEncoded(leaf, a, b) = f[n]
  BY <1>1 DEF Collects
<1> DEFINE T == {i \in 0 .. n : Good(f[i], i)}
<1>4. 0 \in T
  BY <1>0, <1>2, <1>3
<1>5. \A i \in 0 .. n - 1 : i \in T => i + 1 \in T
  <2> SUFFICES ASSUME NEW i \in 0 .. n - 1, i \in T PROVE i + 1 \in T
    OBVIOUS
  <2> DEFINE s == f[i]
             e == leaf[i + 1]
             u == f[i + 1]
  <2>1. i + 1 \in 1 .. n /\ (i + 1) - 1 = i /\ i + 1 \in 0 .. n /\ i \in 0 .. n /\ i \in Nat
    BY <1>2
  <2>2. Len(s) = Size(i) /\ (\A j \in 1 .. Size(i) : s[j] = leaf[lo + j]) /\ s \in Seq(S) /\ e \in S
    BY <1>2, <1>3, <2>1
  <2>3. /\ lo < i + 1 /\ i + 1 <= hi => u = Append(s, e)
        /\ ~ (lo < i + 1 /\ i + 1 <= hi) => u = s
    BY <1>0, <1>3, <2>1
  <2> HIDE DEF s, u
  <2>4. /\ Len(s) \in Nat /\ Len(Append(s, e)) = Len(s) + 1
        /\ \A j \in 1 .. Len(s) : Append(s, e)[j] = s[j]
        /\ Append(s, e)[Len(s) + 1] = e
    BY <2>2, AppendProperties, LenProperties
  <2>5. CASE lo < i + 1 /\ i + 1 <= hi
    <3>1. Size(i) = i - lo /\ Size(i + 1) = i + 1 - lo
      BY <1>0, <2>1, <2>5
    <3>2. Len(u) = Size(i + 1)
      <4>1. Len(u) = Len(s) + 1 /\ Len(s) = Size(i)
        BY <2>2, <2>3, <2>4, <2>5
      <4> HIDE DEF Size
      <4> QED
        BY <1>0, <2>1, <3>1, <4>1
    <3>3. ASSUME NEW j \in 1 .. Size(i + 1) PROVE u[j] = leaf[lo + j]
      <4>1. j \in 1 .. Len(s) \/ (j = Len(s) + 1 /\ lo + j = i + 1)
        BY <1>0, <2>1, <2>2, <3>1
      <4> QED
        BY <2>2, <2>3, <2>4, <2>5, <4>1
    <3> QED
      BY <2>1, <3>2, <3>3 DEF u
  <2>6. CASE ~ (lo < i + 1 /\ i + 1 <= hi)
    <3>1. Size(i + 1) = Size(i)
      BY <1>0, <2>1, <2>6
    <3> QED
      BY <2>1, <2>2, <2>3, <2>6, <3>1 DEF u
  <2> QED
    BY <2>5, <2>6
<1> HIDE DEF T
<1>6. \A i \in 0 .. n : i \in T
  BY <1>2, <1>4, <1>5, UpTo
<1>7. n \in T
  BY <1>2, <1>6
<1>8. Good(f[n], n)
  BY <1>7 DEF T
<1>9. Size(n) = hi - lo
  BY <1>0, <1>2
<1> QED
  BY <1>2, <1>3, <1>8, <1>9

-----------------------------------------------------------------------------
\* removeEncoded leaves a leaf.
LEMMA RemoveEncodedTyped ==
  ASSUME NEW rows, NEW leaf \in Leaf(rows), NEW k
  PROVE  RemoveEncoded(leaf, k) \in Leaf(rows)
<1> DEFINE p == Find(leaf, k)
           S == [key : Seq(Bytes), row : rows]
<1>1. leaf \in Seq(S) /\ Len(leaf) \in Nat
  BY LeafTyped DEF Leaf
<1>2. p = 0 \/ p \in 1 .. Len(leaf)
  BY <1>1, InsertPosTyped
<1>3. RemoveEncoded(leaf, k) = IF p = 0 THEN leaf ELSE RemoveAt(leaf, p)
  BY DEF RemoveEncoded
<1> HIDE DEF p, S
<1>4. CASE p \in 1 .. Len(leaf)
  <2>1. leaf \in Seq(S)
    BY <1>1
  <2>2. RemoveAt(leaf, p) \in Seq(S)
    BY <1>4, <2>1, RemoveAtProperties
  <2> QED
    BY <1>1, <1>3, <2>2 DEF Leaf, S
<1> QED
  BY <1>1, <1>2, <1>3, <1>4 DEF Leaf, S

\* _moveData moves entry by entry.
Moves(f, leaf, pivot, rows) ==
  LET data == RangeSearchEncoded(leaf, pivot, NoKey)
  IN  /\ f \in [0 .. Len(data) -> [from : Leaf(rows), to : Leaf(rows)]]
      /\ f[0] = [from |-> leaf, to |-> << >>]
      /\ \A i \in 1 .. Len(data) :
           f[i] = MoveEntry(f[i - 1], KeyOf(DecodeKey(data[i].key)), data[i].row)
      /\ MoveData(leaf, pivot) = f[Len(data)]

\* _moveData moves entry by entry.
LEMMA MovesExist ==
  ASSUME NEW rows, NEW leaf \in Leaf(rows), NEW pivot,
         \A i \in 1 .. Len(leaf) : KeyOf(DecodeKey(leaf[i].key)) \in Seq(Bytes)
  PROVE  \E f : Moves(f, leaf, pivot, rows)
<1> DEFINE data == RangeSearchEncoded(leaf, pivot, NoKey)
           n == Len(data)
           Q == [from : Leaf(rows), to : Leaf(rows)]
           K(i) == KeyOf(DecodeKey(data[i].key))
           g == [i \in 1 .. n |-> [t \in Q |-> MoveEntry(t, K(i), data[i].row)]]
           x == [from |-> leaf, to |-> << >>]
<1>1. data \in Leaf(rows) /\ \A j \in 1 .. n : \E i \in 1 .. Len(leaf) : data[j] = leaf[i]
  <2> DEFINE S == [key : Seq(Bytes), row : rows]
  <2>1. leaf \in Seq(S)
    BY DEF Leaf
  <2> HIDE DEF S
  <2>2. data \in Seq(S) /\ \A j \in 1 .. n : \E i \in 1 .. Len(leaf) : data[j] = leaf[i]
    BY <2>1, RangeSearchEncodedTyped
  <2> QED
    BY <2>2 DEF Leaf, S
<1>2. n \in Nat /\ \A i \in 1 .. n : data[i].row \in rows
  BY <1>1, LeafTyped
<1>3. \A i \in 1 .. n : K(i) \in Seq(Bytes)
  <2> HIDE DEF data
  <2> QED
    BY <1>1
<1>4. x \in Q
  <2>1. << >> \in Leaf(rows)
    BY DEF Leaf
  <2> QED
    BY <2>1
<1> HIDE DEF data, n, K
<1>5. ASSUME NEW i \in 1 .. n, NEW t \in Q
      PROVE  g[i][t] = MoveEntry(t, K(i), data[i].row) /\ g[i][t] \in Q
  <2>1. t.from \in Leaf(rows) /\ t.to \in Leaf(rows)
    OBVIOUS
  <2>2. RemoveEncoded(t.from, K(i)) \in Leaf(rows)
    BY <2>1, RemoveEncodedTyped
  <2>3. K(i) \in Seq(Bytes) /\ data[i].row \in rows
    BY <1>2, <1>3
  <2>4. InsertEncoded(t.to, K(i), data[i].row) \in Leaf(rows)
    BY <2>1, <2>3, InsertEncodedTyped
  <2>5. MoveEntry(t, K(i), data[i].row) \in Q
    BY <2>2, <2>4 DEF MoveEntry
  <2> QED
    BY <2>5
<1> HIDE DEF Q, g, x
<1>6. Steps(g, n, Q)
  BY <1>5 DEF Steps
<1>7. PICK f : Iterates(f, g, n, Q, x)
  BY <1>2, <1>4, <1>6, Recursion
<1>8. /\ f \in [0 .. n -> Q] /\ f[0] = x
      /\ \A i \in 1 .. n : f[i] = g[i][f[i - 1]]
  BY <1>7 DEF Iterates
<1>9. ASSUME NEW i \in 1 .. n PROVE f[i] = MoveEntry(f[i - 1], K(i), data[i].row)
  <2>1. i - 1 \in 0 .. n
    BY <1>2
  <2>2. f[i - 1] \in Q
    BY <1>8, <2>1
  <2> QED
    BY <1>5, <1>8, <2>2
<1> DEFINE R(h) == [i \in 0 .. n |->
                     IF i = 0 THEN x ELSE MoveEntry(h[i - 1], K(i), data[i].row)]
<1>10. f = R(f)
  <2>1. ASSUME NEW i \in 0 .. n PROVE f[i] = R(f)[i]
    <3>1. i = 0 \/ i \in 1 .. n
      BY <1>2
    <3>2. R(f)[i] = IF i = 0 THEN x ELSE MoveEntry(f[i - 1], K(i), data[i].row)
      OBVIOUS
    <3> HIDE DEF R
    <3>3. CASE i = 0
      BY <1>8, <3>2, <3>3
    <3>4. CASE i \in 1 .. n
      <4>1. i # 0
        BY <1>2, <3>4
      <4> QED
        BY <1>9, <3>2, <3>4, <4>1
    <3> QED
      BY <3>1, <3>3, <3>4
  <2> HIDE DEF R
  <2>2. f = [i \in 0 .. n |-> f[i]] /\ R(f) = [i \in 0 .. n |-> R(f)[i]]
    BY <1>8 DEF R
  <2> QED
    BY <2>1, <2>2
<1>11. PICK h : h = R(h) /\ MoveData(leaf, pivot) = h[n]
  BY <1>10 DEF MoveData, x, K, n, data
<1>12. /\ h[0] = x
       /\ \A i \in 1 .. n : h[i] = MoveEntry(h[i - 1], K(i), data[i].row)
  <2>1. ASSUME NEW i \in 0 .. n
        PROVE  h[i] = IF i = 0 THEN x ELSE MoveEntry(h[i - 1], K(i), data[i].row)
    BY <1>11, Zenon
  <2>2. 0 \in 0 .. n /\ \A i \in 1 .. n : i \in 0 .. n /\ i # 0
    BY <1>2
  <2> QED
    BY <2>1, <2>2, Zenon
<1> DEFINE T == {i \in 0 .. n : h[i] = f[i]}
<1>13. 0 \in T
  BY <1>2, <1>8, <1>12
<1>14. \A i \in 0 .. n - 1 : i \in T => i + 1 \in T
  <2> SUFFICES ASSUME NEW i \in 0 .. n - 1, i \in T PROVE i + 1 \in T
    OBVIOUS
  <2>1. i + 1 \in 1 .. n /\ (i + 1) - 1 = i /\ i + 1 \in 0 .. n /\ h[i] = f[i]
    BY <1>2
  <2>2. h[i + 1] = f[i + 1]
    BY <1>9, <1>12, <2>1
  <2> QED
    BY <2>1, <2>2
<1> HIDE DEF T
<1>15. \A i \in 0 .. n : i \in T
  BY <1>2, <1>13, <1>14, UpTo
<1>16. n \in T
  BY <1>2, <1>15
<1>17. MoveData(leaf, pivot) = f[n]
  BY <1>11, <1>16 DEF T
<1> QED
  BY <1>8, <1>9, <1>17 DEF Moves, Q, K, x, n, data

\* u has some entries of leaf, in their order: those g selects.
Selects(g, u, leaf) ==
  /\ \A j \in 1 .. Len(u) : g[j] \in 1 .. Len(leaf) /\ u[j] = leaf[g[j]]
  /\ \A i, j \in 1 .. Len(u) : i < j => g[i] < g[j]

\* Part of a sorted leaf is sorted.
LEMMA SortedPart ==
  ASSUME NEW encoder, NEW rows, NEW leaf \in Leaf(rows), Sorted(encoder, leaf),
         NEW u \in Leaf(rows), NEW g, Selects(g, u, leaf)
  PROVE  Sorted(encoder, u)
<1>1. ASSUME NEW i \in 1 .. Len(u), NEW j \in 1 .. Len(u), i < j
      PROVE  ~ Before(encoder, u[j].key, u[i].key) /\ u[i].row # u[j].row
  <2> DEFINE a == g[i]
             b == g[j]
  <2>1. a \in 1 .. Len(leaf) /\ b \in 1 .. Len(leaf) /\ a < b /\ u[i] = leaf[a] /\ u[j] = leaf[b]
    BY <1>1 DEF Selects
  <2> HIDE DEF a, b
  <2> QED
    BY <2>1 DEF Sorted
<1>2. ASSUME NEW j \in 1 .. Len(u)
      PROVE  u[j].key = Encode(encoder, u[j].row)
  <2> DEFINE b == g[j]
  <2>1. b \in 1 .. Len(leaf) /\ u[j] = leaf[b]
    BY DEF Selects
  <2> HIDE DEF b
  <2> QED
    BY <2>1 DEF Sorted
<1> QED
  BY <1>1, <1>2 DEF Sorted

\* u is leaf without its entries m + 1 .. m + i.
Cut(u, leaf, m, i) ==
  /\ Len(u) = Len(leaf) - i
  /\ \A j \in 1 .. m : u[j] = leaf[j]
  /\ \A j \in m + 1 .. Len(leaf) - i : u[j] = leaf[j + i]

\* A leaf without some entries in the middle is still sorted.
LEMMA CutSorted ==
  ASSUME NEW encoder, NEW rows, NEW leaf \in Leaf(rows), Sorted(encoder, leaf),
         NEW u \in Leaf(rows), NEW m \in Nat, NEW i \in Nat, m + i <= Len(leaf),
         Cut(u, leaf, m, i)
  PROVE  Sorted(encoder, u)
<1> DEFINE g == [j \in 1 .. Len(u) |-> IF j <= m THEN j ELSE j + i]
<1>1. Len(leaf) \in Nat /\ Len(u) = Len(leaf) - i
  BY LeafTyped DEF Cut
<1>2. ASSUME NEW j \in 1 .. Len(u) PROVE g[j] \in 1 .. Len(leaf) /\ u[j] = leaf[g[j]]
  <2>1. CASE j <= m
    <3>1. g[j] = j /\ j \in 1 .. m
      BY <1>1, <2>1
    <3> QED
      BY <1>1, <3>1 DEF Cut
  <2>2. CASE ~ (j <= m)
    <3>1. g[j] = j + i /\ j \in m + 1 .. Len(leaf) - i
      BY <1>1, <2>2
    <3> QED
      BY <1>1, <3>1 DEF Cut
  <2> QED
    BY <2>1, <2>2
<1>3. ASSUME NEW j \in 1 .. Len(u), NEW k \in 1 .. Len(u), j < k PROVE g[j] < g[k]
  <2>1. j \in Nat /\ k \in Nat /\ g[j] = (IF j <= m THEN j ELSE j + i)
        /\ g[k] = IF k <= m THEN k ELSE k + i
    BY <1>1
  <2> HIDE DEF g
  <2> QED
    BY <1>3, <2>1
<1> HIDE DEF g
<1> QED
  <2>1. Selects(g, u, leaf)
    BY <1>2, <1>3 DEF Selects
  <2> QED
    BY <2>1, SortedPart

\* Removing the key of entry m + i + 1 removes that entry, when all keys before
\* m + 1 are less.
LEMMA RemoveNext ==
  ASSUME IsEncoder(Encoder), NEW rows, Whole(Encoder, rows), NEW leaf \in Leaf(rows),
         Sorted(Encoder, leaf), NEW m \in Nat, NEW i \in Nat, m + i < Len(leaf),
         \A j \in 1 .. m : Before(Encoder, leaf[j].key, leaf[m + 1].key),
         NEW u \in Leaf(rows), Cut(u, leaf, m, i)
  PROVE  LET t == RemoveEncoded(u, leaf[m + i + 1].key)
         IN  t \in Leaf(rows) /\ Cut(t, leaf, m, i + 1)
<1> DEFINE L == Len(leaf)
           k == leaf[m + i + 1].key
           l == leaf[m + 1].key
           K == KeysOf(Encoder, rows)
           p == InsertPos(u, k)
           t == RemoveEncoded(u, k)
<1>1. L \in Nat /\ \A j \in 1 .. L : leaf[j].key \in K
  BY LeafTyped, SortedKeys
<1>2. m + i + 1 \in 1 .. L /\ m + 1 \in 1 .. L
  BY <1>1
<1>3. k \in K /\ l \in K /\ TotalOrder(Encoder, K)
  BY <1>1, <1>2, Ordering
<1>4. ~ Before(Encoder, k, l)
  <2>1. CASE i = 0
    <3>1. k = l
      BY <2>1
    <3> HIDE DEF k, l, K
    <3> QED
      BY <1>3, <3>1 DEF TotalOrder
  <2>2. CASE i # 0
    BY <1>1, <1>2, <2>2 DEF Sorted
  <2> QED
    BY <2>1, <2>2
<1>5. Sorted(Encoder, u)
  BY <1>1, CutSorted
<1>6. /\ p \in 1 .. Len(u) + 1
      /\ \A j \in 1 .. Len(u) : j < p <=> Before(Encoder, u[j].key, k)
      /\ Find(u, k) = IF p <= Len(u) /\ u[p].key = k THEN p ELSE 0
  BY <1>3, <1>5, InsertPosSorted
<1>7. /\ Len(u) = L - i
      /\ \A j \in 1 .. m : u[j] = leaf[j]
      /\ \A j \in m + 1 .. L - i : u[j] = leaf[j + i]
  BY DEF Cut
<1>8. u[m + 1].key = k /\ m + 1 \in 1 .. Len(u)
  <2>1. m + 1 \in m + 1 .. L - i /\ (m + 1) + i = m + i + 1
    BY <1>1
  <2>2. u[m + 1] = leaf[m + i + 1]
    BY <1>7, <2>1
  <2> QED
    BY <1>1, <1>7, <2>2
<1>9. \A j \in 1 .. m : leaf[j].key \in K /\ Before(Encoder, leaf[j].key, l)
  BY <1>1, <1>2
<1> HIDE DEF L, k, l, K, p, t
<1>10. ~ (m + 1 < p)
  <2>1. ~ Before(Encoder, k, k)
    BY <1>3 DEF TotalOrder
  <2> QED
    BY <1>6, <1>8, <2>1
<1>11. ASSUME NEW j \in 1 .. m PROVE j < p
  <2>1. Before(Encoder, leaf[j].key, k)
    <3>1. leaf[j].key \in K /\ Before(Encoder, leaf[j].key, l)
      BY <1>9
    <3>2. l = k \/ Before(Encoder, l, k)
      BY <1>3, <1>4 DEF TotalOrder
    <3> QED
      BY <1>3, <3>1, <3>2 DEF TotalOrder
  <2>2. u[j] = leaf[j]
    BY <1>7
  <2>3. j \in 1 .. Len(u)
    BY <1>8
  <2> QED
    BY <1>6, <2>1, <2>2, <2>3
<1>12. p = m + 1
  <2>1. m = 0 \/ m \in 1 .. m
    OBVIOUS
  <2>2. p > m
    BY <1>6, <1>11, <2>1
  <2> QED
    BY <1>6, <1>10, <2>2
<1>13. Find(u, k) = m + 1 /\ m + 1 # 0
  BY <1>6, <1>8, <1>12
<1>14. t = RemoveAt(u, m + 1)
  BY <1>13 DEF t, RemoveEncoded
<1> DEFINE S == [key : Seq(Bytes), row : rows]
<1>15. u \in Seq(S)
  BY DEF Leaf
<1> HIDE DEF S
<1>16. LET w == RemoveAt(u, m + 1)
       IN  /\ w \in Seq(S) /\ Len(w) = Len(u) - 1
           /\ \A j \in 1 .. (m + 1) - 1 : w[j] = u[j]
           /\ \A j \in m + 1 .. Len(u) - 1 : w[j] = u[j + 1]
  BY <1>8, <1>15, RemoveAtProperties
<1>17. Len(t) = L - (i + 1)
  BY <1>1, <1>7, <1>14, <1>16
<1>18. \A j \in 1 .. m : t[j] = leaf[j]
  BY <1>7, <1>14, <1>16
<1>19. ASSUME NEW j \in m + 1 .. L - (i + 1) PROVE t[j] = leaf[j + (i + 1)]
  <2>1. j \in m + 1 .. Len(u) - 1 /\ j + 1 \in m + 1 .. L - i /\ (j + 1) + i = j + (i + 1)
    BY <1>1, <1>7
  <2> QED
    BY <1>7, <1>14, <1>16, <2>1
<1>20. t \in Seq(S)
  BY <1>14, <1>16
<1> QED
  BY <1>17, <1>18, <1>19, <1>20 DEF Cut, Leaf, S, t, k, L

\* t holds the entries m + 1 .. m + i of leaf.
Moved(t, leaf, m, i) ==
  /\ Len(t) = i
  /\ \A j \in 1 .. i : \E a \in m + 1 .. m + i : t[j] = leaf[a]
  /\ \A a \in m + 1 .. m + i : \E j \in 1 .. i : t[j] = leaf[a]

\* insertEncoded puts the next moved entry behind those moved before it.
LEMMA InsertNext ==
  ASSUME IsEncoder(Encoder), NEW rows, Whole(Encoder, rows), NEW leaf \in Leaf(rows),
         Sorted(Encoder, leaf), NEW m \in Nat, NEW i \in Nat, m + i < Len(leaf),
         NEW u \in Leaf(rows), Sorted(Encoder, u), Moved(u, leaf, m, i)
  PROVE  LET e == leaf[m + i + 1]
             t == InsertEncoded(u, e.key, e.row)
         IN  t \in Leaf(rows) /\ Sorted(Encoder, t) /\ Moved(t, leaf, m, i + 1)
<1> DEFINE L == Len(leaf)
           e == leaf[m + i + 1]
           t == InsertEncoded(u, e.key, e.row)
<1>1. L \in Nat
  BY LeafTyped
<1>2. m + i + 1 \in 1 .. L
  BY <1>1
<1>3. e \in [key : Seq(Bytes), row : rows] /\ e.key = KeyOf(e.row) /\ e.row \in rows
  BY <1>2, LeafTyped DEF Sorted, KeyOf
<1>4. e = [key |-> KeyOf(e.row), row |-> e.row]
  BY <1>3
<1>5. ASSUME NEW j \in 1 .. Len(u) PROVE u[j].row # e.row
  <2>1. PICK a \in m + 1 .. m + i : u[j] = leaf[a]
    BY DEF Moved
  <2>2. a \in 1 .. L /\ a < m + i + 1
    BY <1>1
  <2> QED
    BY <1>2, <2>1, <2>2 DEF Sorted
<1>6. t = InsertEncoded(u, KeyOf(e.row), e.row)
  BY <1>3
<1> DEFINE v == e.row
<1>7. v \in rows /\ \A j \in 1 .. Len(u) : u[j].row # v
  BY <1>3, <1>5
<1>8. e = [key |-> KeyOf(v), row |-> v] /\ t = InsertEncoded(u, KeyOf(v), v)
  BY <1>4, <1>6
<1> HIDE DEF v, t
<1>9. /\ t \in Leaf(rows) /\ Len(t) = Len(u) + 1
      /\ Sorted(Encoder, t)
      /\ \E j \in 1 .. Len(t) : t[j] = e
      /\ \A a \in 1 .. Len(u) : \E j \in 1 .. Len(t) : t[j] = u[a]
      /\ \A j \in 1 .. Len(t) : t[j] = e \/ \E a \in 1 .. Len(u) : t[j] = u[a]
  <2>1. /\ t \in Leaf(rows) /\ Len(t) = Len(u) + 1 /\ Sorted(Encoder, t)
        /\ Adds(t, u, [key |-> KeyOf(v), row |-> v])
    BY <1>7, <1>8, InsertEncodedSorted
  <2> QED
    BY <1>8, <2>1 DEF Adds
<1>10. Len(t) = i + 1 /\ Len(u) = i
  BY <1>9 DEF Moved
<1>11. ASSUME NEW j \in 1 .. i + 1 PROVE \E a \in m + 1 .. m + (i + 1) : t[j] = leaf[a]
  <2>1. t[j] = e \/ \E a \in 1 .. i : t[j] = u[a]
    BY <1>9, <1>10
  <2>2. CASE t[j] = e
    <3>1. m + i + 1 \in m + 1 .. m + (i + 1)
      OBVIOUS
    <3> QED
      BY <2>2, <3>1
  <2>3. ASSUME NEW b \in 1 .. i, t[j] = u[b] PROVE \E a \in m + 1 .. m + (i + 1) : t[j] = leaf[a]
    <3>1. PICK a \in m + 1 .. m + i : u[b] = leaf[a]
      BY DEF Moved
    <3>2. a \in m + 1 .. m + (i + 1)
      OBVIOUS
    <3> QED
      BY <2>3, <3>1, <3>2
  <2> QED
    BY <2>1, <2>2, <2>3
<1>12. ASSUME NEW a \in m + 1 .. m + (i + 1) PROVE \E j \in 1 .. i + 1 : t[j] = leaf[a]
  <2>1. a = m + i + 1 \/ a \in m + 1 .. m + i
    OBVIOUS
  <2>2. CASE a = m + i + 1
    BY <1>9, <1>10, <2>2
  <2>3. CASE a \in m + 1 .. m + i
    <3>1. PICK b \in 1 .. i : u[b] = leaf[a]
      BY <2>3 DEF Moved
    <3> QED
      BY <1>9, <1>10, <3>1
  <2> QED
    BY <2>1, <2>2, <2>3
<1> QED
  BY <1>9, <1>10, <1>11, <1>12 DEF Moved, t

-----------------------------------------------------------------------------
\* A key that an inserted value made is one of its rows' keys, and decoding and
\* encoding leaves it.
LEMMA EntryKey ==
  ASSUME IsEncoder(Encoder), NEW rows, Whole(Encoder, rows), NEW leaf \in Leaf(rows),
         Sorted(Encoder, leaf), NEW i \in 1 .. Len(leaf)
  PROVE  /\ KeyOf(DecodeKey(leaf[i].key)) = leaf[i].key
         /\ Throws \notin Range(DecodeKey(leaf[i].key))
         /\ leaf[i].key \in Seq(Bytes) /\ leaf[i].key # NoKey
         /\ Exact(Encoder, leaf[i].row) => DecodeKey(leaf[i].key) = leaf[i].row
<1> DEFINE v == leaf[i].row
<1>1. v \in rows /\ leaf[i].key = Encode(Encoder, v)
  BY LeafTyped DEF Sorted
<1>2. IsRow(Encoder.columns, v) /\ Regular(Encoder, v)
  BY <1>1 DEF Whole
<1>3. Throws \notin Int /\ Throws \notin Seq(Bytes) /\ NoKey \notin Seq(Bytes)
  BY NullAssumption
<1> HIDE DEF v
<1>4. /\ Encode(Encoder, v) \in Seq(Bytes)
      /\ Throws \notin Range(Decode(Encoder, Encode(Encoder, v)))
      /\ Encode(Encoder, Decode(Encoder, Encode(Encoder, v))) = Encode(Encoder, v)
      /\ Exact(Encoder, v) => Decode(Encoder, Encode(Encoder, v)) = v
  BY <1>2, <1>3, KeysSurvive
<1> QED
  BY <1>1, <1>3, <1>4 DEF v, KeyOf, DecodeKey

\* Where a split at entry h divides a sorted leaf, and how.
Divides(encoder, leaf, h, from, to) ==
  LET pivot == leaf[h].key
  IN  /\ Sorted(encoder, from) /\ Sorted(encoder, to)
      /\ \A i \in 1 .. Len(from) : /\ Before(encoder, from[i].key, pivot)
                                   /\ \E j \in 1 .. Len(leaf) : from[i] = leaf[j]
      /\ \A i \in 1 .. Len(to) : /\ ~ Before(encoder, to[i].key, pivot)
                                 /\ \E j \in 1 .. Len(leaf) : to[i] = leaf[j]
      /\ \A j \in 1 .. Len(leaf) : \/ \E i \in 1 .. Len(from) : from[i] = leaf[j]
                                   \/ \E i \in 1 .. Len(to) : to[i] = leaf[j]
      /\ (\A i, j \in 1 .. Len(leaf) : i < j => leaf[i].key # leaf[j].key)
           => Len(from) = h - 1 /\ Len(to) = Len(leaf) - h + 1

\* _moveData divides a sorted leaf at a key of it: the entries before the first
\* of that key stay, the others move.
LEMMA MoveDataDivides ==
  ASSUME IsEncoder(Encoder), NEW rows, Whole(Encoder, rows), NEW leaf \in Leaf(rows),
         Sorted(Encoder, leaf), NEW h \in 1 .. Len(leaf)
  PROVE  LET moved == MoveData(leaf, leaf[h].key)
         IN  /\ moved.from \in Leaf(rows) /\ moved.to \in Leaf(rows)
             /\ Divides(Encoder, leaf, h, moved.from, moved.to)
<1> DEFINE L == Len(leaf)
           pivot == leaf[h].key
           m == InsertPos(leaf, pivot) - 1
           K == KeysOf(Encoder, rows)
           data == RangeSearchEncoded(leaf, pivot, NoKey)
           n == L - m
           moved == MoveData(leaf, pivot)
<1>1. /\ L \in Nat
      /\ \A i \in 1 .. L : /\ leaf[i].key \in K
                           /\ KeyOf(DecodeKey(leaf[i].key)) = leaf[i].key
                           /\ leaf[i].key \in Seq(Bytes) /\ leaf[i].key # NoKey
  BY LeafTyped, SortedKeys, EntryKey
<1>2. pivot \in K /\ pivot # NoKey /\ TotalOrder(Encoder, K)
  BY <1>1, Ordering
<1>3. /\ m \in 0 .. L
      /\ \A i \in 1 .. L : i <= m <=> Before(Encoder, leaf[i].key, pivot)
  <2>1. /\ InsertPos(leaf, pivot) \in 1 .. L + 1
        /\ \A i \in 1 .. L : i < InsertPos(leaf, pivot) <=> Before(Encoder, leaf[i].key, pivot)
    BY <1>2, InsertPosSorted
  <2> QED
    BY <1>1, <2>1
<1> HIDE DEF m, K
<1>4. \A i \in 1 .. L : InRange(leaf[i].key, pivot, NoKey) <=> m < i /\ i <= L
  <2> SUFFICES ASSUME NEW i \in 1 .. L
               PROVE  InRange(leaf[i].key, pivot, NoKey) <=> m < i /\ i <= L
    OBVIOUS
  <2>1. InRange(leaf[i].key, pivot, NoKey) <=> Compare(Encoder, leaf[i].key, pivot) >= 0
    BY <1>2 DEF InRange
  <2>2. Compare(Encoder, leaf[i].key, pivot) >= 0 <=> ~ Before(Encoder, leaf[i].key, pivot)
    BY <1>1, <1>2 DEF TotalOrder
  <2> QED
    BY <1>1, <1>3, <2>1, <2>2
<1>5. h > m
  <2>1. ~ Before(Encoder, pivot, pivot)
    BY <1>2 DEF TotalOrder
  <2> QED
    BY <1>1, <1>3, <2>1
<1>6. Len(data) = n /\ (\A j \in 1 .. n : data[j] = leaf[m + j])
  <2> DEFINE S == [key : Seq(Bytes), row : rows]
  <2>1. leaf \in Seq(S) /\ m \in Nat /\ L \in Nat /\ m <= L /\ L <= Len(leaf)
    BY <1>1, <1>3 DEF Leaf
  <2>2. leaf \in Seq(S)
    BY <2>1
  <2> HIDE DEF S, pivot
  <2>3. LET found == RangeSearchEncoded(leaf, pivot, NoKey)
        IN  /\ found \in Seq(S) /\ Len(found) = L - m
            /\ \A j \in 1 .. L - m : found[j] = leaf[m + j]
    <3>1. Segment(leaf, pivot, NoKey, m, L)
      BY <1>4, <2>1 DEF Segment
    <3> HIDE DEF L
    <3> QED
      BY <2>2, <3>1, RangeSearchSegment
  <2> QED
    BY <2>3
<1>7. PICK f : Moves(f, leaf, pivot, rows)
  BY <1>1, MovesExist
<1>8. /\ f \in [0 .. n -> [from : Leaf(rows), to : Leaf(rows)]]
      /\ f[0] = [from |-> leaf, to |-> << >>]
      /\ \A i \in 1 .. n :
           f[i] = MoveEntry(f[i - 1], KeyOf(DecodeKey(data[i].key)), data[i].row)
      /\ moved = f[n]
  BY <1>6, <1>7 DEF Moves
<1>9. n \in Nat /\ n > 0
  BY <1>1, <1>3, <1>5
<1>10. ASSUME NEW i \in 1 .. n
       PROVE  LET e == leaf[m + i]
              IN  f[i] = [from |-> RemoveEncoded(f[i - 1].from, e.key),
                          to   |-> InsertEncoded(f[i - 1].to, e.key, e.row)]
  <2> DEFINE e == leaf[m + i]
  <2>1. data[i] = e /\ m + i \in 1 .. L
    BY <1>1, <1>3, <1>6
  <2>2. KeyOf(DecodeKey(e.key)) = e.key
    BY <1>1, <2>1
  <2> HIDE DEF e, data
  <2> QED
    BY <1>8, <2>1, <2>2 DEF MoveEntry, e
<1> DEFINE T == {i \in 0 .. n : /\ Cut(f[i].from, leaf, m, i)
                                /\ Sorted(Encoder, f[i].to)
                                /\ Moved(f[i].to, leaf, m, i)}
<1>11. 0 \in T
  <2>1. f[0].from = leaf /\ f[0].to = << >>
    BY <1>8
  <2>2. Cut(leaf, leaf, m, 0)
    BY <1>1, <1>3 DEF Cut
  <2>3. Sorted(Encoder, << >>) /\ Moved(<< >>, leaf, m, 0)
    BY <1>1, <1>3 DEF Sorted, Moved
  <2> QED
    BY <1>9, <2>1, <2>2, <2>3
<1> HIDE DEF n
<1>12. \A i \in 0 .. n - 1 : i \in T => i + 1 \in T
  <2> SUFFICES ASSUME NEW i \in 0 .. n - 1, i \in T PROVE i + 1 \in T
    OBVIOUS
  <2> DEFINE u == f[i].from
             w == f[i].to
             e == leaf[m + i + 1]
  <2>1. i \in Nat /\ i \in 0 .. n /\ i + 1 \in 0 .. n /\ m \in Nat /\ m + i < L
    BY <1>1, <1>3, <1>9 DEF n
  <2>2. u \in Leaf(rows) /\ w \in Leaf(rows)
    BY <1>8, <2>1
  <2>3. Cut(u, leaf, m, i) /\ Sorted(Encoder, w) /\ Moved(w, leaf, m, i)
    OBVIOUS
  <2>4. f[i + 1] = [from |-> RemoveEncoded(u, e.key), to |-> InsertEncoded(w, e.key, e.row)]
    <3>1. i + 1 \in 1 .. n /\ (i + 1) - 1 = i /\ m + (i + 1) = m + i + 1
      BY <1>3, <1>9
    <3> QED
      BY <1>10, <3>1
  <2>5. \A j \in 1 .. m : Before(Encoder, leaf[j].key, leaf[m + 1].key)
    <3> SUFFICES ASSUME NEW j \in 1 .. m PROVE Before(Encoder, leaf[j].key, leaf[m + 1].key)
      OBVIOUS
    <3>1. j \in 1 .. L /\ m + 1 \in 1 .. L /\ j <= m /\ ~ (m + 1 <= m)
      BY <1>1, <1>3, <2>1
    <3>2. /\ Before(Encoder, leaf[j].key, pivot) /\ ~ Before(Encoder, leaf[m + 1].key, pivot)
          /\ leaf[j].key \in K /\ leaf[m + 1].key \in K
      BY <1>1, <1>3, <3>1
    <3> HIDE DEF pivot
    <3>3. leaf[m + 1].key = pivot \/ Before(Encoder, pivot, leaf[m + 1].key)
      BY <1>2, <3>2 DEF TotalOrder
    <3> QED
      BY <1>2, <3>2, <3>3 DEF TotalOrder
  <2> HIDE DEF u, w
  <2>6. RemoveEncoded(u, e.key) \in Leaf(rows) /\ Cut(RemoveEncoded(u, e.key), leaf, m, i + 1)
    BY <2>1, <2>2, <2>3, <2>5, RemoveNext
  <2>7. /\ Sorted(Encoder, InsertEncoded(w, e.key, e.row))
        /\ Moved(InsertEncoded(w, e.key, e.row), leaf, m, i + 1)
    BY <2>1, <2>2, <2>3, InsertNext
  <2>8. /\ f[i + 1].from = RemoveEncoded(u, e.key)
        /\ f[i + 1].to = InsertEncoded(w, e.key, e.row)
    BY <2>4
  <2> QED
    BY <2>1, <2>6, <2>7, <2>8
<1> HIDE DEF T
<1>13. \A i \in 0 .. n : i \in T
  BY <1>9, <1>11, <1>12, UpTo
<1>14. n \in T
  BY <1>9, <1>13
<1> DEFINE from == moved.from
           to == moved.to
<1>15. /\ from \in Leaf(rows) /\ to \in Leaf(rows)
       /\ Cut(from, leaf, m, n) /\ Sorted(Encoder, to) /\ Moved(to, leaf, m, n)
  BY <1>8, <1>9, <1>14 DEF T
<1> HIDE DEF moved
<1>16. Sorted(Encoder, from)
  <2>1. m \in Nat /\ n \in Nat /\ m + n <= Len(leaf)
    BY <1>1, <1>3 DEF n
  <2> HIDE DEF from, n
  <2> QED
    BY <1>15, <2>1, CutSorted
<1>17. Len(from) = m /\ (\A j \in 1 .. m : from[j] = leaf[j]) /\ Len(to) = n
  BY <1>1, <1>3, <1>15 DEF Cut, Moved, n
<1>18. \A i \in 1 .. Len(from) : /\ Before(Encoder, from[i].key, pivot)
                                 /\ \E j \in 1 .. Len(leaf) : from[i] = leaf[j]
  <2> SUFFICES ASSUME NEW i \in 1 .. m
               PROVE  Before(Encoder, from[i].key, pivot) /\ \E j \in 1 .. L : from[i] = leaf[j]
    BY <1>17
  <2>1. i \in 1 .. L /\ i <= m
    BY <1>1, <1>3
  <2> QED
    BY <1>3, <1>17, <2>1
<1>19. \A i \in 1 .. Len(to) : /\ ~ Before(Encoder, to[i].key, pivot)
                               /\ \E j \in 1 .. Len(leaf) : to[i] = leaf[j]
  <2> SUFFICES ASSUME NEW i \in 1 .. n
               PROVE  ~ Before(Encoder, to[i].key, pivot) /\ \E j \in 1 .. L : to[i] = leaf[j]
    BY <1>17
  <2>1. PICK a \in m + 1 .. m + n : to[i] = leaf[a]
    BY <1>15 DEF Moved
  <2>2. a \in 1 .. L /\ ~ (a <= m)
    BY <1>1, <1>3 DEF n
  <2> QED
    BY <1>3, <2>1, <2>2
<1>20. \A j \in 1 .. Len(leaf) : \/ \E i \in 1 .. Len(from) : from[i] = leaf[j]
                                 \/ \E i \in 1 .. Len(to) : to[i] = leaf[j]
  <2> SUFFICES ASSUME NEW j \in 1 .. L
               PROVE  \/ \E i \in 1 .. m : from[i] = leaf[j]
                      \/ \E i \in 1 .. n : to[i] = leaf[j]
    BY <1>17
  <2>1. j \in 1 .. m \/ j \in m + 1 .. m + n
    BY <1>1, <1>3 DEF n
  <2> QED
    BY <1>15, <1>17, <2>1 DEF Moved
<1>21. (\A i, j \in 1 .. Len(leaf) : i < j => leaf[i].key # leaf[j].key)
         => Len(from) = h - 1 /\ Len(to) = Len(leaf) - h + 1
  <2> SUFFICES ASSUME \A i, j \in 1 .. L : i < j => leaf[i].key # leaf[j].key
               PROVE  Len(from) = h - 1 /\ Len(to) = L - h + 1
    OBVIOUS
  <2>0. h \in Int /\ m \in Int /\ L \in Int /\ n = L - m /\ Len(from) = m /\ Len(to) = n
    BY <1>1, <1>3, <1>17 DEF n
  <2>1. CASE m + 1 < h
    <3>1. m + 1 \in 1 .. L /\ ~ (m + 1 <= m)
      BY <1>1, <1>3, <2>1
    <3>2. ~ Before(Encoder, pivot, leaf[m + 1].key) /\ leaf[m + 1].key # pivot
      BY <2>1, <3>1 DEF Sorted
    <3>3. ~ Before(Encoder, leaf[m + 1].key, pivot) /\ leaf[m + 1].key \in K
      BY <1>1, <1>3, <3>1
    <3> HIDE DEF pivot
    <3> QED
      BY <1>2, <3>2, <3>3 DEF TotalOrder
  <2>2. CASE ~ (m + 1 < h)
    <3>1. m = h - 1
      BY <1>5, <2>0, <2>2
    <3> HIDE DEF from, to, n, L
    <3> QED
      BY <2>0, <3>1
  <2> QED
    BY <2>1, <2>2
<1>22. Divides(Encoder, leaf, h, from, to)
  BY <1>15, <1>16, <1>18, <1>19, <1>20, <1>21 DEF Divides
<1> QED
  BY <1>15, <1>22 DEF moved

-----------------------------------------------------------------------------
\* What follows from a total order.
LEMMA OrderFacts ==
  ASSUME NEW encoder, NEW keys, TotalOrder(encoder, keys),
         NEW j \in keys, NEW k \in keys, NEW l \in keys
  PROVE  /\ ~ Before(encoder, j, j)
         /\ ~ (Before(encoder, j, k) /\ Before(encoder, k, j))
         /\ j = k \/ Before(encoder, j, k) \/ Before(encoder, k, j)
         /\ Before(encoder, j, k) /\ Before(encoder, k, l) => Before(encoder, j, l)
         /\ Before(encoder, j, k) /\ ~ Before(encoder, l, k) => Before(encoder, j, l)
         /\ ~ Before(encoder, k, j) /\ Before(encoder, k, l) => Before(encoder, j, l)
         /\ ~ Before(encoder, k, j) /\ ~ Before(encoder, l, k) => ~ Before(encoder, l, j)
<1>1. /\ ~ Before(encoder, j, j)
      /\ ~ (Before(encoder, j, k) /\ Before(encoder, k, j))
      /\ j = k \/ Before(encoder, j, k) \/ Before(encoder, k, j)
      /\ k = l \/ Before(encoder, k, l) \/ Before(encoder, l, k)
  BY DEF TotalOrder
<1>2. /\ Before(encoder, j, k) /\ Before(encoder, k, l) => Before(encoder, j, l)
      /\ Before(encoder, l, j) /\ Before(encoder, j, k) => Before(encoder, l, k)
  BY DEF TotalOrder
<1> QED
  BY <1>1, <1>2

-----------------------------------------------------------------------------
Partition(rows) ==
  [startKey : Seq(Bytes) \cup {NoKey}, endKey : Seq(Bytes) \cup {NoKey}, leaf : Leaf(rows)]

Covers(encoder, part, k) ==
  /\ part.startKey # NoKey => ~ Before(encoder, k, part.startKey)
  /\ part.endKey # NoKey => Before(encoder, k, part.endKey)

Chained(encoder, parts, rows) ==
  /\ \A p \in 1 .. Len(parts) :
       /\ parts[p].startKey = NoKey <=> p = 1
       /\ parts[p].endKey = NoKey <=> p = Len(parts)
       /\ parts[p].startKey # NoKey => parts[p].startKey \in KeysOf(encoder, rows)
       /\ parts[p].endKey # NoKey => parts[p].endKey \in KeysOf(encoder, rows)
  /\ \A p \in 1 .. Len(parts) - 1 : parts[p].endKey = parts[p + 1].startKey
  /\ \A p, q \in 2 .. Len(parts) : p < q =>
       ~ Before(encoder, parts[q].startKey, parts[p].startKey)

Sound(encoder, parts, rows) ==
  /\ Chained(encoder, parts, rows)
  /\ \A p \in 1 .. Len(parts) :
       /\ Sorted(encoder, parts[p].leaf)
       /\ \A i \in 1 .. Len(parts[p].leaf) : Covers(encoder, parts[p], parts[p].leaf[i].key)
  /\ \A v \in rows : \E p \in 1 .. Len(parts) : \E i \in 1 .. Len(parts[p].leaf) :
       parts[p].leaf[i].row = v

\* A partition has two bounds and a leaf.
LEMMA PartitionTyped ==
  ASSUME NEW rows, NEW parts \in Seq(Partition(rows))
  PROVE  /\ Len(parts) \in Nat
         /\ \A p \in 1 .. Len(parts) : parts[p] \in Partition(rows) /\ parts[p].leaf \in Leaf(rows)
<1>1. Len(parts) \in Nat /\ \A p \in 1 .. Len(parts) : parts[p] \in Partition(rows)
  BY LenProperties, ElementOfSeq
<1> QED
  BY <1>1 DEF Partition

\* _containsKey asks whether the bounds cover the key.
LEMMA CoversContains ==
  ASSUME NEW keys, TotalOrder(Encoder, keys), NEW part,
         part.startKey # NoKey => part.startKey \in keys,
         part.endKey # NoKey => part.endKey \in keys, NEW k \in keys
  PROVE  ContainsKey(part, k) <=> Covers(Encoder, part, k)
BY DEF ContainsKey, Covers, TotalOrder

\* One partition covers a key, and _findPartitionIndex finds it.
LEMMA FindPartition ==
  ASSUME IsEncoder(Encoder), NEW rows, Whole(Encoder, rows),
         Len(partitions) \in Nat, Len(partitions) > 0,
         Chained(Encoder, partitions, rows), NEW k \in KeysOf(Encoder, rows)
  PROVE  /\ FindPartitionIndex(k) \in Parts
         /\ Covers(Encoder, partitions[FindPartitionIndex(k)], k)
         /\ \A q \in Parts : Covers(Encoder, partitions[q], k) => q = FindPartitionIndex(k)
<1> DEFINE n == Len(partitions)
           K == KeysOf(Encoder, rows)
           Start(p) == partitions[p].startKey
           End(p) == partitions[p].endKey
           E == {p \in 1 .. n : End(p) = NoKey \/ Before(Encoder, k, End(p))}
           C == {p \in 1 .. n : ContainsKey(partitions[p], k)}
<1>1. TotalOrder(Encoder, K) /\ k \in K
  BY Ordering
<1>2. /\ \A p \in 1 .. n : /\ Start(p) = NoKey <=> p = 1
                           /\ End(p) = NoKey <=> p = n
                           /\ Start(p) # NoKey => Start(p) \in K
                           /\ End(p) # NoKey => End(p) \in K
      /\ \A p \in 1 .. n - 1 : End(p) = Start(p + 1)
      /\ \A p, q \in 2 .. n : p < q => ~ Before(Encoder, Start(q), Start(p))
  BY DEF Chained
<1>3. \A p \in 1 .. n : ContainsKey(partitions[p], k) <=> Covers(Encoder, partitions[p], k)
  BY <1>1, <1>2, CoversContains
<1>4. \A p \in 1 .. n : Covers(Encoder, partitions[p], k)
                          <=> /\ Start(p) # NoKey => ~ Before(Encoder, k, Start(p))
                              /\ End(p) # NoKey => Before(Encoder, k, End(p))
  BY DEF Covers
<1> HIDE DEF K, Start, End
<1>5. PICK e \in E : \A p \in E : e <= p
  <2>1. n \in E /\ E \in SUBSET Nat
    BY <1>2
  <2> QED
    BY <2>1, LeastElement
<1>6. e \in 1 .. n /\ (End(e) = NoKey \/ Before(Encoder, k, End(e)))
  BY <1>5
<1>7. Covers(Encoder, partitions[e], k)
  <2>1. CASE e = 1
    BY <1>2, <1>4, <1>6, <2>1
  <2>2. CASE e # 1
    <3>1. e - 1 \in 1 .. n - 1 /\ e - 1 \in 1 .. n /\ (e - 1) + 1 = e /\ ~ (e <= e - 1)
      BY <1>6, <2>2
    <3>2. ~ (e - 1 \in E)
      BY <1>5, <3>1
    <3>3. ~ Before(Encoder, k, End(e - 1)) /\ End(e - 1) = Start(e)
      BY <1>2, <3>1, <3>2
    <3> QED
      BY <1>4, <1>6, <3>3
  <2> QED
    BY <2>1, <2>2
<1>8. ASSUME NEW p \in 1 .. n, NEW q \in 1 .. n, p < q,
             Covers(Encoder, partitions[p], k), Covers(Encoder, partitions[q], k)
      PROVE  FALSE
  <2>1. p \in 1 .. n - 1 /\ p + 1 \in 2 .. n /\ q \in 2 .. n /\ p # n /\ q # 1 /\ p + 1 \in 1 .. n /\ p + 1 # 1
    BY <1>8
  <2>2. End(p) # NoKey /\ End(p) \in K /\ Start(q) # NoKey /\ Start(q) \in K
    BY <1>2, <2>1
  <2>3. Before(Encoder, k, Start(p + 1)) /\ ~ Before(Encoder, k, Start(q)) /\ Start(p + 1) \in K
    BY <1>2, <1>4, <1>8, <2>1, <2>2
  <2>4. p + 1 = q \/ p + 1 < q
    BY <1>8
  <2>5. CASE p + 1 = q
    BY <2>3, <2>5
  <2>6. CASE p + 1 < q
    <3>1. ~ Before(Encoder, Start(q), Start(p + 1))
      BY <1>2, <2>1, <2>6
    <3> QED
      BY <1>1, <2>2, <2>3, <3>1, OrderFacts
  <2> QED
    BY <2>4, <2>5, <2>6
<1> DEFINE f == FindPartitionIndex(k)
<1>9. f \in 1 .. n /\ Covers(Encoder, partitions[f], k)
  <2>1. e \in C /\ C \in SUBSET Nat
    BY <1>3, <1>6, <1>7
  <2>2. f = IF C # {} THEN Min(C) ELSE 0
    BY DEF FindPartitionIndex, SelectInSeq
  <2>3. Min(C) \in C
    BY <2>1, MinProperties
  <2>4. f = Min(C)
    BY <2>1, <2>2
  <2> HIDE DEF f
  <2>5. f \in C
    BY <2>3, <2>4
  <2> QED
    BY <1>3, <2>5
<1> HIDE DEF f
<1>10. ASSUME NEW q \in 1 .. n, Covers(Encoder, partitions[q], k) PROVE q = f
  <2>1. ~ (q < f) /\ ~ (f < q)
    BY <1>8, <1>9, <1>10
  <2> QED
    BY <1>9, <2>1
<1> QED
  BY <1>9, <1>10 DEF f, Parts

-----------------------------------------------------------------------------
\* Where _splitPartition puts what.
Splits(t, parts, p, pivot, moved) ==
  /\ Len(t) = Len(parts) + 1
  /\ \A i \in 1 .. p - 1 : t[i] = parts[i]
  /\ t[p].startKey = parts[p].startKey /\ t[p].endKey = pivot /\ t[p].leaf = moved.from
  /\ t[p + 1].startKey = pivot /\ t[p + 1].endKey = parts[p].endKey /\ t[p + 1].leaf = moved.to
  /\ \A i \in p + 2 .. Len(parts) + 1 : t[i] = parts[i - 1]

\* _splitPartition replaces the full partition by two that meet at the pivot.
LEMMA SplitShape ==
  ASSUME IsEncoder(Encoder), NEW rows, NEW parts \in Seq(Partition(rows)),
         NEW p \in 1 .. Len(parts), Len(parts[p].leaf) > 0, Decodable(parts[p].leaf)
  PROVE  LET pivot == FindMedianKey(parts[p].leaf)
             t == SplitPartition(parts, p)
         IN  /\ t \in Seq(Partition(rows))
             /\ Splits(t, parts, p, pivot, MoveData(parts[p].leaf, pivot))
<1> DEFINE leaf == parts[p].leaf
           pivot == FindMedianKey(leaf)
           moved == MoveData(leaf, pivot)
           old == parts[p]
           lower == [old EXCEPT !.endKey = pivot, !.leaf = moved.from]
           upper == [old EXCEPT !.startKey = pivot, !.leaf = moved.to]
           t == SplitPartition(parts, p)
           P == Partition(rows)
<1>1. Len(parts) \in Nat /\ parts[p] \in P /\ leaf \in Leaf(rows)
  BY PartitionTyped
<1>2. Len(leaf) \in Nat /\ \A i \in 1 .. Len(leaf) : leaf[i].key \in Seq(Bytes)
  BY <1>1, LeafTyped
<1>3. ASSUME NEW i \in 1 .. Len(leaf) PROVE KeyOf(DecodeKey(leaf[i].key)) \in Seq(Bytes)
  <2> DEFINE k == leaf[i].key
  <2>1. k \in Seq(Bytes) /\ Throws \notin Range(Decode(Encoder, k))
    BY <1>2 DEF Decodable, DecodeKey
  <2> HIDE DEF k
  <2>2. IsRow(Encoder.columns, Decode(Encoder, k))
    BY <2>1, DecodeTyped
  <2> QED
    BY <2>2, EncodeTyped DEF KeyOf, DecodeKey, k
<1>4. pivot \in Seq(Bytes)
  <2>1. Len(leaf) \div 2 + 1 \in 1 .. Len(leaf)
    <3> DEFINE n == Len(leaf)
    <3>1. n \in Nat /\ n > 0
      BY <1>2
    <3> HIDE DEF n
    <3>2. n \div 2 + 1 \in 1 .. n
      BY <3>1
    <3> QED
      BY <3>2 DEF n
  <2> QED
    BY <1>3, <2>1 DEF FindMedianKey
<1>5. moved.from \in Leaf(rows) /\ moved.to \in Leaf(rows)
  <2>1. PICK f : Moves(f, leaf, pivot, rows)
    BY <1>1, <1>3, MovesExist
  <2> DEFINE data == RangeSearchEncoded(leaf, pivot, NoKey)
  <2>2. f \in [0 .. Len(data) -> [from : Leaf(rows), to : Leaf(rows)]] /\ moved = f[Len(data)]
    BY <2>1 DEF Moves
  <2>3. Len(data) \in Nat
    <3> DEFINE S == [key : Seq(Bytes), row : rows]
    <3>1. leaf \in Seq(S)
      BY <1>1 DEF Leaf
    <3> HIDE DEF S
    <3>2. data \in Seq(S)
      BY <3>1, RangeSearchEncodedTyped
    <3> QED
      BY <3>2, LenProperties
  <2> HIDE DEF data, moved
  <2> QED
    BY <2>2, <2>3
<1>7. /\ lower \in P /\ upper \in P
      /\ lower.startKey = old.startKey /\ lower.endKey = pivot /\ lower.leaf = moved.from
      /\ upper.startKey = pivot /\ upper.endKey = old.endKey /\ upper.leaf = moved.to
  <2>1. old \in P
    BY <1>1
  <2> HIDE DEF old, pivot, moved
  <2>2. lower \in P /\ upper \in P
    BY <1>4, <1>5, <2>1 DEF Partition
  <2>3. lower.startKey = old.startKey /\ lower.endKey = pivot /\ lower.leaf = moved.from
    BY <2>1 DEF Partition
  <2>4. upper.startKey = pivot /\ upper.endKey = old.endKey /\ upper.leaf = moved.to
    BY <2>1 DEF Partition
  <2> QED
    BY <2>2, <2>3, <2>4
<1>8. t = InsertAt(ReplaceAt(parts, p, lower), p + 1, upper)
  BY DEF SplitPartition
<1> HIDE DEF t, P, lower, upper
<1> DEFINE r == ReplaceAt(parts, p, lower)
<1>9. r \in Seq(P) /\ Len(r) = Len(parts) /\ r[p] = lower /\ \A i \in 1 .. Len(parts) : i # p => r[i] = parts[i]
  <2>1. parts \in Seq(P) /\ r = [parts EXCEPT ![p] = lower]
    BY DEF ReplaceAt, P
  <2> HIDE DEF r
  <2> QED
    BY <1>7, <2>1
<1> HIDE DEF r
<1> DEFINE q == p + 1
<1>10. LET u == InsertAt(r, q, upper)
       IN  u \in Seq(P) /\ Len(u) = Len(r) + 1 /\ Inserts(u, r, q, upper)
  <2>1. r \in Seq(P)
    BY <1>9
  <2>2. upper \in P
    BY <1>7
  <2>3. q \in 1 .. Len(r) + 1
    BY <1>1, <1>9
  <2> HIDE DEF q
  <2> QED
    BY <2>1, <2>2, <2>3, InsertAtProperties
<1>11. t = InsertAt(r, p + 1, upper)
  BY <1>8 DEF r
<1>12. t \in Seq(P) /\ Len(t) = Len(parts) + 1 /\ t[p + 1] = upper
  BY <1>9, <1>10, <1>11 DEF Inserts
<1>13. \A i \in 1 .. p : t[i] = r[i]
  <2>1. \A i \in 1 .. (p + 1) - 1 : t[i] = r[i]
    BY <1>10, <1>11 DEF Inserts
  <2> QED
    BY <2>1
<1>14. t[p] = lower /\ \A i \in 1 .. p - 1 : t[i] = parts[i]
  BY <1>1, <1>9, <1>13
<1>15. ASSUME NEW i \in p + 2 .. Len(parts) + 1 PROVE t[i] = parts[i - 1]
  <2>1. i \in (p + 1) + 1 .. Len(r) + 1 /\ i - 1 \in 1 .. Len(parts) /\ i - 1 # p
    BY <1>1, <1>9
  <2> QED
    BY <1>9, <1>10, <1>11, <2>1 DEF Inserts
<1> QED
  BY <1>7, <1>12, <1>14, <1>15 DEF Splits, t, P

-----------------------------------------------------------------------------
\* The chain of partitions after a split at a key within partition p.
LEMMA SplitChained ==
  ASSUME NEW encoder, NEW rows, NEW parts, NEW p \in 1 .. Len(parts), Len(parts) \in Nat,
         TotalOrder(encoder, KeysOf(encoder, rows)), Chained(encoder, parts, rows),
         NEW pivot \in KeysOf(encoder, rows), pivot # NoKey, Covers(encoder, parts[p], pivot),
         NEW t, NEW moved, Splits(t, parts, p, pivot, moved)
  PROVE  Chained(encoder, t, rows)
<1> DEFINE n == Len(parts)
           K == KeysOf(encoder, rows)
           Start(q) == parts[q].startKey
           End(q) == parts[q].endKey
<1>1. /\ \A q \in 1 .. n : /\ Start(q) = NoKey <=> q = 1
                           /\ End(q) = NoKey <=> q = n
                           /\ Start(q) # NoKey => Start(q) \in K
                           /\ End(q) # NoKey => End(q) \in K
      /\ \A q \in 1 .. n - 1 : End(q) = Start(q + 1)
      /\ \A q, r \in 2 .. n : q < r => ~ Before(encoder, Start(r), Start(q))
  BY DEF Chained
<1>2. /\ Start(p) # NoKey => ~ Before(encoder, pivot, Start(p))
      /\ End(p) # NoKey => Before(encoder, pivot, End(p))
  BY DEF Covers
<1>3. /\ Len(t) = n + 1
      /\ \A i \in 1 .. p - 1 : t[i].startKey = Start(i) /\ t[i].endKey = End(i)
      /\ t[p].startKey = Start(p) /\ t[p].endKey = pivot
      /\ t[p + 1].startKey = pivot /\ t[p + 1].endKey = End(p)
      /\ \A i \in p + 2 .. n + 1 : t[i].startKey = Start(i - 1) /\ t[i].endKey = End(i - 1)
  BY DEF Splits
<1> HIDE DEF n, K, Start, End
<1>4. n \in Nat /\ p \in 1 .. n /\ TotalOrder(encoder, K) /\ pivot \in K
  BY DEF n, K
<1>5. ASSUME NEW i \in 1 .. n + 1
      PROVE  /\ t[i].startKey = NoKey <=> i = 1
             /\ t[i].endKey = NoKey <=> i = n + 1
             /\ t[i].startKey # NoKey => t[i].startKey \in K
             /\ t[i].endKey # NoKey => t[i].endKey \in K
  <2>1. CASE i \in 1 .. p - 1
    <3>1. i \in 1 .. n /\ i # n /\ i # n + 1
      BY <1>4, <2>1
    <3> QED
      BY <1>1, <1>3, <2>1, <3>1
  <2>2. CASE i = p
    <3>1. i # n + 1
      BY <1>4, <2>2
    <3> QED
      BY <1>1, <1>3, <1>4, <2>2, <3>1
  <2>3. CASE i = p + 1
    <3>1. i # 1 /\ (i = n + 1 <=> p = n)
      BY <1>4, <2>3
    <3> QED
      BY <1>1, <1>3, <1>4, <2>3, <3>1
  <2>4. CASE i \in p + 2 .. n + 1
    <3>1. i - 1 \in 1 .. n /\ i - 1 # 1 /\ i # 1 /\ (i - 1 = n <=> i = n + 1)
      BY <1>4, <2>4
    <3> QED
      BY <1>1, <1>3, <2>4, <3>1
  <2>5. i \in 1 .. p - 1 \/ i = p \/ i = p + 1 \/ i \in p + 2 .. n + 1
    BY <1>4
  <2> QED
    BY <2>1, <2>2, <2>3, <2>4, <2>5
<1>6. ASSUME NEW i \in 1 .. n PROVE t[i].endKey = t[i + 1].startKey
  <2>1. CASE i \in 1 .. p - 2
    <3>1. i \in 1 .. n - 1 /\ i \in 1 .. p - 1 /\ i + 1 \in 1 .. p - 1
      BY <1>4, <2>1
    <3> QED
      BY <1>1, <1>3, <3>1
  <2>2. CASE i = p - 1
    <3>1. i \in 1 .. n - 1 /\ i \in 1 .. p - 1 /\ i + 1 = p
      BY <1>4, <2>2
    <3> QED
      BY <1>1, <1>3, <3>1
  <2>3. CASE i = p
    BY <1>3, <2>3
  <2>4. CASE i = p + 1
    <3>1. p \in 1 .. n - 1 /\ i + 1 \in p + 2 .. n + 1 /\ (i + 1) - 1 = p + 1
      BY <1>4, <2>4
    <3> QED
      BY <1>1, <1>3, <2>4, <3>1
  <2>5. CASE i \in p + 2 .. n
    <3>1. /\ i \in p + 2 .. n + 1 /\ i + 1 \in p + 2 .. n + 1
          /\ i - 1 \in 1 .. n - 1 /\ (i - 1) + 1 = i /\ (i + 1) - 1 = i
      BY <1>4, <2>5
    <3> QED
      BY <1>1, <1>3, <3>1
  <2>6. i \in 1 .. p - 2 \/ i = p - 1 \/ i = p \/ i = p + 1 \/ i \in p + 2 .. n
    BY <1>4
  <2> QED
    BY <2>1, <2>2, <2>3, <2>4, <2>5, <2>6
<1> DEFINE Src(i) == IF i <= p THEN i ELSE i - 1
<1>7. ASSUME NEW i \in 2 .. n + 1, i # p + 1
      PROVE  Src(i) \in 2 .. n /\ t[i].startKey = Start(Src(i))
  <2>1. CASE i <= p
    <3>1. i \in 2 .. n /\ (i \in 1 .. p - 1 \/ i = p)
      BY <1>4, <2>1
    <3> QED
      BY <1>3, <2>1, <3>1
  <2>2. CASE ~ (i <= p)
    <3>1. i \in p + 2 .. n + 1 /\ i - 1 \in 2 .. n
      BY <1>4, <1>7, <2>2
    <3> QED
      BY <1>3, <2>2, <3>1
  <2> QED
    BY <2>1, <2>2
<1>8. ASSUME NEW i \in 2 .. n + 1, NEW j \in 2 .. n + 1, i < j
      PROVE  ~ Before(encoder, t[j].startKey, t[i].startKey)
  <2>1. CASE i # p + 1 /\ j # p + 1
    <3>1. /\ Src(i) \in 2 .. n /\ t[i].startKey = Start(Src(i))
          /\ Src(j) \in 2 .. n /\ t[j].startKey = Start(Src(j))
      BY <1>7, <2>1
    <3>2. Src(i) < Src(j)
      BY <1>4, <1>8, <2>1
    <3> HIDE DEF Src
    <3> QED
      BY <1>1, <3>1, <3>2
  <2>2. CASE j = p + 1
    <3>1. i \in 2 .. n /\ p \in 2 .. n /\ i <= p /\ p # 1 /\ i # 1 /\ i \in 1 .. n
      BY <1>4, <1>8, <2>2
    <3>2. t[i].startKey = Start(i) /\ t[j].startKey = pivot
      <4>1. i # p + 1
        BY <1>4, <3>1
      <4> QED
        BY <1>3, <1>7, <2>2, <3>1, <4>1
    <3>3. Start(i) \in K /\ Start(p) \in K /\ ~ Before(encoder, pivot, Start(p))
      BY <1>1, <1>2, <1>4, <3>1
    <3>4. i = p \/ ~ Before(encoder, Start(p), Start(i))
      BY <1>1, <3>1
    <3>5. ~ Before(encoder, pivot, Start(i))
      BY <1>4, <3>3, <3>4, OrderFacts
    <3> QED
      BY <3>2, <3>5
  <2>3. CASE i = p + 1
    <3>1. /\ j - 1 \in 2 .. n /\ p + 1 \in 2 .. n /\ p + 1 <= j - 1 /\ j \in p + 2 .. n + 1
          /\ p \in 1 .. n - 1 /\ p # n /\ j - 1 \in 1 .. n /\ j - 1 # 1
      BY <1>4, <1>8, <2>3
    <3>2. t[j].startKey = Start(j - 1) /\ t[i].startKey = pivot
      BY <1>3, <2>3, <3>1
    <3>3. /\ End(p) = Start(p + 1) /\ End(p) \in K /\ Before(encoder, pivot, End(p))
          /\ Start(j - 1) \in K
      BY <1>1, <1>2, <1>4, <3>1
    <3>4. p + 1 = j - 1 \/ ~ Before(encoder, Start(j - 1), Start(p + 1))
      BY <1>1, <3>1
    <3> DEFINE s == Start(j - 1)
               e == End(p)
    <3>5. s \in K /\ e \in K /\ Before(encoder, pivot, e) /\ (e = s \/ ~ Before(encoder, s, e))
      BY <3>3, <3>4
    <3> HIDE DEF s, e
    <3>6. ~ Before(encoder, s, pivot)
      BY <1>4, <3>5, OrderFacts
    <3> QED
      BY <3>2, <3>6 DEF s
  <2> QED
    BY <2>1, <2>2, <2>3
<1>9. (n + 1) - 1 = n
  BY <1>4
<1> QED
  BY <1>3, <1>5, <1>6, <1>8, <1>9 DEF Chained, K

\* The leaves after the split.
LEMMA SplitCovered ==
  ASSUME NEW encoder, NEW rows, NEW parts, NEW p \in 1 .. Len(parts), Len(parts) \in Nat,
         NEW h \in 1 .. Len(parts[p].leaf), Sound(encoder, parts, rows),
         NEW t, NEW moved, Splits(t, parts, p, parts[p].leaf[h].key, moved),
         Divides(encoder, parts[p].leaf, h, moved.from, moved.to)
  PROVE  /\ \A q \in 1 .. Len(t) :
              /\ Sorted(encoder, t[q].leaf)
              /\ \A i \in 1 .. Len(t[q].leaf) : Covers(encoder, t[q], t[q].leaf[i].key)
         /\ \A v \in rows : \E q \in 1 .. Len(t) : \E i \in 1 .. Len(t[q].leaf) :
              t[q].leaf[i].row = v
<1> DEFINE n == Len(parts)
           leaf == parts[p].leaf
           pivot == leaf[h].key
           from == moved.from
           to == moved.to
<1>1. /\ \A q \in 1 .. n :
           /\ Sorted(encoder, parts[q].leaf)
           /\ \A i \in 1 .. Len(parts[q].leaf) : Covers(encoder, parts[q], parts[q].leaf[i].key)
      /\ \A v \in rows : \E q \in 1 .. n : \E i \in 1 .. Len(parts[q].leaf) :
           parts[q].leaf[i].row = v
  BY DEF Sound
<1>2. /\ Len(t) = n + 1
      /\ \A i \in 1 .. p - 1 : t[i] = parts[i]
      /\ t[p].startKey = parts[p].startKey /\ t[p].endKey = pivot /\ t[p].leaf = from
      /\ t[p + 1].startKey = pivot /\ t[p + 1].endKey = parts[p].endKey /\ t[p + 1].leaf = to
      /\ \A i \in p + 2 .. n + 1 : t[i] = parts[i - 1]
  BY DEF Splits
<1>3. /\ Sorted(encoder, from) /\ Sorted(encoder, to)
      /\ \A i \in 1 .. Len(from) : /\ Before(encoder, from[i].key, pivot)
                                   /\ \E j \in 1 .. Len(leaf) : from[i] = leaf[j]
      /\ \A i \in 1 .. Len(to) : /\ ~ Before(encoder, to[i].key, pivot)
                                 /\ \E j \in 1 .. Len(leaf) : to[i] = leaf[j]
      /\ \A j \in 1 .. Len(leaf) : \/ \E i \in 1 .. Len(from) : from[i] = leaf[j]
                                   \/ \E i \in 1 .. Len(to) : to[i] = leaf[j]
  BY DEF Divides
<1>4. \A j \in 1 .. Len(leaf) : Covers(encoder, parts[p], leaf[j].key)
  BY <1>1
<1>5. n \in Nat /\ p \in 1 .. n
  OBVIOUS
<1>6. \A q \in 1 .. Len(t) : q \in 1 .. p - 1 \/ q = p \/ q = p + 1 \/ q \in p + 2 .. n + 1
  BY <1>2, <1>5
<1> HIDE DEF n, leaf, pivot, from, to
<1>7. ASSUME NEW q \in 1 .. Len(t)
      PROVE  /\ Sorted(encoder, t[q].leaf)
             /\ \A i \in 1 .. Len(t[q].leaf) : Covers(encoder, t[q], t[q].leaf[i].key)
  <2>1. CASE q \in 1 .. p - 1
    <3>1. q \in 1 .. n
      BY <1>5, <2>1
    <3> QED
      BY <1>1, <1>2, <2>1, <3>1
  <2>2. CASE q = p
    <3> SUFFICES ASSUME NEW i \in 1 .. Len(from) PROVE Covers(encoder, t[q], from[i].key)
      BY <1>2, <1>3, <2>2
    <3>1. Before(encoder, from[i].key, pivot) /\ Covers(encoder, parts[p], from[i].key)
      BY <1>3, <1>4
    <3> QED
      BY <1>2, <2>2, <3>1 DEF Covers
  <2>3. CASE q = p + 1
    <3> SUFFICES ASSUME NEW i \in 1 .. Len(to) PROVE Covers(encoder, t[q], to[i].key)
      BY <1>2, <1>3, <2>3
    <3>1. ~ Before(encoder, to[i].key, pivot) /\ Covers(encoder, parts[p], to[i].key)
      BY <1>3, <1>4
    <3> QED
      BY <1>2, <2>3, <3>1 DEF Covers
  <2>4. CASE q \in p + 2 .. n + 1
    <3>1. q - 1 \in 1 .. n
      BY <1>5, <2>4
    <3> QED
      BY <1>1, <1>2, <2>4, <3>1
  <2> QED
    BY <1>6, <2>1, <2>2, <2>3, <2>4
<1>8. ASSUME NEW v \in rows
      PROVE  \E q \in 1 .. Len(t) : \E i \in 1 .. Len(t[q].leaf) : t[q].leaf[i].row = v
  <2>1. PICK q \in 1 .. n : \E i \in 1 .. Len(parts[q].leaf) : parts[q].leaf[i].row = v
    BY <1>1
  <2>2. CASE q \in 1 .. p - 1
    <3>1. q \in 1 .. Len(t) /\ t[q] = parts[q]
      BY <1>2, <1>5, <2>2
    <3> QED
      BY <2>1, <3>1
  <2>3. CASE q = p
    <3>1. PICK j \in 1 .. Len(leaf) : leaf[j].row = v
      BY <2>1, <2>3 DEF leaf
    <3>2. p \in 1 .. Len(t) /\ p + 1 \in 1 .. Len(t)
      BY <1>2, <1>5
    <3>3. CASE \E i \in 1 .. Len(from) : from[i] = leaf[j]
      BY <1>2, <3>1, <3>2, <3>3
    <3>4. CASE \E i \in 1 .. Len(to) : to[i] = leaf[j]
      BY <1>2, <3>1, <3>2, <3>4
    <3> QED
      BY <1>3, <3>3, <3>4
  <2>4. CASE q \in p + 1 .. n
    <3>1. q + 1 \in 1 .. Len(t) /\ q + 1 \in p + 2 .. n + 1 /\ (q + 1) - 1 = q
      BY <1>2, <1>5, <2>4
    <3>2. t[q + 1] = parts[q]
      BY <1>2, <3>1
    <3> QED
      BY <2>1, <3>1, <3>2
  <2> QED
    BY <1>5, <2>2, <2>3, <2>4
<1> QED
  BY <1>7, <1>8

\* _splitPartition keeps the index sound, and halves a leaf without equal keys.
LEMMA SplitSound ==
  ASSUME IsEncoder(Encoder), NEW rows, Whole(Encoder, rows),
         NEW parts \in Seq(Partition(rows)), Sound(Encoder, parts, rows),
         NEW p \in 1 .. Len(parts), Len(parts[p].leaf) > 0
  PROVE  LET t == SplitPartition(parts, p)
             leaf == parts[p].leaf
         IN  /\ Decodable(leaf)
             /\ Sound(Encoder, t, rows)
             /\ Len(t) = Len(parts) + 1
             /\ \A i \in 1 .. p - 1 : t[i] = parts[i]
             /\ \A i \in p + 2 .. Len(parts) + 1 : t[i] = parts[i - 1]
             /\ (\A i, j \in 1 .. Len(leaf) : i < j => leaf[i].key # leaf[j].key)
                  => /\ Len(t[p].leaf) = Len(leaf) \div 2
                     /\ Len(t[p + 1].leaf) = Len(leaf) - Len(leaf) \div 2
<1> DEFINE leaf == parts[p].leaf
           h == Len(leaf) \div 2 + 1
           pivot == leaf[h].key
           moved == MoveData(leaf, pivot)
           t == SplitPartition(parts, p)
           K == KeysOf(Encoder, rows)
<1>1. Len(parts) \in Nat /\ leaf \in Leaf(rows) /\ Sorted(Encoder, leaf) /\ Chained(Encoder, parts, rows)
  BY PartitionTyped DEF Sound
<1>2. Len(leaf) \in Nat
  BY <1>1, LeafTyped
<1>3. h \in 1 .. Len(leaf)
  <2> DEFINE n == Len(leaf)
  <2>1. n \in Nat /\ n > 0
    BY <1>2
  <2> HIDE DEF n
  <2>2. n \div 2 + 1 \in 1 .. n
    BY <2>1
  <2> QED
    BY <2>2 DEF n
<1>4. pivot \in K /\ pivot # NoKey /\ KeyOf(DecodeKey(pivot)) = pivot /\ TotalOrder(Encoder, K)
  <2>1. TotalOrder(Encoder, K)
    BY Ordering
  <2>2. pivot \in K
    BY <1>1, <1>3, SortedKeys
  <2>3. pivot # NoKey /\ KeyOf(DecodeKey(pivot)) = pivot
    BY <1>1, <1>3, EntryKey
  <2> QED
    BY <2>1, <2>2, <2>3
<1>5. FindMedianKey(leaf) = pivot
  BY <1>4 DEF FindMedianKey
<1>6. Decodable(leaf)
  BY <1>1, EntryKey DEF Decodable
<1> HIDE DEF h
<1>7. Splits(t, parts, p, pivot, moved)
  BY <1>5, <1>6, SplitShape
<1>8. Divides(Encoder, leaf, h, moved.from, moved.to)
  BY <1>1, <1>3, MoveDataDivides
<1>9. Covers(Encoder, parts[p], pivot)
  BY <1>3 DEF Sound
<1> HIDE DEF t, moved
<1>10. Chained(Encoder, t, rows)
  BY <1>1, <1>4, <1>7, <1>9, SplitChained
<1>11. Sound(Encoder, t, rows)
  <2>1. /\ \A q \in 1 .. Len(t) :
             /\ Sorted(Encoder, t[q].leaf)
             /\ \A i \in 1 .. Len(t[q].leaf) : Covers(Encoder, t[q], t[q].leaf[i].key)
        /\ \A v \in rows : \E q \in 1 .. Len(t) : \E i \in 1 .. Len(t[q].leaf) :
             t[q].leaf[i].row = v
    BY <1>1, <1>3, <1>7, <1>8, SplitCovered
  <2> QED
    BY <1>10, <2>1 DEF Sound
<1>12. ASSUME \A i, j \in 1 .. Len(leaf) : i < j => leaf[i].key # leaf[j].key
       PROVE  /\ Len(t[p].leaf) = Len(leaf) \div 2
              /\ Len(t[p + 1].leaf) = Len(leaf) - Len(leaf) \div 2
  <2>1. Len(moved.from) = h - 1 /\ Len(moved.to) = Len(leaf) - h + 1
    BY <1>8, <1>12 DEF Divides
  <2>2. t[p].leaf = moved.from /\ t[p + 1].leaf = moved.to
    BY <1>7 DEF Splits
  <2>3. h - 1 = Len(leaf) \div 2 /\ Len(leaf) - h + 1 = Len(leaf) - Len(leaf) \div 2
    <3> DEFINE n == Len(leaf)
    <3>1. n \in Nat
      BY <1>2
    <3> HIDE DEF n
    <3>2. n \div 2 \in Int
      BY <3>1
    <3> QED
      BY <3>1, <3>2 DEF n, h
  <2> QED
    BY <2>1, <2>2, <2>3
<1> QED
  BY <1>6, <1>7, <1>11, <1>12 DEF Splits, t

-----------------------------------------------------------------------------
Distinct(encoder, rows) ==
  \A v, w \in rows : Encode(encoder, v) = Encode(encoder, w) => v = w

Fits(parts) == \A p \in 1 .. Len(parts) : Len(parts[p].leaf) <= MaxPartitionSize

TypeInv ==
  /\ caller \in DOMAIN Callers
  /\ inserted \subseteq Values
  /\ partitions \in Seq(Partition(inserted)) /\ Len(partitions) > 0

UniqueInv == Distinct(Encoder, inserted)

SoundInv == Sound(Encoder, partitions, inserted)

FitsInv == Fits(partitions)

IndInv == TypeInv /\ UniqueInv /\ SoundInv /\ FitsInv

\* No value of v's key has been inserted.
NewKey(v) == KeyOf(v) \notin {KeyOf(w) : w \in inserted}

\* What insert makes of the partitions.
Grown(v) ==
  [partitions EXCEPT ![FindPartitionIndex(KeyOf(v))].leaf = InsertEncoded(@, KeyOf(v), v)]

AfterInsert(v) ==
  LET p == FindPartitionIndex(KeyOf(v))
  IN  IF Len(Grown(v)[p].leaf) > MaxPartitionSize /\ Decodable(Grown(v)[p].leaf)
      THEN SplitPartition(Grown(v), p)
      ELSE Grown(v)

\* The action Insert, without the case distinction.
LEMMA InsertStep ==
  ASSUME NEW v, Insert(v)
  PROVE  /\ NewKey(v) /\ v \notin inserted /\ FindPartitionIndex(KeyOf(v)) # 0
         /\ partitions' = AfterInsert(v)
         /\ inserted' = inserted \cup {v}
         /\ caller' = caller
BY DEF Insert, AfterInsert, Grown, NewKey

\* A caller's values have the types of the encoder's columns.
LEMMA CallerTyped ==
  ASSUME caller \in DOMAIN Callers
  PROVE  /\ IsEncoder(Encoder)
         /\ \A v \in Values : IsRow(Encoder.columns, v) /\ KeyOf(v) \in Seq(Bytes)
         /\ NoRow \notin Values
         /\ Whole(Encoder, Values)
<1>1. /\ IsEncoder(Encoder) /\ NoRow \notin Values
      /\ \A v \in Values : IsRow(Encoder.columns, v) /\ Regular(Encoder, v)
  BY CallersAssumption DEF Encoder, Values
<1>2. \A v \in Values : KeyOf(v) \in Seq(Bytes)
  BY <1>1, EncodeTyped DEF KeyOf
<1> QED
  BY <1>1, <1>2 DEF Whole

\* The encoder keeps every row of a caller whole.
LEMMA RowsWhole ==
  ASSUME caller \in DOMAIN Callers, NEW rows, rows \subseteq Values
  PROVE  IsEncoder(Encoder) /\ Whole(Encoder, rows)
BY CallerTyped DEF Whole

\* A value with a new key leaves the keys distinct.
LEMMA NewDistinct ==
  ASSUME Distinct(Encoder, inserted), NEW v, NewKey(v)
  PROVE  Distinct(Encoder, inserted \cup {v})
BY DEF Distinct, NewKey, KeyOf

\* The partition the key belongs to has one entry more.
LEMMA GrownTyped ==
  ASSUME TypeInv, NEW v \in Values, FindPartitionIndex(KeyOf(v)) # 0
  PROVE  LET p == FindPartitionIndex(KeyOf(v))
             rows == inserted \cup {v}
         IN  /\ p \in Parts
             /\ Grown(v) \in Seq(Partition(rows)) /\ Len(Grown(v)) = Len(partitions)
             /\ Grown(v)[p].startKey = partitions[p].startKey
             /\ Grown(v)[p].endKey = partitions[p].endKey
             /\ Grown(v)[p].leaf = InsertEncoded(partitions[p].leaf, KeyOf(v), v)
             /\ Len(Grown(v)[p].leaf) = Len(partitions[p].leaf) + 1
             /\ Len(partitions[p].leaf) \in Nat
             /\ \A q \in Parts : q # p => Grown(v)[q] = partitions[q]
<1> DEFINE p == FindPartitionIndex(KeyOf(v))
           rows == inserted \cup {v}
           k == KeyOf(v)
           old == partitions[p]
           leaf == InsertEncoded(old.leaf, k, v)
           new == [old EXCEPT !.leaf = leaf]
           P == Partition(rows)
<1>1. partitions \in Seq(Partition(inserted)) /\ k \in Seq(Bytes)
  BY CallerTyped DEF TypeInv
<1>2. Len(partitions) \in Nat /\ \A q \in 1 .. Len(partitions) : partitions[q] \in Partition(inserted)
  BY <1>1, PartitionTyped
<1>3. p \in 1 .. Len(partitions)
  <2> DEFINE C == {q \in 1 .. Len(partitions) : ContainsKey(partitions[q], k)}
  <2>1. p = IF C # {} THEN Min(C) ELSE 0
    BY DEF FindPartitionIndex, SelectInSeq
  <2>2. C # {} => Min(C) \in C
    <3>1. C \in SUBSET Nat
      BY <1>2
    <3> HIDE DEF C
    <3> QED
      BY <3>1, MinProperties
  <2> HIDE DEF p
  <2>3. p # 0
    BY DEF p
  <2> QED
    BY <2>1, <2>2, <2>3
<1>4. ASSUME NEW x \in Partition(inserted) PROVE x \in P /\ x.leaf \in Leaf(rows)
  <2>1. x.leaf \in Leaf(inserted)
    BY DEF Partition
  <2>2. x.leaf \in Leaf(rows)
    BY <2>1, LeafMonotonic
  <2> QED
    BY <2>2 DEF Partition
<1>5. old \in P /\ old.leaf \in Leaf(rows)
  BY <1>2, <1>3, <1>4
<1>6. leaf \in Leaf(rows) /\ Len(leaf) = Len(old.leaf) + 1 /\ Len(old.leaf) \in Nat
  <2> DEFINE o == old.leaf
  <2>1. o \in Leaf(rows) /\ k \in Seq(Bytes) /\ v \in rows
    BY <1>1, <1>5
  <2> HIDE DEF o, k, rows
  <2>2. LET u == InsertEncoded(o, k, v)
        IN  u \in Leaf(rows) /\ Len(u) = Len(o) + 1 /\ Len(o) \in Nat
    <3>1. o \in Leaf(rows)
      BY <2>1
    <3>2. k \in Seq(Bytes)
      BY <2>1
    <3>3. v \in rows
      BY <2>1
    <3> QED
      BY <3>1, <3>2, <3>3, InsertEncodedTyped
  <2> QED
    BY <2>2 DEF o
<1> HIDE DEF leaf
<1>7. new \in P /\ new.startKey = old.startKey /\ new.endKey = old.endKey /\ new.leaf = leaf
  BY <1>5, <1>6 DEF Partition
<1>8. Grown(v) = [partitions EXCEPT ![p] = new]
  BY <1>3 DEF Grown, leaf
<1>9. partitions \in Seq(P)
  <2>1. Partition(inserted) \subseteq P
    BY <1>4
  <2> HIDE DEF P
  <2> QED
    BY <1>1, <2>1, SeqMonotonic
<1> HIDE DEF new, p, P
<1>10. /\ Grown(v) \in Seq(P) /\ Len(Grown(v)) = Len(partitions)
       /\ Grown(v)[p] = new
       /\ \A q \in 1 .. Len(partitions) : q # p => Grown(v)[q] = partitions[q]
  <2> DEFINE n == Len(partitions)
             g == Grown(v)
  <2>1. n \in Nat /\ partitions = [q \in 1 .. n |-> partitions[q]]
        /\ \A q \in 1 .. n : partitions[q] \in P
    BY <1>9, LenProperties, ElementOfSeq
  <2>2. g = [q \in 1 .. n |-> IF q = p THEN new ELSE partitions[q]]
    BY <1>3, <1>8, <2>1
  <2> HIDE DEF n, g
  <2>3. g = [q \in 1 .. n |-> g[q]] /\ \A q \in 1 .. n : g[q] \in P
    BY <1>7, <2>1, <2>2
  <2>4. g \in Seq(P) /\ Len(g) = n
    BY <2>1, <2>3, IsSequence
  <2> QED
    BY <1>3, <2>2, <2>4 DEF n, g
<1> QED
  BY <1>3, <1>6, <1>7, <1>10 DEF Parts, leaf, p, P

\* The partitions keep their types, whatever the encoder loses.
LEMMA AfterInsertTyped ==
  ASSUME TypeInv, NEW v \in Values, FindPartitionIndex(KeyOf(v)) # 0
  PROVE  AfterInsert(v) \in Seq(Partition(inserted \cup {v})) /\ Len(AfterInsert(v)) > 0
<1> DEFINE p == FindPartitionIndex(KeyOf(v))
           rows == inserted \cup {v}
           g == Grown(v)
           P == Partition(rows)
<1>1. /\ p \in 1 .. Len(g) /\ g \in Seq(P) /\ Len(g[p].leaf) > 0 /\ Len(g) = Len(partitions)
  <2>1. p \in 1 .. Len(partitions) /\ g \in Seq(P) /\ Len(g) = Len(partitions)
    BY GrownTyped DEF Parts
  <2>2. Len(g[p].leaf) = Len(partitions[p].leaf) + 1 /\ Len(partitions[p].leaf) \in Nat
    BY GrownTyped
  <2> HIDE DEF g, p, P
  <2> QED
    BY <2>1, <2>2
<1>2. IsEncoder(Encoder)
  BY CallerTyped DEF TypeInv
<1>3. Len(partitions) > 0
  BY DEF TypeInv
<1>4. CASE Decodable(g[p].leaf)
  <2>1. g \in Seq(Partition(rows))
    BY <1>1
  <2> HIDE DEF g, p, rows
  <2>2. SplitPartition(g, p) \in Seq(Partition(rows)) /\ Len(SplitPartition(g, p)) = Len(g) + 1
    BY <1>1, <1>2, <1>4, <2>1, SplitShape DEF Splits
  <2> QED
    BY <1>1, <1>3, <2>2 DEF AfterInsert, g, p, rows
<1>5. CASE ~ Decodable(g[p].leaf)
  BY <1>1, <1>3, <1>5 DEF AfterInsert
<1> QED
  BY <1>4, <1>5

\* insert keeps the grown partitions sound.
LEMMA GrownSound ==
  ASSUME TypeInv, SoundInv, NEW v \in Values, v \notin inserted,
         Whole(Encoder, inserted \cup {v})
  PROVE  /\ FindPartitionIndex(KeyOf(v)) # 0
         /\ Sound(Encoder, Grown(v), inserted \cup {v})
<1> DEFINE p == FindPartitionIndex(KeyOf(v))
           rows == inserted \cup {v}
           k == KeyOf(v)
           g == Grown(v)
           leaf == partitions[p].leaf
<1>1. /\ IsEncoder(Encoder) /\ partitions \in Seq(Partition(inserted)) /\ Len(partitions) > 0
      /\ Len(partitions) \in Nat
  BY CallerTyped, PartitionTyped DEF TypeInv
<1>2. Whole(Encoder, inserted)
  BY DEF Whole
<1>3. Sound(Encoder, partitions, inserted)
  BY DEF SoundInv
<1>4. Chained(Encoder, partitions, rows)
  <2>1. KeysOf(Encoder, inserted) \subseteq KeysOf(Encoder, rows)
    BY DEF KeysOf
  <2> QED
    BY <1>3, <2>1 DEF Sound, Chained
<1>5. k \in KeysOf(Encoder, rows)
  BY DEF KeyOf, KeysOf
<1>6. p \in Parts /\ Covers(Encoder, partitions[p], k)
  BY <1>1, <1>4, <1>5, FindPartition
<1>7. p # 0
  BY <1>1, <1>6 DEF Parts
<1>8. /\ g \in Seq(Partition(rows)) /\ Len(g) = Len(partitions)
      /\ g[p].startKey = partitions[p].startKey
      /\ g[p].endKey = partitions[p].endKey
      /\ g[p].leaf = InsertEncoded(leaf, k, v)
      /\ \A q \in Parts : q # p => g[q] = partitions[q]
  BY <1>7, GrownTyped
<1>9. leaf \in Leaf(inserted) /\ Sorted(Encoder, leaf)
  BY <1>1, <1>3, <1>6, PartitionTyped DEF Sound, Parts
<1>10. leaf \in Leaf(rows) /\ \A i \in 1 .. Len(leaf) : leaf[i].row # v
  <2>1. leaf \in Leaf(rows)
    BY <1>9, LeafMonotonic
  <2>2. \A i \in 1 .. Len(leaf) : leaf[i].row \in inserted
    BY <1>9, LeafTyped
  <2> QED
    BY <2>1, <2>2
<1>11. LET t == InsertEncoded(leaf, k, v)
       IN  Sorted(Encoder, t) /\ Adds(t, leaf, [key |-> k, row |-> v])
  <2>1. v \in rows
    OBVIOUS
  <2>2. IsEncoder(Encoder) /\ Whole(Encoder, rows)
    BY <1>1
  <2>3. leaf \in Leaf(rows) /\ Sorted(Encoder, leaf) /\ \A i \in 1 .. Len(leaf) : leaf[i].row # v
    BY <1>9, <1>10
  <2> HIDE DEF leaf, rows
  <2> QED
    BY <2>1, <2>2, <2>3, InsertEncodedSorted
<1> HIDE DEF g, p
<1>12. Chained(Encoder, g, rows)
  <2>1. \A q \in 1 .. Len(g) : g[q].startKey = partitions[q].startKey /\ g[q].endKey = partitions[q].endKey
    BY <1>8 DEF Parts
  <2>2. Len(g) = Len(partitions)
    BY <1>8
  <2>3. \A q \in 1 .. Len(g) - 1 : q + 1 \in 1 .. Len(g) /\ q \in 1 .. Len(g)
    BY <1>1, <2>2
  <2>4. \A q \in 2 .. Len(g) : q \in 1 .. Len(g)
    BY <1>1, <2>2
  <2> QED
    BY <1>4, <2>1, <2>2, <2>3, <2>4 DEF Chained
<1>13. ASSUME NEW q \in 1 .. Len(g)
       PROVE  /\ Sorted(Encoder, g[q].leaf)
              /\ \A i \in 1 .. Len(g[q].leaf) : Covers(Encoder, g[q], g[q].leaf[i].key)
  <2>1. CASE q # p
    <3>1. g[q] = partitions[q] /\ q \in 1 .. Len(partitions)
      BY <1>8, <2>1 DEF Parts
    <3> QED
      BY <1>3, <3>1 DEF Sound
  <2>2. CASE q = p
    <3> DEFINE t == InsertEncoded(leaf, k, v)
    <3>1. g[q].leaf = t
      BY <1>8, <2>2
    <3> SUFFICES ASSUME NEW i \in 1 .. Len(t) PROVE Covers(Encoder, g[q], t[i].key)
      BY <1>11, <3>1 DEF Adds
    <3>2. t[i] = [key |-> k, row |-> v] \/ \E j \in 1 .. Len(leaf) : t[i] = leaf[j]
      BY <1>11 DEF Adds
    <3>3. \A j \in 1 .. Len(leaf) : Covers(Encoder, partitions[p], leaf[j].key)
      BY <1>3, <1>6 DEF Sound, Parts
    <3> HIDE DEF t, leaf
    <3>4. Covers(Encoder, partitions[p], t[i].key)
      BY <1>6, <3>2, <3>3
    <3> QED
      BY <1>8, <2>2, <3>4 DEF Covers
  <2> QED
    BY <2>1, <2>2
<1>14. ASSUME NEW w \in rows
       PROVE  \E q \in 1 .. Len(g) : \E i \in 1 .. Len(g[q].leaf) : g[q].leaf[i].row = w
  <2>1. CASE w = v
    <3>1. p \in 1 .. Len(g) /\ g[p].leaf = InsertEncoded(leaf, k, v)
      BY <1>6, <1>8 DEF Parts
    <3>2. PICK i \in 1 .. Len(g[p].leaf) : g[p].leaf[i] = [key |-> k, row |-> v]
      BY <1>11, <3>1 DEF Adds
    <3> QED
      BY <2>1, <3>1, <3>2
  <2>2. CASE w # v
    <3>1. w \in inserted
      BY <2>2
    <3>2. PICK q \in 1 .. Len(partitions) : \E i \in 1 .. Len(partitions[q].leaf) :
            partitions[q].leaf[i].row = w
      BY <1>3, <3>1 DEF Sound
    <3>3. q \in 1 .. Len(g)
      BY <1>8
    <3>4. CASE q # p
      BY <1>8, <3>2, <3>3, <3>4 DEF Parts
    <3>5. CASE q = p
      <4>1. PICK i \in 1 .. Len(leaf) : leaf[i].row = w
        BY <3>2, <3>5
      <4>2. g[p].leaf = InsertEncoded(leaf, k, v)
        BY <1>8
      <4>3. PICK j \in 1 .. Len(g[p].leaf) : g[p].leaf[j] = leaf[i]
        BY <1>11, <4>2 DEF Adds
      <4> QED
        BY <3>3, <3>5, <4>1, <4>3
    <3> QED
      BY <3>4, <3>5
  <2> QED
    BY <2>1, <2>2
<1> QED
  BY <1>7, <1>12, <1>13, <1>14 DEF Sound, g, p

\* They stay sound.
LEMMA AfterInsertSound ==
  ASSUME TypeInv, SoundInv, NEW v \in Values, v \notin inserted,
         Whole(Encoder, inserted \cup {v})
  PROVE  Sound(Encoder, AfterInsert(v), inserted \cup {v})
<1> DEFINE p == FindPartitionIndex(KeyOf(v))
           rows == inserted \cup {v}
           g == Grown(v)
<1>1. p # 0 /\ Sound(Encoder, g, rows) /\ IsEncoder(Encoder)
  BY GrownSound, CallerTyped DEF TypeInv
<1>2. g \in Seq(Partition(rows)) /\ p \in 1 .. Len(g) /\ Len(g[p].leaf) > 0
  <2>1. /\ p \in Parts /\ g \in Seq(Partition(rows)) /\ Len(g) = Len(partitions)
        /\ Len(g[p].leaf) = Len(partitions[p].leaf) + 1 /\ Len(partitions[p].leaf) \in Nat
    BY <1>1, GrownTyped
  <2> HIDE DEF g, p
  <2> QED
    BY <2>1 DEF Parts
<1>3. AfterInsert(v) = SplitPartition(g, p) \/ AfterInsert(v) = g
  BY DEF AfterInsert
<1>4. Whole(Encoder, rows)
  OBVIOUS
<1> HIDE DEF g, p, rows
<1>5. Sound(Encoder, SplitPartition(g, p), rows)
  BY <1>1, <1>2, <1>4, SplitSound
<1> QED
  BY <1>1, <1>3, <1>5 DEF rows

\* They stay within maxPartitionSize.
LEMMA AfterInsertFits ==
  ASSUME IndInv, NEW v \in Values, v \notin inserted,
         Whole(Encoder, inserted \cup {v}), Distinct(Encoder, inserted \cup {v})
  PROVE  Fits(AfterInsert(v))
<1> DEFINE p == FindPartitionIndex(KeyOf(v))
           rows == inserted \cup {v}
           g == Grown(v)
           leaf == g[p].leaf
           n == Len(leaf)
           M == MaxPartitionSize
           t == SplitPartition(g, p)
<1>1. p # 0 /\ Sound(Encoder, g, rows) /\ IsEncoder(Encoder)
  BY GrownSound, CallerTyped DEF TypeInv, IndInv
<1>2. /\ g \in Seq(Partition(rows)) /\ p \in 1 .. Len(g) /\ Len(g) = Len(partitions)
      /\ n = Len(partitions[p].leaf) + 1 /\ Len(partitions[p].leaf) \in Nat
      /\ \A q \in 1 .. Len(g) : q # p => g[q] = partitions[q]
  BY <1>1, GrownTyped DEF Parts, IndInv
<1>3. \A q \in 1 .. Len(g) : Len(partitions[q].leaf) <= M
  BY <1>2 DEF IndInv, FitsInv, Fits
<1>4. M \in Nat /\ M > 0
  BY SizeAssumption
<1>5. \A q \in 1 .. Len(g) : q # p => Len(g[q].leaf) <= M
  BY <1>2, <1>3
<1>6. n \in Nat /\ n > 0 /\ n <= M + 1
  BY <1>2, <1>3, <1>4
<1>7. \A i, j \in 1 .. n : i < j => leaf[i].key # leaf[j].key
  <2>1. leaf \in Leaf(rows) /\ Sorted(Encoder, leaf)
    BY <1>1, <1>2, PartitionTyped DEF Sound
  <2>2. \A i \in 1 .. n : leaf[i].row \in rows /\ leaf[i].key = Encode(Encoder, leaf[i].row)
    BY <2>1, LeafTyped DEF Sorted
  <2>3. \A i, j \in 1 .. n : i < j => leaf[i].row # leaf[j].row
    BY <2>1 DEF Sorted
  <2> QED
    BY <2>2, <2>3 DEF Distinct
<1>8. Len(g) \in Nat
  BY <1>2, PartitionTyped
<1>9. Whole(Encoder, rows)
  OBVIOUS
<1>10. AfterInsert(v) = IF n > M /\ Decodable(leaf) THEN t ELSE g
  BY DEF AfterInsert
<1> HIDE DEF g, p, rows
<1>11. /\ Decodable(leaf) /\ Len(t) = Len(g) + 1
       /\ \A i \in 1 .. p - 1 : t[i] = g[i]
       /\ \A i \in p + 2 .. Len(g) + 1 : t[i] = g[i - 1]
       /\ Len(t[p].leaf) = n \div 2
       /\ Len(t[p + 1].leaf) = n - n \div 2
  <2>1. Len(g[p].leaf) > 0
    BY <1>6
  <2>2. LET u == SplitPartition(g, p)
            l == g[p].leaf
        IN  /\ Decodable(l) /\ Len(u) = Len(g) + 1
            /\ \A i \in 1 .. p - 1 : u[i] = g[i]
            /\ \A i \in p + 2 .. Len(g) + 1 : u[i] = g[i - 1]
            /\ (\A i, j \in 1 .. Len(l) : i < j => l[i].key # l[j].key)
                 => Len(u[p].leaf) = Len(l) \div 2 /\ Len(u[p + 1].leaf) = Len(l) - Len(l) \div 2
    <3>1. g \in Seq(Partition(rows)) /\ p \in 1 .. Len(g)
      BY <1>2
    <3> QED
      BY <1>1, <1>9, <2>1, <3>1, SplitSound
  <2> QED
    BY <1>7, <2>2
<1> HIDE DEF leaf, n, t, M
<1>12. CASE ~ (n > M)
  <2>1. AfterInsert(v) = g
    BY <1>10, <1>12
  <2>2. Len(g[p].leaf) <= M
    BY <1>4, <1>6, <1>12 DEF n, leaf
  <2> QED
    BY <1>5, <2>1, <2>2 DEF Fits, M
<1>13. CASE n > M
  <2>1. AfterInsert(v) = t
    BY <1>10, <1>11, <1>13
  <2>2. n \div 2 <= M /\ n - n \div 2 <= M
    BY <1>4, <1>6, <1>13
  <2>3. ASSUME NEW q \in 1 .. Len(t) PROVE Len(t[q].leaf) <= M
    <3>1. CASE q \in 1 .. p - 1
      <4>1. q \in 1 .. Len(g) /\ q # p
        BY <1>2, <1>8, <3>1
      <4> QED
        BY <1>5, <1>11, <3>1, <4>1
    <3>2. CASE q = p \/ q = p + 1
      BY <1>11, <2>2, <3>2
    <3>3. CASE q \in p + 2 .. Len(g) + 1
      <4>1. q - 1 \in 1 .. Len(g) /\ q - 1 # p
        BY <1>2, <1>8, <3>3
      <4> QED
        BY <1>5, <1>11, <3>3, <4>1
    <3> QED
      BY <1>2, <1>8, <1>11, <3>1, <3>2, <3>3
  <2> QED
    BY <2>1, <2>3 DEF Fits, M
<1> QED
  BY <1>12, <1>13

-----------------------------------------------------------------------------
\* One empty partition without bounds.
LEMMA InitInv ==
  ASSUME Init
  PROVE  IndInv
<1> DEFINE part == [startKey |-> NoKey, endKey |-> NoKey, leaf |-> << >>]
<1>1. caller \in DOMAIN Callers /\ partitions = << part >> /\ inserted = {}
  BY DEF Init
<1>2. << >> \in Leaf({})
  BY DEF Leaf
<1>3. part \in Partition({})
  BY <1>2 DEF Partition
<1>4. TypeInv
  BY <1>1, <1>3 DEF TypeInv
<1>5. Len(partitions) = 1 /\ partitions[1].startKey = NoKey /\ partitions[1].endKey = NoKey
      /\ partitions[1].leaf = << >> /\ \A p \in 1 .. Len(partitions) : p = 1
  BY <1>1
<1>6. Chained(Encoder, partitions, {})
  BY <1>5 DEF Chained
<1>7. Sorted(Encoder, << >>)
  BY DEF Sorted
<1>8. Sound(Encoder, partitions, {})
  BY <1>5, <1>6, <1>7 DEF Sound
<1>9. Fits(partitions)
  BY <1>5, SizeAssumption DEF Fits
<1>10. Distinct(Encoder, {})
  BY DEF Distinct
<1> QED
  BY <1>1, <1>4, <1>8, <1>9, <1>10 DEF IndInv, UniqueInv, SoundInv, FitsInv

\* insert preserves the invariant.
LEMMA NextInv ==
  ASSUME IndInv, [Next]_vars
  PROVE  IndInv'
<1>1. CASE UNCHANGED vars
  <2>1. caller' = caller /\ partitions' = partitions /\ inserted' = inserted
    BY <1>1 DEF vars
  <2> QED
    BY <2>1 DEF IndInv, TypeInv, UniqueInv, SoundInv, FitsInv, Encoder, Values
<1>2. ASSUME NEW v \in Values, Insert(v) PROVE IndInv'
  <2> DEFINE rows == inserted \cup {v}
             t == AfterInsert(v)
  <2>1. /\ NewKey(v) /\ v \notin inserted /\ FindPartitionIndex(KeyOf(v)) # 0
        /\ partitions' = t /\ inserted' = rows /\ caller' = caller
    BY <1>2, InsertStep
  <2>2. Encoder' = Encoder /\ Values' = Values
    BY <2>1 DEF Encoder, Values
  <2>3. TypeInv /\ UniqueInv /\ SoundInv
    BY DEF IndInv
  <2>4. t \in Seq(Partition(rows)) /\ Len(t) > 0
    BY <2>1, <2>3, AfterInsertTyped
  <2>5. rows \subseteq Values /\ caller \in DOMAIN Callers
    BY <2>3 DEF TypeInv
  <2>6. Whole(Encoder, rows) /\ Distinct(Encoder, rows)
    BY <2>1, <2>3, <2>5, RowsWhole, NewDistinct DEF UniqueInv
  <2>7. Sound(Encoder, t, rows)
    BY <2>1, <2>3, <2>6, AfterInsertSound
  <2>8. Fits(t)
    BY <2>1, <2>6, AfterInsertFits
  <2> HIDE DEF rows, t
  <2>9. TypeInv'
    BY <2>1, <2>2, <2>4, <2>5 DEF TypeInv
  <2>10. UniqueInv' /\ SoundInv' /\ FitsInv'
    BY <2>1, <2>2, <2>6, <2>7, <2>8 DEF UniqueInv, SoundInv, FitsInv
  <2> QED
    BY <2>9, <2>10 DEF IndInv
<1> QED
  BY <1>1, <1>2 DEF Next

\* The inductive invariant, for callers that insert values of distinct keys: the
\* types, partitions whose bounds are chained and whose leaves are sorted, within
\* their bounds and complete, and no partition above maxPartitionSize.
THEOREM Invariance == Spec => []IndInv
<1>1. Init => IndInv
  BY InitInv
<1>2. IndInv /\ [Next]_vars => IndInv'
  BY NextInv
<1> QED
  BY <1>1, <1>2, PTL DEF Spec

-----------------------------------------------------------------------------
\* Values that are the only ones of their keys have distinct keys.
LEMMA ExactDistinct ==
  ASSUME caller \in DOMAIN Callers, NEW rows, rows \subseteq Values,
         \A v \in rows : Exact(Encoder, v)
  PROVE  /\ IsEncoder(Encoder) /\ Whole(Encoder, rows) /\ Distinct(Encoder, rows)
         /\ \A v \in rows : DecodeKey(KeyOf(v)) = v
<1>1. IsEncoder(Encoder) /\ Whole(Encoder, rows)
  BY RowsWhole
<1>2. ASSUME NEW v \in rows PROVE Decode(Encoder, Encode(Encoder, v)) = v
  <2>1. IsRow(Encoder.columns, v) /\ Regular(Encoder, v) /\ Exact(Encoder, v)
    BY <1>1 DEF Whole
  <2>2. Throws \notin Int /\ Throws \notin Seq(Bytes)
    BY NullAssumption
  <2> QED
    BY <1>1, <2>1, <2>2, KeysSurvive
<1>3. Distinct(Encoder, rows)
  BY <1>2 DEF Distinct
<1> QED
  BY <1>1, <1>2, <1>3 DEF DecodeKey, KeyOf

\* Where no two values share a key, the keys of a leaf ascend.
LEMMA Ascending ==
  ASSUME IsEncoder(Encoder), NEW rows, Whole(Encoder, rows), Distinct(Encoder, rows),
         NEW leaf \in Leaf(rows), Sorted(Encoder, leaf),
         NEW i \in 1 .. Len(leaf), NEW j \in 1 .. Len(leaf), i < j
  PROVE  Before(Encoder, leaf[i].key, leaf[j].key)
<1> DEFINE K == KeysOf(Encoder, rows)
           x == leaf[i]
           y == leaf[j]
<1>1. TotalOrder(Encoder, K) /\ x.key \in K /\ y.key \in K
  BY Ordering, SortedKeys
<1>2. x.row \in rows /\ y.row \in rows
  BY LeafTyped
<1>3. /\ x.key = Encode(Encoder, x.row) /\ y.key = Encode(Encoder, y.row)
      /\ ~ Before(Encoder, y.key, x.key) /\ x.row # y.row
  BY DEF Sorted
<1> HIDE DEF K, x, y
<1>4. x.key # y.key
  BY <1>2, <1>3 DEF Distinct
<1>5. Before(Encoder, x.key, y.key)
  BY <1>1, <1>3, <1>4, OrderFacts
<1> QED
  BY <1>5 DEF x, y

\* What the invariant says of a partition.
LEMMA PartitionSound ==
  ASSUME TypeInv, NEW rows, Sound(Encoder, partitions, rows), NEW p \in Parts
  PROVE  /\ Len(partitions) \in Nat /\ partitions[p].leaf \in Leaf(inserted)
         /\ Sorted(Encoder, partitions[p].leaf)
         /\ \A i \in 1 .. Len(partitions[p].leaf) :
              Covers(Encoder, partitions[p], partitions[p].leaf[i].key)
         /\ partitions[p].startKey # NoKey => partitions[p].startKey \in KeysOf(Encoder, rows)
         /\ partitions[p].endKey # NoKey => partitions[p].endKey \in KeysOf(Encoder, rows)
<1>1. partitions \in Seq(Partition(inserted))
  BY DEF TypeInv
<1>2. Len(partitions) \in Nat /\ partitions[p].leaf \in Leaf(inserted)
  BY <1>1, PartitionTyped DEF Parts
<1> QED
  BY <1>2 DEF Sound, Chained, Parts

\* The invariant gives the order within leaves that TypeOK states.
LEMMA TypeOKHolds ==
  ASSUME IndInv
  PROVE  TypeOK
<1>1. caller \in DOMAIN Callers /\ inserted \subseteq Values /\ TypeInv
  BY DEF IndInv, TypeInv
<1>2. ASSUME NEW p \in Parts
      PROVE  {e.row : e \in Range(partitions[p].leaf)} \subseteq inserted
  <2> DEFINE leaf == partitions[p].leaf
  <2>1. leaf \in Leaf(inserted)
    <3>1. partitions \in Seq(Partition(inserted))
      BY <1>1 DEF TypeInv
    <3> QED
      BY <3>1, PartitionTyped DEF Parts
  <2>2. leaf \in Seq([key : Seq(Bytes), row : inserted])
    BY <2>1 DEF Leaf
  <2>3. DOMAIN leaf = 1 .. Len(leaf)
    BY <2>2, LenProperties
  <2>4. \A i \in 1 .. Len(leaf) : leaf[i].row \in inserted
    BY <2>1, LeafTyped
  <2> HIDE DEF leaf
  <2>5. {e.row : e \in Range(leaf)} \subseteq inserted
    BY <2>3, <2>4 DEF Range
  <2> QED
    BY <2>5 DEF leaf
<1>3. ASSUME NEW p \in Parts
      PROVE  LET leaf == partitions[p].leaf
             IN  /\ \A i \in 1 .. Len(leaf) : ContainsKey(partitions[p], leaf[i].key)
                 /\ \A i \in 1 .. Len(leaf) - 1 :
                      Compare(Encoder, leaf[i].key, leaf[i + 1].key) < 0
  <2> DEFINE leaf == partitions[p].leaf
             K == KeysOf(Encoder, inserted)
  <2>1. IsEncoder(Encoder) /\ Whole(Encoder, inserted) /\ Distinct(Encoder, inserted)
    BY <1>1, RowsWhole DEF IndInv, UniqueInv
  <2>2. Sound(Encoder, partitions, inserted)
    BY DEF IndInv, SoundInv
  <2>3. /\ leaf \in Leaf(inserted) /\ Sorted(Encoder, leaf)
        /\ \A i \in 1 .. Len(leaf) : Covers(Encoder, partitions[p], leaf[i].key)
        /\ partitions[p].startKey # NoKey => partitions[p].startKey \in K
        /\ partitions[p].endKey # NoKey => partitions[p].endKey \in K
    BY <1>1, <2>2, PartitionSound
  <2> HIDE DEF leaf, K
  <2>4. TotalOrder(Encoder, K) /\ Len(leaf) \in Nat /\ \A i \in 1 .. Len(leaf) : leaf[i].key \in K
    BY <2>1, <2>3, Ordering, SortedKeys, LeafTyped DEF K
  <2>5. \A i \in 1 .. Len(leaf) : ContainsKey(partitions[p], leaf[i].key)
    BY <2>3, <2>4, CoversContains
  <2>6. ASSUME NEW i \in 1 .. Len(leaf) - 1
        PROVE  Compare(Encoder, leaf[i].key, leaf[i + 1].key) < 0
    <3> DEFINE j == i + 1
    <3>1. i \in 1 .. Len(leaf) /\ j \in 1 .. Len(leaf) /\ i < j
      BY <2>4
    <3> HIDE DEF j
    <3>2. Before(Encoder, leaf[i].key, leaf[j].key)
      BY <2>1, <2>3, <3>1, Ascending
    <3> QED
      BY <3>2 DEF Before, j
  <2> QED
    BY <2>5, <2>6 DEF leaf
<1> QED
  BY <1>1, <1>2, <1>3 DEF TypeOK

\* The leaves hold inserted rows, whose keys ascend within the bounds of their
\* partitions, for any encoder and capacity and any caller of unique keys.
THEOREM Typing == Spec => []TypeOK
BY Invariance, TypeOKHolds, PTL

\* No partition stays above maxPartitionSize: no split fails.
THEOREM SplitsDone == Spec => []SplitsHappen
<1>1. IndInv => SplitsHappen
  BY DEF IndInv, FitsInv, Fits, SplitsHappen, Parts
<1> QED
  BY <1>1, Invariance, PTL

-----------------------------------------------------------------------------
\* One partition covers the key, and the leaf of that one has every row of the key.
LEMMA SearchHolds ==
  ASSUME IndInv
  PROVE  SearchFindsInserted
<1> SUFFICES ASSUME NEW v \in Values
             PROVE  LET same == {w \in inserted : KeyOf(w) = KeyOf(v)}
                    IN  IF same = {} THEN Search(v) = NoRow ELSE Search(v) \in same
  BY DEF SearchFindsInserted
<1> DEFINE rows == inserted \cup {v}
           k == KeyOf(v)
           p == FindPartitionIndex(k)
           leaf == partitions[p].leaf
           i == Find(leaf, k)
<1>1. TypeInv /\ caller \in DOMAIN Callers /\ inserted \subseteq Values
      /\ Len(partitions) > 0
  BY DEF IndInv, TypeInv
<1>2. IsEncoder(Encoder) /\ Whole(Encoder, rows) /\ Whole(Encoder, inserted)
  <2>1. rows \subseteq Values
    BY <1>1
  <2> QED
    BY <1>1, <2>1, RowsWhole
<1>3. Sound(Encoder, partitions, inserted)
  BY DEF IndInv, SoundInv
<1>4. k \in KeysOf(Encoder, rows)
  BY DEF KeysOf, KeyOf
<1>5. Chained(Encoder, partitions, rows)
  <2>1. KeysOf(Encoder, inserted) \subseteq KeysOf(Encoder, rows)
    BY DEF KeysOf
  <2> QED
    BY <1>3, <2>1 DEF Sound, Chained
<1>6. Len(partitions) \in Nat
  BY <1>1, PartitionTyped DEF TypeInv
<1>7. p \in Parts /\ \A q \in Parts : Covers(Encoder, partitions[q], k) => q = p
  BY <1>1, <1>2, <1>4, <1>5, <1>6, FindPartition
<1>8. leaf \in Leaf(inserted) /\ Sorted(Encoder, leaf)
  BY <1>1, <1>3, <1>7, PartitionSound
<1>9. leaf \in Leaf(rows)
  BY <1>8, LeafMonotonic
<1>10. /\ i \in 0 .. Len(leaf)
       /\ i # 0 => leaf[i].key = k
       /\ i = 0 => \A j \in 1 .. Len(leaf) : leaf[j].key # k
  <2> HIDE DEF rows, k, leaf
  <2> QED
    BY <1>2, <1>4, <1>8, <1>9, FindSorted
<1>11. Search(v) = IF i = 0 THEN NoRow ELSE leaf[i].row
  <2>1. p # 0
    BY <1>6, <1>7 DEF Parts
  <2> QED
    BY <2>1 DEF Search
<1>12. \A j \in 1 .. Len(leaf) : leaf[j].row \in inserted /\ KeyOf(leaf[j].row) = leaf[j].key
  BY <1>8, LeafTyped DEF Sorted, KeyOf
<1>13. Len(leaf) \in Nat
  BY <1>8, LeafTyped
<1>14. ASSUME NEW w \in inserted, KeyOf(w) = k PROVE i # 0
  <2>1. PICK q \in Parts : \E j \in 1 .. Len(partitions[q].leaf) : partitions[q].leaf[j].row = w
    BY <1>3 DEF Sound, Parts
  <2>5. PICK j \in 1 .. Len(partitions[q].leaf) : partitions[q].leaf[j].row = w
    BY <2>1
  <2>2. Sorted(Encoder, partitions[q].leaf) /\ Covers(Encoder, partitions[q], partitions[q].leaf[j].key)
    BY <1>1, <1>3, PartitionSound
  <2>3. partitions[q].leaf[j].key = k
    BY <1>14, <2>5, <2>2 DEF Sorted, KeyOf
  <2>4. q = p
    BY <1>7, <2>2, <2>3
  <2> QED
    BY <1>10, <2>3, <2>4
<1> HIDE DEF i, leaf, p, k
<1>16. CASE i = 0
  BY <1>11, <1>14, <1>16 DEF k
<1>17. CASE i # 0
  <2>1. i \in 1 .. Len(leaf)
    BY <1>10, <1>13, <1>17
  <2>2. leaf[i].row \in inserted /\ KeyOf(leaf[i].row) = k
    BY <1>10, <1>12, <1>17, <2>1
  <2> QED
    BY <1>11, <1>17, <2>2 DEF k
<1> QED
  BY <1>16, <1>17

\* search answers the row that was inserted under the key it is asked for, and null
\* exactly when there is none, for callers that insert values of distinct keys.
THEOREM SearchFinds == Spec => []SearchFindsInserted
BY Invariance, SearchHolds, PTL

-----------------------------------------------------------------------------
\* A bound of a range search: a key, or none.
IsBound(keys, k) == k = NoKey \/ k \in keys

\* found has the entries of the leaf that are within the range, in their order.
Picks(found, leaf, a, b) ==
  /\ \A j \in 1 .. Len(found) : \E i \in 1 .. Len(leaf) :
       found[j] = leaf[i] /\ InRange(leaf[i].key, a, b)
  /\ \A i \in 1 .. Len(leaf) :
       InRange(leaf[i].key, a, b) => \E j \in 1 .. Len(found) : found[j] = leaf[i]
  /\ \A j, l \in 1 .. Len(found) : j < l =>
       \E i, m \in 1 .. Len(leaf) : i < m /\ found[j] = leaf[i] /\ found[l] = leaf[m]

\* The range check of rangeSearchEncoded, in terms of the order.
LEMMA InRangeBefore ==
  ASSUME NEW keys, TotalOrder(Encoder, keys), NEW k \in keys,
         NEW a, IsBound(keys, a), NEW b, IsBound(keys, b)
  PROVE  InRange(k, a, b) <=> /\ a # NoKey => ~ Before(Encoder, k, a)
                              /\ b # NoKey => ~ Before(Encoder, b, k)
<1>1. a # NoKey => (Compare(Encoder, k, a) >= 0 <=> ~ Before(Encoder, k, a))
  BY DEF IsBound, TotalOrder
<1>2. b # NoKey => (Compare(Encoder, k, b) <= 0 <=> ~ Before(Encoder, b, k))
  BY DEF IsBound, TotalOrder
<1> QED
  BY <1>1, <1>2 DEF InRange

\* On a sorted leaf, the entries within a range are a segment.
LEMMA RangeIsSegment ==
  ASSUME IsEncoder(Encoder), NEW rows, Whole(Encoder, rows), NEW leaf \in Leaf(rows),
         Sorted(Encoder, leaf), NEW more, rows \subseteq more, Whole(Encoder, more),
         NEW a, IsBound(KeysOf(Encoder, more), a), NEW b, IsBound(KeysOf(Encoder, more), b)
  PROVE  \E lo, hi : Segment(leaf, a, b, lo, hi)
<1> DEFINE K == KeysOf(Encoder, more)
           n == Len(leaf)
           C == {i \in 1 .. n : InRange(leaf[i].key, a, b)}
<1>1. TotalOrder(Encoder, K)
  BY Ordering
<1>2. n \in Nat /\ \A i \in 1 .. n : leaf[i].key \in K
  <2>1. KeysOf(Encoder, rows) \subseteq K
    BY DEF KeysOf
  <2> QED
    BY <2>1, LeafTyped, SortedKeys
<1>3. IsBound(K, a) /\ IsBound(K, b)
  OBVIOUS
<1> HIDE DEF K
<1>4. \A i \in 1 .. n : InRange(leaf[i].key, a, b)
                          <=> /\ a # NoKey => ~ Before(Encoder, leaf[i].key, a)
                              /\ b # NoKey => ~ Before(Encoder, b, leaf[i].key)
  BY <1>1, <1>2, <1>3, InRangeBefore
<1>5. ASSUME NEW i \in C, NEW j \in C, NEW m \in 1 .. n, i <= m, m <= j PROVE m \in C
  <2>1. i \in 1 .. n /\ j \in 1 .. n
    OBVIOUS
  <2> DEFINE x == leaf[i].key
             y == leaf[m].key
             z == leaf[j].key
  <2>2. x \in K /\ y \in K /\ z \in K
    BY <1>2, <2>1
  <2>3. ~ Before(Encoder, y, x) /\ ~ Before(Encoder, z, y)
    <3>1. ASSUME NEW k \in 1 .. n PROVE ~ Before(Encoder, leaf[k].key, leaf[k].key)
      BY <1>1, <1>2, OrderFacts
    <3>2. (i = m \/ i < m) /\ (m = j \/ m < j)
      BY <1>2, <1>5, <2>1
    <3> QED
      BY <2>1, <3>1, <3>2 DEF Sorted
  <2>4. /\ a # NoKey => ~ Before(Encoder, x, a)
        /\ b # NoKey => ~ Before(Encoder, b, z)
    BY <1>4, <2>1
  <2> HIDE DEF x, y, z
  <2>5. ASSUME a # NoKey PROVE ~ Before(Encoder, y, a)
    <3>1. a \in K /\ ~ Before(Encoder, x, a)
      BY <1>3, <2>4, <2>5 DEF IsBound
    <3> QED
      BY <1>1, <2>2, <2>3, <3>1, OrderFacts
  <2>6. ASSUME b # NoKey PROVE ~ Before(Encoder, b, y)
    <3>1. b \in K /\ ~ Before(Encoder, b, z)
      BY <1>3, <2>4, <2>6 DEF IsBound
    <3> QED
      BY <1>1, <2>2, <2>3, <3>1, OrderFacts
  <2> QED
    BY <1>4, <2>5, <2>6 DEF y
<1>6. C \in SUBSET (1 .. n)
  OBVIOUS
<1>7. \A i \in 1 .. n : i \in C <=> InRange(leaf[i].key, a, b)
  OBVIOUS
<1>9. Convex(C, n)
  BY <1>5 DEF Convex
<1> HIDE DEF C, n
<1>8. PICK lo, hi : IsSegment(C, n, lo, hi)
  BY <1>2, <1>6, <1>9, ConvexSegment
<1>10. /\ lo \in Nat /\ hi \in Nat /\ lo <= hi /\ hi <= n
       /\ \A i \in 1 .. n : i \in C <=> lo < i /\ i <= hi
  BY <1>8 DEF IsSegment
<1>11. Segment(leaf, a, b, lo, hi)
  BY <1>7, <1>10 DEF Segment, n
<1> QED
  BY <1>11

\* rangeSearchEncoded on a sorted leaf.
LEMMA RangeSearchPicks ==
  ASSUME IsEncoder(Encoder), NEW rows, Whole(Encoder, rows), NEW leaf \in Leaf(rows),
         Sorted(Encoder, leaf), NEW more, rows \subseteq more, Whole(Encoder, more),
         NEW a, IsBound(KeysOf(Encoder, more), a), NEW b, IsBound(KeysOf(Encoder, more), b)
  PROVE  /\ RangeSearchEncoded(leaf, a, b) \in Leaf(rows)
         /\ Picks(RangeSearchEncoded(leaf, a, b), leaf, a, b)
<1> DEFINE S == [key : Seq(Bytes), row : rows]
           n == Len(leaf)
           found == RangeSearchEncoded(leaf, a, b)
<1>1. leaf \in Seq(S) /\ n \in Nat
  BY LeafTyped DEF Leaf
<1>2. PICK lo, hi : Segment(leaf, a, b, lo, hi)
  BY RangeIsSegment
<1> HIDE DEF S
<1>3. found \in Seq(S) /\ Len(found) = hi - lo /\ \A j \in 1 .. hi - lo : found[j] = leaf[lo + j]
  BY <1>1, <1>2, RangeSearchSegment
<1>4. /\ lo \in Nat /\ hi \in Nat /\ lo <= hi /\ hi <= n
      /\ \A i \in 1 .. n : InRange(leaf[i].key, a, b) <=> lo < i /\ i <= hi
  BY <1>2 DEF Segment
<1> HIDE DEF found, n
<1>5. ASSUME NEW j \in 1 .. Len(found)
      PROVE  lo + j \in 1 .. n /\ found[j] = leaf[lo + j] /\ InRange(leaf[lo + j].key, a, b)
  <2>1. j \in 1 .. hi - lo /\ lo + j \in 1 .. n /\ lo < lo + j /\ lo + j <= hi
    BY <1>1, <1>3, <1>4
  <2> QED
    BY <1>3, <1>4, <2>1
<1>6. ASSUME NEW i \in 1 .. n, InRange(leaf[i].key, a, b)
      PROVE  \E j \in 1 .. Len(found) : found[j] = leaf[i]
  <2>1. i - lo \in 1 .. hi - lo /\ lo + (i - lo) = i
    BY <1>1, <1>4, <1>6
  <2> QED
    BY <1>3, <2>1
<1>7. ASSUME NEW j \in 1 .. Len(found), NEW l \in 1 .. Len(found), j < l
      PROVE  \E i, m \in 1 .. n : i < m /\ found[j] = leaf[i] /\ found[l] = leaf[m]
  <2>1. lo + j < lo + l
    BY <1>3, <1>4, <1>7
  <2> QED
    BY <1>5, <2>1
<1> QED
  BY <1>3, <1>5, <1>6, <1>7 DEF Picks, S, n, found, Leaf

-----------------------------------------------------------------------------
\* The keys of a partition are before those of the partitions behind it.
LEMMA Across ==
  ASSUME TypeInv, IsEncoder(Encoder), Whole(Encoder, inserted),
         Sound(Encoder, partitions, inserted), NEW p \in Parts, NEW q \in Parts, p < q,
         NEW i \in 1 .. Len(partitions[p].leaf), NEW j \in 1 .. Len(partitions[q].leaf)
  PROVE  Before(Encoder, partitions[p].leaf[i].key, partitions[q].leaf[j].key)
<1> DEFINE n == Len(partitions)
           K == KeysOf(Encoder, inserted)
           x == partitions[p].leaf[i].key
           y == partitions[q].leaf[j].key
           r == p + 1
           s == partitions[r].startKey
           t == partitions[q].startKey
<1>1. n \in Nat
  BY PartitionSound
<1>2. TotalOrder(Encoder, K)
  BY Ordering
<1>3. x \in K /\ y \in K
  BY PartitionSound, SortedKeys
<1>4. p \in 1 .. n - 1 /\ r \in 2 .. n /\ q \in 2 .. n /\ p # n /\ p \in 1 .. n /\ q \in 1 .. n
      /\ r \in 1 .. n /\ q # 1 /\ r # 1 /\ (r = q \/ r < q)
  BY <1>1 DEF Parts
<1>5. Chained(Encoder, partitions, inserted)
  BY DEF Sound
<1>6. partitions[p].endKey = s /\ s # NoKey /\ s \in K /\ t # NoKey /\ t \in K
  BY <1>4, <1>5 DEF Chained
<1>7. Before(Encoder, x, s)
  <2>1. Covers(Encoder, partitions[p], x)
    BY PartitionSound
  <2> QED
    BY <1>6, <2>1 DEF Covers
<1>8. ~ Before(Encoder, y, t)
  <2>1. Covers(Encoder, partitions[q], y)
    BY PartitionSound
  <2> QED
    BY <1>6, <2>1 DEF Covers
<1>9. ~ Before(Encoder, t, s)
  <2>1. CASE r = q
    BY <1>2, <1>6, <2>1, OrderFacts
  <2>2. CASE r < q
    BY <1>4, <1>5, <2>2 DEF Chained
  <2> QED
    BY <1>4, <2>1, <2>2
<1> HIDE DEF K, x, y, s, t
<1>10. ~ Before(Encoder, y, s)
  BY <1>2, <1>3, <1>6, <1>8, <1>9, OrderFacts
<1>11. Before(Encoder, x, y)
  BY <1>2, <1>3, <1>6, <1>7, <1>10, OrderFacts
<1> QED
  BY <1>11 DEF x, y

-----------------------------------------------------------------------------
\* found has the entries that are within the range, those of the partitions that
\* do not intersect it left out, in ascending order.
Finds(found, a, b) ==
  /\ found \in Leaf(inserted)
  /\ \A m \in 1 .. Len(found) : \E p \in Parts : \E i \in 1 .. Len(partitions[p].leaf) :
       found[m] = partitions[p].leaf[i] /\ InRange(partitions[p].leaf[i].key, a, b)
  /\ \A p \in Parts : \A i \in 1 .. Len(partitions[p].leaf) :
       RangeIntersects(partitions[p], a, b) /\ InRange(partitions[p].leaf[i].key, a, b) =>
         \E m \in 1 .. Len(found) : found[m] = partitions[p].leaf[i]
  /\ \A m, l \in 1 .. Len(found) : m < l => Before(Encoder, found[m].key, found[l].key)

\* rangeSearch visits the partitions in order and joins what their leaves give.
LEMMA RangeSearchFinds ==
  ASSUME TypeInv, IsEncoder(Encoder), Whole(Encoder, inserted), Distinct(Encoder, inserted),
         Sound(Encoder, partitions, inserted),
         NEW more, inserted \subseteq more, Whole(Encoder, more),
         NEW a, IsBound(KeysOf(Encoder, more), a), NEW b, IsBound(KeysOf(Encoder, more), b)
  PROVE  Finds(RangeSearch(a, b), a, b)
<1> DEFINE S == [key : Seq(Bytes), row : inserted]
           n == Len(partitions)
           leaf(p) == partitions[p].leaf
           s == [p \in Parts |-> IF RangeIntersects(partitions[p], a, b)
                                 THEN RangeSearchEncoded(partitions[p].leaf, a, b)
                                 ELSE << >>]
           found == RangeSearch(a, b)
<1>1. n \in Nat
  BY PartitionTyped DEF TypeInv
<1>2. \A p \in Parts : leaf(p) \in Leaf(inserted) /\ Sorted(Encoder, leaf(p))
  BY PartitionSound
<1>3. ASSUME NEW p \in Parts
      PROVE  /\ s[p] \in Seq(S)
             /\ RangeIntersects(partitions[p], a, b) => Picks(s[p], leaf(p), a, b)
             /\ ~ RangeIntersects(partitions[p], a, b) => Len(s[p]) = 0
  <2>1. /\ RangeSearchEncoded(leaf(p), a, b) \in Leaf(inserted)
        /\ Picks(RangeSearchEncoded(leaf(p), a, b), leaf(p), a, b)
    BY <1>2, RangeSearchPicks
  <2>2. << >> \in Seq(S) /\ Len(<< >>) = 0
    OBVIOUS
  <2>3. s[p] = IF RangeIntersects(partitions[p], a, b)
               THEN RangeSearchEncoded(leaf(p), a, b) ELSE << >>
    OBVIOUS
  <2> HIDE DEF s
  <2> QED
    BY <2>1, <2>2, <2>3 DEF Leaf
<1>4. found = FlattenSeq(s)
  BY DEF RangeSearch
<1>5. s = [p \in 1 .. n |-> s[p]]
  BY DEF Parts
<1>6. \A p \in 1 .. n : s[p] \in Seq(S)
  BY <1>3 DEF Parts
<1> HIDE DEF S, s, found, leaf
<1>7. s \in Seq(Seq(S)) /\ Len(s) = n
  BY <1>1, <1>5, <1>6, IsSequence
<1>8. PICK f : Flattens(f, s, S)
  BY <1>7, FlattenPrefixes
<1>9. found \in Seq(S) /\ Len(found) \in Nat
  BY <1>4, <1>8, LenProperties DEF Flattens
<1>10. /\ \A i \in 0 .. n : Len(f[i]) \in Nat /\ Len(f[i]) <= Len(found)
       /\ \A i \in 1 .. n :
            /\ Len(f[i]) = Len(f[i - 1]) + Len(s[i])
            /\ \A k \in 1 .. Len(s[i]) : found[Len(f[i - 1]) + k] = s[i][k]
  BY <1>4, <1>7, <1>8 DEF Flattens
<1>11. ASSUME NEW m \in 1 .. Len(found)
       PROVE  \E p, k : At(f, s, m, p, k)
  BY <1>4, <1>7, <1>8, FlattenedAt
<1>12. ASSUME NEW m, NEW p, NEW k, At(f, s, m, p, k)
       PROVE  /\ p \in Parts /\ k \in 1 .. Len(s[p]) /\ found[m] = s[p][k]
              /\ RangeIntersects(partitions[p], a, b) /\ Picks(s[p], leaf(p), a, b)
  <2>1. p \in 1 .. n /\ k \in 1 .. Len(s[p]) /\ m = Len(f[p - 1]) + k
    BY <1>7, <1>12 DEF At
  <2>2. found[m] = s[p][k] /\ p \in Parts
    BY <1>10, <2>1 DEF Parts
  <2>3. Len(s[p]) # 0
    BY <2>1
  <2> QED
    BY <1>3, <2>1, <2>2, <2>3
<1>13. ASSUME NEW m \in 1 .. Len(found)
       PROVE  \E p \in Parts : \E i \in 1 .. Len(leaf(p)) :
                found[m] = leaf(p)[i] /\ InRange(leaf(p)[i].key, a, b)
  <2>1. PICK p, k : At(f, s, m, p, k)
    BY <1>11
  <2>2. /\ p \in Parts /\ k \in 1 .. Len(s[p]) /\ found[m] = s[p][k]
        /\ Picks(s[p], leaf(p), a, b)
    BY <1>12, <2>1
  <2>3. \E i \in 1 .. Len(leaf(p)) : s[p][k] = leaf(p)[i] /\ InRange(leaf(p)[i].key, a, b)
    BY <2>2 DEF Picks
  <2> QED
    BY <2>2, <2>3
<1>14. ASSUME NEW p \in Parts, NEW i \in 1 .. Len(leaf(p)),
              RangeIntersects(partitions[p], a, b), InRange(leaf(p)[i].key, a, b)
       PROVE  \E m \in 1 .. Len(found) : found[m] = leaf(p)[i]
  <2>1. PICK k \in 1 .. Len(s[p]) : s[p][k] = leaf(p)[i]
    BY <1>3, <1>14 DEF Picks
  <2>2. p \in 1 .. n /\ p \in 0 .. n /\ p - 1 \in 0 .. n
    BY <1>1 DEF Parts
  <2> DEFINE c == Len(f[p - 1])
             d == Len(s[p])
             e == Len(f[p])
             m == c + k
  <2>3. c \in Nat /\ e = c + d /\ e <= Len(found) /\ found[m] = s[p][k]
    BY <1>10, <2>2
  <2>4. d \in Nat /\ k \in 1 .. d
    BY <1>6, <2>2, LenProperties
  <2> HIDE DEF c, d, e
  <2>5. m \in 1 .. Len(found)
    BY <1>9, <2>3, <2>4
  <2> QED
    BY <2>1, <2>3, <2>5
<1>15. ASSUME NEW m \in 1 .. Len(found), NEW l \in 1 .. Len(found), m < l
       PROVE  Before(Encoder, found[m].key, found[l].key)
  <2>1. PICK p, k : At(f, s, m, p, k)
    BY <1>11
  <2>2. PICK q, j : At(f, s, l, q, j)
    BY <1>11
  <2>3. m \in Nat /\ l \in Nat
    BY <1>9
  <2>4. p < q \/ (p = q /\ k < j)
    BY <1>7, <1>8, <1>15, <2>1, <2>2, <2>3, FlattenedOrder
  <2>5. /\ p \in Parts /\ k \in 1 .. Len(s[p]) /\ found[m] = s[p][k] /\ Picks(s[p], leaf(p), a, b)
        /\ q \in Parts /\ j \in 1 .. Len(s[q]) /\ found[l] = s[q][j] /\ Picks(s[q], leaf(q), a, b)
    BY <1>12, <2>1, <2>2
  <2>6. CASE p < q
    <3>3. /\ \A i \in 1 .. Len(s[p]) : \E x \in 1 .. Len(leaf(p)) : s[p][i] = leaf(p)[x]
          /\ \A i \in 1 .. Len(s[q]) : \E y \in 1 .. Len(leaf(q)) : s[q][i] = leaf(q)[y]
      BY <2>5 DEF Picks
    <3>4. \E x \in 1 .. Len(leaf(p)) : s[p][k] = leaf(p)[x]
      BY <2>5, <3>3
    <3>1. PICK x \in 1 .. Len(leaf(p)) : found[m] = leaf(p)[x]
      BY <2>5, <3>4
    <3>5. \E y \in 1 .. Len(leaf(q)) : s[q][j] = leaf(q)[y]
      BY <2>5, <3>3
    <3>2. PICK y \in 1 .. Len(leaf(q)) : found[l] = leaf(q)[y]
      BY <2>5, <3>5
    <3> QED
      BY <2>5, <2>6, <3>1, <3>2, Across DEF leaf
  <2>7. CASE p = q /\ k < j
    <3>1. PICK x, y \in 1 .. Len(leaf(p)) : x < y /\ found[m] = leaf(p)[x] /\ found[l] = leaf(p)[y]
      BY <2>5, <2>7 DEF Picks
    <3>2. leaf(p) \in Leaf(inserted) /\ Sorted(Encoder, leaf(p))
      BY <1>2, <2>5
    <3>3. Before(Encoder, leaf(p)[x].key, leaf(p)[y].key)
      BY <3>1, <3>2, Ascending
    <3> QED
      BY <3>1, <3>3
  <2> QED
    BY <2>4, <2>6, <2>7
<1>16. found \in Leaf(inserted)
  BY <1>9 DEF S, Leaf
<1> QED
  BY <1>13, <1>14, <1>15, <1>16 DEF Finds, leaf, found

-----------------------------------------------------------------------------
\* What a range search finds: rows that were inserted, with their keys.
LEMMA FoundTyped ==
  ASSUME IsEncoder(Encoder), Whole(Encoder, inserted), TypeInv,
         Sound(Encoder, partitions, inserted), NEW a, NEW b, NEW found, Finds(found, a, b)
  PROVE  /\ Len(found) \in Nat /\ DOMAIN found = 1 .. Len(found)
         /\ \A m \in 1 .. Len(found) :
              /\ found[m].row \in inserted /\ found[m].key = KeyOf(found[m].row)
              /\ found[m].key \in KeysOf(Encoder, inserted)
              /\ InRange(found[m].key, a, b)
         /\ \A m, l \in 1 .. Len(found) : found[m].row = found[l].row => m = l
<1>1. found \in Leaf(inserted)
  BY DEF Finds
<1>2. Len(found) \in Nat /\ DOMAIN found = 1 .. Len(found)
  BY <1>1, LenProperties DEF Leaf
<1>3. ASSUME NEW m \in 1 .. Len(found)
      PROVE  /\ found[m].row \in inserted /\ found[m].key = KeyOf(found[m].row)
             /\ found[m].key \in KeysOf(Encoder, inserted)
             /\ InRange(found[m].key, a, b)
  <2>1. PICK p \in Parts : \E i \in 1 .. Len(partitions[p].leaf) :
          found[m] = partitions[p].leaf[i] /\ InRange(partitions[p].leaf[i].key, a, b)
    BY DEF Finds
  <2>2. PICK i \in 1 .. Len(partitions[p].leaf) :
          found[m] = partitions[p].leaf[i] /\ InRange(partitions[p].leaf[i].key, a, b)
    BY <2>1
  <2>3. partitions[p].leaf \in Leaf(inserted) /\ Sorted(Encoder, partitions[p].leaf)
    BY PartitionSound
  <2>4. /\ partitions[p].leaf[i].row \in inserted
        /\ partitions[p].leaf[i].key = KeyOf(partitions[p].leaf[i].row)
        /\ partitions[p].leaf[i].key \in KeysOf(Encoder, inserted)
    BY <2>3, LeafTyped, SortedKeys DEF Sorted, KeyOf
  <2> QED
    BY <2>2, <2>4
<1>4. ASSUME NEW m \in 1 .. Len(found), NEW l \in 1 .. Len(found), found[m].row = found[l].row
      PROVE  m = l
  <2>1. found[m].key = found[l].key /\ found[m].key \in KeysOf(Encoder, inserted)
    BY <1>3, <1>4
  <2>2. ~ Before(Encoder, found[m].key, found[m].key)
    BY <2>1, Ordering, OrderFacts
  <2>3. ~ (m < l) /\ ~ (l < m)
    BY <2>1, <2>2 DEF Finds
  <2> QED
    BY <1>2, <2>3
<1> QED
  BY <1>2, <1>3, <1>4

\* The premise of RangeSearchDecodes gives a total order, so that the entries
\* found and the rows inserted correspond one to one.
LEMMA RangeSearchDecodesHolds ==
  ASSUME IndInv
  PROVE  RangeSearchDecodes
<1> SUFFICES ASSUME \A v \in inserted : Exact(Encoder, v)
             PROVE  LET found == RangeSearch(NoKey, NoKey)
                    IN  /\ Len(found) = Cardinality(inserted)
                        /\ {DecodeKey(e.key) : e \in Range(found)} = inserted
                        /\ \A e \in Range(found) : DecodeKey(e.key) = e.row
  BY DEF RangeSearchDecodes
<1> DEFINE found == RangeSearch(NoKey, NoKey)
           n == Len(found)
<1>1. TypeInv /\ caller \in DOMAIN Callers /\ inserted \subseteq Values
  BY DEF IndInv, TypeInv
<1>2. /\ IsEncoder(Encoder) /\ Whole(Encoder, inserted) /\ Distinct(Encoder, inserted)
      /\ \A v \in inserted : DecodeKey(KeyOf(v)) = v
  BY <1>1, ExactDistinct
<1>3. Sound(Encoder, partitions, inserted)
  BY DEF IndInv, SoundInv
<1>4. IsBound(KeysOf(Encoder, inserted), NoKey)
  BY DEF IsBound
<1>5. Finds(found, NoKey, NoKey)
  BY <1>1, <1>2, <1>3, <1>4, RangeSearchFinds
<1> HIDE DEF found
<1>6. /\ n \in Nat /\ DOMAIN found = 1 .. n
      /\ \A m \in 1 .. n : found[m].row \in inserted /\ found[m].key = KeyOf(found[m].row)
      /\ \A m, l \in 1 .. n : found[m].row = found[l].row => m = l
  BY <1>1, <1>2, <1>3, <1>5, FoundTyped
<1>7. \A m \in 1 .. n : DecodeKey(found[m].key) = found[m].row
  BY <1>2, <1>6
<1>8. ASSUME NEW v \in inserted PROVE \E m \in 1 .. n : found[m].row = v
  <2>1. PICK p \in Parts : \E i \in 1 .. Len(partitions[p].leaf) : partitions[p].leaf[i].row = v
    BY <1>3 DEF Sound, Parts
  <2>2. PICK i \in 1 .. Len(partitions[p].leaf) : partitions[p].leaf[i].row = v
    BY <2>1
  <2>3. RangeIntersects(partitions[p], NoKey, NoKey)
        /\ InRange(partitions[p].leaf[i].key, NoKey, NoKey)
    BY DEF RangeIntersects, InRange
  <2>4. \E m \in 1 .. n : found[m] = partitions[p].leaf[i]
    BY <1>5, <2>3 DEF Finds
  <2> QED
    BY <2>2, <2>4
<1>9. Cardinality(inserted) = n
  <2> DEFINE h == [m \in 1 .. n |-> found[m].row]
  <2>1. h \in [1 .. n -> inserted]
    BY <1>6
  <2>2. \A m, l \in 1 .. n : h[m] = h[l] => m = l
    BY <1>6
  <2>3. \A v \in inserted : \E m \in 1 .. n : h[m] = v
    BY <1>8
  <2> HIDE DEF h, n
  <2>4. h \in Bijection(1 .. n, inserted)
    <3>1. IsInjective(h)
      BY <2>1, <2>2 DEF IsInjective
    <3> QED
      BY <2>1, <2>3, <3>1 DEF Bijection, Injection, Surjection
  <2>5. ExistsBijection(1 .. n, inserted)
    BY <2>4 DEF ExistsBijection
  <2> QED
    BY <1>6, <2>5, FS_CountingElements
<1>10. Range(found) = {found[m] : m \in 1 .. n}
  BY <1>6 DEF Range
<1>11. \A e \in Range(found) : DecodeKey(e.key) = e.row /\ e.row \in inserted
  BY <1>6, <1>7, <1>10
<1>12. \A v \in inserted : \E e \in Range(found) : DecodeKey(e.key) = v
  BY <1>7, <1>8, <1>10
<1> QED
  BY <1>9, <1>11, <1>12 DEF found

\* The premise of RangeSearchByValue makes the order of keys that of values.
LEMMA RangeSearchByValueHolds ==
  ASSUME IndInv
  PROVE  RangeSearchByValue
<1> SUFFICES ASSUME NEW a \in Values, NEW b \in Values,
                    \A v \in inserted \cup {a, b} : Ordered(Encoder, v)
             PROVE  LET found == RangeSearch(KeyOf(a), KeyOf(b))
                        rows  == [i \in 1 .. Len(found) |-> found[i].row]
                    IN  /\ \A i \in 1 .. Len(rows) - 1 : Less(Encoder, rows[i], rows[i + 1])
                        /\ {v \in inserted : ~ Less(Encoder, v, a) /\ Less(Encoder, v, b)}
                             \subseteq Range(rows)
                        /\ Range(rows)
                             \subseteq {v \in inserted : ~ Less(Encoder, v, a)
                                                         /\ ~ Less(Encoder, b, v)}
  BY DEF RangeSearchByValue
<1> DEFINE more == inserted \cup {a, b}
           K == KeysOf(Encoder, more)
           j == KeyOf(a)
           k == KeyOf(b)
           found == RangeSearch(j, k)
           n == Len(found)
           rows == [i \in 1 .. n |-> found[i].row]
<1>1. TypeInv /\ caller \in DOMAIN Callers /\ inserted \subseteq Values /\ more \subseteq Values
  BY DEF IndInv, TypeInv
<1>2. /\ IsEncoder(Encoder) /\ Whole(Encoder, more) /\ Whole(Encoder, inserted)
      /\ Distinct(Encoder, inserted)
  <2>1. \A v \in more : Exact(Encoder, v)
    BY DEF Ordered
  <2> QED
    BY <1>1, <2>1, ExactDistinct
<1>3. Sound(Encoder, partitions, inserted)
  BY DEF IndInv, SoundInv
<1>4. TotalOrder(Encoder, K) /\ \A v \in more : KeyOf(v) \in K
  BY <1>2, Ordering DEF KeysOf, KeyOf
<1>5. j \in K /\ k \in K /\ IsBound(K, j) /\ IsBound(K, k) /\ j # NoKey /\ k # NoKey
  <2>1. j \in Seq(Bytes) /\ k \in Seq(Bytes)
    BY <1>1, CallerTyped
  <2> QED
    BY <1>4, <2>1, NullAssumption DEF IsBound
<1>6. \A v, w \in more : Before(Encoder, KeyOf(v), KeyOf(w)) <=> Less(Encoder, v, w)
  <2> TAKE v, w \in more
  <2>1. Ordered(Encoder, v) /\ Ordered(Encoder, w)
    OBVIOUS
  <2>2. IsRow(Encoder.columns, v) /\ IsRow(Encoder.columns, w)
    BY <1>2 DEF Whole
  <2> QED
    BY <1>2, <2>1, <2>2, OrderOfValues DEF Before, KeyOf
<1>7. Finds(found, j, k)
  <2>1. inserted \subseteq more
    OBVIOUS
  <2> HIDE DEF more, j, k
  <2> QED
    BY <1>1, <1>2, <1>3, <1>5, <2>1, RangeSearchFinds
<1>8. a \in more /\ b \in more /\ inserted \subseteq more
  OBVIOUS
<1> HIDE DEF more, K, j, k, found
<1>9. /\ n \in Nat
      /\ \A m \in 1 .. n : /\ found[m].row \in inserted /\ found[m].key = KeyOf(found[m].row)
                           /\ InRange(found[m].key, j, k)
  BY <1>1, <1>2, <1>3, <1>7, FoundTyped
<1>10. rows = [i \in 1 .. n |-> rows[i]] /\ Len(rows) = n /\ Range(rows) = {found[i].row : i \in 1 .. n}
  BY <1>9 DEF Range
<1>11. \A i \in 1 .. n : rows[i] = found[i].row
  OBVIOUS
<1> HIDE DEF rows, n
<1>12. ASSUME NEW i \in 1 .. n - 1 PROVE Less(Encoder, rows[i], rows[i + 1])
  <2> DEFINE l == i + 1
  <2>1. i \in 1 .. n /\ l \in 1 .. n /\ i < l
    BY <1>9
  <2> HIDE DEF l
  <2>2. Before(Encoder, found[i].key, found[l].key)
    BY <1>7, <2>1 DEF Finds, n
  <2>3. found[i].row \in more /\ found[l].row \in more
    BY <1>8, <1>9, <2>1
  <2>4. Less(Encoder, found[i].row, found[l].row)
    BY <1>6, <1>9, <2>1, <2>2, <2>3
  <2>5. Less(Encoder, rows[i], rows[l])
    BY <1>11, <2>1, <2>4
  <2> QED
    BY <2>5 DEF l
<1>13. ASSUME NEW v \in inserted, ~ Less(Encoder, v, a), Less(Encoder, v, b)
       PROVE  \E i \in 1 .. n : found[i].row = v
  <2>1. v \in more /\ KeyOf(v) \in K
    BY <1>4, <1>8
  <2> DEFINE x == KeyOf(v)
  <2>2. ~ Before(Encoder, x, j) /\ Before(Encoder, x, k) /\ x \in K
    BY <1>6, <1>8, <1>13, <2>1 DEF j, k
  <2>3. PICK p \in Parts : \E i \in 1 .. Len(partitions[p].leaf) : partitions[p].leaf[i].row = v
    BY <1>3 DEF Sound, Parts
  <2>4. PICK i \in 1 .. Len(partitions[p].leaf) : partitions[p].leaf[i].row = v
    BY <2>3
  <2> DEFINE part == partitions[p]
             s == part.startKey
             t == part.endKey
             KI == KeysOf(Encoder, inserted)
  <2>5. /\ Sorted(Encoder, part.leaf) /\ Covers(Encoder, part, part.leaf[i].key)
        /\ s # NoKey => s \in KI
        /\ t # NoKey => t \in KI
    BY <1>1, <1>3, PartitionSound
  <2>6. KI \subseteq K
    BY <1>8 DEF K, KeysOf
  <2>7. part.leaf[i].key = x
    BY <2>4, <2>5 DEF Sorted, KeyOf
  <2>8. /\ s # NoKey => s \in K /\ ~ Before(Encoder, x, s)
        /\ t # NoKey => t \in K /\ Before(Encoder, x, t)
    BY <2>5, <2>6, <2>7 DEF Covers
  <2> HIDE DEF x, s, t, KI
  <2>9. InRange(x, j, k)
    <3>1. ~ Before(Encoder, k, x)
      BY <1>4, <1>5, <2>2, OrderFacts
    <3> QED
      BY <1>4, <1>5, <2>2, <3>1, InRangeBefore
  <2>10. RangeIntersects(part, j, k)
    <3>1. t # NoKey => Before(Encoder, j, t)
      BY <1>4, <1>5, <2>2, <2>8, OrderFacts
    <3>2. s # NoKey => Before(Encoder, s, k)
      BY <1>4, <1>5, <2>2, <2>8, OrderFacts
    <3>3. t # NoKey => Compare(Encoder, t, j) > 0
      BY <1>4, <1>5, <2>8, <3>1 DEF TotalOrder
    <3>4. s # NoKey => Compare(Encoder, s, k) < 0
      BY <3>2 DEF Before
    <3> QED
      BY <3>3, <3>4 DEF RangeIntersects, s, t
  <2>11. \E m \in 1 .. n : found[m] = part.leaf[i]
    BY <1>7, <2>7, <2>9, <2>10 DEF Finds, n
  <2> QED
    BY <2>4, <2>11
<1>14. ASSUME NEW i \in 1 .. n
       PROVE  /\ found[i].row \in inserted
              /\ ~ Less(Encoder, found[i].row, a) /\ ~ Less(Encoder, b, found[i].row)
  <2> DEFINE v == found[i].row
             x == found[i].key
  <2>1. v \in inserted /\ v \in more /\ x = KeyOf(v) /\ x \in K /\ InRange(x, j, k)
    BY <1>4, <1>8, <1>9
  <2> HIDE DEF v, x
  <2>2. ~ Before(Encoder, x, j) /\ ~ Before(Encoder, k, x)
    BY <1>4, <1>5, <2>1, InRangeBefore
  <2>3. ~ Less(Encoder, v, a) /\ ~ Less(Encoder, b, v)
    BY <1>6, <1>8, <2>1, <2>2 DEF j, k
  <2> QED
    BY <2>1, <2>3 DEF v
<1>15. {v \in inserted : ~ Less(Encoder, v, a) /\ Less(Encoder, v, b)} \subseteq Range(rows)
  BY <1>10, <1>13
<1>16. Range(rows) \subseteq {v \in inserted : ~ Less(Encoder, v, a) /\ ~ Less(Encoder, b, v)}
  BY <1>10, <1>14
<1> QED
  BY <1>10, <1>12, <1>15, <1>16 DEF rows, found, j, k, n

\* The keys a full range search returns are, decoded, the inserted values, each
\* once.
THEOREM RangeSearchFindsAll == Spec => []RangeSearchDecodes
BY Invariance, RangeSearchDecodesHolds, PTL

\* Where the order of keys is that of values, a range search returns the values
\* of its range in ascending order.
THEOREM RangeSearchOrdered == Spec => []RangeSearchByValue
BY Invariance, RangeSearchByValueHolds, PTL

-----------------------------------------------------------------------------
(***************************************************************************)
(* The index over encoded keys implements PartitionedIndex, whose keys are *)
(* numbers: a key is taken for its rank, the number of keys below it, and  *)
(* a row for its key.                                                      *)
(***************************************************************************)

\* Each caller has finitely many values, so that a key has finitely many below.
FiniteCallers == \A c \in DOMAIN Callers : IsFiniteSet(Callers[c].values)

KeySet == KeysOf(Encoder, Values)

KeysBelow(k) == {j \in KeySet : Compare(Encoder, j, k) < 0}

\* The keys of a caller's values.
LEMMA KeySetTyped ==
  ASSUME caller \in DOMAIN Callers
  PROVE  /\ IsEncoder(Encoder) /\ Whole(Encoder, Values)
         /\ TotalOrder(Encoder, KeySet)
         /\ KeySet \subseteq Seq(Bytes) /\ NoKey \notin KeySet
<1>1. IsEncoder(Encoder) /\ Whole(Encoder, Values)
  BY CallerTyped
<1>2. TotalOrder(Encoder, KeySet)
  BY <1>1, Ordering DEF KeySet
<1>3. \A v \in Values : Encode(Encoder, v) \in Seq(Bytes)
  BY CallerTyped DEF KeyOf
<1>4. KeySet \subseteq Seq(Bytes)
  BY <1>3 DEF KeySet, KeysOf
<1> QED
  BY <1>1, <1>2, <1>4, NullAssumption

\* They are finitely many.
LEMMA KeySetFinite ==
  ASSUME FiniteCallers, caller \in DOMAIN Callers
  PROVE  IsFiniteSet(KeySet)
<1> DEFINE f == [v \in Values |-> Encode(Encoder, v)]
<1>1. IsFiniteSet(Values)
  BY DEF FiniteCallers, Values
<1>2. f \in Surjection(Values, KeySet)
  BY DEF Surjection, KeySet, KeysOf
<1> HIDE DEF f
<1> QED
  BY <1>1, <1>2, FS_Surjection

\* The rank of a key is the number of keys below it.
LEMMA RankIs ==
  ASSUME caller \in DOMAIN Callers, NEW k \in KeySet
  PROVE  Rank(k) = Cardinality(KeysBelow(k)) /\ Rank(k) \in RankSet
<1>1. k # NoKey
  BY KeySetTyped
<1> DEFINE r == Ranks[caller]
<1>2. r = [j \in KeySet |-> Cardinality(KeysBelow(j))]
  BY DEF Ranks, KeysBelow, KeySet, KeysOf, Encoder, Values
<1> HIDE DEF r
<1>3. k \in DOMAIN r /\ r[k] = Cardinality(KeysBelow(k))
  BY <1>2
<1>4. Rank(k) = r[k]
  BY <1>1, <1>3 DEF Rank, r
<1>5. r[k] \in Range(r)
  BY <1>3 DEF Range
<1> QED
  BY <1>3, <1>4, <1>5 DEF RankSet, r

\* Ranks are ordered like keys.
LEMMA RankLess ==
  ASSUME FiniteCallers, caller \in DOMAIN Callers,
         NEW j \in KeySet, NEW k \in KeySet, Before(Encoder, j, k)
  PROVE  Rank(j) \in Nat /\ Rank(k) \in Nat /\ Rank(j) < Rank(k)
<1>1. IsFiniteSet(KeySet) /\ TotalOrder(Encoder, KeySet)
  BY KeySetFinite, KeySetTyped
<1>2. KeysBelow(j) \in SUBSET KeySet /\ KeysBelow(k) \in SUBSET KeySet
  BY DEF KeysBelow
<1>3. IsFiniteSet(KeysBelow(j)) /\ IsFiniteSet(KeysBelow(k))
  BY <1>1, <1>2, FS_Subset
<1>4. \A i \in KeySet : Before(Encoder, i, j) => Before(Encoder, i, k)
  BY <1>1 DEF TotalOrder
<1>5. KeysBelow(j) \in SUBSET KeysBelow(k)
  BY <1>4 DEF KeysBelow, Before
<1>6. j \in KeysBelow(k)
  BY DEF KeysBelow, Before
<1>7. j \notin KeysBelow(j)
  BY <1>1 DEF KeysBelow, TotalOrder
<1>8. /\ Cardinality(KeysBelow(j)) <= Cardinality(KeysBelow(k))
      /\ Cardinality(KeysBelow(j)) # Cardinality(KeysBelow(k))
  BY <1>3, <1>5, <1>6, <1>7, FS_Subset
<1>9. Cardinality(KeysBelow(j)) \in Nat /\ Cardinality(KeysBelow(k)) \in Nat
  BY <1>3, FS_CardinalityType
<1>10. Rank(j) = Cardinality(KeysBelow(j)) /\ Rank(k) = Cardinality(KeysBelow(k))
  BY RankIs
<1> QED
  BY <1>8, <1>9, <1>10

\* A rank is less exactly for a lesser key, and no two keys have the same.
LEMMA RankOrder ==
  ASSUME FiniteCallers, caller \in DOMAIN Callers,
         NEW j \in KeySet, NEW k \in KeySet
  PROVE  /\ Rank(j) \in Nat /\ Rank(k) \in Nat /\ Rank(j) \in RankSet
         /\ Rank(j) < Rank(k) <=> Before(Encoder, j, k)
         /\ Rank(j) = Rank(k) <=> j = k
<1>1. TotalOrder(Encoder, KeySet)
  BY KeySetTyped
<1>2. j = k \/ Before(Encoder, j, k) \/ Before(Encoder, k, j)
  BY <1>1, OrderFacts
<1>3. \A i \in KeySet : ~ Before(Encoder, i, i)
  BY <1>1, OrderFacts
<1>4. ASSUME NEW i \in KeySet PROVE Rank(i) \in Nat /\ Rank(i) \in RankSet
  <2>1. IsFiniteSet(KeysBelow(i))
    BY KeySetFinite, FS_Subset DEF KeysBelow
  <2> QED
    BY <2>1, RankIs, FS_CardinalityType
<1>5. Before(Encoder, j, k) => Rank(j) < Rank(k)
  BY RankLess
<1>6. Before(Encoder, k, j) => Rank(k) < Rank(j)
  BY RankLess
<1> DEFINE x == Rank(j)
           y == Rank(k)
<1>7. x \in Nat /\ y \in Nat /\ x \in RankSet
  BY <1>4
<1> HIDE DEF x, y
<1>8. /\ x < y <=> Before(Encoder, j, k)
      /\ x = y <=> j = k
  <2>1. Before(Encoder, j, k) => x < y
    BY <1>5 DEF x, y
  <2>2. Before(Encoder, k, j) => y < x
    BY <1>6 DEF x, y
  <2>3. j = k => x = y
    BY DEF x, y
  <2>4. j = k => ~ Before(Encoder, j, k)
    BY <1>3
  <2> QED
    BY <1>2, <1>7, <2>1, <2>2, <2>3, <2>4
<1> QED
  BY <1>7, <1>8 DEF x, y

-----------------------------------------------------------------------------
\* What the refinement is about: callers of finitely many values.
Rankable == FiniteCallers /\ caller \in DOMAIN Callers

\* The first m of them.
FirstRanked(leaf, m) == {[key |-> Rank(leaf[i].key), row |-> 0] : i \in 1 .. m}

\* The ranks of the keys in a leaf ascend.
LEMMA RanksAscend ==
  ASSUME Rankable, NEW rows, rows \subseteq Values, Distinct(Encoder, rows),
         NEW leaf \in Leaf(rows), Sorted(Encoder, leaf)
  PROVE  /\ Len(leaf) \in Nat
         /\ \A i \in 1 .. Len(leaf) : leaf[i].key \in KeySet /\ Rank(leaf[i].key) \in Nat
         /\ \A i, j \in 1 .. Len(leaf) : i < j => Rank(leaf[i].key) < Rank(leaf[j].key)
<1>1. FiniteCallers /\ caller \in DOMAIN Callers
  BY DEF Rankable
<1>2. IsEncoder(Encoder)
  BY <1>1, KeySetTyped
<1>3. Whole(Encoder, rows)
  BY <1>1, RowsWhole
<1>4. Len(leaf) \in Nat /\ \A i \in 1 .. Len(leaf) : leaf[i].key \in KeySet
  BY LeafTyped, SortedKeys DEF KeySet, KeysOf
<1>5. ASSUME NEW i \in 1 .. Len(leaf) PROVE Rank(leaf[i].key) \in Nat
  BY <1>1, <1>4, RankOrder
<1>6. ASSUME NEW i \in 1 .. Len(leaf), NEW j \in 1 .. Len(leaf), i < j
      PROVE  Rank(leaf[i].key) < Rank(leaf[j].key)
  <2>1. Before(Encoder, leaf[i].key, leaf[j].key)
    BY <1>2, <1>3, <1>6, Ascending
  <2>2. leaf[i].key \in KeySet /\ leaf[j].key \in KeySet
    BY <1>4
  <2> QED
    BY <1>1, <2>1, <2>2, RankLess
<1> QED
  BY <1>4, <1>5, <1>6

\* The entries of a leaf, by position.
LEMMA RankedByPosition ==
  ASSUME NEW rows, NEW leaf \in Leaf(rows)
  PROVE  RankedEntries(leaf) = FirstRanked(leaf, Len(leaf))
<1>1. DOMAIN leaf = 1 .. Len(leaf)
  BY LenProperties DEF Leaf
<1> QED
  BY <1>1 DEF RankedEntries, FirstRanked, Range

\* No two of them have the same rank.
LEMMA RankedCount ==
  ASSUME Rankable, NEW rows, rows \subseteq Values, Distinct(Encoder, rows),
         NEW leaf \in Leaf(rows), Sorted(Encoder, leaf),
         NEW m \in 0 .. Len(leaf)
  PROVE  IsFiniteSet(FirstRanked(leaf, m)) /\ Cardinality(FirstRanked(leaf, m)) = m
<1> DEFINE f == [i \in 1 .. m |-> [key |-> Rank(leaf[i].key), row |-> 0]]
           T == FirstRanked(leaf, m)
<1>1. /\ Len(leaf) \in Nat
      /\ \A i \in 1 .. Len(leaf) : Rank(leaf[i].key) \in Nat
      /\ \A i, j \in 1 .. Len(leaf) : i < j => Rank(leaf[i].key) < Rank(leaf[j].key)
  BY RanksAscend
<1>2. m \in Nat /\ \A i \in 1 .. m : i \in 1 .. Len(leaf)
  BY <1>1
<1>3. \A i, j \in 1 .. m : f[i] = f[j] => i = j
  <2> SUFFICES ASSUME NEW i \in 1 .. m, NEW j \in 1 .. m, f[i] = f[j] PROVE i = j
    OBVIOUS
  <2> DEFINE x == Rank(leaf[i].key)
             y == Rank(leaf[j].key)
  <2>1. x = y
    OBVIOUS
  <2>2. x \in Nat /\ y \in Nat /\ (i < j => x < y) /\ (j < i => y < x)
    BY <1>1, <1>2
  <2> HIDE DEF x, y
  <2> QED
    BY <2>1, <2>2
<1>4. f \in [1 .. m -> T] /\ \A t \in T : \E i \in 1 .. m : f[i] = t
  BY DEF FirstRanked
<1> HIDE DEF f, T
<1>5. f \in Bijection(1 .. m, T)
  <2>1. f \in Surjection(1 .. m, T)
    BY <1>4 DEF Surjection
  <2>2. IsInjective(f)
    BY <1>3, <1>4 DEF IsInjective
  <2>3. f \in Injection(1 .. m, T)
    BY <1>4, <2>2 DEF Injection
  <2> QED
    BY <2>1, <2>3 DEF Bijection
<1>6. IsFiniteSet(T) /\ Cardinality(T) = m
  <2> DEFINE S == 1 .. m
  <2>1. f \in Bijection(S, T)
    BY <1>5
  <2>2. IsFiniteSet(S) /\ Cardinality(S) = m
    <3>1. 1 \in Int /\ m \in Int
      BY <1>2
    <3>2. IsFiniteSet(1 .. m) /\ Cardinality(1 .. m) = IF 1 > m THEN 0 ELSE m - 1 + 1
      BY <3>1, FS_Interval
    <3> QED
      BY <1>2, <3>2
  <2> HIDE DEF S
  <2>3. ExistsBijection(S, T)
    BY <2>1 DEF ExistsBijection
  <2>4. IsFiniteSet(T) /\ Cardinality(T) = Cardinality(S)
    BY <2>2, <2>3, FS_Bijection
  <2> QED
    BY <2>2, <2>4
<1> QED
  BY <1>6 DEF T

\* The ranked entries below that of an entry are those before it.
LEMMA RankedBelow ==
  ASSUME Rankable, NEW rows, rows \subseteq Values, Distinct(Encoder, rows),
         NEW leaf \in Leaf(rows), Sorted(Encoder, leaf),
         NEW h \in 1 .. Len(leaf)
  PROVE  {e \in RankedEntries(leaf) : e.key < Rank(leaf[h].key)} = FirstRanked(leaf, h - 1)
<1>1. /\ Len(leaf) \in Nat
      /\ \A i \in 1 .. Len(leaf) : Rank(leaf[i].key) \in Nat
      /\ \A i, j \in 1 .. Len(leaf) : i < j => Rank(leaf[i].key) < Rank(leaf[j].key)
  BY RanksAscend
<1>2. RankedEntries(leaf) = FirstRanked(leaf, Len(leaf))
  BY RankedByPosition
<1>3. ASSUME NEW i \in 1 .. Len(leaf)
      PROVE  Rank(leaf[i].key) < Rank(leaf[h].key) <=> i \in 1 .. h - 1
  <2> DEFINE x == Rank(leaf[i].key)
             y == Rank(leaf[h].key)
  <2>1. x \in Nat /\ y \in Nat /\ (i < h => x < y) /\ (h < i => y < x) /\ (i = h => x = y)
    BY <1>1
  <2> HIDE DEF x, y
  <2>2. x < y <=> i \in 1 .. h - 1
    BY <1>1, <2>1
  <2> QED
    BY <2>2 DEF x, y
<1>4. \A i \in 1 .. h - 1 : i \in 1 .. Len(leaf)
  BY <1>1
<1> QED
  BY <1>2, <1>3, <1>4 DEF FirstRanked

-----------------------------------------------------------------------------
\* The ranks of keys are numbers, that of an open bound stays null.
LEMMA RankBounds ==
  ASSUME Rankable
  PROVE  /\ IsEncoder(Encoder) /\ Whole(Encoder, Values)
         /\ TotalOrder(Encoder, KeySet)
         /\ Rank(NoKey) = NoKey
         /\ \A k \in KeySet : k # NoKey /\ Rank(k) # NoKey /\ Rank(k) \in Nat /\ Rank(k) \in RankSet
<1>1. FiniteCallers /\ caller \in DOMAIN Callers
  BY DEF Rankable
<1>2. Rank(NoKey) = NoKey
  BY DEF Rank
<1>3. ASSUME NEW k \in KeySet
      PROVE  k # NoKey /\ Rank(k) # NoKey /\ Rank(k) \in Nat /\ Rank(k) \in RankSet
  BY <1>1, KeySetTyped, RankOrder, NullAssumption
<1> QED
  BY <1>1, <1>2, <1>3, KeySetTyped

\* A partition covers a key if it covers the key's rank.
LEMMA RankCovers ==
  ASSUME Rankable, NEW part, part.startKey # NoKey => part.startKey \in KeySet,
         part.endKey # NoKey => part.endKey \in KeySet, NEW k \in KeySet
  PROVE  Ranked!ContainsKey(RankedPartition(part), Rank(k)) <=> Covers(Encoder, part, k)
<1> DEFINE s == part.startKey
           e == part.endKey
           x == Rank(s)
           y == Rank(k)
           z == Rank(e)
<1>1. RankedPartition(part).startKey = x /\ RankedPartition(part).endKey = z
  BY DEF RankedPartition
<1>2. y \in Nat /\ (s = NoKey => x = NoKey) /\ (e = NoKey => z = NoKey)
  BY RankBounds
<1>3. s # NoKey => x # NoKey /\ (x <= y <=> ~ Before(Encoder, k, s))
  <2> SUFFICES ASSUME s # NoKey PROVE x # NoKey /\ (x <= y <=> ~ Before(Encoder, k, s))
    OBVIOUS
  <2>1. s \in KeySet
    OBVIOUS
  <2> HIDE DEF s
  <2>2. x # NoKey /\ x \in Nat
    BY <2>1, RankBounds
  <2>3. y < x <=> Before(Encoder, k, s)
    BY <2>1, RankOrder DEF Rankable
  <2> HIDE DEF x, y
  <2> QED
    BY <1>2, <2>2, <2>3
<1>4. e # NoKey => z # NoKey /\ (y < z <=> Before(Encoder, k, e))
  <2> SUFFICES ASSUME e # NoKey PROVE z # NoKey /\ (y < z <=> Before(Encoder, k, e))
    OBVIOUS
  <2>1. e \in KeySet
    OBVIOUS
  <2> HIDE DEF e
  <2>2. z # NoKey
    BY <2>1, RankBounds
  <2>3. y < z <=> Before(Encoder, k, e)
    BY <2>1, RankOrder DEF Rankable
  <2> QED
    BY <2>2, <2>3
<1>5. Covers(Encoder, part, k) <=> /\ s # NoKey => ~ Before(Encoder, k, s)
                                   /\ e # NoKey => Before(Encoder, k, e)
  BY DEF Covers
<1>6. Ranked!ContainsKey(RankedPartition(part), y) <=> (x # NoKey => x <= y) /\ (z # NoKey => y < z)
  BY <1>1 DEF Ranked!ContainsKey
<1> HIDE DEF s, e, x, z
<1> QED
  BY <1>2, <1>3, <1>4, <1>5, <1>6

\* The ranked partitions, by position.
LEMMA RankedList ==
  ASSUME Rankable, Len(partitions) \in Nat
  PROVE  /\ RankedPartitions \in Seq({RankedPartition(partitions[p]) : p \in Parts})
         /\ Len(RankedPartitions) = Len(partitions) /\ Ranked!Parts = Parts
         /\ \A p \in Parts : RankedPartitions[p] = RankedPartition(partitions[p])
<1> DEFINE n == Len(partitions)
           S == {RankedPartition(partitions[p]) : p \in Parts}
           f == RankedPartitions
<1>1. f = [p \in Parts |-> RankedPartition(partitions[p])]
  BY DEF RankedPartitions
<1>2. f = [p \in 1 .. n |-> f[p]] /\ \A p \in 1 .. n : f[p] = RankedPartition(partitions[p]) /\ f[p] \in S
  <2> HIDE DEF f
  <2> QED
    BY <1>1 DEF Parts
<1> HIDE DEF f, S, n
<1>3. n \in Nat
  BY DEF n
<1>4. f \in Seq(S) /\ Len(f) = n
  BY <1>2, <1>3, IsSequence
<1>5. Ranked!Parts = 1 .. Len(f)
  BY DEF Ranked!Parts, f
<1> QED
  BY <1>2, <1>4, <1>5 DEF f, S, n, Parts

\* What the invariant says, in the terms of the ranks.
LEMMA RankableSound ==
  ASSUME Rankable, IndInv
  PROVE  /\ Sound(Encoder, partitions, inserted) /\ Len(partitions) \in Nat /\ Len(partitions) > 0
         /\ Whole(Encoder, inserted) /\ inserted \subseteq Values
         /\ \A p \in Parts :
              /\ partitions[p].leaf \in Leaf(inserted)
              /\ Sorted(Encoder, partitions[p].leaf)
              /\ partitions[p].startKey # NoKey => partitions[p].startKey \in KeySet
              /\ partitions[p].endKey # NoKey => partitions[p].endKey \in KeySet
<1>1. IsEncoder(Encoder) /\ Whole(Encoder, Values) /\ TypeInv /\ SoundInv
  BY RankBounds DEF IndInv
<1>2. inserted \subseteq Values /\ Len(partitions) > 0 /\ partitions \in Seq(Partition(inserted))
  BY <1>1 DEF TypeInv
<1>3. Whole(Encoder, inserted)
  BY <1>1, <1>2 DEF Whole
<1>4. Sound(Encoder, partitions, inserted)
  BY <1>1 DEF SoundInv
<1>5. KeysOf(Encoder, inserted) \subseteq KeySet
  BY <1>2 DEF KeysOf, KeySet
<1>6. Len(partitions) \in Nat
  BY <1>2, PartitionTyped
<1>7. ASSUME NEW p \in Parts
      PROVE  /\ partitions[p].leaf \in Leaf(inserted)
             /\ Sorted(Encoder, partitions[p].leaf)
             /\ partitions[p].startKey # NoKey => partitions[p].startKey \in KeySet
             /\ partitions[p].endKey # NoKey => partitions[p].endKey \in KeySet
  BY <1>1, <1>4, <1>5, PartitionSound
<1> QED
  BY <1>2, <1>3, <1>4, <1>6, <1>7

\* The rank of a new value's key is not among those stored.
LEMMA RankIsNew ==
  ASSUME Rankable, IndInv, NEW v \in Values, NewKey(v)
  PROVE  KeyOf(v) \in KeySet /\ Rank(KeyOf(v)) \notin Ranked!KeysOf(Ranked!StoredEntries)
<1> DEFINE k == KeyOf(v)
<1>1. k \in KeySet
  BY DEF KeyOf, KeySet, KeysOf
<1>2. SUFFICES ASSUME Rank(k) \in Ranked!KeysOf(Ranked!StoredEntries) PROVE FALSE
  BY <1>1
<1>3. PICK e \in Ranked!StoredEntries : Rank(k) = e.key
  BY <1>2 DEF Ranked!KeysOf
<1>4. PICK p \in Ranked!Parts : e \in RankedPartitions[p].entries
  BY <1>3 DEF Ranked!StoredEntries
<1>5. p \in Parts /\ RankedPartitions[p] = RankedPartition(partitions[p])
  BY <1>4, RankableSound, RankedList
<1> DEFINE leaf == partitions[p].leaf
<1>6. leaf \in Leaf(inserted) /\ Sorted(Encoder, leaf) /\ inserted \subseteq Values
  BY <1>5, RankableSound
<1>7. e \in RankedEntries(leaf)
  BY <1>4, <1>5 DEF RankedPartition
<1> HIDE DEF leaf
<1>8. PICK i \in 1 .. Len(leaf) : Rank(k) = Rank(leaf[i].key)
  <2>1. e \in FirstRanked(leaf, Len(leaf))
    BY <1>6, <1>7, RankedByPosition
  <2> QED
    BY <1>3, <2>1 DEF FirstRanked
<1> DEFINE w == leaf[i].row
<1>9. w \in inserted /\ leaf[i].key = Encode(Encoder, w)
  BY <1>6, LeafTyped DEF Sorted
<1>10. leaf[i].key \in KeySet
  BY <1>6, <1>9 DEF KeySet, KeysOf
<1>11. leaf[i].key = k
  BY <1>1, <1>8, <1>10, RankOrder DEF Rankable
<1> HIDE DEF w
<1> QED
  BY <1>9, <1>11 DEF NewKey, KeyOf

\* The partition that _findPartitionIndex finds is the one of the key's rank.
LEMMA RankIsPlaced ==
  ASSUME Rankable, IndInv, NEW v \in Values
  PROVE  LET p == FindPartitionIndex(KeyOf(v))
         IN  p \in Parts /\ Ranked!IsPartitionFor(p, Rank(KeyOf(v)))
<1> DEFINE k == KeyOf(v)
           p == FindPartitionIndex(k)
           rows == inserted \cup {v}
<1>1. IsEncoder(Encoder) /\ Whole(Encoder, Values)
  BY RankBounds
<1>2. /\ Sound(Encoder, partitions, inserted) /\ Len(partitions) \in Nat /\ Len(partitions) > 0
      /\ inserted \subseteq Values
      /\ \A q \in Parts : /\ partitions[q].startKey # NoKey => partitions[q].startKey \in KeySet
                          /\ partitions[q].endKey # NoKey => partitions[q].endKey \in KeySet
  BY RankableSound
<1>3. Whole(Encoder, rows)
  BY <1>1, <1>2 DEF Whole
<1>4. Chained(Encoder, partitions, rows)
  <2>1. KeysOf(Encoder, inserted) \subseteq KeysOf(Encoder, rows)
    BY DEF KeysOf
  <2> QED
    BY <1>2, <2>1 DEF Sound, Chained
<1>5. k \in KeysOf(Encoder, rows) /\ k \in KeySet
  BY DEF KeyOf, KeysOf, KeySet
<1> HIDE DEF rows, k
<1>6. /\ p \in Parts /\ Covers(Encoder, partitions[p], k)
      /\ \A q \in Parts : Covers(Encoder, partitions[q], k) => q = p
  BY <1>1, <1>2, <1>3, <1>4, <1>5, FindPartition
<1> HIDE DEF p
<1>7. ASSUME NEW q \in Parts
      PROVE  Ranked!ContainsKey(RankedPartitions[q], Rank(k)) <=> Covers(Encoder, partitions[q], k)
  <2>1. RankedPartitions[q] = RankedPartition(partitions[q])
    BY <1>2, RankedList
  <2>2. /\ partitions[q].startKey # NoKey => partitions[q].startKey \in KeySet
        /\ partitions[q].endKey # NoKey => partitions[q].endKey \in KeySet
    BY <1>2
  <2> QED
    BY <1>5, <2>1, <2>2, RankCovers
<1>8. \A q \in 1 .. p - 1 : q \in Parts /\ q # p
  BY <1>2, <1>6 DEF Parts
<1>9. Ranked!Parts = Parts
  BY <1>2, RankedList
<1> QED
  BY <1>6, <1>7, <1>8, <1>9 DEF Ranked!IsPartitionFor, p, k

-----------------------------------------------------------------------------
\* insertEncoded adds the entry of the key's rank.
LEMMA RankedGrown ==
  ASSUME Rankable, IndInv, NEW v \in Values, NewKey(v), v \notin inserted
  PROVE  LET p == FindPartitionIndex(KeyOf(v))
             leaf == Grown(v)[p].leaf
         IN  /\ leaf \in Leaf(inserted \cup {v}) /\ Sorted(Encoder, leaf)
             /\ Ranked!Grown(p, Rank(KeyOf(v)), 0) = RankedPartition(Grown(v)[p])
             /\ Cardinality(RankedEntries(leaf)) = Len(leaf)
<1> DEFINE k == KeyOf(v)
           p == FindPartitionIndex(k)
           rows == inserted \cup {v}
           old == partitions[p].leaf
           leaf == Grown(v)[p].leaf
           e == [key |-> k, row |-> v]
           x == [key |-> Rank(k), row |-> 0]
<1>1. /\ Len(partitions) \in Nat /\ Whole(Encoder, inserted) /\ inserted \subseteq Values
      /\ \A q \in Parts : partitions[q].leaf \in Leaf(inserted) /\ Sorted(Encoder, partitions[q].leaf)
  BY RankableSound
<1>2. p \in Parts
  BY RankIsPlaced
<1>3. IsEncoder(Encoder) /\ Whole(Encoder, Values) /\ TypeInv
  BY RankBounds DEF IndInv
<1>4. Whole(Encoder, rows) /\ rows \subseteq Values /\ Distinct(Encoder, rows)
  BY <1>1, <1>3, NewDistinct DEF Whole, IndInv, UniqueInv
<1>5. old \in Leaf(inserted) /\ Sorted(Encoder, old)
  BY <1>1, <1>2
<1>6. old \in Leaf(rows) /\ \A i \in 1 .. Len(old) : old[i].row # v
  <2> HIDE DEF old
  <2>1. inserted \subseteq rows
    OBVIOUS
  <2>2. \A i \in 1 .. Len(old) : old[i].row \in inserted
    BY <1>5, LeafTyped
  <2> HIDE DEF rows
  <2> QED
    BY <1>5, <2>1, <2>2, LeafMonotonic
<1>7. p # 0
  BY <1>1, <1>2 DEF Parts
<1>8. /\ Grown(v)[p].startKey = partitions[p].startKey
      /\ Grown(v)[p].endKey = partitions[p].endKey
      /\ leaf = InsertEncoded(old, k, v)
  BY <1>3, <1>7, GrownTyped
<1>9. leaf \in Leaf(rows) /\ Sorted(Encoder, leaf) /\ Adds(leaf, old, e)
  <2> HIDE DEF old, leaf, rows
  <2>1. v \in rows
    BY DEF rows
  <2>2. LET t == InsertEncoded(old, KeyOf(v), v)
        IN  /\ t \in Leaf(rows) /\ Len(t) = Len(old) + 1
            /\ Sorted(Encoder, t) /\ Adds(t, old, [key |-> KeyOf(v), row |-> v])
    BY <1>3, <1>4, <1>5, <1>6, <2>1, InsertEncodedSorted
  <2> QED
    BY <1>8, <2>2
<1>10. RankedEntries(leaf) = RankedEntries(old) \cup {x}
  <2> HIDE DEF leaf, old
  <2>1. RankedEntries(leaf) = FirstRanked(leaf, Len(leaf)) /\ RankedEntries(old) = FirstRanked(old, Len(old))
    BY <1>6, <1>9, RankedByPosition
  <2>2. /\ \E i \in 1 .. Len(leaf) : leaf[i] = e
        /\ \A i \in 1 .. Len(old) : \E j \in 1 .. Len(leaf) : leaf[j] = old[i]
        /\ \A j \in 1 .. Len(leaf) : leaf[j] = e \/ \E i \in 1 .. Len(old) : leaf[j] = old[i]
    BY <1>9 DEF Adds
  <2>3. e.key = k
    OBVIOUS
  <2> HIDE DEF e, k
  <2>4. x \in FirstRanked(leaf, Len(leaf))
    BY <2>2, <2>3 DEF FirstRanked
  <2>5. FirstRanked(old, Len(old)) \subseteq FirstRanked(leaf, Len(leaf))
    BY <2>2 DEF FirstRanked
  <2>6. FirstRanked(leaf, Len(leaf)) \subseteq FirstRanked(old, Len(old)) \cup {x}
    BY <2>2, <2>3 DEF FirstRanked
  <2> QED
    BY <2>1, <2>4, <2>5, <2>6
<1>11. RankedPartitions[p] = RankedPartition(partitions[p])
  BY <1>1, <1>2, RankedList
<1>12. Ranked!Grown(p, Rank(k), 0) = RankedPartition(Grown(v)[p])
  <2>1. RankedPartition(Grown(v)[p]) =
          [startKey |-> Rank(partitions[p].startKey), endKey |-> Rank(partitions[p].endKey),
           entries |-> RankedEntries(leaf)]
    BY <1>8 DEF RankedPartition
  <2>2. RankedPartition(partitions[p]) =
          [startKey |-> Rank(partitions[p].startKey), endKey |-> Rank(partitions[p].endKey),
           entries |-> RankedEntries(old)]
    BY DEF RankedPartition
  <2>3. Ranked!Grown(p, Rank(k), 0) = [RankedPartitions[p] EXCEPT !.entries = @ \cup {x}]
    BY DEF Ranked!Grown
  <2> HIDE DEF leaf, old, x
  <2> QED
    BY <1>10, <1>11, <2>1, <2>2, <2>3
<1>13. Cardinality(RankedEntries(leaf)) = Len(leaf)
  <2> HIDE DEF leaf, rows
  <2>1. RankedEntries(leaf) = FirstRanked(leaf, Len(leaf))
    BY <1>9, RankedByPosition
  <2>2. Len(leaf) \in Nat
    BY <1>9, LeafTyped
  <2>3. Len(leaf) \in 0 .. Len(leaf)
    BY <2>2
  <2> QED
    BY <1>4, <1>9, <2>1, <2>3, RankedCount
<1> QED
  BY <1>9, <1>12, <1>13

-----------------------------------------------------------------------------
\* The entries of one half of a leaf are those on one side of the pivot.
LEMMA RankedHalves ==
  ASSUME Rankable, NEW rows, rows \subseteq Values, Distinct(Encoder, rows),
         NEW leaf \in Leaf(rows), Sorted(Encoder, leaf),
         NEW h \in 1 .. Len(leaf), NEW from \in Leaf(rows), NEW to \in Leaf(rows),
         Divides(Encoder, leaf, h, from, to)
  PROVE  LET m == Rank(leaf[h].key)
         IN  /\ RankedEntries(from) = {e \in RankedEntries(leaf) : e.key < m}
             /\ RankedEntries(to) = {e \in RankedEntries(leaf) : m <= e.key}
<1> DEFINE k == leaf[h].key
           m == Rank(k)
           N == Len(leaf)
<1>1. /\ RankedEntries(leaf) = FirstRanked(leaf, N)
      /\ RankedEntries(from) = FirstRanked(from, Len(from))
      /\ RankedEntries(to) = FirstRanked(to, Len(to))
  BY RankedByPosition
<1>2. /\ N \in Nat
      /\ \A i \in 1 .. N : leaf[i].key \in KeySet /\ Rank(leaf[i].key) \in Nat
  BY RanksAscend
<1>3. k \in KeySet /\ m \in Nat
  BY <1>2
<1>4. /\ \A i \in 1 .. Len(from) : /\ Before(Encoder, from[i].key, k)
                                   /\ \E j \in 1 .. N : from[i] = leaf[j]
      /\ \A i \in 1 .. Len(to) : /\ ~ Before(Encoder, to[i].key, k)
                                 /\ \E j \in 1 .. N : to[i] = leaf[j]
      /\ \A j \in 1 .. N : \/ \E i \in 1 .. Len(from) : from[i] = leaf[j]
                           \/ \E i \in 1 .. Len(to) : to[i] = leaf[j]
  BY DEF Divides
<1>5. ASSUME NEW i \in 1 .. N
      PROVE  /\ Rank(leaf[i].key) < m <=> Before(Encoder, leaf[i].key, k)
             /\ m <= Rank(leaf[i].key) <=> ~ Before(Encoder, leaf[i].key, k)
  <2> DEFINE j == leaf[i].key
             x == Rank(j)
  <2>1. j \in KeySet /\ x \in Nat
    BY <1>2
  <2> HIDE DEF j, k
  <2>2. x < m <=> Before(Encoder, j, k)
    BY <1>3, <2>1, RankOrder DEF Rankable
  <2> HIDE DEF x, m
  <2>3. m <= x <=> ~ (x < m)
    BY <1>3, <2>1
  <2> QED
    BY <2>2, <2>3 DEF x, j
<1> HIDE DEF k, m, N
<1>6. RankedEntries(from) = {e \in RankedEntries(leaf) : e.key < m}
  <2>1. ASSUME NEW i \in 1 .. Len(from)
        PROVE  [key |-> Rank(from[i].key), row |-> 0] \in {e \in FirstRanked(leaf, N) : e.key < m}
    <3>1. PICK j \in 1 .. N : from[i] = leaf[j]
      BY <1>4
    <3>2. Rank(leaf[j].key) < m
      BY <1>4, <1>5, <3>1
    <3>3. [key |-> Rank(leaf[j].key), row |-> 0] \in FirstRanked(leaf, N)
      BY DEF FirstRanked
    <3> QED
      BY <3>1, <3>2, <3>3
  <2>2. ASSUME NEW j \in 1 .. N, Rank(leaf[j].key) < m
        PROVE  [key |-> Rank(leaf[j].key), row |-> 0] \in FirstRanked(from, Len(from))
    <3>1. PICK i \in 1 .. Len(from) : from[i] = leaf[j]
      BY <1>4, <1>5, <2>2
    <3> QED
      BY <3>1 DEF FirstRanked
  <2>3. FirstRanked(from, Len(from)) \subseteq {e \in FirstRanked(leaf, N) : e.key < m}
    <3>1. ASSUME NEW y \in FirstRanked(from, Len(from)) PROVE y \in {e \in FirstRanked(leaf, N) : e.key < m}
      <4>1. PICK i \in 1 .. Len(from) : y = [key |-> Rank(from[i].key), row |-> 0]
        BY DEF FirstRanked
      <4> QED
        BY <2>1, <4>1
    <3> QED
      BY <3>1
  <2>4. ASSUME NEW y \in FirstRanked(leaf, N), y.key < m PROVE y \in FirstRanked(from, Len(from))
    <3>1. PICK j \in 1 .. N : y = [key |-> Rank(leaf[j].key), row |-> 0]
      BY DEF FirstRanked
    <3> QED
      BY <2>2, <2>4, <3>1
  <2> QED
    BY <1>1, <2>3, <2>4
<1>7. RankedEntries(to) = {e \in RankedEntries(leaf) : m <= e.key}
  <2>1. ASSUME NEW i \in 1 .. Len(to)
        PROVE  [key |-> Rank(to[i].key), row |-> 0] \in {e \in FirstRanked(leaf, N) : m <= e.key}
    <3>1. PICK j \in 1 .. N : to[i] = leaf[j]
      BY <1>4
    <3>2. m <= Rank(leaf[j].key)
      BY <1>4, <1>5, <3>1
    <3>3. [key |-> Rank(leaf[j].key), row |-> 0] \in FirstRanked(leaf, N)
      BY DEF FirstRanked
    <3> QED
      BY <3>1, <3>2, <3>3
  <2>2. ASSUME NEW j \in 1 .. N, m <= Rank(leaf[j].key)
        PROVE  [key |-> Rank(leaf[j].key), row |-> 0] \in FirstRanked(to, Len(to))
    <3>1. PICK i \in 1 .. Len(to) : to[i] = leaf[j]
      BY <1>4, <1>5, <2>2
    <3> QED
      BY <3>1 DEF FirstRanked
  <2>3. FirstRanked(to, Len(to)) \subseteq {e \in FirstRanked(leaf, N) : m <= e.key}
    <3>1. ASSUME NEW y \in FirstRanked(to, Len(to)) PROVE y \in {e \in FirstRanked(leaf, N) : m <= e.key}
      <4>1. PICK i \in 1 .. Len(to) : y = [key |-> Rank(to[i].key), row |-> 0]
        BY DEF FirstRanked
      <4> QED
        BY <2>1, <4>1
    <3> QED
      BY <3>1
  <2>4. ASSUME NEW y \in FirstRanked(leaf, N), m <= y.key PROVE y \in FirstRanked(to, Len(to))
    <3>1. PICK j \in 1 .. N : y = [key |-> Rank(leaf[j].key), row |-> 0]
      BY DEF FirstRanked
    <3> QED
      BY <2>2, <2>4, <3>1
  <2> QED
    BY <1>1, <2>3, <2>4
<1> QED
  BY <1>6, <1>7 DEF m, k

-----------------------------------------------------------------------------
\* Operators of the library, seen from the abstract specification.
LEMMA SameCardinality ==
  ASSUME NEW S
  PROVE  Ranked!Cardinality(S) = Cardinality(S)
BY DEF Ranked!Cardinality, Cardinality

\* SplitPartition of the abstract specification, likewise.
LEMMA SplitByHalves ==
  ASSUME NEW a, NEW b, NEW S, NEW p, NEW m,
         NEW part, part = [startKey |-> a, endKey |-> b, entries |-> S]
  PROVE  Ranked!SplitPartition(p, part, m) =
           InsertAt(ReplaceAt(RankedPartitions, p,
                              [startKey |-> part.startKey, endKey |-> m,
                               entries |-> {e \in part.entries : e.key < m}]),
                    p + 1, [startKey |-> m, endKey |-> part.endKey,
                            entries |-> {e \in part.entries : m <= e.key}])
<1> DEFINE T == {e \in part.entries : e.key < m}
           lower == [part EXCEPT !.endKey = m, !.entries = T]
           upper == [startKey |-> m, endKey |-> part.endKey,
                     entries |-> {e \in part.entries : m <= e.key}]
<1>1. Ranked!SplitPartition(p, part, m) =
        Ranked!InsertAt(Ranked!ReplaceAt(RankedPartitions, p, lower), p + 1, upper)
  BY DEF Ranked!SplitPartition
<1> HIDE DEF upper
<1>2. lower = [startKey |-> a, endKey |-> m, entries |-> T]
  <2> DEFINE x == [part EXCEPT !.endKey = m]
  <2>1. x = [startKey |-> a, endKey |-> m, entries |-> S]
    OBVIOUS
  <2> HIDE DEF T
  <2>2. lower = [x EXCEPT !.entries = T]
    BY Zenon
  <2> HIDE DEF x, lower
  <2> QED
    BY <2>1, <2>2
<1> HIDE DEF lower
<1>3. lower = [startKey |-> part.startKey, endKey |-> m, entries |-> T]
  BY <1>2
<1> HIDE DEF T
<1>4. Ranked!SplitPartition(p, part, m) =
        InsertAt(ReplaceAt(RankedPartitions, p, lower), p + 1, upper)
  BY <1>1 DEF Ranked!InsertAt, InsertAt, Ranked!ReplaceAt, ReplaceAt
<1> QED
  BY <1>3, <1>4 DEF T, upper

\* _findMedianKey's rank is the median of the ranked entries.
LEMMA RankedMedian ==
  ASSUME Rankable, NEW rows, rows \subseteq Values, Whole(Encoder, rows),
         Distinct(Encoder, rows), NEW leaf \in Leaf(rows),
         Sorted(Encoder, leaf), Len(leaf) > 0
  PROVE  LET h == Len(leaf) \div 2 + 1
         IN  /\ h \in 1 .. Len(leaf) /\ FindMedianKey(leaf) = leaf[h].key
             /\ Rank(leaf[h].key) \in RankSet
             /\ Ranked!IsMedianKey(RankedEntries(leaf), Rank(leaf[h].key))
<1> DEFINE n == Len(leaf)
           h == n \div 2 + 1
           S == RankedEntries(leaf)
           k == leaf[h].key
           m == Rank(k)
<1>1. n \in Nat /\ \A i \in 1 .. n : leaf[i].key \in KeySet
  BY RanksAscend
<1>2. h \in 1 .. n /\ h - 1 = n \div 2 /\ h - 1 \in 0 .. n /\ n \in 0 .. n
  <2> HIDE DEF n
  <2>1. n > 0
    BY DEF n
  <2>2. n \div 2 \in 0 .. n - 1
    BY <1>1, <2>1
  <2> QED
    BY <1>1, <2>2
<1> HIDE DEF h
<1>3. k \in KeySet /\ m \in RankSet
  BY <1>1, <1>2, RankBounds
<1>4. FindMedianKey(leaf) = k
  <2>1. KeyOf(DecodeKey(k)) = k
    BY <1>2, RankBounds, EntryKey
  <2> QED
    BY <2>1 DEF FindMedianKey, h
<1>5. S = FirstRanked(leaf, n) /\ {e \in S : e.key < m} = FirstRanked(leaf, h - 1)
  <2>1. S = FirstRanked(leaf, n)
    BY RankedByPosition
  <2>2. {e \in S : e.key < m} = FirstRanked(leaf, h - 1)
    BY <1>2, RankedBelow
  <2> QED
    BY <2>1, <2>2
<1> DEFINE T == {e \in S : e.key < m}
<1>6. Cardinality(S) = n /\ Cardinality(T) = h - 1
  <2> DEFINE a == h - 1
  <2>1. a \in 0 .. n /\ n \in 0 .. n
    BY <1>2
  <2> HIDE DEF a
  <2>2. Cardinality(FirstRanked(leaf, n)) = n
    BY <2>1, RankedCount
  <2>3. Cardinality(FirstRanked(leaf, a)) = a
    BY <2>1, RankedCount
  <2> QED
    BY <1>5, <2>2, <2>3 DEF a
<1>7. m \in Ranked!KeysOf(S)
  <2>1. [key |-> m, row |-> 0] \in FirstRanked(leaf, n)
    BY <1>2 DEF FirstRanked
  <2> HIDE DEF S, m
  <2> QED
    BY <1>5, <2>1 DEF Ranked!KeysOf
<1>8. Ranked!IsMedianKey(S, m)
  BY <1>2, <1>6, <1>7, SameCardinality DEF Ranked!IsMedianKey
<1> QED
  BY <1>2, <1>3, <1>4, <1>8 DEF h

\* What _splitPartition does to the ranks of a partition.
SplitsRanked(parts, p) ==
  LET t == SplitPartition(parts, p)
      part == RankedPartition(parts[p])
      m == Rank(FindMedianKey(parts[p].leaf))
  IN  /\ Decodable(parts[p].leaf)
      /\ m \in RankSet /\ Ranked!IsMedianKey(part.entries, m)
      /\ Len(t) = Len(parts) + 1
      /\ \A i \in 1 .. p - 1 : t[i] = parts[i]
      /\ \A i \in p + 2 .. Len(parts) + 1 : t[i] = parts[i - 1]
      /\ RankedPartition(t[p]) =
           [startKey |-> part.startKey, endKey |-> m,
            entries |-> {e \in part.entries : e.key < m}]
      /\ RankedPartition(t[p + 1]) =
           [startKey |-> m, endKey |-> part.endKey,
            entries |-> {e \in part.entries : m <= e.key}]

\* _splitPartition splits the ranked partition.
LEMMA RankedSplit ==
  ASSUME Rankable, NEW rows, rows \subseteq Values, Whole(Encoder, rows),
         Distinct(Encoder, rows),
         NEW parts \in Seq(Partition(rows)), Sound(Encoder, parts, rows),
         NEW p \in 1 .. Len(parts), Len(parts[p].leaf) > 0
  PROVE  SplitsRanked(parts, p)
<1> DEFINE leaf == parts[p].leaf
           t == SplitPartition(parts, p)
           part == RankedPartition(parts[p])
           k == FindMedianKey(leaf)
           m == Rank(k)
           moved == MoveData(leaf, k)
<1>1. IsEncoder(Encoder)
  BY RankBounds
<1>2. leaf \in Leaf(rows) /\ Sorted(Encoder, leaf)
  BY PartitionTyped DEF Sound
<1>3. /\ Decodable(leaf) /\ Len(t) = Len(parts) + 1
      /\ \A i \in 1 .. p - 1 : t[i] = parts[i]
      /\ \A i \in p + 2 .. Len(parts) + 1 : t[i] = parts[i - 1]
  BY <1>1, SplitSound
<1>4. /\ t[p].startKey = parts[p].startKey /\ t[p].endKey = k /\ t[p].leaf = moved.from
      /\ t[p + 1].startKey = k /\ t[p + 1].endKey = parts[p].endKey /\ t[p + 1].leaf = moved.to
  <2>1. Splits(t, parts, p, k, moved)
    BY <1>1, <1>3, SplitShape
  <2> QED
    BY <2>1 DEF Splits
<1> DEFINE h == Len(leaf) \div 2 + 1
<1>5. /\ h \in 1 .. Len(leaf) /\ k = leaf[h].key
      /\ m \in RankSet /\ Ranked!IsMedianKey(RankedEntries(leaf), m)
  <2> HIDE DEF leaf
  <2>1. Len(leaf) > 0
    BY DEF leaf
  <2>2. LET g == Len(leaf) \div 2 + 1
        IN  /\ g \in 1 .. Len(leaf) /\ FindMedianKey(leaf) = leaf[g].key
            /\ Rank(leaf[g].key) \in RankSet
            /\ Ranked!IsMedianKey(RankedEntries(leaf), Rank(leaf[g].key))
    BY <1>2, <2>1, RankedMedian
  <2> QED
    BY <2>2
<1> HIDE DEF h, k
<1>6. /\ RankedEntries(moved.from) = {e \in RankedEntries(leaf) : e.key < m}
      /\ RankedEntries(moved.to) = {e \in RankedEntries(leaf) : m <= e.key}
  <2> DEFINE from == moved.from
             to == moved.to
  <2> HIDE DEF leaf
  <2>1. from \in Leaf(rows) /\ to \in Leaf(rows) /\ Divides(Encoder, leaf, h, from, to)
    BY <1>1, <1>2, <1>5, MoveDataDivides
  <2> HIDE DEF from, to
  <2>2. LET q == Rank(leaf[h].key)
        IN  /\ RankedEntries(from) = {e \in RankedEntries(leaf) : e.key < q}
            /\ RankedEntries(to) = {e \in RankedEntries(leaf) : q <= e.key}
    BY <1>2, <1>5, <2>1, RankedHalves
  <2> QED
    BY <1>5, <2>2 DEF from, to
<1>7. part = [startKey |-> Rank(parts[p].startKey), endKey |-> Rank(parts[p].endKey),
              entries |-> RankedEntries(leaf)]
  BY DEF RankedPartition
<1>8. RankedPartition(t[p]) = [startKey |-> Rank(parts[p].startKey), endKey |-> m,
                               entries |-> {e \in RankedEntries(leaf) : e.key < m}]
  <2> HIDE DEF t, moved, leaf
  <2> QED
    BY <1>4, <1>6 DEF RankedPartition
<1>9. RankedPartition(t[p + 1]) = [startKey |-> m, endKey |-> Rank(parts[p].endKey),
                                   entries |-> {e \in RankedEntries(leaf) : m <= e.key}]
  <2> HIDE DEF t, moved, leaf
  <2> QED
    BY <1>4, <1>6 DEF RankedPartition
<1> HIDE DEF part, t, m, leaf
<1>10. /\ part.entries = RankedEntries(leaf) /\ part.endKey = Rank(parts[p].endKey)
       /\ part.startKey = Rank(parts[p].startKey)
  BY <1>7
<1>11. RankedPartition(t[p]) =
         [startKey |-> part.startKey, endKey |-> m,
          entries |-> {e \in part.entries : e.key < m}]
  BY <1>8, <1>10
<1>12. RankedPartition(t[p + 1]) =
         [startKey |-> m, endKey |-> part.endKey,
          entries |-> {e \in part.entries : m <= e.key}]
  BY <1>9, <1>10
<1> QED
  BY <1>3, <1>5, <1>10, <1>11, <1>12 DEF m, k, t, part, leaf, SplitsRanked

-----------------------------------------------------------------------------
\* u is s with lower and upper in the place of its element p.
SplitAt(u, s, p, lower, upper) ==
  /\ u = [i \in 1 .. Len(s) + 1 |-> u[i]]
  /\ \A i \in 1 .. p - 1 : u[i] = s[i]
  /\ u[p] = lower /\ u[p + 1] = upper
  /\ \A i \in p + 2 .. Len(s) + 1 : u[i] = s[i - 1]

\* Then it is the result of a replacement and an insertion.
LEMMA SplitInList ==
  ASSUME NEW S, NEW s \in Seq(S), NEW p \in 1 .. Len(s), NEW lower, NEW upper,
         NEW u, SplitAt(u, s, p, lower, upper)
  PROVE  u = InsertAt(ReplaceAt(s, p, lower), p + 1, upper)
<1> DEFINE T == S \cup {lower, upper}
           r == ReplaceAt(s, p, lower)
           t == InsertAt(r, p + 1, upper)
           n == Len(s) + 1
<1>0. /\ u = [i \in 1 .. n |-> u[i]]
      /\ \A i \in 1 .. p - 1 : u[i] = s[i]
      /\ u[p] = lower /\ u[p + 1] = upper
      /\ \A i \in p + 2 .. n : u[i] = s[i - 1]
  BY DEF SplitAt
<1>1. Len(s) \in Nat /\ n \in Nat /\ n = Len(s) + 1
  BY LenProperties
<1> HIDE DEF n
<1>2. s \in Seq(T) /\ lower \in T /\ upper \in T
  <2>1. S \subseteq T
    OBVIOUS
  <2> HIDE DEF T
  <2>2. s \in Seq(T)
    BY <2>1, SeqMonotonic
  <2> QED
    BY <2>2 DEF T
<1> HIDE DEF T
<1>3. /\ r \in Seq(T) /\ Len(r) = Len(s)
      /\ \A i \in 1 .. Len(s) : r[i] = IF i = p THEN lower ELSE s[i]
  BY <1>2, ExceptSeq DEF ReplaceAt
<1> HIDE DEF r
<1> DEFINE q == p + 1
<1>4. q \in 1 .. Len(r) + 1
  BY <1>1, <1>3
<1> HIDE DEF q
<1>5. LET w == InsertAt(r, q, upper)
      IN  w \in Seq(T) /\ Len(w) = Len(r) + 1 /\ Inserts(w, r, q, upper)
  <2>1. r \in Seq(T)
    BY <1>3
  <2>2. upper \in T
    BY <1>2
  <2> QED
    BY <1>4, <2>1, <2>2, InsertAtProperties
<1>6. t \in Seq(T) /\ Len(t) = n /\ Inserts(t, r, p + 1, upper)
  BY <1>1, <1>3, <1>5 DEF q
<1> HIDE DEF t
<1>7. /\ t[p + 1] = upper
      /\ \A i \in 1 .. p : t[i] = r[i]
      /\ \A i \in p + 2 .. n : t[i] = r[i - 1]
  <2>1. (p + 1) - 1 = p /\ (p + 1) + 1 = p + 2 /\ Len(r) + 1 = n
    BY <1>1, <1>3
  <2> QED
    BY <1>6, <2>1 DEF Inserts
<1>8. ASSUME NEW i \in 1 .. n PROVE u[i] = t[i]
  <2>1. CASE i \in 1 .. p - 1
    <3>1. i \in 1 .. p /\ i \in 1 .. Len(s) /\ i # p
      BY <1>1, <2>1
    <3> QED
      BY <1>0, <1>3, <1>7, <2>1, <3>1
  <2>2. CASE i = p
    <3>1. i \in 1 .. p
      BY <2>2
    <3> QED
      BY <1>0, <1>3, <1>7, <2>2, <3>1
  <2>3. CASE i = p + 1
    BY <1>0, <1>7, <2>3
  <2>4. CASE i \in p + 2 .. n
    <3>1. i - 1 \in 1 .. Len(s) /\ i - 1 # p
      BY <1>1, <2>4
    <3> QED
      BY <1>0, <1>3, <1>7, <2>4, <3>1
  <2> QED
    BY <1>1, <2>1, <2>2, <2>3, <2>4
<1>9. u \in Seq(T) /\ Len(u) = n
  <2>1. \A i \in 1 .. n : u[i] \in T
    BY <1>6, <1>8, ElementOfSeq
  <2> QED
    BY <1>0, <1>1, <2>1, IsSequence
<1>10. \A i \in 1 .. Len(u) : u[i] = t[i]
  BY <1>8, <1>9
<1>11. u = t
  BY <1>6, <1>9, <1>10, SeqEqual
<1> QED
  BY <1>11 DEF t, r

-----------------------------------------------------------------------------
\* The ranked partitions after a step: ranks do not change.
LEMMA RankedAfter ==
  ASSUME caller' = caller
  PROVE  RankedPartitions' = [p \in 1 .. Len(partitions') |-> RankedPartition(partitions'[p])]
<1>1. ASSUME NEW part PROVE RankedPartition(part)' = RankedPartition(part)
  BY DEF RankedPartition, RankedEntries, Rank
<1> QED
  BY <1>1 DEF RankedPartitions, Parts, RankedPartition, RankedEntries, Rank

\* An insert without a split.
LEMMA RankedWithin ==
  ASSUME Rankable, IndInv, NEW v \in Values, Insert(v),
         partitions' = Grown(v),
         Len(Grown(v)[FindPartitionIndex(KeyOf(v))].leaf) <= MaxPartitionSize
  PROVE  Ranked!InsertWithin(FindPartitionIndex(KeyOf(v)), Rank(KeyOf(v)), 0)
<1> DEFINE p == FindPartitionIndex(KeyOf(v))
           r == Rank(KeyOf(v))
           g == Grown(v)
           n == Len(partitions)
<1>1. NewKey(v) /\ v \notin inserted /\ p # 0 /\ caller' = caller
  BY InsertStep
<1>2. p \in Parts /\ n \in Nat /\ TypeInv
  BY <1>1, RankIsPlaced, RankableSound DEF IndInv
<1>3. Len(g) = n /\ \A q \in Parts : q # p => g[q] = partitions[q]
  BY <1>1, <1>2, GrownTyped
<1>4. /\ Ranked!Grown(p, r, 0) = RankedPartition(g[p])
      /\ Cardinality(RankedEntries(g[p].leaf)) = Len(g[p].leaf)
  BY <1>1, RankedGrown
<1>5. Ranked!Cardinality(Ranked!Grown(p, r, 0).entries) <= MaxPartitionSize
  <2>1. RankedPartition(g[p]).entries = RankedEntries(g[p].leaf)
    BY DEF RankedPartition
  <2> QED
    BY <1>4, <2>1, SameCardinality
<1>6. RankedPartitions' = [q \in 1 .. n |-> RankedPartition(g[q])]
  BY <1>1, <1>3, RankedAfter
<1>7. /\ RankedPartitions = [q \in Parts |-> RankedPartition(partitions[q])]
  BY DEF RankedPartitions
<1> HIDE DEF p, r, g, n
<1> DEFINE G == Ranked!Grown(p, r, 0)
<1>8. RankedPartitions' = [RankedPartitions EXCEPT ![p] = G]
  <2>1. G = RankedPartition(g[p])
    BY <1>4
  <2> HIDE DEF G
  <2> QED
    BY <1>2, <1>3, <1>6, <1>7, <2>1 DEF Parts, n
<1> QED
  BY <1>5, <1>8 DEF Ranked!InsertWithin, Ranked!ReplaceAt, p, r

\* An insert with a split.
LEMMA RankedAndSplit ==
  ASSUME Rankable, IndInv, NEW v \in Values, Insert(v),
         Len(Grown(v)[FindPartitionIndex(KeyOf(v))].leaf) > MaxPartitionSize
  PROVE  Ranked!InsertAndSplit(FindPartitionIndex(KeyOf(v)), Rank(KeyOf(v)), 0)
<1> DEFINE p == FindPartitionIndex(KeyOf(v))
           r == Rank(KeyOf(v))
           g == Grown(v)
           rows == inserted \cup {v}
           t == SplitPartition(g, p)
           leaf == g[p].leaf
           part == RankedPartition(g[p])
           m == Rank(FindMedianKey(leaf))
           n == Len(g) + 1
           G == Ranked!Grown(p, r, 0)
           lower == [startKey |-> part.startKey, endKey |-> m,
                     entries |-> {e \in part.entries : e.key < m}]
           upper == [startKey |-> m, endKey |-> part.endKey,
                     entries |-> {e \in part.entries : m <= e.key}]
<1>1. /\ NewKey(v) /\ v \notin inserted /\ p # 0 /\ caller' = caller
      /\ partitions' = AfterInsert(v)
  BY InsertStep
<1>2. /\ p \in Parts /\ Len(partitions) \in Nat /\ TypeInv /\ SoundInv
      /\ inserted \subseteq Values /\ Whole(Encoder, Values)
  BY <1>1, RankIsPlaced, RankableSound, RankBounds DEF IndInv
<1>3. rows \subseteq Values /\ Whole(Encoder, rows) /\ Distinct(Encoder, rows)
  BY <1>1, <1>2, NewDistinct DEF Whole, IndInv, UniqueInv
<1>4. /\ g \in Seq(Partition(rows)) /\ Len(g) = Len(partitions)
      /\ \A q \in Parts : q # p => g[q] = partitions[q]
  BY <1>1, <1>2, GrownTyped
<1>5. Sound(Encoder, g, rows)
  BY <1>1, <1>2, <1>3, GrownSound
<1>6. G = part /\ Cardinality(RankedEntries(leaf)) = Len(leaf)
  BY <1>1, RankedGrown
<1>7. part = [startKey |-> Rank(g[p].startKey), endKey |-> Rank(g[p].endKey),
              entries |-> RankedEntries(leaf)]
  BY DEF RankedPartition
<1>8. MaxPartitionSize \in Nat /\ Len(leaf) > 0
  <2>1. leaf \in Leaf(rows)
    BY <1>1, RankedGrown
  <2> HIDE DEF leaf
  <2>2. Len(leaf) \in Nat /\ Len(leaf) > MaxPartitionSize
    BY <2>1, LeafTyped DEF leaf
  <2> QED
    BY <2>2, SizeAssumption
<1>9. /\ Decodable(leaf) /\ m \in RankSet /\ Ranked!IsMedianKey(part.entries, m)
      /\ Len(t) = n
      /\ \A i \in 1 .. p - 1 : t[i] = g[i]
      /\ \A i \in p + 2 .. n : t[i] = g[i - 1]
      /\ RankedPartition(t[p]) = lower
      /\ RankedPartition(t[p + 1]) = upper
  <2>1. g \in Seq(Partition(rows)) /\ Sound(Encoder, g, rows) /\ Len(g[p].leaf) > 0
    BY <1>4, <1>5, <1>8
  <2>2. /\ p \in 1 .. Len(g) /\ rows \subseteq Values /\ Whole(Encoder, rows)
        /\ Distinct(Encoder, rows)
    BY <1>2, <1>3, <1>4 DEF Parts
  <2> HIDE DEF g, p, rows
  <2>3. SplitsRanked(g, p)
    BY <2>1, <2>2, RankedSplit
  <2> QED
    BY <2>3, Zenon DEF SplitsRanked
<1>10. partitions' = t
  BY <1>1, <1>9 DEF AfterInsert
<1>11. Ranked!Cardinality(part.entries) > MaxPartitionSize
  BY <1>6, <1>7, SameCardinality
<1> HIDE DEF p, r, g, rows, t, leaf, part, m, n, G, lower, upper
<1> DEFINE u == RankedPartitions'
           s == RankedPartitions
           S == {RankedPartition(partitions[q]) : q \in Parts}
<1>12. u = [q \in 1 .. n |-> RankedPartition(t[q])]
  BY <1>1, <1>9, <1>10, RankedAfter
<1>13. /\ s \in Seq(S) /\ Len(s) = Len(partitions)
       /\ \A q \in Parts : s[q] = RankedPartition(partitions[q])
  BY <1>2, RankedList
<1>14. n \in Nat /\ n = Len(s) + 1 /\ p \in 1 .. Len(s) /\ Len(s) \in Nat
  BY <1>2, <1>4, <1>13 DEF n, Parts
<1> HIDE DEF u, s, S
<1>15. /\ u = [q \in 1 .. n |-> u[q]]
       /\ u[p] = lower /\ u[p + 1] = upper
  <2>1. p \in 1 .. n /\ p + 1 \in 1 .. n
    BY <1>14
  <2> QED
    BY <1>9, <1>12, <2>1
<1>16. ASSUME NEW i \in 1 .. p - 1 PROVE u[i] = s[i]
  <2>1. i \in 1 .. n /\ i \in Parts /\ i # p
    BY <1>13, <1>14 DEF Parts
  <2> QED
    BY <1>4, <1>9, <1>12, <1>13, <2>1
<1>17. ASSUME NEW i \in p + 2 .. n PROVE u[i] = s[i - 1]
  <2>1. i \in 1 .. n /\ i - 1 \in Parts /\ i - 1 # p
    BY <1>13, <1>14 DEF Parts
  <2> QED
    BY <1>4, <1>9, <1>12, <1>13, <2>1
<1>18. u = InsertAt(ReplaceAt(s, p, lower), p + 1, upper)
  <2>1. s \in Seq(S)
    BY <1>13
  <2>2. p \in 1 .. Len(s) /\ n \in Nat /\ n = Len(s) + 1
    BY <1>14
  <2>3. u = [q \in 1 .. n |-> u[q]] /\ u[p] = lower /\ u[p + 1] = upper
    BY <1>15
  <2>4. (\A i \in 1 .. p - 1 : u[i] = s[i]) /\ \A i \in p + 2 .. n : u[i] = s[i - 1]
    BY <1>16, <1>17
  <2> QED
    <3>1. SplitAt(u, s, p, lower, upper)
      BY <2>2, <2>3, <2>4 DEF SplitAt
    <3>2. p \in 1 .. Len(s)
      BY <2>2
    <3> QED
      BY <2>1, <3>1, <3>2, SplitInList
<1>19. Ranked!SplitPartition(p, part, m) = InsertAt(ReplaceAt(s, p, lower), p + 1, upper)
  BY <1>7, SplitByHalves DEF lower, upper, s
<1>20. /\ m \in RankSet /\ Ranked!IsMedianKey(G.entries, m)
       /\ u = Ranked!SplitPartition(p, G, m)
       /\ Ranked!Cardinality(G.entries) > MaxPartitionSize
  BY <1>6, <1>9, <1>11, <1>18, <1>19
<1> QED
  BY <1>20 DEF Ranked!InsertAndSplit, G, u, p, r

\* insert is the abstract insert of the key's rank.
LEMMA RankedInsert ==
  ASSUME Rankable, IndInv, NEW v \in Values, Insert(v)
  PROVE  Ranked!Next
<1> DEFINE p == FindPartitionIndex(KeyOf(v))
           k == KeyOf(v)
           leaf == Grown(v)[p].leaf
<1>1. NewKey(v) /\ v \notin inserted /\ partitions' = AfterInsert(v)
  BY InsertStep
<1>2. k \in KeySet /\ Rank(k) \notin Ranked!KeysOf(Ranked!StoredEntries)
  BY <1>1, RankIsNew
<1>3. Rank(k) \in RankSet
  BY <1>2, RankBounds
<1>4. p \in Parts /\ Ranked!IsPartitionFor(p, Rank(k)) /\ Ranked!Parts = Parts
  BY <1>1, RankIsPlaced, RankedList, RankableSound
<1>5. Len(leaf) \in Nat /\ MaxPartitionSize \in Nat
  <2>1. leaf \in Leaf(inserted \cup {v})
    BY <1>1, RankedGrown
  <2> HIDE DEF leaf
  <2> QED
    BY <2>1, LeafTyped, SizeAssumption
<1>6. Ranked!InsertWithin(p, Rank(k), 0) \/ Ranked!InsertAndSplit(p, Rank(k), 0)
  <2>1. CASE Len(leaf) > MaxPartitionSize
    BY <2>1, RankedAndSplit
  <2>2. CASE ~ (Len(leaf) > MaxPartitionSize)
    <3>1. partitions' = Grown(v)
      BY <1>1, <2>2 DEF AfterInsert
    <3>2. Len(leaf) <= MaxPartitionSize
      <4> HIDE DEF leaf
      <4> QED
        BY <1>5, <2>2
    <3> QED
      BY <3>1, <3>2, RankedWithin
  <2> QED
    BY <2>1, <2>2
<1> HIDE DEF p, k
<1>7. Ranked!Insert(Rank(k), 0)
  BY <1>2, <1>4, <1>6 DEF Ranked!Insert
<1> QED
  BY <1>3, <1>7 DEF Ranked!Next

\* One partition without bounds and entries.
LEMMA RankedInit ==
  ASSUME Init
  PROVE  Ranked!Init
<1> DEFINE part == [startKey |-> NoKey, endKey |-> NoKey, entries |-> {}]
<1>1. Len(partitions) = 1 /\ partitions[1] = [startKey |-> NoKey, endKey |-> NoKey, leaf |-> << >>]
  BY DEF Init
<1>2. Rank(NoKey) = NoKey
  BY DEF Rank
<1>3. RankedPartition(partitions[1]) = part
  <2>1. Range(<< >>) = {}
    BY DEF Range
  <2>2. RankedEntries(<< >>) = {}
    BY <2>1 DEF RankedEntries
  <2> DEFINE x == partitions[1]
  <2>3. x.startKey = NoKey /\ x.endKey = NoKey /\ x.leaf = << >>
    BY <1>1
  <2> HIDE DEF x
  <2>4. RankedPartition(x) = part
    BY <1>2, <2>2, <2>3 DEF RankedPartition
  <2> QED
    BY <2>4 DEF x
<1>4. RankedPartitions = [p \in 1 .. 1 |-> RankedPartition(partitions[p])]
  BY <1>1 DEF RankedPartitions, Parts
<1>5. RankedPartitions = << part >>
  BY <1>3, <1>4
<1> QED
  BY <1>5 DEF Ranked!Init

\* For callers of finitely many values each, of which they insert those of
\* distinct keys, the index over encoded keys implements PartitionedIndex.
THEOREM Refinement ==
  ASSUME FiniteCallers
  PROVE  Spec => ImplementsPartitionedIndex
<1>1. Init => Ranked!Init
  BY RankedInit
<1>2. IndInv /\ [Next]_vars => [Ranked!Next]_(Ranked!vars)
  <2> SUFFICES ASSUME IndInv, [Next]_vars
               PROVE  Ranked!Next \/ RankedPartitions' = RankedPartitions
    BY DEF Ranked!vars
  <2>1. CASE UNCHANGED vars
    <3>1. caller' = caller /\ partitions' = partitions
      BY <2>1 DEF vars
    <3> QED
      BY <3>1, RankedAfter DEF RankedPartitions, Parts
  <2>2. ASSUME NEW v \in Values, Insert(v)
        PROVE  Ranked!Next \/ RankedPartitions' = RankedPartitions
    <3>1. caller \in DOMAIN Callers
      BY DEF IndInv, TypeInv
    <3> QED
      BY <2>2, <3>1, RankedInsert DEF Rankable
  <2> QED
    BY <2>1, <2>2 DEF Next
<1> QED
  BY Invariance, <1>1, <1>2, PTL DEF Spec, ImplementsPartitionedIndex, Ranked!Spec
=============================================================================
