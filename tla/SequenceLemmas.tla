--------------------------- MODULE SequenceLemmas ---------------------------
(***************************************************************************)
(* What the proofs about keys and entries need to know of naturals and of  *)
(* sequences: induction up to a number, functions defined by recursion on  *)
(* a position, and the operators of SequencesExt that the code's splice,   *)
(* slice and concatenation are translated to. Induction is stated with a   *)
(* set of numbers and recursion with a function for the step, because a    *)
(* proof can instantiate those.                                            *)
(***************************************************************************)
EXTENDS Integers, SequencesExt, SequenceTheorems, FiniteSetTheorems,
        WellFoundedInduction, TLAPS

\* A set of naturals that is not empty has a least element.
LEMMA LeastElement ==
  ASSUME NEW S \in SUBSET Nat, S # {}
  PROVE  \E i \in S : \A j \in S : i <= j
<1> DEFINE R == OpToRel(<, Nat)
<1>1. IsWellFoundedOn(R, Nat)
  BY NatLessThanWellFounded
<1>2. PICK i \in S : \A j \in S : ~ (<<j, i>> \in R)
  BY <1>1, WFMin
<1>3. ASSUME NEW j \in S, j < i
      PROVE  <<j, i>> \in R
  BY <1>3 DEF OpToRel
<1> HIDE DEF R
<1>4. \A j \in S : ~ (j < i)
  BY <1>2, <1>3
<1>5. \A j \in S : i <= j
  BY <1>4
<1> QED
  BY <1>5

\* A set of numbers that contains 0, and with every number below n its
\* successor, contains all numbers up to n.
LEMMA UpTo ==
  ASSUME NEW n \in Nat, NEW T, 0 \in T,
         \A i \in 0 .. n - 1 : i \in T => i + 1 \in T
  PROVE  \A i \in 0 .. n : i \in T
<1> DEFINE S == {i \in 0 .. n : i \notin T}
<1>1. SUFFICES ASSUME S # {} PROVE FALSE
  OBVIOUS
<1>2. S \in SUBSET Nat
  OBVIOUS
<1>3. PICK m \in S : \A j \in S : m <= j
  BY <1>1, <1>2, LeastElement
<1>4. m \in 0 .. n /\ m \notin T /\ m # 0
  BY <1>3
<1>5. m - 1 \in 0 .. n - 1 /\ m - 1 \notin S
  BY <1>3, <1>4
<1>6. (m - 1) + 1 \in T
  BY <1>5
<1> QED
  BY <1>4, <1>6

\* g is a step for each of the positions 1 .. n, and f what it makes of x.
Steps(g, n, S) == \A i \in 1 .. n : \A t \in S : g[i][t] \in S

Iterates(f, g, n, S, x) ==
  /\ f \in [0 .. n -> S]
  /\ f[0] = x
  /\ \A i \in 1 .. n : f[i] = g[i][f[i - 1]]

\* A step and a start define a function on 0 .. n.
LEMMA Recursion ==
  ASSUME NEW n \in Nat, NEW S, NEW x \in S, NEW g, Steps(g, n, S)
  PROVE  \E f : Iterates(f, g, n, S, x)
<1> DEFINE T == {m \in 0 .. n : \E f : Iterates(f, g, m, S, x)}
<1>1. 0 \in T
  <2> DEFINE f == [i \in 0 .. 0 |-> x]
  <2>1. f \in [0 .. 0 -> S] /\ f[0] = x
    OBVIOUS
  <2>2. \A i \in 1 .. 0 : f[i] = g[i][f[i - 1]]
    OBVIOUS
  <2> HIDE DEF f
  <2>3. Iterates(f, g, 0, S, x)
    BY <2>1, <2>2 DEF Iterates
  <2> QED
    BY <2>3
<1>2. ASSUME NEW m \in 0 .. n - 1, m \in T
      PROVE  m + 1 \in T
  <2>1. PICK f : Iterates(f, g, m, S, x)
    BY <1>2
  <2> DEFINE h == [i \in 0 .. m + 1 |-> IF i <= m THEN f[i] ELSE g[m + 1][f[m]]]
  <2>2. m + 1 \in 1 .. n /\ f[m] \in S
    BY <1>2, <2>1 DEF Iterates
  <2>3. g[m + 1][f[m]] \in S
    BY <2>2 DEF Steps
  <2>4. h \in [0 .. m + 1 -> S]
    BY <2>1, <2>3 DEF Iterates
  <2>5. h[0] = x
    BY <2>1 DEF Iterates
  <2>6. ASSUME NEW i \in 1 .. m + 1
        PROVE  h[i] = g[i][h[i - 1]]
    <3>1. CASE i <= m
      BY <2>1, <3>1 DEF Iterates
    <3>2. CASE i = m + 1
      BY <2>1, <3>2
    <3> QED
      BY <3>1, <3>2
  <2> HIDE DEF h
  <2>7. Iterates(h, g, m + 1, S, x)
    BY <2>4, <2>5, <2>6 DEF Iterates
  <2> QED
    BY <1>2, <2>7
<1> HIDE DEF T
<1>3. \A m \in 0 .. n - 1 : m \in T => m + 1 \in T
  BY <1>2
<1>4. \A m \in 0 .. n : m \in T
  BY <1>1, <1>3, UpTo
<1> QED
  BY <1>4 DEF T

-----------------------------------------------------------------------------
\* Min of FiniteSetsExt, of naturals.
LEMMA MinProperties ==
  ASSUME NEW S \in SUBSET Nat, S # {}
  PROVE  Min(S) \in S /\ \A i \in S : Min(S) <= i
<1>1. \E i \in S : \A j \in S : i <= j
  BY LeastElement
<1> QED
  BY <1>1 DEF Min

\* t is s with e at position p.
Inserts(t, s, p, e) ==
  /\ p \in 1 .. Len(s) + 1
  /\ t[p] = e
  /\ \A i \in 1 .. p - 1 : t[i] = s[i]
  /\ \A i \in p + 1 .. Len(s) + 1 : t[i] = s[i - 1]

\* InsertAt: the elements from position p on move up by one.
LEMMA InsertAtProperties ==
  ASSUME NEW S, NEW s \in Seq(S), NEW p \in 1 .. Len(s) + 1, NEW e \in S
  PROVE  LET t == InsertAt(s, p, e)
         IN  t \in Seq(S) /\ Len(t) = Len(s) + 1 /\ Inserts(t, s, p, e)
<1> DEFINE a == SubSeq(s, 1, p - 1)
           b == SubSeq(s, p, Len(s))
           c == a \o <<e>>
           t == c \o b
<1>0. Len(s) \in Nat /\ p \in Nat /\ 1 <= p /\ p <= Len(s) + 1
  BY LenProperties
<1>1. a \in Seq(S) /\ Len(a) = p - 1 /\ \A i \in 1 .. p - 1 : a[i] = s[i]
  <2>1. \A i \in 1 .. p - 1 : s[i] \in S
    BY <1>0, ElementOfSeq
  <2>2. /\ a \in Seq(S)
        /\ Len(a) = IF 1 <= p - 1 THEN (p - 1) - 1 + 1 ELSE 0
        /\ \A i \in 1 .. (p - 1) - 1 + 1 : a[i] = s[1 + i - 1]
    BY <1>0, <2>1, SubSeqProperties, 1 \in Int, p - 1 \in Int
  <2> HIDE DEF a
  <2> QED
    BY <1>0, <2>2
<1>2. /\ b \in Seq(S) /\ Len(b) = Len(s) + 1 - p
      /\ \A i \in 1 .. Len(s) + 1 - p : b[i] = s[p + i - 1]
  <2>1. \A i \in p .. Len(s) : s[i] \in S
    BY <1>0, ElementOfSeq
  <2>2. /\ b \in Seq(S)
        /\ Len(b) = IF p <= Len(s) THEN Len(s) - p + 1 ELSE 0
        /\ \A i \in 1 .. Len(s) - p + 1 : b[i] = s[p + i - 1]
    BY <1>0, <2>1, SubSeqProperties, p \in Int, Len(s) \in Int
  <2> HIDE DEF b
  <2> QED
    BY <1>0, <2>2
<1> HIDE DEF a, b
<1>3. /\ c \in Seq(S) /\ Len(c) = p
      /\ \A i \in 1 .. p : c[i] = IF i <= p - 1 THEN a[i] ELSE e
  <2>1. <<e>> \in Seq(S) /\ Len(<<e>>) = 1 /\ <<e>>[1] = e
    OBVIOUS
  <2>2. /\ c \in Seq(S) /\ Len(c) = (p - 1) + 1
        /\ \A i \in 1 .. (p - 1) + 1 :
             c[i] = IF i <= p - 1 THEN a[i] ELSE <<e>>[i - (p - 1)]
    BY <1>0, <1>1, <2>1, ConcatProperties
  <2> HIDE DEF c
  <2> QED
    BY <1>0, <2>1, <2>2
<1> HIDE DEF c
<1>4. /\ t \in Seq(S) /\ Len(t) = Len(s) + 1
      /\ \A i \in 1 .. Len(s) + 1 : t[i] = IF i <= p THEN c[i] ELSE b[i - p]
  <2>1. /\ t \in Seq(S) /\ Len(t) = Len(c) + Len(b)
        /\ \A i \in 1 .. Len(c) + Len(b) :
             t[i] = IF i <= Len(c) THEN c[i] ELSE b[i - Len(c)]
    BY <1>2, <1>3, ConcatProperties, Zenon
  <2> HIDE DEF t
  <2>2. Len(c) = p /\ Len(c) + Len(b) = Len(s) + 1
    BY <1>0, <1>2, <1>3
  <2> QED
    BY <2>1, <2>2
<1>5. InsertAt(s, p, e) = t
  BY DEF InsertAt, t, c, a, b
<1> HIDE DEF t
<1>6. \A i \in 1 .. p - 1 : t[i] = s[i]
  BY <1>0, <1>1, <1>3, <1>4
<1>7. t[p] = e
  BY <1>0, <1>3, <1>4
<1>8. \A i \in p + 1 .. Len(s) + 1 : t[i] = s[i - 1]
  <2> TAKE i \in p + 1 .. Len(s) + 1
  <2>1. t[i] = b[i - p] /\ i - p \in 1 .. Len(s) + 1 - p
    BY <1>0, <1>4
  <2>2. b[i - p] = s[p + (i - p) - 1]
    BY <2>1, <1>2
  <2>3. p + (i - p) - 1 = i - 1
    BY <1>0
  <2> QED
    BY <2>1, <2>2, <2>3
<1>9. Inserts(t, s, p, e)
  BY <1>6, <1>7, <1>8 DEF Inserts
<1> QED
  BY <1>4, <1>5, <1>9, Zenon

\* RemoveAt: the elements behind position p move down by one.
LEMMA RemoveAtProperties ==
  ASSUME NEW S, NEW s \in Seq(S), NEW p \in 1 .. Len(s)
  PROVE  LET t == RemoveAt(s, p)
         IN  /\ t \in Seq(S) /\ Len(t) = Len(s) - 1
             /\ \A i \in 1 .. p - 1 : t[i] = s[i]
             /\ \A i \in p .. Len(s) - 1 : t[i] = s[i + 1]
<1> DEFINE a == SubSeq(s, 1, p - 1)
           b == SubSeq(s, p + 1, Len(s))
           t == a \o b
<1>0. Len(s) \in Nat /\ p \in Nat /\ 1 <= p /\ p <= Len(s)
  BY LenProperties
<1>1. a \in Seq(S) /\ Len(a) = p - 1 /\ \A i \in 1 .. p - 1 : a[i] = s[i]
  <2>1. \A i \in 1 .. p - 1 : s[i] \in S
    BY <1>0, ElementOfSeq
  <2>2. /\ a \in Seq(S)
        /\ Len(a) = IF 1 <= p - 1 THEN (p - 1) - 1 + 1 ELSE 0
        /\ \A i \in 1 .. (p - 1) - 1 + 1 : a[i] = s[1 + i - 1]
    BY <1>0, <2>1, SubSeqProperties, 1 \in Int, p - 1 \in Int
  <2> HIDE DEF a
  <2> QED
    BY <1>0, <2>2
<1>2. /\ b \in Seq(S) /\ Len(b) = Len(s) - p
      /\ \A i \in 1 .. Len(s) - p : b[i] = s[p + i]
  <2>1. \A i \in p + 1 .. Len(s) : s[i] \in S
    BY <1>0, ElementOfSeq
  <2>2. /\ b \in Seq(S)
        /\ Len(b) = IF p + 1 <= Len(s) THEN Len(s) - (p + 1) + 1 ELSE 0
        /\ \A i \in 1 .. Len(s) - (p + 1) + 1 : b[i] = s[(p + 1) + i - 1]
    BY <1>0, <2>1, SubSeqProperties, p + 1 \in Int, Len(s) \in Int
  <2> HIDE DEF b
  <2> QED
    BY <1>0, <2>2
<1> HIDE DEF a, b
<1>3. /\ t \in Seq(S) /\ Len(t) = Len(s) - 1
      /\ \A i \in 1 .. Len(s) - 1 :
           t[i] = IF i <= p - 1 THEN a[i] ELSE b[i - (p - 1)]
  <2>1. /\ t \in Seq(S) /\ Len(t) = Len(a) + Len(b)
        /\ \A i \in 1 .. Len(a) + Len(b) :
             t[i] = IF i <= Len(a) THEN a[i] ELSE b[i - Len(a)]
    BY <1>1, <1>2, ConcatProperties, Zenon
  <2> HIDE DEF t
  <2>2. Len(a) = p - 1 /\ Len(a) + Len(b) = Len(s) - 1
    BY <1>0, <1>1, <1>2
  <2> QED
    BY <2>1, <2>2
<1>4. RemoveAt(s, p) = t
  BY DEF RemoveAt, t, a, b
<1> HIDE DEF t
<1>5. \A i \in 1 .. p - 1 : t[i] = s[i]
  <2> TAKE i \in 1 .. p - 1
  <2>1. i \in 1 .. Len(s) - 1 /\ i <= p - 1
    BY <1>0
  <2>2. t[i] = a[i]
    BY <1>3, <2>1
  <2> QED
    BY <1>1, <2>2
<1>6. \A i \in p .. Len(s) - 1 : t[i] = s[i + 1]
  <2> TAKE i \in p .. Len(s) - 1
  <2>1. t[i] = b[i - (p - 1)] /\ i - (p - 1) \in 1 .. Len(s) - p
    BY <1>0, <1>3
  <2>2. b[i - (p - 1)] = s[p + (i - (p - 1))]
    BY <2>1, <1>2
  <2>3. p + (i - (p - 1)) = i + 1
    BY <1>0
  <2> QED
    BY <2>1, <2>2, <2>3
<1> QED
  BY <1>3, <1>4, <1>5, <1>6, Zenon

\* FlattenSeq: f[i] is what the first i sequences make.
FlattensTo(f, s, X) ==
  /\ f \in [0 .. Len(s) -> Seq(X)]
  /\ f[0] = << >>
  /\ \A i \in 1 .. Len(s) : f[i] = f[i - 1] \o s[i]
  /\ FlattenSeq(s) = f[Len(s)]

\* FlattenSeq appends the sequences one after the other.
LEMMA FlattensToExists ==
  ASSUME NEW X, NEW s \in Seq(Seq(X))
  PROVE  \E f : FlattensTo(f, s, X)
<1> DEFINE n == Len(s)
           Q == Seq(X)
           g == [i \in 1 .. n |-> [t \in Q |-> t \o s[i]]]
<1>1. n \in Nat
  BY LenProperties
<1>2. << >> \in Q
  OBVIOUS
<1>3. ASSUME NEW i \in 1 .. n, NEW t \in Q
      PROVE  t \o s[i] \in Q
  <2>1. s[i] \in Q
    BY ElementOfSeq
  <2> QED
    BY <2>1, ConcatProperties
<1>4. n > 0 => << >> \o s[1] = s[1]
  <2> SUFFICES ASSUME n > 0 PROVE << >> \o s[1] = s[1]
    OBVIOUS
  <2>1. s[1] \in Q
    BY <1>1, ElementOfSeq
  <2> QED
    BY <2>1, ConcatEmptySeq
<1>5. ASSUME n = 0 PROVE FlattenSeq(s) = << >>
  <2>1. s = << >>
    BY <1>5
  <2> QED
    BY <1>5, <2>1 DEF FlattenSeq
<1>6. ASSUME n # 0,
             NEW e, e = [i \in 1 .. n |-> IF i = 1 THEN s[i] ELSE e[i - 1] \o s[i]]
      PROVE  \E h : /\ h = [i \in 1 .. n |-> IF i = 1 THEN s[i] ELSE h[i - 1] \o s[i]]
                    /\ FlattenSeq(s) = h[n]
  BY <1>6 DEF FlattenSeq
<1> HIDE DEF n, Q
<1>7. Steps(g, n, Q)
  BY <1>3 DEF Steps
<1>8. /\ \A i \in 1 .. n : \A t \in Q : g[i][t] = t \o s[i]
      /\ n > 0 => g[1][<< >>] = s[1]
  BY <1>1, <1>2, <1>4
<1> HIDE DEF g
<1>9. PICK f : Iterates(f, g, n, Q, << >>)
  BY <1>1, <1>2, <1>7, Recursion
<1>10. /\ f \in [0 .. n -> Q]
       /\ \A i \in 0 .. n : f[i] \in Q
       /\ f[0] = << >>
       /\ \A i \in 1 .. n : f[i] = g[i][f[i - 1]]
  BY <1>9 DEF Iterates
<1>11. ASSUME NEW i \in 1 .. n
       PROVE  f[i] = f[i - 1] \o s[i]
  <2>1. f[i - 1] \in Q
    BY <1>1, <1>10
  <2> QED
    BY <1>8, <1>10, <2>1
<1>12. n # 0 => f[1] = s[1]
  BY <1>1, <1>8, <1>10
<1>13. CASE n = 0
  BY <1>5, <1>10, <1>11, <1>13 DEF n, Q, FlattensTo
<1>14. CASE n # 0
  <2> DEFINE e == [i \in 1 .. n |-> f[i]]
  <2>1. ASSUME NEW i \in 1 .. n, i # 1
        PROVE  e[i] = e[i - 1] \o s[i]
    <3>1. i - 1 \in 1 .. n
      BY <1>1, <2>1
    <3>2. e[i] = f[i] /\ e[i - 1] = f[i - 1]
      BY <3>1
    <3> HIDE DEF e
    <3> QED
      BY <1>11, <3>2
  <2>2. n # 0 => e[1] = s[1]
    BY <1>1, <1>12
  <2>3. e = [i \in 1 .. n |-> IF i = 1 THEN s[i] ELSE e[i - 1] \o s[i]]
    BY <1>14, <2>1, <2>2
  <2> HIDE DEF e
  <2>4. PICK h : /\ h = [i \in 1 .. n |-> IF i = 1 THEN s[i] ELSE h[i - 1] \o s[i]]
                 /\ FlattenSeq(s) = h[n]
    BY <1>6, <1>14, <2>3
  <2>5. \A i \in 1 .. n : h[i] = IF i = 1 THEN s[i] ELSE h[i - 1] \o s[i]
    BY <2>4
  <2> DEFINE T == {i \in 0 .. n : i > 0 => h[i] = f[i]}
  <2>6. 0 \in T
    BY <1>1
  <2>7. ASSUME NEW i \in 0 .. n - 1, i \in T
        PROVE  i + 1 \in T
    <3>1. i + 1 \in 1 .. n /\ (i + 1) - 1 = i
      BY <1>1
    <3>2. CASE i = 0
      BY <1>12, <1>14, <2>5, <3>1, <3>2
    <3>3. CASE i # 0
      <4>1. h[i] = f[i]
        BY <2>7, <3>3
      <4>2. h[i + 1] = h[i] \o s[i + 1]
        <5>1. h[i + 1] = IF i + 1 = 1 THEN s[i + 1] ELSE h[(i + 1) - 1] \o s[i + 1]
          BY <2>5, <3>1
        <5>2. i + 1 # 1
          BY <3>3
        <5> QED
          BY <3>1, <5>1, <5>2
      <4>3. f[i + 1] = f[i] \o s[i + 1]
        BY <1>11, <3>1
      <4> QED
        <5>1. h[i + 1] = f[i + 1]
          BY <4>1, <4>2, <4>3
        <5> QED
          BY <1>1, <5>1
    <3> QED
      BY <3>2, <3>3
  <2> HIDE DEF T
  <2>8. \A i \in 0 .. n - 1 : i \in T => i + 1 \in T
    BY <2>7
  <2>9. \A i \in 0 .. n : i \in T
    BY <1>1, <2>6, <2>8, UpTo
  <2>10. h[n] = f[n]
    BY <1>1, <1>14, <2>9 DEF T
  <2> QED
    BY <1>10, <1>11, <2>4, <2>10 DEF n, Q, FlattensTo
<1> QED
  BY <1>13, <1>14

\* A function on 1 .. n is a sequence.
LEMMA IsSequence ==
  ASSUME NEW n \in Nat, NEW S, NEW f, f = [i \in 1 .. n |-> f[i]],
         \A i \in 1 .. n : f[i] \in S
  PROVE  f \in Seq(S) /\ Len(f) = n
<1>1. [i \in 1 .. n |-> f[i]] \in Seq(S) /\ Len([i \in 1 .. n |-> f[i]]) = n
  OBVIOUS
<1> QED
  BY <1>1, Zenon

\* A concatenation, seen from its two parts.
LEMMA Joined ==
  ASSUME NEW S, NEW a \in Seq(S), NEW b \in Seq(S), NEW c, c = a \o b
  PROVE  /\ c \in Seq(S)
         /\ Len(a) \in Nat /\ Len(b) \in Nat /\ Len(c) = Len(a) + Len(b)
         /\ \A k \in 1 .. Len(a) : c[k] = a[k]
         /\ \A k \in 1 .. Len(b) : c[Len(a) + k] = b[k]
<1>1. Len(a) \in Nat /\ Len(b) \in Nat
  BY LenProperties
<1>2. /\ c \in Seq(S) /\ Len(c) = Len(a) + Len(b)
      /\ \A i \in 1 .. Len(a) + Len(b) : c[i] = IF i <= Len(a) THEN a[i] ELSE b[i - Len(a)]
  BY ConcatProperties
<1>3. \A k \in 1 .. Len(a) : c[k] = a[k]
  BY <1>1, <1>2
<1>4. ASSUME NEW k \in 1 .. Len(b) PROVE c[Len(a) + k] = b[k]
  <2>1. Len(a) + k \in 1 .. Len(a) + Len(b) /\ ~ (Len(a) + k <= Len(a)) /\ (Len(a) + k) - Len(a) = k
    BY <1>1
  <2> QED
    BY <1>2, <2>1
<1> QED
  BY <1>1, <1>2, <1>3, <1>4

\* Where its parts are in a flattened sequence.
Flattens(f, s, X) ==
  /\ FlattensTo(f, s, X)
  /\ FlattenSeq(s) \in Seq(X)
  /\ \A i \in 0 .. Len(s) : Len(f[i]) \in Nat /\ Len(f[i]) <= Len(FlattenSeq(s))
  /\ \A i \in 1 .. Len(s) :
       /\ Len(f[i]) = Len(f[i - 1]) + Len(s[i])
       /\ \A k \in 1 .. Len(s[i]) : FlattenSeq(s)[Len(f[i - 1]) + k] = s[i][k]

\* So each of them is found where those before it end.
LEMMA FlattenPrefixes ==
  ASSUME NEW X, NEW s \in Seq(Seq(X))
  PROVE  \E f : Flattens(f, s, X)
<1>0. PICK f : FlattensTo(f, s, X)
  BY FlattensToExists
<1> DEFINE n == Len(s)
           t == FlattenSeq(s)
<1>1. n \in Nat /\ \A i \in 1 .. n : s[i] \in Seq(X)
  BY LenProperties, ElementOfSeq
<1>2. /\ \A i \in 0 .. n : f[i] \in Seq(X)
      /\ \A i \in 1 .. n : f[i] = f[i - 1] \o s[i]
      /\ f[n] = t
  BY <1>0 DEF FlattensTo
<1> HIDE DEF n, t
<1>3. \A i \in 0 .. n : Len(f[i]) \in Nat
  BY <1>2, LenProperties
<1>4. ASSUME NEW i \in 1 .. n
      PROVE  /\ Len(f[i - 1]) \in Nat /\ Len(s[i]) \in Nat
             /\ Len(f[i]) = Len(f[i - 1]) + Len(s[i])
             /\ \A k \in 1 .. Len(f[i - 1]) : f[i][k] = f[i - 1][k]
             /\ \A k \in 1 .. Len(s[i]) : f[i][Len(f[i - 1]) + k] = s[i][k]
  <2>1. i - 1 \in 0 .. n /\ i \in 0 .. n
    BY <1>1
  <2> DEFINE a == f[i - 1]
             b == s[i]
             c == f[i]
  <2>2. a \in Seq(X) /\ b \in Seq(X) /\ c = a \o b
    BY <1>1, <1>2, <2>1
  <2> HIDE DEF a, b, c
  <2>3. /\ Len(a) \in Nat /\ Len(b) \in Nat /\ Len(c) = Len(a) + Len(b)
        /\ \A k \in 1 .. Len(a) : c[k] = a[k]
        /\ \A k \in 1 .. Len(b) : c[Len(a) + k] = b[k]
    BY <2>2, Joined
  <2> QED
    BY <2>3 DEF a, b, c
<1> DEFINE Before(a) == Len(a) <= Len(t) /\ \A k \in 1 .. Len(a) : t[k] = a[k]
<1>5. ASSUME NEW i \in 1 .. n, Before(f[i])
      PROVE  Before(f[i - 1])
  <2> DEFINE a == f[i - 1]
             c == f[i]
             l == Len(s[i])
  <2>1. /\ Len(a) \in Nat /\ l \in Nat /\ Len(c) = Len(a) + l
        /\ \A k \in 1 .. Len(a) : c[k] = a[k]
    BY <1>4
  <2>2. Len(t) \in Nat
    BY <1>1, <1>2, <1>3
  <2>3. Len(c) <= Len(t) /\ \A k \in 1 .. Len(c) : t[k] = c[k]
    BY <1>5
  <2> HIDE DEF a, c, l
  <2>4. Len(a) <= Len(t) /\ \A k \in 1 .. Len(a) : t[k] = a[k]
    BY <2>1, <2>2, <2>3
  <2> QED
    BY <2>4 DEF a
<1>6. Before(f[n])
  BY <1>1, <1>2, <1>3
<1> HIDE DEF Before
<1> DEFINE T == {j \in 0 .. n : Before(f[n - j])}
<1>7. 0 \in T
  BY <1>1, <1>6
<1>8. ASSUME NEW j \in 0 .. n - 1, j \in T PROVE j + 1 \in T
  <2>1. n - j \in 1 .. n /\ (n - j) - 1 = n - (j + 1) /\ j + 1 \in 0 .. n
    BY <1>1
  <2>2. Before(f[n - j])
    BY <1>8
  <2>3. Before(f[(n - j) - 1])
    BY <1>5, <2>1, <2>2
  <2> QED
    BY <2>1, <2>3
<1> HIDE DEF T
<1>9. \A j \in 0 .. n : j \in T
  <2>1. \A j \in 0 .. n - 1 : j \in T => j + 1 \in T
    BY <1>8
  <2> QED
    BY <1>1, <1>7, <2>1, UpTo
<1>10. ASSUME NEW i \in 0 .. n PROVE Before(f[i])
  <2>1. n - i \in 0 .. n /\ n - (n - i) = i
    BY <1>1
  <2>2. n - i \in T
    BY <1>9, <2>1
  <2> QED
    BY <2>1, <2>2 DEF T
<1>11. ASSUME NEW i \in 1 .. n, NEW k \in 1 .. Len(s[i])
       PROVE  t[Len(f[i - 1]) + k] = s[i][k]
  <2> DEFINE a == f[i - 1]
             c == f[i]
             b == s[i]
  <2>1. /\ Len(a) \in Nat /\ Len(b) \in Nat /\ Len(c) = Len(a) + Len(b)
        /\ \A m \in 1 .. Len(b) : c[Len(a) + m] = b[m]
    BY <1>4
  <2>2. \A m \in 1 .. Len(c) : t[m] = c[m]
    BY <1>1, <1>10 DEF Before
  <2>3. k \in 1 .. Len(b)
    OBVIOUS
  <2> HIDE DEF a, b, c
  <2>4. Len(a) + k \in 1 .. Len(c)
    BY <2>1, <2>3
  <2> QED
    BY <2>1, <2>2, <2>3, <2>4 DEF a, b
<1>12. t \in Seq(X)
  BY <1>1, <1>2
<1>13. Flattens(f, s, X)
  BY <1>0, <1>3, <1>4, <1>10, <1>11, <1>12 DEF n, t, Before, Flattens
<1> QED
  BY <1>13

\* A prefix, extended by the next element.
LEMMA AppendToPrefix ==
  ASSUME NEW S, NEW w \in Seq(S), NEW i \in 0 .. Len(w) - 1
  PROVE  Append([j \in 1 .. i |-> w[j]], w[i + 1]) = [j \in 1 .. i + 1 |-> w[j]]
<1> DEFINE a == [j \in 1 .. i |-> w[j]]
           b == [j \in 1 .. i + 1 |-> w[j]]
<1>1. Len(w) \in Nat /\ i + 1 \in 1 .. Len(w) /\ \A j \in 1 .. Len(w) : w[j] \in S
  BY LenProperties, ElementOfSeq
<1>2. \A j \in 1 .. i + 1 : j \in 1 .. Len(w)
  BY <1>1
<1>3. /\ a \in Seq(S) /\ Len(a) = i
      /\ b \in Seq(S) /\ Len(b) = i + 1
  BY <1>1, <1>2
<1>4. /\ \A j \in 1 .. i : a[j] = w[j]
      /\ \A j \in 1 .. i + 1 : b[j] = w[j]
  OBVIOUS
<1> HIDE DEF a, b
<1> DEFINE c == Append(a, w[i + 1])
<1>5. /\ c \in Seq(S) /\ Len(c) = i + 1
      /\ \A j \in 1 .. i : c[j] = a[j]
      /\ c[i + 1] = w[i + 1]
  BY <1>1, <1>3, AppendProperties
<1> HIDE DEF c
<1>6. \A j \in 1 .. i + 1 : c[j] = b[j]
  BY <1>1, <1>4, <1>5
<1> QED
  BY <1>3, <1>5, <1>6, SeqEqual DEF a, b, c

\* Position m of a flattened sequence is position k of part p, the first that
\* reaches as far.
At(f, s, m, p, k) ==
  /\ p \in 1 .. Len(s) /\ k \in 1 .. Len(s[p])
  /\ m = Len(f[p - 1]) + k
  /\ \A q \in 0 .. Len(s) : m <= Len(f[q]) => p <= q

\* Each position has such a part.
LEMMA FlattenedAt ==
  ASSUME NEW X, NEW s \in Seq(Seq(X)), NEW f, Flattens(f, s, X),
         NEW m \in 1 .. Len(FlattenSeq(s))
  PROVE  \E p, k : At(f, s, m, p, k)
<1> DEFINE n == Len(s)
           C == {q \in 0 .. n : m <= Len(f[q])}
<1>1. n \in Nat /\ m \in Nat /\ m > 0
  <2>1. FlattenSeq(s) \in Seq(X)
    BY DEF Flattens
  <2> QED
    BY <2>1, LenProperties
<1>2. /\ \A i \in 0 .. n : Len(f[i]) \in Nat
      /\ \A i \in 1 .. n : Len(f[i]) = Len(f[i - 1]) + Len(s[i])
      /\ f[0] = << >> /\ FlattenSeq(s) = f[n]
  BY DEF Flattens, FlattensTo
<1>3. n \in C /\ C \in SUBSET Nat
  BY <1>1, <1>2
<1>4. PICK p \in C : \A q \in C : p <= q
  BY <1>3, LeastElement
<1>5. p \in 0 .. n /\ m <= Len(f[p]) /\ \A q \in 0 .. n : m <= Len(f[q]) => p <= q
  BY <1>4
<1>6. p # 0
  BY <1>1, <1>2, <1>5
<1>7. p \in 1 .. n /\ p - 1 \in 0 .. n /\ ~ (p <= p - 1)
  BY <1>1, <1>5, <1>6
<1>8. ~ (m <= Len(f[p - 1]))
  BY <1>5, <1>7
<1> DEFINE a == Len(f[p - 1])
           k == m - a
<1>9. a \in Nat /\ a < m /\ m <= a + Len(s[p])
  <2>1. a \in Nat /\ ~ (m <= a)
    BY <1>2, <1>7, <1>8
  <2>2. Len(f[p]) = a + Len(s[p])
    BY <1>2, <1>7
  <2>3. m <= a + Len(s[p])
    BY <1>5, <2>2
  <2> HIDE DEF a
  <2> QED
    BY <1>1, <2>1, <2>3
<1>10. Len(s[p]) \in Nat
  BY <1>7, ElementOfSeq, LenProperties
<1>11. k \in 1 .. Len(s[p]) /\ m = a + k
  <2> HIDE DEF a
  <2> QED
    BY <1>1, <1>9, <1>10
<1>12. At(f, s, m, p, k)
  BY <1>5, <1>7, <1>11 DEF At
<1> QED
  BY <1>12

\* Where that is grows with the position.
LEMMA FlattenedOrder ==
  ASSUME NEW X, NEW s \in Seq(Seq(X)), NEW f, Flattens(f, s, X),
         NEW m \in Nat, NEW l \in Nat, m < l,
         NEW p, NEW k, At(f, s, m, p, k), NEW q, NEW j, At(f, s, l, q, j)
  PROVE  p < q \/ (p = q /\ k < j)
<1>1. Len(s) \in Nat /\ \A i \in 1 .. Len(s) : Len(s[i]) \in Nat
  BY LenProperties, ElementOfSeq
<1>2. /\ \A i \in 0 .. Len(s) : Len(f[i]) \in Nat
      /\ \A i \in 1 .. Len(s) : Len(f[i]) = Len(f[i - 1]) + Len(s[i])
  BY DEF Flattens
<1>3. /\ p \in 1 .. Len(s) /\ k \in 1 .. Len(s[p]) /\ m = Len(f[p - 1]) + k
      /\ \A i \in 0 .. Len(s) : m <= Len(f[i]) => p <= i
      /\ q \in 1 .. Len(s) /\ j \in 1 .. Len(s[q]) /\ l = Len(f[q - 1]) + j
  BY DEF At
<1>4. q \in 0 .. Len(s) /\ q - 1 \in 0 .. Len(s) /\ Len(f[q]) \in Nat /\ Len(f[q - 1]) \in Nat
  <2>1. q \in 0 .. Len(s) /\ q - 1 \in 0 .. Len(s)
    BY <1>1, <1>3
  <2> QED
    BY <1>2, <2>1
<1>5. l <= Len(f[q])
  <2> DEFINE a == Len(f[q - 1])
             b == Len(s[q])
             c == Len(f[q])
  <2>1. b \in Nat /\ j \in 1 .. b
    BY <1>1, <1>3
  <2>2. c = a + b
    BY <1>2, <1>3
  <2>3. a \in Nat /\ l = a + j
    BY <1>3, <1>4
  <2> HIDE DEF a, b, c
  <2>4. l <= c
    BY <2>1, <2>2, <2>3
  <2> QED
    BY <2>4 DEF c
<1>6. p <= q
  <2>1. m <= Len(f[q])
    <3> DEFINE c == Len(f[q])
    <3>1. c \in Nat /\ l <= c
      BY <1>4, <1>5
    <3> HIDE DEF c
    <3>2. m <= c
      BY <3>1
    <3> QED
      BY <3>2 DEF c
  <2> QED
    BY <1>3, <1>4, <2>1
<1>7. p = q => k < j
  BY <1>1, <1>3, <1>4
<1> QED
  BY <1>1, <1>3, <1>6, <1>7

\* The set C of positions has no gap.
Convex(C, n) ==
  \A i \in C : \A j \in C : \A m \in 1 .. n : i <= m /\ m <= j => m \in C

\* The positions of C are those from lo + 1 to hi.
IsSegment(C, n, lo, hi) ==
  /\ lo \in Nat /\ hi \in Nat /\ lo <= hi /\ hi <= n
  /\ \A i \in 1 .. n : i \in C <=> lo < i /\ i <= hi

\* A convex set of positions is given by its ends.
LEMMA ConvexSegment ==
  ASSUME NEW n \in Nat, NEW C \in SUBSET (1 .. n), Convex(C, n)
  PROVE  \E lo, hi : IsSegment(C, n, lo, hi)
<1>1. CASE C = {}
  <2>1. IsSegment(C, n, 0, 0)
    BY <1>1 DEF IsSegment
  <2> QED
    BY <2>1
<1>2. CASE C # {}
  <2>1. PICK a \in C : \A i \in C : a <= i
    BY <1>2, LeastElement
  <2> DEFINE D == {d \in 0 .. n : n - d \in C}
  <2>2. n - a \in D
    <3>1. a \in 1 .. n /\ n - (n - a) = a /\ n - a \in 0 .. n
      BY <2>1
    <3> QED
      BY <2>1, <3>1
  <2>3. PICK d \in D : \A i \in D : d <= i
    <3>1. D \in SUBSET Nat
      OBVIOUS
    <3>2. D # {}
      <4> HIDE DEF D
      <4> QED
        BY <2>2
    <3> HIDE DEF D
    <3> QED
      BY <3>1, <3>2, LeastElement
  <2> DEFINE b == n - d
  <2>4. b \in C /\ \A i \in C : i <= b
    <3>1. b \in C
      BY <2>3
    <3>2. ASSUME NEW i \in C PROVE i <= b
      <4>1. n - i \in D
        BY <3>2
      <4>2. d <= n - i
        BY <2>3, <4>1
      <4> QED
        BY <2>3, <4>2
    <3> QED
      BY <3>1, <3>2
  <2> HIDE DEF b, D
  <2> DEFINE lo == a - 1
  <2>5. lo \in Nat /\ b \in Nat /\ lo <= b /\ b <= n
    BY <2>1, <2>4
  <2>6. ASSUME NEW i \in 1 .. n PROVE i \in C <=> lo < i /\ i <= b
    <3>1. a \in 1 .. n /\ b \in 1 .. n
      BY <2>1, <2>4
    <3>2. i \in C => a <= i /\ i <= b
      BY <2>1, <2>4
    <3>3. a <= i /\ i <= b => i \in C
      BY <2>1, <2>4 DEF Convex
    <3>4. lo < i <=> a <= i
      BY <3>1
    <3> QED
      BY <3>2, <3>3, <3>4
  <2> HIDE DEF lo
  <2>7. IsSegment(C, n, lo, b)
    BY <2>5, <2>6 DEF IsSegment
  <2> QED
    BY <2>7
<1> QED
  BY <1>1, <1>2

-----------------------------------------------------------------------------
\* Induction, over a set of numbers.
LEMMA NatInduct ==
  ASSUME NEW T, 0 \in T, \A h \in Nat : h \in T => h + 1 \in T
  PROVE  \A h \in Nat : h \in T
<1> TAKE n \in Nat
<1>1. \A i \in 0 .. n : i \in T
  BY UpTo
<1> QED
  BY <1>1

\* The first of the positions I up to n, or one past the end.
FirstIn(I, n) ==
  LET i == IF I # {} THEN Min(I) ELSE 0 IN IF i = 0 THEN n + 1 ELSE i

\* What makes p that position.
IsFirstIn(p, I, n) ==
  /\ p \in 1 .. n + 1
  /\ p <= n => p \in I
  /\ \A i \in 1 .. p - 1 : i \notin I

\* FirstIn is such a position.
LEMMA FirstPassing ==
  ASSUME NEW n \in Nat, NEW I \in SUBSET (1 .. n)
  PROVE  IsFirstIn(FirstIn(I, n), I, n)
<1>1. CASE I = {}
  BY <1>1 DEF FirstIn, IsFirstIn
<1>2. CASE I # {}
  <2>1. Min(I) \in I /\ \A i \in I : Min(I) <= i
    BY <1>2, MinProperties, I \in SUBSET Nat
  <2> DEFINE m == Min(I)
  <2>2. m \in 1 .. n /\ m \in I /\ \A i \in I : m <= i
    BY <2>1
  <2>3. FirstIn(I, n) = IF m = 0 THEN n + 1 ELSE m
    BY <1>2 DEF FirstIn
  <2> HIDE DEF m
  <2>4. FirstIn(I, n) = m
    BY <2>2, <2>3
  <2> QED
    BY <2>2, <2>4 DEF IsFirstIn
<1> QED
  BY <1>1, <1>2

\* t has the elements m .. n of s, d positions further on.
MovedBy(s, t, m, n, d) == \A i \in m .. n : s[i] = t[i + d]

\* Two stretches with the same elements are equal.
LEMMA SubSeqSame ==
  ASSUME NEW S, NEW s \in Seq(S), NEW t \in Seq(S), NEW m \in Int, NEW n \in Int,
         NEW d \in Int, 1 <= m, n <= Len(s), 1 <= m + d, n + d <= Len(t),
         MovedBy(s, t, m, n, d)
  PROVE  SubSeq(s, m, n) = SubSeq(t, m + d, n + d)
<1> DEFINE k == m + d
           l == n + d
           a == SubSeq(s, m, n)
           b == SubSeq(t, k, l)
<1>0. k \in Int /\ l \in Int /\ l - k = n - m /\ (k <= l <=> m <= n)
  OBVIOUS
<1>1. /\ a \in Seq(S) /\ Len(a) = (IF m <= n THEN n - m + 1 ELSE 0)
      /\ \A i \in 1 .. n - m + 1 : a[i] = s[m + i - 1]
  <2>1. \A i \in m .. n : s[i] \in S
    BY ElementOfSeq
  <2> QED
    BY <2>1, SubSeqProperties
<1>2. /\ b \in Seq(S) /\ Len(b) = (IF k <= l THEN l - k + 1 ELSE 0)
      /\ \A i \in 1 .. l - k + 1 : b[i] = t[k + i - 1]
  <2>1. \A i \in k .. l : t[i] \in S
    BY ElementOfSeq
  <2> QED
    BY <1>0, <2>1, SubSeqProperties
<1>3. \A i \in 1 .. n - m + 1 : s[m + i - 1] = t[k + i - 1]
  <2> TAKE i \in 1 .. n - m + 1
  <2>1. m + i - 1 \in m .. n /\ (m + i - 1) + d = k + i - 1
    OBVIOUS
  <2> QED
    BY <2>1 DEF MovedBy
<1> HIDE DEF a, b, k, l
<1>4. Len(a) = Len(b) /\ \A i \in 1 .. Len(a) : a[i] = b[i]
  <2>1. CASE m <= n
    <3>1. Len(a) = n - m + 1 /\ Len(b) = n - m + 1
      BY <1>0, <1>1, <1>2, <2>1
    <3> QED
      BY <1>0, <1>1, <1>2, <1>3, <3>1
  <2>2. CASE ~ m <= n
    BY <1>0, <1>1, <1>2, <2>2
  <2> QED
    BY <2>1, <2>2
<1>5. a = b
  BY <1>1, <1>2, <1>4, SeqEqual
<1> QED
  BY <1>5 DEF a, b, k, l

\* Stretches at the same place, ...
LEMMA SameStretch ==
  ASSUME NEW Q, NEW s \in Seq(Q), NEW t \in Seq(Q), NEW m \in Int, NEW n \in Int,
         1 <= m, n <= Len(s), n <= Len(t), \A i \in m .. n : s[i] = t[i]
  PROVE  SubSeq(s, m, n) = SubSeq(t, m, n)
<1>1. MovedBy(s, t, m, n, 0)
  <2>1. \A i \in m .. n : i + 0 = i
    OBVIOUS
  <2> QED
    BY <2>1 DEF MovedBy
<1>2. 0 \in Int /\ m + 0 = m /\ n + 0 = n
  OBVIOUS
<1>3. SubSeq(s, m, n) = SubSeq(t, m + 0, n + 0)
  <2>1. 1 <= m + 0 /\ n + 0 <= Len(t)
    BY <1>2
  <2> QED
    BY <1>1, <1>2, <2>1, SubSeqSame
<1> QED
  BY <1>2, <1>3

\* ... and one place further on.
LEMMA NextStretch ==
  ASSUME NEW Q, NEW s \in Seq(Q), NEW t \in Seq(Q), NEW m \in Int, NEW n \in Int,
         1 <= m, n <= Len(s), n + 1 <= Len(t), \A i \in m .. n : s[i] = t[i + 1]
  PROVE  SubSeq(s, m, n) = SubSeq(t, m + 1, n + 1)
<1>1. MovedBy(s, t, m, n, 1)
  BY DEF MovedBy
<1>2. 1 \in Int /\ 1 <= m + 1
  OBVIOUS
<1> QED
  BY <1>1, <1>2, SubSeqSame

\* FlattenSeq, one sequence more.
LEMMA FlattenMore ==
  ASSUME NEW X, NEW s \in Seq(Seq(X)), NEW t \in Seq(X)
  PROVE  FlattenSeq(Append(s, t)) = FlattenSeq(s) \o t
<1> DEFINE n == Len(s)
           u == Append(s, t)
<1>1. n \in Nat /\ u \in Seq(Seq(X)) /\ Len(u) = n + 1 /\ u[n + 1] = t
      /\ \A i \in 1 .. n : u[i] = s[i]
  OBVIOUS
<1>2. PICK f : FlattensTo(f, s, X)
  BY FlattensToExists
<1> HIDE DEF u
<1>3. PICK g : FlattensTo(g, u, X)
  BY <1>1, FlattensToExists
<1> DEFINE T == {i \in 0 .. n : f[i] = g[i]}
<1>4. 0 \in T
  BY <1>1, <1>2, <1>3 DEF FlattensTo
<1>5. ASSUME NEW i \in 0 .. n - 1, i \in T
      PROVE  i + 1 \in T
  <2>1. i + 1 \in 1 .. n /\ i + 1 \in 1 .. n + 1 /\ (i + 1) - 1 = i
    BY <1>1
  <2>2. f[i + 1] = f[i] \o s[i + 1] /\ g[i + 1] = g[i] \o u[i + 1]
    BY <1>1, <1>2, <1>3, <2>1 DEF FlattensTo
  <2>3. f[i] = g[i] /\ u[i + 1] = s[i + 1]
    BY <1>1, <1>5, <2>1
  <2>4. f[i + 1] = g[i + 1] /\ i + 1 \in 0 .. n
    BY <1>1, <2>1, <2>2, <2>3
  <2> QED
    BY <2>4
<1> HIDE DEF T, n
<1>6. n \in T
  <2>1. \A i \in 0 .. n : i \in T
    BY <1>1, <1>4, <1>5, UpTo
  <2> QED
    BY <2>1, <1>1
<1>7. f[n] = g[n]
  BY <1>6 DEF T
<1>8. g[n + 1] = g[n] \o u[n + 1]
  <2>1. n + 1 \in 1 .. Len(u) /\ (n + 1) - 1 = n
    BY <1>1
  <2> QED
    BY <1>3, <2>1 DEF FlattensTo
<1>9. FlattenSeq(s) = f[n] /\ FlattenSeq(u) = g[n + 1]
  BY <1>1, <1>2, <1>3 DEF FlattensTo, n
<1> QED
  BY <1>1, <1>7, <1>8, <1>9 DEF u

\* FlattenSeq of a sequence in two parts.
LEMMA FlattenCut ==
  ASSUME NEW X, NEW s \in Seq(Seq(X)), NEW m \in 0 .. Len(s)
  PROVE  /\ FlattenSeq(SubSeq(s, 1, m)) \in Seq(X)
         /\ FlattenSeq(SubSeq(s, m + 1, Len(s))) \in Seq(X)
         /\ FlattenSeq(s) = FlattenSeq(SubSeq(s, 1, m)) \o
                              FlattenSeq(SubSeq(s, m + 1, Len(s)))
<1> DEFINE n == Len(s)
           a == FlattenSeq(SubSeq(s, 1, m))
           T == {i \in 0 .. n - m :
                   /\ FlattenSeq(SubSeq(s, m + 1, m + i)) \in Seq(X)
                   /\ FlattenSeq(SubSeq(s, 1, m + i)) =
                        a \o FlattenSeq(SubSeq(s, m + 1, m + i))}
<1>1. n \in Nat /\ m \in Nat /\ n - m \in Nat
  OBVIOUS
<1>2. \A i \in 0 .. n : SubSeq(s, 1, i) \in Seq(Seq(X))
  OBVIOUS
<1>0. ASSUME NEW w \in Seq(Seq(X))
      PROVE  FlattenSeq(w) \in Seq(X)
  <2>1. PICK f : FlattensTo(f, w, X)
    BY FlattensToExists
  <2> QED
    BY <2>1 DEF FlattensTo
<1>3. a \in Seq(X)
  BY <1>2, <1>0
<1> HIDE DEF a
<1>4. 0 \in T
  <2>1. SubSeq(s, m + 1, m + 0) = << >> /\ m + 0 = m
    BY <1>1
  <2>2. FlattenSeq(<< >>) = << >>
    BY DEF FlattenSeq
  <2>3. a \o << >> = a
    BY <1>3
  <2>4. << >> \in Seq(X) /\ FlattenSeq(SubSeq(s, 1, m + 0)) = a
    BY <2>1 DEF a
  <2>5. FlattenSeq(SubSeq(s, m + 1, m + 0)) = << >>
    BY <2>1, <2>2
  <2>6. FlattenSeq(SubSeq(s, 1, m + 0)) = a \o FlattenSeq(SubSeq(s, m + 1, m + 0))
    BY <2>3, <2>4, <2>5
  <2>7. FlattenSeq(SubSeq(s, m + 1, m + 0)) \in Seq(X)
    BY ONLY <2>4, <2>5
  <2>8. 0 \in 0 .. n - m
    BY <1>1
  <2> QED
    BY <2>6, <2>7, <2>8
<1>5. ASSUME NEW i \in 0 .. (n - m) - 1, i \in T
      PROVE  i + 1 \in T
  <2> DEFINE b == SubSeq(s, m + 1, m + i)
             c == SubSeq(s, 1, m + i)
             e == s[m + i + 1]
  <2>1. e \in Seq(X) /\ b \in Seq(Seq(X)) /\ c \in Seq(Seq(X))
    BY <1>1
  <2>2. SubSeq(s, m + 1, m + (i + 1)) = Append(b, e)
    <3>1. SubSeq(s, m + 1, m + (i + 1)) \in Seq(Seq(X)) /\ Append(b, e) \in Seq(Seq(X))
      BY <1>1, <2>1
    <3>2. Len(SubSeq(s, m + 1, m + (i + 1))) = i + 1 /\ Len(Append(b, e)) = i + 1
      BY <1>1
    <3>3. \A j \in 1 .. i + 1 : SubSeq(s, m + 1, m + (i + 1))[j] = Append(b, e)[j]
      BY <1>1
    <3> QED
      BY <3>1, <3>2, <3>3, SeqEqual
  <2>3. SubSeq(s, 1, m + (i + 1)) = Append(c, e)
    <3>1. SubSeq(s, 1, m + (i + 1)) \in Seq(Seq(X)) /\ Append(c, e) \in Seq(Seq(X))
      BY <1>1, <2>1
    <3>2. Len(SubSeq(s, 1, m + (i + 1))) = m + i + 1 /\ Len(Append(c, e)) = m + i + 1
      BY <1>1
    <3>3. \A j \in 1 .. m + i + 1 : SubSeq(s, 1, m + (i + 1))[j] = Append(c, e)[j]
      BY <1>1
    <3> QED
      BY <3>1, <3>2, <3>3, SeqEqual
  <2> HIDE DEF b, c, e
  <2>4. FlattenSeq(Append(b, e)) = FlattenSeq(b) \o e
    BY <2>1, FlattenMore
  <2>5. FlattenSeq(Append(c, e)) = FlattenSeq(c) \o e
    BY <2>1, FlattenMore
  <2>6. FlattenSeq(b) \in Seq(X) /\ FlattenSeq(c) = a \o FlattenSeq(b)
    BY <1>5 DEF b, c
  <2>7. (a \o FlattenSeq(b)) \o e = a \o (FlattenSeq(b) \o e)
    <3>1. a \in Seq(X) /\ FlattenSeq(b) \in Seq(X) /\ e \in Seq(X)
      BY <1>3, <2>1, <2>6
    <3> QED
      BY ONLY <3>1, ConcatAssociative
  <2>8. FlattenSeq(b) \o e \in Seq(X)
    BY <2>1, <2>6
  <2>9. i + 1 \in 0 .. n - m
    BY <1>1
  <2> QED
    BY <2>2, <2>3, <2>4, <2>5, <2>6, <2>7, <2>8, <2>9
<1> HIDE DEF T
<1> DEFINE d == n - m
<1>6. d \in T
  <2>1. d \in Nat /\ \A i \in 0 .. d - 1 : i \in T => i + 1 \in T
    BY <1>1, <1>5
  <2> HIDE DEF d
  <2>2. \A i \in 0 .. d : i \in T
    BY <1>4, <2>1, UpTo
  <2> QED
    BY <2>1, <2>2
<1>7. m + (n - m) = n /\ SubSeq(s, 1, n) = s
  BY <1>1
<1> QED
  BY <1>3, <1>6, <1>7 DEF T, a

\* FlattenSeq gives a sequence.
LEMMA FlattenIsSeq ==
  ASSUME NEW X, NEW s \in Seq(Seq(X))
  PROVE  FlattenSeq(s) \in Seq(X)
<1>1. PICK f : FlattensTo(f, s, X)
  BY FlattensToExists
<1> QED
  BY <1>1 DEF FlattensTo

\* FlattenSeq of the first p sequences.
LEMMA FlattenPrefix ==
  ASSUME NEW X, NEW s \in Seq(Seq(X)), NEW p \in 1 .. Len(s)
  PROVE  FlattenSeq(SubSeq(s, 1, p)) = FlattenSeq(SubSeq(s, 1, p - 1)) \o s[p]
<1> DEFINE a == SubSeq(s, 1, p - 1)
<1>1. a \in Seq(Seq(X)) /\ s[p] \in Seq(X) /\ Len(a) = p - 1
      /\ \A i \in 1 .. p - 1 : a[i] = s[i]
  OBVIOUS
<1>2. SubSeq(s, 1, p) \in Seq(Seq(X)) /\ Len(SubSeq(s, 1, p)) = p
      /\ \A i \in 1 .. p : SubSeq(s, 1, p)[i] = s[i]
  OBVIOUS
<1> HIDE DEF a
<1> DEFINE b == Append(a, s[p])
<1>3. /\ b \in Seq(Seq(X)) /\ Len(b) = p
      /\ \A i \in 1 .. p : b[i] = s[i]
  BY <1>1
<1>4. SubSeq(s, 1, p) = b
  <2> DEFINE c == SubSeq(s, 1, p)
  <2>1. c \in Seq(Seq(X)) /\ Len(c) = Len(b) /\ \A i \in 1 .. Len(c) : c[i] = b[i]
    BY <1>2, <1>3
  <2> HIDE DEF b, c
  <2>2. c = b
    BY <1>3, <2>1, SeqEqual
  <2> QED
    BY <2>2 DEF c
<1>5. FlattenSeq(b) = FlattenSeq(a) \o s[p]
  BY <1>1, FlattenMore
<1> QED
  BY <1>4, <1>5 DEF a

\* What comes of the parts before, and after, part p.
PartsBefore(s, p) == FlattenSeq(SubSeq(s, 1, p - 1))
PartsAfter(s, p) == FlattenSeq(SubSeq(s, p + 1, Len(s)))

\* A flattened sequence, around one of its parts.
LEMMA FlattenAround ==
  ASSUME NEW X, NEW s \in Seq(Seq(X)), NEW p \in 1 .. Len(s)
  PROVE  /\ PartsBefore(s, p) \in Seq(X) /\ PartsAfter(s, p) \in Seq(X)
         /\ FlattenSeq(s) = (PartsBefore(s, p) \o s[p]) \o PartsAfter(s, p)
<1>1. SubSeq(s, 1, p - 1) \in Seq(Seq(X)) /\ p \in 0 .. Len(s)
  OBVIOUS
<1>2. FlattenSeq(SubSeq(s, 1, p - 1)) \in Seq(X)
  BY <1>1, FlattenIsSeq
<1>3. /\ FlattenSeq(SubSeq(s, p + 1, Len(s))) \in Seq(X)
      /\ FlattenSeq(s) = FlattenSeq(SubSeq(s, 1, p)) \o
                            FlattenSeq(SubSeq(s, p + 1, Len(s)))
  BY <1>1, FlattenCut
<1> QED
  BY <1>2, <1>3, FlattenPrefix DEF PartsBefore, PartsAfter

\* t is s with part p replaced.
Patches(t, s, p) ==
  /\ Len(t) = Len(s)
  /\ \A i \in 1 .. Len(s) : i # p => t[i] = s[i]

\* t is s with part p replaced by two.
Doubles(t, s, p) ==
  /\ Len(t) = Len(s) + 1
  /\ \A i \in 1 .. p - 1 : t[i] = s[i]
  /\ \A i \in p + 1 .. Len(s) : s[i] = t[i + 1]

\* The two ways to concatenate three sequences agree.
Grouped(a, b, c) == (a \o b) \o c = a \o (b \o c)

\* Concatenation is associative.
LEMMA Regroup ==
  ASSUME NEW X, NEW a \in Seq(X), NEW b \in Seq(X), NEW c \in Seq(X)
  PROVE  Grouped(a, b, c)
  BY ONLY a \in Seq(X), b \in Seq(X), c \in Seq(X), ConcatAssociative DEF Grouped

\* A part is replaced in the flattened sequence.
LEMMA FlattenPatched ==
  ASSUME NEW X, NEW s \in Seq(Seq(X)), NEW t \in Seq(Seq(X)), NEW p \in 1 .. Len(s),
         Patches(t, s, p)
  PROVE  FlattenSeq(t) = (PartsBefore(s, p) \o t[p]) \o PartsAfter(s, p)
<1> DEFINE Q == Seq(X)
<1>0. s \in Seq(Q) /\ t \in Seq(Q)
  OBVIOUS
<1>1. Len(t) = Len(s) /\ Len(s) \in Nat /\ p \in 1 .. Len(t)
      /\ \A i \in 1 .. Len(s) : i # p => t[i] = s[i]
  <2>1. Len(t) = Len(s) /\ \A i \in 1 .. Len(s) : i # p => t[i] = s[i]
    BY ONLY Patches(t, s, p) DEF Patches
  <2>2. Len(s) \in Nat
    OBVIOUS
  <2> QED
    BY <2>1, <2>2
<1>4. FlattenSeq(t) = (PartsBefore(t, p) \o t[p]) \o PartsAfter(t, p)
  BY <1>1, FlattenAround
<1> HIDE DEF Q
<1>2. SubSeq(t, 1, p - 1) = SubSeq(s, 1, p - 1)
  <2>1. p - 1 \in Int /\ p - 1 <= Len(t) /\ p - 1 <= Len(s)
    BY <1>1
  <2>2. \A i \in 1 .. p - 1 : t[i] = s[i]
    BY <1>1
  <2> QED
    BY <1>0, <2>1, <2>2, SameStretch
<1>3. SubSeq(t, p + 1, Len(t)) = SubSeq(s, p + 1, Len(s))
  <2>1. p + 1 \in Int /\ 1 <= p + 1 /\ Len(t) \in Int /\ Len(t) <= Len(s)
    BY <1>1
  <2>2. \A i \in p + 1 .. Len(t) : t[i] = s[i]
    BY <1>1
  <2>3. SubSeq(t, p + 1, Len(t)) = SubSeq(s, p + 1, Len(t))
    BY <1>0, <2>1, <2>2, SameStretch
  <2> QED
    BY <1>1, <2>3
<1> QED
  BY <1>2, <1>3, <1>4 DEF PartsBefore, PartsAfter

\* A part is replaced by two.
LEMMA FlattenDoubled ==
  ASSUME NEW X, NEW s \in Seq(Seq(X)), NEW t \in Seq(Seq(X)), NEW p \in 1 .. Len(s),
         Doubles(t, s, p)
  PROVE  FlattenSeq(t) = (PartsBefore(s, p) \o (t[p] \o t[p + 1])) \o PartsAfter(s, p)
<1> DEFINE Q == Seq(X)
           q == p + 1
<1>0. s \in Seq(Q) /\ t \in Seq(Q)
  OBVIOUS
<1>1. Len(t) = Len(s) + 1 /\ Len(s) \in Nat /\ p \in 1 .. Len(t) /\ q \in 1 .. Len(t)
      /\ q - 1 = p
      /\ \A i \in 1 .. p - 1 : t[i] = s[i]
  BY DEF Doubles
<1>a. \A i \in q .. Len(s) : s[i] = t[i + 1]
  BY DEF Doubles
<1>4. FlattenSeq(t) = (PartsBefore(t, q) \o t[q]) \o PartsAfter(t, q)
  BY <1>1, FlattenAround
<1>5. PartsBefore(t, q) = PartsBefore(t, p) \o t[p]
  <2>1. FlattenSeq(SubSeq(t, 1, p)) = FlattenSeq(SubSeq(t, 1, p - 1)) \o t[p]
    BY <1>1, FlattenPrefix
  <2> QED
    BY <1>1, <2>1 DEF PartsBefore
<1>7. PartsBefore(s, p) \in Seq(X)
  BY FlattenAround
<1>8. t[p] \in Seq(X) /\ t[q] \in Seq(X)
  BY <1>1, ElementOfSeq
<1> HIDE DEF Q, q
<1>2. SubSeq(t, 1, p - 1) = SubSeq(s, 1, p - 1)
  <2>1. p - 1 \in Int /\ p - 1 <= Len(t) /\ p - 1 <= Len(s)
    BY <1>1
  <2>2. \A i \in 1 .. p - 1 : t[i] = s[i]
    BY <1>1
  <2> QED
    BY <1>0, <2>1, <2>2, SameStretch
<1>3. SubSeq(s, q, Len(s)) = SubSeq(t, q + 1, Len(t))
  <2>2. q \in Int /\ 1 <= q /\ Len(s) \in Int /\ Len(s) + 1 <= Len(t)
        /\ Len(s) <= Len(s)
    BY <1>1
  <2>3. SubSeq(s, q, Len(s)) = SubSeq(t, q + 1, Len(s) + 1)
    BY ONLY <1>0, <1>a, <2>2, NextStretch
  <2> QED
    BY <1>1, <2>3
<1>6. PartsBefore(t, p) = PartsBefore(s, p) /\ PartsAfter(t, q) = PartsAfter(s, p)
  BY <1>1, <1>2, <1>3 DEF PartsBefore, PartsAfter, q
<1>9. (PartsBefore(s, p) \o t[p]) \o t[q] = PartsBefore(s, p) \o (t[p] \o t[q])
  <2>1. Grouped(PartsBefore(s, p), t[p], t[q])
    BY <1>7, <1>8, Regroup
  <2> QED
    BY <2>1 DEF Grouped
<1> QED
  BY <1>4, <1>5, <1>6, <1>9 DEF q

\* Position m of the flattened s is position k of part p.
PartOf(s, m, p, k) ==
  /\ p \in 1 .. Len(s) /\ k \in 1 .. Len(s[p])
  /\ FlattenSeq(s)[m] = s[p][k]

\* Positions m and l of the flattened s are in order in s as well.
PartsOrdered(s, m, l) ==
  \E p, k, q, j : /\ PartOf(s, m, p, k) /\ PartOf(s, l, q, j)
                  /\ p < q \/ (p = q /\ k < j)

\* Each position of a flattened sequence is a position of a part, in the same
\* order, and the other way round.
LEMMA FlattenParts ==
  ASSUME NEW X, NEW s \in Seq(Seq(X))
  PROVE  /\ \A m \in 1 .. Len(FlattenSeq(s)) : \E p, k : PartOf(s, m, p, k)
         /\ \A m, l \in 1 .. Len(FlattenSeq(s)) : m < l => PartsOrdered(s, m, l)
         /\ \A p \in 1 .. Len(s) : \A k \in 1 .. Len(s[p]) :
              \E m \in 1 .. Len(FlattenSeq(s)) : PartOf(s, m, p, k)
<1>1. PICK f : Flattens(f, s, X)
  BY FlattenPrefixes
<1> DEFINE F == FlattenSeq(s)
<1>2. /\ F \in Seq(X)
      /\ \A i \in 0 .. Len(s) : Len(f[i]) \in Nat /\ Len(f[i]) <= Len(F)
      /\ \A i \in 1 .. Len(s) :
           /\ Len(f[i]) = Len(f[i - 1]) + Len(s[i])
           /\ \A k \in 1 .. Len(s[i]) : F[Len(f[i - 1]) + k] = s[i][k]
  BY <1>1 DEF Flattens
<1>3. Len(s) \in Nat /\ Len(F) \in Nat /\ \A i \in 1 .. Len(s) : Len(s[i]) \in Nat
  BY <1>2, LenProperties, ElementOfSeq
<1>4. ASSUME NEW m, NEW p, NEW k, At(f, s, m, p, k)
      PROVE  PartOf(s, m, p, k)
  BY <1>2, <1>4 DEF At, PartOf
<1>5. ASSUME NEW m \in 1 .. Len(F)
      PROVE  \E p, k : At(f, s, m, p, k)
  BY <1>1, FlattenedAt
<1>6. ASSUME NEW m \in 1 .. Len(F), NEW l \in 1 .. Len(F), m < l
      PROVE  PartsOrdered(s, m, l)
  <2>1. PICK p, k : At(f, s, m, p, k)
    BY <1>5
  <2>2. PICK q, j : At(f, s, l, q, j)
    BY <1>5
  <2>3. m \in Nat /\ l \in Nat
    BY <1>3
  <2>4. p < q \/ (p = q /\ k < j)
    BY <1>1, <1>6, <2>1, <2>2, <2>3, FlattenedOrder
  <2>5. PartOf(s, m, p, k) /\ PartOf(s, l, q, j)
    BY <1>4, <2>1, <2>2
  <2> QED
    BY <2>4, <2>5 DEF PartsOrdered
<1>7. ASSUME NEW p \in 1 .. Len(s), NEW k \in 1 .. Len(s[p])
      PROVE  \E m \in 1 .. Len(F) : PartOf(s, m, p, k)
  <2> DEFINE a == Len(f[p - 1])
             b == Len(s[p])
             c == Len(f[p])
             N == Len(F)
             m == a + k
  <2>1. a \in Nat /\ b \in Nat /\ c \in Nat /\ c <= N /\ N \in Nat /\ c = a + b /\ k \in 1 .. b
    <3>1. p - 1 \in 0 .. Len(s) /\ p \in 0 .. Len(s)
      BY <1>3
    <3> QED
      BY <1>2, <1>3, <3>1
  <2>2. F[m] = s[p][k]
    BY <1>2
  <2> HIDE DEF a, b, c, N
  <2>3. m \in 1 .. N
    BY <2>1
  <2> HIDE DEF m
  <2>4. PartOf(s, m, p, k)
    BY <2>2 DEF PartOf
  <2> QED
    BY <2>3, <2>4 DEF N
<1>8. \A m \in 1 .. Len(F) : \E p, k : PartOf(s, m, p, k)
  BY <1>4, <1>5
<1> QED
  BY <1>6, <1>7, <1>8

\* c has the elements of a, then those of b.
Joins(c, a, b, S) ==
  /\ c \in Seq(S)
  /\ Len(a) \in Nat /\ Len(b) \in Nat /\ Len(c) = Len(a) + Len(b)
  /\ \A k \in 1 .. Len(a) : c[k] = a[k]
  /\ \A k \in 1 .. Len(b) : c[Len(a) + k] = b[k]

\* Concatenation joins two sequences.
LEMMA ConcatJoins ==
  ASSUME NEW S, NEW a \in Seq(S), NEW b \in Seq(S)
  PROVE  Joins(a \o b, a, b, S)
<1> DEFINE c == a \o b
<1>1. c = a \o b
  OBVIOUS
<1> HIDE DEF c
<1>2. Joins(c, a, b, S)
  BY <1>1, Joined DEF Joins
<1> QED
  BY <1>2 DEF c

\* t is s without the element at p.
Drops(t, s, p) ==
  /\ Len(t) = Len(s) - 1
  /\ \A i \in 1 .. p - 1 : t[i] = s[i]
  /\ \A i \in p .. Len(s) - 1 : t[i] = s[i + 1]

\* RemoveAt drops an element.
LEMMA RemoveAtDrops ==
  ASSUME NEW S, NEW s \in Seq(S), NEW p \in 1 .. Len(s)
  PROVE  RemoveAt(s, p) \in Seq(S) /\ Drops(RemoveAt(s, p), s, p)
  BY RemoveAtProperties DEF Drops

\* Where the elements of s without p come from.
LEMMA DropsFrom ==
  ASSUME NEW S, NEW s \in Seq(S), NEW p \in 1 .. Len(s), NEW t, Drops(t, s, p)
  PROVE  \A i \in 1 .. Len(t) :
           \E a \in 1 .. Len(s) : a = (IF i < p THEN i ELSE i + 1) /\ t[i] = s[a]
<1>1. Len(s) \in Nat /\ Len(t) = Len(s) - 1
  BY LenProperties DEF Drops
<1> TAKE i \in 1 .. Len(t)
<1>2. CASE i < p
  <2>1. i \in 1 .. p - 1 /\ i \in 1 .. Len(s)
    BY <1>1, <1>2
  <2> QED
    BY <1>2, <2>1 DEF Drops
<1>3. CASE ~ (i < p)
  <2>1. i \in p .. Len(s) - 1 /\ i + 1 \in 1 .. Len(s)
    BY <1>1, <1>3
  <2> QED
    BY <1>3, <2>1 DEF Drops
<1> QED
  BY <1>2, <1>3

\* a has the first m elements of s, b the others.
Cuts(s, m, a, b, X) ==
  /\ a \in Seq(X) /\ b \in Seq(X) /\ Len(a) = m /\ Len(b) = Len(s) - m
  /\ \A i \in 1 .. m : a[i] = s[i]
  /\ \A i \in 1 .. Len(s) - m : b[i] = s[m + i]

\* SubSeq cuts a sequence in two.
LEMMA SubSeqCuts ==
  ASSUME NEW X, NEW s \in Seq(X), NEW m \in 0 .. Len(s)
  PROVE  Cuts(s, m, SubSeq(s, 1, m), SubSeq(s, m + 1, Len(s)), X)
<1> DEFINE a == SubSeq(s, 1, m)
           b == SubSeq(s, m + 1, Len(s))
<1>1. a \in Seq(X) /\ Len(a) = m /\ \A i \in 1 .. m : a[i] = s[i]
  OBVIOUS
<1>2. b \in Seq(X) /\ Len(b) = Len(s) - m
  OBVIOUS
<1>3. \A i \in 1 .. Len(s) - m : b[i] = s[m + i]
  OBVIOUS
<1> HIDE DEF a, b
<1>4. Cuts(s, m, a, b, X)
  BY <1>1, <1>2, <1>3 DEF Cuts
<1> QED
  BY <1>4 DEF a, b

\* The two parts of a sequence make it up.
LEMMA CutsJoin ==
  ASSUME NEW X, NEW s \in Seq(X), NEW m \in 0 .. Len(s), NEW a, NEW b,
         Cuts(s, m, a, b, X)
  PROVE  s = a \o b
<1> DEFINE f == a \o b
           L == Len(s)
<1>1. /\ a \in Seq(X) /\ b \in Seq(X) /\ Len(a) = m /\ Len(b) = L - m
      /\ \A i \in 1 .. m : a[i] = s[i]
      /\ \A i \in 1 .. L - m : b[i] = s[m + i]
  BY DEF Cuts
<1>2. Joins(f, a, b, X)
  BY <1>1, ConcatJoins
<1>3. L \in Nat /\ m \in 0 .. L
  BY LenProperties
<1> HIDE DEF f
<1>4. f \in Seq(X) /\ Len(f) = L
  BY <1>1, <1>2, <1>3 DEF Joins
<1>5. ASSUME NEW i \in 1 .. L PROVE f[i] = s[i]
  <2>1. CASE i <= m
    <3>1. i \in 1 .. m
      BY <1>3, <2>1
    <3> QED
      BY <1>1, <1>2, <3>1 DEF Joins
  <2>2. CASE ~ (i <= m)
    <3> DEFINE k == i - m
    <3>1. k \in 1 .. L - m /\ m + k = i
      BY <1>3, <2>2
    <3> HIDE DEF k
    <3>2. k \in 1 .. Len(b) /\ Len(a) + k = i
      BY <1>1, <3>1
    <3>3. f[Len(a) + k] = b[k]
      BY <1>2, <3>2 DEF Joins
    <3>4. b[k] = s[m + k]
      BY <1>1, <3>1
    <3> QED
      BY <3>1, <3>2, <3>3, <3>4
  <2> QED
    BY <2>1, <2>2
<1>6. f = s
  BY <1>4, <1>5, SeqEqual
<1> QED
  BY <1>6 DEF f

\* InsertAt inserts an element.
LEMMA InsertAtInserts ==
  ASSUME NEW X, NEW s \in Seq(X), NEW p \in 1 .. Len(s) + 1, NEW e \in X
  PROVE  /\ InsertAt(s, p, e) \in Seq(X) /\ Len(InsertAt(s, p, e)) = Len(s) + 1
         /\ Inserts(InsertAt(s, p, e), s, p, e)
  BY InsertAtProperties

\* The elements of t, a sequence with e put into s at p.
InsertedAs(t, s, p, e, i) ==
  \/ i < p /\ i \in 1 .. Len(s) /\ t[i] = s[i]
  \/ i = p /\ t[i] = e
  \/ p < i /\ i - 1 \in 1 .. Len(s) /\ t[i] = s[i - 1]

\* Each element of the grown sequence is one of those.
LEMMA InsertsFrom ==
  ASSUME NEW X, NEW s \in Seq(X), NEW t, NEW p, NEW e, Inserts(t, s, p, e)
  PROVE  \A i \in 1 .. Len(s) + 1 : InsertedAs(t, s, p, e, i)
<1>1. Len(s) \in Nat
  BY LenProperties
<1> TAKE i \in 1 .. Len(s) + 1
<1>2. p \in 1 .. Len(s) + 1
  BY DEF Inserts
<1>3. CASE i < p
  <2>1. i \in 1 .. p - 1 /\ i \in 1 .. Len(s)
    BY <1>1, <1>2, <1>3
  <2> QED
    BY <1>3, <2>1 DEF Inserts, InsertedAs
<1>4. CASE i = p
  BY <1>4 DEF Inserts, InsertedAs
<1>5. CASE p < i
  <2>1. i \in p + 1 .. Len(s) + 1 /\ i - 1 \in 1 .. Len(s)
    BY <1>1, <1>2, <1>5
  <2> QED
    BY <1>5, <2>1 DEF Inserts, InsertedAs
<1> QED
  BY <1>1, <1>2, <1>3, <1>4, <1>5

\* FlattenSeq of two sequences.
LEMMA FlattenTwo ==
  ASSUME NEW X, NEW a \in Seq(X), NEW b \in Seq(X)
  PROVE  FlattenSeq(<< a, b >>) = a \o b
<1> DEFINE Q == Seq(X)
           none == << >>
           one == Append(none, a)
<1>1. PICK f : FlattensTo(f, none, X)
  <2>1. none \in Seq(Seq(X))
    OBVIOUS
  <2> QED
    BY <2>1, FlattensToExists
<1>2. FlattenSeq(none) = << >>
  <2>1. Len(none) = 0
    OBVIOUS
  <2> QED
    BY <1>1, <2>1 DEF FlattensTo
<1>3. none \in Seq(Q)
  OBVIOUS
<1>4. FlattenSeq(one) = << >> \o a
  <2>1. none \in Seq(Seq(X))
    OBVIOUS
  <2> HIDE DEF none
  <2> QED
    BY <1>2, <2>1, FlattenMore
<1>5. << >> \o a = a
  OBVIOUS
<1>6. one \in Seq(Seq(X))
  OBVIOUS
<1>7. << a, b >> = Append(one, b)
  OBVIOUS
<1> HIDE DEF one
<1>8. FlattenSeq(Append(one, b)) = FlattenSeq(one) \o b
  BY <1>6, FlattenMore
<1> QED
  BY <1>4, <1>5, <1>7, <1>8

\* A sequence is its elements, flattened.
LEMMA FlattenSingles ==
  ASSUME NEW X, NEW c \in Seq(X)
  PROVE  FlattenSeq([i \in 1 .. Len(c) |-> << c[i] >>]) = c
<1> DEFINE n == Len(c)
           s == [i \in 1 .. n |-> << c[i] >>]
           Q == Seq(X)
<1>1. n \in Nat /\ \A i \in 1 .. n : c[i] \in X
  BY LenProperties, ElementOfSeq
<1>2. /\ s = [i \in 1 .. n |-> s[i]]
      /\ \A i \in 1 .. n : s[i] = << c[i] >> /\ s[i] \in Q
  BY <1>1
<1> HIDE DEF s, Q
<1>3. s \in Seq(Q) /\ Len(s) = n
  BY <1>1, <1>2, IsSequence
<1>4. PICK f : FlattensTo(f, s, X)
  BY <1>3, FlattensToExists DEF Q
<1>5. /\ \A i \in 0 .. n : f[i] \in Seq(X)
      /\ f[0] = << >> /\ FlattenSeq(s) = f[n]
      /\ \A i \in 1 .. n : f[i] = f[i - 1] \o s[i]
  BY <1>3, <1>4 DEF FlattensTo
<1> DEFINE Prefix(i) == Len(f[i]) = i /\ \A j \in 1 .. i : f[i][j] = c[j]
           T == {i \in 0 .. n : Prefix(i)}
<1>6. 0 \in T
  BY <1>1, <1>5
<1>7. ASSUME NEW i \in 0 .. n - 1, i \in T
      PROVE  i + 1 \in T
  <2> DEFINE k == i + 1
             a == f[i]
             b == << c[k] >>
             d == f[k]
  <2>1. k \in 1 .. n /\ k - 1 = i /\ i \in 0 .. n /\ k \in 0 .. n
    BY <1>1
  <2>2. a \in Seq(X) /\ Len(a) = i /\ \A j \in 1 .. i : a[j] = c[j]
    BY <1>5, <1>7, <2>1
  <2>3. b \in Seq(X) /\ Len(b) = 1 /\ b[1] = c[k]
    BY <1>1, <2>1
  <2>4. d = a \o b
    BY <1>2, <1>5, <2>1
  <2> HIDE DEF a, b, d, k
  <2>5. /\ Len(d) = Len(a) + Len(b)
        /\ \A j \in 1 .. Len(a) : d[j] = a[j]
        /\ \A j \in 1 .. Len(b) : d[Len(a) + j] = b[j]
    <3>1. Joins(a \o b, a, b, X)
      BY <2>2, <2>3, ConcatJoins
    <3>2. Joins(d, a, b, X)
      BY <2>4, <3>1
    <3> QED
      BY <3>2 DEF Joins
  <2>6. Len(d) = k
    BY <2>2, <2>3, <2>5 DEF k
  <2>7. d[k] = c[k]
    <3>1. 1 \in 1 .. Len(b) /\ Len(a) + 1 = k
      BY <2>2, <2>3 DEF k
    <3> QED
      BY <2>3, <2>5, <3>1
  <2>8. ASSUME NEW j \in 1 .. k PROVE d[j] = c[j]
    <3>1. j \in 1 .. i \/ j = k
      BY <2>1 DEF k
    <3> QED
      BY <2>2, <2>5, <2>7, <3>1
  <2> QED
    BY <2>1, <2>6, <2>8 DEF d, k
<1> HIDE DEF T
<1>8. n \in T
  <2>1. \A i \in 0 .. n : i \in T
    BY <1>1, <1>6, <1>7, UpTo
  <2> QED
    BY <1>1, <2>1
<1>9. Len(f[n]) = n /\ \A j \in 1 .. n : f[n][j] = c[j]
  BY <1>8 DEF T
<1>10. f[n] \in Seq(X)
  BY <1>1, <1>5
<1>11. f[n] = c
  BY <1>9, <1>10, SeqEqual
<1> QED
  BY <1>5, <1>11 DEF s
=============================================================================
