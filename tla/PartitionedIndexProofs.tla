---------------------- MODULE PartitionedIndexProofs ------------------------
(***************************************************************************)
(* Safety of PartitionedIndex for any set of integer keys, any rows and    *)
(* any partition size.                                                     *)
(***************************************************************************)
EXTENDS PartitionedIndex, FiniteSetTheorems, SequenceTheorems, TLAPS

\* A split of the partition list, as the partition at each position.
LEMMA SplitList ==
  ASSUME partitions \in Seq(Partition), NEW p \in 1 .. Len(partitions),
         NEW l \in Partition, NEW u \in Partition,
         partitions' = InsertAt(ReplaceAt(partitions, p, l), p + 1, u)
  PROVE  /\ partitions' \in Seq(Partition)
         /\ Len(partitions') = Len(partitions) + 1
         /\ \A q \in 1 .. p - 1 : partitions'[q] = partitions[q]
         /\ partitions'[p] = l
         /\ partitions'[p + 1] = u
         /\ \A q \in p + 2 .. Len(partitions) + 1 :
              partitions'[q] = partitions[q - 1]
<1> DEFINE r == [partitions EXCEPT ![p] = l]
           a == SubSeq(r, 1, p)
           b == SubSeq(r, p + 1, Len(r))
           c == a \o <<u>>
           t == c \o b
<1>0. Len(partitions) \in Nat /\ p \in Nat /\ 1 <= p /\ p <= Len(partitions)
  BY LenProperties
<1>1. /\ r \in Seq(Partition) /\ Len(r) = Len(partitions)
      /\ \A j \in 1 .. Len(partitions) : r[j] = IF j = p THEN l ELSE partitions[j]
  BY ExceptSeq
<1> HIDE DEF r
<1>2. a \in Seq(Partition) /\ Len(a) = p /\ \A i \in 1 .. p : a[i] = r[i]
  <2>1. \A i \in 1 .. p : r[i] \in Partition
    BY <1>0, <1>1, ElementOfSeq
  <2> QED
    BY <1>0, <2>1, SubSeqProperties, 1 \in Int, p \in Int, Z3
<1>3. /\ b \in Seq(Partition) /\ Len(b) = Len(partitions) - p
      /\ \A i \in 1 .. Len(partitions) - p : b[i] = r[p + i]
  <2>1. \A i \in p + 1 .. Len(r) : r[i] \in Partition
    BY <1>0, <1>1, ElementOfSeq
  <2>2. /\ b \in Seq(Partition)
        /\ Len(b) = IF p + 1 <= Len(r) THEN Len(r) - (p + 1) + 1 ELSE 0
        /\ \A i \in 1 .. Len(r) - (p + 1) + 1 : b[i] = r[(p + 1) + i - 1]
    BY <1>0, <1>1, <2>1, SubSeqProperties, p + 1 \in Int, Len(r) \in Int
  <2> QED
    BY <1>0, <1>1, <2>2
<1> HIDE DEF a, b
<1>4. /\ c \in Seq(Partition) /\ Len(c) = p + 1
      /\ \A i \in 1 .. p + 1 : c[i] = IF i <= p THEN a[i] ELSE u
  <2>1. <<u>> \in Seq(Partition) /\ Len(<<u>>) = 1 /\ <<u>>[1] = u
    OBVIOUS
  <2>2. /\ c \in Seq(Partition) /\ Len(c) = p + 1
        /\ \A i \in 1 .. p + 1 : c[i] = IF i <= p THEN a[i] ELSE <<u>>[i - p]
    BY <1>0, <1>2, <2>1, ConcatProperties
  <2> QED
    BY <1>0, <2>1, <2>2
<1> HIDE DEF c
<1>5. /\ t \in Seq(Partition) /\ Len(t) = Len(partitions) + 1
      /\ \A i \in 1 .. Len(partitions) + 1 :
           t[i] = IF i <= p + 1 THEN c[i] ELSE b[i - (p + 1)]
  <2>1. /\ t \in Seq(Partition) /\ Len(t) = Len(c) + Len(b)
        /\ \A i \in 1 .. Len(c) + Len(b) :
             t[i] = IF i <= Len(c) THEN c[i] ELSE b[i - Len(c)]
    BY <1>3, <1>4, ConcatProperties, Zenon
  <2>2. Len(c) = p + 1 /\ Len(c) + Len(b) = Len(partitions) + 1
    BY <1>0, <1>3, <1>4
  <2> HIDE DEF t
  <2> QED
    BY <2>1, <2>2
<1>6. InsertAt(ReplaceAt(partitions, p, l), p + 1, u) = t
  <2>1. (p + 1) - 1 = p
    BY <1>0
  <2> QED
    BY <2>1, Zenon DEF InsertAt, ReplaceAt, a, b, c, r
<1> HIDE DEF t
<1>7. \A i \in 1 .. p - 1 : t[i] = partitions[i]
  BY <1>0, <1>1, <1>2, <1>4, <1>5
<1>8. t[p] = l /\ t[p + 1] = u
  <2>1. t[p] = c[p] /\ t[p + 1] = c[p + 1]
    BY <1>0, <1>5
  <2>2. c[p] = a[p] /\ c[p + 1] = u
    BY <1>0, <1>4
  <2>3. a[p] = r[p] /\ r[p] = l
    BY <1>0, <1>1, <1>2
  <2> QED
    BY <2>1, <2>2, <2>3
<1>9. \A i \in p + 2 .. Len(partitions) + 1 : t[i] = partitions[i - 1]
  <2> TAKE i \in p + 2 .. Len(partitions) + 1
  <2>1. t[i] = b[i - (p + 1)] /\ i - (p + 1) \in 1 .. Len(partitions) - p
    BY <1>0, <1>5
  <2>2. b[i - (p + 1)] = r[p + (i - (p + 1))]
    BY <2>1, <1>3
  <2>3. p + (i - (p + 1)) = i - 1
    BY <1>0
  <2>4. i - 1 \in 1 .. Len(partitions) /\ i - 1 # p
    BY <1>0
  <2>5. r[i - 1] = partitions[i - 1]
    BY <2>4, <1>1
  <2> QED
    BY <2>1, <2>2, <2>3, <2>5
<1> QED
  BY <1>5, <1>6, <1>7, <1>8, <1>9, Zenon

-----------------------------------------------------------------------------
\* The two halves of a split at m.
Lower(part, m) ==
  [part EXCEPT !.endKey = m, !.entries = {e \in part.entries : e.key < m}]

Upper(part, m) ==
  [startKey |-> m, endKey |-> part.endKey,
   entries |-> {e \in part.entries : m <= e.key}]

\* What an insert of (k, r) into partition p may do to the list, position by
\* position: only p changes, or p is cut at m and the later ones move up.
Within(p, k, r) ==
  /\ Len(partitions') = Len(partitions)
  /\ \A q \in Parts :
       partitions'[q] = IF q = p THEN Grown(p, k, r) ELSE partitions[q]

Split(p, k, r, m) ==
  /\ Len(partitions') = Len(partitions) + 1
  /\ \A q \in 1 .. p - 1 : partitions'[q] = partitions[q]
  /\ partitions'[p] = Lower(Grown(p, k, r), m)
  /\ partitions'[p + 1] = Upper(Grown(p, k, r), m)
  /\ \A q \in p + 2 .. Len(partitions) + 1 : partitions'[q] = partitions[q - 1]

\* A partition that has taken one more entry, and its halves.
LEMMA GrownFacts ==
  ASSUME TypeOK, NEW p \in Parts, NEW k \in Keys, NEW r \in Rows
  PROVE  LET g == Grown(p, k, r)
         IN  /\ g \in Partition
             /\ g.startKey = partitions[p].startKey
             /\ g.endKey = partitions[p].endKey
             /\ g.entries = partitions[p].entries \cup {[key |-> k, row |-> r]}
             /\ IsFiniteSet(g.entries)
<1>1. partitions[p] \in Partition /\ IsFiniteSet(partitions[p].entries)
  BY ElementOfSeq DEF TypeOK, Parts
<1>2. [key |-> k, row |-> r] \in Entry
  BY DEF Entry
<1>3. IsFiniteSet(partitions[p].entries \cup {[key |-> k, row |-> r]})
  BY <1>1, FS_AddElement
<1> QED
  BY <1>1, <1>2, <1>3 DEF Grown, Partition

\* The halves of a partition are partitions.
LEMMA HalvesFacts ==
  ASSUME NEW g \in Partition, NEW m \in Keys
  PROVE  Lower(g, m) \in Partition /\ Upper(g, m) \in Partition
  BY DEF Lower, Upper, Partition

\* Every insert has one of the two shapes, for a key that is not stored and the
\* partition that covers it.
LEMMA InsertShape ==
  ASSUME TypeOK, NEW k \in Keys, NEW r \in Rows, Insert(k, r)
  PROVE  /\ k \notin KeysOf(StoredEntries)
         /\ partitions' \in Seq(Partition)
         /\ \E p \in Parts :
              /\ IsPartitionFor(p, k)
              /\ \/ /\ Within(p, k, r)
                    /\ Cardinality(Grown(p, k, r).entries) <= MaxPartitionSize
                 \/ /\ Cardinality(Grown(p, k, r).entries) > MaxPartitionSize
                    /\ \E m \in Keys : /\ IsMedianKey(Grown(p, k, r).entries, m)
                                       /\ Split(p, k, r, m)
<1>1. PICK p \in Parts : /\ IsPartitionFor(p, k)
                         /\ InsertWithin(p, k, r) \/ InsertAndSplit(p, k, r)
  BY DEF Insert
<1>2. /\ partitions \in Seq(Partition) /\ p \in 1 .. Len(partitions)
      /\ Grown(p, k, r) \in Partition /\ IsFiniteSet(Grown(p, k, r).entries)
  BY GrownFacts DEF TypeOK, Parts
<1>3. CASE InsertWithin(p, k, r)
  <2>1. partitions' = [partitions EXCEPT ![p] = Grown(p, k, r)]
    BY <1>3 DEF InsertWithin, ReplaceAt
  <2>2. partitions' \in Seq(Partition) /\ Within(p, k, r)
    BY <1>2, <2>1, ExceptSeq DEF Within, Parts
  <2> QED
    BY <1>1, <1>3, <2>2 DEF Insert, InsertWithin
<1>4. CASE InsertAndSplit(p, k, r)
  <2>1. PICK m \in Keys :
          /\ IsMedianKey(Grown(p, k, r).entries, m)
          /\ partitions' = SplitPartition(p, Grown(p, k, r), m)
    BY <1>4 DEF InsertAndSplit
  <2> DEFINE l == Lower(Grown(p, k, r), m)
             u == Upper(Grown(p, k, r), m)
  <2>2. partitions' = InsertAt(ReplaceAt(partitions, p, l), p + 1, u)
    BY <2>1 DEF SplitPartition, Lower, Upper
  <2>3. l \in Partition /\ u \in Partition
    BY <1>2, HalvesFacts
  <2> HIDE DEF l, u
  <2>4. /\ partitions' \in Seq(Partition)
        /\ Len(partitions') = Len(partitions) + 1
        /\ \A q \in 1 .. p - 1 : partitions'[q] = partitions[q]
        /\ partitions'[p] = l
        /\ partitions'[p + 1] = u
        /\ \A q \in p + 2 .. Len(partitions) + 1 :
             partitions'[q] = partitions[q - 1]
    BY <1>2, <2>2, <2>3, SplitList
  <2>5. partitions' \in Seq(Partition) /\ Split(p, k, r, m)
    BY <2>4 DEF Split, l, u
  <2> QED
    BY <1>1, <1>4, <2>1, <2>5 DEF Insert, InsertAndSplit
<1> QED
  BY <1>1, <1>3, <1>4

-----------------------------------------------------------------------------
\* What every step keeps.  EntriesWithinBounds is what makes the order of the
\* bounds inductive: the median is within the bounds of what it splits.
IInv ==
  /\ TypeOK
  /\ PartitionsOrdered
  /\ EveryKeyHasPartition
  /\ EntriesWithinBounds
  /\ KeysUnique

\* The invariant holds of the one empty partition.
LEMMA InitIInv == Init => IInv
<1> SUFFICES ASSUME Init PROVE IInv
  OBVIOUS
<1> DEFINE first == [startKey |-> NoKey, endKey |-> NoKey, entries |-> {}]
<1>1. partitions = << first >> /\ first \in Partition /\ first.entries = {}
  BY DEF Init, Partition
<1>2. /\ partitions \in Seq(Partition) /\ Len(partitions) = 1
      /\ partitions[1] = first /\ Parts = 1 .. 1
  BY <1>1 DEF Parts
<1>3. TypeOK
  BY <1>1, <1>2, FS_EmptySet DEF TypeOK
<1>4. PartitionsOrdered
  BY <1>2 DEF PartitionsOrdered
<1>5. EveryKeyHasPartition
  BY <1>2 DEF EveryKeyHasPartition, ContainsKey
<1>6. EntriesWithinBounds /\ KeysUnique
  BY <1>1, <1>2 DEF EntriesWithinBounds, KeysUnique
<1> QED
  BY <1>3, <1>4, <1>5, <1>6 DEF IInv

\* The fields of the partitions.
LEMMA PartFacts ==
  ASSUME TypeOK, NEW p \in Parts
  PROVE  /\ partitions[p] \in Partition
         /\ partitions[p].startKey \in Int \/ partitions[p].startKey = NoKey
         /\ partitions[p].endKey \in Int \/ partitions[p].endKey = NoKey
         /\ \A e \in partitions[p].entries : e \in Entry /\ e.key \in Int
<1>1. partitions[p] \in Partition
  BY ElementOfSeq DEF TypeOK, Parts
<1> QED
  BY <1>1, KeysAssumption DEF Partition, Entry

\* An entry is stored when a partition has it.
LEMMA StoredFacts ==
  ASSUME NEW k, k \notin KeysOf(StoredEntries), NEW p \in Parts
  PROVE  \A e \in partitions[p].entries : e.key # k
  BY DEF KeysOf, StoredEntries

\* An insert that leaves the bounds alone.
LEMMA WithinStep ==
  ASSUME IInv, NEW k \in Keys, NEW r \in Rows, NEW p \in Parts,
         k \notin KeysOf(StoredEntries), IsPartitionFor(p, k),
         partitions' \in Seq(Partition), Within(p, k, r)
  PROVE  IInv'
<1> DEFINE g == Grown(p, k, r)
           n == [key |-> k, row |-> r]
<1>1. /\ TypeOK /\ PartitionsOrdered /\ EveryKeyHasPartition
      /\ EntriesWithinBounds /\ KeysUnique
  BY DEF IInv
<1>2. /\ g.startKey = partitions[p].startKey /\ g.endKey = partitions[p].endKey
      /\ g.entries = partitions[p].entries \cup {n} /\ IsFiniteSet(g.entries)
  BY <1>1, GrownFacts
<1>3. /\ Parts' = Parts
      /\ \A q \in Parts :
           partitions'[q] = IF q = p THEN g ELSE partitions[q]
  BY DEF Within, Parts
<1> HIDE DEF g
<1>4. \A q \in Parts : /\ partitions'[q].startKey = partitions[q].startKey
                       /\ partitions'[q].endKey = partitions[q].endKey
  BY <1>2, <1>3
<1>5. TypeOK'
  <2>1. Len(partitions') = Len(partitions)
    BY DEF Within
  <2>2. partitions' # << >>
    BY <1>1, <2>1, EmptySeq DEF TypeOK
  <2> QED
    BY <1>1, <1>2, <1>3, <2>2 DEF TypeOK
<1>6. PartitionsOrdered'
  BY <1>1, <1>3, <1>4 DEF PartitionsOrdered
<1>7. EveryKeyHasPartition'
  BY <1>1, <1>3, <1>4 DEF EveryKeyHasPartition, ContainsKey
<1>8. EntriesWithinBounds'
  <2> SUFFICES ASSUME NEW q \in Parts, NEW e \in partitions'[q].entries
               PROVE  ContainsKey(partitions[q], e.key)
    BY <1>3, <1>4 DEF EntriesWithinBounds, ContainsKey
  <2>1. CASE e \in partitions[q].entries
    BY <1>1, <2>1 DEF EntriesWithinBounds
  <2>2. CASE q = p /\ e = n
    BY <2>2 DEF IsPartitionFor
  <2> QED
    BY <1>2, <1>3, <2>1, <2>2
<1>9. KeysUnique'
  <2> SUFFICES ASSUME NEW q1 \in Parts, NEW q2 \in Parts,
                      NEW e \in partitions'[q1].entries,
                      NEW f \in partitions'[q2].entries, e.key = f.key
               PROVE  q1 = q2 /\ e = f
    BY <1>3 DEF KeysUnique
  <2>1. e \in partitions[q1].entries \/ (q1 = p /\ e = n)
    BY <1>2, <1>3
  <2>2. f \in partitions[q2].entries \/ (q2 = p /\ f = n)
    BY <1>2, <1>3
  <2>3. \A q \in Parts : \A d \in partitions[q].entries : d.key # n.key
    BY StoredFacts
  <2> QED
    BY <1>1, <2>1, <2>2, <2>3 DEF KeysUnique
<1> QED
  BY <1>5, <1>6, <1>7, <1>8, <1>9 DEF IInv

\* An insert that cuts its partition at m, a key the partition then holds.
LEMMA SplitStep ==
  ASSUME IInv, NEW k \in Keys, NEW r \in Rows, NEW p \in Parts, NEW m \in Keys,
         k \notin KeysOf(StoredEntries), IsPartitionFor(p, k),
         m \in KeysOf(Grown(p, k, r).entries),
         partitions' \in Seq(Partition), Split(p, k, r, m)
  PROVE  IInv'
<1> DEFINE g == Grown(p, k, r)
           n == [key |-> k, row |-> r]
           l == Lower(g, m)
           u == Upper(g, m)
           Old(q) == IF q <= p THEN q ELSE q - 1
<1>1. /\ TypeOK /\ PartitionsOrdered /\ EveryKeyHasPartition
      /\ EntriesWithinBounds /\ KeysUnique
  BY DEF IInv
<1>2. /\ g \in Partition /\ IsFiniteSet(g.entries)
      /\ g.startKey = partitions[p].startKey /\ g.endKey = partitions[p].endKey
      /\ g.entries = partitions[p].entries \cup {n}
  BY <1>1, GrownFacts
<1> HIDE DEF g
<1>3. /\ l.startKey = partitions[p].startKey /\ l.endKey = m
      /\ l.entries = {e \in g.entries : e.key < m} /\ IsFiniteSet(l.entries)
      /\ u.startKey = m /\ u.endKey = partitions[p].endKey
      /\ u.entries = {e \in g.entries : m <= e.key} /\ IsFiniteSet(u.entries)
  <2>1. /\ l.startKey = g.startKey /\ l.endKey = m
        /\ l.entries = {e \in g.entries : e.key < m}
        /\ u.startKey = m /\ u.endKey = g.endKey
        /\ u.entries = {e \in g.entries : m <= e.key}
    BY <1>2 DEF Lower, Upper, Partition
  <2>2. IsFiniteSet(l.entries) /\ IsFiniteSet(u.entries)
    BY <1>2, <2>1, FS_Subset
  <2> QED
    BY <1>2, <2>1, <2>2
<1>4. /\ Len(partitions) \in Nat /\ p \in Nat /\ 1 <= p /\ p <= Len(partitions)
      /\ Parts = 1 .. Len(partitions) /\ Parts' = 1 .. Len(partitions) + 1
  BY <1>1, LenProperties DEF TypeOK, Parts, Split
<1>5. /\ \A q \in 1 .. p - 1 : partitions'[q] = partitions[q]
      /\ partitions'[p] = l /\ partitions'[p + 1] = u
      /\ \A q \in p + 2 .. Len(partitions) + 1 : partitions'[q] = partitions[q - 1]
  BY DEF Split, g
<1> HIDE DEF l, u
\* Where a new position comes from, and its bounds.
<1>6. \A q \in Parts' :
        /\ Old(q) \in Parts
        /\ q = p \/ q = p + 1 \/ (q # p /\ q # p + 1 /\ Old(q) # p
                                 /\ partitions'[q] = partitions[Old(q)])
  BY <1>4, <1>5
<1>7. \A q \in Parts' :
        /\ partitions'[q].startKey =
             IF q = p + 1 THEN m ELSE partitions[Old(q)].startKey
        /\ partitions'[q].endKey =
             IF q = p THEN m ELSE partitions[Old(q)].endKey
  <2> SUFFICES ASSUME NEW q \in Parts'
               PROVE  /\ partitions'[q].startKey =
                           IF q = p + 1 THEN m ELSE partitions[Old(q)].startKey
                      /\ partitions'[q].endKey =
                           IF q = p THEN m ELSE partitions[Old(q)].endKey
    OBVIOUS
  <2>1. CASE q = p
    <3>1. Old(q) = p /\ q # p + 1 /\ partitions'[q] = l
      BY <1>4, <1>5, <2>1
    <3> QED
      BY <1>3, <2>1, <3>1
  <2>2. CASE q = p + 1
    <3>1. Old(q) = p /\ q # p /\ partitions'[q] = u
      BY <1>4, <1>5, <2>2
    <3> QED
      BY <1>3, <2>2, <3>1
  <2>3. CASE q # p /\ q # p + 1
    <3>1. partitions'[q] = partitions[Old(q)]
      BY <1>6, <2>3
    <3> QED
      BY <2>3, <3>1
  <2> QED
    BY <2>1, <2>2, <2>3
<1>8. \A e \in g.entries : ContainsKey(partitions[p], e.key)
  BY <1>1, <1>2 DEF EntriesWithinBounds, IsPartitionFor
<1>9. \A e \in g.entries : e.key \in Int
  BY <1>2, KeysAssumption DEF Partition, Entry
<1>10. ContainsKey(partitions[p], m) /\ m \in Int /\ m # NoKey
  BY <1>8, KeysAssumption DEF KeysOf, g
<1>11. TypeOK'
  <2>1. partitions' # << >>
    BY <1>4, EmptySeq DEF Split
  <2>2. \A q \in Parts' : IsFiniteSet(partitions'[q].entries)
    BY <1>1, <1>3, <1>5, <1>6 DEF TypeOK
  <2> QED
    BY <2>1, <2>2 DEF TypeOK
<1>12. PartitionsOrdered'
  <2> SUFFICES ASSUME NEW a \in Parts', NEW b \in Parts', a < b
               PROVE  /\ partitions'[a].endKey # NoKey
                      /\ partitions'[b].startKey # NoKey
                      /\ partitions'[a].endKey <= partitions'[b].startKey
    BY DEF PartitionsOrdered
  <2>1. Old(a) \in Parts /\ Old(b) \in Parts
    BY <1>6
  <2>2. CASE a = p /\ b = p + 1
    BY <2>2, <1>4, <1>7, <1>10
  <2>3. CASE ~ (a = p /\ b = p + 1)
    <3>1. Old(a) < Old(b)
      BY <2>3, <1>4
    <3>2. /\ partitions[Old(a)].endKey # NoKey
          /\ partitions[Old(b)].startKey # NoKey
          /\ partitions[Old(a)].endKey <= partitions[Old(b)].startKey
      BY <1>1, <2>1, <3>1 DEF PartitionsOrdered
    <3>3. /\ partitions[Old(a)].endKey \in Int
          /\ partitions[Old(b)].startKey \in Int
      BY <1>1, <2>1, <3>2, PartFacts
    <3>4. CASE a = p
      <4>1. partitions'[a].endKey = m
        BY <3>4, <1>7
      <4>2. partitions'[b].startKey = partitions[Old(b)].startKey
        BY <3>4, <2>3, <1>7
      <4>3. Old(a) = p
        BY <3>4, <1>4
      <4>4. m < partitions[Old(a)].endKey
        BY <4>3, <3>2, <1>10 DEF ContainsKey
      <4> QED
        BY <4>1, <4>2, <4>4, <3>2, <3>3, <1>10
    <3>5. CASE a # p /\ b = p + 1
      <4>1. partitions'[b].startKey = m /\ Old(b) = p
        BY <3>5, <1>4, <1>7
      <4>2. partitions'[a].endKey = partitions[Old(a)].endKey
        BY <3>5, <1>7
      <4>3. partitions[Old(b)].startKey <= m
        BY <4>1, <3>2, <1>10 DEF ContainsKey
      <4> QED
        BY <4>1, <4>2, <4>3, <3>2, <3>3, <1>10
    <3>6. CASE a # p /\ b # p + 1
      BY <3>6, <3>2, <1>7
    <3> QED
      BY <3>4, <3>5, <3>6
  <2> QED
    BY <2>2, <2>3
<1>13. EveryKeyHasPartition'
  <2> SUFFICES ASSUME NEW j \in Keys
               PROVE  \E q \in Parts' : ContainsKey(partitions'[q], j)
    BY DEF EveryKeyHasPartition, ContainsKey
  <2>1. PICK q \in Parts : ContainsKey(partitions[q], j)
    BY <1>1 DEF EveryKeyHasPartition
  <2>2. j \in Int
    BY KeysAssumption
  <2>3. CASE q = p
    BY <2>1, <2>2, <2>3, <1>3, <1>4, <1>5, <1>10 DEF ContainsKey
  <2>4. CASE q < p
    BY <2>1, <2>4, <1>4, <1>5
  <2>5. CASE q > p
    <3>1. q + 1 \in Parts' /\ partitions'[q + 1] = partitions[q]
      BY <2>5, <1>4, <1>5
    <3> QED
      BY <2>1, <3>1
  <2> QED
    BY <2>3, <2>4, <2>5, <1>4
<1>14. \A q \in Parts' :
         partitions'[q].entries \subseteq
           (IF Old(q) = p THEN g.entries ELSE partitions[Old(q)].entries)
  BY <1>3, <1>4, <1>5, <1>6
<1>15. EntriesWithinBounds'
  <2> SUFFICES ASSUME NEW q \in Parts', NEW e \in partitions'[q].entries
               PROVE  ContainsKey(partitions'[q], e.key)
    BY DEF EntriesWithinBounds, ContainsKey
  <2>1. CASE q = p
    BY <2>1, <1>3, <1>5, <1>8 DEF ContainsKey
  <2>2. CASE q = p + 1
    BY <2>2, <1>3, <1>5, <1>8 DEF ContainsKey
  <2>3. CASE q # p /\ q # p + 1
    BY <2>3, <1>1, <1>6 DEF EntriesWithinBounds
  <2> QED
    BY <2>1, <2>2, <2>3
<1>16. KeysUnique'
  <2> SUFFICES ASSUME NEW a \in Parts', NEW b \in Parts',
                      NEW e \in partitions'[a].entries,
                      NEW f \in partitions'[b].entries, e.key = f.key
               PROVE  a = b /\ e = f
    BY DEF KeysUnique
  <2>1. Old(a) \in Parts /\ Old(b) \in Parts
    BY <1>6
  <2>2. e \in partitions[Old(a)].entries \/ (Old(a) = p /\ e = n)
    BY <1>2, <1>14
  <2>3. f \in partitions[Old(b)].entries \/ (Old(b) = p /\ f = n)
    BY <1>2, <1>14
  <2>4. \A q \in Parts : \A d \in partitions[q].entries : d.key # n.key
    BY StoredFacts
  <2>5. Old(a) = Old(b) /\ e = f
    <3> HIDE DEF Old
    <3> QED
      BY <1>1, <2>1, <2>2, <2>3, <2>4 DEF KeysUnique
  <2>6. \A d \in l.entries : d \notin u.entries
    BY <1>3, <1>10, <1>9
  <2>7. ~ (a = p /\ b = p + 1) /\ ~ (a = p + 1 /\ b = p)
    BY <2>5, <2>6, <1>5
  <2> QED
    BY <2>5, <2>7, <1>4
<1> QED
  BY <1>11, <1>12, <1>13, <1>15, <1>16 DEF IInv

\* IInv is an inductive invariant.
LEMMA IInvStep == IInv /\ [Next]_vars => IInv'
<1> SUFFICES ASSUME IInv, [Next]_vars PROVE IInv'
  OBVIOUS
<1>1. ASSUME NEW k \in Keys, NEW r \in Rows, Insert(k, r)
      PROVE  IInv'
  <2>1. TypeOK
    BY DEF IInv
  <2>2. PICK p \in Parts :
          /\ IsPartitionFor(p, k)
          /\ \/ Within(p, k, r)
             \/ \E m \in Keys : /\ IsMedianKey(Grown(p, k, r).entries, m)
                                /\ Split(p, k, r, m)
    BY <1>1, <2>1, InsertShape
  <2>3. k \notin KeysOf(StoredEntries) /\ partitions' \in Seq(Partition)
    BY <1>1, <2>1, InsertShape
  <2>4. CASE Within(p, k, r)
    BY <2>2, <2>3, <2>4, WithinStep
  <2>5. ASSUME NEW m \in Keys, IsMedianKey(Grown(p, k, r).entries, m),
               Split(p, k, r, m)
        PROVE  IInv'
    BY <2>2, <2>3, <2>5, SplitStep DEF IsMedianKey
  <2> QED
    BY <2>2, <2>4, <2>5
<1>2. CASE UNCHANGED vars
  BY <1>2 DEF vars, IInv, TypeOK, PartitionsOrdered, EveryKeyHasPartition,
     EntriesWithinBounds, KeysUnique, Parts, ContainsKey
<1> QED
  BY <1>1, <1>2 DEF Next

\* The list of partitions is what it should be: ordered, without gaps, with every
\* entry where its bounds say and no key twice.
THEOREM Invariance == Spec => []IInv
  BY InitIInv, IInvStep, PTL DEF Spec

\* The partitions are well formed and never run out.
THEOREM Typing == Spec => []TypeOK
<1>1. IInv => TypeOK
  BY DEF IInv
<1> QED
  BY Invariance, <1>1, PTL

\* No partition ends after a later one starts, and insert never reaches its
\* "No partition found for key??".
THEOREM Covering == Spec => []KeySpaceCovered
<1>1. IInv => KeySpaceCovered
  BY DEF IInv, KeySpaceCovered
<1> QED
  BY Invariance, <1>1, PTL

\* _moveData leaves every entry in the partition whose bounds cover its key, and
\* no copy of it behind.
THEOREM Placement == Spec => []EntriesInOnePlace
<1>1. IInv => EntriesInOnePlace
  BY DEF IInv, EntriesInOnePlace
<1> QED
  BY Invariance, <1>1, PTL

-----------------------------------------------------------------------------
\* A key is covered by one partition only, the one that insert and search use.
LEMMA OnePartition ==
  ASSUME IInv, NEW k \in Keys, NEW p \in Parts, ContainsKey(partitions[p], k)
  PROVE  /\ IsPartitionFor(p, k)
         /\ \A q \in Parts : ContainsKey(partitions[q], k) => q = p
<1>1. TypeOK /\ PartitionsOrdered
  BY DEF IInv
<1>2. k \in Int /\ Parts = 1 .. Len(partitions) /\ Len(partitions) \in Nat
  BY <1>1, KeysAssumption, LenProperties DEF TypeOK, Parts
<1>3. ASSUME NEW a \in Parts, NEW b \in Parts, a < b,
             ContainsKey(partitions[a], k), ContainsKey(partitions[b], k)
      PROVE  FALSE
  <2>1. /\ partitions[a].endKey # NoKey /\ partitions[b].startKey # NoKey
        /\ partitions[a].endKey <= partitions[b].startKey
    BY <1>1, <1>3 DEF PartitionsOrdered
  <2>2. partitions[a].endKey \in Int /\ partitions[b].startKey \in Int
    BY <1>1, <2>1, PartFacts
  <2> QED
    BY <1>2, <1>3, <2>1, <2>2 DEF ContainsKey
<1>4. \A q \in Parts : ContainsKey(partitions[q], k) => q = p
  BY <1>2, <1>3
<1> QED
  BY <1>2, <1>4 DEF IsPartitionFor

\* search answers with the stored row of a stored key, and with null otherwise.
THEOREM Searching == Spec => []SearchFindsWhatIsStored
<1>1. ASSUME IInv, NEW k \in Keys, NEW r \in Rows \cup {NoRow}
      PROVE  SearchAnswers(k, r) <=>
               IF k \in KeysOf(StoredEntries)
               THEN [key |-> k, row |-> r] \in StoredEntries
               ELSE r = NoRow
  <2>1. /\ TypeOK /\ EveryKeyHasPartition /\ EntriesWithinBounds
    BY <1>1 DEF IInv
  <2>2. PICK p \in Parts : ContainsKey(partitions[p], k)
    BY <2>1 DEF EveryKeyHasPartition
  <2>3. /\ IsPartitionFor(p, k)
        /\ \A q \in Parts : ContainsKey(partitions[q], k) => q = p
    BY <1>1, <2>2, OnePartition
  <2>4. \A e \in StoredEntries : e.key = k => e \in partitions[p].entries
    BY <2>1, <2>3 DEF StoredEntries, EntriesWithinBounds
  <2>5. /\ k \in KeysOf(StoredEntries) <=> k \in KeysOf(partitions[p].entries)
        /\ [key |-> k, row |-> r] \in StoredEntries <=>
             [key |-> k, row |-> r] \in partitions[p].entries
    BY <2>4 DEF StoredEntries, KeysOf
  <2>6. SearchAnswers(k, r) <=>
          \/ [key |-> k, row |-> r] \in partitions[p].entries
          \/ r = NoRow /\ k \notin KeysOf(partitions[p].entries)
    BY <2>3 DEF SearchAnswers, IsPartitionFor
  <2>7. [key |-> k, row |-> r] \in partitions[p].entries =>
          r # NoRow /\ k \in KeysOf(partitions[p].entries)
    <3> SUFFICES ASSUME [key |-> k, row |-> r] \in partitions[p].entries
                 PROVE  r # NoRow /\ k \in KeysOf(partitions[p].entries)
      OBVIOUS
    <3>1. [key |-> k, row |-> r] \in Entry
      BY <2>1, PartFacts
    <3> QED
      BY <3>1, RowsAssumption DEF Entry, KeysOf
  <2> QED
    BY <2>5, <2>6, <2>7
<1>2. IInv => SearchFindsWhatIsStored
  BY <1>1 DEF SearchFindsWhatIsStored
<1> QED
  BY Invariance, <1>2, PTL

\* Skipping the partitions that do not intersect [a, b) loses no entry of it.
THEOREM RangeSearching == Spec => []RangeSearchSound
<1>1. ASSUME IInv, NEW a \in Keys \cup {NoKey}, NEW b \in Keys \cup {NoKey},
             NEW p \in Parts, NEW e \in partitions[p].entries,
             InRange(e.key, a, b), e.key # b
      PROVE  RangeIntersects(partitions[p], a, b)
  <2>1. TypeOK /\ ContainsKey(partitions[p], e.key)
    BY <1>1 DEF IInv, EntriesWithinBounds
  <2>2. /\ partitions[p].startKey \in Int \/ partitions[p].startKey = NoKey
        /\ partitions[p].endKey \in Int \/ partitions[p].endKey = NoKey
        /\ e.key \in Int
    BY <2>1, PartFacts
  <2>3. (a \in Int \/ a = NoKey) /\ (b \in Int \/ b = NoKey)
    BY KeysAssumption
  <2> QED
    BY <1>1, <2>1, <2>2, <2>3 DEF InRange, ContainsKey, RangeIntersects
<1>2. IInv => RangeSearchSound
  BY <1>1 DEF RangeSearchSound, RangeSearch, StoredEntries
<1> QED
  BY Invariance, <1>2, PTL

-----------------------------------------------------------------------------
\* Half of what overflows a partition.
Half == (MaxPartitionSize + 1) \div 2

\* The numbers of entries in a partition before and after an insert.
LEMMA GrownSize ==
  ASSUME IInv, NEW k \in Keys, NEW r \in Rows, NEW p \in Parts,
         k \notin KeysOf(StoredEntries)
  PROVE  /\ Cardinality(partitions[p].entries) \in Nat
         /\ Cardinality(Grown(p, k, r).entries) =
              Cardinality(partitions[p].entries) + 1
<1> DEFINE n == [key |-> k, row |-> r]
<1>1. TypeOK
  BY DEF IInv
<1>2. IsFiniteSet(partitions[p].entries)
  BY <1>1 DEF TypeOK
<1>3. n \notin partitions[p].entries
  BY StoredFacts
<1>4. Grown(p, k, r).entries = partitions[p].entries \cup {n}
  BY <1>1, GrownFacts
<1> QED
  BY <1>2, <1>3, <1>4, FS_CardinalityType, FS_AddElement

\* The median cuts an overflowing set of entries into its halves.
LEMMA HalfSizes ==
  ASSUME NEW S, IsFiniteSet(S), \A e \in S : e.key \in Int, NEW m \in Int,
         Cardinality(S) = MaxPartitionSize + 1, IsMedianKey(S, m)
  PROVE  /\ Cardinality({e \in S : e.key < m}) = Half
         /\ Cardinality({e \in S : m <= e.key}) = MaxPartitionSize + 1 - Half
<1> DEFINE L == {e \in S : e.key < m}
           U == {e \in S : m <= e.key}
<1>1. Cardinality(L) = Half
  BY DEF IsMedianKey, Half
<1>2. U = S \ L
  OBVIOUS
<1>3. IsFiniteSet(L) /\ S \cap L = L
  BY FS_Subset
<1>4. Cardinality(S \ L) = Cardinality(S) - Cardinality(S \cap L)
  BY <1>3, FS_Difference
<1>5. Cardinality(U) = Cardinality(S) - Cardinality(L)
  BY <1>2, <1>3, <1>4
<1> HIDE DEF L, U
<1>6. Cardinality(U) = MaxPartitionSize + 1 - Half
  BY <1>1, <1>5, SizeAssumption DEF Half
<1> QED
  BY <1>1, <1>6 DEF L, U

\* The sizes hold when nothing has been inserted, and every step keeps them.
LEMMA SizesStep == IInv /\ SizesBalanced /\ [Next]_vars => SizesBalanced'
<1> SUFFICES ASSUME IInv, SizesBalanced, [Next]_vars PROVE SizesBalanced'
  OBVIOUS
<1>1. /\ TypeOK /\ MaxPartitionSize \in Nat /\ 1 <= Half
      /\ Half \in Nat /\ Half <= MaxPartitionSize + 1 - Half
  BY SizeAssumption DEF IInv, Half
<1>2. Parts = 1 .. Len(partitions) /\ Len(partitions) \in Nat
  BY <1>1, LenProperties DEF TypeOK, Parts
<1>3. \A q \in Parts :
        /\ Cardinality(partitions[q].entries) \in Nat
        /\ Cardinality(partitions[q].entries) <= MaxPartitionSize
        /\ Len(partitions) > 1 => Half <= Cardinality(partitions[q].entries)
  BY <1>1, FS_CardinalityType DEF SizesBalanced, Half, TypeOK
<1>4. ASSUME NEW k \in Keys, NEW r \in Rows, NEW p \in Parts,
             k \notin KeysOf(StoredEntries), Within(p, k, r),
             Cardinality(Grown(p, k, r).entries) <= MaxPartitionSize
      PROVE  SizesBalanced'
  <2>1. /\ Cardinality(Grown(p, k, r).entries) =
             Cardinality(partitions[p].entries) + 1
    BY <1>4, GrownSize
  <2>2. Len(partitions') = Len(partitions) /\ Parts' = Parts
    BY <1>4 DEF Within, Parts
  <2>3. \A q \in Parts : q # p => partitions'[q] = partitions[q]
    BY <1>4 DEF Within
  <2>4. partitions'[p] = Grown(p, k, r)
    BY <1>4 DEF Within
  <2> QED
    BY <1>1, <1>3, <1>4, <2>1, <2>2, <2>3, <2>4 DEF SizesBalanced, Half
<1>5. ASSUME NEW k \in Keys, NEW r \in Rows, NEW p \in Parts, NEW m \in Keys,
             k \notin KeysOf(StoredEntries), Split(p, k, r, m),
             Cardinality(Grown(p, k, r).entries) > MaxPartitionSize,
             IsMedianKey(Grown(p, k, r).entries, m)
      PROVE  SizesBalanced'
  <2> DEFINE g == Grown(p, k, r)
  <2>1. /\ g \in Partition /\ IsFiniteSet(g.entries)
    BY <1>1, GrownFacts
  <2>2. Cardinality(g.entries) = MaxPartitionSize + 1
    BY <1>1, <1>3, <1>5, GrownSize
  <2>3. m \in Int /\ \A e \in g.entries : e.key \in Int
    BY <2>1, KeysAssumption DEF Partition, Entry
  <2>4. /\ Cardinality({e \in g.entries : e.key < m}) = Half
        /\ Cardinality({e \in g.entries : m <= e.key}) = MaxPartitionSize + 1 - Half
    BY <1>5, <2>1, <2>2, <2>3, HalfSizes
  <2>5. /\ partitions'[p].entries = {e \in g.entries : e.key < m}
        /\ partitions'[p + 1].entries = {e \in g.entries : m <= e.key}
    BY <1>5, <2>1 DEF Split, Lower, Upper, Partition
  <2>6. ASSUME NEW q \in Parts', q # p, q # p + 1
        PROVE  \E o \in Parts : o # p /\ partitions'[q] = partitions[o]
    <3>1. CASE q < p
      BY <3>1, <1>2, <1>5 DEF Split, Parts
    <3>2. CASE q > p + 1
      <4>1. q - 1 \in Parts /\ q - 1 # p /\ partitions'[q] = partitions[q - 1]
        BY <3>2, <1>2, <1>5 DEF Split, Parts
      <4> QED
        BY <4>1
    <3> QED
      BY <2>6, <3>1, <3>2, <1>2, <1>5 DEF Split, Parts
  <2>7. ASSUME NEW o \in Parts, o # p
        PROVE  Len(partitions) > 1
    BY <2>7, <1>2
  <2> HIDE DEF g
  <2>8. ASSUME NEW q \in Parts'
        PROVE  /\ Cardinality(partitions'[q].entries) <= MaxPartitionSize
               /\ Half <= Cardinality(partitions'[q].entries)
    <3>1. CASE q = p
      BY <3>1, <1>1, <2>4, <2>5
    <3>2. CASE q = p + 1
      BY <3>2, <1>1, <2>4, <2>5
    <3>3. CASE q # p /\ q # p + 1
      BY <3>3, <1>3, <2>6, <2>7
    <3> QED
      BY <3>1, <3>2, <3>3
  <2> QED
    <3>1. \A q \in Parts' : Cardinality(partitions'[q].entries) \in Nat
      <4>1. \A q \in Parts' : IsFiniteSet(partitions'[q].entries)
        <5>1. IInv'
          BY IInvStep
        <5> QED
          BY <5>1 DEF IInv, TypeOK
      <4> QED
        BY <4>1, FS_CardinalityType
    <3> QED
      BY <1>1, <2>8, <3>1 DEF SizesBalanced, Half
<1>6. ASSUME NEW k \in Keys, NEW r \in Rows, Insert(k, r)
      PROVE  SizesBalanced'
  BY <1>1, <1>4, <1>5, <1>6, InsertShape
<1>7. CASE UNCHANGED vars
  BY <1>7 DEF vars, SizesBalanced, Parts
<1> QED
  BY <1>6, <1>7 DEF Next

\* A partition never exceeds maxPartitionSize, and after a split none has less
\* than half of what overflows one.
THEOREM Balance == Spec => []SizesBalanced
<1>1. Init => SizesBalanced
  <2> SUFFICES ASSUME Init PROVE SizesBalanced
    OBVIOUS
  <2>1. Len(partitions) = 1 /\ Parts = 1 .. 1 /\ partitions[1].entries = {}
    BY DEF Init, Parts
  <2> QED
    BY <2>1, FS_EmptySet, SizeAssumption DEF SizesBalanced
<1> QED
  BY Invariance, <1>1, SizesStep, PTL DEF Spec

-----------------------------------------------------------------------------
\* Every boundary stays for ever.
THEOREM BoundariesStay == Spec => BoundariesPersist
<1>1. IInv /\ [Next]_vars => [StartKeys \subseteq StartKeys']_vars
  <2> SUFFICES ASSUME IInv, NEW k \in Keys, NEW r \in Rows, Insert(k, r)
               PROVE  StartKeys \subseteq StartKeys'
    BY DEF Next
  <2>1. TypeOK /\ Parts = 1 .. Len(partitions) /\ Len(partitions) \in Nat
    BY LenProperties DEF IInv, TypeOK, Parts
  <2>2. PICK p \in Parts : Within(p, k, r) \/ \E m \in Keys : Split(p, k, r, m)
    BY <2>1, InsertShape
  <2>3. Grown(p, k, r).startKey = partitions[p].startKey
    BY <2>1, GrownFacts
  <2>4. CASE Within(p, k, r)
    BY <2>3, <2>4 DEF Within, StartKeys, Parts
  <2>5. ASSUME NEW m \in Keys, Split(p, k, r, m), NEW q \in Parts
        PROVE  \E o \in Parts' : partitions'[o].startKey = partitions[q].startKey
    <3>1. Parts' = 1 .. Len(partitions) + 1
      BY <2>5 DEF Split, Parts
    <3>2. CASE q < p
      BY <3>1, <3>2, <2>1, <2>5 DEF Split
    <3>3. CASE q = p
      <4>1. Grown(p, k, r) \in Partition
        BY <2>1, GrownFacts
      <4>2. partitions'[p].startKey = partitions[p].startKey
        BY <2>3, <2>5, <4>1 DEF Split, Lower, Partition
      <4> QED
        BY <3>1, <3>3, <4>2, <2>1
    <3>4. CASE q > p
      <4>1. q + 1 \in Parts' /\ partitions'[q + 1] = partitions[q]
        BY <3>1, <3>4, <2>1, <2>5 DEF Split
      <4> QED
        BY <4>1
    <3> QED
      BY <3>2, <3>3, <3>4, <2>1
  <2> QED
    BY <2>2, <2>4, <2>5 DEF StartKeys
<1> QED
  BY Invariance, <1>1, PTL DEF Spec, BoundariesPersist

-----------------------------------------------------------------------------
\* Whatever partitions it goes through, an insert adds its entry and no other,
\* and loses none.
LEMMA InsertAddsOne ==
  ASSUME IInv, NEW k \in Keys, NEW r \in Rows, Insert(k, r)
  PROVE  StoredEntries' = StoredEntries \cup {[key |-> k, row |-> r]}
<1> DEFINE n == [key |-> k, row |-> r]
<1>1. TypeOK /\ Parts = 1 .. Len(partitions) /\ Len(partitions) \in Nat
  BY LenProperties DEF IInv, TypeOK, Parts
<1>2. PICK p \in Parts : Within(p, k, r) \/ \E m \in Keys : Split(p, k, r, m)
  BY <1>1, InsertShape
<1>3. /\ Grown(p, k, r).entries = partitions[p].entries \cup {n}
      /\ Grown(p, k, r) \in Partition
  BY <1>1, GrownFacts
<1>4. CASE Within(p, k, r)
  <2>1. Parts' = Parts
    BY <1>4 DEF Within, Parts
  <2>2. \A q \in Parts : partitions'[q].entries =
          IF q = p THEN partitions[q].entries \cup {n} ELSE partitions[q].entries
    BY <1>3, <1>4 DEF Within
  <2>3. ASSUME NEW e \in StoredEntries'
        PROVE  e \in StoredEntries \cup {n}
    <3>1. PICK q \in Parts : e \in partitions'[q].entries
      BY <2>1 DEF StoredEntries
    <3>2. e \in partitions[q].entries \cup {n}
      BY <2>2, <3>1
    <3> QED
      BY <3>2 DEF StoredEntries
  <2>4. ASSUME NEW e \in StoredEntries \cup {n}
        PROVE  e \in StoredEntries'
    <3>1. CASE e = n
      BY <2>1, <2>2, <3>1, <1>2 DEF StoredEntries
    <3>2. CASE e \in StoredEntries
      <4>1. PICK q \in Parts : e \in partitions[q].entries
        BY <3>2 DEF StoredEntries
      <4>2. e \in partitions'[q].entries
        BY <2>2, <4>1
      <4> QED
        BY <2>1, <4>2 DEF StoredEntries
    <3> QED
      BY <2>4, <3>1, <3>2
  <2> QED
    BY <2>3, <2>4
<1>5. ASSUME NEW m \in Keys, Split(p, k, r, m)
      PROVE  StoredEntries' = StoredEntries \cup {n}
  <2>1. Parts' = 1 .. Len(partitions) + 1
    BY <1>5 DEF Split, Parts
  <2>2. \A e \in Grown(p, k, r).entries : e.key \in Int /\ m \in Int
    BY <1>3, KeysAssumption DEF Partition, Entry
  <2>3. partitions'[p].entries \cup partitions'[p + 1].entries =
          partitions[p].entries \cup {n}
    <3> DEFINE g == Grown(p, k, r)
    <3>1. /\ partitions'[p].entries = {e \in g.entries : e.key < m}
          /\ partitions'[p + 1].entries = {e \in g.entries : m <= e.key}
      BY <1>3, <1>5 DEF Split, Lower, Upper, Partition
    <3> HIDE DEF g
    <3>2. \A e \in g.entries : e.key < m \/ m <= e.key
      BY <2>2 DEF g
    <3>3. partitions'[p].entries \cup partitions'[p + 1].entries = g.entries
      BY <3>1, <3>2
    <3> QED
      BY <1>3, <3>3 DEF g
  <2>4. ASSUME NEW e \in StoredEntries'
        PROVE  e \in StoredEntries \cup {n}
    <3>1. PICK q \in Parts' : e \in partitions'[q].entries
      BY DEF StoredEntries
    <3>2. CASE q < p
      BY <3>1, <3>2, <1>1, <1>5, <2>1 DEF Split, StoredEntries
    <3>3. CASE q = p \/ q = p + 1
      BY <3>1, <3>3, <2>3 DEF StoredEntries
    <3>4. CASE q > p + 1
      <4>1. q - 1 \in Parts /\ partitions'[q] = partitions[q - 1]
        BY <3>4, <1>1, <1>5, <2>1 DEF Split
      <4> QED
        BY <3>1, <4>1 DEF StoredEntries
    <3> QED
      BY <3>2, <3>3, <3>4, <1>1, <2>1
  <2>5. ASSUME NEW e \in StoredEntries \cup {n}
        PROVE  e \in StoredEntries'
    <3>1. PICK q \in Parts : e \in partitions[q].entries \/ (e = n /\ q = p)
      BY DEF StoredEntries
    <3>2. CASE q < p
      BY <3>1, <3>2, <1>1, <1>5, <2>1 DEF Split, StoredEntries
    <3>3. CASE q = p
      <4>1. p \in Parts' /\ p + 1 \in Parts'
        BY <1>1, <2>1
      <4>2. e \in partitions'[p].entries \/ e \in partitions'[p + 1].entries
        BY <3>1, <3>3, <2>3
      <4> QED
        BY <4>1, <4>2 DEF StoredEntries
    <3>4. CASE q > p
      <4>1. q + 1 \in Parts' /\ partitions'[q + 1] = partitions[q]
        BY <3>4, <1>1, <1>5, <2>1 DEF Split
      <4> QED
        BY <3>1, <3>4, <4>1, <1>1 DEF StoredEntries
    <3> QED
      BY <3>2, <3>3, <3>4, <1>1
  <2> QED
    BY <2>4, <2>5
<1> QED
  BY <1>2, <1>4, <1>5

\* The partitioned index implements the flat map.
THEOREM Refinement == Spec => ImplementsKeyIndex
<1>1. Init => Flat!Init
  <2> SUFFICES ASSUME Init PROVE StoredEntries = {}
    BY DEF Flat!Init
  <2>1. Parts = 1 .. 1 /\ partitions[1].entries = {}
    BY DEF Init, Parts
  <2> QED
    BY <2>1 DEF StoredEntries
<1>2. IInv /\ [Next]_vars => [Flat!Next]_StoredEntries
  <2> SUFFICES ASSUME IInv, [Next]_vars
               PROVE  Flat!Next \/ StoredEntries' = StoredEntries
    OBVIOUS
  <2>1. ASSUME NEW k \in Keys, NEW r \in Rows, Insert(k, r)
        PROVE  Flat!Insert(k, r)
    <3>1. k \notin KeysOf(StoredEntries)
      BY <2>1 DEF Insert
    <3> QED
      BY <2>1, <3>1, InsertAddsOne DEF Flat!Insert, Flat!KeysOf, KeysOf
  <2>2. CASE UNCHANGED vars
    BY <2>2 DEF vars, StoredEntries, Parts
  <2> QED
    BY <2>1, <2>2 DEF Next, Flat!Next
<1> QED
  BY Invariance, <1>1, <1>2, PTL DEF Spec, ImplementsKeyIndex, Flat!Spec
=============================================================================
