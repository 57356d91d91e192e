-------------------- MODULE UnifiedPartitionIndexProofs ---------------------
(***************************************************************************)
(* The partition list over its trees, for callers with unique keys and for *)
(* any keys, rows, order and capacity.  What a tree does comes from        *)
(* BPTreeIndexProofs, whose operators on trees are instanced as T; what a  *)
(* list of partitions does comes from PartitionedIndexProofs, instanced as *)
(* P for the sets of entries in the trees.  Between the two are the        *)
(* operators that this module's code adds: _findMedianKey, _moveData entry *)
(* by entry, _splitPartition on the list, and the queries over it.         *)
(***************************************************************************)
EXTENDS UnifiedPartitionIndex, SequenceLemmas

\* The lemmas about one tree.
T == INSTANCE BPTreeIndexProofs
       WITH Callers <- {}, caller <- 0, tree <- 0, removed <- 0

-----------------------------------------------------------------------------
\* The trees of T are those of this module.

\* The parts of a tree that no recursion passes.
LEMMA SameParts ==
  /\ T!Entry = Entry /\ T!Orders = Orders /\ T!Nodes = Nodes
  /\ \A order : T!EmptyTree(order) = EmptyTree(order)
  /\ \A k, a, b : T!InRange(k, a, b) = InRange(k, a, b)
<1>1. T!Entry = Entry /\ T!Orders = Orders
  BY DEF T!Entry, Entry, T!Orders, Orders
<1>2. T!Nodes = Nodes
  BY DEF T!Nodes, Nodes
<1>3. ASSUME NEW order PROVE T!EmptyTree(order) = EmptyTree(order)
  BY DEF T!EmptyTree, EmptyTree, T!Tree, Tree, T!Leaf, Leaf
<1>4. ASSUME NEW k, NEW a, NEW b PROVE T!InRange(k, a, b) = InRange(k, a, b)
  BY DEF T!InRange, InRange
<1> QED
  BY <1>1, <1>2, <1>3, <1>4

\* The walk over a tree.
LEMMA SameContents ==
  ASSUME NEW t
  PROVE  T!ContentsOf(t) = ContentsOf(t) /\ T!EntriesOf(t) = EntriesOf(t)
<1>1. T!Contents = Contents
  BY DEF T!Contents, Contents, T!LeafContents, LeafContents, T!FlattenSeq, FlattenSeq,
         T!Nodes, Nodes
<1>2. T!ContentsOf(t) = ContentsOf(t)
  BY <1>1 DEF T!ContentsOf, ContentsOf
<1> QED
  BY <1>2 DEF T!EntriesOf, EntriesOf, T!Range, Range

\* A range search.
LEMMA SameRange ==
  ASSUME NEW t, NEW a, NEW b
  PROVE  T!RangeSearchEncoded(t, a, b) = RangeSearchEncoded(t, a, b)
<1> DEFINE c == ContentsOf(t)
<1>1. T!ContentsOf(t) = c
  BY SameContents
<1> HIDE DEF c
<1>2. T!RangeSearchEncoded(t, a, b) =
        T!FlattenSeq([i \in 1 .. Len(c) |->
          IF T!InRange(c[i].key, a, b) THEN << c[i] >> ELSE << >>])
  BY <1>1 DEF T!RangeSearchEncoded
<1>3. RangeSearchEncoded(t, a, b) =
        FlattenSeq([i \in 1 .. Len(c) |->
          IF InRange(c[i].key, a, b) THEN << c[i] >> ELSE << >>])
  BY DEF RangeSearchEncoded, c
<1> DEFINE s == [i \in 1 .. Len(c) |-> IF InRange(c[i].key, a, b) THEN << c[i] >> ELSE << >>]
<1>4. [i \in 1 .. Len(c) |-> IF T!InRange(c[i].key, a, b) THEN << c[i] >> ELSE << >>] = s
  BY DEF T!InRange, InRange
<1> HIDE DEF s
<1>5. T!FlattenSeq(s) = FlattenSeq(s)
  BY DEF T!FlattenSeq, FlattenSeq
<1> QED
  BY <1>2, <1>3, <1>4, <1>5 DEF s

\* A search.
LEMMA SameSearch ==
  ASSUME NEW t, NEW k
  PROVE  T!SearchEncoded(t, k) = SearchEncoded(t, k)
<1>1. T!SearchNode(k) = SearchNode(k)
  BY DEF T!SearchNode, SearchNode, T!SearchLeaf, SearchLeaf, T!DescendPos, DescendPos,
         T!FirstPos, FirstPos, T!SelectInSeq, SelectInSeq, T!Min, Min, T!Nodes, Nodes
<1> QED
  BY <1>1 DEF T!SearchEncoded, SearchEncoded

\* A removal.
LEMMA SameRemove ==
  ASSUME NEW t, NEW k
  PROVE  T!RemoveEncoded(t, k) = RemoveEncoded(t, k)
<1>1. T!RemoveRecursive(k) = RemoveRecursive(k)
  BY DEF T!RemoveRecursive, RemoveRecursive, T!LeafRemove, LeafRemove, T!DescendPos,
         DescendPos, T!FirstPos, FirstPos, T!Leaf, Leaf, T!Internal, Internal,
         T!SelectInSeq, SelectInSeq, T!RemoveAt, RemoveAt, T!ReplaceAt, ReplaceAt,
         T!Min, Min, T!Nodes, Nodes
<1> QED
  BY <1>1 DEF T!RemoveEncoded, RemoveEncoded, T!Tree, Tree

\* What an insert does at a node, given what it does at each child.
InsertAtNode(order, k, r, below, node) ==
  LET pos == FindInsertPos(node.keys, k)
  IN  IF node.leaf
      THEN LeafInsert(order, node, pos, k, r)
      ELSE AdoptBelow(order, node, pos, below[node.children[pos]])

\* A function that does it at every node of every height.
InsertsAll(f, order, k, r) ==
  f = [h \in Nat |-> [node \in Nodes[h] |-> InsertAtNode(order, k, r, f[h - 1], node)]]

\* The pieces of an insert.
LEMMA SamePieces ==
  ASSUME NEW order, NEW node, NEW pos, NEW k, NEW r, NEW below
  PROVE  /\ T!FindInsertPos(node.keys, k) = FindInsertPos(node.keys, k)
         /\ T!LeafInsert(order, node, pos, k, r) = LeafInsert(order, node, pos, k, r)
         /\ T!AdoptBelow(order, node, pos, below) = AdoptBelow(order, node, pos, below)
<1>1. T!FindInsertPos(node.keys, k) = FindInsertPos(node.keys, k)
  BY DEF T!FindInsertPos, FindInsertPos, T!FirstPos, FirstPos, T!SelectInSeq,
         SelectInSeq, T!Min, Min
<1>2. /\ \A x, y : T!Leaf(x, y) = Leaf(x, y)
      /\ \A x, y : T!Internal(x, y) = Internal(x, y)
      /\ \A x : T!Whole(x) = Whole(x)
  BY DEF T!Leaf, Leaf, T!Internal, Internal, T!Whole, Whole
<1>3. /\ \A s, i, e : T!InsertAt(s, i, e) = InsertAt(s, i, e)
      /\ \A s, i, e : T!ReplaceAt(s, i, e) = ReplaceAt(s, i, e)
      /\ T!MaxLeafKeys(order) = MaxLeafKeys(order)
      /\ T!MaxInternalKeys(order) = MaxInternalKeys(order)
  BY DEF T!InsertAt, InsertAt, T!ReplaceAt, ReplaceAt, T!MaxLeafKeys, MaxLeafKeys,
         T!MaxInternalKeys, MaxInternalKeys
<1>4. ASSUME NEW x PROVE T!SplitLeaf(x) = SplitLeaf(x)
  BY DEF T!SplitLeaf, SplitLeaf, T!Leaf, Leaf
<1>5. ASSUME NEW x PROVE T!SplitInternal(x) = SplitInternal(x)
  BY DEF T!SplitInternal, SplitInternal, T!Internal, Internal
<1>6. T!LeafInsert(order, node, pos, k, r) = LeafInsert(order, node, pos, k, r)
  BY <1>2, <1>3, <1>4, Zenon DEF T!LeafInsert, LeafInsert
<1>7. T!AdoptBelow(order, node, pos, below) = AdoptBelow(order, node, pos, below)
  BY <1>2, <1>3, <1>5, SMT DEF T!AdoptBelow, AdoptBelow
<1> QED
  BY <1>1, <1>6, <1>7

\* The insert of T is such a function.
LEMMA InsertOfT ==
  ASSUME NEW order, NEW k, NEW r
  PROVE  InsertsAll(T!InsertRecursive(order, k, r), order, k, r)
<1> DEFINE g == T!InsertRecursive(order, k, r)
<1>1. g = [h \in Nat |-> T!InsertStep(order, k, r, g[h - 1], h)]
  BY ONLY T!InsertRecursiveAt, KeysAssumption, RowsAssumption
<1> HIDE DEF g
<1>2. ASSUME NEW h \in Nat
      PROVE  T!InsertStep(order, k, r, g[h - 1], h) =
               [node \in Nodes[h] |-> InsertAtNode(order, k, r, g[h - 1], node)]
  <2> DEFINE below == g[h - 1]
  <2>1. ASSUME NEW node
        PROVE  (LET pos == T!FindInsertPos(node.keys, k)
                IN  IF node.leaf
                    THEN T!LeafInsert(order, node, pos, k, r)
                    ELSE T!AdoptBelow(order, node, pos, below[node.children[pos]]))
                  = InsertAtNode(order, k, r, below, node)
    BY SamePieces DEF InsertAtNode
  <2>2. T!Nodes[h] = Nodes[h]
    BY SameParts
  <2> HIDE DEF below
  <2>3. T!InsertStep(order, k, r, below, h) =
          [node \in Nodes[h] |-> InsertAtNode(order, k, r, below, node)]
    BY <2>1, <2>2 DEF T!InsertStep
  <2> QED
    BY <2>3 DEF below
<1>3. g = [h \in Nat |-> [node \in Nodes[h] |-> InsertAtNode(order, k, r, g[h - 1], node)]]
  BY <1>1, <1>2
<1> QED
  BY <1>3 DEF InsertsAll, g

\* There is one such function.
LEMMA InsertIsOne ==
  ASSUME NEW order, NEW k, NEW r, NEW f, InsertsAll(f, order, k, r),
         NEW g, InsertsAll(g, order, k, r)
  PROVE  f = g
<1> DEFINE D(b, h) == [node \in Nodes[h] |-> InsertAtNode(order, k, r, b, node)]
           S == {h \in Nat : f[h] = g[h]}
<1>1. f = [h \in Nat |-> D(f[h - 1], h)] /\ g = [h \in Nat |-> D(g[h - 1], h)]
  BY DEF InsertsAll
<1>2. \A b, c : D(b, 0) = D(c, 0)
  <2>1. \A node \in Nodes[0] : node.leaf = TRUE
    <3>1. T!Nodes[0] = [leaf : {TRUE}, keys : Seq(Keys), records : Seq(Rows),
                        children : {<< >>}]
      BY ONLY T!NodesAt, KeysAssumption, RowsAssumption
    <3>2. T!Nodes = Nodes
      BY SameParts
    <3>3. Nodes[0] = [leaf : {TRUE}, keys : Seq(Keys), records : Seq(Rows),
                      children : {<< >>}]
      BY ONLY <3>1, <3>2
    <3> TAKE node \in Nodes[0]
    <3>4. node \in [leaf : {TRUE}, keys : Seq(Keys), records : Seq(Rows),
                    children : {<< >>}]
      BY <3>3
    <3> QED
      BY <3>4
  <2> QED
    BY <2>1 DEF InsertAtNode
<1> HIDE DEF D
<1>3. 0 \in S
  BY <1>1, <1>2
<1>4. ASSUME NEW h \in Nat, h \in S
      PROVE  h + 1 \in S
  <2>1. (h + 1) - 1 = h /\ h + 1 \in Nat
    OBVIOUS
  <2>2. f[h + 1] = D(f[h], h + 1) /\ g[h + 1] = D(g[h], h + 1)
    BY <1>1, <2>1
  <2> QED
    BY <1>4, <2>1, <2>2
<1> HIDE DEF S
<1>5. \A h \in Nat : h \in S
  BY <1>3, <1>4, NatInduct
<1>6. \A h \in Nat : f[h] = g[h]
  BY <1>5 DEF S
<1>7. f = [h \in Nat |-> f[h]] /\ g = [h \in Nat |-> g[h]]
  BY <1>1
<1> QED
  BY <1>6, <1>7

\* An insert.
LEMMA SameInsert ==
  ASSUME NEW t, NEW k, NEW r
  PROVE  T!InsertEncoded(t, k, r) = InsertEncoded(t, k, r)
<1>1. ASSUME NEW order
      PROVE  T!InsertRecursive(order, k, r) = InsertRecursive(order, k, r)
  <2>1. InsertsAll(T!InsertRecursive(order, k, r), order, k, r)
    BY InsertOfT
  <2>2. InsertRecursive(order, k, r) = CHOOSE f : InsertsAll(f, order, k, r)
    BY DEF InsertRecursive, InsertsAll, InsertAtNode
  <2>3. InsertsAll(InsertRecursive(order, k, r), order, k, r)
    BY <2>1, <2>2
  <2> QED
    BY <2>1, <2>3, InsertIsOne
<1>2. T!InsertRecursive(t.order, k, r) = InsertRecursive(t.order, k, r)
  BY <1>1
<1> QED
  BY <1>2 DEF T!InsertEncoded, InsertEncoded, T!Tree, Tree, T!Internal, Internal

-----------------------------------------------------------------------------
\* Entries in the order of their keys, no two with the same one.
LEMMA RisingFacts ==
  ASSUME NEW c, T!Rising(c)
  PROVE  /\ c \in Seq(Entry) /\ Len(c) \in Nat
         /\ \A i \in 1 .. Len(c) : c[i] \in Entry /\ c[i].key \in Keys /\ c[i].key \in Int
         /\ \A i, j \in 1 .. Len(c) : i < j => c[i].key < c[j].key
         /\ \A x : x \in Range(c) <=> \E i \in 1 .. Len(c) : x = c[i]
<1>1. c \in Seq(T!Entry) /\ \A i, j \in 1 .. Len(c) : i < j => c[i].key < c[j].key
  BY DEF T!Rising
<1>2. c \in Seq(Entry)
  BY <1>1, SameParts
<1>3. Len(c) \in Nat /\ \A i \in 1 .. Len(c) : c[i] \in Entry
  BY <1>2, LenProperties, ElementOfSeq
<1>4. \A i \in 1 .. Len(c) : c[i].key \in Keys /\ c[i].key \in Int
  BY <1>3, KeysAssumption DEF Entry
<1>5. DOMAIN c = 1 .. Len(c)
  BY <1>2, LenProperties
<1> QED
  BY <1>1, <1>2, <1>3, <1>4, <1>5 DEF Range

\* The other way round.
LEMMA RisingMade ==
  ASSUME NEW c \in Seq(Entry), \A i, j \in 1 .. Len(c) : i < j => c[i].key < c[j].key
  PROVE  T!Rising(c)
<1>1. c \in Seq(T!Entry)
  BY SameParts
<1> QED
  BY <1>1 DEF T!Rising

\* There are as many as their set has.
LEMMA RisingSize ==
  ASSUME NEW c, T!Rising(c)
  PROVE  IsFiniteSet(Range(c)) /\ Cardinality(Range(c)) = Len(c)
<1>1. T!IsFiniteSet(T!Range(c)) /\ T!Cardinality(T!Range(c)) = Len(c)
  BY ONLY T!Rising(c), T!RisingSize, KeysAssumption, RowsAssumption
<1>2. T!Range(c) = Range(c)
  BY DEF T!Range, Range
<1> DEFINE R == Range(c)
<1>3. T!IsFiniteSet(R) /\ T!Cardinality(R) = Len(c)
  BY <1>1, <1>2
<1> HIDE DEF R
<1>4. T!IsFiniteSet(R) = IsFiniteSet(R)
  BY DEF T!IsFiniteSet, IsFiniteSet
<1>5. T!Cardinality(R) = Cardinality(R)
  BY DEF T!Cardinality, Cardinality
<1> QED
  BY <1>3, <1>4, <1>5 DEF R

-----------------------------------------------------------------------------
\* One partition's tree.

\* A tree of the index with unique keys, and separators in S.
PieceTree(S, t) == T!UniqueTree(S, t) /\ t.order = Order

\* The trees of the index.
PieceTrees == T!Trees(Order)

\* Its entries, and their count.
LEMMA PieceFacts ==
  ASSUME NEW S, NEW t, PieceTree(S, t)
  PROVE  /\ t \in PieceTrees
         /\ IsFiniteSet(EntriesOf(t)) /\ t.keyCount = Cardinality(EntriesOf(t))
         /\ \A e \in EntriesOf(t) : e \in Entry /\ e.key \in S
<1> DEFINE R == EntriesOf(t)
<1>1. T!UniqueTree(S, t) /\ T!EntriesOf(t) = R /\ t.order = Order
  BY SameContents DEF PieceTree
<1>2. t \in T!Trees(t.order)
  BY ONLY <1>1, T!UniqueIsTree, KeysAssumption, RowsAssumption
<1>3. T!IsFiniteSet(T!EntriesOf(t)) /\ t.keyCount = T!Cardinality(T!EntriesOf(t))
  BY ONLY <1>1, T!UniqueCount, KeysAssumption, RowsAssumption
<1>4. \A e \in T!EntriesOf(t) : e \in T!Entry /\ e.key \in S
  BY ONLY <1>1, T!UniqueContents, KeysAssumption, RowsAssumption
<1> HIDE DEF R
<1>5. T!IsFiniteSet(R) = IsFiniteSet(R)
  BY DEF T!IsFiniteSet, IsFiniteSet
<1>6. T!Cardinality(R) = Cardinality(R)
  BY DEF T!Cardinality, Cardinality
<1>7. T!Entry = Entry
  BY SameParts
<1> QED
  BY <1>1, <1>2, <1>3, <1>4, <1>5, <1>6, <1>7 DEF R, PieceTrees

\* It goes on to be one with more separators.
LEMMA PieceGrows ==
  ASSUME NEW S, NEW Q, S \subseteq Q, NEW t, PieceTree(S, t)
  PROVE  PieceTree(Q, t)
<1>1. T!UniqueTree(S, t) /\ t.order = Order
  BY DEF PieceTree
<1>2. T!UniqueTree(Q, t)
  BY ONLY <1>1, S \subseteq Q, T!UniqueGrows, KeysAssumption, RowsAssumption
<1> QED
  BY <1>1, <1>2 DEF PieceTree

\* The tree a partition starts with.
LEMMA PieceEmpty ==
  PieceTree({}, EmptyTree(Order)) /\ EntriesOf(EmptyTree(Order)) = {}
<1> DEFINE t == EmptyTree(Order)
<1>1. Order \in T!Orders /\ t = T!EmptyTree(Order)
  BY CapacityAssumption, SameParts
<1> HIDE DEF t
<1>2. T!UniqueTree({}, t) /\ T!EntriesOf(t) = {} /\ t.order = Order
  BY ONLY <1>1, T!EmptyUnique, KeysAssumption, RowsAssumption
<1>3. EntriesOf(t) = {}
  BY <1>2, SameContents
<1> QED
  BY <1>2, <1>3 DEF PieceTree, t

\* What an insert and a removal make of it.
Gains(S, t, k, r, u) ==
  /\ PieceTree(S \cup {k}, u)
  /\ EntriesOf(u) = EntriesOf(t) \cup {[key |-> k, row |-> r]}

Loses(S, t, k, u) ==
  PieceTree(S, u) /\ EntriesOf(u) = {e \in EntriesOf(t) : e.key # k}

\* An insert of a key that is not in S.
LEMMA PieceInsert ==
  ASSUME NEW S, NEW t, PieceTree(S, t), NEW k \in Keys, k \notin S, NEW r \in Rows
  PROVE  Gains(S, t, k, r, InsertEncoded(t, k, r))
<1> DEFINE u == InsertEncoded(t, k, r)
<1>1. T!UniqueTree(S, t) /\ t.order = Order /\ u = T!InsertEncoded(t, k, r)
  BY SameInsert DEF PieceTree
<1> HIDE DEF u
<1>2. T!UniqueInserted(S, t, k, r, T!InsertEncoded(t, k, r))
  BY ONLY <1>1, k \in Keys, k \notin S, r \in Rows, T!InsertUnique, KeysAssumption,
          RowsAssumption
<1>3. /\ T!UniqueTree(S \cup {k}, u) /\ u.order = t.order
      /\ T!EntriesOf(u) = T!EntriesOf(t) \cup {[key |-> k, row |-> r]}
  BY <1>1, <1>2 DEF T!UniqueInserted
<1> QED
  BY <1>1, <1>3, SameContents DEF Gains, PieceTree, u

\* A removal.
LEMMA PieceRemove ==
  ASSUME NEW S, NEW t, PieceTree(S, t), NEW k \in Keys
  PROVE  Loses(S, t, k, RemoveEncoded(t, k))
<1> DEFINE u == RemoveEncoded(t, k)
<1>1. T!UniqueTree(S, t) /\ t.order = Order /\ u = T!RemoveEncoded(t, k)
  BY SameRemove DEF PieceTree
<1> HIDE DEF u
<1>2. T!UniqueRemoved(S, t, k, T!RemoveEncoded(t, k))
  BY ONLY <1>1, k \in Keys, T!RemoveUnique, KeysAssumption, RowsAssumption
<1>3. /\ T!UniqueTree(S, u) /\ u.order = t.order
      /\ T!EntriesOf(u) = {e \in T!EntriesOf(t) : e.key # k}
  BY <1>1, <1>2 DEF T!UniqueRemoved
<1> QED
  BY <1>1, <1>3, SameContents DEF Loses, PieceTree, u

\* A search.
LEMMA PieceSearch ==
  ASSUME NEW S, NEW t, PieceTree(S, t), NEW k \in Keys
  PROVE  IF \E e \in EntriesOf(t) : e.key = k
         THEN [key |-> k, row |-> SearchEncoded(t, k)] \in EntriesOf(t)
         ELSE SearchEncoded(t, k) = NoRow
<1>1. T!UniqueTree(S, t)
  BY DEF PieceTree
<1>2. IF \E e \in T!EntriesOf(t) : e.key = k
      THEN [key |-> k, row |-> T!SearchEncoded(t, k)] \in T!EntriesOf(t)
      ELSE T!SearchEncoded(t, k) = NoRow
  BY ONLY <1>1, k \in Keys, T!UniqueSearched, KeysAssumption, RowsAssumption
<1>3. T!EntriesOf(t) = EntriesOf(t) /\ T!SearchEncoded(t, k) = SearchEncoded(t, k)
  BY SameContents, SameSearch
<1> QED
  BY <1>2, <1>3

\* c has the entries of t in [a, b], in order.
Selects(c, t, a, b) ==
  /\ T!Rising(c)
  /\ \A e : e \in Range(c) <=> e \in EntriesOf(t) /\ InRange(e.key, a, b)

\* A range search.
LEMMA PieceRange ==
  ASSUME NEW S, NEW t, PieceTree(S, t), NEW a, NEW b
  PROVE  Selects(RangeSearchEncoded(t, a, b), t, a, b)
<1> DEFINE c == RangeSearchEncoded(t, a, b)
<1>1. T!UniqueTree(S, t) /\ c = T!RangeSearchEncoded(t, a, b)
  BY SameRange DEF PieceTree
<1>2. /\ T!Rising(T!RangeSearchEncoded(t, a, b))
      /\ \A e : e \in T!Range(T!RangeSearchEncoded(t, a, b)) <=>
                  e \in T!EntriesOf(t) /\ T!InRange(e.key, a, b)
  BY ONLY <1>1, T!UniqueRange, KeysAssumption, RowsAssumption
<1> HIDE DEF c
<1>3. T!Range(c) = Range(c)
  BY DEF T!Range, Range
<1>4. \A e : T!InRange(e.key, a, b) = InRange(e.key, a, b)
  BY SameParts
<1> QED
  BY <1>1, <1>2, <1>3, <1>4, SameContents DEF Selects, c

\* The key where a partition is cut.
LEMMA PieceMedian ==
  ASSUME NEW S, NEW t, PieceTree(S, t), EntriesOf(t) # {}
  PROVE  /\ FindMedianKey(t) \in Keys /\ \E e \in EntriesOf(t) : e.key = FindMedianKey(t)
         /\ Cardinality({e \in EntriesOf(t) : e.key < FindMedianKey(t)}) =
              Cardinality(EntriesOf(t)) \div 2
<1> DEFINE m == FindMedianKey(t)
           R == EntriesOf(t)
           L == {e \in R : e.key < m}
<1>1. T!UniqueTree(S, t) /\ T!EntriesOf(t) = R
  BY SameContents DEF PieceTree
<1>2. LET all == T!RangeSearchEncoded(t, NoKey, NoKey)
          n == all[(Len(all) \div 2) + 1].key
      IN  /\ n \in Keys /\ \E e \in T!EntriesOf(t) : e.key = n
          /\ T!Cardinality({e \in T!EntriesOf(t) : e.key < n}) =
               T!Cardinality(T!EntriesOf(t)) \div 2
  BY ONLY <1>1, EntriesOf(t) # {}, T!UniqueMedian, KeysAssumption, RowsAssumption
<1>3. m = LET all == T!RangeSearchEncoded(t, NoKey, NoKey)
          IN  all[(Len(all) \div 2) + 1].key
  BY SameRange DEF FindMedianKey
<1> HIDE DEF m
<1>4. /\ m \in Keys /\ \E e \in R : e.key = m
      /\ T!Cardinality(L) = T!Cardinality(R) \div 2
  BY <1>1, <1>2, <1>3
<1> HIDE DEF R, L
<1>5. T!Cardinality(L) = Cardinality(L) /\ T!Cardinality(R) = Cardinality(R)
  BY DEF T!Cardinality, Cardinality
<1> QED
  BY <1>4, <1>5 DEF m, R, L

-----------------------------------------------------------------------------
\* _moveData.

\* One entry on its way from the old tree to the new one.
MoveOne(x, e) ==
  [from |-> RemoveEncoded(x.from, e.key), to |-> InsertEncoded(x.to, e.key, e.row)]

\* The first n of data on their way.
MovesUpTo(f, x, data, n) ==
  f = [i \in 0 .. n |-> IF i = 0 THEN x ELSE MoveOne(f[i - 1], data[i])]

\* The recursion of MoveData has a solution.
LEMMA MoveRecursion ==
  ASSUME NEW x, NEW data, NEW n \in Nat
  PROVE  \E f : MovesUpTo(f, x, data, n)
<1> DEFINE S == {m \in Nat : \E f : MovesUpTo(f, x, data, m)}
<1>1. 0 \in S
  <2> DEFINE f == [i \in 0 .. 0 |-> x]
  <2>1. f = [i \in 0 .. 0 |-> IF i = 0 THEN x ELSE MoveOne(f[i - 1], data[i])]
    OBVIOUS
  <2> HIDE DEF f
  <2>2. MovesUpTo(f, x, data, 0)
    BY <2>1 DEF MovesUpTo
  <2> QED
    BY <2>2
<1>2. ASSUME NEW m \in Nat, m \in S
      PROVE  m + 1 \in S
  <2>1. PICK f : MovesUpTo(f, x, data, m)
    BY <1>2
  <2> DEFINE g == [i \in 0 .. m + 1 |-> IF i <= m THEN f[i] ELSE MoveOne(f[m], data[m + 1])]
  <2>2. ASSUME NEW i \in 0 .. m + 1
        PROVE  g[i] = IF i = 0 THEN x ELSE MoveOne(g[i - 1], data[i])
    <3>1. \A j \in 0 .. m : f[j] = IF j = 0 THEN x ELSE MoveOne(f[j - 1], data[j])
      BY <2>1 DEF MovesUpTo
    <3>2. CASE i <= m
      <4>1. i \in 0 .. m /\ g[i] = f[i] /\ (i # 0 => g[i - 1] = f[i - 1])
        BY <3>2
      <4> QED
        BY <3>1, <4>1
    <3>3. CASE i = m + 1
      BY <3>3
    <3> QED
      BY <3>2, <3>3
  <2>3. g = [i \in 0 .. m + 1 |-> IF i = 0 THEN x ELSE MoveOne(g[i - 1], data[i])]
    BY <2>2
  <2> HIDE DEF g
  <2>4. MovesUpTo(g, x, data, m + 1)
    BY <2>3 DEF MovesUpTo
  <2> QED
    BY <2>4
<1> HIDE DEF S
<1>3. n \in S
  BY <1>1, <1>2, NatInduct
<1> QED
  BY <1>3 DEF S

\* The keys of the first i of data.
KeysUpTo(data, i) == {data[j].key : j \in 1 .. i}

\* Where i entries on the way leave the trees: the old one has lost their keys,
\* the new one has them and nothing else.
MovedUpTo(S, t, data, i, x) ==
  /\ PieceTree(S, x.from) /\ PieceTree(KeysUpTo(data, i), x.to)
  /\ EntriesOf(x.from) = {e \in EntriesOf(t) : e.key \notin KeysUpTo(data, i)}
  /\ EntriesOf(x.to) = {data[j] : j \in 1 .. i}

\* One more is on its way.
LEMMA MovedNext ==
  ASSUME NEW S, NEW t, NEW data, T!Rising(data), NEW i \in Nat, i + 1 <= Len(data),
         NEW x, MovedUpTo(S, t, data, i, x)
  PROVE  MovedUpTo(S, t, data, i + 1, MoveOne(x, data[i + 1]))
<1> DEFINE e == data[i + 1]
           k == e.key
           r == e.row
           y == MoveOne(x, e)
           K == KeysUpTo(data, i)
<1>1. /\ Len(data) \in Nat /\ \A j \in 1 .. Len(data) : data[j] \in Entry /\ data[j].key \in Int
      /\ \A j, l \in 1 .. Len(data) : j < l => data[j].key < data[l].key
  BY RisingFacts
<1>2. i + 1 \in 1 .. Len(data) /\ \A j \in 1 .. i : j \in 1 .. Len(data) /\ j < i + 1
  BY <1>1
<1>3. e \in Entry /\ k \in Keys /\ r \in Rows /\ e = [key |-> k, row |-> r]
  BY <1>1, <1>2 DEF Entry
<1>4. k \notin K
  <2>1. ASSUME NEW j \in 1 .. i, data[j].key = k
        PROVE  FALSE
    BY <1>1, <1>2, <2>1
  <2> QED
    BY <2>1 DEF KeysUpTo
<1>5. 1 .. i + 1 = (1 .. i) \cup {i + 1}
  OBVIOUS
<1>6. /\ KeysUpTo(data, i + 1) = K \cup {k}
      /\ {data[j] : j \in 1 .. i + 1} = {data[j] : j \in 1 .. i} \cup {e}
  BY <1>5 DEF KeysUpTo
<1> HIDE DEF e, k, r, K
<1>7. /\ PieceTree(S, x.from) /\ PieceTree(K, x.to)
      /\ EntriesOf(x.from) = {d \in EntriesOf(t) : d.key \notin K}
      /\ EntriesOf(x.to) = {data[j] : j \in 1 .. i}
  BY DEF MovedUpTo, K
<1>8. Loses(S, x.from, k, RemoveEncoded(x.from, k))
  BY <1>3, <1>7, PieceRemove
<1>9. Gains(K, x.to, k, r, InsertEncoded(x.to, k, r))
  BY <1>3, <1>4, <1>7, PieceInsert
<1>10. y.from = RemoveEncoded(x.from, k) /\ y.to = InsertEncoded(x.to, k, r)
  BY DEF MoveOne, k, r
<1> HIDE DEF y
<1>11. PieceTree(S, y.from) /\ PieceTree(K \cup {k}, y.to)
  BY <1>8, <1>9, <1>10 DEF Loses, Gains
<1>12. EntriesOf(y.from) = {d \in EntriesOf(t) : d.key \notin K \cup {k}}
  <2>1. EntriesOf(y.from) = {d \in EntriesOf(x.from) : d.key # k}
    BY <1>8, <1>10 DEF Loses
  <2> QED
    BY <1>7, <2>1
<1>13. EntriesOf(y.to) = {data[j] : j \in 1 .. i} \cup {e}
  BY <1>3, <1>7, <1>9, <1>10 DEF Gains
<1> QED
  BY <1>6, <1>11, <1>12, <1>13 DEF MovedUpTo, y, e

\* t cut at m into two trees.
CutAt(S, t, m, x) ==
  /\ PieceTree(S, x.from) /\ EntriesOf(x.from) = {e \in EntriesOf(t) : e.key < m}
  /\ PieceTree(S, x.to) /\ EntriesOf(x.to) = {e \in EntriesOf(t) : m <= e.key}

\* _moveData takes the entries from m on over to a new tree, all of them and no
\* other, and leaves the others where they were.
LEMMA MoveDataCuts ==
  ASSUME NEW S, NEW t, PieceTree(S, t), NEW m \in Keys
  PROVE  CutAt(S, t, m, MoveData(t, m))
<1> DEFINE data == RangeSearchEncoded(t, m, NoKey)
           n == Len(data)
           x == [from |-> t, to |-> EmptyTree(Order)]
<1>1. Selects(data, t, m, NoKey)
  BY PieceRange
<1>2. MoveData(t, m) = (CHOOSE f : MovesUpTo(f, x, data, n))[n]
  BY DEF MoveData, MovesUpTo, MoveOne
<1>3. x.from = t /\ x.to = EmptyTree(Order)
  OBVIOUS
<1> HIDE DEF data, x
<1>4. T!Rising(data) /\ \A e : e \in Range(data) <=> e \in EntriesOf(t) /\ InRange(e.key, m, NoKey)
  BY <1>1 DEF Selects
<1>5. /\ n \in Nat /\ \A i \in 1 .. n : data[i].key \in Int
      /\ \A e : e \in Range(data) <=> \E i \in 1 .. n : e = data[i]
  BY <1>4, RisingFacts
<1>6. m \in Int /\ m # NoKey /\ \A e \in EntriesOf(t) : e.key \in Int /\ e.key \in S
  BY KeysAssumption, PieceFacts DEF Entry
<1>7. \A e : e \in Range(data) <=> e \in EntriesOf(t) /\ m <= e.key
  BY <1>4, <1>6 DEF InRange
<1> HIDE DEF n
<1>8. \E f : MovesUpTo(f, x, data, n)
  BY <1>5, MoveRecursion
<1>9. PICK f : MovesUpTo(f, x, data, n) /\ MoveData(t, m) = f[n]
  BY <1>2, <1>8
<1> DEFINE I == {i \in 0 .. n : MovedUpTo(S, t, data, i, f[i])}
<1>10. 0 \in I
  <2>1. f[0] = x
    BY <1>5, <1>9 DEF MovesUpTo
  <2>2. KeysUpTo(data, 0) = {} /\ {data[j] : j \in 1 .. 0} = {}
    BY DEF KeysUpTo
  <2>3. PieceTree({}, x.to) /\ EntriesOf(x.to) = {}
    BY <1>3, PieceEmpty
  <2>4. MovedUpTo(S, t, data, 0, x)
    BY <1>3, <2>2, <2>3 DEF MovedUpTo
  <2> QED
    BY <1>5, <2>1, <2>4
<1>11. ASSUME NEW i \in 0 .. n - 1, i \in I
       PROVE  i + 1 \in I
  <2>1. i \in Nat /\ i + 1 \in 0 .. n /\ i + 1 # 0 /\ (i + 1) - 1 = i /\ i + 1 <= n
    BY <1>5
  <2>2. f[i + 1] = MoveOne(f[i], data[i + 1])
    <3>1. f[i + 1] = IF i + 1 = 0 THEN x ELSE MoveOne(f[(i + 1) - 1], data[i + 1])
      BY <1>9, <2>1 DEF MovesUpTo
    <3> QED
      BY <2>1, <3>1
  <2>3. MovedUpTo(S, t, data, i, f[i])
    BY <1>11
  <2>4. MovedUpTo(S, t, data, i + 1, MoveOne(f[i], data[i + 1]))
    BY <1>4, <2>1, <2>3, MovedNext DEF n
  <2> QED
    BY <2>1, <2>2, <2>4
<1> HIDE DEF I
<1>12. \A i \in 0 .. n - 1 : i \in I => i + 1 \in I
  BY <1>11
<1>13. n \in I
  <2>1. \A i \in 0 .. n : i \in I
    BY <1>5, <1>10, <1>12, UpTo
  <2> QED
    BY <1>5, <2>1
<1> DEFINE y == MoveData(t, m)
           K == KeysUpTo(data, n)
<1>14. MovedUpTo(S, t, data, n, y)
  BY <1>9, <1>13 DEF I
<1> HIDE DEF y
<1>15. /\ PieceTree(S, y.from) /\ PieceTree(K, y.to)
       /\ EntriesOf(y.from) = {e \in EntriesOf(t) : e.key \notin K}
       /\ EntriesOf(y.to) = {data[j] : j \in 1 .. n}
  BY <1>14 DEF MovedUpTo
<1>16. EntriesOf(y.to) = {e \in EntriesOf(t) : m <= e.key}
  <2>1. \A e : e \in {data[j] : j \in 1 .. n} <=> e \in Range(data)
    BY <1>5
  <2> QED
    BY <1>7, <1>15, <2>1
<1>17. \A e \in EntriesOf(t) : e.key \in K <=> m <= e.key
  <2>1. ASSUME NEW e \in EntriesOf(t), e.key \in K
        PROVE  m <= e.key
    <3>1. PICK j \in 1 .. n : e.key = data[j].key
      BY <2>1 DEF KeysUpTo
    <3>2. data[j] \in Range(data)
      BY <1>5
    <3> QED
      BY <1>7, <3>1, <3>2
  <2>2. ASSUME NEW e \in EntriesOf(t), m <= e.key
        PROVE  e.key \in K
    <3>1. e \in Range(data)
      BY <1>7, <2>2
    <3>2. PICK j \in 1 .. n : e = data[j]
      BY <1>5, <3>1
    <3> QED
      BY <3>2 DEF KeysUpTo
  <2> QED
    BY <2>1, <2>2
<1>18. EntriesOf(y.from) = {e \in EntriesOf(t) : e.key < m}
  <2>1. \A e \in EntriesOf(t) : e.key \notin K <=> e.key < m
    BY <1>6, <1>17
  <2> QED
    BY <1>15, <2>1
<1>19. K \subseteq S
  <2>1. ASSUME NEW j \in 1 .. n
        PROVE  data[j].key \in S
    <3>1. data[j] \in Range(data)
      BY <1>5
    <3> QED
      BY <1>6, <1>7, <3>1
  <2> QED
    BY <2>1 DEF KeysUpTo
<1>20. PieceTree(S, y.to)
  BY <1>15, <1>19, PieceGrows
<1> QED
  BY <1>15, <1>16, <1>18, <1>20 DEF CutAt, y

-----------------------------------------------------------------------------
\* The list of partitions.

\* t is s with l and u in the place of the element at p.
Replaces(t, s, p, l, u) ==
  /\ Len(t) = Len(s) + 1
  /\ \A q \in 1 .. Len(s) + 1 :
       t[q] = IF q < p THEN s[q]
              ELSE IF q = p THEN l ELSE IF q = p + 1 THEN u ELSE s[q - 1]

\* What _splitPartition does to a list.
LEMMA ListSplit ==
  ASSUME NEW X, NEW s \in Seq(X), NEW p \in 1 .. Len(s), NEW l \in X, NEW u \in X
  PROVE  LET t == InsertAt(ReplaceAt(s, p, l), p + 1, u)
         IN  t \in Seq(X) /\ Replaces(t, s, p, l, u)
<1> DEFINE r == ReplaceAt(s, p, l)
           t == InsertAt(r, p + 1, u)
<1>1. /\ r \in Seq(X) /\ Len(r) = Len(s)
      /\ \A j \in 1 .. Len(s) : r[j] = IF j = p THEN l ELSE s[j]
  BY ExceptSeq DEF ReplaceAt
<1>2. Len(s) \in Nat /\ p + 1 \in 1 .. Len(s) + 1
  BY LenProperties
<1> HIDE DEF r
<1>3. t \in Seq(X) /\ Len(t) = Len(r) + 1 /\ Inserts(t, r, p + 1, u)
  BY <1>1, <1>2, InsertAtProperties
<1> HIDE DEF t
<1>4. ASSUME NEW q \in 1 .. Len(s) + 1
      PROVE  t[q] = IF q < p THEN s[q]
                    ELSE IF q = p THEN l ELSE IF q = p + 1 THEN u ELSE s[q - 1]
  <2>1. CASE q < p
    BY <1>1, <1>2, <1>3, <2>1 DEF Inserts
  <2>2. CASE q = p
    BY <1>1, <1>2, <1>3, <2>2 DEF Inserts
  <2>3. CASE q = p + 1
    BY <1>1, <1>2, <1>3, <2>3 DEF Inserts
  <2>4. CASE q > p + 1
    <3>1. q \in (p + 1) + 1 .. Len(r) + 1 /\ q - 1 \in 1 .. Len(s) /\ q - 1 # p
      BY <1>1, <1>2, <2>4
    <3>2. t[q] = r[q - 1]
      BY <1>3, <3>1 DEF Inserts
    <3> QED
      BY <1>1, <1>2, <2>4, <3>1, <3>2
  <2> QED
    BY <1>2, <2>1, <2>2, <2>3, <2>4
<1> QED
  BY <1>1, <1>3, <1>4 DEF Replaces, t, r

\* A partition, and what PartitionedIndex knows of it.
Piece == [startKey : Keys \cup {NoKey}, endKey : Keys \cup {NoKey}, btree : PieceTrees]

View(part) ==
  [startKey |-> part.startKey, endKey |-> part.endKey, entries |-> EntriesOf(part.btree)]

Views == [p \in Parts |-> View(partitions[p])]

\* The theorems about PartitionedIndex.
P == INSTANCE PartitionedIndexProofs WITH partitions <- Views

\* What every step keeps: each partition's tree is sound and its keys have been
\* inserted, the entries in the trees are those inserted, and what the trees make
\* of the partitions has the inductive invariant of PartitionedIndex.
IInv ==
  /\ partitions \in Seq(Piece)
  /\ inserted \subseteq Entries
  /\ \A p \in Parts : PieceTree(KeysOf(inserted), partitions[p].btree)
  /\ P!StoredEntries = inserted
  /\ P!IInv

\* The assumptions of PartitionedIndex.
LEMMA Sizes ==
  MaxPartitionSize \in Nat \ {0}
  BY CapacityAssumption

\* The fields of the partitions.
LEMMA PartFields ==
  ASSUME IInv
  PROVE  /\ Len(partitions) \in Nat /\ Parts = 1 .. Len(partitions)
         /\ P!Parts = Parts
         /\ \A p \in Parts :
              /\ partitions[p] \in Piece /\ Views[p] = View(partitions[p])
              /\ partitions[p].startKey \in Int \/ partitions[p].startKey = NoKey
              /\ partitions[p].endKey \in Int \/ partitions[p].endKey = NoKey
              /\ PieceTree(KeysOf(inserted), partitions[p].btree)
<1>1. Len(partitions) \in Nat /\ \A p \in 1 .. Len(partitions) : partitions[p] \in Piece
  BY LenProperties, ElementOfSeq DEF IInv
<1>2. Parts = 1 .. Len(partitions)
  BY DEF Parts
<1>3. \A p \in Parts : Views[p] = View(partitions[p])
  BY DEF Views
<1>4. Len(Views) = Len(partitions)
  BY <1>1, <1>2 DEF Views
<1>5. P!Parts = Parts
  BY <1>2, <1>4 DEF P!Parts
<1>6. ASSUME NEW p \in Parts
      PROVE  /\ partitions[p].startKey \in Int \/ partitions[p].startKey = NoKey
             /\ partitions[p].endKey \in Int \/ partitions[p].endKey = NoKey
  BY <1>1, <1>2, KeysAssumption DEF Piece
<1> QED
  BY <1>1, <1>2, <1>3, <1>5, <1>6 DEF IInv

\* The two modules have the same bounds tests.
LEMMA SameBounds ==
  ASSUME NEW part, NEW k, NEW a, NEW b
  PROVE  /\ P!ContainsKey(View(part), k) = ContainsKey(part, k)
         /\ P!RangeIntersects(View(part), a, b) = RangeIntersects(part, a, b)
         /\ P!InRange(k, a, b) = InRange(k, a, b)
  BY DEF P!ContainsKey, ContainsKey, View, P!RangeIntersects, RangeIntersects,
         P!InRange, InRange

\* _findPartitionIndex finds the partition that covers a key, and there is one.
LEMMA FindPartition ==
  ASSUME IInv, NEW k \in Keys, NEW p, p = FindPartitionIndex(k)
  PROVE  /\ p \in Parts /\ p # 0 /\ ContainsKey(partitions[p], k)
         /\ P!IsPartitionFor(p, k)
         /\ \A q \in Parts : ContainsKey(partitions[q], k) => q = p
<1> DEFINE I == {i \in 1 .. Len(partitions) : ContainsKey(partitions[i], k)}
<1>1. /\ Parts = 1 .. Len(partitions) /\ Len(partitions) \in Nat /\ P!Parts = Parts
      /\ \A q \in Parts : Views[q] = View(partitions[q])
  BY PartFields
<1>2. \A q \in Parts : P!ContainsKey(Views[q], k) = ContainsKey(partitions[q], k)
  BY <1>1, SameBounds
<1>3. P!IInv
  BY DEF IInv
<1>4. \E q \in P!Parts : P!ContainsKey(Views[q], k)
  BY <1>3 DEF P!IInv, P!EveryKeyHasPartition
<1>5. I # {} /\ I \in SUBSET Nat
  BY <1>1, <1>2, <1>4
<1>6. p = Min(I)
  BY <1>5 DEF FindPartitionIndex, SelectInSeq
<1>7. p \in I
  BY <1>5, <1>6, MinProperties
<1>8. p \in Parts /\ p # 0 /\ ContainsKey(partitions[p], k)
  BY <1>1, <1>7
<1>9. /\ P!IsPartitionFor(p, k)
      /\ \A q \in P!Parts : P!ContainsKey(Views[q], k) => q = p
  <2>1. p \in P!Parts /\ P!ContainsKey(Views[p], k)
    BY <1>1, <1>2, <1>8
  <2> QED
    BY ONLY <1>3, <2>1, k \in Keys, P!OnePartition, KeysAssumption, RowsAssumption, Sizes
<1> QED
  BY <1>1, <1>2, <1>8, <1>9

-----------------------------------------------------------------------------
\* insert.

\* The partition an insert goes to, with the entry in its tree.
Fuller(part, e) == [part EXCEPT !.btree = InsertEncoded(part.btree, e.key, e.row)]

\* A key that has not been inserted is in no tree.
LEMMA NewKey ==
  ASSUME IInv, NEW e \in Entries, e.key \notin KeysOf(inserted)
  PROVE  e.key \notin P!KeysOf(P!StoredEntries)
  BY DEF IInv, P!KeysOf, KeysOf

\* The fuller partition.
LEMMA FullerFacts ==
  ASSUME IInv, NEW e \in Entries, e.key \notin KeysOf(inserted), NEW p \in Parts
  PROVE  LET part == Fuller(partitions[p], e)
         IN  /\ part \in Piece /\ part.startKey = partitions[p].startKey
             /\ part.endKey = partitions[p].endKey
             /\ PieceTree(KeysOf(inserted \cup {e}), part.btree)
             /\ EntriesOf(part.btree) = EntriesOf(partitions[p].btree) \cup {e}
             /\ View(part) = P!Grown(p, e.key, e.row)
<1> DEFINE old == partitions[p]
           part == Fuller(old, e)
           t == InsertEncoded(old.btree, e.key, e.row)
           S == KeysOf(inserted)
<1>1. e.key \in Keys /\ e.row \in Rows /\ e = [key |-> e.key, row |-> e.row]
  BY EntriesAssumption DEF Entry
<1>2. old \in Piece /\ PieceTree(S, old.btree) /\ Views[p] = View(old)
  BY PartFields
<1>3. S \cup {e.key} = KeysOf(inserted \cup {e})
  BY DEF KeysOf
<1> HIDE DEF S
<1>4. Gains(S, old.btree, e.key, e.row, t)
  BY <1>1, <1>2, PieceInsert DEF S
<1> HIDE DEF t, old
<1>5. PieceTree(S \cup {e.key}, t) /\ EntriesOf(t) = EntriesOf(old.btree) \cup {e}
  BY <1>1, <1>4 DEF Gains
<1>6. t \in PieceTrees
  BY <1>5, PieceFacts
<1>7. /\ part = [old EXCEPT !.btree = t]
  BY DEF Fuller, t
<1> HIDE DEF part
<1>8. /\ part \in Piece /\ part.startKey = old.startKey /\ part.endKey = old.endKey
      /\ part.btree = t
  BY <1>2, <1>6, <1>7 DEF Piece
<1>9. View(part) = P!Grown(p, e.key, e.row)
  <2>1. /\ Views[p].startKey = old.startKey /\ Views[p].endKey = old.endKey
        /\ Views[p].entries = EntriesOf(old.btree)
    BY <1>2 DEF View
  <2>2. P!Grown(p, e.key, e.row) = [Views[p] EXCEPT !.entries = @ \cup {e}]
    BY <1>1 DEF P!Grown
  <2>3. P!Grown(p, e.key, e.row) =
          [startKey |-> old.startKey, endKey |-> old.endKey,
           entries |-> EntriesOf(old.btree) \cup {e}]
    BY <1>2, <2>2 DEF View
  <2> QED
    BY <1>5, <1>8, <2>3 DEF View
<1> QED
  BY <1>3, <1>5, <1>8, <1>9 DEF old, part

\* What an insert of e into partition p does to the list.
Filled(p, e) ==
  /\ partitions' \in Seq(Piece) /\ Len(partitions') = Len(partitions)
  /\ \A q \in Parts :
       partitions'[q] = IF q = p THEN Fuller(partitions[p], e) ELSE partitions[q]

\* The halves of a partition whose tree is cut at m into x.
LowerHalf(part, m, x) == [part EXCEPT !.endKey = m, !.btree = x.from]
UpperHalf(part, m, x) == [part EXCEPT !.startKey = m, !.btree = x.to]

\* What an insert of e into partition p that splits it does to the list.
Halved(p, e) ==
  LET part == Fuller(partitions[p], e)
      m == FindMedianKey(part.btree)
      x == MoveData(part.btree, m)
  IN  /\ partitions' \in Seq(Piece)
      /\ Replaces(partitions', partitions, p, LowerHalf(part, m, x), UpperHalf(part, m, x))

\* The halves, and what PartitionedIndex knows of them.
LEMMA HalfFacts ==
  ASSUME NEW part \in Piece, NEW m \in Keys, NEW S, NEW x, CutAt(S, part.btree, m, x)
  PROVE  LET l == LowerHalf(part, m, x)
             u == UpperHalf(part, m, x)
         IN  /\ l \in Piece /\ u \in Piece /\ l.btree = x.from /\ u.btree = x.to
             /\ View(l) = P!Lower(View(part), m) /\ View(u) = P!Upper(View(part), m)
<1> DEFINE l == LowerHalf(part, m, x)
           u == UpperHalf(part, m, x)
           E == EntriesOf(part.btree)
<1>1. /\ PieceTree(S, x.from) /\ EntriesOf(x.from) = {e \in E : e.key < m}
      /\ PieceTree(S, x.to) /\ EntriesOf(x.to) = {e \in E : m <= e.key}
  BY DEF CutAt
<1>2. x.from \in PieceTrees /\ x.to \in PieceTrees
  BY <1>1, PieceFacts
<1>3. /\ l \in Piece /\ l.startKey = part.startKey /\ l.endKey = m /\ l.btree = x.from
      /\ u \in Piece /\ u.startKey = m /\ u.endKey = part.endKey /\ u.btree = x.to
  BY <1>2 DEF LowerHalf, UpperHalf, Piece
<1> HIDE DEF l, u
<1>4. /\ View(part).startKey = part.startKey /\ View(part).endKey = part.endKey
      /\ View(part).entries = E
  BY DEF View
<1>5. View(u) = P!Upper(View(part), m)
  BY <1>1, <1>3, <1>4 DEF View, P!Upper
<1>6. P!Lower(View(part), m) =
        [startKey |-> part.startKey, endKey |-> m, entries |-> {e \in E : e.key < m}]
  <2> DEFINE V == View(part)
             L == {e \in V.entries : e.key < m}
  <2>1. V = [startKey |-> part.startKey, endKey |-> part.endKey, entries |-> E]
    BY DEF View
  <2>2. P!Lower(V, m) = [V EXCEPT !.endKey = m, !.entries = L]
    BY DEF P!Lower
  <2>3. L = {e \in E : e.key < m}
    BY <1>4
  <2> HIDE DEF V, L, E
  <2> DEFINE W == [V EXCEPT !.endKey = m, !.entries = L]
  <2>4. V \in [startKey : {part.startKey}, endKey : {part.endKey}, entries : {E}]
    BY <2>1
  <2>5. W \in [startKey : {part.startKey}, endKey : {m}, entries : {L}]
    BY <2>4
  <2>6. P!Lower(V, m) = W
    BY <2>2
  <2> HIDE DEF W
  <2>7. W = [startKey |-> part.startKey, endKey |-> m, entries |-> L]
    BY <2>5
  <2> QED
    BY <2>3, <2>6, <2>7 DEF V, E
<1>7. View(l) = P!Lower(View(part), m)
  BY <1>1, <1>3, <1>6 DEF View
<1> QED
  BY <1>3, <1>5, <1>7 DEF l, u

\* Every insert of a new key has one of the two shapes.
LEMMA InsertShape ==
  ASSUME IInv, ~ Duplicates, NEW e \in Entries, Insert(e)
  PROVE  LET p == FindPartitionIndex(e.key)
             part == Fuller(partitions[p], e)
         IN  /\ e.key \notin KeysOf(inserted) /\ inserted' = inserted \cup {e}
             /\ p \in Parts
             /\ IF part.btree.keyCount > MaxPartitionSize
                THEN /\ Halved(p, e) /\ FindMedianKey(part.btree) \in Keys
                ELSE Filled(p, e)
<1> DEFINE p == FindPartitionIndex(e.key)
           part == Fuller(partitions[p], e)
           grown == [partitions EXCEPT ![p].btree = InsertEncoded(@, e.key, e.row)]
<1>1. e.key \notin KeysOf(inserted) /\ inserted' = inserted \cup {e}
  BY DEF Insert
<1>2. e.key \in Keys
  BY EntriesAssumption DEF Entry
<1>3. p \in Parts
  BY <1>2, FindPartition
<1>4. partitions' = IF grown[p].btree.keyCount > MaxPartitionSize
                    THEN SplitPartition(grown, p) ELSE grown
  BY DEF Insert
<1> HIDE DEF p
<1>5. grown = [partitions EXCEPT ![p] = part]
  BY DEF Fuller
<1> HIDE DEF part
<1>6. /\ partitions \in Seq(Piece) /\ Len(partitions) \in Nat /\ Parts = 1 .. Len(partitions)
      /\ p \in 1 .. Len(partitions)
  BY <1>3, PartFields DEF IInv
<1>7. /\ part \in Piece /\ PieceTree(KeysOf(inserted \cup {e}), part.btree)
      /\ e \in EntriesOf(part.btree)
  BY <1>1, <1>3, FullerFacts DEF part
<1> HIDE DEF grown
<1>8. /\ grown \in Seq(Piece) /\ Len(grown) = Len(partitions)
      /\ \A q \in 1 .. Len(partitions) : grown[q] = IF q = p THEN part ELSE partitions[q]
  BY <1>5, <1>6, <1>7, ExceptSeq
<1>9. grown[p] = part
  BY <1>6, <1>8
<1>10. CASE part.btree.keyCount > MaxPartitionSize
  <2> DEFINE m == FindMedianKey(part.btree)
             x == MoveData(part.btree, m)
             l == LowerHalf(part, m, x)
             u == UpperHalf(part, m, x)
  <2>1. partitions' = InsertAt(ReplaceAt(grown, p, l), p + 1, u)
    BY <1>4, <1>9, <1>10 DEF SplitPartition, LowerHalf, UpperHalf
  <2>2. m \in Keys
    BY <1>7, PieceMedian
  <2> HIDE DEF m
  <2>3. CutAt(KeysOf(inserted \cup {e}), part.btree, m, x)
    BY <1>7, <2>2, MoveDataCuts
  <2> HIDE DEF x
  <2>4. l \in Piece /\ u \in Piece
    BY <1>7, <2>2, <2>3, HalfFacts
  <2> HIDE DEF l, u
  <2>5. p \in 1 .. Len(grown)
    BY <1>6, <1>8
  <2>6. partitions' \in Seq(Piece) /\ Replaces(partitions', grown, p, l, u)
    BY <1>8, <2>1, <2>4, <2>5, ListSplit
  <2>7. Replaces(partitions', partitions, p, l, u)
    <3>1. \A q \in 1 .. Len(partitions) + 1 :
            /\ q < p => grown[q] = partitions[q]
            /\ q > p + 1 => grown[q - 1] = partitions[q - 1]
      BY <1>6, <1>8
    <3>2. /\ Len(partitions') = Len(partitions) + 1
          /\ \A q \in 1 .. Len(partitions) + 1 :
               partitions'[q] = IF q < p THEN grown[q]
                 ELSE IF q = p THEN l ELSE IF q = p + 1 THEN u ELSE grown[q - 1]
      BY <1>8, <2>6 DEF Replaces
    <3>3. \A q \in 1 .. Len(partitions) + 1 : q < p \/ q = p \/ q = p + 1 \/ q > p + 1
      BY <1>6
    <3> QED
      BY <3>1, <3>2, <3>3 DEF Replaces
  <2>8. Halved(p, e)
    BY <2>6, <2>7 DEF Halved, part, m, x, l, u
  <2> QED
    BY <1>1, <1>3, <1>10, <2>2, <2>8 DEF p, part, m
<1>11. CASE ~ (part.btree.keyCount > MaxPartitionSize)
  <2>1. partitions' = grown
    BY <1>4, <1>9, <1>11
  <2>2. Filled(p, e)
    BY <1>6, <1>8, <2>1 DEF Filled, part
  <2> QED
    BY <1>1, <1>3, <1>11, <2>2 DEF p, part
<1> QED
  BY <1>10, <1>11

-----------------------------------------------------------------------------
\* The next list, seen as PartitionedIndex sees it.
LEMMA NextViews ==
  ASSUME partitions' \in Seq(Piece)
  PROVE  /\ Len(partitions') \in Nat /\ Views' \in Seq({View(part) : part \in Piece})
         /\ Len(Views') = Len(partitions')
         /\ \A q \in 1 .. Len(partitions') : Views'[q] = View(partitions'[q])
<1> DEFINE n == Len(partitions')
           X == {View(part) : part \in Piece}
<1>1. n \in Nat /\ \A q \in 1 .. n : partitions'[q] \in Piece
  BY LenProperties, ElementOfSeq
<1>2. Views' = [q \in 1 .. n |-> View(partitions'[q])]
  BY DEF Views, Parts, View
<1>3. Views' = [q \in 1 .. n |-> Views'[q]] /\ \A q \in 1 .. n : Views'[q] \in X
  BY <1>1, <1>2
<1> HIDE DEF X
<1>4. Views' \in Seq(X) /\ Len(Views') = n
  BY <1>1, <1>3, IsSequence
<1> QED
  BY <1>1, <1>2, <1>4 DEF X

\* The list seen as PartitionedIndex sees it.
LEMMA NowViews ==
  ASSUME IInv
  PROVE  /\ Views \in Seq({View(part) : part \in Piece}) /\ Len(Views) = Len(partitions)
<1> DEFINE X == {View(part) : part \in Piece}
<1>1. /\ Len(partitions) \in Nat /\ Parts = 1 .. Len(partitions)
      /\ \A q \in Parts : partitions[q] \in Piece /\ Views[q] = View(partitions[q])
  BY PartFields
<1>2. Views = [q \in 1 .. Len(partitions) |-> Views[q]]
  BY <1>1 DEF Views
<1>3. \A q \in 1 .. Len(partitions) : Views[q] \in X
  BY <1>1
<1> HIDE DEF X
<1>4. Views \in Seq(X) /\ Len(Views) = Len(partitions)
  BY <1>1, <1>2, <1>3, IsSequence
<1> QED
  BY <1>4 DEF X

\* An insert that leaves the bounds alone.
LEMMA FilledIsInsert ==
  ASSUME IInv, NEW e \in Entries, e.key \notin KeysOf(inserted), NEW p \in Parts,
         Filled(p, e), P!IsPartitionFor(p, e.key),
         ~ (Fuller(partitions[p], e).btree.keyCount > MaxPartitionSize)
  PROVE  P!Insert(e.key, e.row)
<1> DEFINE part == Fuller(partitions[p], e)
           g == P!Grown(p, e.key, e.row)
           X == {View(a) : a \in Piece}
<1>1. /\ part \in Piece /\ PieceTree(KeysOf(inserted \cup {e}), part.btree)
      /\ View(part) = g
  BY FullerFacts
<1>2. g.entries = EntriesOf(part.btree)
  BY <1>1 DEF View
<1> HIDE DEF g
<1>3. Cardinality(g.entries) <= MaxPartitionSize
  <2>1. /\ IsFiniteSet(g.entries) /\ part.btree.keyCount = Cardinality(g.entries)
    BY <1>1, <1>2, PieceFacts
  <2> HIDE DEF part
  <2>2. Cardinality(g.entries) \in Nat
    BY <2>1, FS_CardinalityType
  <2> QED
    BY <2>1, <2>2, CapacityAssumption DEF part
<1>4. /\ partitions' \in Seq(Piece) /\ Len(partitions') = Len(partitions)
      /\ \A q \in Parts : partitions'[q] = IF q = p THEN part ELSE partitions[q]
  BY DEF Filled
<1> HIDE DEF part
<1>5. /\ Len(partitions) \in Nat /\ Parts = 1 .. Len(partitions)
      /\ \A q \in Parts : Views[q] = View(partitions[q])
  BY PartFields
<1>6. /\ Views' \in Seq(X) /\ Len(Views') = Len(Views) /\ Views \in Seq(X)
      /\ Len(Views) = Len(partitions)
      /\ \A q \in Parts : Views'[q] = IF q = p THEN g ELSE Views[q]
  BY <1>1, <1>4, <1>5, NextViews, NowViews
<1>7. g \in X
  BY <1>1
<1> HIDE DEF X
<1> DEFINE r == [Views EXCEPT ![p] = g]
<1>8. /\ r \in Seq(X) /\ Len(r) = Len(Views)
      /\ \A q \in 1 .. Len(Views) : r[q] = IF q = p THEN g ELSE Views[q]
  BY <1>5, <1>6, <1>7, ExceptSeq
<1> HIDE DEF r
<1>9. Views' = r
  <2>1. Len(Views') = Len(r) /\ \A q \in 1 .. Len(Views') : Views'[q] = r[q]
    BY <1>5, <1>6, <1>8
  <2> QED
    BY <1>6, <1>8, <2>1, SeqEqual
<1>10. Views' = P!ReplaceAt(Views, p, g)
  BY <1>9 DEF P!ReplaceAt, r
<1>11. P!InsertWithin(p, e.key, e.row)
  <2>1. P!Cardinality(g.entries) = Cardinality(g.entries)
    BY DEF P!Cardinality, Cardinality
  <2> QED
    BY <1>3, <1>10, <2>1 DEF P!InsertWithin, g
<1>12. p \in P!Parts
  BY PartFields
<1> QED
  BY <1>11, <1>12, NewKey DEF P!Insert

\* An insert that splits its partition at the median of its keys.
LEMMA HalvedIsInsert ==
  ASSUME IInv, NEW e \in Entries, e.key \notin KeysOf(inserted), NEW p \in Parts,
         Halved(p, e), P!IsPartitionFor(p, e.key),
         Fuller(partitions[p], e).btree.keyCount > MaxPartitionSize
  PROVE  P!Insert(e.key, e.row)
<1> DEFINE part == Fuller(partitions[p], e)
           m == FindMedianKey(part.btree)
           x == MoveData(part.btree, m)
           l == LowerHalf(part, m, x)
           u == UpperHalf(part, m, x)
           g == P!Grown(p, e.key, e.row)
           L == P!Lower(g, m)
           U == P!Upper(g, m)
           X == {View(a) : a \in Piece}
           S == KeysOf(inserted \cup {e})
<1>1. /\ part \in Piece /\ PieceTree(S, part.btree) /\ View(part) = g
      /\ EntriesOf(part.btree) = EntriesOf(partitions[p].btree) \cup {e}
  BY FullerFacts
<1>2. g.entries = EntriesOf(part.btree)
  BY <1>1 DEF View
<1>3. partitions' \in Seq(Piece) /\ Replaces(partitions', partitions, p, l, u)
  BY DEF Halved
<1>4. part.btree.keyCount > MaxPartitionSize
  OBVIOUS
<1> HIDE DEF g, part, S
<1>5. /\ m \in Keys /\ \E d \in g.entries : d.key = m
      /\ Cardinality({d \in g.entries : d.key < m}) = Cardinality(g.entries) \div 2
  BY <1>1, <1>2, PieceMedian
<1> HIDE DEF m
<1>6. CutAt(S, part.btree, m, x)
  BY <1>1, <1>5, MoveDataCuts
<1> HIDE DEF x
<1>7. l \in Piece /\ u \in Piece /\ View(l) = L /\ View(u) = U
  <2>1. /\ l \in Piece /\ u \in Piece
        /\ View(l) = P!Lower(View(part), m) /\ View(u) = P!Upper(View(part), m)
    <3>1. part \in Piece /\ m \in Keys
      BY <1>1, <1>5
    <3> QED
      BY <1>6, <3>1, HalfFacts
  <2> HIDE DEF l, u
  <2> QED
    BY <1>1, <2>1, Zenon DEF L, U
<1> HIDE DEF l, u, L, U
<1>8. Cardinality(g.entries) > MaxPartitionSize
  BY <1>1, <1>2, <1>4, PieceFacts
<1>9. P!IsMedianKey(g.entries, m)
  <2> DEFINE E == g.entries
             F == {d \in E : d.key < m}
  <2>1. (\E d \in E : d.key = m) /\ Cardinality(F) = Cardinality(E) \div 2
    BY <1>5
  <2> HIDE DEF F, E
  <2>2. P!Cardinality(F) = Cardinality(F) /\ P!Cardinality(E) = Cardinality(E)
    BY DEF P!Cardinality, Cardinality
  <2>3. P!Cardinality(F) = P!Cardinality(E) \div 2 /\ m \in P!KeysOf(E)
    BY <2>1, <2>2 DEF P!KeysOf
  <2> QED
    BY <2>3 DEF P!IsMedianKey, F, E
<1>10. /\ Len(partitions) \in Nat /\ Parts = 1 .. Len(partitions) /\ P!Parts = Parts
       /\ \A q \in Parts : Views[q] = View(partitions[q])
  BY PartFields
<1>11. /\ Views' \in Seq(X) /\ Len(Views') = Len(partitions') /\ Views \in Seq(X)
       /\ Len(Views) = Len(partitions)
       /\ \A q \in 1 .. Len(partitions') : Views'[q] = View(partitions'[q])
  BY <1>3, NextViews, NowViews
<1>12. L \in X /\ U \in X
  BY <1>7
<1> HIDE DEF X
<1>13. Replaces(Views', Views, p, L, U)
  <2>1. Len(Views') = Len(Views) + 1 /\ Len(partitions') = Len(partitions) + 1
    BY <1>3, <1>11 DEF Replaces
  <2>2. ASSUME NEW q \in 1 .. Len(Views) + 1
        PROVE  Views'[q] = IF q < p THEN Views[q]
                           ELSE IF q = p THEN L ELSE IF q = p + 1 THEN U ELSE Views[q - 1]
    <3>1. /\ Views'[q] = View(partitions'[q])
          /\ partitions'[q] = IF q < p THEN partitions[q]
               ELSE IF q = p THEN l ELSE IF q = p + 1 THEN u ELSE partitions[q - 1]
      BY <1>3, <1>11, <2>1 DEF Replaces
    <3>2. p \in Nat /\ q \in Nat /\ p >= 1 /\ p <= Len(partitions) /\ q >= 1
          /\ q <= Len(partitions) + 1
      BY <1>10, <1>11
    <3>3. CASE q < p
      <4>1. q \in Parts /\ partitions'[q] = partitions[q]
        BY <1>10, <3>1, <3>2, <3>3
      <4> QED
        BY <1>10, <3>1, <3>3, <4>1
    <3>4. CASE q = p
      BY <1>7, <3>1, <3>2, <3>4
    <3>5. CASE q = p + 1
      BY <1>7, <3>1, <3>2, <3>5
    <3>6. CASE q > p + 1
      <4>1. q - 1 \in Parts /\ partitions'[q] = partitions[q - 1]
        BY <1>10, <3>1, <3>2, <3>6
      <4>2. Views'[q] = Views[q - 1]
        BY <1>10, <3>1, <4>1
      <4> QED
        BY <3>2, <3>6, <4>2
    <3> QED
      BY <3>2, <3>3, <3>4, <3>5, <3>6
  <2> QED
    BY <2>1, <2>2 DEF Replaces
<1> DEFINE t == InsertAt(ReplaceAt(Views, p, L), p + 1, U)
<1>14. t \in Seq(X) /\ Replaces(t, Views, p, L, U)
  <2>1. p \in 1 .. Len(Views)
    BY <1>10, <1>11
  <2> QED
    BY <1>11, <1>12, <2>1, ListSplit
<1> HIDE DEF t
<1>15. Views' = t
  <2>1. /\ Len(Views') = Len(Views) + 1 /\ Len(t) = Len(Views) + 1
        /\ \A q \in 1 .. Len(Views) + 1 : Views'[q] = t[q]
    BY <1>13, <1>14 DEF Replaces
  <2>2. Len(Views') = Len(t) /\ \A q \in 1 .. Len(Views') : Views'[q] = t[q]
    BY <2>1
  <2> QED
    BY <1>11, <1>14, <2>2, SeqEqual
<1>16. Views' = P!SplitPartition(p, g, m)
  BY <1>15 DEF P!SplitPartition, P!InsertAt, P!ReplaceAt, t, InsertAt, ReplaceAt, L, U,
               P!Lower, P!Upper
<1>17. P!InsertAndSplit(p, e.key, e.row)
  <2>1. P!Cardinality(g.entries) = Cardinality(g.entries)
    BY DEF P!Cardinality, Cardinality
  <2> QED
    BY <1>5, <1>8, <1>9, <1>16, <2>1 DEF P!InsertAndSplit, g
<1> QED
  BY <1>10, <1>17, NewKey DEF P!Insert

\* Every step of the index is one of PartitionedIndex.
LEMMA StepIsInsert ==
  ASSUME IInv, ~ Duplicates, NEW e \in Entries, Insert(e)
  PROVE  P!Insert(e.key, e.row)
<1> DEFINE p == FindPartitionIndex(e.key)
           part == Fuller(partitions[p], e)
<1>1. /\ e.key \notin KeysOf(inserted) /\ p \in Parts
      /\ IF part.btree.keyCount > MaxPartitionSize
         THEN /\ Halved(p, e) /\ FindMedianKey(part.btree) \in Keys
         ELSE Filled(p, e)
  BY InsertShape
<1>2. P!IsPartitionFor(p, e.key)
  <2>1. e.key \in Keys
    BY EntriesAssumption DEF Entry
  <2> QED
    BY <2>1, FindPartition
<1> HIDE DEF p
<1> QED
  BY <1>1, <1>2, FilledIsInsert, HalvedIsInsert

-----------------------------------------------------------------------------
\* The invariant holds of the one empty tree.
LEMMA InitIInv ==
  ASSUME Init
  PROVE  IInv /\ P!Init
<1> DEFINE t == EmptyTree(Order)
           first == [startKey |-> NoKey, endKey |-> NoKey, btree |-> t]
           view == [startKey |-> NoKey, endKey |-> NoKey, entries |-> {}]
<1>1. partitions = << first >> /\ inserted = {}
  BY DEF Init
<1>2. PieceTree({}, t) /\ EntriesOf(t) = {}
  BY PieceEmpty
<1>3. t \in PieceTrees
  BY <1>2, PieceFacts
<1> HIDE DEF t
<1>4. first \in Piece /\ first.btree = t /\ View(first) = view
  BY <1>2, <1>3 DEF Piece, View
<1> HIDE DEF first
<1>5. /\ partitions \in Seq(Piece) /\ Len(partitions) = 1 /\ partitions[1] = first
      /\ Parts = 1 .. 1
  BY <1>1, <1>4 DEF Parts
<1>6. Views = [q \in 1 .. 1 |-> view]
  BY <1>4, <1>5 DEF Views
<1>7. Views = << view >>
  BY <1>6
<1>8. P!Init
  BY <1>7 DEF P!Init
<1>9. P!IInv
  BY ONLY <1>8, P!InitIInv, KeysAssumption, RowsAssumption, Sizes
<1>10. P!StoredEntries = {}
  <2>1. P!Parts = 1 .. 1 /\ Views[1].entries = {}
    BY <1>6 DEF P!Parts
  <2> QED
    BY <2>1 DEF P!StoredEntries
<1>11. KeysOf(inserted) = {}
  BY <1>1 DEF KeysOf
<1> QED
  BY <1>1, <1>2, <1>4, <1>5, <1>8, <1>9, <1>10, <1>11 DEF IInv

\* An insert keeps every tree sound.
LEMMA TreesAfter ==
  ASSUME IInv, ~ Duplicates, NEW e \in Entries, Insert(e)
  PROVE  /\ partitions' \in Seq(Piece) /\ inserted' = inserted \cup {e}
         /\ \A q \in 1 .. Len(partitions') : PieceTree(KeysOf(inserted'), partitions'[q].btree)
<1> DEFINE p == FindPartitionIndex(e.key)
           part == Fuller(partitions[p], e)
           S == KeysOf(inserted')
<1>1. /\ e.key \notin KeysOf(inserted) /\ inserted' = inserted \cup {e} /\ p \in Parts
      /\ IF part.btree.keyCount > MaxPartitionSize
         THEN /\ Halved(p, e) /\ FindMedianKey(part.btree) \in Keys
         ELSE Filled(p, e)
  BY InsertShape
<1> HIDE DEF p
<1>2. part \in Piece /\ PieceTree(S, part.btree)
  BY <1>1, FullerFacts
<1>3. ASSUME NEW q \in Parts
      PROVE  PieceTree(S, partitions[q].btree)
  <2>1. PieceTree(KeysOf(inserted), partitions[q].btree)
    BY DEF IInv
  <2>2. KeysOf(inserted) \subseteq S
    BY <1>1 DEF KeysOf
  <2> HIDE DEF S
  <2> QED
    BY <2>1, <2>2, PieceGrows
<1>4. Parts = 1 .. Len(partitions) /\ Len(partitions) \in Nat
  BY PartFields
<1> HIDE DEF part, S
<1>5. CASE Filled(p, e)
  <2>1. /\ partitions' \in Seq(Piece) /\ Len(partitions') = Len(partitions)
        /\ \A q \in Parts : partitions'[q] = IF q = p THEN part ELSE partitions[q]
    BY <1>5 DEF Filled, part
  <2> QED
    BY <1>1, <1>2, <1>3, <1>4, <2>1 DEF S
<1>6. CASE Halved(p, e) /\ FindMedianKey(part.btree) \in Keys
  <2> DEFINE m == FindMedianKey(part.btree)
             x == MoveData(part.btree, m)
             l == LowerHalf(part, m, x)
             u == UpperHalf(part, m, x)
  <2>1. partitions' \in Seq(Piece) /\ Replaces(partitions', partitions, p, l, u)
    BY <1>6 DEF Halved, part
  <2>2. m \in Keys
    BY <1>6
  <2> HIDE DEF m
  <2>3. CutAt(S, part.btree, m, x)
    BY <1>2, <2>2, MoveDataCuts
  <2> HIDE DEF x
  <2>4. l.btree = x.from /\ u.btree = x.to
    BY <1>2, <2>2, <2>3, HalfFacts
  <2>5. PieceTree(S, l.btree) /\ PieceTree(S, u.btree)
    BY <2>3, <2>4 DEF CutAt
  <2> HIDE DEF l, u
  <2>6. Len(partitions') = Len(partitions) + 1
    BY <2>1 DEF Replaces
  <2>7. ASSUME NEW q \in 1 .. Len(partitions) + 1
        PROVE  PieceTree(S, partitions'[q].btree)
    <3>1. partitions'[q] = IF q < p THEN partitions[q]
            ELSE IF q = p THEN l ELSE IF q = p + 1 THEN u ELSE partitions[q - 1]
      BY <2>1 DEF Replaces
    <3>2. q < p => q \in Parts
      BY <1>1, <1>4
    <3>3. q > p + 1 => q - 1 \in Parts
      BY <1>1, <1>4
    <3>4. q < p \/ q = p \/ q = p + 1 \/ q > p + 1
      BY <1>1, <1>4
    <3>5. CASE q < p
      BY <1>3, <3>1, <3>2, <3>5
    <3>6. CASE q = p \/ q = p + 1
      <4>1. partitions'[q] = l \/ partitions'[q] = u
        BY <1>1, <1>4, <3>1, <3>6
      <4> QED
        BY <2>5, <4>1
    <3>7. CASE q > p + 1
      <4>1. partitions'[q] = partitions[q - 1]
        BY <1>1, <1>4, <3>1, <3>7
      <4> QED
        BY <1>3, <3>3, <3>7, <4>1
    <3> QED
      BY <3>4, <3>5, <3>6, <3>7
  <2> QED
    BY <1>1, <2>1, <2>6, <2>7 DEF S
<1> QED
  BY <1>1, <1>5, <1>6 DEF part

\* Every step of a caller with unique keys keeps the invariant.
LEMMA IInvStep ==
  ASSUME IInv, ~ Duplicates, [Next]_vars
  PROVE  IInv'
<1>1. ASSUME NEW e \in Entries, Insert(e)
      PROVE  IInv'
  <2>1. /\ partitions' \in Seq(Piece) /\ inserted' = inserted \cup {e}
        /\ \A q \in 1 .. Len(partitions') : PieceTree(KeysOf(inserted'), partitions'[q].btree)
    BY <1>1, TreesAfter
  <2>2. e.key \in Keys /\ e.row \in Rows /\ e = [key |-> e.key, row |-> e.row]
    BY EntriesAssumption DEF Entry
  <2>3. P!Insert(e.key, e.row) /\ P!IInv /\ P!StoredEntries = inserted
    BY <1>1, StepIsInsert DEF IInv
  <2>4. P!IInv'
    <3>1. P!Next
      BY <2>2, <2>3 DEF P!Next
    <3> QED
      BY ONLY <2>3, <3>1, P!IInvStep, KeysAssumption, RowsAssumption, Sizes
  <2>5. P!StoredEntries' = P!StoredEntries \cup {[key |-> e.key, row |-> e.row]}
    BY ONLY <2>2, <2>3, P!InsertAddsOne, KeysAssumption, RowsAssumption, Sizes
  <2>6. P!StoredEntries' = inserted'
    BY <2>1, <2>2, <2>3, <2>5
  <2>7. inserted' \subseteq Entries
    BY <2>1 DEF IInv
  <2>8. Parts' = 1 .. Len(partitions')
    BY DEF Parts
  <2>9. (KeysOf(inserted))' = KeysOf(inserted')
    BY DEF KeysOf
  <2> QED
    BY <2>1, <2>4, <2>6, <2>7, <2>8 DEF IInv, PieceTree
<1>2. CASE UNCHANGED vars
  <2>1. partitions' = partitions /\ inserted' = inserted
    BY <1>2 DEF vars
  <2>2. Views' = Views /\ Parts' = Parts
    BY <2>1 DEF Views, Parts, View
  <2>3. P!IInv' /\ P!StoredEntries' = P!StoredEntries
    <3>1. UNCHANGED P!vars
      BY <2>2 DEF P!vars
    <3>2. P!IInv /\ [P!Next]_(P!vars)
      BY <3>1 DEF IInv
    <3>3. P!IInv'
      BY ONLY <3>2, P!IInvStep, KeysAssumption, RowsAssumption, Sizes
    <3> QED
      BY <2>2, <3>3 DEF P!StoredEntries, P!Parts
  <2> QED
    BY <2>1, <2>2, <2>3 DEF IInv, PieceTree
<1> QED
  BY <1>1, <1>2 DEF Next

\* For callers with unique keys the invariant always holds.
THEOREM Invariance ==
  ASSUME ~ Duplicates
  PROVE  Spec => []IInv
<1>1. Init => IInv
  BY InitIInv
<1>2. IInv /\ [Next]_vars => IInv'
  BY IInvStep
<1> QED
  BY <1>1, <1>2, PTL DEF Spec

-----------------------------------------------------------------------------
\* For callers with unique keys the trees implement the sets of entries of
\* PartitionedIndex, whatever the order of the trees: an insert that splits a
\* partition leaves in each tree exactly what PartitionedIndex gives that half.
THEOREM Refinement ==
  ASSUME ~ Duplicates
  PROVE  Spec => ImplementsPartitionedIndex
<1>1. Init => Parted!Init
  <2> SUFFICES ASSUME Init PROVE Parted!Init
    OBVIOUS
  <2>1. P!Init
    BY InitIInv
  <2> QED
    BY <2>1 DEF P!Init, Parted!Init, Views, View
<1>2. IInv /\ [Next]_vars => [Parted!Next]_(Parted!vars)
  <2> SUFFICES ASSUME IInv, [Next]_vars
               PROVE  Parted!Next \/ UNCHANGED Parted!vars
    OBVIOUS
  <2>1. ASSUME NEW e \in Entries, Insert(e)
        PROVE  Parted!Next
    <3>1. P!Insert(e.key, e.row)
      BY <2>1, StepIsInsert
    <3>2. e.key \in Keys /\ e.row \in Rows
      BY EntriesAssumption DEF Entry
    <3>3. Parted!Insert(e.key, e.row)
      BY <3>1 DEF P!Insert, Parted!Insert, P!KeysOf, Parted!KeysOf, P!StoredEntries,
         Parted!StoredEntries, P!Parts, Parted!Parts, P!IsPartitionFor,
         Parted!IsPartitionFor, P!ContainsKey, Parted!ContainsKey, P!InsertWithin,
         Parted!InsertWithin, P!InsertAndSplit, Parted!InsertAndSplit, P!Grown,
         Parted!Grown, P!IsMedianKey, Parted!IsMedianKey, P!SplitPartition,
         Parted!SplitPartition, P!InsertAt, Parted!InsertAt, P!ReplaceAt,
         Parted!ReplaceAt, P!Cardinality, Parted!Cardinality, P!IsFiniteSet,
         Parted!IsFiniteSet, Views, View
    <3> QED
      BY <3>2, <3>3 DEF Parted!Next
  <2>2. CASE UNCHANGED vars
    BY <2>2 DEF vars, Parted!vars, Parts
  <2> QED
    BY <2>1, <2>2 DEF Next
<1> QED
  BY Invariance, <1>1, <1>2, PTL DEF Spec, ImplementsPartitionedIndex, Parted!Spec

-----------------------------------------------------------------------------
\* Queries.

\* What the trees hold, and where.
LEMMA HeldFacts ==
  ASSUME IInv
  PROVE  /\ \A e : e \in inserted <=> \E p \in Parts : e \in EntriesOf(partitions[p].btree)
         /\ \A p \in Parts : \A e \in EntriesOf(partitions[p].btree) :
              e \in Entry /\ e.key \in Keys /\ e.key \in Int /\ ContainsKey(partitions[p], e.key)
         /\ \A p, q \in Parts : p < q =>
              \A e \in EntriesOf(partitions[p].btree), f \in EntriesOf(partitions[q].btree) :
                e.key < f.key
<1>1. /\ P!Parts = Parts
      /\ \A p \in Parts :
           /\ Views[p] = View(partitions[p])
           /\ partitions[p].startKey \in Int \/ partitions[p].startKey = NoKey
           /\ partitions[p].endKey \in Int \/ partitions[p].endKey = NoKey
           /\ PieceTree(KeysOf(inserted), partitions[p].btree)
  BY PartFields
<1>2. \A p \in Parts : /\ Views[p].entries = EntriesOf(partitions[p].btree)
                       /\ Views[p].startKey = partitions[p].startKey
                       /\ Views[p].endKey = partitions[p].endKey
  <2> SUFFICES ASSUME NEW p \in Parts
               PROVE  /\ Views[p].entries = EntriesOf(partitions[p].btree)
                      /\ Views[p].startKey = partitions[p].startKey
                      /\ Views[p].endKey = partitions[p].endKey
    OBVIOUS
  <2> DEFINE x == partitions[p]
  <2>1. Views[p] = View(x)
    BY <1>1
  <2> HIDE DEF x
  <2>2. /\ View(x).entries = EntriesOf(x.btree)
        /\ View(x).startKey = x.startKey /\ View(x).endKey = x.endKey
    BY DEF View
  <2> QED
    BY <2>1, <2>2 DEF x
<1>3. P!StoredEntries = inserted /\ P!EntriesWithinBounds /\ P!PartitionsOrdered
  BY DEF IInv, P!IInv
<1>4. \A e : e \in inserted <=> \E p \in Parts : e \in EntriesOf(partitions[p].btree)
  BY <1>1, <1>2, <1>3 DEF P!StoredEntries
<1>5. ASSUME NEW p \in Parts, NEW e \in EntriesOf(partitions[p].btree)
      PROVE  e \in Entry /\ e.key \in Keys /\ e.key \in Int /\ ContainsKey(partitions[p], e.key)
  <2>1. e \in Entry
    BY <1>1, PieceFacts
  <2>2. P!ContainsKey(Views[p], e.key)
    BY <1>1, <1>2, <1>3 DEF P!EntriesWithinBounds
  <2>3. ContainsKey(partitions[p], e.key)
    BY <1>1, <2>2, SameBounds
  <2> QED
    BY <2>1, <2>3, KeysAssumption DEF Entry
<1>6. ASSUME NEW p \in Parts, NEW q \in Parts, p < q,
             NEW e \in EntriesOf(partitions[p].btree), NEW f \in EntriesOf(partitions[q].btree)
      PROVE  e.key < f.key
  <2>1. /\ partitions[p].endKey # NoKey /\ partitions[q].startKey # NoKey
        /\ partitions[p].endKey <= partitions[q].startKey
    BY <1>1, <1>2, <1>3, <1>6 DEF P!PartitionsOrdered
  <2>2. e.key \in Int /\ f.key \in Int /\ e.key < partitions[p].endKey
        /\ partitions[q].startKey <= f.key
    BY <1>5, <2>1 DEF ContainsKey
  <2>3. partitions[p].endKey \in Int /\ partitions[q].startKey \in Int
    BY <1>1, <2>1
  <2> QED
    BY <2>1, <2>2, <2>3
<1> QED
  BY <1>4, <1>5, <1>6

\* search finds an inserted key with its row, and no other key.
LEMMA SearchFinds ==
  ASSUME IInv, NEW k \in Keys
  PROVE  IF k \in KeysOf(inserted)
         THEN [key |-> k, row |-> Search(k)] \in inserted
         ELSE Search(k) = NoRow
<1> DEFINE p == FindPartitionIndex(k)
           t == partitions[p].btree
<1>1. p \in Parts /\ p # 0 /\ \A q \in Parts : ContainsKey(partitions[q], k) => q = p
  BY FindPartition
<1>2. Search(k) = SearchEncoded(t, k)
  BY <1>1 DEF Search
<1> HIDE DEF p
<1>3. PieceTree(KeysOf(inserted), t)
  BY <1>1, PartFields
<1>4. IF \E e \in EntriesOf(t) : e.key = k
      THEN [key |-> k, row |-> SearchEncoded(t, k)] \in EntriesOf(t)
      ELSE SearchEncoded(t, k) = NoRow
  BY <1>3, PieceSearch
<1>5. EntriesOf(t) \subseteq inserted
  BY <1>1, HeldFacts
<1>6. ASSUME NEW e \in inserted, e.key = k
      PROVE  e \in EntriesOf(t)
  <2>1. PICK q \in Parts : e \in EntriesOf(partitions[q].btree)
    BY HeldFacts
  <2>2. ContainsKey(partitions[q], k)
    BY <1>6, <2>1, HeldFacts
  <2> QED
    BY <1>1, <2>1, <2>2
<1> HIDE DEF t
<1>7. k \in KeysOf(inserted) <=> \E e \in EntriesOf(t) : e.key = k
  BY <1>5, <1>6 DEF KeysOf
<1> QED
  BY <1>2, <1>4, <1>5, <1>7

\* What a range search gets from one partition.
PartRange(part, a, b) ==
  IF RangeIntersects(part, a, b) THEN RangeSearchEncoded(part.btree, a, b) ELSE << >>

\* It is in order, and has what the partition holds of [a, b).
LEMMA PartRangeFacts ==
  ASSUME IInv, NEW a \in Keys \cup {NoKey}, NEW b \in Keys \cup {NoKey}, NEW p \in Parts
  PROVE  LET c == PartRange(partitions[p], a, b)
             E == EntriesOf(partitions[p].btree)
         IN  /\ T!Rising(c) /\ \A x \in Range(c) : x \in E
             /\ \A e \in E : (a # NoKey => a <= e.key) /\ (b # NoKey => e.key < b)
                               => e \in Range(c)
<1> DEFINE part == partitions[p]
           c == PartRange(part, a, b)
           E == EntriesOf(part.btree)
<1>1. PieceTree(KeysOf(inserted), part.btree)
  BY PartFields
<1>2. Selects(RangeSearchEncoded(part.btree, a, b), part.btree, a, b)
  BY <1>1, PieceRange
<1>3. /\ part.startKey \in Int \/ part.startKey = NoKey
      /\ part.endKey \in Int \/ part.endKey = NoKey
      /\ \A e \in E : e.key \in Int /\ ContainsKey(part, e.key)
  BY PartFields, HeldFacts
<1>4. (a \in Int \/ a = NoKey) /\ (b \in Int \/ b = NoKey) /\ NoKey \notin Int
  BY KeysAssumption
<1> HIDE DEF part, E, c
<1>5. CASE RangeIntersects(part, a, b)
  <2>1. c = RangeSearchEncoded(part.btree, a, b)
    BY <1>5 DEF c, PartRange
  <2>2. T!Rising(c) /\ \A x : x \in Range(c) <=> x \in E /\ InRange(x.key, a, b)
    BY <1>2, <2>1 DEF Selects, E
  <2>3. ASSUME NEW e \in E, (a # NoKey => a <= e.key) /\ (b # NoKey => e.key < b)
        PROVE  e \in Range(c)
    <3>1. InRange(e.key, a, b)
      BY <1>3, <1>4, <2>3 DEF InRange
    <3> QED
      BY <2>2, <3>1
  <2> QED
    BY <2>2, <2>3 DEF c, E, part
<1>6. CASE ~ RangeIntersects(part, a, b)
  <2>1. c = << >>
    BY <1>6 DEF c, PartRange
  <2>2. c \in Seq(Entry) /\ Len(c) = 0
    BY <2>1
  <2>6. c \in Seq(T!Entry)
    BY <2>2, SameParts
  <2>7. \A i, j \in 1 .. Len(c) : i < j => c[i].key < c[j].key
    BY <2>2
  <2>3. T!Rising(c)
    BY <2>6, <2>7 DEF T!Rising
  <2>4. \A x \in Range(c) : FALSE
    BY <2>2, <2>3, RisingFacts
  <2>5. ASSUME NEW e \in E, (a # NoKey => a <= e.key) /\ (b # NoKey => e.key < b)
        PROVE  FALSE
    <3>1. e.key \in Int /\ ContainsKey(part, e.key)
      BY <1>3
    <3>2. RangeIntersects(part, a, b)
      BY <1>3, <1>4, <2>5, <3>1 DEF ContainsKey, RangeIntersects
    <3> QED
      BY <1>6, <3>2
  <2> QED
    BY <2>3, <2>4, <2>5 DEF c, E, part
<1> QED
  BY <1>5, <1>6

\* A range search flattens what it gets from the partitions.
LEMMA RangeSearchParts ==
  ASSUME IInv, NEW a \in Keys \cup {NoKey}, NEW b \in Keys \cup {NoKey},
         NEW s, s = [p \in 1 .. Len(partitions) |-> PartRange(partitions[p], a, b)]
  PROVE  /\ s \in Seq(Seq(Entry)) /\ Len(s) = Len(partitions)
         /\ \A p \in Parts : s[p] = PartRange(partitions[p], a, b)
         /\ RangeSearch(a, b) = FlattenSeq(s)
<1>1. Len(partitions) \in Nat /\ Parts = 1 .. Len(partitions)
  BY PartFields
<1>2. \A p \in 1 .. Len(partitions) : s[p] = PartRange(partitions[p], a, b)
  OBVIOUS
<1>3. ASSUME NEW p \in 1 .. Len(partitions)
      PROVE  s[p] \in Seq(Entry)
  <2>1. T!Rising(PartRange(partitions[p], a, b))
    BY <1>1, PartRangeFacts
  <2>2. PartRange(partitions[p], a, b) \in Seq(Entry)
    BY <2>1, RisingFacts
  <2> QED
    BY <1>2, <2>2
<1> DEFINE Q == Seq(Entry)
<1>4. \A p \in 1 .. Len(partitions) : s[p] \in Q
  BY <1>3
<1>5. s = [p \in 1 .. Len(partitions) |-> s[p]]
  OBVIOUS
<1> HIDE DEF Q
<1>6. s \in Seq(Q) /\ Len(s) = Len(partitions)
  BY <1>1, <1>4, <1>5, IsSequence
<1>7. RangeSearch(a, b) = FlattenSeq(s)
  BY DEF RangeSearch, PartRange, Parts
<1> QED
  BY <1>1, <1>2, <1>6, <1>7 DEF Q

\* What a range search of [a, b) returns.
IsRangeOf(d, a, b) ==
  /\ T!Rising(d)
  /\ InsertedBelow(a, b) \subseteq Range(d)
  /\ Range(d) \subseteq inserted

\* A range search returns inserted entries in order, all those of [a, b) among
\* them.
LEMMA RangeSearchFinds ==
  ASSUME IInv, NEW a \in Keys \cup {NoKey}, NEW b \in Keys \cup {NoKey}
  PROVE  IsRangeOf(RangeSearch(a, b), a, b)
<1> DEFINE s == [p \in 1 .. Len(partitions) |-> PartRange(partitions[p], a, b)]
           d == RangeSearch(a, b)
<1>1. /\ s \in Seq(Seq(Entry)) /\ Len(s) = Len(partitions)
      /\ \A p \in Parts : s[p] = PartRange(partitions[p], a, b)
      /\ d = FlattenSeq(s)
  BY RangeSearchParts
<1>2. Parts = 1 .. Len(partitions)
  BY PartFields
<1> HIDE DEF s, d
<1>3. /\ \A m \in 1 .. Len(d) : \E p, k : PartOf(s, m, p, k)
      /\ \A m, l \in 1 .. Len(d) : m < l => PartsOrdered(s, m, l)
      /\ \A p \in 1 .. Len(s) : \A k \in 1 .. Len(s[p]) :
           \E m \in 1 .. Len(d) : PartOf(s, m, p, k)
  BY <1>1, FlattenParts
<1>4. d \in Seq(Entry)
  BY <1>1, FlattenIsSeq
<1>5. ASSUME NEW p \in Parts
      PROVE  /\ T!Rising(s[p])
             /\ \A x \in Range(s[p]) : x \in EntriesOf(partitions[p].btree)
             /\ \A e \in EntriesOf(partitions[p].btree) :
                  (a # NoKey => a <= e.key) /\ (b # NoKey => e.key < b)
                    => e \in Range(s[p])
  BY <1>1, PartRangeFacts
<1>6. ASSUME NEW m, NEW p, NEW k, PartOf(s, m, p, k)
      PROVE  /\ p \in Parts /\ k \in 1 .. Len(s[p]) /\ d[m] = s[p][k]
             /\ d[m] \in EntriesOf(partitions[p].btree)
  <2>1. p \in Parts /\ k \in 1 .. Len(s[p]) /\ d[m] = s[p][k]
    BY <1>1, <1>2, <1>6 DEF PartOf
  <2>2. s[p][k] \in Range(s[p])
    BY <1>5, <2>1, RisingFacts
  <2> QED
    BY <1>5, <2>1, <2>2
<1>7. ASSUME NEW m \in 1 .. Len(d), NEW l \in 1 .. Len(d), m < l
      PROVE  d[m].key < d[l].key
  <2>1. PartsOrdered(s, m, l)
    BY <1>3, <1>7
  <2>2. PICK p, k, q, j : /\ PartOf(s, m, p, k) /\ PartOf(s, l, q, j)
                          /\ p < q \/ (p = q /\ k < j)
    BY <2>1 DEF PartsOrdered
  <2>3. /\ p \in Parts /\ k \in 1 .. Len(s[p]) /\ d[m] = s[p][k]
        /\ d[m] \in EntriesOf(partitions[p].btree)
    BY <1>6, <2>2
  <2>4. /\ q \in Parts /\ j \in 1 .. Len(s[q]) /\ d[l] = s[q][j]
        /\ d[l] \in EntriesOf(partitions[q].btree)
    BY <1>6, <2>2
  <2>5. CASE p < q
    BY <2>3, <2>4, <2>5, HeldFacts
  <2>6. CASE p = q /\ k < j
    <3>1. T!Rising(s[p])
      BY <1>5, <2>3
    <3>2. \A x, y \in 1 .. Len(s[p]) : x < y => s[p][x].key < s[p][y].key
      BY <3>1, RisingFacts
    <3> QED
      BY <2>3, <2>4, <2>6, <3>2
  <2> QED
    BY <2>2, <2>5, <2>6
<1>8. T!Rising(d)
  <2>1. d \in Seq(T!Entry)
    BY <1>4, SameParts
  <2> QED
    BY <1>7, <2>1 DEF T!Rising
<1>9. Range(d) \subseteq inserted
  <2> SUFFICES ASSUME NEW x \in Range(d) PROVE x \in inserted
    OBVIOUS
  <2>1. PICK m \in 1 .. Len(d) : x = d[m]
    BY <1>8, RisingFacts
  <2>2. PICK p, k : PartOf(s, m, p, k)
    BY <1>3
  <2>3. p \in Parts /\ x \in EntriesOf(partitions[p].btree)
    BY <1>6, <2>1, <2>2
  <2> QED
    BY <2>3, HeldFacts
<1>10. InsertedBelow(a, b) \subseteq Range(d)
  <2> SUFFICES ASSUME NEW e \in InsertedBelow(a, b) PROVE e \in Range(d)
    OBVIOUS
  <2>1. e \in inserted /\ (a # NoKey => a <= e.key) /\ (b # NoKey => e.key < b)
    BY DEF InsertedBelow
  <2>2. PICK p \in Parts : e \in EntriesOf(partitions[p].btree)
    BY <2>1, HeldFacts
  <2>3. e \in Range(s[p])
    BY <1>5, <2>1, <2>2
  <2>4. PICK k \in 1 .. Len(s[p]) : e = s[p][k]
    BY <1>5, <2>3, RisingFacts
  <2>5. PICK m \in 1 .. Len(d) : PartOf(s, m, p, k)
    BY <1>1, <1>2, <1>3
  <2>6. d[m] = e
    BY <1>6, <2>4, <2>5
  <2> QED
    BY <1>8, <2>6, RisingFacts
<1> QED
  BY <1>8, <1>9, <1>10 DEF IsRangeOf, d

\* Rising entries are sorted by key.
LEMMA RisingSorted ==
  ASSUME NEW c, T!Rising(c)
  PROVE  IsSortedSeq(KeySeq(c))
<1>1. /\ Len(c) \in Nat /\ DOMAIN c = 1 .. Len(c)
      /\ \A i \in 1 .. Len(c) : c[i].key \in Int
      /\ \A i, j \in 1 .. Len(c) : i < j => c[i].key < c[j].key
  BY RisingFacts, LenProperties
<1> DEFINE k == KeySeq(c)
<1>2. k = [i \in 1 .. Len(c) |-> c[i].key]
  BY <1>1 DEF KeySeq
<1> HIDE DEF k
<1>3. k \in Seq(Int) /\ Len(k) = Len(c)
  <2>1. k = [i \in 1 .. Len(c) |-> k[i]] /\ \A i \in 1 .. Len(c) : k[i] \in Int
    BY <1>1, <1>2
  <2> QED
    BY <1>1, <2>1, IsSequence
<1>4. \A i \in 1 .. Len(c) : k[i] = c[i].key
  BY <1>2
<1>5. ASSUME NEW i \in 1 .. Len(k) - 1
      PROVE  k[i] <= k[i + 1]
  <2>1. i \in 1 .. Len(c) /\ i + 1 \in 1 .. Len(c) /\ i < i + 1
    BY <1>1, <1>3
  <2>2. c[i].key < c[i + 1].key /\ c[i].key \in Int /\ c[i + 1].key \in Int
    BY <1>1, <2>1
  <2>3. k[i] = c[i].key /\ k[i + 1] = c[i + 1].key
    BY <1>4, <2>1
  <2> QED
    BY <2>2, <2>3
<1>6. IsSortedSeq(k)
  BY <1>5 DEF IsSortedSeq
<1> QED
  BY <1>6 DEF k

\* The invariant implies that the queries find what was inserted.
LEMMA QueriesFollow ==
  ASSUME IInv
  PROVE  QueriesFindInserted
<1>1. \A k \in Keys : IF k \in KeysOf(inserted)
                       THEN [key |-> k, row |-> Search(k)] \in inserted
                       ELSE Search(k) = NoRow
  BY SearchFinds
<1>2. ASSUME NEW a \in Keys \cup {NoKey}, NEW b \in Keys \cup {NoKey}
      PROVE  /\ IsSortedSeq(KeySeq(RangeSearch(a, b)))
             /\ Cardinality(Range(RangeSearch(a, b))) = Len(RangeSearch(a, b))
             /\ InsertedBelow(a, b) \subseteq Range(RangeSearch(a, b))
             /\ Range(RangeSearch(a, b)) \subseteq inserted
  <2> DEFINE d == RangeSearch(a, b)
  <2>1. IsRangeOf(d, a, b)
    BY RangeSearchFinds
  <2> HIDE DEF d
  <2>2. /\ T!Rising(d) /\ InsertedBelow(a, b) \subseteq Range(d)
        /\ Range(d) \subseteq inserted
    BY <2>1 DEF IsRangeOf
  <2>3. IsSortedSeq(KeySeq(d)) /\ Cardinality(Range(d)) = Len(d)
    BY <2>2, RisingSorted, RisingSize
  <2> QED
    BY <2>2, <2>3 DEF d
<1> QED
  BY <1>1, <1>2 DEF QueriesFindInserted

\* Every insert of a caller with unique keys is still found, with its row,
\* however many splits have moved it from tree to tree, no other key is, and a
\* range search over the partitions is in key order, complete and exact.
THEOREM Queries ==
  ASSUME ~ Duplicates
  PROVE  Spec => []QueriesFindInserted
<1>1. IInv => QueriesFindInserted
  BY QueriesFollow
<1> QED
  BY Invariance, <1>1, PTL
=============================================================================
