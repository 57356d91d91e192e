------------------------- MODULE BPTreeIndexProofs --------------------------
(***************************************************************************)
(* The B+ tree of BPTreeIndex, for any callers, orders and keys: what the  *)
(* code does to a tree keeps every node between the separators above it,   *)
(* and from that everything BPTreeIndex states of the tree follows.        *)
(*                                                                         *)
(* The proofs follow the recursions of the code down a tree, by induction  *)
(* on the height: first the descents, then search, removal and insertion   *)
(* with the two splits, then whole trees, the steps of BPTreeIndex, and at *)
(* the end the trees that callers with unique keys build, on their own.    *)
(***************************************************************************)
EXTENDS BPTreeIndex, SequenceLemmas

\* A bound of a node: a separator above it, or none.
Bound == Keys \cup {NoKey}

\* k respects a lower bound, an upper bound, an upper bound strictly.
AtLeast(k, lo) == lo # NoKey => lo <= k
AtMost(k, hi) == hi # NoKey => k <= hi
Under(k, hi) == hi # NoKey => k < hi

\* The elements of s never fall; they rise; they are all under hi.
Sorted(s) == \A i, j \in 1 .. Len(s) : i <= j => s[i] <= s[j]
Strict(s) == \A i, j \in 1 .. Len(s) : i < j => s[i] < s[j]
AllUnder(s, hi) == \A i \in 1 .. Len(s) : Under(s[i], hi)

\* The keys of a node: in order, in S and between its bounds.
KeysFit(keys, S, lo, hi) ==
  /\ Sorted(keys)
  /\ \A i \in 1 .. Len(keys) :
       keys[i] \in S /\ AtLeast(keys[i], lo) /\ AtMost(keys[i], hi)

\* What a leaf must be.  A key equal to the upper bound is right of the separator
\* and must not be here when keys are distinct; when nothing is ever removed the
\* first key of a leaf is the separator on its left.
LeafFits(mode, S, n, lo, hi) ==
  /\ KeysFit(n.keys, S, lo, hi)
  /\ Len(n.records) = Len(n.keys)
  /\ mode = "below" => Strict(n.keys) /\ AllUnder(n.keys, hi)
  /\ (mode = "kept" /\ lo # NoKey) => Len(n.keys) # 0 /\ n.keys[1] = lo

\* Nothing is above the last separator: it is the upper bound.
Closed(keys, lo, hi) ==
  hi # NoKey /\ IF Len(keys) = 0 THEN lo = hi ELSE keys[Len(keys)] = hi

\* What an internal node must be: one child more than keys, or, after a split has
\* left the separator in the left node, as many.
InnerFits(S, n, lo, hi) ==
  /\ KeysFit(n.keys, S, lo, hi)
  /\ \/ Len(n.children) = Len(n.keys) + 1
     \/ Len(n.children) = Len(n.keys) /\ Closed(n.keys, lo, hi)

\* The bounds of child i.
LoAt(n, lo, i) == IF i = 1 THEN lo ELSE n.keys[i - 1]
HiAt(n, hi, i) == IF i <= Len(n.keys) THEN n.keys[i] ELSE hi

\* A node with its bounds, and its child i with those that follow.
Slot(n, lo, hi) == [node |-> n, lo |-> lo, hi |-> hi]
SlotAt(x, i) ==
  Slot(x.node.children[i], LoAt(x.node, x.lo, i), HiAt(x.node, x.hi, i))

\* The nodes of a height, with any bounds.
Slots(h) == [node : Nodes[h], lo : Bound, hi : Bound]

\* The nodes that fit at each height: the node does, and so do its children.
Fits(mode, S) ==
  LET fits[h \in Nat] ==
        {x \in Slots(h) :
           IF h = 0
           THEN LeafFits(mode, S, x.node, x.lo, x.hi)
           ELSE /\ InnerFits(S, x.node, x.lo, x.hi)
                /\ \A i \in 1 .. Len(x.node.children) : SlotAt(x, i) \in fits[h - 1]}
  IN  fits

\* Node n of height h fits between lo and hi.
FitsAs(mode, S, h, n, lo, hi) == Slot(n, lo, hi) \in Fits(mode, S)[h]

\* A whole tree that fits.
TreeFits(mode, S, t) ==
  t.height \in Nat /\ FitsAs(mode, S, t.height, t.root, NoKey, NoKey)

\* No two entries have the same key.
Distinct(c) == \A i, j \in 1 .. Len(c) : c[i].key = c[j].key => i = j

\* What the caller lets us rely on: "kept" when nothing is ever removed; "below"
\* when no key is inserted twice; otherwise "any".
Mode ==
  IF ~ caller.removes THEN "kept"
  ELSE IF caller.duplicates \/ caller.reinserts THEN "any" ELSE "below"

\* The keys that separators may be: those that are or were in the tree.
Known == removed \cup StoredKeys

\* The inductive invariant: every node of the tree fits between the separators
\* above it, ...
FitsInv == TreeFits(Mode, Known, tree)

\* ... and, for a caller without duplicates, no two entries have the same key.
UniqueInv == ~ caller.duplicates => Distinct(ContentsOf(tree))

\* With the count of the keys it is inductive.
IInv ==
  /\ caller \in Callers /\ tree.order = caller.order /\ removed \subseteq Keys
  /\ KeyCountExact /\ FitsInv /\ UniqueInv

-----------------------------------------------------------------------------
\* The recursions of the model.

\* The recursive functions, as steps from one height to the next.
NodesStep(below, h) ==
  IF h = 0
  THEN [leaf : {TRUE}, keys : Seq(Keys), records : Seq(Rows), children : {<< >>}]
  ELSE [leaf : {FALSE}, keys : Seq(Keys), records : {<< >>},
        children : Seq(below)]
ContentsStep(below, h) ==
  [node \in Nodes[h] |->
     IF node.leaf
     THEN LeafContents(node)
     ELSE FlattenSeq([i \in 1 .. Len(node.children) |-> below[node.children[i]]])]
InsertStep(order, k, r, below, h) ==
  [node \in Nodes[h] |->
     LET pos == FindInsertPos(node.keys, k)
     IN  IF node.leaf
         THEN LeafInsert(order, node, pos, k, r)
         ELSE AdoptBelow(order, node, pos, below[node.children[pos]])]

\* What a removal below child i gives back, as seen from the node.
Replaced(node, i, res) ==
  [node |-> Internal(node.keys, ReplaceAt(node.children, i, res.node)),
   removed |-> res.removed]
RemoveStep(k, below, h) ==
  [node \in Nodes[h] |->
     IF node.leaf
     THEN LeafRemove(node, k)
     ELSE Replaced(node, DescendPos(node.keys, k),
                   below[node.children[DescendPos(node.keys, k)]])]
SearchStep(k, below, h) ==
  [node \in Nodes[h] |->
     IF node.leaf
     THEN SearchLeaf(node, k)
     ELSE below[node.children[DescendPos(node.keys, k)]]]
StaysStep(k, inserting, below, h) ==
  [node \in Nodes[h] |->
     LET i == IF inserting THEN FindInsertPos(node.keys, k)
              ELSE DescendPos(node.keys, k)
     IN  node.leaf \/ (i <= Len(node.children) /\ below[node.children[i]])]
FitsStep(mode, S, below, h) ==
  {x \in Slots(h) :
     IF h = 0
     THEN LeafFits(mode, S, x.node, x.lo, x.hi)
     ELSE /\ InnerFits(S, x.node, x.lo, x.hi)
          /\ \A i \in 1 .. Len(x.node.children) : SlotAt(x, i) \in below}

\* The step of each of the recursive functions of the model.
Step(op, below, h) ==
  CASE op.name = "nodes"    -> NodesStep(below, h)
    [] op.name = "contents" -> ContentsStep(below, h)
    [] op.name = "insert"   -> InsertStep(op.order, op.k, op.r, below, h)
    [] op.name = "remove"   -> RemoveStep(op.k, below, h)
    [] op.name = "search"   -> SearchStep(op.k, below, h)
    [] op.name = "stays"    -> StaysStep(op.k, op.inserting, below, h)
    [] op.name = "fits"     -> FitsStep(op.mode, op.S, below, h)

\* A function that follows them up to height n.
StepsUpTo(op, f, n) == f = [h \in 0 .. n |-> Step(op, f[h - 1], h)]

\* A recursion whose step at height 0 looks at nothing below has a solution.
LEMMA HeightRecursion ==
  ASSUME NEW op, \A v, w : Step(op, v, 0) = Step(op, w, 0)
  PROVE  \E f : f = [h \in Nat |-> Step(op, f[h - 1], h)]
<1> DEFINE T == {n \in Nat : \E f : StepsUpTo(op, f, n)}
           f(n) == CHOOSE g : StepsUpTo(op, g, n)
           F == [n \in Nat |-> f(n)[n]]
<1>1. 0 \in T
  <2> DEFINE g == [h \in 0 .. 0 |-> Step(op, 0, 0)]
  <2>1. g = [h \in 0 .. 0 |-> Step(op, g[h - 1], h)]
    OBVIOUS
  <2> QED
    BY <2>1 DEF StepsUpTo
<1>2. ASSUME NEW n \in Nat, n \in T
      PROVE  n + 1 \in T
  <2>1. PICK g : StepsUpTo(op, g, n)
    BY <1>2
  <2> DEFINE e == [h \in 0 .. n + 1 |->
                     IF h <= n THEN g[h] ELSE Step(op, g[n], n + 1)]
  <2>2. ASSUME NEW h \in 0 .. n + 1
        PROVE  e[h] = Step(op, e[h - 1], h)
    <3>1. CASE h = 0
      <4>1. e[0] = g[0] /\ g[0] = Step(op, g[0 - 1], 0)
        BY <2>1 DEF StepsUpTo
      <4> QED
        BY <4>1, <3>1
    <3>2. CASE h \in 1 .. n
      <4>1. e[h] = g[h] /\ e[h - 1] = g[h - 1]
        BY <3>2
      <4>2. g[h] = Step(op, g[h - 1], h)
        BY <2>1, <3>2 DEF StepsUpTo
      <4> QED
        BY <4>1, <4>2
    <3>3. CASE h = n + 1
      BY <3>3
    <3> QED
      BY <3>1, <3>2, <3>3
  <2>3. e = [h \in 0 .. n + 1 |-> Step(op, e[h - 1], h)]
    BY <2>2
  <2> HIDE DEF e
  <2>4. StepsUpTo(op, e, n + 1)
    BY <2>3 DEF StepsUpTo
  <2> QED
    BY <2>4
<1> HIDE DEF T
<1>3. ASSUME NEW n \in Nat
      PROVE  n \in T
  <2>1. \A i \in 0 .. n : i \in T
    BY <1>1, <1>2, UpTo
  <2> QED
    BY <2>1
<1>4. \A n \in Nat : StepsUpTo(op, f(n), n)
  BY <1>3 DEF T
<1> HIDE DEF f
<1>5. ASSUME NEW n \in Nat, NEW h \in 0 .. n
      PROVE  f(n)[h] = Step(op, f(n)[h - 1], h)
  <2> DEFINE g == f(n)
  <2>1. StepsUpTo(op, g, n)
    BY <1>4
  <2> HIDE DEF g
  <2>2. g[h] = Step(op, g[h - 1], h)
    BY <2>1 DEF StepsUpTo
  <2> QED
    BY <2>2 DEF g
<1>6. ASSUME NEW n \in Nat, NEW m \in Nat, n <= m
      PROVE  f(n)[n] = f(m)[n]
  <2> DEFINE U == {i \in 0 .. n : f(n)[i] = f(m)[i]}
  <2>1. 0 \in U
    <3>1. /\ f(n)[0] = Step(op, f(n)[0 - 1], 0)
          /\ f(m)[0] = Step(op, f(m)[0 - 1], 0)
      BY <1>5
    <3> QED
      BY <3>1
  <2>2. ASSUME NEW i \in 0 .. n - 1, i \in U
        PROVE  i + 1 \in U
    <3>1. i + 1 \in 0 .. n /\ i + 1 \in 0 .. m
      BY <1>6
    <3>2. /\ f(n)[i + 1] = Step(op, f(n)[(i + 1) - 1], i + 1)
          /\ f(m)[i + 1] = Step(op, f(m)[(i + 1) - 1], i + 1)
      BY <1>5, <3>1
    <3>3. (i + 1) - 1 = i
      OBVIOUS
    <3> QED
      BY <3>2, <3>3, <2>2
  <2> HIDE DEF U
  <2>3. n \in U
    BY <2>1, <2>2, UpTo
  <2> QED
    BY <2>3 DEF U
<1>7. ASSUME NEW n \in Nat
      PROVE  F[n] = Step(op, F[n - 1], n)
  <2>1. F[n] = Step(op, f(n)[n - 1], n)
    BY <1>5
  <2>2. CASE n = 0
    BY <2>1, <2>2
  <2>3. CASE n # 0
    <3>1. n - 1 \in Nat /\ F[n - 1] = f(n - 1)[n - 1]
      BY <2>3
    <3>2. F[n - 1] = f(n)[n - 1]
      BY <3>1, <1>6
    <3> QED
      BY <3>2, <2>1
  <2> QED
    BY <2>2, <2>3
<1>8. F = [n \in Nat |-> Step(op, F[n - 1], n)]
  BY <1>7
<1> QED
  BY <1>8

\* What the recursive functions are at each height.
LEMMA NodesAt ==
  /\ Nodes[0] = [leaf : {TRUE}, keys : Seq(Keys), records : Seq(Rows),
                 children : {<< >>}]
  /\ \A h \in Nat :
       Nodes[h + 1] = [leaf : {FALSE}, keys : Seq(Keys), records : {<< >>},
                       children : Seq(Nodes[h])]
<1> DEFINE op == [name |-> "nodes"]
<1>1. \A v, h : Step(op, v, h) = NodesStep(v, h)
  BY DEF Step
<1>2. \A v, w : Step(op, v, 0) = Step(op, w, 0)
  BY <1>1 DEF NodesStep
<1>3. \E f : f = [h \in Nat |-> Step(op, f[h - 1], h)]
  BY <1>2, HeightRecursion
<1> HIDE DEF op
<1>4. Nodes = [h \in Nat |-> NodesStep(Nodes[h - 1], h)]
  <2>1. PICK f : f = [h \in Nat |-> Step(op, f[h - 1], h)]
    BY <1>3
  <2>2. f = [h \in Nat |-> NodesStep(f[h - 1], h)]
    BY <2>1, <1>1
  <2> QED
    BY <2>2 DEF NodesStep, Nodes
<1>5. ASSUME NEW h \in Nat
      PROVE  Nodes[h + 1] = NodesStep(Nodes[h], h + 1)
  <2>1. (h + 1) - 1 = h
    OBVIOUS
  <2> QED
    BY <2>1, <1>4
<1>6. Nodes[0] = NodesStep(Nodes[0 - 1], 0)
  BY <1>4
<1>7. \A v, h : h # 0 => NodesStep(v, h) = [leaf : {FALSE}, keys : Seq(Keys), records : {<< >>},
                       children : Seq(v)]
  BY DEF NodesStep
<1>8. \A h \in Nat : h + 1 # 0
  OBVIOUS
<1>9. NodesStep(Nodes[0 - 1], 0) = [leaf : {TRUE}, keys : Seq(Keys), records : Seq(Rows),
                 children : {<< >>}]
  BY DEF NodesStep
<1> HIDE DEF NodesStep
<1> QED
  BY <1>5, <1>6, <1>7, <1>8, <1>9

\* The fields of a node.
LEMMA NodeFields ==
  ASSUME NEW h \in Nat, NEW n \in Nodes[h]
  PROVE  /\ n = [leaf |-> n.leaf, keys |-> n.keys, records |-> n.records, children |-> n.children]
         /\ n.leaf <=> h = 0
         /\ n.keys \in Seq(Keys)
         /\ h = 0 => n.records \in Seq(Rows) /\ n.children = << >>
         /\ h # 0 => /\ h - 1 \in Nat /\ n.children \in Seq(Nodes[h - 1])
                     /\ n.records = << >>
<1>1. CASE h = 0
  <2>1. n \in [leaf : {TRUE}, keys : Seq(Keys), records : Seq(Rows),
               children : {<< >>}]
    BY <1>1, NodesAt
  <2>2. /\ n = [leaf |-> n.leaf, keys |-> n.keys, records |-> n.records,
                children |-> n.children]
        /\ n.leaf = TRUE /\ n.keys \in Seq(Keys) /\ n.records \in Seq(Rows)
        /\ n.children = << >>
    BY <2>1
  <2> QED
    BY <2>2, <1>1
<1>2. CASE h # 0
  <2>1. h - 1 \in Nat /\ (h - 1) + 1 = h
    BY <1>2
  <2>2. n \in [leaf : {FALSE}, keys : Seq(Keys), records : {<< >>},
                       children : Seq(Nodes[h - 1])]
    BY <2>1, NodesAt
  <2> QED
    BY <2>1, <2>2, <1>2
<1> QED
  BY <1>1, <1>2

\* _insertRecursive, as a recursion on the height.
LEMMA InsertRecursiveAt ==
  ASSUME NEW order, NEW k, NEW r
  PROVE  InsertRecursive(order, k, r) =
           [h \in Nat |-> InsertStep(order, k, r, InsertRecursive(order, k, r)[h - 1], h)]
<1> DEFINE op == [name |-> "insert", order |-> order, k |-> k, r |-> r]
<1>1. \A v, i : Step(op, v, i) = InsertStep(order, k, r, v, i)
  BY DEF Step
<1>2. \A v, w : InsertStep(order, k, r, v, 0) = InsertStep(order, k, r, w, 0)
  <2>1. \A m \in Nodes[0] : m.leaf
    BY NodeFields
  <2> QED
    BY <2>1 DEF InsertStep
<1> HIDE DEF op
<1>3. PICK f : f = [i \in Nat |-> Step(op, f[i - 1], i)]
  <2>1. \A v, w : Step(op, v, 0) = Step(op, w, 0)
    BY <1>1, <1>2
  <2> QED
    BY <2>1, HeightRecursion
<1>4. f = [i \in Nat |-> InsertStep(order, k, r, f[i - 1], i)]
  BY <1>1, <1>3
<1> QED
  BY <1>4 DEF InsertRecursive, InsertStep

\* _removeRecursive, likewise.
LEMMA RemoveRecursiveAt ==
  ASSUME NEW k
  PROVE  RemoveRecursive(k) = [h \in Nat |-> RemoveStep(k, RemoveRecursive(k)[h - 1], h)]
<1> DEFINE op == [name |-> "remove", k |-> k]
<1>1. \A v, i : Step(op, v, i) = RemoveStep(k, v, i)
  BY DEF Step
<1>2. \A v, w : RemoveStep(k, v, 0) = RemoveStep(k, w, 0)
  <2>1. \A m \in Nodes[0] : m.leaf
    BY NodeFields
  <2> QED
    BY <2>1 DEF RemoveStep
<1> HIDE DEF op
<1>3. PICK f : f = [i \in Nat |-> Step(op, f[i - 1], i)]
  <2>1. \A v, w : Step(op, v, 0) = Step(op, w, 0)
    BY <1>1, <1>2
  <2> QED
    BY <2>1, HeightRecursion
<1>4. f = [i \in Nat |-> RemoveStep(k, f[i - 1], i)]
  BY <1>1, <1>3
<1> QED
  BY <1>4 DEF RemoveRecursive, RemoveStep, Replaced

\* _searchNode, likewise.
LEMMA SearchNodeAt ==
  ASSUME NEW k
  PROVE  SearchNode(k) = [h \in Nat |-> SearchStep(k, SearchNode(k)[h - 1], h)]
<1> DEFINE op == [name |-> "search", k |-> k]
<1>1. \A v, i : Step(op, v, i) = SearchStep(k, v, i)
  BY DEF Step
<1>2. \A v, w : SearchStep(k, v, 0) = SearchStep(k, w, 0)
  <2>1. \A m \in Nodes[0] : m.leaf
    BY NodeFields
  <2> QED
    BY <2>1 DEF SearchStep
<1> HIDE DEF op
<1>3. PICK f : f = [i \in Nat |-> Step(op, f[i - 1], i)]
  <2>1. \A v, w : Step(op, v, 0) = Step(op, w, 0)
    BY <1>1, <1>2
  <2> QED
    BY <2>1, HeightRecursion
<1>4. f = [i \in Nat |-> SearchStep(k, f[i - 1], i)]
  BY <1>1, <1>3
<1> QED
  BY <1>4 DEF SearchNode, SearchStep

\* The depth-first walk, likewise.
LEMMA ContentsAt ==
  Contents = [h \in Nat |-> ContentsStep(Contents[h - 1], h)]
<1> DEFINE op == [name |-> "contents"]
<1>1. \A v, i : Step(op, v, i) = ContentsStep(v, i)
  BY DEF Step
<1>2. \A v, w : ContentsStep(v, 0) = ContentsStep(w, 0)
  <2>1. \A m \in Nodes[0] : m.leaf
    BY NodeFields
  <2> QED
    BY <2>1 DEF ContentsStep
<1> HIDE DEF op
<1>3. PICK f : f = [i \in Nat |-> Step(op, f[i - 1], i)]
  <2>1. \A v, w : Step(op, v, 0) = Step(op, w, 0)
    BY <1>1, <1>2
  <2> QED
    BY <2>1, HeightRecursion
<1>4. f = [i \in Nat |-> ContentsStep(f[i - 1], i)]
  BY <1>1, <1>3
<1> QED
  BY <1>4 DEF Contents, ContentsStep

\* The descents, likewise.
LEMMA DescentStaysAt ==
  ASSUME NEW k, NEW inserting
  PROVE  DescentStays(k, inserting) =
           [h \in Nat |-> StaysStep(k, inserting, DescentStays(k, inserting)[h - 1], h)]
<1> DEFINE op == [name |-> "stays", k |-> k, inserting |-> inserting]
<1>1. \A v, i : Step(op, v, i) = StaysStep(k, inserting, v, i)
  BY DEF Step
<1>2. \A v, w : StaysStep(k, inserting, v, 0) = StaysStep(k, inserting, w, 0)
  <2>1. \A m \in Nodes[0] : m.leaf
    BY NodeFields
  <2> QED
    BY <2>1 DEF StaysStep
<1> HIDE DEF op
<1>3. PICK f : f = [i \in Nat |-> Step(op, f[i - 1], i)]
  <2>1. \A v, w : Step(op, v, 0) = Step(op, w, 0)
    BY <1>1, <1>2
  <2> QED
    BY <2>1, HeightRecursion
<1>4. f = [i \in Nat |-> StaysStep(k, inserting, f[i - 1], i)]
  BY <1>1, <1>3
<1> QED
  BY <1>4 DEF DescentStays, StaysStep

\* The nodes that fit, likewise.
LEMMA FitsAt ==
  ASSUME NEW mode, NEW S
  PROVE  Fits(mode, S) = [h \in Nat |-> FitsStep(mode, S, Fits(mode, S)[h - 1], h)]
<1> DEFINE op == [name |-> "fits", mode |-> mode, S |-> S]
<1>1. \A v, i : Step(op, v, i) = FitsStep(mode, S, v, i)
  BY DEF Step
<1>2. \A v, w : FitsStep(mode, S, v, 0) = FitsStep(mode, S, w, 0)
  BY DEF FitsStep
<1> HIDE DEF op
<1>3. PICK f : f = [i \in Nat |-> Step(op, f[i - 1], i)]
  <2>1. \A v, w : Step(op, v, 0) = Step(op, w, 0)
    BY <1>1, <1>2
  <2> QED
    BY <2>1, HeightRecursion
<1>4. f = [i \in Nat |-> FitsStep(mode, S, f[i - 1], i)]
  BY <1>1, <1>3
<1> QED
  BY <1>4 DEF Fits, FitsStep

\* The contents of each child.
ChildContents(h, n) ==
  [i \in 1 .. Len(n.children) |-> Contents[h][n.children[i]]]

\* The height above a height.
LEMMA Successor ==
  ASSUME NEW h \in Nat
  PROVE  h + 1 \in Nat /\ (h + 1) - 1 = h /\ h + 1 # 0
  OBVIOUS

\* _insertRecursive of a leaf, and of an internal node.
LEMMA InsertAtHeight ==
  ASSUME NEW order, NEW k, NEW r, NEW h \in Nat
  PROVE  /\ \A n \in Nodes[0] :
              InsertRecursive(order, k, r)[0][n] =
                LeafInsert(order, n, FindInsertPos(n.keys, k), k, r)
         /\ \A n \in Nodes[h + 1] :
              InsertRecursive(order, k, r)[h + 1][n] =
                AdoptBelow(order, n, FindInsertPos(n.keys, k),
                  InsertRecursive(order, k, r)[h]
                    [n.children[FindInsertPos(n.keys, k)]])
<1> DEFINE f == InsertRecursive(order, k, r)
<1>1. f = [i \in Nat |-> InsertStep(order, k, r, f[i - 1], i)]
  BY InsertRecursiveAt
<1>2. /\ \A n \in Nodes[0] : n.leaf
      /\ \A n \in Nodes[h + 1] : ~ n.leaf
  BY NodeFields, Successor
<1> HIDE DEF f
<1>3. f[0] = InsertStep(order, k, r, f[0 - 1], 0) /\ f[h + 1] = InsertStep(order, k, r, f[h], h + 1)
  BY <1>1, Successor
<1>4. /\ \A n \in Nodes[0] : f[0][n] = LeafInsert(order, n, FindInsertPos(n.keys, k), k, r)
      /\ \A n \in Nodes[h + 1] : f[h + 1][n] =
                AdoptBelow(order, n, FindInsertPos(n.keys, k), f[h][n.children[FindInsertPos(n.keys, k)]])
  BY <1>2, <1>3 DEF InsertStep
<1> QED
  BY <1>4 DEF f

\* _removeRecursive of a leaf, and of an internal node.
LEMMA RemoveAtHeight ==
  ASSUME NEW k, NEW h \in Nat
  PROVE  /\ \A n \in Nodes[0] : RemoveRecursive(k)[0][n] = LeafRemove(n, k)
         /\ \A n \in Nodes[h + 1] :
              RemoveRecursive(k)[h + 1][n] =
                Replaced(n, DescendPos(n.keys, k),
                  RemoveRecursive(k)[h][n.children[DescendPos(n.keys, k)]])
<1> DEFINE f == RemoveRecursive(k)
<1>1. f = [i \in Nat |-> RemoveStep(k, f[i - 1], i)]
  BY RemoveRecursiveAt
<1>2. /\ \A n \in Nodes[0] : n.leaf
      /\ \A n \in Nodes[h + 1] : ~ n.leaf
  BY NodeFields, Successor
<1> HIDE DEF f
<1>3. f[0] = RemoveStep(k, f[0 - 1], 0) /\ f[h + 1] = RemoveStep(k, f[h], h + 1)
  BY <1>1, Successor
<1>4. /\ \A n \in Nodes[0] : f[0][n] = LeafRemove(n, k)
      /\ \A n \in Nodes[h + 1] : f[h + 1][n] =
                Replaced(n, DescendPos(n.keys, k), f[h][n.children[DescendPos(n.keys, k)]])
  BY <1>2, <1>3 DEF RemoveStep
<1> QED
  BY <1>4 DEF f

\* _searchNode of a leaf, and of an internal node.
LEMMA SearchAtHeight ==
  ASSUME NEW k, NEW h \in Nat
  PROVE  /\ \A n \in Nodes[0] : SearchNode(k)[0][n] = SearchLeaf(n, k)
         /\ \A n \in Nodes[h + 1] :
              SearchNode(k)[h + 1][n] =
                  SearchNode(k)[h][n.children[DescendPos(n.keys, k)]]
<1> DEFINE f == SearchNode(k)
<1>1. f = [i \in Nat |-> SearchStep(k, f[i - 1], i)]
  BY SearchNodeAt
<1>2. /\ \A n \in Nodes[0] : n.leaf
      /\ \A n \in Nodes[h + 1] : ~ n.leaf
  BY NodeFields, Successor
<1> HIDE DEF f
<1>3. f[0] = SearchStep(k, f[0 - 1], 0) /\ f[h + 1] = SearchStep(k, f[h], h + 1)
  BY <1>1, Successor
<1>4. /\ \A n \in Nodes[0] : f[0][n] = SearchLeaf(n, k)
      /\ \A n \in Nodes[h + 1] : f[h + 1][n] = f[h][n.children[DescendPos(n.keys, k)]]
  BY <1>2, <1>3 DEF SearchStep
<1> QED
  BY <1>4 DEF f

\* The walk below a leaf, and below an internal node.
LEMMA ContentsAtHeight ==
  ASSUME NEW h \in Nat
  PROVE  /\ \A n \in Nodes[0] : Contents[0][n] = LeafContents(n)
         /\ \A n \in Nodes[h + 1] :
              Contents[h + 1][n] = FlattenSeq(ChildContents(h, n))
<1>2. /\ \A n \in Nodes[0] : n.leaf
      /\ \A n \in Nodes[h + 1] : ~ n.leaf
  BY NodeFields, Successor
<1>3. Contents[0] = ContentsStep(Contents[0 - 1], 0) /\ Contents[h + 1] = ContentsStep(Contents[h], h + 1)
  BY ContentsAt, Successor
<1> QED
  BY <1>2, <1>3 DEF ContentsStep, ChildContents

\* A descent stays in a leaf; in an internal node if it does in the child.
LEMMA StaysAtHeight ==
  ASSUME NEW k, NEW inserting \in BOOLEAN, NEW h \in Nat
  PROVE  /\ \A n \in Nodes[0] : DescentStays(k, inserting)[0][n]
         /\ \A n \in Nodes[h + 1] :
              LET i == IF inserting THEN FindInsertPos(n.keys, k) ELSE DescendPos(n.keys, k)
              IN  (i <= Len(n.children) /\ DescentStays(k, inserting)[h][n.children[i]]) =>
                    DescentStays(k, inserting)[h + 1][n]
<1> DEFINE f == DescentStays(k, inserting)
<1>1. f = [i \in Nat |-> StaysStep(k, inserting, f[i - 1], i)]
  BY DescentStaysAt
<1>2. /\ \A n \in Nodes[0] : n.leaf
      /\ \A n \in Nodes[h + 1] : ~ n.leaf
  BY NodeFields, Successor
<1> HIDE DEF f
<1>3. f[0] = StaysStep(k, inserting, f[0 - 1], 0) /\ f[h + 1] = StaysStep(k, inserting, f[h], h + 1)
  BY <1>1, Successor
<1>4. \A n \in Nodes[0] : f[0][n]
  BY <1>2, <1>3 DEF StaysStep
<1>5. ASSUME NEW n \in Nodes[h + 1], NEW i,
             i = IF inserting THEN FindInsertPos(n.keys, k) ELSE DescendPos(n.keys, k),
             i <= Len(n.children), f[h][n.children[i]]
      PROVE  f[h + 1][n]
  BY <1>3, <1>5 DEF StaysStep
<1> QED
  BY <1>4, <1>5 DEF f

\* Its children fit between its separators.
ChildrenFit(mode, S, h, n, lo, hi) ==
  \A i \in 1 .. Len(n.children) :
    FitsAs(mode, S, h, n.children[i], LoAt(n, lo, i), HiAt(n, hi, i))

\* When a leaf fits, and when an internal node does.
LEMMA FitsAtHeight ==
  ASSUME NEW mode, NEW S, NEW h \in Nat, NEW n, NEW lo, NEW hi
  PROVE  /\ FitsAs(mode, S, 0, n, lo, hi) <=>
              n \in Nodes[0] /\ lo \in Bound /\ hi \in Bound /\ LeafFits(mode, S, n, lo, hi)
         /\ FitsAs(mode, S, h + 1, n, lo, hi) <=>
              /\ n \in Nodes[h + 1] /\ lo \in Bound /\ hi \in Bound
              /\ InnerFits(S, n, lo, hi) /\ ChildrenFit(mode, S, h, n, lo, hi)
<1> DEFINE f == Fits(mode, S)
<1>1. f = [i \in Nat |-> FitsStep(mode, S, f[i - 1], i)]
  BY FitsAt
<1> HIDE DEF f
<1>3. f[0] = FitsStep(mode, S, f[0 - 1], 0) /\ f[h + 1] = FitsStep(mode, S, f[h], h + 1)
  BY <1>1, Successor
<1> DEFINE x == Slot(n, lo, hi)
<1>4. x.node = n /\ x.lo = lo /\ x.hi = hi
  BY DEF Slot
<1>5. \A i \in Nat : x \in Slots(i) <=> n \in Nodes[i] /\ lo \in Bound /\ hi \in Bound
  BY DEF Slots, Slot
<1> HIDE DEF x
<1>6. x \in f[0] <=> x \in Slots(0) /\ LeafFits(mode, S, n, lo, hi)
  BY <1>3, <1>4 DEF FitsStep
<1>7. x \in f[h + 1] <=> /\ x \in Slots(h + 1)
                        /\ InnerFits(S, n, lo, hi)
                        /\ \A i \in 1 .. Len(n.children) : SlotAt(x, i) \in f[h]
  BY <1>3, <1>4, Successor DEF FitsStep
<1>8. \A i : SlotAt(x, i) = Slot(n.children[i], LoAt(n, lo, i), HiAt(n, hi, i))
  BY <1>4 DEF SlotAt
<1> QED
  BY <1>5, <1>6, <1>7, <1>8 DEF f, x, FitsAs, ChildrenFit

\* A node that fits is a node.
LEMMA FitsIsNode ==
  ASSUME NEW mode, NEW S, NEW h \in Nat, NEW n, NEW lo, NEW hi,
         FitsAs(mode, S, h, n, lo, hi)
  PROVE  n \in Nodes[h] /\ lo \in Bound /\ hi \in Bound
<1>1. CASE h = 0
  BY <1>1, FitsAtHeight
<1>2. CASE h # 0
  <2>1. h - 1 \in Nat /\ (h - 1) + 1 = h
    BY <1>2
  <2>2. FitsAs(mode, S, (h - 1) + 1, n, lo, hi)
    BY <2>1
  <2>3. n \in Nodes[(h - 1) + 1] /\ lo \in Bound /\ hi \in Bound
    BY <2>1, <2>2, FitsAtHeight
  <2> QED
    BY <2>1, <2>3
<1> QED
  BY <1>1, <1>2

-----------------------------------------------------------------------------
\* Positions in a node.

\* Keys are numbers.
LEMMA KeysOrdered ==
  ASSUME NEW keys \in Seq(Keys)
  PROVE  Len(keys) \in Nat /\ \A i \in 1 .. Len(keys) : keys[i] \in Keys /\ keys[i] \in Int
<1>1. Len(keys) \in Nat /\ \A i \in 1 .. Len(keys) : keys[i] \in Keys
  BY ElementOfSeq
<1>2. \A x \in Keys : x \in Int
  BY KeysAssumption
<1> QED
  BY ONLY <1>1, <1>2

\* What makes p the child an insert of k descends to, ...
IsInsertPos(p, keys, k) ==
  /\ p \in 1 .. Len(keys) + 1
  /\ p <= Len(keys) => k <= keys[p]
  /\ \A i \in 1 .. p - 1 : keys[i] < k

\* ... and the one that a search or a removal descends to.
IsDescendPos(p, keys, k) ==
  /\ p \in 1 .. Len(keys) + 1
  /\ p <= Len(keys) => k < keys[p]
  /\ \A i \in 1 .. p - 1 : keys[i] <= k

\* _findInsertPos finds the position where a key goes in, ...
LEMMA FindInsertPosFirst ==
  ASSUME NEW keys \in Seq(Keys), NEW k \in Keys
  PROVE  IsInsertPos(FindInsertPos(keys, k), keys, k)
<1> DEFINE n == Len(keys)
           I == {i \in 1 .. n : k <= keys[i]}
           p == FindInsertPos(keys, k)
<1>1. p = FirstIn(I, n)
  BY DEF FindInsertPos, FirstPos, SelectInSeq, FirstIn
<1>2. n \in Nat /\ k \in Int /\ \A i \in 1 .. n : keys[i] \in Int
  BY KeysOrdered, KeysAssumption
<1>3. I \in SUBSET (1 .. n) /\ \A i \in 1 .. n : i \in I <=> k <= keys[i]
  OBVIOUS
<1> HIDE DEF p, I, n
<1>4. IsFirstIn(p, I, n)
  BY <1>1, <1>2, <1>3, FirstPassing
<1>5. /\ p \in 1 .. n + 1
      /\ p <= n => p \in I
      /\ \A i \in 1 .. p - 1 : i \notin I
  BY <1>4 DEF IsFirstIn
<1>6. p \in 1 .. n + 1 /\ (p <= n => k <= keys[p])
      /\ \A i \in 1 .. p - 1 : keys[i] < k
  BY <1>2, <1>3, <1>5
<1> QED
  BY <1>6 DEF p, n, IsInsertPos

\* ... and the loop of search and remove the child to descend into.
LEMMA DescendPosFirst ==
  ASSUME NEW keys \in Seq(Keys), NEW k \in Keys
  PROVE  IsDescendPos(DescendPos(keys, k), keys, k)
<1> DEFINE n == Len(keys)
           I == {i \in 1 .. n : k < keys[i]}
           p == DescendPos(keys, k)
<1>1. p = FirstIn(I, n)
  BY DEF DescendPos, FirstPos, SelectInSeq, FirstIn
<1>2. n \in Nat /\ k \in Int /\ \A i \in 1 .. n : keys[i] \in Int
  BY KeysOrdered, KeysAssumption
<1>3. I \in SUBSET (1 .. n) /\ \A i \in 1 .. n : i \in I <=> k < keys[i]
  OBVIOUS
<1> HIDE DEF p, I, n
<1>4. IsFirstIn(p, I, n)
  BY <1>1, <1>2, <1>3, FirstPassing
<1>5. /\ p \in 1 .. n + 1
      /\ p <= n => p \in I
      /\ \A i \in 1 .. p - 1 : i \notin I
  BY <1>4 DEF IsFirstIn
<1>6. p \in 1 .. n + 1 /\ (p <= n => k < keys[p])
      /\ \A i \in 1 .. p - 1 : keys[i] <= k
  BY <1>2, <1>3, <1>5
<1> QED
  BY <1>6 DEF p, n, IsDescendPos

\* Where k is in a leaf, 0 when it is not.
KeyPos(keys, k) == SelectInSeq(keys, LAMBDA x : x = k)

\* What makes i that position.
IsKeyPos(i, keys, k) ==
  IF i = 0 THEN \A j \in 1 .. Len(keys) : keys[j] # k
  ELSE i \in 1 .. Len(keys) /\ keys[i] = k

\* KeyPos is such a position.
LEMMA KeyPosFirst ==
  ASSUME NEW keys \in Seq(Keys), NEW k \in Keys
  PROVE  IsKeyPos(KeyPos(keys, k), keys, k)
<1> DEFINE I == {i \in 1 .. Len(keys) : keys[i] = k}
           p == KeyPos(keys, k)
<1>1. p = IF I # {} THEN Min(I) ELSE 0
  BY DEF KeyPos, SelectInSeq
<1> HIDE DEF p
<1>2. I # {} => Min(I) \in I
  BY MinProperties, I \in SUBSET Nat
<1>3. IsKeyPos(p, keys, k)
  BY <1>1, <1>2 DEF IsKeyPos
<1> QED
  BY <1>3 DEF p

-----------------------------------------------------------------------------
\* What fits.

\* What fits with the keys of S fits with those of a larger set.
LEMMA FitsGrows ==
  ASSUME NEW mode, NEW S, NEW Q, S \subseteq Q
  PROVE  \A h \in Nat : \A n, lo, hi :
           FitsAs(mode, S, h, n, lo, hi) => FitsAs(mode, Q, h, n, lo, hi)
<1> DEFINE T == {h \in Nat : \A n, lo, hi :
                   FitsAs(mode, S, h, n, lo, hi) => FitsAs(mode, Q, h, n, lo, hi)}
<1>1. \A keys, lo, hi : KeysFit(keys, S, lo, hi) => KeysFit(keys, Q, lo, hi)
  BY DEF KeysFit
<1>2. 0 \in T
  <2>1. \A n, lo, hi : LeafFits(mode, S, n, lo, hi) => LeafFits(mode, Q, n, lo, hi)
    BY <1>1 DEF LeafFits
  <2> QED
    BY <2>1, FitsAtHeight
<1>3. ASSUME NEW h \in Nat, h \in T
      PROVE  h + 1 \in T
  <2>1. \A n, lo, hi : InnerFits(S, n, lo, hi) => InnerFits(Q, n, lo, hi)
    BY <1>1 DEF InnerFits
  <2>2. \A n, lo, hi : ChildrenFit(mode, S, h, n, lo, hi) => ChildrenFit(mode, Q, h, n, lo, hi)
    BY <1>3 DEF ChildrenFit
  <2>3. \A n, lo, hi : FitsAs(mode, S, h + 1, n, lo, hi) => FitsAs(mode, Q, h + 1, n, lo, hi)
    BY <2>1, <2>2, FitsAtHeight
  <2> QED
    BY <2>3
<1> HIDE DEF T
<1>4. \A h \in Nat : h \in T
  BY <1>2, <1>3, NatInduct
<1> QED
  BY <1>4 DEF T

\* The fields of a leaf that fits.
LEMMA LeafFields ==
  ASSUME NEW mode, NEW S, NEW n, NEW lo, NEW hi, FitsAs(mode, S, 0, n, lo, hi)
  PROVE  /\ n \in Nodes[0] /\ lo \in Bound /\ hi \in Bound
         /\ n = Leaf(n.keys, n.records)
         /\ n.keys \in Seq(Keys) /\ n.records \in Seq(Rows)
         /\ LeafFits(mode, S, n, lo, hi)
<1>1. n \in Nodes[0] /\ lo \in Bound /\ hi \in Bound /\ LeafFits(mode, S, n, lo, hi)
  BY FitsAtHeight
<1>2. n = [leaf |-> n.leaf, keys |-> n.keys, records |-> n.records, children |-> n.children]
      /\ n.leaf = TRUE /\ n.children = << >> /\ n.keys \in Seq(Keys) /\ n.records \in Seq(Rows)
  <2>1. n \in [leaf : {TRUE}, keys : Seq(Keys), records : Seq(Rows),
               children : {<< >>}]
    BY <1>1, NodesAt
  <2> QED
    BY <2>1
<1> QED
  BY <1>1, <1>2 DEF Leaf

\* The fields of an internal node that fits.
LEMMA InnerFields ==
  ASSUME NEW mode, NEW S, NEW h \in Nat, NEW n, NEW lo, NEW hi,
         FitsAs(mode, S, h + 1, n, lo, hi)
  PROVE  /\ n \in Nodes[h + 1] /\ lo \in Bound /\ hi \in Bound
         /\ n = Internal(n.keys, n.children)
         /\ n.keys \in Seq(Keys) /\ n.children \in Seq(Nodes[h])
         /\ InnerFits(S, n, lo, hi) /\ ChildrenFit(mode, S, h, n, lo, hi)
<1>1. n \in Nodes[h + 1] /\ lo \in Bound /\ hi \in Bound /\ InnerFits(S, n, lo, hi)
      /\ ChildrenFit(mode, S, h, n, lo, hi)
  BY FitsAtHeight
<1>2. n = [leaf |-> n.leaf, keys |-> n.keys, records |-> n.records, children |-> n.children]
      /\ n.leaf = FALSE /\ n.records = << >> /\ n.keys \in Seq(Keys) /\ n.children \in Seq(Nodes[h])
  <2>1. n \in [leaf : {FALSE}, keys : Seq(Keys), records : {<< >>},
               children : Seq(Nodes[h])]
    BY <1>1, NodesAt
  <2> QED
    BY <2>1
<1> QED
  BY <1>1, <1>2 DEF Internal

\* What makes a leaf, and an internal node, fit.
LEMMA LeafMade ==
  ASSUME NEW mode, NEW S, NEW keys \in Seq(Keys), NEW records \in Seq(Rows),
         NEW lo \in Bound, NEW hi \in Bound,
         LeafFits(mode, S, Leaf(keys, records), lo, hi)
  PROVE  FitsAs(mode, S, 0, Leaf(keys, records), lo, hi)
<1>1. Leaf(keys, records) \in Nodes[0]
  BY NodesAt DEF Leaf
<1> QED
  BY <1>1, FitsAtHeight

\* The same of an internal node.
LEMMA InnerMade ==
  ASSUME NEW mode, NEW S, NEW h \in Nat, NEW keys \in Seq(Keys),
         NEW children \in Seq(Nodes[h]), NEW lo \in Bound, NEW hi \in Bound,
         InnerFits(S, Internal(keys, children), lo, hi),
         ChildrenFit(mode, S, h, Internal(keys, children), lo, hi)
  PROVE  FitsAs(mode, S, h + 1, Internal(keys, children), lo, hi)
<1>1. Internal(keys, children) \in Nodes[h + 1]
  BY NodesAt DEF Internal
<1> QED
  BY <1>1, FitsAtHeight

\* Where a child of a node lies, as numbers.
LEMMA InnerKeys ==
  ASSUME NEW S, NEW n, NEW lo \in Bound, NEW hi \in Bound, n.keys \in Seq(Keys),
         InnerFits(S, n, lo, hi)
  PROVE  /\ Len(n.keys) \in Nat
         /\ \A i \in 1 .. Len(n.keys) :
              /\ n.keys[i] \in Keys /\ n.keys[i] \in Int /\ n.keys[i] # NoKey
              /\ n.keys[i] \in S /\ AtLeast(n.keys[i], lo) /\ AtMost(n.keys[i], hi)
         /\ \A i, j \in 1 .. Len(n.keys) : i <= j => n.keys[i] <= n.keys[j]
         /\ Len(n.children) <= Len(n.keys) + 1
         /\ lo # NoKey => lo \in Int
         /\ hi # NoKey => hi \in Int
<1>1. Len(n.keys) \in Nat /\ \A i \in 1 .. Len(n.keys) : n.keys[i] \in Keys /\ n.keys[i] \in Int
  BY KeysOrdered
<1>2. NoKey \notin Int /\ Keys \subseteq Int
  BY KeysAssumption
<1>3. \A i \in 1 .. Len(n.keys) : n.keys[i] # NoKey
  BY <1>1, <1>2
<1>4. KeysFit(n.keys, S, lo, hi)
  BY DEF InnerFits
<1>5. Len(n.children) <= Len(n.keys) + 1
  <2>1. Len(n.children) = Len(n.keys) + 1 \/ Len(n.children) = Len(n.keys)
    BY DEF InnerFits
  <2> QED
    BY <1>1, <2>1
<1>6. (lo # NoKey => lo \in Int) /\ (hi # NoKey => hi \in Int)
  BY <1>2 DEF Bound
<1> QED
  BY <1>1, <1>3, <1>4, <1>5, <1>6 DEF KeysFit, Sorted

-----------------------------------------------------------------------------
\* What a node that fits holds.

\* Entries in key order.
OrderedKeys(c) == \A i, j \in 1 .. Len(c) : i < j => c[i].key <= c[j].key

\* A key that may be below a node with these bounds.
Within(mode, S, k, lo, hi) ==
  /\ k \in Keys /\ k \in S /\ AtLeast(k, lo) /\ AtMost(k, hi)
  /\ mode = "below" => Under(k, hi)

\* The entries below a node that fits.
Holds(mode, S, c, lo, hi) ==
  /\ c \in Seq(Entry)
  /\ \A i \in 1 .. Len(c) : Within(mode, S, c[i].key, lo, hi)
  /\ OrderedKeys(c)

\* What a leaf that fits holds.
LEMMA LeafHolds ==
  ASSUME NEW mode, NEW S, NEW n, NEW lo, NEW hi, FitsAs(mode, S, 0, n, lo, hi)
  PROVE  /\ Contents[0][n] = LeafContents(n)
         /\ Len(Contents[0][n]) = Len(n.keys)
         /\ \A i \in 1 .. Len(n.keys) :
              Contents[0][n][i] = [key |-> n.keys[i], row |-> n.records[i]]
         /\ Holds(mode, S, Contents[0][n], lo, hi)
<1>1. /\ n \in Nodes[0] /\ n.keys \in Seq(Keys) /\ n.records \in Seq(Rows)
      /\ LeafFits(mode, S, n, lo, hi)
  BY LeafFields
<1>2. /\ Len(n.keys) \in Nat /\ Len(n.records) = Len(n.keys)
      /\ \A i \in 1 .. Len(n.keys) : n.keys[i] \in Keys /\ n.keys[i] \in Int
  BY <1>1, KeysOrdered DEF LeafFits
<1>3. \A i \in 1 .. Len(n.keys) : n.records[i] \in Rows
  BY <1>1, <1>2, ElementOfSeq
<1> DEFINE c == LeafContents(n)
           l == Len(n.keys)
<1>4. Contents[0][n] = c
  BY <1>1, 0 \in Nat, ContentsAtHeight
<1>5. /\ c = [i \in 1 .. l |-> c[i]]
      /\ \A i \in 1 .. l : c[i] = [key |-> n.keys[i], row |-> n.records[i]]
  BY DEF LeafContents
<1>6. \A i \in 1 .. l : c[i].key = n.keys[i] /\ c[i] \in Entry
  BY <1>2, <1>3 DEF LeafContents, Entry
<1>7. \A i \in 1 .. l : Within(mode, S, c[i].key, lo, hi)
  BY <1>1, <1>2, <1>6 DEF LeafFits, KeysFit, Within, AllUnder
<1>8. \A i, j \in 1 .. l : i < j => n.keys[i] <= n.keys[j]
  <2>1. \A i, j \in 1 .. l : i < j => i <= j
    BY <1>2
  <2>2. Sorted(n.keys)
    BY <1>1 DEF LeafFits, KeysFit
  <2> QED
    BY <2>1, <2>2 DEF Sorted
<1>9. l \in Nat
  BY <1>2
<1> HIDE DEF c, l
<1>10. c \in Seq(Entry) /\ Len(c) = l
  BY <1>5, <1>6, <1>9, IsSequence
<1>11. OrderedKeys(c)
  BY <1>6, <1>8, <1>10 DEF OrderedKeys
<1> QED
  BY <1>4, <1>5, <1>7, <1>10, <1>11 DEF Holds, c, l

\* What is to be shown of every height: what fits, holds its entries in order.
HoldsAt(mode, S, h) ==
  \A n, lo, hi : FitsAs(mode, S, h, n, lo, hi) =>
                   Holds(mode, S, Contents[h][n], lo, hi)

\* The contents of a node in the order of its children.
LEMMA InnerHolds ==
  ASSUME NEW mode, NEW S, NEW h \in Nat, NEW n, NEW lo, NEW hi,
         FitsAs(mode, S, h + 1, n, lo, hi),
         HoldsAt(mode, S, h)
  PROVE  /\ Contents[h + 1][n] = FlattenSeq(ChildContents(h, n))
         /\ ChildContents(h, n) \in Seq(Seq(Entry))
         /\ Len(ChildContents(h, n)) = Len(n.children)
         /\ \A i \in 1 .. Len(n.children) :
              /\ ChildContents(h, n)[i] = Contents[h][n.children[i]]
              /\ Holds(mode, S, ChildContents(h, n)[i], LoAt(n, lo, i), HiAt(n, hi, i))
<1>1. n \in Nodes[h + 1] /\ n.children \in Seq(Nodes[h]) /\ ChildrenFit(mode, S, h, n, lo, hi)
  BY InnerFields
<1>2. Contents[h + 1][n] = FlattenSeq(ChildContents(h, n))
  BY <1>1, ContentsAtHeight
<1> DEFINE s == ChildContents(h, n)
           l == Len(n.children)
<1>3. l \in Nat
  BY <1>1, LenProperties
<1>4. /\ s = [i \in 1 .. l |-> s[i]]
      /\ \A i \in 1 .. l : s[i] = Contents[h][n.children[i]]
  BY DEF ChildContents
<1>5. \A i \in 1 .. l : Holds(mode, S, s[i], LoAt(n, lo, i), HiAt(n, hi, i))
  BY <1>1, <1>4 DEF ChildrenFit, HoldsAt
<1>6. \A i \in 1 .. l : s[i] \in Seq(Entry)
  BY <1>5 DEF Holds
<1> DEFINE Q == Seq(Entry)
<1> HIDE DEF s, l, Q
<1>7. s \in Seq(Q) /\ Len(s) = l
  <2>1. \A i \in 1 .. l : s[i] \in Q
    BY <1>6 DEF Q
  <2> QED
    BY <1>3, <1>4, <2>1, IsSequence
<1> QED
  BY <1>2, <1>4, <1>5, <1>7 DEF s, l, Q

\* A child lies inside its node, and before the children after it.
LEMMA ChildBounds ==
  ASSUME NEW S, NEW n, NEW lo \in Bound, NEW hi \in Bound, n.keys \in Seq(Keys),
         InnerFits(S, n, lo, hi), NEW i \in 1 .. Len(n.children)
  PROVE  /\ LoAt(n, lo, i) \in Bound /\ HiAt(n, hi, i) \in Bound
         /\ \A k \in Int : AtLeast(k, LoAt(n, lo, i)) => AtLeast(k, lo)
         /\ \A k \in Int : AtMost(k, HiAt(n, hi, i)) => AtMost(k, hi)
         /\ \A k \in Int : Under(k, HiAt(n, hi, i)) => Under(k, hi)
<1>1. /\ Len(n.keys) \in Nat /\ Len(n.children) <= Len(n.keys) + 1
      /\ \A j \in 1 .. Len(n.keys) :
           /\ n.keys[j] \in Keys /\ n.keys[j] \in Int /\ n.keys[j] # NoKey
           /\ AtLeast(n.keys[j], lo) /\ AtMost(n.keys[j], hi)
      /\ (lo # NoKey => lo \in Int) /\ (hi # NoKey => hi \in Int)
  BY InnerKeys
<1>2. /\ LoAt(n, lo, i) \in Bound
      /\ \A k \in Int : AtLeast(k, LoAt(n, lo, i)) => AtLeast(k, lo)
  <2>1. CASE i = 1
    BY <2>1 DEF LoAt
  <2>2. CASE i # 1
    <3>1. i - 1 \in 1 .. Len(n.keys) /\ LoAt(n, lo, i) = n.keys[i - 1]
      BY <1>1, <2>2 DEF LoAt, InnerFits
    <3> DEFINE a == n.keys[i - 1]
    <3>2. a \in Keys /\ a \in Int /\ a # NoKey /\ AtLeast(a, lo)
      BY <1>1, <3>1
    <3> HIDE DEF a
    <3>3. \A k \in Int : AtLeast(k, a) => AtLeast(k, lo)
      BY <1>1, <3>2 DEF AtLeast
    <3> QED
      BY <3>1, <3>2, <3>3 DEF Bound, a
  <2> QED
    BY <2>1, <2>2
<1>3. /\ HiAt(n, hi, i) \in Bound
      /\ \A k \in Int : AtMost(k, HiAt(n, hi, i)) => AtMost(k, hi)
      /\ \A k \in Int : Under(k, HiAt(n, hi, i)) => Under(k, hi)
  <2>1. CASE i > Len(n.keys)
    <3>1. HiAt(n, hi, i) = hi
      BY <1>1, <2>1 DEF HiAt, InnerFits
    <3> QED
      BY <3>1
  <2>2. CASE i <= Len(n.keys)
    <3>1. i \in 1 .. Len(n.keys) /\ HiAt(n, hi, i) = n.keys[i]
      BY <1>1, <2>2 DEF HiAt, InnerFits
    <3> DEFINE a == n.keys[i]
    <3>2. a \in Keys /\ a \in Int /\ a # NoKey /\ AtMost(a, hi)
      BY <1>1, <3>1
    <3> HIDE DEF a
    <3>3. \A k \in Int : /\ AtMost(k, a) => AtMost(k, hi)
                         /\ Under(k, a) => Under(k, hi)
      BY <1>1, <3>2 DEF AtMost, Under
    <3> QED
      BY <3>1, <3>2, <3>3 DEF Bound, a
  <2>3. i \in Int /\ (i > Len(n.keys) \/ i <= Len(n.keys))
    BY <1>1
  <2> QED
    BY <2>1, <2>2, <2>3
<1> QED
  BY <1>2, <1>3

\* What one child holds is at most what a later one holds.
LEMMA ChildrenOrdered ==
  ASSUME NEW S, NEW n, NEW lo \in Bound, NEW hi \in Bound, n.keys \in Seq(Keys),
         InnerFits(S, n, lo, hi), NEW p \in 1 .. Len(n.children),
         NEW q \in 1 .. Len(n.children), p < q, NEW k \in Int, NEW l \in Int,
         AtMost(k, HiAt(n, hi, p)), AtLeast(l, LoAt(n, lo, q))
  PROVE  k <= l
<1>1. /\ Len(n.keys) \in Nat /\ Len(n.children) <= Len(n.keys) + 1
      /\ \A j \in 1 .. Len(n.keys) : n.keys[j] \in Int /\ n.keys[j] # NoKey
      /\ \A i, j \in 1 .. Len(n.keys) : i <= j => n.keys[i] <= n.keys[j]
  BY InnerKeys
<1>2. /\ p \in 1 .. Len(n.keys) /\ q - 1 \in 1 .. Len(n.keys) /\ p <= q - 1
      /\ q # 1 /\ p <= Len(n.keys)
  BY <1>1 DEF InnerFits
<1>3. HiAt(n, hi, p) = n.keys[p] /\ LoAt(n, lo, q) = n.keys[q - 1]
  BY <1>2 DEF HiAt, LoAt
<1> DEFINE a == n.keys[p]
           b == n.keys[q - 1]
<1>4. a \in Int /\ b \in Int /\ a # NoKey /\ b # NoKey /\ a <= b
  BY <1>1, <1>2
<1>5. AtMost(k, a) /\ AtLeast(l, b)
  BY <1>3
<1> HIDE DEF a, b
<1> QED
  BY <1>4, <1>5 DEF AtMost, AtLeast

\* Lemma ContentsHold: a node that fits holds entries in key order, between its
\* bounds.
LEMMA ContentsHold ==
  ASSUME NEW mode, NEW S
  PROVE  \A h \in Nat : HoldsAt(mode, S, h)
<1> DEFINE T == {h \in Nat : HoldsAt(mode, S, h)}
<1>1. 0 \in T
  BY LeafHolds DEF HoldsAt
<1>2. ASSUME NEW h \in Nat, h \in T
      PROVE  h + 1 \in T
  <2>0. HoldsAt(mode, S, h)
    BY <1>2
  <2> HIDE DEF T
  <2>1. ASSUME NEW n, NEW lo, NEW hi, FitsAs(mode, S, h + 1, n, lo, hi)
        PROVE  Holds(mode, S, Contents[h + 1][n], lo, hi)
    <3> DEFINE s == ChildContents(h, n)
               c == Contents[h + 1][n]
    <3>1. /\ c = FlattenSeq(s) /\ s \in Seq(Seq(Entry)) /\ Len(s) = Len(n.children)
          /\ \A i \in 1 .. Len(n.children) :
               Holds(mode, S, s[i], LoAt(n, lo, i), HiAt(n, hi, i))
      BY <2>0, <2>1, InnerHolds
    <3>2. /\ n.keys \in Seq(Keys) /\ InnerFits(S, n, lo, hi) /\ lo \in Bound /\ hi \in Bound
      BY <2>1, InnerFields
    <3> HIDE DEF s, c
    <3>3. c \in Seq(Entry)
      BY <3>1, FlattenIsSeq
    <3>4. ASSUME NEW i \in 1 .. Len(n.children), NEW k, Within(mode, S, k, LoAt(n, lo, i), HiAt(n, hi, i))
          PROVE  Within(mode, S, k, lo, hi)
      <4>1. k \in Int
        BY <3>4, KeysAssumption DEF Within
      <4> QED
        BY <3>2, <3>4, <4>1, ChildBounds DEF Within
    <3>5. ASSUME NEW m, NEW p, NEW j, PartOf(s, m, p, j)
          PROVE  /\ p \in 1 .. Len(n.children) /\ j \in 1 .. Len(s[p]) /\ c[m] = s[p][j]
                 /\ Within(mode, S, c[m].key, LoAt(n, lo, p), HiAt(n, hi, p))
      <4>1. p \in 1 .. Len(n.children) /\ j \in 1 .. Len(s[p]) /\ c[m] = s[p][j]
        BY <3>1, <3>5 DEF PartOf
      <4> QED
        BY <3>1, <4>1 DEF Holds
    <3>6. \A i \in 1 .. Len(c) : Within(mode, S, c[i].key, lo, hi)
      <4> TAKE m \in 1 .. Len(c)
      <4>1. PICK p, j : PartOf(s, m, p, j)
        BY <3>1, FlattenParts
      <4> QED
        BY <3>4, <3>5, <4>1
    <3>7. ASSUME NEW m \in 1 .. Len(c), NEW l \in 1 .. Len(c), m < l
          PROVE  c[m].key <= c[l].key
      <4>1. PartsOrdered(s, m, l)
        BY <3>1, <3>7, FlattenParts
      <4>2. PICK p, i, q, j : /\ PartOf(s, m, p, i) /\ PartOf(s, l, q, j)
                              /\ p < q \/ (p = q /\ i < j)
        BY <4>1 DEF PartsOrdered
      <4> DEFINE a == c[m].key
                 b == c[l].key
      <4>3. /\ p \in 1 .. Len(n.children) /\ i \in 1 .. Len(s[p]) /\ c[m] = s[p][i]
            /\ Within(mode, S, a, LoAt(n, lo, p), HiAt(n, hi, p))
        BY <3>5, <4>2
      <4>4. /\ q \in 1 .. Len(n.children) /\ j \in 1 .. Len(s[q]) /\ c[l] = s[q][j]
            /\ Within(mode, S, b, LoAt(n, lo, q), HiAt(n, hi, q))
        BY <3>5, <4>2
      <4>5. CASE p < q
        <5>1. a \in Int /\ b \in Int /\ AtMost(a, HiAt(n, hi, p)) /\ AtLeast(b, LoAt(n, lo, q))
          BY <4>3, <4>4, KeysAssumption DEF Within
        <5> HIDE DEF a, b
        <5>2. a <= b
          BY <3>2, <4>3, <4>4, <4>5, <5>1, ChildrenOrdered
        <5> QED
          BY <5>2 DEF a, b
      <4>6. CASE p = q /\ i < j
        <5>1. OrderedKeys(s[p])
          BY <3>1, <4>3 DEF Holds
        <5>2. s[p][i].key <= s[p][j].key
          BY <4>3, <4>4, <4>6, <5>1 DEF OrderedKeys
        <5> QED
          BY <4>3, <4>4, <4>6, <5>2
      <4> QED
        BY <4>2, <4>5, <4>6
    <3>8. OrderedKeys(c)
      BY <3>7 DEF OrderedKeys
    <3>9. Holds(mode, S, c, lo, hi)
      BY <3>3, <3>6, <3>8 DEF Holds
    <3> QED
      BY <3>9 DEF c
  <2> QED
    BY <2>1 DEF T, HoldsAt
<1> HIDE DEF T
<1>3. \A h \in Nat : h \in T
  BY <1>1, <1>2, NatInduct
<1> QED
  BY <1>3 DEF T

\* What the contents of a node that fits hold.
LEMMA HoldsContents ==
  ASSUME NEW mode, NEW S, NEW h \in Nat, NEW n, NEW lo, NEW hi,
         FitsAs(mode, S, h, n, lo, hi)
  PROVE  Holds(mode, S, Contents[h][n], lo, hi)
  BY ContentsHold DEF HoldsAt

\* s lists what the children of n hold.
Gathers(mode, S, h, n, lo, hi, s) ==
  /\ Contents[h + 1][n] = FlattenSeq(s)
  /\ s \in Seq(Seq(Entry)) /\ Len(s) = Len(n.children)
  /\ \A i \in 1 .. Len(n.children) :
       /\ s[i] = Contents[h][n.children[i]]
       /\ Holds(mode, S, s[i], LoAt(n, lo, i), HiAt(n, hi, i))

\* The contents of the children of a node that fits, in their order.
LEMMA InnerContents ==
  ASSUME NEW mode, NEW S, NEW h \in Nat, NEW n, NEW lo, NEW hi,
         FitsAs(mode, S, h + 1, n, lo, hi)
  PROVE  Gathers(mode, S, h, n, lo, hi, ChildContents(h, n))
<1>1. HoldsAt(mode, S, h)
  BY ContentsHold
<1> DEFINE s == ChildContents(h, n)
<1>2. /\ Contents[h + 1][n] = FlattenSeq(s)
      /\ s \in Seq(Seq(Entry))
      /\ Len(s) = Len(n.children)
      /\ \A i \in 1 .. Len(n.children) :
           /\ s[i] = Contents[h][n.children[i]]
           /\ Holds(mode, S, s[i], LoAt(n, lo, i), HiAt(n, hi, i))
  BY <1>1, InnerHolds
<1> HIDE DEF s
<1>3. Gathers(mode, S, h, n, lo, hi, s)
  BY <1>2 DEF Gathers
<1> QED
  BY <1>3 DEF s

-----------------------------------------------------------------------------
\* Descents.

\* k is strictly above the lower bound.
Above(k, lo) == lo # NoKey => lo < k

\* Child p of a node is there, and fits.
HasChild(mode, S, h, n, lo, hi, p) ==
  /\ p \in 1 .. Len(n.children)
  /\ FitsAs(mode, S, h, n.children[p], LoAt(n, lo, p), HiAt(n, hi, p))

\* Where search and remove descend, the key is in the child's bounds again.
LEMMA DescendChild ==
  ASSUME NEW mode, NEW S, NEW h \in Nat, NEW n, NEW lo, NEW hi,
         FitsAs(mode, S, h + 1, n, lo, hi), NEW k \in Keys,
         AtLeast(k, lo), Under(k, hi), NEW p, IsDescendPos(p, n.keys, k)
  PROVE  /\ HasChild(mode, S, h, n, lo, hi, p)
         /\ AtLeast(k, LoAt(n, lo, p)) /\ Under(k, HiAt(n, hi, p))
<1>1. /\ n.keys \in Seq(Keys) /\ InnerFits(S, n, lo, hi) /\ lo \in Bound /\ hi \in Bound
      /\ ChildrenFit(mode, S, h, n, lo, hi)
  BY InnerFields
<1> DEFINE L == Len(n.keys)
<1>2. /\ L \in Nat
      /\ \A j \in 1 .. L : n.keys[j] \in Int /\ n.keys[j] # NoKey
      /\ (lo # NoKey => lo \in Int) /\ (hi # NoKey => hi \in Int)
  BY <1>1, InnerKeys
<1>3. k \in Int
  BY KeysAssumption
<1>4. /\ p \in 1 .. L + 1
      /\ p <= L => k < n.keys[p]
      /\ \A i \in 1 .. p - 1 : n.keys[i] <= k
  BY DEF IsDescendPos
<1>5. Len(n.children) = L + 1 \/ (Len(n.children) = L /\ Closed(n.keys, lo, hi))
  BY <1>1 DEF InnerFits
<1>6. p \in 1 .. Len(n.children)
  <2>1. CASE Len(n.children) = L + 1
    BY <1>4, <2>1
  <2>2. CASE Len(n.children) = L /\ Closed(n.keys, lo, hi) /\ p <= L
    BY <1>2, <1>4, <2>2
  <2>3. CASE Len(n.children) = L /\ Closed(n.keys, lo, hi) /\ p = L + 1
    <3>1. hi \in Int /\ k < hi
      BY <1>2, <2>3 DEF Closed, Under
    <3>2. CASE L = 0
      <4>1. lo = hi
        BY <2>3, <3>2 DEF Closed
      <4>2. lo <= k
        BY <2>3, <4>1 DEF Closed, AtLeast
      <4> QED
        BY <1>3, <3>1, <4>1, <4>2
    <3>3. CASE L # 0
      <4>1. n.keys[L] = hi
        BY <2>3, <3>3 DEF Closed
      <4>2. L \in 1 .. p - 1
        BY <1>2, <2>3, <3>3
      <4>3. n.keys[L] <= k
        BY <1>4, <4>2
      <4> QED
        BY <1>3, <3>1, <4>1, <4>3
    <3> QED
      BY <3>2, <3>3
  <2>4. p <= L \/ p = L + 1
    BY <1>2, <1>4
  <2> QED
    BY <1>5, <2>1, <2>2, <2>3, <2>4
<1>7. AtLeast(k, LoAt(n, lo, p))
  <2>1. CASE p = 1
    BY <2>1 DEF LoAt
  <2>2. CASE p # 1
    <3>1. p - 1 \in 1 .. p - 1
      BY <1>2, <1>4, <2>2
    <3> QED
      BY <1>4, <2>2, <3>1 DEF LoAt, AtLeast
  <2> QED
    BY <2>1, <2>2
<1>8. Under(k, HiAt(n, hi, p))
  BY <1>4 DEF HiAt, Under
<1>9. FitsAs(mode, S, h, n.children[p], LoAt(n, lo, p), HiAt(n, hi, p))
  BY <1>1, <1>6 DEF ChildrenFit
<1> QED
  BY <1>6, <1>7, <1>8, <1>9 DEF HasChild

\* So it is where an insert descends.
LEMMA InsertChild ==
  ASSUME NEW mode, NEW S, NEW h \in Nat, NEW n, NEW lo, NEW hi,
         FitsAs(mode, S, h + 1, n, lo, hi), NEW k \in Keys,
         Above(k, lo), AtMost(k, hi), NEW p, IsInsertPos(p, n.keys, k)
  PROVE  /\ HasChild(mode, S, h, n, lo, hi, p)
         /\ Above(k, LoAt(n, lo, p)) /\ AtMost(k, HiAt(n, hi, p))
<1>1. /\ n.keys \in Seq(Keys) /\ InnerFits(S, n, lo, hi) /\ lo \in Bound /\ hi \in Bound
      /\ ChildrenFit(mode, S, h, n, lo, hi)
  BY InnerFields
<1> DEFINE L == Len(n.keys)
<1>2. /\ L \in Nat
      /\ \A j \in 1 .. L : n.keys[j] \in Int /\ n.keys[j] # NoKey
      /\ (lo # NoKey => lo \in Int) /\ (hi # NoKey => hi \in Int)
  BY <1>1, InnerKeys
<1>3. k \in Int
  BY KeysAssumption
<1>4. /\ p \in 1 .. L + 1
      /\ p <= L => k <= n.keys[p]
      /\ \A i \in 1 .. p - 1 : n.keys[i] < k
  BY DEF IsInsertPos
<1>5. Len(n.children) = L + 1 \/ (Len(n.children) = L /\ Closed(n.keys, lo, hi))
  BY <1>1 DEF InnerFits
<1>6. p \in 1 .. Len(n.children)
  <2>1. CASE Len(n.children) = L + 1
    BY <1>4, <2>1
  <2>2. CASE Len(n.children) = L /\ Closed(n.keys, lo, hi) /\ p <= L
    BY <1>2, <1>4, <2>2
  <2>3. CASE Len(n.children) = L /\ Closed(n.keys, lo, hi) /\ p = L + 1
    <3>1. hi \in Int /\ k <= hi
      BY <1>2, <2>3 DEF Closed, AtMost
    <3>2. CASE L = 0
      <4>1. lo = hi
        BY <2>3, <3>2 DEF Closed
      <4>2. lo < k
        BY <2>3, <4>1 DEF Closed, Above
      <4> QED
        BY <1>3, <3>1, <4>1, <4>2
    <3>3. CASE L # 0
      <4>1. n.keys[L] = hi
        BY <2>3, <3>3 DEF Closed
      <4>2. L \in 1 .. p - 1
        BY <1>2, <2>3, <3>3
      <4>3. n.keys[L] < k
        BY <1>4, <4>2
      <4> QED
        BY <1>3, <3>1, <4>1, <4>3
    <3> QED
      BY <3>2, <3>3
  <2>4. p <= L \/ p = L + 1
    BY <1>2, <1>4
  <2> QED
    BY <1>5, <2>1, <2>2, <2>3, <2>4
<1>7. Above(k, LoAt(n, lo, p))
  <2>1. CASE p = 1
    BY <2>1 DEF LoAt
  <2>2. CASE p # 1
    <3>1. p - 1 \in 1 .. p - 1
      BY <1>2, <1>4, <2>2
    <3> QED
      BY <1>4, <2>2, <3>1 DEF LoAt, Above
  <2> QED
    BY <2>1, <2>2
<1>8. AtMost(k, HiAt(n, hi, p))
  BY <1>4 DEF HiAt, AtMost
<1>9. FitsAs(mode, S, h, n.children[p], LoAt(n, lo, p), HiAt(n, hi, p))
  BY <1>1, <1>6 DEF ChildrenFit
<1> QED
  BY <1>6, <1>7, <1>8, <1>9 DEF HasChild

\* May a descent for k enter a node with these bounds?
Admits(inserting, k, lo, hi) ==
  IF inserting THEN Above(k, lo) /\ AtMost(k, hi) ELSE AtLeast(k, lo) /\ Under(k, hi)

\* No descent that may enter a node of height h leaves its children.
StaysAt(mode, S, k, inserting, h) ==
  \A n, lo, hi : FitsAs(mode, S, h, n, lo, hi) /\ Admits(inserting, k, lo, hi) =>
                   DescentStays(k, inserting)[h][n]

\* No descent runs off the children of a node that fits.
LEMMA DescentsStay ==
  ASSUME NEW mode, NEW S, NEW k \in Keys, NEW inserting \in BOOLEAN
  PROVE  \A h \in Nat : StaysAt(mode, S, k, inserting, h)
<1> DEFINE T == {h \in Nat : StaysAt(mode, S, k, inserting, h)}
<1>1. 0 \in T
  <2>1. \A n \in Nodes[0] : DescentStays(k, inserting)[0][n]
    BY 0 \in Nat, StaysAtHeight
  <2>2. StaysAt(mode, S, k, inserting, 0)
    BY <2>1, FitsIsNode DEF StaysAt
  <2> QED
    BY <2>2
<1>2. ASSUME NEW h \in Nat, h \in T
      PROVE  h + 1 \in T
  <2>1. StaysAt(mode, S, k, inserting, h)
    BY <1>2
  <2> HIDE DEF T
  <2>2. ASSUME NEW n, NEW lo, NEW hi, FitsAs(mode, S, h + 1, n, lo, hi),
               Admits(inserting, k, lo, hi)
        PROVE  DescentStays(k, inserting)[h + 1][n]
    <3> DEFINE i == IF inserting THEN FindInsertPos(n.keys, k) ELSE DescendPos(n.keys, k)
    <3>1. n \in Nodes[h + 1] /\ n.keys \in Seq(Keys)
      BY <2>2, InnerFields
    <3>2. (i <= Len(n.children) /\ DescentStays(k, inserting)[h][n.children[i]]) =>
            DescentStays(k, inserting)[h + 1][n]
      BY <3>1, StaysAtHeight
    <3>3. /\ HasChild(mode, S, h, n, lo, hi, i)
          /\ Admits(inserting, k, LoAt(n, lo, i), HiAt(n, hi, i))
      <4>1. CASE inserting
        <5>1. IsInsertPos(i, n.keys, k) /\ Above(k, lo) /\ AtMost(k, hi)
          BY <2>2, <3>1, <4>1, FindInsertPosFirst DEF Admits
        <5> HIDE DEF i
        <5>2. /\ HasChild(mode, S, h, n, lo, hi, i)
              /\ Above(k, LoAt(n, lo, i)) /\ AtMost(k, HiAt(n, hi, i))
          BY <2>2, <5>1, InsertChild
        <5> QED
          BY <4>1, <5>2 DEF Admits
      <4>2. CASE ~ inserting
        <5>1. IsDescendPos(i, n.keys, k) /\ AtLeast(k, lo) /\ Under(k, hi)
          BY <2>2, <3>1, <4>2, DescendPosFirst DEF Admits
        <5> HIDE DEF i
        <5>2. /\ HasChild(mode, S, h, n, lo, hi, i)
              /\ AtLeast(k, LoAt(n, lo, i)) /\ Under(k, HiAt(n, hi, i))
          BY <2>2, <5>1, DescendChild
        <5> QED
          BY <4>2, <5>2 DEF Admits
      <4> QED
        BY <4>1, <4>2
    <3> HIDE DEF i
    <3>4. DescentStays(k, inserting)[h][n.children[i]]
      BY <2>1, <3>3 DEF StaysAt, HasChild
    <3>5. i <= Len(n.children)
      BY <3>3 DEF HasChild
    <3> QED
      BY <3>2, <3>4, <3>5
  <2> QED
    BY <2>2 DEF T, StaysAt
<1> HIDE DEF T
<1>3. \A h \in Nat : h \in T
  BY <1>1, <1>2, NatInduct
<1> QED
  BY <1>3 DEF T

-----------------------------------------------------------------------------
\* Search.

\* An entry of c has the key k.
HasKey(c, k) == \E i \in 1 .. Len(c) : c[i].key = k

\* A search for k has something to find in a node: an entry, or, when nothing is
\* ever removed, the first key of the leaf behind a separator k.
Located(mode, c, k, lo) ==
  \/ HasKey(c, k)
  \/ mode = "kept" /\ lo # NoKey /\ k = lo

\* A key with one place in a node has it in the child the search descends into.
LEMMA LocatedChild ==
  ASSUME NEW mode \in {"below", "kept"}, NEW S, NEW h \in Nat, NEW n, NEW lo, NEW hi,
         FitsAs(mode, S, h + 1, n, lo, hi), NEW k \in Keys,
         AtLeast(k, lo), Under(k, hi), NEW p, IsDescendPos(p, n.keys, k),
         Located(mode, Contents[h + 1][n], k, lo)
  PROVE  Located(mode, Contents[h][n.children[p]], k, LoAt(n, lo, p))
<1> DEFINE s == ChildContents(h, n)
           L == Len(n.keys)
<1>1. /\ n.keys \in Seq(Keys) /\ InnerFits(S, n, lo, hi) /\ lo \in Bound /\ hi \in Bound
  BY InnerFields
<1>2. /\ L \in Nat /\ Len(n.children) <= L + 1
      /\ \A j \in 1 .. L : n.keys[j] \in Int /\ n.keys[j] # NoKey /\ AtLeast(n.keys[j], lo)
      /\ \A i, j \in 1 .. L : i <= j => n.keys[i] <= n.keys[j]
  BY <1>1, InnerKeys
<1>3. k \in Int
  BY KeysAssumption
<1>4. HasChild(mode, S, h, n, lo, hi, p)
  BY DescendChild
<1>5. p \in 1 .. Len(n.children) /\ p \in 1 .. L + 1 /\ (p <= L => k < n.keys[p])
      /\ \A i \in 1 .. p - 1 : n.keys[i] <= k
  BY <1>4 DEF HasChild, IsDescendPos
<1>6. /\ Contents[h + 1][n] = FlattenSeq(s) /\ s \in Seq(Seq(Entry))
      /\ \A i \in 1 .. Len(n.children) :
           /\ s[i] = Contents[h][n.children[i]]
           /\ Holds(mode, S, s[i], LoAt(n, lo, i), HiAt(n, hi, i))
      /\ Len(s) = Len(n.children)
  BY InnerContents DEF Gathers
<1>7. CASE mode = "kept" /\ lo # NoKey /\ k = lo
  <2>1. CASE p = 1
    BY <1>7, <2>1 DEF LoAt, Located
  <2>2. CASE p # 1
    <3> DEFINE a == n.keys[p - 1]
    <3>1. p - 1 \in 1 .. p - 1 /\ p - 1 \in 1 .. L
      BY <1>2, <1>5, <2>2
    <3>2. a \in Int /\ a # NoKey /\ AtLeast(a, lo) /\ a <= k /\ LoAt(n, lo, p) = a
      BY <1>2, <1>5, <2>2, <3>1 DEF LoAt
    <3> HIDE DEF a
    <3>3. a = k
      BY <1>3, <1>7, <3>2 DEF AtLeast
    <3> QED
      BY <1>7, <3>2, <3>3 DEF Located
  <2> QED
    BY <2>1, <2>2
<1>8. CASE HasKey(Contents[h + 1][n], k)
  <2>1. PICK m \in 1 .. Len(FlattenSeq(s)) : FlattenSeq(s)[m].key = k
    BY <1>6, <1>8 DEF HasKey
  <2>2. PICK q, j : PartOf(s, m, q, j)
    BY <1>6, FlattenParts
  <2>3. q \in 1 .. Len(n.children) /\ j \in 1 .. Len(s[q]) /\ s[q][j].key = k
    BY <1>6, <2>1, <2>2 DEF PartOf
  <2>4. Within(mode, S, k, LoAt(n, lo, q), HiAt(n, hi, q))
    BY <1>6, <2>3 DEF Holds
  <2>5. CASE q = p
    BY <1>6, <2>3, <2>5 DEF Located, HasKey
  <2>6. CASE q < p
    <3>1. q \in 1 .. L /\ q \in 1 .. p - 1 /\ p - 1 \in 1 .. L /\ p - 1 \in 1 .. p - 1 /\ p # 1 /\ q <= p - 1
      BY <1>2, <1>5, <2>3, <2>6
    <3> DEFINE a == n.keys[q]
               b == n.keys[p - 1]
    <3>2. a \in Int /\ b \in Int /\ a # NoKey /\ b # NoKey /\ a <= b /\ b <= k
      BY <1>2, <1>5, <3>1
    <3>3. HiAt(n, hi, q) = a /\ LoAt(n, lo, p) = b
      BY <1>2, <3>1 DEF HiAt, LoAt
    <3> HIDE DEF a, b
    <3>4. AtMost(k, a) /\ (mode = "below" => Under(k, a))
      BY <2>4, <3>3 DEF Within
    <3>5. k <= a /\ mode # "below"
      BY <1>3, <3>2, <3>4 DEF AtMost, Under
    <3>6. k = b
      BY <1>3, <3>2, <3>5
    <3> QED
      BY <3>2, <3>3, <3>5, <3>6 DEF Located
  <2>7. CASE p < q
    <3>1. p \in 1 .. L /\ q - 1 \in 1 .. L /\ q # 1 /\ p <= q - 1 /\ p <= L
      BY <1>2, <1>5, <2>3, <2>7
    <3> DEFINE a == n.keys[p]
               b == n.keys[q - 1]
    <3>2. a \in Int /\ b \in Int /\ b # NoKey /\ a <= b /\ k < a
      BY <1>2, <1>5, <3>1
    <3>3. LoAt(n, lo, q) = b
      BY <3>1 DEF LoAt
    <3> HIDE DEF a, b
    <3>4. AtLeast(k, b)
      BY <2>4, <3>3 DEF Within
    <3>5. b <= k
      BY <3>2, <3>4 DEF AtLeast
    <3> QED
      BY <1>3, <3>2, <3>5
  <2>8. q < p \/ q = p \/ p < q
    BY <1>5, <2>3
  <2> QED
    BY <2>5, <2>6, <2>7, <2>8
<1> QED
  BY <1>7, <1>8 DEF Located

\* What a search gave back is the row of an entry.
Found(r, c, k) ==
  r = NoRow \/ \E i \in 1 .. Len(c) : c[i] = [key |-> k, row |-> r]

\* A search in a node of height h finds only what is there, ...
SoundAt(mode, S, k, h) ==
  \A n, lo, hi :
    FitsAs(mode, S, h, n, lo, hi) /\ AtLeast(k, lo) /\ Under(k, hi) =>
      Found(SearchNode(k)[h][n], Contents[h][n], k)

\* ... and does not miss k when it can be located.
CompleteAt(mode, S, k, h) ==
  \A n, lo, hi :
    FitsAs(mode, S, h, n, lo, hi) /\ AtLeast(k, lo) /\ Under(k, hi)
      /\ Located(mode, Contents[h][n], k, lo) =>
      SearchNode(k)[h][n] # NoRow

\* A search of a leaf finds an entry if and only if the leaf has the key.
LEMMA LeafSearched ==
  ASSUME NEW mode, NEW S, NEW n, NEW lo, NEW hi, NEW k \in Keys,
         FitsAs(mode, S, 0, n, lo, hi)
  PROVE  /\ Found(SearchNode(k)[0][n], Contents[0][n], k)
         /\ Located(mode, Contents[0][n], k, lo) => SearchNode(k)[0][n] # NoRow
<1> DEFINE i == KeyPos(n.keys, k)
           c == Contents[0][n]
           r == SearchNode(k)[0][n]
<1>1. /\ n \in Nodes[0] /\ n.keys \in Seq(Keys) /\ n.records \in Seq(Rows)
      /\ LeafFits(mode, S, n, lo, hi)
  BY LeafFields
<1>2. IsKeyPos(i, n.keys, k)
  BY <1>1, KeyPosFirst
<1>3. r = SearchLeaf(n, k)
  BY <1>1, 0 \in Nat, SearchAtHeight
<1>4. r = IF i = 0 THEN NoRow ELSE n.records[i]
  BY <1>3 DEF SearchLeaf, KeyPos
<1>5. /\ Len(c) = Len(n.keys) /\ Len(n.keys) \in Nat /\ Len(n.records) = Len(n.keys)
      /\ \A j \in 1 .. Len(n.keys) : c[j] = [key |-> n.keys[j], row |-> n.records[j]]
  BY <1>1, LeafHolds, LenProperties DEF LeafFits
<1> HIDE DEF i, c, r
<1>6. i # 0 => /\ i \in 1 .. Len(n.keys) /\ n.keys[i] = k /\ n.records[i] \in Rows
               /\ c[i] = [key |-> k, row |-> r]
  <2>1. i # 0 => i \in 1 .. Len(n.keys) /\ n.keys[i] = k
    BY <1>2 DEF IsKeyPos
  <2> QED
    BY <1>1, <1>4, <1>5, <2>1, ElementOfSeq
<1>7. Found(r, c, k)
  BY <1>4, <1>5, <1>6 DEF Found
<1>8. ASSUME Located(mode, c, k, lo)
      PROVE  i # 0
  <2>1. \E j \in 1 .. Len(n.keys) : n.keys[j] = k
    <3>1. CASE HasKey(c, k)
      <4>1. PICK j \in 1 .. Len(n.keys) : c[j].key = k
        BY <1>5, <3>1 DEF HasKey
      <4>2. c[j] = [key |-> n.keys[j], row |-> n.records[j]]
        BY <1>5
      <4>3. n.keys[j] = k
        BY <4>1, <4>2
      <4> QED
        BY <4>3
    <3>2. CASE mode = "kept" /\ lo # NoKey /\ k = lo
      <4>1. Len(n.keys) # 0 /\ n.keys[1] = lo
        BY <1>1, <3>2 DEF LeafFits
      <4>2. 1 \in 1 .. Len(n.keys)
        BY <1>5, <4>1
      <4> QED
        BY <3>2, <4>1, <4>2
    <3> QED
      BY <1>8, <3>1, <3>2 DEF Located
  <2> QED
    BY <1>2, <2>1 DEF IsKeyPos
<1>9. i # 0 => r # NoRow
  BY <1>4, <1>6, RowsAssumption
<1> QED
  BY <1>7, <1>8, <1>9 DEF r, c

\* A search finds only what is there.
LEMMA SearchSound ==
  ASSUME NEW mode, NEW S, NEW k \in Keys
  PROVE  \A h \in Nat : SoundAt(mode, S, k, h)
<1> DEFINE T == {h \in Nat : SoundAt(mode, S, k, h)}
<1>1. 0 \in T
  <2>1. SoundAt(mode, S, k, 0)
    BY LeafSearched DEF SoundAt
  <2> QED
    BY <2>1
<1>2. ASSUME NEW h \in Nat, h \in T
      PROVE  h + 1 \in T
  <2>1. SoundAt(mode, S, k, h)
    BY <1>2
  <2> HIDE DEF T
  <2>2. ASSUME NEW n, NEW lo, NEW hi, FitsAs(mode, S, h + 1, n, lo, hi),
               AtLeast(k, lo), Under(k, hi)
        PROVE  Found(SearchNode(k)[h + 1][n], Contents[h + 1][n], k)
    <3> DEFINE p == DescendPos(n.keys, k)
               s == ChildContents(h, n)
               r == SearchNode(k)[h + 1][n]
    <3>1. n \in Nodes[h + 1] /\ n.keys \in Seq(Keys)
      BY <2>2, InnerFields
    <3>2. r = SearchNode(k)[h][n.children[p]]
      BY <3>1, SearchAtHeight
    <3>3. IsDescendPos(p, n.keys, k)
      BY <3>1, DescendPosFirst
    <3>4. /\ Contents[h + 1][n] = FlattenSeq(s) /\ s \in Seq(Seq(Entry))
          /\ \A i \in 1 .. Len(n.children) :
               /\ s[i] = Contents[h][n.children[i]]
               /\ Holds(mode, S, s[i], LoAt(n, lo, i), HiAt(n, hi, i))
          /\ Len(s) = Len(n.children)
      <4>1. Gathers(mode, S, h, n, lo, hi, s)
        BY <2>2, InnerContents
      <4> HIDE DEF s
      <4> QED
        BY <4>1 DEF Gathers
    <3> HIDE DEF p, s, r
    <3>5. /\ HasChild(mode, S, h, n, lo, hi, p)
          /\ AtLeast(k, LoAt(n, lo, p)) /\ Under(k, HiAt(n, hi, p))
      BY <2>2, <3>3, DescendChild
    <3>6. p \in 1 .. Len(s) /\ Found(r, s[p], k)
      BY <2>1, <3>2, <3>4, <3>5 DEF SoundAt, HasChild
    <3>7. CASE r = NoRow
      BY <3>7 DEF Found, r
    <3>8. CASE \E j \in 1 .. Len(s[p]) : s[p][j] = [key |-> k, row |-> r]
      <4>1. PICK j \in 1 .. Len(s[p]) : s[p][j] = [key |-> k, row |-> r]
        BY <3>8
      <4>2. PICK m \in 1 .. Len(FlattenSeq(s)) : PartOf(s, m, p, j)
        BY <3>4, <3>6, <4>1, FlattenParts
      <4>3. FlattenSeq(s)[m] = [key |-> k, row |-> r]
        BY <4>1, <4>2 DEF PartOf
      <4> QED
        BY <3>4, <4>3 DEF Found, r
    <3> QED
      BY <3>6, <3>7, <3>8 DEF Found
  <2> QED
    BY <2>2 DEF T, SoundAt
<1> HIDE DEF T
<1>3. \A h \in Nat : h \in T
  BY <1>1, <1>2, NatInduct
<1> QED
  BY <1>3 DEF T

\* A search finds a key that is there.
LEMMA SearchComplete ==
  ASSUME NEW mode \in {"below", "kept"}, NEW S, NEW k \in Keys
  PROVE  \A h \in Nat : CompleteAt(mode, S, k, h)
<1> DEFINE T == {h \in Nat : CompleteAt(mode, S, k, h)}
<1>1. 0 \in T
  <2>1. CompleteAt(mode, S, k, 0)
    BY LeafSearched DEF CompleteAt
  <2> QED
    BY <2>1
<1>2. ASSUME NEW h \in Nat, h \in T
      PROVE  h + 1 \in T
  <2>1. CompleteAt(mode, S, k, h)
    BY <1>2
  <2> HIDE DEF T
  <2>2. ASSUME NEW n, NEW lo, NEW hi, FitsAs(mode, S, h + 1, n, lo, hi),
               AtLeast(k, lo), Under(k, hi), Located(mode, Contents[h + 1][n], k, lo)
        PROVE  SearchNode(k)[h + 1][n] # NoRow
    <3> DEFINE p == DescendPos(n.keys, k)
    <3>1. n \in Nodes[h + 1] /\ n.keys \in Seq(Keys)
      BY <2>2, InnerFields
    <3>2. SearchNode(k)[h + 1][n] = SearchNode(k)[h][n.children[p]]
      BY <3>1, SearchAtHeight
    <3>3. IsDescendPos(p, n.keys, k)
      BY <3>1, DescendPosFirst
    <3> HIDE DEF p
    <3>4. /\ HasChild(mode, S, h, n, lo, hi, p)
          /\ AtLeast(k, LoAt(n, lo, p)) /\ Under(k, HiAt(n, hi, p))
      BY <2>2, <3>3, DescendChild
    <3>5. Located(mode, Contents[h][n.children[p]], k, LoAt(n, lo, p))
      BY <2>2, <3>3, LocatedChild
    <3> QED
      BY <2>1, <3>2, <3>4, <3>5 DEF CompleteAt, HasChild
  <2> QED
    BY <2>2 DEF T, CompleteAt
<1> HIDE DEF T
<1>3. \A h \in Nat : h \in T
  BY <1>1, <1>2, NatInduct
<1> QED
  BY <1>3 DEF T

-----------------------------------------------------------------------------
\* One entry more.

\* d is c with the entry e put in somewhere.
Grew(c, d, e) ==
  \E a, b \in Seq(Entry) : c = a \o b /\ d = (a \o <<e>>) \o b

\* A sequence grows by e inside a larger one.
LEMMA GrewAround ==
  ASSUME NEW c, NEW d, NEW e \in Entry, Grew(c, d, e),
         NEW u \in Seq(Entry), NEW v \in Seq(Entry)
  PROVE  Grew((u \o c) \o v, (u \o d) \o v, e)
<1> DEFINE g == <<e>>
<1>1. PICK a \in Seq(Entry), b \in Seq(Entry) : c = a \o b /\ d = (a \o g) \o b
  BY DEF Grew
<1>2. g \in Seq(Entry)
  OBVIOUS
<1> HIDE DEF g
<1> DEFINE x == u \o a
           y == b \o v
           w == a \o g
<1>3. x \in Seq(Entry) /\ y \in Seq(Entry) /\ w \in Seq(Entry)
  BY <1>1, <1>2
<1>4. Grouped(u, a, b) /\ Grouped(u, w, b) /\ Grouped(u, a, g)
  BY <1>1, <1>2, <1>3, Regroup
<1>5. u \o c = x \o b
  BY <1>1, <1>4 DEF Grouped
<1>6. u \o d = (x \o g) \o b
  <2>1. u \o d = u \o (w \o b)
    BY <1>1
  <2>2. (u \o w) \o b = u \o (w \o b)
    BY <1>4 DEF Grouped
  <2>3. x \o g = u \o w
    BY <1>4 DEF Grouped
  <2> QED
    BY <2>1, <2>2, <2>3
<1> DEFINE z == x \o g
<1>7. z \in Seq(Entry)
  BY <1>2, <1>3
<1> HIDE DEF x, y, w, z
<1>8. Grouped(x, b, v) /\ Grouped(z, b, v)
  BY <1>1, <1>3, <1>7, Regroup
<1>9. (u \o c) \o v = x \o y
  BY <1>5, <1>8 DEF Grouped, y
<1>10. (u \o d) \o v = z \o y
  BY <1>6, <1>8 DEF Grouped, y, z
<1>11. \E p, q \in Seq(Entry) : (u \o c) \o v = p \o q /\ (u \o d) \o v = (p \o g) \o q
  BY <1>3, <1>9, <1>10 DEF z
<1> QED
  BY <1>11 DEF Grew, g

\* Where the elements of a sequence are once it has grown by e.
LEMMA GrewAt ==
  ASSUME NEW c, NEW d, NEW e \in Entry, Grew(c, d, e)
  PROVE  /\ c \in Seq(Entry) /\ d \in Seq(Entry) /\ Len(d) = Len(c) + 1
         /\ \E p : Inserts(d, c, p, e)
<1> DEFINE g == <<e>>
<1>1. PICK a \in Seq(Entry), b \in Seq(Entry) : c = a \o b /\ d = (a \o g) \o b
  BY DEF Grew
<1>2. g \in Seq(Entry) /\ Len(g) = 1 /\ g[1] = e
  OBVIOUS
<1> DEFINE w == a \o g
           A == Len(a)
           B == Len(b)
<1> HIDE DEF g
<1>3. /\ c \in Seq(Entry) /\ A \in Nat /\ B \in Nat /\ Len(c) = A + B
      /\ \A k \in 1 .. A : c[k] = a[k]
      /\ \A k \in 1 .. B : c[A + k] = b[k]
  BY <1>1, Joined
<1>4. /\ w \in Seq(Entry) /\ Len(w) = A + 1
      /\ \A k \in 1 .. A : w[k] = a[k]
      /\ w[A + 1] = e
  <2>1. Joins(w, a, g, Entry)
    BY <1>2, ConcatJoins
  <2> HIDE DEF w, A, B
  <2>2. w \in Seq(Entry) /\ Len(w) = A + 1 /\ w[Len(a) + 1] = e /\ \A k \in 1 .. A : w[k] = a[k]
    BY <1>2, <2>1 DEF Joins, A
  <2> QED
    BY <2>2 DEF A
<1> HIDE DEF w
<1>5. /\ d \in Seq(Entry) /\ Len(d) = Len(w) + B
      /\ \A k \in 1 .. Len(w) : d[k] = w[k]
      /\ \A k \in 1 .. B : d[Len(w) + k] = b[k]
  <2>1. d = w \o b
    BY <1>1 DEF w
  <2>2. Joins(d, w, b, Entry)
    BY <1>4, <2>1, ConcatJoins
  <2> HIDE DEF A, B
  <2> QED
    BY <2>2 DEF Joins, B
<1> HIDE DEF A, B
<1>6. Len(d) = Len(c) + 1
  BY <1>3, <1>4, <1>5
<1> DEFINE p == A + 1
<1>7. p \in 1 .. Len(c) + 1 /\ d[p] = e
  BY <1>3, <1>4, <1>5
<1>8. \A i \in 1 .. p - 1 : d[i] = c[i]
  BY <1>3, <1>4, <1>5
<1>9. ASSUME NEW i \in p + 1 .. Len(c) + 1 PROVE d[i] = c[i - 1]
  <2> DEFINE k == i - p
  <2>1. k \in 1 .. B /\ A + k = i - 1 /\ Len(w) + k = i
    BY <1>3, <1>4
  <2> HIDE DEF k
  <2>2. c[i - 1] = b[k] /\ d[i] = b[k]
    BY <1>3, <1>5, <2>1
  <2> QED
    BY <2>2
<1> HIDE DEF p
<1>10. Inserts(d, c, p, e)
  BY <1>7, <1>8, <1>9 DEF Inserts
<1> QED
  BY <1>3, <1>5, <1>6, <1>10

\* A sequence whose elements lie like that has grown by e.
LEMMA GrewFrom ==
  ASSUME NEW c \in Seq(Entry), NEW d \in Seq(Entry), NEW e \in Entry, NEW p,
         Len(d) = Len(c) + 1, Inserts(d, c, p, e)
  PROVE  Grew(c, d, e)
<1>0. p \in 1 .. Len(c) + 1 /\ Len(c) \in Nat
  BY LenProperties DEF Inserts
<1> DEFINE t == InsertAt(c, p, e)
           a == SubSeq(c, 1, p - 1)
           b == SubSeq(c, p, Len(c))
<1>1. t \in Seq(Entry) /\ Len(t) = Len(c) + 1 /\ Inserts(t, c, p, e)
  BY <1>0, InsertAtProperties
<1>2. t = (a \o <<e>>) \o b
  BY DEF InsertAt
<1>3. a \in Seq(Entry) /\ b \in Seq(Entry) /\ c = a \o b
  <2>1. a \in Seq(Entry) /\ b \in Seq(Entry) /\ Len(a) = p - 1 /\ Len(b) = Len(c) - p + 1
    BY <1>0
  <2>2. \A i \in 1 .. p - 1 : a[i] = c[i]
    BY <1>0
  <2>3. \A i \in 1 .. Len(c) - p + 1 : b[i] = c[p + i - 1]
    BY <1>0
  <2> DEFINE f == a \o b
  <2> HIDE DEF a, b
  <2>4. /\ f \in Seq(Entry) /\ Len(f) = Len(a) + Len(b)
        /\ \A k \in 1 .. Len(a) : f[k] = a[k]
        /\ \A k \in 1 .. Len(b) : f[Len(a) + k] = b[k]
    <3>1. Joins(f, a, b, Entry)
      BY <2>1, ConcatJoins
    <3> HIDE DEF f
    <3> QED
      BY <3>1 DEF Joins
  <2> HIDE DEF f
  <2>5. Len(f) = Len(c)
    BY <1>0, <2>1, <2>4
  <2>6. ASSUME NEW i \in 1 .. Len(c) PROVE f[i] = c[i]
    <3>1. CASE i <= p - 1
      BY <1>0, <2>1, <2>2, <2>4, <3>1
    <3>2. CASE ~ (i <= p - 1)
      <4> DEFINE k == i - (p - 1)
      <4>1. k \in 1 .. Len(b) /\ Len(a) + k = i /\ p + k - 1 = i /\ k \in 1 .. Len(c) - p + 1
        BY <1>0, <2>1, <3>2
      <4> HIDE DEF k
      <4>2. f[Len(a) + k] = b[k] /\ b[k] = c[p + k - 1]
        BY <2>3, <2>4, <4>1
      <4> QED
        BY <4>1, <4>2
    <3> QED
      BY <3>1, <3>2
  <2>7. f = c
    BY <2>4, <2>5, <2>6, SeqEqual
  <2> QED
    BY <2>1, <2>7 DEF f
<1> HIDE DEF t, a, b
<1>4. \A i \in 1 .. Len(d) : d[i] = t[i]
  <2>1. \A i \in 1 .. Len(d) : i \in 1 .. p - 1 \/ i = p \/ i \in p + 1 .. Len(c) + 1
    BY <1>0
  <2> QED
    BY <1>1, <2>1 DEF Inserts
<1>5. d = t
  BY <1>1, <1>4, SeqEqual
<1> QED
  BY <1>2, <1>3, <1>5 DEF Grew

-----------------------------------------------------------------------------
\* A child replaced.

\* An internal node with child p replaced by m.
Patched(n, p, m) == Internal(n.keys, ReplaceAt(n.children, p, m))

\* The contents d are the contents c of n with those of child p replaced by x.
ContentsPatched(h, n, p, x, d) ==
  \E u, v \in Seq(Entry) :
    /\ Contents[h + 1][n] = (u \o Contents[h][n.children[p]]) \o v
    /\ d = (u \o x) \o v

\* q is n with m for child p.
PatchesNode(h, q, n, p, m) ==
  /\ q = Internal(n.keys, q.children) /\ q.keys = n.keys
  /\ q.children \in Seq(Nodes[h])
  /\ Len(q.children) = Len(n.children)
  /\ q.children[p] = m
  /\ \A i \in 1 .. Len(n.children) : i # p => q.children[i] = n.children[i]

\* A patched node is an internal node with the same keys.
LEMMA PatchedFields ==
  ASSUME NEW mode, NEW S, NEW h \in Nat, NEW n, NEW lo, NEW hi,
         FitsAs(mode, S, h + 1, n, lo, hi), NEW p \in 1 .. Len(n.children),
         NEW m \in Nodes[h]
  PROVE  PatchesNode(h, Patched(n, p, m), n, p, m)
<1>1. n.children \in Seq(Nodes[h])
  BY InnerFields
<1> DEFINE q == Patched(n, p, m)
           t == [n.children EXCEPT ![p] = m]
<1>2. q = Internal(n.keys, t)
  BY DEF Patched, ReplaceAt
<1>3. /\ t \in Seq(Nodes[h])
      /\ Len(t) = Len(n.children)
      /\ t[p] = m
      /\ \A i \in 1 .. Len(n.children) : i # p => t[i] = n.children[i]
  BY <1>1
<1> HIDE DEF q, t
<1>4. q.keys = n.keys /\ q.children = t
  BY <1>2 DEF Internal
<1>5. PatchesNode(h, q, n, p, m)
  BY <1>2, <1>3, <1>4 DEF PatchesNode
<1> QED
  BY <1>5 DEF q

\* A node goes on to fit when a child that fits replaces child p.
LEMMA PatchedFits ==
  ASSUME NEW mode, NEW S, NEW h \in Nat, NEW n, NEW lo, NEW hi,
         FitsAs(mode, S, h + 1, n, lo, hi), NEW p \in 1 .. Len(n.children), NEW m,
         FitsAs(mode, S, h, m, LoAt(n, lo, p), HiAt(n, hi, p))
  PROVE  FitsAs(mode, S, h + 1, Patched(n, p, m), lo, hi)
<1>1. m \in Nodes[h]
  BY FitsIsNode
<1> DEFINE q == Patched(n, p, m)
           t == q.children
<1>0. PatchesNode(h, q, n, p, m)
  BY <1>1, PatchedFields
<1> HIDE DEF q
<1>2. /\ q = Internal(n.keys, t) /\ t \in Seq(Nodes[h])
      /\ Len(t) = Len(n.children) /\ t[p] = m
      /\ \A i \in 1 .. Len(n.children) : i # p => t[i] = n.children[i]
      /\ q.keys = n.keys
  BY <1>0 DEF PatchesNode
<1>3. q.keys = n.keys /\ q.children = t
  BY <1>2
<1>4. /\ lo \in Bound /\ hi \in Bound /\ n.keys \in Seq(Keys)
      /\ InnerFits(S, n, lo, hi) /\ ChildrenFit(mode, S, h, n, lo, hi)
  BY InnerFields
<1>5. InnerFits(S, q, lo, hi)
  BY <1>2, <1>3, <1>4 DEF InnerFits
<1>6. ChildrenFit(mode, S, h, q, lo, hi)
  <2>1. \A i : LoAt(q, lo, i) = LoAt(n, lo, i) /\ HiAt(q, hi, i) = HiAt(n, hi, i)
    BY <1>3 DEF LoAt, HiAt
  <2> QED
    BY <1>2, <1>3, <1>4, <2>1 DEF ChildrenFit
<1>7. FitsAs(mode, S, h + 1, q, lo, hi)
  <2>1. InnerFits(S, Internal(n.keys, t), lo, hi) /\ ChildrenFit(mode, S, h, Internal(n.keys, t), lo, hi)
    BY <1>2, <1>5, <1>6
  <2>2. t \in Seq(Nodes[h])
    BY <1>2
  <2> HIDE DEF t
  <2>3. FitsAs(mode, S, h + 1, Internal(n.keys, t), lo, hi)
    BY <1>4, <2>1, <2>2, InnerMade
  <2> QED
    BY <1>2, <2>3
<1> QED
  BY <1>7 DEF q

\* The contents of a patched node.
LEMMA PatchedHolds ==
  ASSUME NEW mode, NEW S, NEW h \in Nat, NEW n, NEW lo, NEW hi,
         FitsAs(mode, S, h + 1, n, lo, hi), NEW p \in 1 .. Len(n.children), NEW m,
         FitsAs(mode, S, h, m, LoAt(n, lo, p), HiAt(n, hi, p))
  PROVE  ContentsPatched(h, n, p, Contents[h][m], Contents[h + 1][Patched(n, p, m)])
<1> DEFINE q == Patched(n, p, m)
           s == ChildContents(h, n)
           t == ChildContents(h, q)
<1>1. FitsAs(mode, S, h + 1, q, lo, hi)
  BY PatchedFits
<1>2. Gathers(mode, S, h, n, lo, hi, s)
  BY InnerContents
<1>3. Gathers(mode, S, h, q, lo, hi, t)
  BY <1>1, InnerContents
<1>4. /\ Len(q.children) = Len(n.children) /\ q.children[p] = m
      /\ \A i \in 1 .. Len(n.children) : i # p => q.children[i] = n.children[i]
  <2>1. m \in Nodes[h]
    BY FitsIsNode
  <2>2. PatchesNode(h, q, n, p, m)
    BY <2>1, PatchedFields
  <2> HIDE DEF q
  <2> QED
    BY <2>2 DEF PatchesNode
<1> HIDE DEF q, s, t
<1>5. /\ s \in Seq(Seq(Entry)) /\ t \in Seq(Seq(Entry)) /\ Len(s) = Len(n.children)
      /\ Len(t) = Len(n.children)
      /\ Contents[h + 1][n] = FlattenSeq(s) /\ Contents[h + 1][q] = FlattenSeq(t)
      /\ \A i \in 1 .. Len(n.children) : /\ s[i] = Contents[h][n.children[i]]
                                         /\ t[i] = Contents[h][q.children[i]]
  BY <1>2, <1>3, <1>4 DEF Gathers
<1>6. Patches(t, s, p) /\ p \in 1 .. Len(s) /\ t[p] = Contents[h][m]
      /\ s[p] = Contents[h][n.children[p]]
  <2>1. \A i \in 1 .. Len(n.children) : i # p => t[i] = s[i]
    BY <1>4, <1>5
  <2>2. p \in 1 .. Len(s) /\ t[p] = Contents[h][m] /\ s[p] = Contents[h][n.children[p]]
    BY <1>4, <1>5
  <2> QED
    BY <1>5, <2>1, <2>2 DEF Patches
<1>7. /\ PartsBefore(s, p) \in Seq(Entry) /\ PartsAfter(s, p) \in Seq(Entry)
      /\ FlattenSeq(s) = (PartsBefore(s, p) \o s[p]) \o PartsAfter(s, p)
  BY <1>5, <1>6, FlattenAround
<1>8. FlattenSeq(t) = (PartsBefore(s, p) \o t[p]) \o PartsAfter(s, p)
  BY <1>5, <1>6, FlattenPatched
<1>9. ContentsPatched(h, n, p, Contents[h][m], Contents[h + 1][q])
  BY <1>5, <1>6, <1>7, <1>8 DEF ContentsPatched
<1> QED
  BY <1>9 DEF q

\* What a patch does to the contents of child p it does to those of the node.
LEMMA PatchedGrew ==
  ASSUME NEW h \in Nat, NEW n, NEW p, NEW x, NEW d, ContentsPatched(h, n, p, x, d)
  PROVE  /\ \A e \in Entry : Grew(Contents[h][n.children[p]], x, e) =>
                                Grew(Contents[h + 1][n], d, e)
         /\ \A e \in Entry : Grew(x, Contents[h][n.children[p]], e) =>
                                Grew(d, Contents[h + 1][n], e)
         /\ x = Contents[h][n.children[p]] => d = Contents[h + 1][n]
<1>1. PICK u \in Seq(Entry), v \in Seq(Entry) :
        /\ Contents[h + 1][n] = (u \o Contents[h][n.children[p]]) \o v
        /\ d = (u \o x) \o v
  BY DEF ContentsPatched
<1> DEFINE y == Contents[h][n.children[p]]
           c == Contents[h + 1][n]
<1>2. c = (u \o y) \o v /\ d = (u \o x) \o v
  BY <1>1
<1> HIDE DEF y, c
<1>3. ASSUME NEW e \in Entry, Grew(y, x, e)
      PROVE  Grew(c, d, e)
  BY <1>2, <1>3, GrewAround
<1>4. ASSUME NEW e \in Entry, Grew(x, y, e)
      PROVE  Grew(d, c, e)
  BY <1>2, <1>4, GrewAround
<1>5. x = y => d = c
  BY <1>2
<1> QED
  BY <1>3, <1>4, <1>5 DEF y, c

-----------------------------------------------------------------------------
\* Removal.

\* d is c without one entry for k.
Lost(c, d, k) == \E e \in Entry : e.key = k /\ Grew(d, c, e)

\* What a removal of k below n gave back.
RemovedFrom(mode, S, h, n, lo, hi, k, res) ==
  /\ res.removed \in BOOLEAN
  /\ FitsAs(mode, S, h, res.node, lo, hi)
  /\ res.removed => Lost(Contents[h][n], Contents[h][res.node], k)
  /\ ~ res.removed => /\ Contents[h][res.node] = Contents[h][n]
                      /\ mode = "below" => ~ HasKey(Contents[h][n], k)

\* A removal below a node of height h leaves it as it should.
RemovesAt(mode, S, k, h) ==
  \A n, lo, hi :
    FitsAs(mode, S, h, n, lo, hi) /\ AtLeast(k, lo) /\ Under(k, hi) =>
      RemovedFrom(mode, S, h, n, lo, hi, k, RemoveRecursive(k)[h][n])

\* A removal from a leaf leaves it as it should.
LEMMA LeafRemoved ==
  ASSUME NEW mode \in {"below", "any"}, NEW S, NEW n, NEW lo, NEW hi, NEW k \in Keys,
         FitsAs(mode, S, 0, n, lo, hi)
  PROVE  RemovedFrom(mode, S, 0, n, lo, hi, k, RemoveRecursive(k)[0][n])
<1> DEFINE i == KeyPos(n.keys, k)
           res == RemoveRecursive(k)[0][n]
           c == Contents[0][n]
<1>1. /\ n \in Nodes[0] /\ n.keys \in Seq(Keys) /\ n.records \in Seq(Rows)
      /\ lo \in Bound /\ hi \in Bound /\ LeafFits(mode, S, n, lo, hi)
  BY LeafFields
<1>2. IsKeyPos(i, n.keys, k)
  BY <1>1, KeyPosFirst
<1>3. res = LeafRemove(n, k)
  BY <1>1, 0 \in Nat, RemoveAtHeight
<1>4. res = IF i = 0 THEN [node |-> n, removed |-> FALSE]
            ELSE [node |-> Leaf(RemoveAt(n.keys, i), RemoveAt(n.records, i)),
                  removed |-> TRUE]
  BY <1>3 DEF LeafRemove, KeyPos
<1>5. /\ Len(c) = Len(n.keys) /\ Len(n.keys) \in Nat /\ Len(n.records) = Len(n.keys)
      /\ \A j \in 1 .. Len(n.keys) : c[j] = [key |-> n.keys[j], row |-> n.records[j]]
  BY <1>1, LeafHolds, LenProperties DEF LeafFits
<1>6. c \in Seq(Entry)
  BY LeafHolds DEF Holds
<1> HIDE DEF i, res, c
<1>7. CASE i = 0
  <2>1. res.node = n /\ res.removed = FALSE
    BY <1>4, <1>7
  <2>2. ~ HasKey(c, k)
    <3>1. \A j \in 1 .. Len(n.keys) : n.keys[j] # k
      BY <1>2, <1>7 DEF IsKeyPos
    <3>2. ASSUME NEW j \in 1 .. Len(n.keys)
          PROVE  c[j].key = n.keys[j]
      <4>1. c[j] = [key |-> n.keys[j], row |-> n.records[j]]
        BY <1>5
      <4> QED
        BY <4>1
    <3> QED
      BY <1>5, <3>1, <3>2 DEF HasKey
  <2> QED
    BY <2>1, <2>2 DEF RemovedFrom, c, res
<1>8. CASE i # 0
  <2> DEFINE keys == RemoveAt(n.keys, i)
             rows == RemoveAt(n.records, i)
             m == Leaf(keys, rows)
             d == Contents[0][m]
  <2>1. res.node = m /\ res.removed = TRUE
    BY <1>4, <1>8
  <2>2. i \in 1 .. Len(n.keys) /\ n.keys[i] = k /\ i \in 1 .. Len(n.records)
    BY <1>2, <1>5, <1>8 DEF IsKeyPos
  <2>3. keys \in Seq(Keys) /\ Drops(keys, n.keys, i)
    BY <1>1, <2>2, RemoveAtDrops
  <2>4. rows \in Seq(Rows) /\ Drops(rows, n.records, i)
    BY <1>1, <2>2, RemoveAtDrops
  <2> HIDE DEF keys, rows
  <2>5. m.keys = keys /\ m.records = rows
    BY DEF Leaf
  <2>6. Len(keys) = Len(n.keys) - 1 /\ Len(rows) = Len(keys) /\ Len(keys) \in Nat
    BY <1>5, <2>2, <2>3, <2>4 DEF Drops
  <2>7. \A j \in 1 .. Len(keys) :
          \E a \in 1 .. Len(n.keys) : a = (IF j < i THEN j ELSE j + 1) /\ keys[j] = n.keys[a]
    BY <1>1, <2>2, <2>3, DropsFrom
  <2>8. LeafFits(mode, S, m, lo, hi)
    <3>1. /\ Sorted(n.keys)
          /\ \A j \in 1 .. Len(n.keys) :
               n.keys[j] \in S /\ AtLeast(n.keys[j], lo) /\ AtMost(n.keys[j], hi)
          /\ mode = "below" => Strict(n.keys) /\ AllUnder(n.keys, hi)
      BY <1>1 DEF LeafFits, KeysFit
    <3>2. ASSUME NEW a \in 1 .. Len(keys), NEW b \in 1 .. Len(keys)
          PROVE  /\ a <= b => keys[a] <= keys[b]
                 /\ mode = "below" => (a < b => keys[a] < keys[b])
      <4>1. PICK x \in 1 .. Len(n.keys) : x = (IF a < i THEN a ELSE a + 1) /\ keys[a] = n.keys[x]
        BY <2>7
      <4>2. PICK y \in 1 .. Len(n.keys) : y = (IF b < i THEN b ELSE b + 1) /\ keys[b] = n.keys[y]
        BY <2>7
      <4>3. (a <= b => x <= y) /\ (a < b => x < y)
        BY <2>2, <2>6, <4>1, <4>2
      <4> QED
        BY <3>1, <4>1, <4>2, <4>3 DEF Sorted, Strict
    <3>3. \A j \in 1 .. Len(keys) :
            /\ keys[j] \in S /\ AtLeast(keys[j], lo) /\ AtMost(keys[j], hi)
            /\ mode = "below" => Under(keys[j], hi)
      <4> TAKE j \in 1 .. Len(keys)
      <4>1. PICK x \in 1 .. Len(n.keys) : keys[j] = n.keys[x]
        BY <2>7
      <4> QED
        BY <3>1, <4>1 DEF AllUnder
    <3>4. KeysFit(keys, S, lo, hi) /\ (mode = "below" => Strict(keys) /\ AllUnder(keys, hi))
      BY <3>2, <3>3 DEF KeysFit, Sorted, Strict, AllUnder
    <3> QED
      BY <2>5, <2>6, <3>4 DEF LeafFits
  <2>9. FitsAs(mode, S, 0, m, lo, hi)
    BY <1>1, <2>3, <2>4, <2>8, LeafMade
  <2> HIDE DEF m
  <2>10. /\ Len(d) = Len(m.keys) /\ Holds(mode, S, d, lo, hi)
         /\ \A j \in 1 .. Len(m.keys) : d[j] = [key |-> m.keys[j], row |-> m.records[j]]
    BY <2>9, LeafHolds
  <2> HIDE DEF d
  <2> DEFINE e == [key |-> k, row |-> n.records[i]]
  <2>11. e \in Entry /\ c[i] = e /\ e.key = k
    <3>1. n.records[i] \in Rows
      BY <1>1, <2>2, ElementOfSeq
    <3> QED
      BY <1>5, <2>2, <3>1 DEF Entry
  <2> HIDE DEF e
  <2>12. d \in Seq(Entry) /\ Len(d) = Len(keys)
    BY <2>5, <2>10 DEF Holds
  <2>13. \A j \in 1 .. Len(keys) : d[j] = [key |-> keys[j], row |-> rows[j]]
    BY <2>5, <2>10
  <2>14. Inserts(c, d, i, e)
    <3>1. i \in 1 .. Len(d) + 1
      BY <2>2, <2>6, <2>12
    <3>2. ASSUME NEW j \in 1 .. i - 1
          PROVE  c[j] = d[j]
      <4>1. j \in 1 .. Len(keys) /\ j \in 1 .. Len(n.keys)
        BY <2>2, <2>6
      <4>2. keys[j] = n.keys[j] /\ rows[j] = n.records[j]
        BY <2>3, <2>4 DEF Drops
      <4> QED
        BY <1>5, <2>13, <4>1, <4>2
    <3>3. ASSUME NEW j \in i + 1 .. Len(d) + 1
          PROVE  c[j] = d[j - 1]
      <4> DEFINE l == j - 1
      <4>1. l \in 1 .. Len(keys) /\ l \in i .. Len(n.keys) - 1 /\ l + 1 = j /\ j \in 1 .. Len(n.keys)
            /\ Len(n.records) - 1 = Len(n.keys) - 1
        BY <1>5, <2>2, <2>6, <2>12
      <4> HIDE DEF l
      <4>2. keys[l] = n.keys[l + 1] /\ rows[l] = n.records[l + 1]
        BY <2>3, <2>4, <4>1 DEF Drops
      <4>3. d[l] = c[j]
        BY <1>5, <2>13, <4>1, <4>2
      <4> QED
        BY <4>3 DEF l
    <3> QED
      BY <2>11, <3>1, <3>2, <3>3 DEF Inserts
  <2>15. Grew(d, c, e)
    <3>1. Len(c) = Len(d) + 1
      BY <1>5, <2>6, <2>12
    <3> QED
      BY <1>6, <2>11, <2>12, <2>14, <3>1, GrewFrom
  <2>16. Lost(c, d, k)
    BY <2>11, <2>15 DEF Lost
  <2> QED
    BY <2>1, <2>9, <2>16 DEF RemovedFrom, c, d, res
<1> QED
  BY <1>7, <1>8 DEF res

\* A removal leaves a node that fits, without one entry for k if it found one.
LEMMA RemoveSound ==
  ASSUME NEW mode \in {"below", "any"}, NEW S, NEW k \in Keys
  PROVE  \A h \in Nat : RemovesAt(mode, S, k, h)
<1> DEFINE T == {h \in Nat : RemovesAt(mode, S, k, h)}
<1>1. 0 \in T
  <2>1. RemovesAt(mode, S, k, 0)
    BY LeafRemoved DEF RemovesAt
  <2> QED
    BY <2>1
<1>2. ASSUME NEW h \in Nat, h \in T
      PROVE  h + 1 \in T
  <2>1. RemovesAt(mode, S, k, h)
    BY <1>2
  <2> HIDE DEF T
  <2>2. ASSUME NEW n, NEW lo, NEW hi, FitsAs(mode, S, h + 1, n, lo, hi),
               AtLeast(k, lo), Under(k, hi)
        PROVE  RemovedFrom(mode, S, h + 1, n, lo, hi, k, RemoveRecursive(k)[h + 1][n])
    <3> DEFINE p == DescendPos(n.keys, k)
               below == RemoveRecursive(k)[h][n.children[p]]
               res == RemoveRecursive(k)[h + 1][n]
               q == Patched(n, p, below.node)
    <3>1. n \in Nodes[h + 1] /\ n.keys \in Seq(Keys)
      BY <2>2, InnerFields
    <3>2. res = Replaced(n, p, below)
      BY <3>1, RemoveAtHeight
    <3>3. res.node = q /\ res.removed = below.removed
      BY <3>2 DEF Replaced, Patched
    <3>4. IsDescendPos(p, n.keys, k)
      BY <3>1, DescendPosFirst
    <3> HIDE DEF p
    <3>5. /\ HasChild(mode, S, h, n, lo, hi, p)
          /\ AtLeast(k, LoAt(n, lo, p)) /\ Under(k, HiAt(n, hi, p))
      BY <2>2, <3>4, DescendChild
    <3> HIDE DEF below, res
    <3>6. RemovedFrom(mode, S, h, n.children[p], LoAt(n, lo, p), HiAt(n, hi, p), k, below)
      BY <2>1, <3>5 DEF RemovesAt, HasChild, below
    <3>7. p \in 1 .. Len(n.children) /\ below.removed \in BOOLEAN
          /\ FitsAs(mode, S, h, below.node, LoAt(n, lo, p), HiAt(n, hi, p))
      BY <3>5, <3>6 DEF HasChild, RemovedFrom
    <3>8. FitsAs(mode, S, h + 1, q, lo, hi)
      BY <2>2, <3>7, PatchedFits
    <3> DEFINE x == Contents[h][below.node]
               y == Contents[h][n.children[p]]
               c == Contents[h + 1][n]
               d == Contents[h + 1][q]
    <3>9. ContentsPatched(h, n, p, x, d)
      BY <2>2, <3>7, PatchedHolds
    <3>10. /\ \A e \in Entry : Grew(x, y, e) => Grew(d, c, e)
           /\ x = y => d = c
      BY <3>9, PatchedGrew
    <3>11. CASE below.removed
      <4>1. PICK e \in Entry : e.key = k /\ Grew(x, y, e)
        BY <3>6, <3>11 DEF RemovedFrom, Lost
      <4>2. Lost(c, d, k)
        BY <3>10, <4>1 DEF Lost
      <4> QED
        BY <3>3, <3>7, <3>8, <3>11, <4>2 DEF RemovedFrom, res
    <3>12. CASE ~ below.removed
      <4>1. x = y /\ (mode = "below" => ~ HasKey(y, k))
        BY <3>6, <3>12 DEF RemovedFrom
      <4>2. ASSUME mode = "below"
            PROVE  ~ HasKey(c, k)
        <5>1. SUFFICES ASSUME HasKey(c, k) PROVE FALSE
          OBVIOUS
        <5>2. Located(mode, c, k, lo)
          BY <5>1 DEF Located
        <5>3. mode \in {"below", "kept"}
          BY <4>2
        <5>4. Located(mode, y, k, LoAt(n, lo, p))
          BY <2>2, <3>4, <5>2, <5>3, LocatedChild
        <5> QED
          BY <4>1, <4>2, <5>4 DEF Located
      <4> QED
        BY <3>3, <3>7, <3>8, <3>10, <3>12, <4>1, <4>2 DEF RemovedFrom, res
    <3> QED
      BY <3>7, <3>11, <3>12 DEF res
  <2> QED
    BY <2>2 DEF T, RemovesAt
<1> HIDE DEF T
<1>3. \A h \in Nat : h \in T
  BY <1>1, <1>2, NatInduct
<1> QED
  BY <1>3 DEF T

-----------------------------------------------------------------------------
\* Insertion into a leaf.

\* The leaf with an entry put in, before any split.
GrownLeaf(n, k, r) ==
  Leaf(InsertAt(n.keys, FindInsertPos(n.keys, k), k),
       InsertAt(n.records, FindInsertPos(n.keys, k), r))

\* May k be inserted below a node with these bounds?
MayInsert(mode, S, k, lo, hi) ==
  /\ Above(k, lo) /\ AtMost(k, hi)
  /\ mode = "below" => k \notin S /\ Under(k, hi)

\* The keys of a leaf that fits.
LeafKeysFit(mode, S, keys, lo, hi) ==
  /\ KeysFit(keys, S, lo, hi)
  /\ mode = "below" => Strict(keys) /\ AllUnder(keys, hi)
  /\ (mode = "kept" /\ lo # NoKey) => Len(keys) # 0 /\ keys[1] = lo

\* The keys of a leaf go on to fit when k is put in where the code puts it.
LEMMA GrownKeys ==
  ASSUME NEW mode, NEW S, NEW n, NEW lo, NEW hi, n.keys \in Seq(Keys),
         lo \in Bound, LeafFits(mode, S, n, lo, hi), NEW k \in Keys,
         MayInsert(mode, S, k, lo, hi),
         NEW p, IsInsertPos(p, n.keys, k), NEW t, t \in Seq(Keys),
         Len(t) = Len(n.keys) + 1, Inserts(t, n.keys, p, k)
  PROVE  LeafKeysFit(mode, S \cup {k}, t, lo, hi)
<1>0. /\ Above(k, lo) /\ AtMost(k, hi)
      /\ mode = "below" => k \notin S /\ Under(k, hi)
  BY DEF MayInsert
<1> DEFINE L == Len(n.keys)
<1>1. L \in Nat /\ (\A j \in 1 .. L : n.keys[j] \in Int) /\ k \in Int
      /\ (lo # NoKey => lo \in Int)
  BY KeysOrdered, KeysAssumption DEF Bound
<1>2. /\ \A i, j \in 1 .. L : i <= j => n.keys[i] <= n.keys[j]
      /\ \A i \in 1 .. L :
           n.keys[i] \in S /\ AtLeast(n.keys[i], lo) /\ AtMost(n.keys[i], hi)
      /\ mode = "below" => /\ \A i, j \in 1 .. L : i < j => n.keys[i] < n.keys[j]
                           /\ \A i \in 1 .. L : Under(n.keys[i], hi)
      /\ (mode = "kept" /\ lo # NoKey) => L # 0 /\ n.keys[1] = lo
  BY DEF LeafFits, KeysFit, Sorted, Strict, AllUnder
<1>3. p \in 1 .. L + 1 /\ (p <= L => k <= n.keys[p]) /\ \A i \in 1 .. p - 1 : n.keys[i] < k
  BY DEF IsInsertPos
<1>4. \A i \in 1 .. L + 1 : InsertedAs(t, n.keys, p, k, i)
  BY InsertsFrom
<1>5. ASSUME NEW i \in 1 .. L
      PROVE  /\ i < p => n.keys[i] < k
             /\ p <= i => k <= n.keys[i]
             /\ (p <= i /\ mode = "below") => k < n.keys[i]
  <2>1. i < p => n.keys[i] < k
    BY <1>1, <1>3
  <2>2. p <= i => k <= n.keys[i]
    <3>0. p <= i => p \in 1 .. L /\ p <= L
      BY <1>1, <1>3
    <3>1. p <= i => p \in 1 .. L /\ k <= n.keys[p] /\ n.keys[p] <= n.keys[i]
      BY <1>2, <1>3, <3>0
    <3> QED
      BY <1>1, <3>1
  <2>3. mode = "below" => k # n.keys[i]
    BY <1>0, <1>2
  <2> QED
    BY <1>1, <2>1, <2>2, <2>3
<1> HIDE DEF L
<1>6. ASSUME NEW i \in 1 .. L + 1, NEW j \in 1 .. L + 1
      PROVE  /\ i <= j => t[i] <= t[j]
             /\ mode = "below" => (i < j => t[i] < t[j])
  <2>1. InsertedAs(t, n.keys, p, k, i) /\ InsertedAs(t, n.keys, p, k, j)
    BY <1>4
  <2>2. CASE i < p /\ i \in 1 .. L /\ t[i] = n.keys[i]
    <3>1. CASE j < p /\ j \in 1 .. L /\ t[j] = n.keys[j]
      BY <1>2, <2>2, <3>1
    <3>2. CASE j = p /\ t[j] = k
      BY <1>1, <1>5, <2>2, <3>2
    <3>3. CASE p < j /\ j - 1 \in 1 .. L /\ t[j] = n.keys[j - 1]
      <4> DEFINE a == n.keys[i]
                 b == n.keys[j - 1]
      <4>1. p <= j - 1
        BY <1>1, <1>3, <3>3
      <4>2. a < k /\ k <= b /\ b \in Int /\ a \in Int /\ t[i] = a /\ t[j] = b
        BY <1>1, <1>5, <2>2, <3>3, <4>1
      <4> HIDE DEF a, b
      <4> QED
        BY <1>1, <4>2
    <3> QED
      BY <2>1, <3>1, <3>2, <3>3 DEF InsertedAs, L
  <2>3. CASE i = p /\ t[i] = k
    <3>1. CASE j < p /\ j \in 1 .. L /\ t[j] = n.keys[j]
      BY <1>1, <2>3, <3>1
    <3>2. CASE j = p /\ t[j] = k
      BY <1>1, <2>3, <3>2
    <3>3. CASE p < j /\ j - 1 \in 1 .. L /\ t[j] = n.keys[j - 1]
      <4>1. p <= j - 1
        BY <1>1, <1>3, <3>3
      <4> QED
        BY <1>5, <2>3, <3>3, <4>1
    <3> QED
      BY <2>1, <3>1, <3>2, <3>3 DEF InsertedAs, L
  <2>4. CASE p < i /\ i - 1 \in 1 .. L /\ t[i] = n.keys[i - 1]
    <3>1. CASE j <= p
      BY <1>1, <1>3, <2>4, <3>1
    <3>3. CASE p < j /\ j - 1 \in 1 .. L /\ t[j] = n.keys[j - 1]
      <4> DEFINE a == i - 1
                 b == j - 1
      <4>1. a \in 1 .. L /\ b \in 1 .. L /\ (i <= j => a <= b) /\ (i < j => a < b)
        BY <1>1, <2>4, <3>3
      <4> HIDE DEF a, b
      <4>2. /\ i <= j => n.keys[a] <= n.keys[b]
            /\ mode = "below" => (i < j => n.keys[a] < n.keys[b])
        BY <1>2, <4>1
      <4> QED
        BY <2>4, <3>3, <4>2 DEF a, b
    <3> QED
      BY <1>1, <1>3, <2>1, <3>1, <3>3 DEF InsertedAs, L
  <2> QED
    BY <2>1, <2>2, <2>3, <2>4 DEF InsertedAs, L
<1>7. ASSUME NEW i \in 1 .. L + 1
      PROVE  /\ t[i] \in S \cup {k} /\ AtLeast(t[i], lo) /\ AtMost(t[i], hi)
             /\ mode = "below" => Under(t[i], hi)
  <2>1. t[i] = k \/ \E j \in 1 .. L : t[i] = n.keys[j]
    BY <1>4 DEF InsertedAs, L
  <2>2. AtLeast(k, lo)
    BY <1>0, <1>1 DEF Above, AtLeast
  <2> QED
    BY <1>0, <1>2, <2>1, <2>2
<1>8. (mode = "kept" /\ lo # NoKey) => Len(t) # 0 /\ t[1] = lo
  <2>1. SUFFICES ASSUME mode = "kept", lo # NoKey
                 PROVE  Len(t) # 0 /\ t[1] = lo
    OBVIOUS
  <2>2. L # 0 /\ n.keys[1] = lo /\ lo < k /\ 1 \in 1 .. L
    BY <1>0, <1>1, <1>2, <2>1 DEF Above
  <2>3. p # 1
    BY <1>1, <1>3, <2>1, <2>2
  <2>4. 1 \in 1 .. p - 1
    BY <1>1, <1>3, <2>3
  <2>5. t[1] = n.keys[1]
    BY <2>4 DEF Inserts
  <2> QED
    BY <1>1, <2>2, <2>5 DEF L
<1>9. Len(t) = L + 1
  BY DEF L
<1>10. KeysFit(t, S \cup {k}, lo, hi)
  BY <1>6, <1>7, <1>9 DEF KeysFit, Sorted
<1>11. mode = "below" => Strict(t) /\ AllUnder(t, hi)
  BY <1>6, <1>7, <1>9 DEF Strict, AllUnder
<1> QED
  BY <1>8, <1>10, <1>11 DEF LeafKeysFit

\* A leaf with the entry put in fits, and has grown by it.
LEMMA LeafGrown ==
  ASSUME NEW mode, NEW S, NEW n, NEW lo, NEW hi, FitsAs(mode, S, 0, n, lo, hi),
         NEW k \in Keys, NEW r \in Rows, MayInsert(mode, S, k, lo, hi)
  PROVE  /\ FitsAs(mode, S \cup {k}, 0, GrownLeaf(n, k, r), lo, hi)
         /\ Grew(Contents[0][n], Contents[0][GrownLeaf(n, k, r)],
                 [key |-> k, row |-> r])
<1> DEFINE p == FindInsertPos(n.keys, k)
           keys == InsertAt(n.keys, p, k)
           rows == InsertAt(n.records, p, r)
           g == GrownLeaf(n, k, r)
           e == [key |-> k, row |-> r]
           c == Contents[0][n]
           d == Contents[0][g]
<1>1. /\ n.keys \in Seq(Keys) /\ n.records \in Seq(Rows)
      /\ lo \in Bound /\ hi \in Bound /\ LeafFits(mode, S, n, lo, hi)
  BY LeafFields
<1>2. IsInsertPos(p, n.keys, k)
  BY <1>1, FindInsertPosFirst
<1>3. g = Leaf(keys, rows)
  BY DEF GrownLeaf
<1>4. /\ Len(c) = Len(n.keys) /\ Len(n.keys) \in Nat /\ Len(n.records) = Len(n.keys)
      /\ \A j \in 1 .. Len(n.keys) : c[j] = [key |-> n.keys[j], row |-> n.records[j]]
  BY <1>1, LeafHolds, LenProperties DEF LeafFits
<1>5. c \in Seq(Entry)
  BY LeafHolds DEF Holds
<1> HIDE DEF p, g, c
<1>6. p \in 1 .. Len(n.keys) + 1 /\ p \in 1 .. Len(n.records) + 1
  BY <1>2, <1>4 DEF IsInsertPos
<1>7. keys \in Seq(Keys) /\ Len(keys) = Len(n.keys) + 1 /\ Inserts(keys, n.keys, p, k)
  BY <1>1, <1>6, InsertAtInserts
<1>8. rows \in Seq(Rows) /\ Len(rows) = Len(n.records) + 1 /\ Inserts(rows, n.records, p, r)
  BY <1>1, <1>6, InsertAtInserts
<1> HIDE DEF keys, rows
<1>9. LeafKeysFit(mode, S \cup {k}, keys, lo, hi)
  BY <1>1, <1>2, <1>7, GrownKeys
<1>10. Leaf(keys, rows).keys = keys /\ Leaf(keys, rows).records = rows
  BY DEF Leaf
<1>11. LeafFits(mode, S \cup {k}, Leaf(keys, rows), lo, hi)
  BY <1>4, <1>7, <1>8, <1>9, <1>10 DEF LeafFits, LeafKeysFit
<1>12. FitsAs(mode, S \cup {k}, 0, g, lo, hi)
  BY <1>1, <1>3, <1>7, <1>8, <1>11, LeafMade
<1>13. /\ Len(d) = Len(g.keys) /\ Holds(mode, S \cup {k}, d, lo, hi)
       /\ \A j \in 1 .. Len(g.keys) : d[j] = [key |-> g.keys[j], row |-> g.records[j]]
  BY <1>12, LeafHolds
<1>14. g.keys = keys /\ g.records = rows
  BY <1>3, <1>10
<1> HIDE DEF d
<1>15. /\ d \in Seq(Entry) /\ Len(d) = Len(n.keys) + 1
       /\ \A j \in 1 .. Len(n.keys) + 1 : d[j] = [key |-> keys[j], row |-> rows[j]]
  BY <1>7, <1>13, <1>14 DEF Holds
<1>16. Inserts(d, c, p, e)
  <2>1. d[p] = e
    BY <1>6, <1>7, <1>8, <1>15 DEF Inserts
  <2>2. ASSUME NEW j \in 1 .. p - 1 PROVE d[j] = c[j]
    <3>1. j \in 1 .. Len(n.keys) /\ j \in 1 .. Len(n.keys) + 1
      BY <1>4, <1>6
    <3>2. keys[j] = n.keys[j] /\ rows[j] = n.records[j]
      BY <1>7, <1>8 DEF Inserts
    <3> QED
      BY <1>4, <1>15, <3>1, <3>2
  <2>3. ASSUME NEW j \in p + 1 .. Len(c) + 1 PROVE d[j] = c[j - 1]
    <3>1. j - 1 \in 1 .. Len(n.keys) /\ j \in 1 .. Len(n.keys) + 1
          /\ j \in p + 1 .. Len(n.keys) + 1 /\ j \in p + 1 .. Len(n.records) + 1
      BY <1>4, <1>6
    <3>2. keys[j] = n.keys[j - 1] /\ rows[j] = n.records[j - 1]
      BY <1>7, <1>8, <3>1 DEF Inserts
    <3> DEFINE l == j - 1
    <3>3. c[l] = [key |-> n.keys[l], row |-> n.records[l]]
      BY <1>4, <3>1
    <3> QED
      BY <1>15, <3>1, <3>2, <3>3
  <2> QED
    BY <1>4, <1>6, <2>1, <2>2, <2>3 DEF Inserts
<1>17. e \in Entry
  BY DEF Entry
<1> HIDE DEF e
<1>18. Grew(c, d, e)
  BY <1>4, <1>5, <1>15, <1>16, <1>17, GrewFrom
<1> QED
  BY <1>12, <1>18 DEF c, d, e, g

-----------------------------------------------------------------------------
\* A split of a leaf.

\* Both halves of a split node fit, on either side of the separator.
SplitsInto(mode, S, h, n, lo, hi, res) ==
  /\ res.separatorKey \in Keys /\ res.separatorKey \in S
  /\ AtLeast(res.separatorKey, lo) /\ AtMost(res.separatorKey, hi)
  /\ FitsAs(mode, S, h, res.node, lo, res.separatorKey)
  /\ FitsAs(mode, S, h, res.newNode, res.separatorKey, hi)
  /\ Contents[h][n] = Contents[h][res.node] \o Contents[h][res.newNode]

\* The keys of a leaf, cut in two.
LEMMA KeysCut ==
  ASSUME NEW mode, NEW S, NEW keys \in Seq(Keys), NEW lo, NEW hi,
         LeafKeysFit(mode, S, keys, lo, hi), NEW m \in 1 .. Len(keys) - 1,
         NEW a, NEW b, Cuts(keys, m, a, b, Keys)
  PROVE  /\ keys[m + 1] \in Keys /\ keys[m + 1] \in S /\ b[1] = keys[m + 1]
         /\ AtLeast(keys[m + 1], lo) /\ AtMost(keys[m + 1], hi)
         /\ LeafKeysFit(mode, S, a, lo, keys[m + 1])
         /\ LeafKeysFit(mode, S, b, keys[m + 1], hi)
<1> DEFINE L == Len(keys)
           x == keys[m + 1]
<1>1. L \in Nat /\ (\A i \in 1 .. L : keys[i] \in Keys /\ keys[i] \in Int)
  BY KeysOrdered
<1>2. /\ \A i, j \in 1 .. L : i <= j => keys[i] <= keys[j]
      /\ \A i \in 1 .. L : keys[i] \in S /\ AtLeast(keys[i], lo) /\ AtMost(keys[i], hi)
      /\ mode = "below" => /\ \A i, j \in 1 .. L : i < j => keys[i] < keys[j]
                           /\ \A i \in 1 .. L : Under(keys[i], hi)
      /\ (mode = "kept" /\ lo # NoKey) => L # 0 /\ keys[1] = lo
  BY DEF LeafKeysFit, KeysFit, Sorted, Strict, AllUnder
<1>3. /\ Len(a) = m /\ Len(b) = L - m
      /\ \A i \in 1 .. m : a[i] = keys[i]
      /\ \A i \in 1 .. L - m : b[i] = keys[m + i]
  BY DEF Cuts
<1> HIDE DEF L
<1>4. m \in 1 .. L - 1 /\ m \in Nat /\ m + 1 \in 1 .. L /\ 1 \in 1 .. L - m /\ 1 \in 1 .. m
  BY <1>1 DEF L
<1>5. x \in Keys /\ x \in Int /\ x \in S /\ AtLeast(x, lo) /\ AtMost(x, hi)
  BY <1>1, <1>2, <1>4
<1>6. b[1] = x
  BY <1>3, <1>4
<1>7. \A i \in 1 .. m : i \in 1 .. L /\ i <= m + 1 /\ i < m + 1
  BY <1>1, <1>4
<1>8. \A i \in 1 .. m : a[i] \in S /\ a[i] <= x /\ AtLeast(a[i], lo)
                        /\ (mode = "below" => a[i] < x)
  BY <1>2, <1>3, <1>4, <1>7
<1>9. \A i, j \in 1 .. m : /\ i <= j => a[i] <= a[j]
                           /\ mode = "below" => (i < j => a[i] < a[j])
  BY <1>2, <1>3, <1>7
<1>10. ASSUME NEW i \in 1 .. L - m, NEW j \in 1 .. L - m
       PROVE  /\ b[i] \in S /\ x <= b[i] /\ AtMost(b[i], hi)
              /\ mode = "below" => Under(b[i], hi)
              /\ i <= j => b[i] <= b[j]
              /\ mode = "below" => (i < j => b[i] < b[j])
  <2> DEFINE y == m + i
             z == m + j
  <2>1. y \in 1 .. L /\ z \in 1 .. L /\ m + 1 <= y /\ (i <= j => y <= z) /\ (i < j => y < z)
    BY <1>1, <1>4
  <2>2. b[i] = keys[y] /\ b[j] = keys[z]
    BY <1>3
  <2> HIDE DEF y, z
  <2>3. x <= keys[y]
    BY <1>2, <1>4, <2>1
  <2> QED
    BY <1>2, <2>1, <2>2, <2>3
<1> HIDE DEF x
<1>11. LeafKeysFit(mode, S, a, lo, x)
  <2>1. KeysFit(a, S, lo, x)
    BY <1>3, <1>8, <1>9 DEF KeysFit, Sorted, AtMost
  <2>2. mode = "below" => Strict(a) /\ AllUnder(a, x)
    BY <1>3, <1>8, <1>9 DEF Strict, AllUnder, Under
  <2>3. (mode = "kept" /\ lo # NoKey) => Len(a) # 0 /\ a[1] = lo
    BY <1>2, <1>3, <1>4
  <2> QED
    BY <2>1, <2>2, <2>3 DEF LeafKeysFit
<1>12. LeafKeysFit(mode, S, b, x, hi)
  <2>1. KeysFit(b, S, x, hi)
    BY <1>3, <1>10 DEF KeysFit, Sorted, AtLeast
  <2>2. mode = "below" => Strict(b) /\ AllUnder(b, hi)
    BY <1>3, <1>10 DEF Strict, AllUnder
  <2>3. Len(b) # 0 /\ b[1] = x
    BY <1>3, <1>4, <1>6
  <2> QED
    BY <2>1, <2>2, <2>3 DEF LeafKeysFit
<1> QED
  BY <1>5, <1>6, <1>11, <1>12 DEF x

\* The cuts of _splitLeaf and _splitInternal lie inside what they cut.
LEMMA Halves ==
  ASSUME NEW l \in Nat, l > 1
  PROVE  /\ (l + 1) \div 2 \in 1 .. l - 1 /\ (l + 1) \div 2 \in 0 .. l
         /\ (l \div 2) + 1 \in 1 .. l
  OBVIOUS

\* _splitLeaf: both halves of a leaf fit.
LEMMA LeafSplit ==
  ASSUME NEW mode, NEW S, NEW n, NEW lo, NEW hi, FitsAs(mode, S, 0, n, lo, hi),
         Len(n.keys) > 1
  PROVE  SplitsInto(mode, S, 0, n, lo, hi, SplitLeaf(n))
<1> DEFINE L == Len(n.keys)
           m == (L + 1) \div 2
           a == SubSeq(n.keys, 1, m)
           b == SubSeq(n.keys, m + 1, L)
           x == n.keys[m + 1]
           ra == SubSeq(n.records, 1, m)
           rb == SubSeq(n.records, m + 1, Len(n.records))
           left == Leaf(a, ra)
           right == Leaf(b, rb)
           c == Contents[0][n]
           cl == Contents[0][left]
           cr == Contents[0][right]
           res == SplitLeaf(n)
<1>1. /\ n.keys \in Seq(Keys) /\ n.records \in Seq(Rows)
      /\ lo \in Bound /\ hi \in Bound /\ LeafFits(mode, S, n, lo, hi)
  BY LeafFields
<1>2. L \in Nat /\ Len(n.records) = L
  BY <1>1, LenProperties DEF LeafFits
<1>3. m \in 1 .. L - 1 /\ m \in 0 .. L
  BY <1>2, Halves
<1>4. res = [node |-> left, separatorKey |-> right.keys[1], newNode |-> right]
  BY DEF SplitLeaf
<1> HIDE DEF m, res
<1>5. Cuts(n.keys, m, a, b, Keys)
  BY <1>1, <1>3, SubSeqCuts
<1>6. Cuts(n.records, m, ra, rb, Rows)
  BY <1>1, <1>2, <1>3, SubSeqCuts
<1> HIDE DEF a, b, ra, rb
<1>7. LeafKeysFit(mode, S, n.keys, lo, hi)
  BY <1>1 DEF LeafFits, LeafKeysFit
<1>8. /\ x \in Keys /\ x \in S /\ b[1] = x
      /\ AtLeast(x, lo) /\ AtMost(x, hi)
      /\ LeafKeysFit(mode, S, a, lo, x) /\ LeafKeysFit(mode, S, b, x, hi)
  BY <1>1, <1>3, <1>5, <1>7, KeysCut
<1>9. /\ a \in Seq(Keys) /\ b \in Seq(Keys) /\ Len(a) = m /\ Len(b) = L - m
      /\ ra \in Seq(Rows) /\ rb \in Seq(Rows) /\ Len(ra) = m /\ Len(rb) = L - m
  BY <1>2, <1>5, <1>6 DEF Cuts
<1>10. left.keys = a /\ left.records = ra /\ right.keys = b /\ right.records = rb
  BY DEF Leaf
<1> HIDE DEF x
<1>11. x \in Bound
  BY <1>8 DEF Bound
<1>12. FitsAs(mode, S, 0, left, lo, x)
  <2>1. LeafFits(mode, S, left, lo, x)
    BY <1>8, <1>9, <1>10 DEF LeafFits, LeafKeysFit
  <2> QED
    BY <1>1, <1>9, <1>11, <2>1, LeafMade
<1>13. FitsAs(mode, S, 0, right, x, hi)
  <2>1. LeafFits(mode, S, right, x, hi)
    BY <1>8, <1>9, <1>10 DEF LeafFits, LeafKeysFit
  <2> QED
    BY <1>1, <1>9, <1>11, <2>1, LeafMade
<1>14. c = cl \o cr
  <2>1. /\ Len(c) = L /\ Holds(mode, S, c, lo, hi)
        /\ \A j \in 1 .. L : c[j] = [key |-> n.keys[j], row |-> n.records[j]]
    BY LeafHolds
  <2> HIDE DEF left, right
  <2>2. /\ Len(cl) = m /\ Holds(mode, S, cl, lo, x)
        /\ \A j \in 1 .. m : cl[j] = [key |-> a[j], row |-> ra[j]]
    BY <1>9, <1>10, <1>12, LeafHolds
  <2>3. /\ Len(cr) = L - m /\ Holds(mode, S, cr, x, hi)
        /\ \A j \in 1 .. L - m : cr[j] = [key |-> b[j], row |-> rb[j]]
    BY <1>9, <1>10, <1>13, LeafHolds
  <2> HIDE DEF c, cl, cr
  <2>4. c \in Seq(Entry) /\ cl \in Seq(Entry) /\ cr \in Seq(Entry)
    BY <2>1, <2>2, <2>3 DEF Holds
  <2>5. \A j \in 1 .. m : cl[j] = c[j]
    <3> TAKE j \in 1 .. m
    <3>1. j \in 1 .. L
      BY <1>2, <1>3
    <3>2. a[j] = n.keys[j] /\ ra[j] = n.records[j]
      BY <1>5, <1>6 DEF Cuts
    <3> QED
      BY <2>1, <2>2, <3>1, <3>2
  <2>6. \A j \in 1 .. L - m : cr[j] = c[m + j]
    <3> TAKE j \in 1 .. L - m
    <3> DEFINE k == m + j
    <3>1. k \in 1 .. L /\ j \in 1 .. Len(n.records) - m
      BY <1>2, <1>3
    <3>2. b[j] = n.keys[k] /\ rb[j] = n.records[k]
      BY <1>5, <1>6, <3>1 DEF Cuts
    <3> HIDE DEF k
    <3>3. cr[j] = c[k]
      BY <2>1, <2>3, <3>1, <3>2
    <3> QED
      BY <3>3 DEF k
  <2>7. Cuts(c, m, cl, cr, Entry) /\ m \in 0 .. Len(c)
    BY <1>3, <2>1, <2>2, <2>3, <2>4, <2>5, <2>6 DEF Cuts
  <2> QED
    BY <2>4, <2>7, CutsJoin
<1> HIDE DEF left, right, cl, cr, c
<1>15. res.node = left /\ res.newNode = right /\ res.separatorKey = x
  BY <1>4, <1>8, <1>10
<1>16. SplitsInto(mode, S, 0, n, lo, hi, res)
  BY <1>8, <1>12, <1>13, <1>14, <1>15 DEF SplitsInto, c, cl, cr
<1> QED
  BY <1>16 DEF res

-----------------------------------------------------------------------------
\* A node with one child more.

\* x lies between the keys before position p and those from p on.
Separates(x, keys, p) ==
  /\ p \in 1 .. Len(keys) + 1
  /\ \A i \in 1 .. Len(keys) : (i < p => keys[i] <= x) /\ (p <= i => x <= keys[i])

\* A key within the bounds of child p separates at p.
LEMMA SeparatorBounds ==
  ASSUME NEW S, NEW n, NEW lo \in Bound, NEW hi \in Bound, n.keys \in Seq(Keys),
         InnerFits(S, n, lo, hi), NEW p \in 1 .. Len(n.children), NEW x \in Keys,
         AtLeast(x, LoAt(n, lo, p)), AtMost(x, HiAt(n, hi, p))
  PROVE  Separates(x, n.keys, p) /\ AtLeast(x, lo) /\ AtMost(x, hi)
<1> DEFINE L == Len(n.keys)
<1>1. /\ L \in Nat /\ Len(n.children) <= L + 1
      /\ \A j \in 1 .. L : n.keys[j] \in Int /\ n.keys[j] # NoKey
      /\ \A i, j \in 1 .. L : i <= j => n.keys[i] <= n.keys[j]
  BY InnerKeys
<1>2. x \in Int
  BY KeysAssumption
<1>3. p \in 1 .. L + 1
  BY <1>1 DEF InnerFits
<1>4. ASSUME NEW i \in 1 .. L, i < p
      PROVE  n.keys[i] <= x
  <2> DEFINE a == n.keys[i]
             b == n.keys[p - 1]
  <2>1. p - 1 \in 1 .. L /\ i <= p - 1 /\ p # 1
    BY <1>1, <1>3, <1>4
  <2>2. a \in Int /\ b \in Int /\ a <= b /\ b # NoKey
    BY <1>1, <2>1
  <2>3. AtLeast(x, b)
    BY <2>1 DEF LoAt
  <2> HIDE DEF a, b
  <2>4. a <= x
    BY <1>2, <2>2, <2>3 DEF AtLeast
  <2> QED
    BY <2>4 DEF a
<1>5. ASSUME NEW i \in 1 .. L, p <= i
      PROVE  x <= n.keys[i]
  <2> DEFINE a == n.keys[i]
             b == n.keys[p]
  <2>1. p \in 1 .. L /\ p <= L
    BY <1>1, <1>3, <1>5
  <2>2. a \in Int /\ b \in Int /\ b <= a /\ b # NoKey
    BY <1>1, <1>5, <2>1
  <2>3. AtMost(x, b)
    BY <2>1 DEF HiAt
  <2> HIDE DEF a, b
  <2>4. x <= a
    BY <1>2, <2>2, <2>3 DEF AtMost
  <2> QED
    BY <2>4 DEF a
<1>6. AtLeast(x, lo) /\ AtMost(x, hi)
  BY <1>2, ChildBounds
<1> QED
  BY <1>3, <1>4, <1>5, <1>6 DEF Separates

\* The keys go on to fit with a key that separates put in.
LEMMA SeparatorInserted ==
  ASSUME NEW S, NEW keys \in Seq(Keys), NEW lo, NEW hi, KeysFit(keys, S, lo, hi),
         NEW x \in Keys, x \in S, AtLeast(x, lo), AtMost(x, hi),
         NEW p, Separates(x, keys, p), NEW t,
         Len(t) = Len(keys) + 1, Inserts(t, keys, p, x)
  PROVE  KeysFit(t, S, lo, hi)
<1> DEFINE L == Len(keys)
<1>1. L \in Nat /\ (\A j \in 1 .. L : keys[j] \in Int) /\ x \in Int
  BY KeysOrdered, KeysAssumption
<1>2. /\ \A i, j \in 1 .. L : i <= j => keys[i] <= keys[j]
      /\ \A i \in 1 .. L : keys[i] \in S /\ AtLeast(keys[i], lo) /\ AtMost(keys[i], hi)
  BY DEF KeysFit, Sorted
<1>3. /\ p \in 1 .. L + 1
      /\ \A i \in 1 .. L : (i < p => keys[i] <= x) /\ (p <= i => x <= keys[i])
  BY DEF Separates
<1>4. \A i \in 1 .. L + 1 : \/ i < p /\ i \in 1 .. L /\ t[i] = keys[i]
                            \/ i = p /\ t[i] = x
                            \/ p < i /\ i - 1 \in 1 .. L /\ t[i] = keys[i - 1]
  BY InsertsFrom DEF InsertedAs
<1>5. Len(t) = L + 1
  OBVIOUS
<1> HIDE DEF L
<1>6. ASSUME NEW i \in 1 .. L + 1, NEW j \in 1 .. L + 1, i <= j
      PROVE  t[i] <= t[j]
  <2>1. CASE i < p /\ i \in 1 .. L /\ t[i] = keys[i]
    <3>1. CASE j < p /\ j \in 1 .. L /\ t[j] = keys[j]
      BY <1>2, <1>6, <2>1, <3>1
    <3>2. CASE j = p /\ t[j] = x
      BY <1>3, <2>1, <3>2
    <3>3. CASE p < j /\ j - 1 \in 1 .. L /\ t[j] = keys[j - 1]
      <4> DEFINE l == j - 1
      <4>1. l \in 1 .. L /\ p <= l /\ t[j] = keys[l]
        BY <1>1, <1>3, <3>3
      <4> HIDE DEF l
      <4>2. keys[i] <= x /\ x <= keys[l] /\ keys[i] \in Int /\ keys[l] \in Int
        BY <1>1, <1>3, <2>1, <4>1
      <4> QED
        BY <1>1, <2>1, <4>1, <4>2
    <3> QED
      BY <1>4, <3>1, <3>2, <3>3
  <2>2. CASE i = p /\ t[i] = x
    <3>1. CASE j < p
      BY <1>1, <1>3, <1>6, <2>2, <3>1
    <3>2. CASE j = p /\ t[j] = x
      BY <1>1, <2>2, <3>2
    <3>3. CASE p < j /\ j - 1 \in 1 .. L /\ t[j] = keys[j - 1]
      <4> DEFINE l == j - 1
      <4>1. l \in 1 .. L /\ p <= l /\ t[j] = keys[l]
        BY <1>1, <1>3, <3>3
      <4> HIDE DEF l
      <4> QED
        BY <1>3, <2>2, <4>1
    <3> QED
      BY <1>4, <3>1, <3>2, <3>3
  <2>3. CASE p < i /\ i - 1 \in 1 .. L /\ t[i] = keys[i - 1]
    <3>1. p < j
      BY <1>1, <1>3, <1>6, <2>3
    <3>2. j - 1 \in 1 .. L /\ t[j] = keys[j - 1]
      BY <1>1, <1>3, <1>4, <3>1
    <3> DEFINE a == i - 1
               b == j - 1
    <3>3. a \in 1 .. L /\ b \in 1 .. L /\ a <= b /\ t[i] = keys[a] /\ t[j] = keys[b]
      BY <1>1, <1>6, <2>3, <3>2
    <3> HIDE DEF a, b
    <3> QED
      BY <1>2, <3>3
  <2> QED
    BY <1>4, <2>1, <2>2, <2>3
<1>7. ASSUME NEW i \in 1 .. L + 1
      PROVE  t[i] \in S /\ AtLeast(t[i], lo) /\ AtMost(t[i], hi)
  <2>1. t[i] = x \/ \E j \in 1 .. L : t[i] = keys[j]
    BY <1>4
  <2> QED
    BY <1>2, <2>1
<1> QED
  BY <1>5, <1>6, <1>7 DEF KeysFit, Sorted

\* Child p of n replaced by m, with its new sibling w behind the separator x.
GrownInner(n, p, m, x, w) ==
  Internal(InsertAt(n.keys, p, x), InsertAt(Patched(n, p, m).children, p + 1, w))

\* What a split of child p gives back fits in place of it.
SplitFits(mode, S, h, n, lo, hi, p, m, x, w) ==
  /\ x \in Keys /\ x \in S
  /\ AtLeast(x, LoAt(n, lo, p)) /\ AtMost(x, HiAt(n, hi, p))
  /\ FitsAs(mode, S, h, m, LoAt(n, lo, p), x)
  /\ FitsAs(mode, S, h, w, x, HiAt(n, hi, p))

\* The children of the grown node.
GrownChildren(g, n, p, m, w, h) ==
  /\ g.children \in Seq(Nodes[h]) /\ Len(g.children) = Len(n.children) + 1
  /\ \A i \in 1 .. p - 1 : g.children[i] = n.children[i]
  /\ g.children[p] = m /\ g.children[p + 1] = w
  /\ \A i \in p + 2 .. Len(n.children) + 1 : g.children[i] = n.children[i - 1]

\* The children of a grown node.
LEMMA GrownFields ==
  ASSUME NEW mode, NEW S, NEW h \in Nat, NEW n, NEW lo, NEW hi,
         FitsAs(mode, S, h + 1, n, lo, hi), NEW p \in 1 .. Len(n.children),
         NEW m \in Nodes[h], NEW w \in Nodes[h], NEW x \in Keys
  PROVE  GrownChildren(GrownInner(n, p, m, x, w), n, p, m, w, h)
<1> DEFINE q == Patched(n, p, m)
           s == q.children
           l == p + 1
           t == InsertAt(s, l, w)
           g == GrownInner(n, p, m, x, w)
           C == Nodes[h]
<1>1. PatchesNode(h, q, n, p, m)
  BY PatchedFields
<1>2. g.children = t
  BY DEF GrownInner, Internal
<1> HIDE DEF q, g
<1>3. /\ s \in Seq(C) /\ Len(s) = Len(n.children) /\ s[p] = m
      /\ \A i \in 1 .. Len(n.children) : i # p => s[i] = n.children[i]
  BY <1>1 DEF PatchesNode
<1> HIDE DEF s
<1>4. Len(s) \in Nat
  BY <1>3, LenProperties
<1>5. l \in 1 .. Len(s) + 1 /\ p = l - 1 /\ l \in Nat
  BY <1>3, <1>4
<1>6. t \in Seq(C) /\ Len(t) = Len(s) + 1 /\ Inserts(t, s, l, w)
  <2>1. s \in Seq(C) /\ w \in C
    BY <1>3
  <2> HIDE DEF l, C
  <2> QED
    BY <1>5, <2>1, InsertAtInserts
<1> HIDE DEF t, C
<1>7. /\ t[l] = w /\ (\A i \in 1 .. l - 1 : t[i] = s[i])
      /\ \A i \in l + 1 .. Len(s) + 1 : t[i] = s[i - 1]
  BY <1>6 DEF Inserts
<1>8. \A i \in 1 .. p - 1 : t[i] = n.children[i]
  <2> TAKE i \in 1 .. p - 1
  <2>1. i \in 1 .. l - 1 /\ i \in 1 .. Len(n.children) /\ i # p
    BY <1>3, <1>4
  <2> QED
    BY <1>3, <1>7, <2>1
<1>9. t[p] = m
  <2>1. p \in 1 .. l - 1
    BY <1>3, <1>4
  <2> QED
    BY <1>3, <1>7, <2>1
<1>10. \A i \in p + 2 .. Len(n.children) + 1 : t[i] = n.children[i - 1]
  <2> TAKE i \in p + 2 .. Len(n.children) + 1
  <2> DEFINE j == i - 1
  <2>1. i \in l + 1 .. Len(s) + 1 /\ j \in 1 .. Len(n.children) /\ j # p
    BY <1>3, <1>4
  <2>2. t[i] = s[j]
    BY <1>7, <2>1
  <2> HIDE DEF j
  <2>3. s[j] = n.children[j]
    BY <1>3, <2>1
  <2> QED
    BY <2>2, <2>3 DEF j
<1> QED
  BY <1>2, <1>3, <1>6, <1>7, <1>8, <1>9, <1>10 DEF GrownChildren, g, C

\* The bounds of its child i.
BoundsGrow(g, n, lo, hi, p, x, i) ==
  /\ i < p => LoAt(g, lo, i) = LoAt(n, lo, i) /\ HiAt(g, hi, i) = HiAt(n, hi, i)
  /\ i = p => LoAt(g, lo, i) = LoAt(n, lo, p) /\ HiAt(g, hi, i) = x
  /\ i = p + 1 => LoAt(g, lo, i) = x /\ HiAt(g, hi, i) = HiAt(n, hi, p)
  /\ (p + 1 < i /\ i <= Len(n.keys) + 2) =>
       LoAt(g, lo, i) = LoAt(n, lo, i - 1) /\ HiAt(g, hi, i) = HiAt(n, hi, i - 1)

\* The bounds of the children of a grown node.
LEMMA GrownBounds ==
  ASSUME NEW n, NEW lo, NEW hi, NEW g, NEW x, n.keys \in Seq(Keys), NEW p \in 1 .. Len(n.keys) + 1,
         Len(g.keys) = Len(n.keys) + 1, Inserts(g.keys, n.keys, p, x),
         NEW i \in Nat, i > 0
  PROVE  BoundsGrow(g, n, lo, hi, p, x, i)
<1> DEFINE L == Len(n.keys)
           t == g.keys
<1>1. L \in Nat
  BY LenProperties
<1>2. /\ t[p] = x /\ (\A j \in 1 .. p - 1 : t[j] = n.keys[j])
      /\ \A j \in p + 1 .. L + 1 : t[j] = n.keys[j - 1]
  BY DEF Inserts
<1>3. /\ \A j : LoAt(g, lo, j) = IF j = 1 THEN lo ELSE t[j - 1]
      /\ \A j : HiAt(g, hi, j) = IF j <= L + 1 THEN t[j] ELSE hi
  BY DEF LoAt, HiAt
<1>4. /\ \A j : LoAt(n, lo, j) = IF j = 1 THEN lo ELSE n.keys[j - 1]
      /\ \A j : HiAt(n, hi, j) = IF j <= L THEN n.keys[j] ELSE hi
  BY DEF LoAt, HiAt
<1>5. p \in 1 .. L + 1
  OBVIOUS
<1> HIDE DEF L, t
<1>6. i <= p => LoAt(g, lo, i) = LoAt(n, lo, i)
  <2>1. i = 1 \/ i - 1 \in 1 .. p - 1 \/ ~ (i <= p)
    BY <1>1, <1>5
  <2> QED
    BY <1>2, <1>3, <1>4, <2>1
<1>7. i < p => HiAt(g, hi, i) = HiAt(n, hi, i)
  <2>1. i < p => i \in 1 .. p - 1 /\ i <= L /\ i <= L + 1
    BY <1>1, <1>5
  <2> QED
    BY <1>2, <1>3, <1>4, <2>1
<1>8. i = p => HiAt(g, hi, i) = x
  <2>1. i = p => i <= L + 1
    BY <1>1, <1>5
  <2> QED
    BY <1>2, <1>3, <2>1
<1>9. i = p + 1 => LoAt(g, lo, i) = x
  <2>1. i = p + 1 => i # 1 /\ i - 1 = p
    BY <1>1, <1>5
  <2> QED
    BY <1>2, <1>3, <2>1
<1>10. i = p + 1 => HiAt(g, hi, i) = HiAt(n, hi, p)
  <2>1. CASE p <= L
    <3>1. i = p + 1 => i <= L + 1 /\ i \in p + 1 .. L + 1 /\ i - 1 = p
      BY <1>1, <1>5, <2>1
    <3> QED
      BY <1>2, <1>3, <1>4, <2>1, <3>1
  <2>2. CASE ~ (p <= L)
    <3>1. i = p + 1 => ~ (i <= L + 1)
      BY <1>1, <1>5, <2>2
    <3> QED
      BY <1>3, <1>4, <2>2, <3>1
  <2> QED
    BY <2>1, <2>2
<1>11. ASSUME p + 1 < i, i <= L + 2
       PROVE  LoAt(g, lo, i) = LoAt(n, lo, i - 1) /\ HiAt(g, hi, i) = HiAt(n, hi, i - 1)
  <2> DEFINE j == i - 1
  <2>1. i # 1 /\ j # 1 /\ j \in p + 1 .. L + 1 /\ (i <= L + 1 <=> j <= L)
        /\ (i <= L + 1 => i \in p + 1 .. L + 1)
    BY <1>1, <1>5, <1>11
  <2>2. LoAt(g, lo, i) = t[j] /\ t[j] = n.keys[j - 1] /\ LoAt(n, lo, j) = n.keys[j - 1]
    BY <1>2, <1>3, <1>4, <2>1
  <2>3. HiAt(g, hi, i) = HiAt(n, hi, j)
    <3>1. CASE i <= L + 1
      <4>1. HiAt(g, hi, i) = t[i] /\ t[i] = n.keys[j] /\ HiAt(n, hi, j) = n.keys[j]
        BY <1>2, <1>3, <1>4, <2>1, <3>1
      <4> QED
        BY <4>1
    <3>2. CASE ~ (i <= L + 1)
      BY <1>3, <1>4, <2>1, <3>2
    <3> QED
      BY <3>1, <3>2
  <2> QED
    BY <2>2, <2>3
<1> QED
  BY <1>1, <1>5, <1>6, <1>7, <1>8, <1>9, <1>10, <1>11 DEF BoundsGrow, L

\* The grown node is an internal node whose keys fit.
LEMMA GrownIsInner ==
  ASSUME NEW mode, NEW S, NEW h \in Nat, NEW n, NEW lo, NEW hi,
         FitsAs(mode, S, h + 1, n, lo, hi), NEW p \in 1 .. Len(n.children), NEW m, NEW x, NEW w,
         SplitFits(mode, S, h, n, lo, hi, p, m, x, w)
  PROVE  LET g == GrownInner(n, p, m, x, w)
         IN  /\ GrownChildren(g, n, p, m, w, h) /\ g = Internal(g.keys, g.children)
             /\ g.keys \in Seq(Keys) /\ Len(g.keys) = Len(n.keys) + 1
             /\ p \in 1 .. Len(n.keys) + 1 /\ Inserts(g.keys, n.keys, p, x)
             /\ InnerFits(S, g, lo, hi)
<1>1. /\ n.keys \in Seq(Keys) /\ InnerFits(S, n, lo, hi) /\ lo \in Bound /\ hi \in Bound
      /\ n.children \in Seq(Nodes[h])
  BY InnerFields
<1>2. /\ x \in Keys /\ x \in S
      /\ AtLeast(x, LoAt(n, lo, p)) /\ AtMost(x, HiAt(n, hi, p))
      /\ m \in Nodes[h] /\ w \in Nodes[h]
  BY FitsIsNode DEF SplitFits
<1>3. Separates(x, n.keys, p) /\ AtLeast(x, lo) /\ AtMost(x, hi)
  BY <1>1, <1>2, SeparatorBounds
<1> DEFINE g == GrownInner(n, p, m, x, w)
           t == InsertAt(n.keys, p, x)
           L == Len(n.keys)
<1>4. p \in 1 .. L + 1
  BY <1>3 DEF Separates
<1>5. t \in Seq(Keys) /\ Len(t) = L + 1 /\ Inserts(t, n.keys, p, x)
  BY <1>1, <1>2, <1>4, InsertAtInserts
<1>6. g.keys = t /\ g = Internal(g.keys, g.children)
  BY DEF GrownInner, Internal
<1>7. GrownChildren(g, n, p, m, w, h)
  BY <1>2, GrownFields
<1> HIDE DEF g, t
<1>8. KeysFit(g.keys, S, lo, hi)
  <2>1. KeysFit(n.keys, S, lo, hi)
    BY <1>1 DEF InnerFits
  <2>2. KeysFit(t, S, lo, hi)
    BY <1>1, <1>2, <1>3, <1>5, <2>1, SeparatorInserted
  <2> QED
    BY <1>6, <2>2
<1>9. \/ Len(g.children) = Len(g.keys) + 1
      \/ Len(g.children) = Len(g.keys) /\ Closed(g.keys, lo, hi)
  <2>1. Len(g.children) = Len(n.children) + 1 /\ Len(g.keys) = L + 1
    BY <1>5, <1>6, <1>7 DEF GrownChildren
  <2>2. CASE Len(n.children) = L + 1
    BY <2>1, <2>2
  <2>3. CASE Len(n.children) = L /\ Closed(n.keys, lo, hi)
    <3>1. L \in Nat /\ L # 0 /\ L + 1 \in p + 1 .. L + 1 /\ L + 1 # 0
      BY <1>1, <2>3, LenProperties
    <3> DEFINE l == L + 1
    <3>2. n.keys[L] = hi /\ hi # NoKey
      BY <2>3, <3>1 DEF Closed
    <3>3. t[l] = n.keys[l - 1] /\ l - 1 = L
      BY <1>5, <3>1 DEF Inserts
    <3> QED
      BY <1>6, <2>1, <2>3, <3>1, <3>2, <3>3 DEF Closed
  <2> QED
    BY <1>1, <2>2, <2>3 DEF InnerFits
<1>10. InnerFits(S, g, lo, hi)
  BY <1>8, <1>9 DEF InnerFits
<1> QED
  BY <1>4, <1>5, <1>6, <1>7, <1>10 DEF g

\* The grown node fits when both halves of the split child do.
LEMMA GrownFits ==
  ASSUME NEW mode, NEW S, NEW h \in Nat, NEW n, NEW lo, NEW hi,
         FitsAs(mode, S, h + 1, n, lo, hi), NEW p \in 1 .. Len(n.children), NEW m, NEW x, NEW w,
         SplitFits(mode, S, h, n, lo, hi, p, m, x, w)
  PROVE  FitsAs(mode, S, h + 1, GrownInner(n, p, m, x, w), lo, hi)
<1> DEFINE g == GrownInner(n, p, m, x, w)
           L == Len(n.keys)
<1>1. /\ n.keys \in Seq(Keys) /\ lo \in Bound /\ hi \in Bound
      /\ n.children \in Seq(Nodes[h]) /\ ChildrenFit(mode, S, h, n, lo, hi)
      /\ InnerFits(S, n, lo, hi)
  BY InnerFields
<1>2. /\ GrownChildren(g, n, p, m, w, h) /\ g = Internal(g.keys, g.children)
      /\ g.keys \in Seq(Keys) /\ Len(g.keys) = L + 1
      /\ p \in 1 .. L + 1 /\ Inserts(g.keys, n.keys, p, x)
      /\ InnerFits(S, g, lo, hi)
  BY GrownIsInner
<1> HIDE DEF g
<1>3. /\ g.children \in Seq(Nodes[h]) /\ Len(g.children) = Len(n.children) + 1
      /\ \A i \in 1 .. p - 1 : g.children[i] = n.children[i]
      /\ g.children[p] = m /\ g.children[p + 1] = w
      /\ \A i \in p + 2 .. Len(n.children) + 1 : g.children[i] = n.children[i - 1]
  BY <1>2 DEF GrownChildren
<1>4. /\ FitsAs(mode, S, h, m, LoAt(n, lo, p), x)
      /\ FitsAs(mode, S, h, w, x, HiAt(n, hi, p))
  BY DEF SplitFits
<1>5. L \in Nat /\ Len(n.children) \in Nat /\ Len(n.children) <= L + 1 /\ p \in Nat
      /\ p <= Len(n.children)
  <2>1. Len(n.children) = L + 1 \/ Len(n.children) = L
    BY <1>1 DEF InnerFits
  <2>2. L \in Nat /\ Len(n.children) \in Nat
    BY <1>1, LenProperties
  <2> QED
    BY <2>1, <2>2
<1>6. ASSUME NEW i \in 1 .. Len(n.children) + 1
      PROVE  FitsAs(mode, S, h, g.children[i], LoAt(g, lo, i), HiAt(g, hi, i))
  <2>1. /\ i < p => LoAt(g, lo, i) = LoAt(n, lo, i) /\ HiAt(g, hi, i) = HiAt(n, hi, i)
        /\ i = p => LoAt(g, lo, i) = LoAt(n, lo, p) /\ HiAt(g, hi, i) = x
        /\ i = p + 1 => LoAt(g, lo, i) = x /\ HiAt(g, hi, i) = HiAt(n, hi, p)
        /\ (p + 1 < i /\ i <= L + 2) =>
              LoAt(g, lo, i) = LoAt(n, lo, i - 1) /\ HiAt(g, hi, i) = HiAt(n, hi, i - 1)
    <3>1. i \in Nat /\ i > 0
      BY <1>5
    <3>2. BoundsGrow(g, n, lo, hi, p, x, i)
      BY <1>1, <1>2, <3>1, GrownBounds
    <3> QED
      BY <3>2 DEF BoundsGrow
  <2>2. CASE i < p
    <3>1. i \in 1 .. p - 1 /\ i \in 1 .. Len(n.children)
      BY <1>5, <2>2
    <3>2. FitsAs(mode, S, h, n.children[i], LoAt(n, lo, i), HiAt(n, hi, i))
      BY <1>1, <3>1 DEF ChildrenFit
    <3> QED
      BY <1>3, <2>1, <2>2, <3>1, <3>2
  <2>3. CASE i = p
    BY <1>3, <1>4, <2>1, <2>3
  <2>4. CASE i = p + 1
    BY <1>3, <1>4, <2>1, <2>4
  <2>5. CASE p + 1 < i
    <3> DEFINE j == i - 1
    <3>1. i \in p + 2 .. Len(n.children) + 1 /\ i <= L + 2 /\ j \in 1 .. Len(n.children)
      BY <1>5, <2>5
    <3>2. LoAt(g, lo, i) = LoAt(n, lo, j) /\ HiAt(g, hi, i) = HiAt(n, hi, j)
          /\ g.children[i] = n.children[j]
      BY <1>3, <2>1, <2>5, <3>1
    <3> HIDE DEF j
    <3>3. FitsAs(mode, S, h, n.children[j], LoAt(n, lo, j), HiAt(n, hi, j))
      BY <1>1, <3>1 DEF ChildrenFit
    <3> QED
      BY <3>2, <3>3
  <2> QED
    BY <1>5, <2>2, <2>3, <2>4, <2>5
<1>7. ChildrenFit(mode, S, h, g, lo, hi)
  BY <1>3, <1>6 DEF ChildrenFit
<1> DEFINE a == g.keys
           b == g.children
<1>8. FitsAs(mode, S, h + 1, Internal(a, b), lo, hi)
  <2>1. /\ InnerFits(S, Internal(a, b), lo, hi) /\ ChildrenFit(mode, S, h, Internal(a, b), lo, hi)
        /\ a \in Seq(Keys)
    BY <1>2, <1>7
  <2>2. b \in Seq(Nodes[h])
    BY <1>3
  <2> HIDE DEF a, b
  <2> QED
    BY <1>1, <2>1, <2>2, InnerMade
<1>9. FitsAs(mode, S, h + 1, g, lo, hi)
  BY <1>2, <1>8
<1> QED
  BY <1>9 DEF g

\* Its contents have those of both halves in place of child p.
LEMMA GrownHolds ==
  ASSUME NEW mode, NEW S, NEW h \in Nat, NEW n, NEW lo, NEW hi,
         FitsAs(mode, S, h + 1, n, lo, hi), NEW p \in 1 .. Len(n.children), NEW m, NEW x, NEW w,
         SplitFits(mode, S, h, n, lo, hi, p, m, x, w)
  PROVE  ContentsPatched(h, n, p, Contents[h][m] \o Contents[h][w],
                         Contents[h + 1][GrownInner(n, p, m, x, w)])
<1> DEFINE g == GrownInner(n, p, m, x, w)
           s == ChildContents(h, n)
           t == ChildContents(h, g)
<1>1. FitsAs(mode, S, h + 1, g, lo, hi)
  BY GrownFits
<1>2. Gathers(mode, S, h, n, lo, hi, s)
  BY InnerContents
<1>3. Gathers(mode, S, h, g, lo, hi, t)
  BY <1>1, InnerContents
<1>4. GrownChildren(g, n, p, m, w, h)
  BY GrownIsInner
<1>5. Len(n.children) \in Nat
  BY InnerFields, LenProperties
<1> HIDE DEF g, s, t
<1>6. /\ s \in Seq(Seq(Entry)) /\ t \in Seq(Seq(Entry)) /\ Len(s) = Len(n.children)
      /\ Len(t) = Len(n.children) + 1
      /\ Contents[h + 1][n] = FlattenSeq(s) /\ Contents[h + 1][g] = FlattenSeq(t)
      /\ \A i \in 1 .. Len(n.children) : s[i] = Contents[h][n.children[i]]
      /\ \A i \in 1 .. Len(n.children) + 1 : t[i] = Contents[h][g.children[i]]
  BY <1>2, <1>3, <1>4 DEF Gathers, GrownChildren
<1>7. /\ t[p] = Contents[h][m] /\ t[p + 1] = Contents[h][w]
      /\ s[p] = Contents[h][n.children[p]]
  <2>1. p \in 1 .. Len(n.children) + 1 /\ p + 1 \in 1 .. Len(n.children) + 1
    BY <1>5
  <2> QED
    BY <1>4, <1>6, <2>1 DEF GrownChildren
<1>8. \A i \in 1 .. p - 1 : t[i] = s[i]
  <2> TAKE i \in 1 .. p - 1
  <2>1. i \in 1 .. Len(n.children) /\ i \in 1 .. Len(n.children) + 1
    BY <1>5
  <2>2. g.children[i] = n.children[i]
    BY <1>4 DEF GrownChildren
  <2>3. t[i] = Contents[h][g.children[i]] /\ s[i] = Contents[h][n.children[i]]
    BY <1>6, <2>1
  <2> QED
    BY <2>2, <2>3
<1>9. \A i \in p + 1 .. Len(n.children) : t[i + 1] = s[i]
  <2> TAKE i \in p + 1 .. Len(n.children)
  <2> DEFINE j == i + 1
  <2>1. /\ i \in 1 .. Len(n.children) /\ j \in 1 .. Len(n.children) + 1
        /\ j \in p + 2 .. Len(n.children) + 1 /\ j - 1 = i
    BY <1>5
  <2> HIDE DEF j
  <2>2. g.children[j] = n.children[i]
    BY <1>4, <2>1 DEF GrownChildren
  <2>3. t[j] = s[i]
    BY <1>6, <2>1, <2>2
  <2> QED
    BY <2>3 DEF j
<1>10. p \in 1 .. Len(s)
  BY <1>6
<1>11. Doubles(t, s, p)
  BY <1>6, <1>8, <1>9 DEF Doubles
<1>12. /\ PartsBefore(s, p) \in Seq(Entry) /\ PartsAfter(s, p) \in Seq(Entry)
       /\ FlattenSeq(s) = (PartsBefore(s, p) \o s[p]) \o PartsAfter(s, p)
  BY <1>6, <1>10, FlattenAround
<1>13. FlattenSeq(t) = (PartsBefore(s, p) \o (t[p] \o t[p + 1])) \o PartsAfter(s, p)
  BY <1>6, <1>10, <1>11, FlattenDoubled
<1>14. ContentsPatched(h, n, p, Contents[h][m] \o Contents[h][w], Contents[h + 1][g])
  BY <1>6, <1>7, <1>12, <1>13 DEF ContentsPatched
<1> QED
  BY <1>14 DEF g

-----------------------------------------------------------------------------
\* A split of an internal node.

\* An internal node cut at its key m, which stays on the left.
LEMMA InnerKeysCut ==
  ASSUME NEW S, NEW keys \in Seq(Keys), NEW lo, NEW hi, KeysFit(keys, S, lo, hi),
         NEW m \in 1 .. Len(keys), NEW a, NEW b, Cuts(keys, m, a, b, Keys)
  PROVE  /\ keys[m] \in Keys /\ keys[m] \in S
         /\ AtLeast(keys[m], lo) /\ AtMost(keys[m], hi)
         /\ KeysFit(a, S, lo, keys[m]) /\ KeysFit(b, S, keys[m], hi)
<1> DEFINE L == Len(keys)
           x == keys[m]
<1>1. L \in Nat /\ (\A i \in 1 .. L : keys[i] \in Keys /\ keys[i] \in Int)
  BY KeysOrdered
<1>2. /\ \A i, j \in 1 .. L : i <= j => keys[i] <= keys[j]
      /\ \A i \in 1 .. L : keys[i] \in S /\ AtLeast(keys[i], lo) /\ AtMost(keys[i], hi)
  BY DEF KeysFit, Sorted
<1>3. /\ Len(a) = m /\ Len(b) = L - m
      /\ \A i \in 1 .. m : a[i] = keys[i]
      /\ \A i \in 1 .. L - m : b[i] = keys[m + i]
  BY DEF Cuts
<1> HIDE DEF L
<1>4. m \in 1 .. L /\ m \in Nat
  BY <1>1 DEF L
<1>5. x \in Keys /\ x \in Int /\ x \in S /\ AtLeast(x, lo) /\ AtMost(x, hi)
  BY <1>1, <1>2, <1>4
<1>6. \A i \in 1 .. m : i \in 1 .. L /\ i <= m
  BY <1>1, <1>4
<1>7. \A i \in 1 .. m : a[i] \in S /\ a[i] <= x /\ AtLeast(a[i], lo)
  BY <1>2, <1>3, <1>4, <1>6
<1>8. \A i, j \in 1 .. m : i <= j => a[i] <= a[j]
  BY <1>2, <1>3, <1>6
<1>9. ASSUME NEW i \in 1 .. L - m, NEW j \in 1 .. L - m
      PROVE  b[i] \in S /\ x <= b[i] /\ AtMost(b[i], hi) /\ (i <= j => b[i] <= b[j])
  <2> DEFINE y == m + i
             z == m + j
  <2>1. y \in 1 .. L /\ z \in 1 .. L /\ m <= y /\ (i <= j => y <= z)
    BY <1>1, <1>4
  <2>2. b[i] = keys[y] /\ b[j] = keys[z]
    BY <1>3
  <2> HIDE DEF y, z
  <2>3. x <= keys[y]
    BY <1>2, <1>4, <2>1
  <2> QED
    BY <1>2, <2>1, <2>2, <2>3
<1> HIDE DEF x
<1>10. KeysFit(a, S, lo, x)
  BY <1>3, <1>7, <1>8 DEF KeysFit, Sorted, AtMost
<1>11. KeysFit(b, S, x, hi)
  BY <1>3, <1>9 DEF KeysFit, Sorted, AtLeast
<1> QED
  BY <1>5, <1>10, <1>11 DEF x

\* Nodes whose keys, and children, are those of n up to its key m, and after it.
IsCut(n, m, h, left, right) ==
  /\ left = Internal(left.keys, left.children)
  /\ right = Internal(right.keys, right.children)
  /\ Cuts(n.keys, m, left.keys, right.keys, Keys)
  /\ Cuts(n.children, m, left.children, right.children, Nodes[h])

\* Internal nodes made of the parts are a cut.
LEMMA CutMade ==
  ASSUME NEW h, NEW n, NEW m, NEW a, NEW b, NEW c, NEW d,
         Cuts(n.keys, m, a, b, Keys), Cuts(n.children, m, c, d, Nodes[h])
  PROVE  IsCut(n, m, h, Internal(a, c), Internal(b, d))
  BY DEF IsCut, Internal

\* The node before the cut.
LEMMA LeftFits ==
  ASSUME NEW mode, NEW S, NEW h \in Nat, NEW n, NEW lo, NEW hi,
         FitsAs(mode, S, h + 1, n, lo, hi), NEW m \in 1 .. Len(n.keys),
         NEW left, NEW right, IsCut(n, m, h, left, right)
  PROVE  /\ n.keys[m] \in Keys /\ n.keys[m] \in S
         /\ AtLeast(n.keys[m], lo) /\ AtMost(n.keys[m], hi)
         /\ FitsAs(mode, S, h + 1, left, lo, n.keys[m])
<1> DEFINE x == n.keys[m]
           C == Nodes[h]
           L == Len(n.keys)
<1>1. /\ n.keys \in Seq(Keys) /\ lo \in Bound /\ hi \in Bound
      /\ n.children \in Seq(C) /\ ChildrenFit(mode, S, h, n, lo, hi)
      /\ InnerFits(S, n, lo, hi)
  BY InnerFields
<1>2. /\ left = Internal(left.keys, left.children)
      /\ Cuts(n.keys, m, left.keys, right.keys, Keys)
      /\ Cuts(n.children, m, left.children, right.children, C)
  BY DEF IsCut
<1>3. /\ x \in Keys /\ x \in S /\ AtLeast(x, lo) /\ AtMost(x, hi)
      /\ KeysFit(left.keys, S, lo, x)
  BY <1>1, <1>2, InnerKeysCut DEF InnerFits
<1>4. /\ left.keys \in Seq(Keys) /\ left.children \in Seq(C)
      /\ Len(left.keys) = m /\ Len(left.children) = m
      /\ \A i \in 1 .. m : left.keys[i] = n.keys[i] /\ left.children[i] = n.children[i]
  BY <1>2 DEF Cuts
<1>5. L \in Nat /\ m \in 1 .. L /\ m # 0 /\ x # NoKey /\ Len(n.children) \in {L, L + 1}
  <2>1. L \in Nat
    BY <1>1, LenProperties
  <2>2. x # NoKey
    BY <1>3, KeysAssumption
  <2>3. Len(n.children) \in {L, L + 1}
    BY <1>1 DEF InnerFits
  <2> QED
    BY <2>1, <2>2, <2>3
<1> HIDE DEF x, L, C
<1>6. InnerFits(S, left, lo, x)
  <2>1. left.keys[m] = x
    BY <1>4, <1>5 DEF x
  <2> QED
    BY <1>3, <1>4, <1>5, <2>1 DEF InnerFits, Closed
<1>7. ChildrenFit(mode, S, h, left, lo, x)
  <2>1. ASSUME NEW i \in 1 .. m
        PROVE  FitsAs(mode, S, h, left.children[i], LoAt(left, lo, i), HiAt(left, x, i))
    <3>1. i \in 1 .. Len(n.children) /\ i <= L /\ i <= m /\ (i # 1 => i - 1 \in 1 .. m)
      BY <1>5
    <3>2. LoAt(left, lo, i) = LoAt(n, lo, i)
      BY <1>4, <3>1 DEF LoAt
    <3>3. HiAt(left, x, i) = HiAt(n, hi, i)
      BY <1>4, <3>1 DEF HiAt, L
    <3>4. FitsAs(mode, S, h, n.children[i], LoAt(n, lo, i), HiAt(n, hi, i))
      BY <1>1, <3>1 DEF ChildrenFit
    <3> QED
      BY <1>4, <3>2, <3>3, <3>4
  <2> QED
    BY <1>4, <2>1 DEF ChildrenFit
<1>8. x \in Bound
  BY <1>3 DEF Bound
<1> DEFINE a == left.keys
           b == left.children
<1>9. FitsAs(mode, S, h + 1, Internal(a, b), lo, x)
  <2>1. /\ InnerFits(S, Internal(a, b), lo, x) /\ ChildrenFit(mode, S, h, Internal(a, b), lo, x)
        /\ a \in Seq(Keys)
    BY <1>2, <1>4, <1>6, <1>7
  <2>2. b \in Seq(Nodes[h])
    BY <1>4 DEF C
  <2> HIDE DEF a, b
  <2> QED
    BY <1>1, <1>8, <2>1, <2>2, InnerMade
<1>10. FitsAs(mode, S, h + 1, left, lo, x)
  BY <1>2, <1>9
<1> QED
  BY <1>3, <1>10 DEF x

\* The node after the cut.
LEMMA RightFits ==
  ASSUME NEW mode, NEW S, NEW h \in Nat, NEW n, NEW lo, NEW hi,
         FitsAs(mode, S, h + 1, n, lo, hi), NEW m \in 1 .. Len(n.keys),
         NEW left, NEW right, IsCut(n, m, h, left, right)
  PROVE  FitsAs(mode, S, h + 1, right, n.keys[m], hi)
<1> DEFINE x == n.keys[m]
           C == Nodes[h]
           L == Len(n.keys)
           N == Len(n.children)
<1>1. /\ n.keys \in Seq(Keys) /\ lo \in Bound /\ hi \in Bound
      /\ n.children \in Seq(C) /\ ChildrenFit(mode, S, h, n, lo, hi)
      /\ InnerFits(S, n, lo, hi)
  BY InnerFields
<1>2. /\ right = Internal(right.keys, right.children)
      /\ Cuts(n.keys, m, left.keys, right.keys, Keys)
      /\ Cuts(n.children, m, left.children, right.children, C)
  BY DEF IsCut
<1>3. x \in Keys /\ KeysFit(right.keys, S, x, hi)
  BY <1>1, <1>2, InnerKeysCut DEF InnerFits
<1>4. /\ right.keys \in Seq(Keys) /\ right.children \in Seq(C)
      /\ Len(right.keys) = L - m /\ Len(right.children) = N - m
      /\ \A i \in 1 .. L - m : right.keys[i] = n.keys[m + i]
      /\ \A i \in 1 .. N - m : right.children[i] = n.children[m + i]
  BY <1>2 DEF Cuts
<1>5. L \in Nat /\ m \in 1 .. L /\ x # NoKey /\ N \in {L, L + 1}
  BY <1>1, <1>3, LenProperties, KeysAssumption DEF InnerFits
<1>6. N = L + 1 \/ (N = L /\ Closed(n.keys, lo, hi))
  BY <1>1 DEF InnerFits
<1> HIDE DEF x, L, C, N
<1>7. InnerFits(S, right, x, hi)
  <2>1. CASE N = L + 1
    <3>1. Len(right.children) = Len(right.keys) + 1
      BY <1>4, <1>5, <2>1
    <3> QED
      BY <1>3, <3>1 DEF InnerFits
  <2>2. CASE N = L /\ Closed(n.keys, lo, hi)
    <3>1. Len(right.children) = Len(right.keys) /\ L # 0
      BY <1>4, <1>5, <2>2
    <3>2. n.keys[L] = hi /\ hi # NoKey
      BY <2>2, <3>1 DEF Closed, L
    <3>3. CASE m = L
      <4>1. Len(right.keys) = 0 /\ x = hi
        BY <1>4, <1>5, <3>2, <3>3 DEF x
      <4> QED
        BY <1>3, <3>1, <3>2, <4>1 DEF InnerFits, Closed
    <3>4. CASE m # L
      <4> DEFINE l == L - m
      <4>1. l \in 1 .. l /\ l # 0 /\ m + l = L /\ Len(right.keys) = l
        BY <1>4, <1>5, <3>4
      <4>2. right.keys[l] = n.keys[m + l]
        BY <1>4, <4>1
      <4> HIDE DEF l
      <4>3. right.keys[l] = hi
        BY <3>2, <4>1, <4>2
      <4>4. Closed(right.keys, x, hi)
        BY <3>2, <4>1, <4>3 DEF Closed
      <4> QED
        BY <1>3, <3>1, <4>4 DEF InnerFits
    <3> QED
      BY <3>3, <3>4
  <2> QED
    BY <1>6, <2>1, <2>2
<1>8. ChildrenFit(mode, S, h, right, x, hi)
  <2>1. ASSUME NEW i \in 1 .. N - m
        PROVE  FitsAs(mode, S, h, right.children[i], LoAt(right, x, i), HiAt(right, hi, i))
    <3> DEFINE j == m + i
    <3>1. j \in 1 .. N /\ j # 1 /\ i \in Nat
      BY <1>5
    <3>2. LoAt(right, x, i) = LoAt(n, lo, j)
      <4>1. LoAt(n, lo, j) = n.keys[j - 1]
        BY <3>1 DEF LoAt
      <4>2. CASE i = 1
        <5>1. j - 1 = m
          BY <1>5, <4>2
        <5> QED
          BY <4>1, <4>2, <5>1 DEF LoAt, x
      <4>3. CASE i # 1
        <5> DEFINE l == i - 1
        <5>1. l \in 1 .. L - m /\ m + l = j - 1
          BY <1>5, <4>3
        <5>2. LoAt(right, x, i) = right.keys[l]
          BY <4>3 DEF LoAt
        <5> HIDE DEF l, j
        <5>3. right.keys[l] = n.keys[m + l]
          BY <1>4, <5>1
        <5> QED
          BY <4>1, <5>1, <5>2, <5>3
      <4> QED
        BY <4>2, <4>3
    <3>3. HiAt(right, hi, i) = HiAt(n, hi, j)
      <4>1. i <= L - m <=> j <= L
        BY <1>5
      <4>2. i <= L - m => i \in 1 .. L - m
        BY <1>5
      <4>3. HiAt(right, hi, i) = IF i <= L - m THEN right.keys[i] ELSE hi
        BY <1>4 DEF HiAt
      <4>4. HiAt(n, hi, j) = IF j <= L THEN n.keys[j] ELSE hi
        BY DEF HiAt, L
      <4> QED
        BY <1>4, <4>1, <4>2, <4>3, <4>4
    <3>4. right.children[i] = n.children[j]
      BY <1>4
    <3> HIDE DEF j
    <3>5. FitsAs(mode, S, h, n.children[j], LoAt(n, lo, j), HiAt(n, hi, j))
      BY <1>1, <3>1 DEF ChildrenFit, N
    <3> QED
      BY <3>2, <3>3, <3>4, <3>5
  <2> QED
    BY <1>4, <2>1 DEF ChildrenFit
<1>9. x \in Bound
  BY <1>3 DEF Bound
<1> DEFINE a == right.keys
           b == right.children
<1>10. FitsAs(mode, S, h + 1, Internal(a, b), x, hi)
  <2>1. /\ InnerFits(S, Internal(a, b), x, hi) /\ ChildrenFit(mode, S, h, Internal(a, b), x, hi)
        /\ a \in Seq(Keys)
    BY <1>2, <1>4, <1>7, <1>8
  <2>2. b \in Seq(Nodes[h])
    BY <1>4 DEF C
  <2> HIDE DEF a, b
  <2> QED
    BY <1>1, <1>9, <2>1, <2>2, InnerMade
<1>11. FitsAs(mode, S, h + 1, right, x, hi)
  BY <1>2, <1>10
<1> QED
  BY <1>11 DEF x

\* s has the contents of each child of n.
Lists(s, n, h) ==
  /\ s \in Seq(Seq(Entry)) /\ Len(s) = Len(n.children)
  /\ \A i \in 1 .. Len(n.children) : s[i] = Contents[h][n.children[i]]

\* The contents of the children on each side of a cut.
LEMMA ChildContentsCut ==
  ASSUME NEW h \in Nat, NEW n, NEW m, NEW left, NEW right, NEW s, NEW a, NEW b,
         Cuts(n.children, m, left.children, right.children, Nodes[h]),
         n.children \in Seq(Nodes[h]), m \in 0 .. Len(n.children),
         Lists(s, n, h), Lists(a, left, h), Lists(b, right, h)
  PROVE  a = SubSeq(s, 1, m) /\ b = SubSeq(s, m + 1, Len(s))
<1> DEFINE C == Nodes[h]
           Q == Seq(Entry)
           N == Len(n.children)
           u == SubSeq(s, 1, m)
           v == SubSeq(s, m + 1, Len(s))
<1>0. /\ s \in Seq(Seq(Entry)) /\ Len(s) = Len(n.children)
      /\ \A i \in 1 .. Len(n.children) : s[i] = Contents[h][n.children[i]]
      /\ a \in Seq(Seq(Entry)) /\ Len(a) = Len(left.children)
      /\ \A i \in 1 .. Len(left.children) : a[i] = Contents[h][left.children[i]]
      /\ b \in Seq(Seq(Entry)) /\ Len(b) = Len(right.children)
      /\ \A i \in 1 .. Len(right.children) : b[i] = Contents[h][right.children[i]]
  BY DEF Lists
<1>1. /\ Len(left.children) = m /\ Len(right.children) = N - m
      /\ \A i \in 1 .. m : left.children[i] = n.children[i]
      /\ \A i \in 1 .. N - m : right.children[i] = n.children[m + i]
  BY DEF Cuts
<1>2. N \in Nat /\ m \in 0 .. N
  BY LenProperties
<1>3. s \in Seq(Q) /\ a \in Seq(Q) /\ b \in Seq(Q) /\ m \in 0 .. Len(s)
  BY <1>0
<1> HIDE DEF C, Q
<1>4. Cuts(s, m, u, v, Q)
  BY <1>3, SubSeqCuts
<1> HIDE DEF u, v, N
<1>5. /\ u \in Seq(Q) /\ v \in Seq(Q) /\ Len(u) = m /\ Len(v) = N - m
      /\ \A i \in 1 .. m : u[i] = s[i]
      /\ \A i \in 1 .. N - m : v[i] = s[m + i]
  BY <1>0, <1>4 DEF Cuts, N
<1>6. Len(a) = m /\ Len(b) = N - m
  BY <1>0, <1>1
<1>7. ASSUME NEW i \in 1 .. m PROVE a[i] = u[i]
  <2>1. i \in 1 .. N
    BY <1>2
  <2>2. a[i] = Contents[h][left.children[i]] /\ s[i] = Contents[h][n.children[i]]
    BY <1>0, <1>1, <2>1 DEF N
  <2> QED
    BY <1>1, <1>5, <2>2
<1>8. ASSUME NEW i \in 1 .. N - m PROVE b[i] = v[i]
  <2> DEFINE j == m + i
  <2>1. j \in 1 .. N
    BY <1>2
  <2>2. right.children[i] = n.children[j] /\ v[i] = s[j]
    BY <1>1, <1>5
  <2> HIDE DEF j
  <2>3. b[i] = Contents[h][right.children[i]] /\ s[j] = Contents[h][n.children[j]]
    BY <1>0, <1>1, <2>1 DEF N
  <2> QED
    BY <2>2, <2>3
<1>9. a = u
  BY <1>3, <1>5, <1>6, <1>7, SeqEqual
<1>10. b = v
  BY <1>3, <1>5, <1>6, <1>8, SeqEqual
<1> QED
  BY <1>9, <1>10 DEF u, v

\* The contents of n are those of two others.
HoldsBoth(h, n, left, right) == Contents[h][n] = Contents[h][left] \o Contents[h][right]

\* The contents of a node are those of the two it is cut into.
LEMMA CutHolds ==
  ASSUME NEW mode, NEW S, NEW h \in Nat, NEW n, NEW lo, NEW hi,
         FitsAs(mode, S, h + 1, n, lo, hi), NEW m \in 1 .. Len(n.keys),
         NEW left, NEW right, IsCut(n, m, h, left, right)
  PROVE  HoldsBoth(h + 1, n, left, right)
<1> DEFINE x == n.keys[m]
           s == ChildContents(h, n)
           a == ChildContents(h, left)
           b == ChildContents(h, right)
<1>1. FitsAs(mode, S, h + 1, left, lo, x)
  BY LeftFits
<1>2. FitsAs(mode, S, h + 1, right, x, hi)
  BY RightFits
<1> HIDE DEF x
<1>3. Gathers(mode, S, h, n, lo, hi, s)
  BY InnerContents
<1>4. Gathers(mode, S, h, left, lo, x, a)
  BY <1>1, InnerContents
<1>5. Gathers(mode, S, h, right, x, hi, b)
  BY <1>2, InnerContents
<1> HIDE DEF s, a, b
<1>6. /\ Contents[h + 1][n] = FlattenSeq(s) /\ s \in Seq(Seq(Entry))
      /\ Len(s) = Len(n.children)
      /\ \A i \in 1 .. Len(n.children) : s[i] = Contents[h][n.children[i]]
  BY <1>3 DEF Gathers
<1>7. /\ Contents[h + 1][left] = FlattenSeq(a) /\ a \in Seq(Seq(Entry))
      /\ Len(a) = Len(left.children)
      /\ \A i \in 1 .. Len(left.children) : a[i] = Contents[h][left.children[i]]
  BY <1>4 DEF Gathers
<1>8. /\ Contents[h + 1][right] = FlattenSeq(b) /\ b \in Seq(Seq(Entry))
      /\ Len(b) = Len(right.children)
      /\ \A i \in 1 .. Len(right.children) : b[i] = Contents[h][right.children[i]]
  BY <1>5 DEF Gathers
<1>9. /\ n.children \in Seq(Nodes[h]) /\ n.keys \in Seq(Keys)
      /\ Len(n.children) \in {Len(n.keys), Len(n.keys) + 1}
  BY InnerFields DEF InnerFits
<1>10. m \in 0 .. Len(n.children)
  <2>1. Len(n.keys) \in Nat
    BY <1>9, LenProperties
  <2> QED
    BY <1>9, <2>1
<1>11. Cuts(n.children, m, left.children, right.children, Nodes[h])
  BY DEF IsCut
<1>12. a = SubSeq(s, 1, m) /\ b = SubSeq(s, m + 1, Len(s))
  <2>1. Lists(s, n, h) /\ Lists(a, left, h) /\ Lists(b, right, h)
    BY <1>6, <1>7, <1>8 DEF Lists
  <2> QED
    BY <1>9, <1>10, <1>11, <2>1, ChildContentsCut
<1>13. FlattenSeq(s) = FlattenSeq(SubSeq(s, 1, m)) \o FlattenSeq(SubSeq(s, m + 1, Len(s)))
  <2>1. m \in 0 .. Len(s)
    BY <1>6, <1>10
  <2> QED
    BY <1>6, <2>1, FlattenCut
<1> QED
  BY <1>6, <1>7, <1>8, <1>12, <1>13 DEF HoldsBoth

\* _splitInternal: both halves of an internal node fit, although the separator
\* stays in the left one.
LEMMA InnerSplit ==
  ASSUME NEW mode, NEW S, NEW h \in Nat, NEW n, NEW lo, NEW hi,
         FitsAs(mode, S, h + 1, n, lo, hi), Len(n.keys) > 1
  PROVE  SplitsInto(mode, S, h + 1, n, lo, hi, SplitInternal(n))
<1> DEFINE L == Len(n.keys)
           m == (L \div 2) + 1
           a == SubSeq(n.keys, 1, m)
           b == SubSeq(n.keys, m + 1, L)
           c == SubSeq(n.children, 1, m)
           d == SubSeq(n.children, m + 1, Len(n.children))
           left == Internal(a, c)
           right == Internal(b, d)
           x == n.keys[m]
           C == Nodes[h]
           res == SplitInternal(n)
<1>1. /\ n.keys \in Seq(Keys) /\ n.children \in Seq(C)
      /\ Len(n.children) \in {L, L + 1}
  BY InnerFields DEF InnerFits
<1>2. L \in Nat /\ L > 1
  BY <1>1, LenProperties
<1>3. m \in 1 .. L /\ m \in 0 .. L
  <2>1. m \in 1 .. L
    BY <1>2, Halves
  <2> HIDE DEF m, L
  <2> QED
    BY <1>2, <2>1
<1>4. res.node = left /\ res.separatorKey = x /\ res.newNode = right
  BY DEF SplitInternal
<1> HIDE DEF m, res, C
<1>5. m \in 0 .. Len(n.children)
  BY <1>1, <1>2, <1>3
<1>6. Cuts(n.keys, m, a, b, Keys)
  BY <1>1, <1>3, SubSeqCuts
<1>7. Cuts(n.children, m, c, d, C)
  BY <1>1, <1>5, SubSeqCuts
<1> HIDE DEF a, b, c, d
<1>8. IsCut(n, m, h, left, right)
  BY <1>6, <1>7, CutMade DEF C
<1> HIDE DEF left, right
<1>9. /\ x \in Keys /\ x \in S /\ AtLeast(x, lo) /\ AtMost(x, hi)
      /\ FitsAs(mode, S, h + 1, left, lo, x)
  BY <1>3, <1>8, LeftFits
<1>10. FitsAs(mode, S, h + 1, right, x, hi)
  BY <1>3, <1>8, RightFits
<1>11. HoldsBoth(h + 1, n, left, right)
  BY <1>3, <1>8, CutHolds
<1> HIDE DEF x
<1>12. SplitsInto(mode, S, h + 1, n, lo, hi, res)
  BY <1>4, <1>9, <1>10, <1>11 DEF SplitsInto, HoldsBoth
<1> QED
  BY <1>12 DEF res

-----------------------------------------------------------------------------
\* Insertion.

\* What an insert of the entry e below a node gives back.
InsertedInto(mode, S, h, n, lo, hi, e, res) ==
  IF res.separatorKey = NoKey
  THEN /\ FitsAs(mode, S, h, res.node, lo, hi)
       /\ Grew(Contents[h][n], Contents[h][res.node], e)
  ELSE /\ res.separatorKey \in Keys /\ res.separatorKey \in S
       /\ AtLeast(res.separatorKey, lo) /\ AtMost(res.separatorKey, hi)
       /\ FitsAs(mode, S, h, res.node, lo, res.separatorKey)
       /\ FitsAs(mode, S, h, res.newNode, res.separatorKey, hi)
       /\ Grew(Contents[h][n], Contents[h][res.node] \o Contents[h][res.newNode], e)

\* A grown node is given back as it is, or split.
LEMMA GivenBack ==
  ASSUME NEW mode, NEW S, NEW h, NEW n, NEW lo, NEW hi, NEW e, NEW g,
         Grew(Contents[h][n], Contents[h][g], e), NEW res
  PROVE  /\ FitsAs(mode, S, h, g, lo, hi) =>
              InsertedInto(mode, S, h, n, lo, hi, e, Whole(g))
         /\ SplitsInto(mode, S, h, g, lo, hi, res) =>
              InsertedInto(mode, S, h, n, lo, hi, e, res)
<1>1. Whole(g).separatorKey = NoKey /\ Whole(g).node = g
  BY DEF Whole
<1>2. NoKey \notin Keys
  BY KeysAssumption
<1> QED
  BY <1>1, <1>2 DEF InsertedInto, SplitsInto

\* An insert into a leaf gives back what it should.
LEMMA LeafInserted ==
  ASSUME NEW mode, NEW S, NEW n, NEW lo, NEW hi, FitsAs(mode, S, 0, n, lo, hi),
         NEW k \in Keys, NEW r \in Rows, MayInsert(mode, S, k, lo, hi), NEW order \in Orders
  PROVE  InsertedInto(mode, S \cup {k}, 0, n, lo, hi, [key |-> k, row |-> r],
                      LeafInsert(order, n, FindInsertPos(n.keys, k), k, r))
<1> DEFINE g == GrownLeaf(n, k, r)
           e == [key |-> k, row |-> r]
           Q == S \cup {k}
           res == LeafInsert(order, n, FindInsertPos(n.keys, k), k, r)
<1>1. FitsAs(mode, Q, 0, g, lo, hi) /\ Grew(Contents[0][n], Contents[0][g], e)
  BY LeafGrown
<1>2. res = IF Len(g.keys) > order - 1 THEN SplitLeaf(g) ELSE Whole(g)
  BY DEF LeafInsert, GrownLeaf, MaxLeafKeys
<1> HIDE DEF g, e, Q, res
<1>3. CASE Len(g.keys) > order - 1
  <2>1. Len(g.keys) \in Nat
    BY <1>1, LeafFields, LenProperties
  <2>2. Len(g.keys) > 1
    BY <1>3, <2>1 DEF Orders
  <2>3. SplitsInto(mode, Q, 0, g, lo, hi, SplitLeaf(g))
    BY <1>1, <2>2, LeafSplit
  <2>4. SplitsInto(mode, Q, 0, g, lo, hi, res)
    BY <1>2, <1>3, <2>3
  <2>5. InsertedInto(mode, Q, 0, n, lo, hi, e, res)
    BY <1>1, <2>4, GivenBack
  <2> QED
    BY <2>5 DEF Q, e, res
<1>4. CASE ~ (Len(g.keys) > order - 1)
  <2>1. InsertedInto(mode, Q, 0, n, lo, hi, e, Whole(g))
    BY <1>1, GivenBack
  <2>2. InsertedInto(mode, Q, 0, n, lo, hi, e, res)
    BY <1>2, <1>4, <2>1
  <2> QED
    BY <2>2 DEF Q, e, res
<1> QED
  BY <1>3, <1>4

\* An internal node takes over what came back from below.
LEMMA Adopted ==
  ASSUME NEW mode, NEW S, NEW h \in Nat, NEW n, NEW lo, NEW hi,
         FitsAs(mode, S, h + 1, n, lo, hi), NEW p \in 1 .. Len(n.children),
         NEW e \in Entry, NEW order \in Orders, NEW res,
         InsertedInto(mode, S, h, n.children[p], LoAt(n, lo, p), HiAt(n, hi, p), e, res)
  PROVE  InsertedInto(mode, S, h + 1, n, lo, hi, e, AdoptBelow(order, n, p, res))
<1> DEFINE m == res.node
           w == res.newNode
           x == res.separatorKey
           q == Patched(n, p, m)
           g == GrownInner(n, p, m, x, w)
           a == LoAt(n, lo, p)
           b == HiAt(n, hi, p)
           out == AdoptBelow(order, n, p, res)
<1>1. out = CASE x = NoKey -> Whole(q)
              [] x # NoKey /\ Len(g.keys) > order - 1 -> SplitInternal(g)
              [] OTHER -> Whole(g)
  BY DEF AdoptBelow, Patched, GrownInner, MaxInternalKeys
<1>2. /\ x = NoKey => /\ FitsAs(mode, S, h, m, a, b)
                      /\ Grew(Contents[h][n.children[p]], Contents[h][m], e)
      /\ x # NoKey => /\ SplitFits(mode, S, h, n, lo, hi, p, m, x, w)
                      /\ Grew(Contents[h][n.children[p]],
                              Contents[h][m] \o Contents[h][w], e)
  BY DEF InsertedInto, SplitFits
<1> HIDE DEF m, w, x, q, g, out
<1>3. CASE x = NoKey
  <2>1. FitsAs(mode, S, h + 1, Patched(n, p, m), lo, hi)
    BY <1>2, <1>3, PatchedFits
  <2>2. ContentsPatched(h, n, p, Contents[h][m], Contents[h + 1][Patched(n, p, m)])
    BY <1>2, <1>3, PatchedHolds
  <2>3. Grew(Contents[h + 1][n], Contents[h + 1][Patched(n, p, m)], e)
    BY <1>2, <1>3, <2>2, PatchedGrew
  <2>4. InsertedInto(mode, S, h + 1, n, lo, hi, e, Whole(Patched(n, p, m)))
    BY <2>1, <2>3, GivenBack
  <2>5. out = Whole(Patched(n, p, m))
    BY <1>1, <1>3 DEF q
  <2> QED
    BY <2>4, <2>5 DEF out
<1>4. CASE x # NoKey
  <2>1. FitsAs(mode, S, h + 1, g, lo, hi)
    BY <1>2, <1>4, GrownFits DEF g
  <2>2. Grew(Contents[h + 1][n], Contents[h + 1][g], e)
    <3> DEFINE c == Contents[h][m] \o Contents[h][w]
               d == Contents[h + 1][g]
    <3>1. ContentsPatched(h, n, p, Contents[h][m] \o Contents[h][w],
                          Contents[h + 1][GrownInner(n, p, m, x, w)])
      BY <1>2, <1>4, GrownHolds
    <3>2. ContentsPatched(h, n, p, c, d)
      BY <3>1 DEF g
    <3>3. Grew(Contents[h][n.children[p]], c, e)
      BY <1>2, <1>4
    <3> HIDE DEF c, d
    <3>4. Grew(Contents[h + 1][n], d, e)
      BY <3>2, <3>3, PatchedGrew
    <3> QED
      BY <3>4 DEF d
  <2>3. CASE Len(g.keys) > order - 1
    <3>1. Len(g.keys) \in Nat
      BY <2>1, InnerFields, LenProperties
    <3>2. Len(g.keys) > 1
      BY <2>3, <3>1 DEF Orders
    <3>3. SplitsInto(mode, S, h + 1, g, lo, hi, SplitInternal(g))
      BY <2>1, <3>2, InnerSplit
    <3>4. out = SplitInternal(g)
      BY <1>1, <1>4, <2>3
    <3>5. InsertedInto(mode, S, h + 1, n, lo, hi, e, SplitInternal(g))
      BY <2>2, <3>3, GivenBack
    <3> QED
      BY <3>4, <3>5 DEF out
  <2>4. CASE ~ (Len(g.keys) > order - 1)
    <3>1. out = Whole(g)
      BY <1>1, <1>4, <2>4
    <3>2. InsertedInto(mode, S, h + 1, n, lo, hi, e, Whole(g))
      BY <2>1, <2>2, GivenBack
    <3> QED
      BY <3>1, <3>2 DEF out
  <2> QED
    BY <2>3, <2>4
<1> QED
  BY <1>3, <1>4

\* The bounds of the child an insert descends into admit the key again.
LEMMA MayInsertBelow ==
  ASSUME NEW mode, NEW S, NEW h \in Nat, NEW n, NEW lo, NEW hi,
         FitsAs(mode, S, h + 1, n, lo, hi), NEW k \in Keys,
         MayInsert(mode, S, k, lo, hi), NEW p, IsInsertPos(p, n.keys, k)
  PROVE  /\ HasChild(mode, S, h, n, lo, hi, p)
         /\ MayInsert(mode, S, k, LoAt(n, lo, p), HiAt(n, hi, p))
<1>1. /\ Above(k, lo) /\ AtMost(k, hi)
      /\ mode = "below" => k \notin S /\ Under(k, hi)
  BY DEF MayInsert
<1>2. /\ HasChild(mode, S, h, n, lo, hi, p)
      /\ Above(k, LoAt(n, lo, p)) /\ AtMost(k, HiAt(n, hi, p))
  BY <1>1, InsertChild
<1>3. /\ n.keys \in Seq(Keys) /\ InnerFits(S, n, lo, hi) /\ lo \in Bound /\ hi \in Bound
  BY InnerFields
<1>4. /\ Len(n.keys) \in Nat
      /\ \A i \in 1 .. Len(n.keys) : n.keys[i] \in Int /\ n.keys[i] \in S
  BY <1>3, InnerKeys
<1>5. mode = "below" => Under(k, HiAt(n, hi, p))
  <2>1. CASE p <= Len(n.keys)
    <3> DEFINE a == n.keys[p]
    <3>1. p \in 1 .. Len(n.keys) /\ k <= a
      BY <1>4, <2>1 DEF IsInsertPos
    <3>2. a \in Int /\ a \in S /\ k \in Int
      BY <1>4, <3>1, KeysAssumption
    <3>3. HiAt(n, hi, p) = a
      BY <2>1 DEF HiAt
    <3> HIDE DEF a
    <3>4. mode = "below" => k < a
      BY <1>1, <3>1, <3>2
    <3> QED
      BY <3>3, <3>4 DEF Under
  <2>2. CASE ~ (p <= Len(n.keys))
    BY <1>1, <2>2 DEF HiAt
  <2> QED
    BY <2>1, <2>2
<1> QED
  BY <1>1, <1>2, <1>5 DEF MayInsert

\* An insert below a node of height h gives back what it should.
InsertsAt(mode, S, order, k, r, h) ==
  \A n, lo, hi : (FitsAs(mode, S, h, n, lo, hi) /\ MayInsert(mode, S, k, lo, hi)) =>
    InsertedInto(mode, S \cup {k}, h, n, lo, hi, [key |-> k, row |-> r],
                 InsertRecursive(order, k, r)[h][n])

\* _insertRecursive is sound at every height.
LEMMA InsertSound ==
  ASSUME NEW mode, NEW S, NEW order \in Orders, NEW k \in Keys, NEW r \in Rows
  PROVE  \A h \in Nat : InsertsAt(mode, S, order, k, r, h)
<1> DEFINE T == {h \in Nat : InsertsAt(mode, S, order, k, r, h)}
           e == [key |-> k, row |-> r]
           Q == S \cup {k}
           f == InsertRecursive(order, k, r)
<1>0. e \in Entry /\ S \subseteq Q
  BY DEF Entry
<1>1. 0 \in T
  <2>1. ASSUME NEW n, NEW lo, NEW hi, FitsAs(mode, S, 0, n, lo, hi),
               MayInsert(mode, S, k, lo, hi)
        PROVE  InsertedInto(mode, Q, 0, n, lo, hi, e, f[0][n])
    <3>1. n \in Nodes[0]
      BY <2>1, LeafFields
    <3>2. f[0][n] = LeafInsert(order, n, FindInsertPos(n.keys, k), k, r)
      BY <3>1, 0 \in Nat, InsertAtHeight
    <3>3. InsertedInto(mode, Q, 0, n, lo, hi, e,
                       LeafInsert(order, n, FindInsertPos(n.keys, k), k, r))
      BY <2>1, LeafInserted
    <3> QED
      BY <3>2, <3>3
  <2>2. InsertsAt(mode, S, order, k, r, 0)
    BY <2>1 DEF InsertsAt
  <2> QED
    BY <2>2
<1>2. ASSUME NEW h \in Nat, h \in T
      PROVE  h + 1 \in T
  <2>1. InsertsAt(mode, S, order, k, r, h)
    BY <1>2
  <2> HIDE DEF T
  <2>2. ASSUME NEW n, NEW lo, NEW hi, FitsAs(mode, S, h + 1, n, lo, hi),
               MayInsert(mode, S, k, lo, hi)
        PROVE  InsertedInto(mode, Q, h + 1, n, lo, hi, e, f[h + 1][n])
    <3> DEFINE p == FindInsertPos(n.keys, k)
               c == n.children[p]
               a == LoAt(n, lo, p)
               b == HiAt(n, hi, p)
               res == f[h][c]
    <3>1. n \in Nodes[h + 1] /\ n.keys \in Seq(Keys)
      BY <2>2, InnerFields
    <3>2. f[h + 1][n] = AdoptBelow(order, n, p, res)
      BY <3>1, InsertAtHeight
    <3>3. IsInsertPos(p, n.keys, k)
      BY <3>1, FindInsertPosFirst
    <3> HIDE DEF p
    <3>4. HasChild(mode, S, h, n, lo, hi, p) /\ MayInsert(mode, S, k, a, b)
      BY <2>2, <3>3, MayInsertBelow
    <3>5. p \in 1 .. Len(n.children) /\ FitsAs(mode, S, h, c, a, b)
      BY <3>4 DEF HasChild
    <3>6. InsertedInto(mode, Q, h, c, a, b, e, res)
      BY <2>1, <3>4, <3>5 DEF InsertsAt
    <3>7. FitsAs(mode, Q, h + 1, n, lo, hi)
      <4>1. \A i \in Nat : \A j, u, v : FitsAs(mode, S, i, j, u, v) => FitsAs(mode, Q, i, j, u, v)
        BY <1>0, FitsGrows
      <4>2. h + 1 \in Nat
        OBVIOUS
      <4> HIDE DEF Q
      <4> QED
        BY <2>2, <4>1, <4>2
    <3> HIDE DEF res, e, Q, f
    <3>8. InsertedInto(mode, Q, h + 1, n, lo, hi, e, AdoptBelow(order, n, p, res))
      BY <1>0, <3>5, <3>6, <3>7, Adopted
    <3> QED
      BY <3>2, <3>8
  <2>3. InsertsAt(mode, S, order, k, r, h + 1)
    BY <2>2 DEF InsertsAt
  <2> QED
    BY <2>3 DEF T
<1> HIDE DEF T
<1>3. \A h \in Nat : h \in T
  BY <1>1, <1>2, NatInduct
<1> QED
  BY <1>3 DEF T

-----------------------------------------------------------------------------
\* Whole trees.

\* A root above the two halves of a split one.
NewRoot(x, m, w) == Internal(<< x >>, << m, w >>)

\* The new root fits when both halves do.
LEMMA NewRootFits ==
  ASSUME NEW mode, NEW S, NEW h \in Nat, NEW x \in Keys, x \in S, NEW m, NEW w,
         FitsAs(mode, S, h, m, NoKey, x), FitsAs(mode, S, h, w, x, NoKey)
  PROVE  FitsAs(mode, S, h + 1, NewRoot(x, m, w), NoKey, NoKey)
<1> DEFINE keys == << x >>
           children == << m, w >>
           n == Internal(keys, children)
           C == Nodes[h]
<1>1. m \in C /\ w \in C /\ x \in Int /\ NoKey \in Bound
  BY FitsIsNode, KeysAssumption DEF Bound
<1>2. keys \in Seq(Keys) /\ Len(keys) = 1 /\ keys[1] = x
  OBVIOUS
<1>3. Len(children) = 2 /\ children[1] = m /\ children[2] = w
  OBVIOUS
<1>4. children \in Seq(C)
  <2> HIDE DEF C
  <2> QED
    BY <1>1
<1>5. n.keys = keys /\ n.children = children
  BY DEF Internal
<1> HIDE DEF n, keys, children
<1>6. KeysFit(keys, S, NoKey, NoKey)
  BY <1>1, <1>2 DEF KeysFit, Sorted, AtLeast, AtMost
<1>7. InnerFits(S, n, NoKey, NoKey)
  <2>1. Len(n.children) = Len(n.keys) + 1
    <3> DEFINE a == Len(n.children)
               b == Len(n.keys)
    <3>1. a = 2 /\ b = 1
      BY <1>2, <1>3, <1>5
    <3> HIDE DEF a, b
    <3>2. a = b + 1
      BY <3>1
    <3> QED
      BY <3>2 DEF a, b
  <2>2. KeysFit(n.keys, S, NoKey, NoKey)
    BY <1>5, <1>6
  <2> QED
    BY <2>1, <2>2 DEF InnerFits
<1>8. /\ LoAt(n, NoKey, 1) = NoKey /\ HiAt(n, NoKey, 1) = x
      /\ LoAt(n, NoKey, 2) = x /\ HiAt(n, NoKey, 2) = NoKey
  <2> DEFINE l == Len(n.keys)
  <2>1. l = 1 /\ n.keys[1] = x
    BY <1>2, <1>5
  <2>2. /\ LoAt(n, NoKey, 1) = NoKey
        /\ LoAt(n, NoKey, 2) = n.keys[2 - 1]
        /\ HiAt(n, NoKey, 1) = IF 1 <= l THEN n.keys[1] ELSE NoKey
        /\ HiAt(n, NoKey, 2) = IF 2 <= l THEN n.keys[2] ELSE NoKey
    BY DEF LoAt, HiAt
  <2> HIDE DEF l
  <2>3. 2 - 1 = 1 /\ 1 <= l /\ ~ (2 <= l)
    BY <2>1
  <2> QED
    BY <2>1, <2>2, <2>3
<1>9. ChildrenFit(mode, S, h, n, NoKey, NoKey)
  <2>1. \A i \in 1 .. 2 : i = 1 \/ i = 2
    OBVIOUS
  <2> QED
    BY <1>3, <1>5, <1>8, <2>1 DEF ChildrenFit
<1>10. FitsAs(mode, S, h + 1, Internal(keys, children), NoKey, NoKey)
  BY <1>1, <1>2, <1>4, <1>7, <1>9, InnerMade DEF n, C
<1> QED
  BY <1>10 DEF NewRoot, keys, children

\* What is below it.
RootHolds(h, x, m, w) ==
  Contents[h + 1][NewRoot(x, m, w)] = Contents[h][m] \o Contents[h][w]

\* The new root holds what the two halves hold.
LEMMA NewRootHolds ==
  ASSUME NEW mode, NEW S, NEW h \in Nat, NEW x \in Keys, x \in S, NEW m, NEW w,
         FitsAs(mode, S, h, m, NoKey, x), FitsAs(mode, S, h, w, x, NoKey)
  PROVE  RootHolds(h, x, m, w)
<1> DEFINE g == NewRoot(x, m, w)
           s == ChildContents(h, g)
           a == Contents[h][m]
           b == Contents[h][w]
<1>1. FitsAs(mode, S, h + 1, g, NoKey, NoKey)
  BY NewRootFits
<1>2. Gathers(mode, S, h, g, NoKey, NoKey, s)
  BY <1>1, InnerContents
<1>3. g.children = << m, w >>
  BY DEF NewRoot, Internal
<1>4. Len(g.children) = 2 /\ g.children[1] = m /\ g.children[2] = w
  BY <1>3
<1> HIDE DEF g, s
<1>5. /\ Contents[h + 1][g] = FlattenSeq(s) /\ s \in Seq(Seq(Entry)) /\ Len(s) = 2
      /\ \A i \in 1 .. 2 : s[i] = Contents[h][g.children[i]]
  BY <1>2, <1>4 DEF Gathers
<1>6. s[1] = a /\ s[2] = b
  BY <1>4, <1>5
<1>7. a \in Seq(Entry) /\ b \in Seq(Entry)
  BY HoldsContents DEF Holds
<1> HIDE DEF a, b
<1>8. s = << a, b >>
  <2> DEFINE t == << a, b >>
             Q == Seq(Entry)
  <2>1. Len(t) = 2 /\ t[1] = a /\ t[2] = b
    OBVIOUS
  <2>2. t \in Seq(Q) /\ s \in Seq(Q)
    <3> HIDE DEF t
    <3>1. s \in Seq(Q)
      BY <1>5
    <3> HIDE DEF Q
    <3>2. t \in Seq(Q)
      BY <1>7 DEF t, Q
    <3> QED
      BY <3>1, <3>2
  <2> HIDE DEF t, Q
  <2>3. \A i \in 1 .. 2 : s[i] = t[i]
    <3>1. \A i \in 1 .. 2 : i = 1 \/ i = 2
      OBVIOUS
    <3> QED
      BY <1>6, <2>1, <3>1
  <2>4. s = t
    BY <1>5, <2>1, <2>2, <2>3, SeqEqual
  <2> QED
    BY <2>4 DEF t
<1>9. FlattenSeq(s) = a \o b
  BY <1>7, <1>8, FlattenTwo
<1> QED
  BY <1>5, <1>9 DEF RootHolds, g, a, b

\* The root has no bounds to respect.
LEMMA OpenBounds ==
  ASSUME NEW mode, NEW S, NEW k \in Keys
  PROVE  /\ AtLeast(k, NoKey) /\ Under(k, NoKey) /\ Above(k, NoKey) /\ AtMost(k, NoKey)
         /\ (mode = "below" => k \notin S) => MayInsert(mode, S, k, NoKey, NoKey)
  BY DEF AtLeast, Under, Above, AtMost, MayInsert

\* What an insert makes of a tree.
TreeInserted(mode, S, t, k, r, u) ==
  /\ TreeFits(mode, S \cup {k}, u)
  /\ u.order = t.order /\ u.keyCount = t.keyCount + 1
  /\ Grew(ContentsOf(t), ContentsOf(u), [key |-> k, row |-> r])

\* insertEncoded is sound: the tree goes on to fit and grows by the entry.
LEMMA InsertEncodedSound ==
  ASSUME NEW mode, NEW S, NEW t, TreeFits(mode, S, t), t.order \in Orders,
         NEW k \in Keys, NEW r \in Rows, mode = "below" => k \notin S
  PROVE  TreeInserted(mode, S, t, k, r, InsertEncoded(t, k, r))
<1> DEFINE h == t.height
           n == t.root
           e == [key |-> k, row |-> r]
           Q == S \cup {k}
           res == InsertRecursive(t.order, k, r)[h][n]
           m == res.node
           w == res.newNode
           x == res.separatorKey
           u == InsertEncoded(t, k, r)
<1>1. h \in Nat /\ FitsAs(mode, S, h, n, NoKey, NoKey)
  BY DEF TreeFits
<1>2. MayInsert(mode, S, k, NoKey, NoKey)
  BY OpenBounds
<1>3. InsertedInto(mode, Q, h, n, NoKey, NoKey, e, res)
  BY <1>1, <1>2, InsertSound DEF InsertsAt
<1>4. u = IF x = NoKey THEN Tree(t.order, m, h, t.keyCount + 1)
          ELSE Tree(t.order, NewRoot(x, m, w), h + 1, t.keyCount + 1)
  BY DEF InsertEncoded, NewRoot
<1> HIDE DEF res, h, n, e, Q, u
<1>5. /\ x = NoKey => /\ FitsAs(mode, Q, h, m, NoKey, NoKey)
                      /\ Grew(Contents[h][n], Contents[h][m], e)
      /\ x # NoKey => /\ x \in Keys /\ x \in Q
                      /\ FitsAs(mode, Q, h, m, NoKey, x)
                      /\ FitsAs(mode, Q, h, w, x, NoKey)
                      /\ Grew(Contents[h][n], Contents[h][m] \o Contents[h][w], e)
  BY <1>3 DEF InsertedInto
<1> HIDE DEF m, w, x
<1>6. ContentsOf(t) = Contents[h][n]
  BY DEF ContentsOf, h, n
<1>7. CASE x = NoKey
  <2>1. u = Tree(t.order, m, h, t.keyCount + 1)
    BY <1>4, <1>7
  <2>2. u.order = t.order /\ u.keyCount = t.keyCount + 1 /\ u.height = h /\ u.root = m
    BY <2>1 DEF Tree
  <2>3. ContentsOf(u) = Contents[h][m]
    BY <2>2 DEF ContentsOf
  <2> QED
    BY <1>1, <1>5, <1>6, <1>7, <2>2, <2>3 DEF TreeInserted, TreeFits, u, e, Q
<1>8. CASE x # NoKey
  <2> DEFINE g == NewRoot(x, m, w)
             l == h + 1
  <2>1. u = Tree(t.order, g, l, t.keyCount + 1)
    BY <1>4, <1>8
  <2>2. u.order = t.order /\ u.keyCount = t.keyCount + 1 /\ u.height = l /\ u.root = g
    BY <2>1 DEF Tree
  <2>3. ContentsOf(u) = Contents[l][g]
    BY <2>2 DEF ContentsOf
  <2>4. FitsAs(mode, Q, l, g, NoKey, NoKey)
    BY <1>1, <1>5, <1>8, NewRootFits
  <2>5. RootHolds(h, x, m, w)
    BY <1>1, <1>5, <1>8, NewRootHolds
  <2>6. l \in Nat
    BY <1>1
  <2> HIDE DEF l, g
  <2>7. Grew(ContentsOf(t), ContentsOf(u), e)
    BY <1>5, <1>6, <1>8, <2>3, <2>5 DEF RootHolds, l, g
  <2> QED
    BY <2>2, <2>4, <2>6, <2>7 DEF TreeInserted, TreeFits, u, e, Q
<1> QED
  BY <1>7, <1>8

\* What a removal makes of a tree.
TreeRemoved(mode, S, t, k, u) ==
  /\ TreeFits(mode, S, u) /\ u.order = t.order
  /\ \/ u.keyCount = t.keyCount - 1 /\ Lost(ContentsOf(t), ContentsOf(u), k)
     \/ /\ u.keyCount = t.keyCount /\ ContentsOf(u) = ContentsOf(t)
        /\ mode = "below" => ~ HasKey(ContentsOf(t), k)

\* removeEncoded is sound: the tree goes on to fit and loses an entry for the key,
\* or, without one, nothing.
LEMMA RemoveEncodedSound ==
  ASSUME NEW mode \in {"below", "any"}, NEW S, NEW t, TreeFits(mode, S, t), NEW k \in Keys
  PROVE  TreeRemoved(mode, S, t, k, RemoveEncoded(t, k))
<1> DEFINE h == t.height
           n == t.root
           res == RemoveRecursive(k)[h][n]
           u == RemoveEncoded(t, k)
<1>1. h \in Nat /\ FitsAs(mode, S, h, n, NoKey, NoKey)
  BY DEF TreeFits
<1>2. AtLeast(k, NoKey) /\ Under(k, NoKey)
  BY OpenBounds
<1>3. RemovedFrom(mode, S, h, n, NoKey, NoKey, k, res)
  BY <1>1, <1>2, RemoveSound DEF RemovesAt
<1>4. u = Tree(t.order, res.node, h,
               IF res.removed THEN t.keyCount - 1 ELSE t.keyCount)
  BY DEF RemoveEncoded
<1> HIDE DEF res, u
<1>5. /\ u.order = t.order /\ u.root = res.node /\ u.height = h
      /\ u.keyCount = IF res.removed THEN t.keyCount - 1 ELSE t.keyCount
  BY <1>4 DEF Tree
<1>6. ContentsOf(t) = Contents[h][n] /\ ContentsOf(u) = Contents[h][res.node]
  BY <1>5 DEF ContentsOf
<1>7. /\ res.removed \in BOOLEAN
      /\ FitsAs(mode, S, h, res.node, NoKey, NoKey)
      /\ res.removed => Lost(Contents[h][n], Contents[h][res.node], k)
      /\ ~ res.removed => /\ Contents[h][res.node] = Contents[h][n]
                          /\ mode = "below" => ~ HasKey(Contents[h][n], k)
  BY <1>3 DEF RemovedFrom
<1> HIDE DEF h, n
<1> QED
  BY <1>1, <1>5, <1>6, <1>7 DEF TreeRemoved, TreeFits, u

-----------------------------------------------------------------------------
\* The entries as a set.

\* The entries of a sequence, as a set.
LEMMA RangeOf ==
  ASSUME NEW c \in Seq(Entry)
  PROVE  /\ \A x : x \in Range(c) <=> \E i \in 1 .. Len(c) : x = c[i]
         /\ Range(c) \subseteq Entry
<1>1. DOMAIN c = 1 .. Len(c) /\ \A i \in 1 .. Len(c) : c[i] \in Entry
  BY LenProperties, ElementOfSeq
<1>2. Range(c) = {c[i] : i \in 1 .. Len(c)}
  BY <1>1 DEF Range
<1> QED
  BY <1>1, <1>2

\* Where the elements of a grown sequence were, and those of the old one are.
IndexBefore(i, p) == IF i < p THEN i ELSE i - 1
IndexAfter(i, p) == IF i < p THEN i ELSE i + 1

\* d is c with e at position p, element by element.
Placed(c, d, p, e) ==
  /\ p \in 1 .. Len(d) /\ d[p] = e
  /\ \A i \in 1 .. Len(d) : i # p => IndexBefore(i, p) \in 1 .. Len(c) /\ d[i] = c[IndexBefore(i, p)]
  /\ \A i \in 1 .. Len(c) : /\ IndexAfter(i, p) \in 1 .. Len(d) /\ IndexAfter(i, p) # p
                            /\ c[i] = d[IndexAfter(i, p)]
  /\ \A i, j \in 1 .. Len(d) : (i # p /\ j # p /\ IndexBefore(i, p) = IndexBefore(j, p)) => i = j
  /\ \A i, j \in 1 .. Len(c) : IndexAfter(i, p) = IndexAfter(j, p) => i = j

\* A sequence that has grown has e at some position.
LEMMA GrewPlaces ==
  ASSUME NEW c, NEW d, NEW e \in Entry, Grew(c, d, e)
  PROVE  \E p : Placed(c, d, p, e)
<1>1. c \in Seq(Entry) /\ d \in Seq(Entry) /\ Len(d) = Len(c) + 1
  BY GrewAt
<1>2. PICK p : Inserts(d, c, p, e)
  BY GrewAt
<1> DEFINE L == Len(c)
<1>3. L \in Nat /\ Len(d) = L + 1
  BY <1>1, LenProperties
<1>4. /\ p \in 1 .. L + 1 /\ d[p] = e
      /\ \A i \in 1 .. p - 1 : d[i] = c[i]
      /\ \A i \in p + 1 .. L + 1 : d[i] = c[i - 1]
  BY <1>2 DEF Inserts
<1> HIDE DEF L
<1>5. ASSUME NEW i \in 1 .. L + 1, i # p
      PROVE  IndexBefore(i, p) \in 1 .. L /\ d[i] = c[IndexBefore(i, p)]
  <2>1. CASE i < p
    BY <1>3, <1>4, <2>1 DEF IndexBefore
  <2>2. CASE ~ (i < p)
    <3>1. i \in p + 1 .. L + 1 /\ i - 1 \in 1 .. L
      BY <1>3, <1>4, <1>5, <2>2
    <3> QED
      BY <1>4, <2>2, <3>1 DEF IndexBefore
  <2> QED
    BY <2>1, <2>2
<1>6. ASSUME NEW i \in 1 .. L
      PROVE  /\ IndexAfter(i, p) \in 1 .. L + 1 /\ IndexAfter(i, p) # p
             /\ c[i] = d[IndexAfter(i, p)]
  <2>1. CASE i < p
    BY <1>3, <1>4, <2>1 DEF IndexAfter
  <2>2. CASE ~ (i < p)
    <3> DEFINE j == i + 1
    <3>1. j \in p + 1 .. L + 1 /\ j - 1 = i /\ j # p
      BY <1>3, <1>4, <2>2
    <3>2. j \in 1 .. L + 1
      BY <1>3
    <3>3. IndexAfter(i, p) = j
      BY <2>2 DEF IndexAfter
    <3> HIDE DEF j
    <3>4. d[j] = c[i]
      BY <1>4, <3>1
    <3> QED
      BY <3>1, <3>2, <3>3, <3>4
  <2> QED
    BY <2>1, <2>2
<1>7. \A i, j \in 1 .. L + 1 : (i # p /\ j # p /\ IndexBefore(i, p) = IndexBefore(j, p)) => i = j
  BY <1>3, <1>4 DEF IndexBefore
<1>8. \A i, j \in 1 .. L : IndexAfter(i, p) = IndexAfter(j, p) => i = j
  BY <1>3, <1>4 DEF IndexAfter
<1>9. Placed(c, d, p, e)
  BY <1>3, <1>4, <1>5, <1>6, <1>7, <1>8 DEF Placed, L
<1> QED
  BY <1>9

\* The set of entries grows by e.
LEMMA GrewRange ==
  ASSUME NEW c, NEW d, NEW e \in Entry, Grew(c, d, e)
  PROVE  /\ c \in Seq(Entry) /\ d \in Seq(Entry) /\ Len(d) = Len(c) + 1
         /\ Range(d) = Range(c) \cup {e}
<1>1. c \in Seq(Entry) /\ d \in Seq(Entry) /\ Len(d) = Len(c) + 1
  BY GrewAt
<1>2. PICK p : Placed(c, d, p, e)
  BY GrewPlaces
<1>3. \A x : x \in Range(c) <=> \E i \in 1 .. Len(c) : x = c[i]
  BY <1>1, RangeOf
<1>4. \A x : x \in Range(d) <=> \E i \in 1 .. Len(d) : x = d[i]
  BY <1>1, RangeOf
<1>5. \A x \in Range(d) : x \in Range(c) \cup {e}
  BY <1>2, <1>3, <1>4 DEF Placed
<1>6. \A x \in Range(c) : x \in Range(d)
  BY <1>2, <1>3, <1>4 DEF Placed
<1>7. e \in Range(d)
  BY <1>2, <1>4 DEF Placed
<1> QED
  BY <1>1, <1>5, <1>6, <1>7

\* Keys stay distinct when one that is not there is put in.
LEMMA GrewDistinct ==
  ASSUME NEW c, NEW d, NEW e \in Entry, Grew(c, d, e), Distinct(c), ~ HasKey(c, e.key)
  PROVE  Distinct(d)
<1>1. PICK p : Placed(c, d, p, e)
  BY GrewPlaces
<1>2. SUFFICES ASSUME NEW i \in 1 .. Len(d), NEW j \in 1 .. Len(d), d[i].key = d[j].key
               PROVE  i = j
  BY DEF Distinct
<1>3. ASSUME NEW l \in 1 .. Len(d), l # p
      PROVE  d[l].key # e.key
  BY <1>1, <1>3 DEF Placed, HasKey
<1>4. CASE i = p \/ j = p
  BY <1>1, <1>2, <1>3, <1>4 DEF Placed
<1>5. CASE i # p /\ j # p
  <2> DEFINE u == IndexBefore(i, p)
             v == IndexBefore(j, p)
  <2>1. /\ u \in 1 .. Len(c) /\ d[i] = c[u] /\ v \in 1 .. Len(c) /\ d[j] = c[v]
        /\ u = v => i = j
    BY <1>1, <1>5 DEF Placed
  <2> HIDE DEF u, v
  <2>2. u = v
    BY <1>2, <2>1 DEF Distinct
  <2> QED
    BY <2>1, <2>2
<1> QED
  BY <1>4, <1>5

\* Keys stay distinct when an entry goes, and no other entry has its key.
LEMMA LostDistinct ==
  ASSUME NEW c, NEW d, NEW e \in Entry, Grew(d, c, e), Distinct(c)
  PROVE  Distinct(d) /\ Range(d) = {x \in Range(c) : x.key # e.key}
<1>1. PICK p : Placed(d, c, p, e)
  BY GrewPlaces
<1>2. Distinct(d)
  <2>1. SUFFICES ASSUME NEW i \in 1 .. Len(d), NEW j \in 1 .. Len(d), d[i].key = d[j].key
                 PROVE  i = j
    BY DEF Distinct
  <2> DEFINE u == IndexAfter(i, p)
             v == IndexAfter(j, p)
  <2>2. u \in 1 .. Len(c) /\ d[i] = c[u] /\ v \in 1 .. Len(c) /\ d[j] = c[v]
    BY <1>1 DEF Placed
  <2>3. u = v => i = j
    BY <1>1 DEF Placed
  <2> HIDE DEF u, v
  <2>4. u = v
    BY <2>1, <2>2 DEF Distinct
  <2> QED
    BY <2>3, <2>4
<1>3. c \in Seq(Entry) /\ d \in Seq(Entry)
  BY GrewAt
<1>4. \A x : x \in Range(c) <=> \E i \in 1 .. Len(c) : x = c[i]
  BY <1>3, RangeOf
<1>5. \A x : x \in Range(d) <=> \E i \in 1 .. Len(d) : x = d[i]
  BY <1>3, RangeOf
<1>6. ASSUME NEW x \in Range(d)
      PROVE  x \in Range(c) /\ x.key # e.key
  <2>1. PICK i \in 1 .. Len(d) : x = d[i]
    BY <1>5
  <2> DEFINE j == IndexAfter(i, p)
  <2>2. j \in 1 .. Len(c) /\ j # p /\ x = c[j] /\ p \in 1 .. Len(c) /\ c[p] = e
    BY <1>1, <2>1 DEF Placed
  <2> HIDE DEF j
  <2> QED
    BY <1>4, <2>2 DEF Distinct
<1>7. ASSUME NEW x \in Range(c), x.key # e.key
      PROVE  x \in Range(d)
  <2>1. PICK i \in 1 .. Len(c) : x = c[i]
    BY <1>4
  <2>2. i # p
    BY <1>1, <1>7, <2>1 DEF Placed
  <2>3. IndexBefore(i, p) \in 1 .. Len(d) /\ x = d[IndexBefore(i, p)]
    BY <1>1, <2>1, <2>2 DEF Placed
  <2> QED
    BY <1>5, <2>3
<1> QED
  BY <1>2, <1>6, <1>7

-----------------------------------------------------------------------------
\* A whole tree that fits is a tree.
LEMMA TreeIsNode ==
  ASSUME NEW mode, NEW S, NEW t, TreeFits(mode, S, t)
  PROVE  t.height \in Nat /\ t.root \in Nodes[t.height]
<1> DEFINE h == t.height
           n == t.root
<1>1. h \in Nat /\ FitsAs(mode, S, h, n, NoKey, NoKey)
  BY DEF TreeFits
<1> HIDE DEF h, n
<1>2. n \in Nodes[h]
  BY <1>1, FitsIsNode
<1> QED
  BY <1>1, <1>2 DEF h, n

\* An empty tree.
LEMMA EmptyFits ==
  ASSUME NEW order, NEW t, t = EmptyTree(order), NEW mode, NEW S
  PROVE  /\ t.order = order /\ t.height = 0 /\ t.keyCount = 0 /\ t.root \in Nodes[0]
         /\ TreeFits(mode, S, t) /\ Len(ContentsOf(t)) = 0
<1> DEFINE none == << >>
           leaf == Leaf(none, none)
<1>1. none \in Seq(Keys) /\ none \in Seq(Rows) /\ Len(none) = 0
  OBVIOUS
<1>2. leaf.keys = none /\ leaf.records = none
  BY DEF Leaf
<1>3. t.order = order /\ t.height = 0 /\ t.keyCount = 0 /\ t.root = leaf
  BY DEF EmptyTree, Tree
<1> HIDE DEF leaf, none
<1>4. FitsAs(mode, S, 0, leaf, NoKey, NoKey)
  <2>1. LeafFits(mode, S, leaf, NoKey, NoKey)
    BY <1>1, <1>2 DEF LeafFits, KeysFit, Sorted, Strict, AllUnder
  <2> QED
    BY <1>1, <2>1, LeafMade DEF leaf, Bound
<1>5. TreeFits(mode, S, t)
  BY <1>3, <1>4 DEF TreeFits
<1>6. Len(Contents[0][leaf]) = 0
  BY <1>1, <1>2, <1>4, LeafHolds
<1>7. t.root \in Nodes[0]
  BY <1>3, <1>5, TreeIsNode
<1> QED
  BY <1>3, <1>5, <1>6, <1>7 DEF ContentsOf

-----------------------------------------------------------------------------
\* The steps of BPTreeIndex.

\* The caller's data.
LEMMA CallerFields ==
  ASSUME NEW c \in Callers
  PROVE  /\ c.order \in Orders
         /\ c.duplicates \in BOOLEAN /\ c.reinserts \in BOOLEAN /\ c.removes \in BOOLEAN
         /\ \A e \in c.entries : e \in Entry
  BY CallersAssumption

\* The fields of an entry.
LEMMA EntryFields ==
  ASSUME NEW e \in Entry
  PROVE  e.key \in Keys /\ e.row \in Rows /\ e = [key |-> e.key, row |-> e.row]
  BY DEF Entry

\* The contents of a tree that fits, as a sequence and as a set.
LEMMA TreeHolds ==
  ASSUME NEW mode, NEW S, NEW t, TreeFits(mode, S, t)
  PROVE  /\ ContentsOf(t) \in Seq(Entry) /\ OrderedKeys(ContentsOf(t))
         /\ EntriesOf(t) \subseteq Entry
         /\ \A x : x \in EntriesOf(t) <=> \E i \in 1 .. Len(ContentsOf(t)) : x = ContentsOf(t)[i]
<1>1. Holds(mode, S, ContentsOf(t), NoKey, NoKey)
  BY HoldsContents DEF TreeFits, ContentsOf
<1> DEFINE c == ContentsOf(t)
<1>2. c \in Seq(Entry) /\ OrderedKeys(c)
  BY <1>1 DEF Holds
<1> HIDE DEF c
<1>3. /\ \A x : x \in Range(c) <=> \E i \in 1 .. Len(c) : x = c[i]
      /\ Range(c) \subseteq Entry
  BY <1>2, RangeOf
<1> QED
  BY <1>2, <1>3 DEF c, EntriesOf

\* A sequence has the keys of the entries in its set.
LEMMA HasKeyStored ==
  ASSUME NEW c \in Seq(Entry), NEW k
  PROVE  HasKey(c, k) <=> \E x \in Range(c) : x.key = k
<1>1. \A x : x \in Range(c) <=> \E i \in 1 .. Len(c) : x = c[i]
  BY RangeOf
<1> QED
  BY <1>1 DEF HasKey

\* The invariant holds at the start.
LEMMA InitFits ==
  ASSUME Init
  PROVE  IInv
<1>1. /\ caller \in Callers /\ removed = {} /\ tree.order = caller.order
      /\ tree.height = 0 /\ tree.keyCount = 0 /\ TreeFits(Mode, Known, tree)
      /\ Len(ContentsOf(tree)) = 0
  BY EmptyFits DEF Init
<1>2. tree = Tree(tree.order, tree.root, tree.height, tree.keyCount)
  BY DEF Init, EmptyTree, Tree
<1>3. KeyCountExact /\ UniqueInv
  BY <1>1 DEF KeyCountExact, UniqueInv, Distinct
<1> QED
  BY <1>1, <1>2, <1>3 DEF IInv, FitsInv

\* An insert keeps the invariant.
LEMMA InsertFits ==
  ASSUME IInv, NEW e, e \in caller.entries, Insert(e)
  PROVE  IInv' /\ e \in Entry /\ Grew(ContentsOf(tree), ContentsOf(tree'), e)
<1> DEFINE c == ContentsOf(tree)
           d == ContentsOf(tree')
           k == e.key
           r == e.row
           mode == Mode
           S == Known
           Q == Known \cup {e.key}
<1>1. /\ caller \in Callers /\ tree.order = caller.order /\ removed \subseteq Keys
      /\ tree.keyCount = Len(c) /\ TreeFits(mode, S, tree)
      /\ ~ caller.duplicates => Distinct(c)
  BY DEF IInv, KeyCountExact, FitsInv, UniqueInv
<1>2. /\ caller.duplicates \/ k \notin StoredKeys
      /\ caller.reinserts \/ k \notin removed
      /\ tree' = InsertEncoded(tree, k, r) /\ caller' = caller /\ removed' = removed
  BY DEF Insert
<1>3. /\ caller.order \in Orders /\ e \in Entry
      /\ caller.duplicates \in BOOLEAN /\ caller.reinserts \in BOOLEAN /\ caller.removes \in BOOLEAN
  BY <1>1, CallerFields
<1>4. k \in Keys /\ r \in Rows /\ e = [key |-> k, row |-> r]
  BY <1>3, EntryFields
<1>5. mode = "below" => k \notin S
  BY <1>2, <1>3 DEF Mode, Known
<1>6. TreeInserted(mode, S, tree, k, r, tree')
  <2>1. TreeInserted(mode, S, tree, k, r, InsertEncoded(tree, k, r))
    <3> HIDE DEF mode, S, k, r
    <3> QED
      BY <1>1, <1>3, <1>4, <1>5, InsertEncodedSound
  <2> QED
    BY <1>2, <2>1
<1>7. /\ TreeFits(mode, Q, tree') /\ tree'.order = tree.order
      /\ tree'.keyCount = tree.keyCount + 1 /\ Grew(c, d, e)
  BY <1>4, <1>6 DEF TreeInserted
<1> HIDE DEF c, d
<1>8. /\ c \in Seq(Entry) /\ d \in Seq(Entry) /\ Len(d) = Len(c) + 1
      /\ Range(d) = Range(c) \cup {e}
  BY <1>3, <1>7, GrewRange
<1>9. mode' = mode
  BY <1>2 DEF Mode
<1>10. Known' = Q
  <2>1. Stored = Range(c) /\ Stored' = Range(d)
    BY DEF Stored, EntriesOf, c, d
  <2>2. StoredKeys' = StoredKeys \cup {e.key}
    BY <1>8, <2>1 DEF StoredKeys
  <2> QED
    BY <1>2, <2>2 DEF Known
<1>11. FitsInv'
  BY <1>7, <1>9, <1>10 DEF FitsInv
<1>12. KeyCountExact'
  BY <1>1, <1>7, <1>8 DEF KeyCountExact, d
<1>13. UniqueInv'
  <2>1. SUFFICES ASSUME ~ caller.duplicates
                 PROVE  Distinct(d)
    BY <1>2 DEF UniqueInv, d
  <2>2. \A x \in Range(c) : x.key # k
    BY <1>2, <2>1 DEF StoredKeys, Stored, EntriesOf, c
  <2>3. ~ HasKey(c, e.key)
    BY <1>8, <2>2, HasKeyStored
  <2> QED
    BY <1>1, <1>3, <1>7, <2>1, <2>3, GrewDistinct
<1>14. IInv'
  BY <1>1, <1>2, <1>7, <1>11, <1>12, <1>13 DEF IInv
<1> QED
  BY <1>3, <1>7, <1>14 DEF c, d

\* A removal keeps the invariant.
LEMMA RemoveFits ==
  ASSUME IInv, NEW k \in Keys, RemoveKey(k)
  PROVE  /\ IInv'
         /\ \/ ContentsOf(tree') = ContentsOf(tree)
            \/ Lost(ContentsOf(tree), ContentsOf(tree'), k)
<1> DEFINE c == ContentsOf(tree)
           d == ContentsOf(tree')
           mode == Mode
           S == Known
<1>1. /\ caller \in Callers /\ tree.order = caller.order /\ removed \subseteq Keys
      /\ tree.keyCount = Len(c) /\ TreeFits(mode, S, tree)
      /\ ~ caller.duplicates => Distinct(c)
  BY DEF IInv, KeyCountExact, FitsInv, UniqueInv
<1>2. /\ caller.removes /\ tree' = RemoveEncoded(tree, k) /\ caller' = caller
      /\ removed' = IF tree'.keyCount < tree.keyCount THEN removed \cup {k} ELSE removed
  BY DEF RemoveKey
<1>3. mode \in {"below", "any"} /\ mode' = mode
  BY <1>2 DEF Mode
<1>4. TreeRemoved(mode, S, tree, k, tree')
  <2>1. TreeRemoved(mode, S, tree, k, RemoveEncoded(tree, k))
    <3> HIDE DEF mode, S
    <3> QED
      BY <1>1, <1>3, RemoveEncodedSound
  <2> QED
    BY <1>2, <2>1
<1>5. /\ TreeFits(mode, S, tree') /\ tree'.order = tree.order
      /\ \/ tree'.keyCount = tree.keyCount - 1 /\ Lost(c, d, k)
         \/ tree'.keyCount = tree.keyCount /\ d = c
  BY <1>4 DEF TreeRemoved
<1>6. c \in Seq(Entry) /\ Len(c) \in Nat
  <2>1. c \in Seq(Entry)
    BY <1>1, TreeHolds
  <2> QED
    BY <2>1, LenProperties
<1> HIDE DEF c, d
<1>7. Stored = Range(c) /\ Stored' = Range(d)
  BY DEF Stored, EntriesOf, c, d
<1>8. CASE tree'.keyCount = tree.keyCount - 1 /\ Lost(c, d, k)
  <2>1. PICK e \in Entry : e.key = k /\ Grew(d, c, e)
    BY <1>8 DEF Lost
  <2>2. /\ Len(c) = Len(d) + 1 /\ d \in Seq(Entry)
        /\ Range(c) = Range(d) \cup {e}
    BY <2>1, GrewRange
  <2>3. removed' = removed \cup {k}
    BY <1>1, <1>2, <1>6, <1>8
  <2>4. S \subseteq Known'
    <3>1. \A x \in StoredKeys : x = k \/ x \in StoredKeys'
      BY <1>7, <2>1, <2>2 DEF StoredKeys
    <3> QED
      BY <2>3, <3>1 DEF Known
  <2>5. FitsInv'
    <3>1. \A h \in Nat : \A n, lo, hi :
            FitsAs(mode, S, h, n, lo, hi) => FitsAs(mode, Known', h, n, lo, hi)
      BY <2>4, FitsGrows
    <3> QED
      BY <1>3, <1>5, <3>1 DEF FitsInv, TreeFits
  <2>6. KeyCountExact'
    <3>1. Len(d) \in Nat
      BY <2>2, LenProperties
    <3> QED
      BY <1>1, <1>8, <2>2, <3>1 DEF KeyCountExact, d
  <2>7. UniqueInv'
    <3>1. Distinct(c) => Distinct(d)
      BY <2>1, LostDistinct
    <3> QED
      BY <1>1, <1>2, <3>1 DEF UniqueInv, d
  <2>8. IInv'
    BY <1>1, <1>2, <1>5, <2>3, <2>5, <2>6, <2>7 DEF IInv
  <2> QED
    BY <1>8, <2>8 DEF c, d
<1>9. CASE tree'.keyCount = tree.keyCount /\ d = c
  <2>1. removed' = removed
    BY <1>1, <1>2, <1>6, <1>9
  <2>2. Known' = S
    BY <1>7, <1>9, <2>1 DEF Known, StoredKeys
  <2>3. FitsInv'
    BY <1>3, <1>5, <2>2 DEF FitsInv
  <2>4. KeyCountExact' /\ UniqueInv'
    BY <1>1, <1>2, <1>9 DEF KeyCountExact, UniqueInv, c, d
  <2>5. IInv'
    BY <1>1, <1>2, <1>5, <2>1, <2>3, <2>4 DEF IInv
  <2> QED
    BY <1>9, <2>5 DEF c, d
<1> QED
  BY <1>5, <1>8, <1>9

\* A step that changes nothing keeps the invariant.
LEMMA StutterFits ==
  ASSUME IInv, UNCHANGED vars
  PROVE  IInv'
<1>1. caller' = caller /\ tree' = tree /\ removed' = removed
  BY DEF vars
<1>2. /\ KeyCountExact' <=> KeyCountExact
      /\ FitsInv' <=> FitsInv
      /\ UniqueInv' <=> UniqueInv
  BY <1>1 DEF KeyCountExact, FitsInv, UniqueInv, Mode, Known, StoredKeys, Stored
<1> QED
  BY <1>1, <1>2 DEF IInv

\* The invariant holds for every caller, order, set of keys and number of steps:
\* whatever sequence of inserts and removals BPTreeIndex meets, every node of its
\* tree lies between the separators above it.
THEOREM TreesFit == Spec => []IInv
<1>1. Init => IInv
  BY InitFits
<1>2. IInv /\ [Next]_vars => IInv'
  BY InsertFits, RemoveFits, StutterFits DEF Next
<1> QED
  BY <1>1, <1>2, PTL DEF Spec

-----------------------------------------------------------------------------
\* What follows from the invariant.

\* A tree that fits is typed.
LEMMA TreeTypes ==
  ASSUME IInv
  PROVE  TypeOK
<1>1. /\ caller \in Callers /\ tree.order = caller.order /\ removed \subseteq Keys
      /\ TreeFits(Mode, Known, tree) /\ tree.keyCount = Len(ContentsOf(tree))
  BY DEF IInv, FitsInv, KeyCountExact
<1>2. ContentsOf(tree) \in Seq(Entry)
  BY <1>1, TreeHolds
<1>3. tree.keyCount \in Nat
  BY <1>1, <1>2, LenProperties
<1>4. tree.height \in Nat /\ tree.root \in Nodes[tree.height]
  BY <1>1, TreeIsNode
<1> QED
  BY <1>1, <1>3, <1>4 DEF TypeOK

\* TypeOK: the tree keeps its leaves at one depth and its count is a natural number.
THEOREM TypeCorrect == Spec => []TypeOK
  BY TreesFit, TreeTypes, PTL

\* KeyCountExact: getApproxSize counts what the tree holds after any inserts and
\* removals.
THEOREM CountExact == Spec => []KeyCountExact
<1>1. IInv => KeyCountExact
  BY DEF IInv
<1> QED
  BY <1>1, TreesFit, PTL

\* No descent from the root runs off the children of a node.
LEMMA ShapeSound ==
  ASSUME IInv
  PROVE  TreeShapeSound
<1> DEFINE h == tree.height
           n == tree.root
<1>1. h \in Nat /\ FitsAs(Mode, Known, h, n, NoKey, NoKey)
  BY DEF IInv, FitsInv, TreeFits
<1> HIDE DEF h, n
<1>2. ASSUME NEW k \in Keys, NEW inserting \in BOOLEAN
      PROVE  DescentStays(k, inserting)[h][n]
  <2>1. StaysAt(Mode, Known, k, inserting, h)
    BY <1>1, DescentsStay
  <2>2. Admits(inserting, k, NoKey, NoKey)
    BY OpenBounds DEF Admits
  <2> QED
    BY <1>1, <2>1, <2>2 DEF StaysAt
<1> QED
  BY <1>2 DEF TreeShapeSound, h, n

\* TreeShapeSound: no insert, search or removal ever follows a missing child, although
\* _splitInternal leaves nodes with as many keys as children.
THEOREM ShapeStaysSound == Spec => []TreeShapeSound
  BY TreesFit, ShapeSound, PTL

\* A range search with both ends open is the whole walk.
LEMMA WholeRange ==
  ASSUME NEW t, ContentsOf(t) \in Seq(Entry)
  PROVE  RangeSearchEncoded(t, NoKey, NoKey) = ContentsOf(t)
<1> DEFINE c == ContentsOf(t)
           s == [i \in 1 .. Len(c) |->
                   IF InRange(c[i].key, NoKey, NoKey) THEN << c[i] >> ELSE << >>]
<1>1. RangeSearchEncoded(t, NoKey, NoKey) = FlattenSeq(s)
  BY DEF RangeSearchEncoded
<1>2. c \in Seq(Entry)
  OBVIOUS
<1> HIDE DEF c
<1>3. s = [i \in 1 .. Len(c) |-> << c[i] >>]
  <2>1. ASSUME NEW x
        PROVE  InRange(x, NoKey, NoKey)
    BY DEF InRange
  <2>2. \A i \in 1 .. Len(c) : InRange(c[i].key, NoKey, NoKey)
    BY <2>1
  <2> HIDE DEF InRange
  <2> QED
    BY <2>2
<1>4. FlattenSeq([i \in 1 .. Len(c) |-> << c[i] >>]) = c
  BY <1>2, FlattenSingles
<1> QED
  BY <1>1, <1>3, <1>4 DEF c

\* Entries in key order have their keys in order.
LEMMA KeysSorted ==
  ASSUME NEW c \in Seq(Entry), OrderedKeys(c)
  PROVE  IsSortedSeq(KeySeq(c))
<1> DEFINE n == Len(c)
           s == KeySeq(c)
<1>1. n \in Nat /\ \A i \in 1 .. n : c[i].key \in Keys
  <2>1. n \in Nat /\ \A i \in 1 .. n : c[i] \in Entry
    BY LenProperties, ElementOfSeq
  <2> QED
    BY <2>1 DEF Entry
<1>2. s = [i \in 1 .. n |-> s[i]] /\ \A i \in 1 .. n : s[i] = c[i].key /\ s[i] \in Keys
  BY <1>1 DEF KeySeq
<1>3. \A i \in 1 .. n - 1 : c[i].key <= c[i + 1].key
  <2>1. \A i \in 1 .. n - 1 : i \in 1 .. n /\ i + 1 \in 1 .. n /\ i < i + 1
    BY <1>1
  <2> QED
    BY <2>1 DEF OrderedKeys
<1> HIDE DEF n, s
<1>4. Len(s) = n
  BY <1>1, <1>2, IsSequence
<1>5. \A i \in 1 .. n - 1 : i \in 1 .. n /\ i + 1 \in 1 .. n
  BY <1>1
<1>6. IsSortedSeq(s)
  BY <1>2, <1>3, <1>4, <1>5 DEF IsSortedSeq
<1> QED
  BY <1>6 DEF s

\* The walk of the whole tree is in key order.
LEMMA RangeSorted ==
  ASSUME IInv
  PROVE  RangeSearchSorted
<1>1. TreeFits(Mode, Known, tree)
  BY DEF IInv, FitsInv
<1>2. ContentsOf(tree) \in Seq(Entry) /\ OrderedKeys(ContentsOf(tree))
  BY <1>1, TreeHolds
<1> QED
  BY <1>2, WholeRange, KeysSorted DEF RangeSearchSorted

\* RangeSearchSorted: a range search returns its entries in key order, with or
\* without duplicates.
THEOREM RangesStaySorted == Spec => []RangeSearchSorted
  BY TreesFit, RangeSorted, PTL

\* A search of a whole tree.
LEMMA TreeSearched ==
  ASSUME NEW mode \in {"below", "kept"}, NEW S, NEW t, TreeFits(mode, S, t), NEW k \in Keys
  PROVE  /\ Found(SearchEncoded(t, k), ContentsOf(t), k)
         /\ HasKey(ContentsOf(t), k) => SearchEncoded(t, k) # NoRow
<1> DEFINE h == t.height
           n == t.root
<1>1. h \in Nat /\ FitsAs(mode, S, h, n, NoKey, NoKey)
  BY DEF TreeFits
<1>2. SearchEncoded(t, k) = SearchNode(k)[h][n] /\ ContentsOf(t) = Contents[h][n]
  BY DEF SearchEncoded, ContentsOf
<1> HIDE DEF h, n
<1>3. SoundAt(mode, S, k, h) /\ CompleteAt(mode, S, k, h)
  BY <1>1, SearchSound, SearchComplete
<1>4. AtLeast(k, NoKey) /\ Under(k, NoKey)
  BY OpenBounds
<1>5. Found(SearchNode(k)[h][n], Contents[h][n], k)
  BY <1>1, <1>3, <1>4 DEF SoundAt
<1>6. HasKey(Contents[h][n], k) => SearchNode(k)[h][n] # NoRow
  BY <1>1, <1>3, <1>4 DEF CompleteAt, Located
<1> QED
  BY <1>2, <1>5, <1>6

\* No caller removes keys and inserts one that is stored or was removed.
RemovesUnique == \A c \in Callers : c.removes => ~ c.duplicates /\ ~ c.reinserts

\* Search finds what the tree holds.
LEMMA SearchFinds ==
  ASSUME RemovesUnique, IInv
  PROVE  SearchFindsStored
<1> DEFINE c == ContentsOf(tree)
<1>1. caller \in Callers /\ TreeFits(Mode, Known, tree)
  BY DEF IInv, FitsInv
<1>2. Mode \in {"below", "kept"}
  BY <1>1 DEF Mode, RemovesUnique
<1>3. c \in Seq(Entry) /\ EntriesOf(tree) = Range(c)
  BY <1>1, TreeHolds DEF EntriesOf
<1>4. \A k \in Keys : /\ Found(SearchEncoded(tree, k), c, k)
                      /\ HasKey(c, k) => SearchEncoded(tree, k) # NoRow
  BY <1>1, <1>2, TreeSearched
<1> HIDE DEF c
<1>5. \A x : x \in Range(c) <=> \E i \in 1 .. Len(c) : x = c[i]
  BY <1>3, RangeOf
<1>6. ASSUME NEW k \in Keys
      PROVE  IF k \in StoredKeys
             THEN [key |-> k, row |-> SearchEncoded(tree, k)] \in Stored
             ELSE SearchEncoded(tree, k) = NoRow
  <2> DEFINE r == SearchEncoded(tree, k)
  <2>1. Found(r, c, k) /\ (HasKey(c, k) => r # NoRow)
    BY <1>4
  <2>2. k \in StoredKeys <=> HasKey(c, k)
    BY <1>3, HasKeyStored DEF StoredKeys, Stored
  <2> HIDE DEF r
  <2>3. r # NoRow => [key |-> k, row |-> r] \in Stored
    BY <1>3, <1>5, <2>1 DEF Found, Stored
  <2>4. [key |-> k, row |-> r] \in Stored => k \in StoredKeys
    BY DEF StoredKeys
  <2> QED
    BY <2>1, <2>2, <2>3, <2>4 DEF r
<1> QED
  BY <1>6 DEF SearchFindsStored, StoredKeys, Stored

\* SearchFindsStored: searchEncoded finds each stored key and no other, for callers
\* who do not remove keys and insert them again.  (It fails for those who do: see
\* the run bptree_reinsertion.)
THEOREM SearchesFind ==
  ASSUME RemovesUnique
  PROVE  Spec => []SearchFindsStored
<1>1. IInv => SearchFindsStored
  BY SearchFinds
<1> QED
  BY <1>1, TreesFit, PTL

-----------------------------------------------------------------------------
\* The refinement of KeyIndex.

\* The map that KeyIndex keeps.
FlatEntries == IF caller.duplicates THEN {} ELSE Stored

\* An insert is an insert of the map.
LEMMA InsertIsFlat ==
  ASSUME IInv, NEW e, e \in caller.entries, Insert(e)
  PROVE  Flat!Next \/ FlatEntries' = FlatEntries
<1> DEFINE k == e.key
           r == e.row
<1>1. /\ caller.duplicates \/ k \notin StoredKeys
      /\ caller' = caller
  BY DEF Insert
<1>2. e \in Entry /\ Grew(ContentsOf(tree), ContentsOf(tree'), e)
  BY InsertFits
<1>3. k \in Keys /\ r \in Rows /\ e = [key |-> k, row |-> r]
  BY <1>2, EntryFields
<1>4. Stored' = Stored \cup {e}
  BY <1>2, GrewRange DEF Stored, EntriesOf
<1>5. CASE caller.duplicates
  BY <1>1, <1>5 DEF FlatEntries
<1>6. CASE ~ caller.duplicates
  <2>1. FlatEntries = Stored /\ FlatEntries' = Stored'
    BY <1>1, <1>6 DEF FlatEntries
  <2> HIDE DEF k, r
  <2>2. Flat!Insert(k, r)
    BY <1>1, <1>3, <1>4, <1>6, <2>1 DEF Flat!Insert, Flat!KeysOf, StoredKeys, FlatEntries
  <2> QED
    BY <1>3, <2>2 DEF Flat!Next
<1> QED
  BY <1>5, <1>6

\* A removal is a removal from the map, or leaves it alone.
LEMMA RemoveIsFlat ==
  ASSUME IInv, NEW k \in Keys, RemoveKey(k)
  PROVE  Flat!Next \/ FlatEntries' = FlatEntries
<1> DEFINE c == ContentsOf(tree)
           d == ContentsOf(tree')
<1>1. caller' = caller
  BY DEF RemoveKey
<1>2. (d = c) \/ Lost(c, d, k)
  BY RemoveFits
<1>3. Stored = Range(c) /\ Stored' = Range(d) /\ (~ caller.duplicates => Distinct(c))
  BY DEF Stored, EntriesOf, IInv, UniqueInv
<1> HIDE DEF c, d
<1>4. CASE caller.duplicates \/ d = c
  BY <1>1, <1>3, <1>4 DEF FlatEntries
<1>5. CASE ~ caller.duplicates /\ Lost(c, d, k)
  <2>1. FlatEntries = Stored /\ FlatEntries' = Stored'
    BY <1>1, <1>5 DEF FlatEntries
  <2>2. PICK e \in Entry : e.key = k /\ Grew(d, c, e)
    BY <1>5 DEF Lost
  <2>3. Range(d) = {x \in Range(c) : x.key # k}
    BY <1>3, <1>5, <2>2, LostDistinct
  <2>4. e \in Range(c)
    BY <2>2, GrewRange
  <2>5. Flat!Remove(k)
    BY <1>3, <1>5, <2>1, <2>2, <2>3, <2>4 DEF Flat!Remove, Flat!KeysOf, FlatEntries
  <2> QED
    BY <2>5 DEF Flat!Next
<1> QED
  BY <1>2, <1>4, <1>5

\* BPTreeIndex implements the flat map of KeyIndex for every order and every set of
\* keys: no split, and no removal that leaves nodes underfull, is ever seen in the
\* set of entries.
THEOREM Implements == Spec => ImplementsKeyIndex
<1>1. Init => Flat!Init
  <2>1. Init => IInv /\ tree.keyCount = 0
    BY InitFits DEF Init, EmptyTree, Tree
  <2>2. SUFFICES ASSUME Init PROVE Stored = {}
    BY DEF Flat!Init
  <2>3. TreeFits(Mode, Known, tree) /\ Len(ContentsOf(tree)) = 0
    BY <2>1, <2>2 DEF IInv, FitsInv, KeyCountExact
  <2>4. \A x : x \in EntriesOf(tree) <=> \E i \in 1 .. Len(ContentsOf(tree)) : x = ContentsOf(tree)[i]
    BY <2>3, TreeHolds
  <2> QED
    BY <2>3, <2>4 DEF Stored
<1>2. IInv /\ [Next]_vars => [Flat!Next]_FlatEntries
  <2>1. UNCHANGED vars => FlatEntries' = FlatEntries
    BY DEF vars, FlatEntries, Stored
  <2> QED
    BY <2>1, InsertIsFlat, RemoveIsFlat DEF Next
<1>3. IInv /\ [Next]_vars => [Flat!Next]_(IF caller.duplicates THEN {} ELSE Stored)
  BY <1>2 DEF FlatEntries
<1> QED
  BY TreesFit, <1>1, <1>3, PTL DEF Spec, ImplementsKeyIndex, Flat!Spec

-----------------------------------------------------------------------------
\* Entries in the order of their keys, no two with the same one.
Rising(c) ==
  /\ c \in Seq(Entry)
  /\ \A i, j \in 1 .. Len(c) : i < j => c[i].key < c[j].key

\* The elements of rising entries.
LEMMA RisingEntries ==
  ASSUME NEW c, Rising(c)
  PROVE  /\ c \in Seq(Entry) /\ Len(c) \in Nat /\ Range(c) \subseteq Entry
         /\ \A i \in 1 .. Len(c) : c[i] \in Entry /\ c[i].key \in Keys /\ c[i].key \in Int
         /\ \A x : x \in Range(c) <=> \E i \in 1 .. Len(c) : x = c[i]
<1>1. c \in Seq(Entry)
  BY DEF Rising
<1>2. Len(c) \in Nat /\ \A i \in 1 .. Len(c) : c[i] \in Entry
  BY <1>1, LenProperties, ElementOfSeq
<1>3. \A i \in 1 .. Len(c) : c[i].key \in Keys /\ c[i].key \in Int
  BY <1>2, KeysAssumption DEF Entry
<1> QED
  BY <1>1, <1>2, <1>3, RangeOf

\* Rising entries have one place for each key.
LEMMA RisingDistinct ==
  ASSUME NEW c, Rising(c), NEW i \in 1 .. Len(c), NEW j \in 1 .. Len(c)
  PROVE  /\ c[i].key = c[j].key => i = j
         /\ c[i].key < c[j].key => i < j
         /\ i < j => c[i].key < c[j].key
<1>1. /\ Len(c) \in Nat /\ c[i].key \in Int /\ c[j].key \in Int
  BY RisingEntries
<1>2. \A m, l \in 1 .. Len(c) : m < l => c[m].key < c[l].key
  BY DEF Rising
<1> QED
  BY <1>1, <1>2

\* The first m of n rising entries, as a set: there are m.
LEMMA RisingCount ==
  ASSUME NEW c, Rising(c), NEW m \in Nat, m <= Len(c)
  PROVE  LET S == {c[i] : i \in 1 .. m}
         IN  IsFiniteSet(S) /\ Cardinality(S) = m
<1> DEFINE S == {c[i] : i \in 1 .. m}
           f == [i \in 1 .. m |-> c[i]]
<1>1. Len(c) \in Nat /\ \A i \in 1 .. m : i \in 1 .. Len(c)
  BY RisingEntries
<1>2. ASSUME NEW i \in 1 .. m, NEW j \in 1 .. m, f[i] = f[j]
      PROVE  i = j
  BY <1>1, <1>2, RisingDistinct
<1>3. f \in [1 .. m -> S] /\ \A x \in S : \E i \in 1 .. m : f[i] = x
  OBVIOUS
<1> HIDE DEF f, S
<1>4. f \in Bijection(1 .. m, S)
  BY <1>2, <1>3 DEF Bijection, Injection, Surjection, IsInjective
<1>5. ExistsBijection(1 .. m, S)
  BY <1>4 DEF ExistsBijection
<1>6. IsFiniteSet(1 .. m) /\ Cardinality(1 .. m) = m
  <2>1. 1 \in Int /\ m \in Int
    OBVIOUS
  <2> QED
    BY <2>1, FS_Interval
<1> QED
  BY <1>5, <1>6, FS_Bijection DEF S

\* Rising entries are as many as their set has.
LEMMA RisingSize ==
  ASSUME NEW c, Rising(c)
  PROVE  IsFiniteSet(Range(c)) /\ Cardinality(Range(c)) = Len(c)
<1>1. Len(c) \in Nat /\ \A x : x \in Range(c) <=> \E i \in 1 .. Len(c) : x = c[i]
  BY RisingEntries
<1>2. Range(c) = {c[i] : i \in 1 .. Len(c)}
  BY <1>1
<1>3. IsFiniteSet({c[i] : i \in 1 .. Len(c)}) /\ Cardinality({c[i] : i \in 1 .. Len(c)}) = Len(c)
  <2>1. Len(c) <= Len(c)
    BY <1>1
  <2> QED
    BY <1>1, <2>1, RisingCount
<1> QED
  BY <1>2, <1>3

\* In rising entries those with a smaller key come before.
LEMMA RisingBelow ==
  ASSUME NEW c, Rising(c), NEW m \in 1 .. Len(c)
  PROVE  LET S == {x \in Range(c) : x.key < c[m].key}
         IN  IsFiniteSet(S) /\ Cardinality(S) = m - 1
<1> DEFINE S == {x \in Range(c) : x.key < c[m].key}
           Q == {c[i] : i \in 1 .. m - 1}
<1>1. /\ Len(c) \in Nat /\ \A x : x \in Range(c) <=> \E i \in 1 .. Len(c) : x = c[i]
  BY RisingEntries
<1>2. m - 1 \in Nat /\ m - 1 <= Len(c) /\ \A i \in 1 .. m - 1 : i \in 1 .. Len(c) /\ i < m
  BY <1>1
<1>3. ASSUME NEW x \in S
      PROVE  x \in Q
  <2>1. PICK i \in 1 .. Len(c) : x = c[i]
    BY <1>1
  <2>2. i < m
    BY <2>1, RisingDistinct
  <2>3. i \in 1 .. m - 1
    BY <1>1, <2>2
  <2> QED
    BY <2>1, <2>3
<1>4. ASSUME NEW x \in Q
      PROVE  x \in S
  <2>1. PICK i \in 1 .. m - 1 : x = c[i]
    OBVIOUS
  <2>2. c[i].key < c[m].key
    BY <1>2, RisingDistinct
  <2> QED
    BY <1>1, <1>2, <2>1, <2>2
<1>5. S = Q
  BY <1>3, <1>4
<1>6. IsFiniteSet(Q) /\ Cardinality(Q) = m - 1
  BY <1>2, RisingCount
<1> QED
  BY <1>5, <1>6

\* What the filter of a range search takes from one entry.
Taken(e, a, b) == IF InRange(e.key, a, b) THEN << e >> ELSE << >>

\* s has an entry of c or none at each place, d those of c that are in range.
Takes(s, c, a, b) ==
  /\ s \in Seq(Seq(Entry)) /\ Len(s) = Len(c)
  /\ \A p \in 1 .. Len(s) : \A k \in 1 .. Len(s[p]) :
       k = 1 /\ s[p][k] = c[p] /\ InRange(c[p].key, a, b)
  /\ \A p \in 1 .. Len(c) : InRange(c[p].key, a, b) =>
       1 \in 1 .. Len(s[p]) /\ s[p][1] = c[p]

Filters(d, c, a, b) ==
  /\ Rising(d)
  /\ \A x : x \in Range(d) <=> x \in Range(c) /\ InRange(x.key, a, b)

\* One entry, taken or not.
LEMMA TakenOne ==
  ASSUME NEW e \in Entry, NEW a, NEW b
  PROVE  /\ Taken(e, a, b) \in Seq(Entry)
         /\ \A k \in 1 .. Len(Taken(e, a, b)) :
              k = 1 /\ Taken(e, a, b)[k] = e /\ InRange(e.key, a, b)
         /\ InRange(e.key, a, b) =>
              1 \in 1 .. Len(Taken(e, a, b)) /\ Taken(e, a, b)[1] = e
<1>1. CASE InRange(e.key, a, b)
  <2>1. Taken(e, a, b) = << e >>
    BY <1>1 DEF Taken
  <2> HIDE DEF InRange, Entry
  <2> QED
    BY <1>1, <2>1
<1>2. CASE ~ InRange(e.key, a, b)
  <2>1. Taken(e, a, b) = << >>
    BY <1>2 DEF Taken
  <2> HIDE DEF InRange, Entry
  <2> QED
    BY <1>2, <2>1
<1> QED
  BY <1>1, <1>2

\* The parts of a range search have an entry each or none.
LEMMA TakenAt ==
  ASSUME NEW c, Rising(c), NEW a, NEW b, NEW s, s = [i \in 1 .. Len(c) |-> Taken(c[i], a, b)]
  PROVE  Takes(s, c, a, b)
<1> DEFINE Q == Seq(Entry)
           n == Len(c)
<1>1. n \in Nat /\ \A i \in 1 .. n : c[i] \in Entry
  BY RisingEntries
<1>2. \A i \in 1 .. n : s[i] = Taken(c[i], a, b)
  OBVIOUS
<1>3. ASSUME NEW i \in 1 .. n
      PROVE  /\ s[i] \in Q
             /\ \A k \in 1 .. Len(s[i]) :
                  k = 1 /\ s[i][k] = c[i] /\ InRange(c[i].key, a, b)
             /\ InRange(c[i].key, a, b) => 1 \in 1 .. Len(s[i]) /\ s[i][1] = c[i]
  <2>1. c[i] \in Entry /\ s[i] = Taken(c[i], a, b)
    BY <1>1, <1>2
  <2> HIDE DEF InRange
  <2> QED
    BY <2>1, TakenOne
<1>4. s = [i \in 1 .. n |-> s[i]]
  OBVIOUS
<1> HIDE DEF Q
<1>5. s \in Seq(Q) /\ Len(s) = n
  BY <1>1, <1>3, <1>4, IsSequence
<1> QED
  BY <1>3, <1>5 DEF Takes, Q

\* A range search of rising entries gives those in range, rising.
LEMMA FilterRising ==
  ASSUME NEW c, Rising(c), NEW a, NEW b, NEW d,
         d = FlattenSeq([i \in 1 .. Len(c) |-> Taken(c[i], a, b)])
  PROVE  Filters(d, c, a, b)
<1> DEFINE s == [i \in 1 .. Len(c) |-> Taken(c[i], a, b)]
<1>0. Takes(s, c, a, b)
  BY TakenAt
<1>d. d = FlattenSeq(s)
  OBVIOUS
<1> HIDE DEF s
<1>1. /\ s \in Seq(Seq(Entry)) /\ Len(s) = Len(c)
      /\ \A p \in 1 .. Len(s) : \A k \in 1 .. Len(s[p]) :
           k = 1 /\ s[p][k] = c[p] /\ InRange(c[p].key, a, b)
      /\ \A p \in 1 .. Len(c) : InRange(c[p].key, a, b) =>
           1 \in 1 .. Len(s[p]) /\ s[p][1] = c[p]
  BY <1>0 DEF Takes
<1>2. /\ \A m \in 1 .. Len(d) : \E p, k : PartOf(s, m, p, k)
      /\ \A m, l \in 1 .. Len(d) : m < l => PartsOrdered(s, m, l)
      /\ \A p \in 1 .. Len(s) : \A k \in 1 .. Len(s[p]) :
           \E m \in 1 .. Len(d) : PartOf(s, m, p, k)
  BY <1>1, <1>d, FlattenParts
<1>3. d \in Seq(Entry)
  BY <1>1, <1>d, FlattenIsSeq
<1>4. \A m, p, k : PartOf(s, m, p, k) =>
        p \in 1 .. Len(c) /\ k = 1 /\ d[m] = c[p] /\ InRange(c[p].key, a, b)
  BY <1>1, <1>d DEF PartOf
<1>5. ASSUME NEW m \in 1 .. Len(d), NEW l \in 1 .. Len(d), m < l
      PROVE  d[m].key < d[l].key
  <2>1. PICK p, k, q, j : /\ PartOf(s, m, p, k) /\ PartOf(s, l, q, j)
                          /\ p < q \/ (p = q /\ k < j)
    BY <1>2, <1>5 DEF PartsOrdered
  <2>2. /\ p \in 1 .. Len(c) /\ q \in 1 .. Len(c) /\ k = 1 /\ j = 1
        /\ d[m] = c[p] /\ d[l] = c[q]
    BY <1>4, <2>1
  <2>3. p < q
    BY <2>1, <2>2
  <2> QED
    BY <2>2, <2>3, RisingDistinct
<1>6. Rising(d)
  BY <1>3, <1>5 DEF Rising
<1>7. /\ \A x : x \in Range(d) <=> \E i \in 1 .. Len(d) : x = d[i]
      /\ \A x : x \in Range(c) <=> \E i \in 1 .. Len(c) : x = c[i]
  BY <1>6, RisingEntries
<1>8. ASSUME NEW x \in Range(d)
      PROVE  x \in Range(c) /\ InRange(x.key, a, b)
  BY <1>2, <1>4, <1>7
<1>9. ASSUME NEW x \in Range(c), InRange(x.key, a, b)
      PROVE  x \in Range(d)
  <2>1. PICK p \in 1 .. Len(c) : x = c[p]
    BY <1>7
  <2>2. p \in 1 .. Len(s) /\ 1 \in 1 .. Len(s[p])
    BY <1>1, <1>9, <2>1
  <2>3. PICK m \in 1 .. Len(d) : PartOf(s, m, p, 1)
    BY <1>2, <2>2
  <2>4. d[m] = c[p]
    BY <1>4, <2>3
  <2> QED
    BY <1>7, <2>1, <2>4
<1> QED
  BY <1>6, <1>8, <1>9 DEF Filters

-----------------------------------------------------------------------------
\* Trees with unique keys.

\* A tree whose keys are unique and whose separators are in S.
UniqueTree(S, t) ==
  /\ TreeFits("below", S, t) /\ Distinct(ContentsOf(t))
  /\ t = Tree(t.order, t.root, t.height, t.keyCount)
  /\ t.order \in Orders /\ t.keyCount = Len(ContentsOf(t))

\* The trees of one order.
Trees(order) ==
  UNION {[order : {order}, root : Nodes[h], height : {h}, keyCount : Nat] : h \in Nat}

\* The contents of such a tree.
LEMMA UniqueContents ==
  ASSUME NEW S, NEW t, UniqueTree(S, t)
  PROVE  /\ Rising(ContentsOf(t)) /\ EntriesOf(t) = Range(ContentsOf(t))
         /\ \A e \in EntriesOf(t) : e \in Entry /\ e.key \in S
<1> DEFINE c == ContentsOf(t)
<1>1. TreeFits("below", S, t) /\ Distinct(c)
  BY DEF UniqueTree
<1>2. Holds("below", S, c, NoKey, NoKey)
  BY <1>1, HoldsContents DEF TreeFits, ContentsOf
<1> HIDE DEF c
<1>3. c \in Seq(Entry) /\ OrderedKeys(c) /\ \A i \in 1 .. Len(c) : c[i].key \in S
  BY <1>2 DEF Holds, Within
<1>4. Len(c) \in Nat /\ \A i \in 1 .. Len(c) : c[i].key \in Int
  <2>1. Len(c) \in Nat /\ \A i \in 1 .. Len(c) : c[i] \in Entry
    BY <1>3, LenProperties, ElementOfSeq
  <2> QED
    BY <2>1, KeysAssumption DEF Entry
<1>5. ASSUME NEW i \in 1 .. Len(c), NEW j \in 1 .. Len(c), i < j
      PROVE  c[i].key < c[j].key
  <2>1. c[i].key <= c[j].key
    BY <1>3, <1>5 DEF OrderedKeys
  <2>2. c[i].key # c[j].key
    BY <1>1, <1>4, <1>5 DEF Distinct
  <2> QED
    BY <1>4, <2>1, <2>2
<1>6. Rising(c)
  BY <1>3, <1>5 DEF Rising
<1>7. EntriesOf(t) = Range(c)
  BY DEF EntriesOf, c
<1>8. \A e \in Range(c) : e \in Entry /\ e.key \in S
  BY <1>3, <1>6, RisingEntries
<1> QED
  BY <1>6, <1>7, <1>8 DEF c

\* It is one of the trees of its order.
LEMMA UniqueIsTree ==
  ASSUME NEW S, NEW t, UniqueTree(S, t)
  PROVE  t \in Trees(t.order)
<1>1. t.height \in Nat /\ t.root \in Nodes[t.height]
  BY TreeIsNode DEF UniqueTree
<1>2. t.keyCount \in Nat
  BY UniqueContents, RisingEntries DEF UniqueTree
<1> DEFINE h == t.height
           T == [order : {t.order}, root : Nodes[h], height : {h}, keyCount : Nat]
<1>3. t = [order |-> t.order, root |-> t.root, height |-> t.height, keyCount |-> t.keyCount]
  BY DEF UniqueTree, Tree
<1>4. t \in T
  BY <1>1, <1>2, <1>3
<1> QED
  BY <1>1, <1>4 DEF Trees

\* Its count is that of its entries.
LEMMA UniqueCount ==
  ASSUME NEW S, NEW t, UniqueTree(S, t)
  PROVE  IsFiniteSet(EntriesOf(t)) /\ t.keyCount = Cardinality(EntriesOf(t))
  BY UniqueContents, RisingSize DEF UniqueTree

\* It goes on to be one with more separators.
LEMMA UniqueGrows ==
  ASSUME NEW S, NEW Q, S \subseteq Q, NEW t, UniqueTree(S, t)
  PROVE  UniqueTree(Q, t)
<1>1. \A h \in Nat : \A n, lo, hi :
        FitsAs("below", S, h, n, lo, hi) => FitsAs("below", Q, h, n, lo, hi)
  BY FitsGrows
<1> QED
  BY <1>1 DEF UniqueTree, TreeFits

\* What insertEncoded and removeEncoded make of it.
UniqueInserted(S, t, k, r, u) ==
  /\ UniqueTree(S \cup {k}, u) /\ u.order = t.order
  /\ EntriesOf(u) = EntriesOf(t) \cup {[key |-> k, row |-> r]}

UniqueRemoved(S, t, k, u) ==
  /\ UniqueTree(S, u) /\ u.order = t.order
  /\ EntriesOf(u) = {e \in EntriesOf(t) : e.key # k}

\* An insert of a key that is no separator and not in the tree.
LEMMA InsertUnique ==
  ASSUME NEW S, NEW t, UniqueTree(S, t), NEW k \in Keys, k \notin S, NEW r \in Rows
  PROVE  UniqueInserted(S, t, k, r, InsertEncoded(t, k, r))
<1> DEFINE c == ContentsOf(t)
           u == InsertEncoded(t, k, r)
           d == ContentsOf(u)
           e == [key |-> k, row |-> r]
<1>1. /\ TreeFits("below", S, t) /\ Distinct(c) /\ t.order \in Orders
      /\ t.keyCount = Len(c)
  BY DEF UniqueTree
<1>2. TreeInserted("below", S, t, k, r, u)
  BY <1>1, InsertEncodedSound
<1>3. u = Tree(u.order, u.root, u.height, u.keyCount)
  BY DEF InsertEncoded, Tree
<1>4. e \in Entry /\ e.key = k
  BY DEF Entry
<1>5. /\ Rising(c) /\ EntriesOf(t) = Range(c) /\ \A x \in EntriesOf(t) : x.key \in S
  BY UniqueContents
<1>6. EntriesOf(u) = Range(d)
  BY DEF EntriesOf
<1> HIDE DEF u, c, d
<1>7. /\ TreeFits("below", S \cup {k}, u) /\ u.order = t.order
      /\ u.keyCount = t.keyCount + 1 /\ Grew(c, d, e)
  BY <1>2 DEF TreeInserted, c, d
<1> HIDE DEF e
<1>8. c \in Seq(Entry) /\ Len(d) = Len(c) + 1 /\ Range(d) = Range(c) \cup {e}
  BY <1>4, <1>7, GrewRange
<1>9. ~ HasKey(c, e.key)
  BY <1>4, <1>5, <1>8, HasKeyStored
<1>10. Distinct(d)
  BY <1>1, <1>4, <1>7, <1>9, GrewDistinct
<1>11. UniqueTree(S \cup {k}, u)
  BY <1>1, <1>3, <1>7, <1>8, <1>10 DEF UniqueTree, d
<1> QED
  BY <1>5, <1>6, <1>7, <1>8, <1>11 DEF UniqueInserted, u, e

\* A removal takes the entry of the key, if there is one.
LEMMA RemoveUnique ==
  ASSUME NEW S, NEW t, UniqueTree(S, t), NEW k \in Keys
  PROVE  UniqueRemoved(S, t, k, RemoveEncoded(t, k))
<1> DEFINE c == ContentsOf(t)
           u == RemoveEncoded(t, k)
           d == ContentsOf(u)
<1>1. /\ TreeFits("below", S, t) /\ Distinct(c) /\ t.order \in Orders
      /\ t.keyCount = Len(c)
  BY DEF UniqueTree
<1>2. TreeRemoved("below", S, t, k, u)
  BY <1>1, RemoveEncodedSound
<1>3. u = Tree(u.order, u.root, u.height, u.keyCount)
  BY DEF RemoveEncoded, Tree
<1>4. Rising(c) /\ EntriesOf(t) = Range(c)
  BY UniqueContents
<1>5. EntriesOf(u) = Range(d)
  BY DEF EntriesOf
<1> HIDE DEF u, c, d
<1>6. /\ TreeFits("below", S, u) /\ u.order = t.order
      /\ \/ u.keyCount = t.keyCount - 1 /\ Lost(c, d, k)
         \/ u.keyCount = t.keyCount /\ d = c /\ ~ HasKey(c, k)
  BY <1>2 DEF TreeRemoved, c, d
<1>7. CASE u.keyCount = t.keyCount - 1 /\ Lost(c, d, k)
  <2>1. PICK e \in Entry : e.key = k /\ Grew(d, c, e)
    BY <1>7 DEF Lost
  <2>2. d \in Seq(Entry) /\ Len(c) = Len(d) + 1
    BY <2>1, GrewRange
  <2>3. Distinct(d) /\ Range(d) = {x \in Range(c) : x.key # e.key}
    BY <1>1, <2>1, LostDistinct
  <2>4. Len(d) \in Nat /\ u.keyCount = Len(d)
    <3>1. Len(d) \in Nat
      BY <2>2, LenProperties
    <3> QED
      BY <1>1, <1>7, <2>2, <3>1
  <2>5. UniqueTree(S, u)
    BY <1>1, <1>3, <1>6, <2>3, <2>4 DEF UniqueTree, d
  <2> QED
    BY <1>4, <1>5, <1>6, <2>1, <2>3, <2>5 DEF UniqueRemoved, u
<1>8. CASE u.keyCount = t.keyCount /\ d = c /\ ~ HasKey(c, k)
  <2>1. UniqueTree(S, u)
    BY <1>1, <1>3, <1>6, <1>8 DEF UniqueTree, d
  <2>2. c \in Seq(Entry)
    BY <1>4 DEF Rising
  <2>3. \A x \in Range(c) : x.key # k
    BY <1>8, <2>2, HasKeyStored
  <2> QED
    BY <1>4, <1>5, <1>6, <1>8, <2>1, <2>3 DEF UniqueRemoved, u
<1> QED
  BY <1>6, <1>7, <1>8

\* searchEncoded finds the entry of a key, or nothing.
LEMMA UniqueSearched ==
  ASSUME NEW S, NEW t, UniqueTree(S, t), NEW k \in Keys
  PROVE  IF \E e \in EntriesOf(t) : e.key = k
         THEN [key |-> k, row |-> SearchEncoded(t, k)] \in EntriesOf(t)
         ELSE SearchEncoded(t, k) = NoRow
<1> DEFINE c == ContentsOf(t)
           r == SearchEncoded(t, k)
<1>1. Found(r, c, k) /\ (HasKey(c, k) => r # NoRow)
  BY TreeSearched DEF UniqueTree
<1>2. Rising(c) /\ EntriesOf(t) = Range(c)
  BY UniqueContents
<1> HIDE DEF c, r
<1>3. c \in Seq(Entry) /\ \A x : x \in Range(c) <=> \E i \in 1 .. Len(c) : x = c[i]
  BY <1>2, RisingEntries
<1>4. HasKey(c, k) <=> \E e \in EntriesOf(t) : e.key = k
  BY <1>2, <1>3, HasKeyStored
<1>5. r # NoRow => [key |-> k, row |-> r] \in EntriesOf(t)
  BY <1>1, <1>2, <1>3 DEF Found
<1>6. [key |-> k, row |-> r] \in EntriesOf(t) => \E e \in EntriesOf(t) : e.key = k
  OBVIOUS
<1> QED
  BY <1>1, <1>4, <1>5, <1>6 DEF r

\* rangeSearchEncoded gives the entries in range, rising.
LEMMA UniqueRange ==
  ASSUME NEW S, NEW t, UniqueTree(S, t), NEW a, NEW b
  PROVE  /\ Rising(RangeSearchEncoded(t, a, b))
         /\ \A e : e \in Range(RangeSearchEncoded(t, a, b)) <=>
                     e \in EntriesOf(t) /\ InRange(e.key, a, b)
<1> DEFINE c == ContentsOf(t)
           d == RangeSearchEncoded(t, a, b)
<1>1. Rising(c) /\ EntriesOf(t) = Range(c)
  BY UniqueContents
<1>2. d = FlattenSeq([i \in 1 .. Len(c) |-> Taken(c[i], a, b)])
  BY DEF RangeSearchEncoded, Taken
<1> HIDE DEF c, d
<1>3. Filters(d, c, a, b)
  BY <1>1, <1>2, FilterRising
<1> QED
  BY <1>1, <1>3 DEF d, Filters

\* The key in the middle of the walk cuts the entries in half.
LEMMA UniqueMedian ==
  ASSUME NEW S, NEW t, UniqueTree(S, t), EntriesOf(t) # {}
  PROVE  LET all == RangeSearchEncoded(t, NoKey, NoKey)
             m == all[(Len(all) \div 2) + 1].key
         IN  /\ m \in Keys /\ \E e \in EntriesOf(t) : e.key = m
             /\ Cardinality({e \in EntriesOf(t) : e.key < m}) =
                  Cardinality(EntriesOf(t)) \div 2
<1> DEFINE c == ContentsOf(t)
           n == Len(c)
           i == (n \div 2) + 1
<1>1. Rising(c) /\ EntriesOf(t) = Range(c)
  BY UniqueContents
<1>2. RangeSearchEncoded(t, NoKey, NoKey) = c
  BY <1>1, RisingEntries, WholeRange
<1> HIDE DEF c
<1>3. /\ n \in Nat /\ \A x : x \in Range(c) <=> \E j \in 1 .. n : x = c[j]
      /\ \A j \in 1 .. n : c[j].key \in Keys
  BY <1>1, RisingEntries
<1>4. n # 0
  BY <1>1, <1>3
<1>5. i \in 1 .. n /\ i - 1 = n \div 2
  BY <1>3, <1>4
<1>6. Cardinality(Range(c)) = n
  BY <1>1, RisingSize
<1> HIDE DEF n, i
<1>7. Cardinality({x \in Range(c) : x.key < c[i].key}) = i - 1
  BY <1>1, <1>5, RisingBelow DEF n
<1> QED
  BY <1>1, <1>2, <1>3, <1>5, <1>6, <1>7 DEF n, i

\* The tree a partition starts with.
LEMMA EmptyUnique ==
  ASSUME NEW order \in Orders, NEW t, t = EmptyTree(order)
  PROVE  UniqueTree({}, t) /\ EntriesOf(t) = {} /\ t.order = order
<1>1. /\ t.order = order /\ t.keyCount = 0
      /\ TreeFits("below", {}, t) /\ Len(ContentsOf(t)) = 0
  BY EmptyFits
<1>2. t = Tree(t.order, t.root, t.height, t.keyCount)
  BY DEF EmptyTree, Tree
<1>3. UniqueTree({}, t)
  BY <1>1, <1>2 DEF UniqueTree, Distinct
<1>4. EntriesOf(t) = Range(ContentsOf(t)) /\ Rising(ContentsOf(t))
  BY <1>3, UniqueContents
<1>5. EntriesOf(t) = {}
  BY <1>1, <1>4, RisingEntries
<1> QED
  BY <1>1, <1>3, <1>5
=============================================================================
