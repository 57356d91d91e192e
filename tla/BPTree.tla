------------------------------- MODULE BPTree -------------------------------
(***************************************************************************)
(* The B+ tree of src/partition/BPTreeIndex.js as a value: a tree is its   *)
(* order, its root node, its height and its key count, a node holds its    *)
(* children.  The code does not keep the height (of a leaf 0), but its     *)
(* recursions follow it down; here each is a recursive function on it.     *)
(* The nextLeaf chain is left out: the code writes it and never reads it.  *)
(* Positions are 1-based.  A leaf has keys and records side by side, an    *)
(* internal node separator keys and children.                              *)
(***************************************************************************)
EXTENDS Integers, FiniteSets, Sequences, SequencesExt

CONSTANTS
  Keys,    \* the encoded keys
  Rows,    \* the row pointers
  NoKey,   \* null: an open bound of a range, or no separator
  NoRow    \* null: what a search that finds nothing returns

ASSUME KeysAssumption == Keys \subseteq Int /\ NoKey \notin Int
ASSUME RowsAssumption == NoRow \notin Rows

Entry == [key : Keys, row : Rows]

\* An order of 1 splits a leaf of one key into that leaf and an empty one.
Orders == Nat \ {0, 1}

MaxLeafKeys(order) == order - 1
MaxInternalKeys(order) == order - 1

Leaf(keys, records) ==
  [leaf |-> TRUE, keys |-> keys, records |-> records, children |-> << >>]

Internal(keys, children) ==
  [leaf |-> FALSE, keys |-> keys, records |-> << >>, children |-> children]

\* The nodes of a height.
Nodes[h \in Nat] ==
  IF h = 0
  THEN [leaf : {TRUE}, keys : Seq(Keys), records : Seq(Rows), children : {<< >>}]
  ELSE [leaf : {FALSE}, keys : Seq(Keys), records : {<< >>},
        children : Seq(Nodes[h - 1])]

Tree(order, root, height, keyCount) ==
  [order |-> order, root |-> root, height |-> height, keyCount |-> keyCount]

EmptyTree(order) == Tree(order, Leaf(<< >>, << >>), 0, 0)

\* The first position of seq whose element passes Test, or one past the end.
FirstPos(seq, Test(_)) ==
  LET i == SelectInSeq(seq, Test) IN IF i = 0 THEN Len(seq) + 1 ELSE i

-----------------------------------------------------------------------------
\* _findInsertPos: where an insert descends, left of a separator equal to k.
FindInsertPos(keys, k) == FirstPos(keys, LAMBDA x : k <= x)

\* Mutant of DescendPos: search and remove go left on equality.
LeftDescendPos(keys, k) == FirstPos(keys, LAMBDA x : k <= x)

\* Where search and remove descend: right of a separator equal to k.
DescendPos(keys, k) == FirstPos(keys, LAMBDA x : k < x)

-----------------------------------------------------------------------------
\* What an insert below a node gives back: the node, and its new right sibling
\* with the separator between them when it was split.
Whole(node) == [node |-> node, separatorKey |-> NoKey, newNode |-> node]

\* Mutant of SplitLeaf: the records stay behind when the keys move.
HalfSplitLeaf(leaf) ==
  LET cut == (Len(leaf.keys) + 1) \div 2
      right == Leaf(SubSeq(leaf.keys, cut + 1, Len(leaf.keys)),
                    SubSeq(leaf.records, 1, Len(leaf.keys) - cut))
  IN  [node |-> Leaf(SubSeq(leaf.keys, 1, cut), SubSeq(leaf.records, 1, cut)),
       separatorKey |-> right.keys[1],
       newNode |-> right]

\* _splitLeaf: the left leaf keeps ceil(size / 2) entries.
SplitLeaf(leaf) ==
  LET cut == (Len(leaf.keys) + 1) \div 2
      right == Leaf(SubSeq(leaf.keys, cut + 1, Len(leaf.keys)),
                    SubSeq(leaf.records, cut + 1, Len(leaf.records)))
  IN  [node |-> Leaf(SubSeq(leaf.keys, 1, cut), SubSeq(leaf.records, 1, cut)),
       separatorKey |-> right.keys[1],
       newNode |-> right]

\* Mutant of SplitInternal: a child too many stays in the left node.
LopsidedSplitInternal(node) ==
  LET sep == (Len(node.keys) \div 2) + 1
  IN  [node |-> Internal(SubSeq(node.keys, 1, sep),
                         SubSeq(node.children, 1, sep + 1)),
       separatorKey |-> node.keys[sep],
       newNode |-> Internal(SubSeq(node.keys, sep + 1, Len(node.keys)),
                            SubSeq(node.children, sep + 2, Len(node.children)))]

\* _splitInternal.  The splice of the keys starts behind the separator, which
\* so stays in the left node and also goes up to the parent.
SplitInternal(node) ==
  LET sep == (Len(node.keys) \div 2) + 1
  IN  [node |-> Internal(SubSeq(node.keys, 1, sep),
                         SubSeq(node.children, 1, sep)),
       separatorKey |-> node.keys[sep],
       newNode |-> Internal(SubSeq(node.keys, sep + 1, Len(node.keys)),
                            SubSeq(node.children, sep + 1, Len(node.children)))]

LeafInsert(order, leaf, pos, k, r) ==
  LET grown == Leaf(InsertAt(leaf.keys, pos, k), InsertAt(leaf.records, pos, r))
  IN  IF Len(grown.keys) > MaxLeafKeys(order) THEN SplitLeaf(grown) ELSE Whole(grown)

\* Mutant of AdoptBelow: the new child goes before the one it was split from.
AdoptBefore(order, node, pos, below) ==
  LET patched == Internal(node.keys, ReplaceAt(node.children, pos, below.node))
      grown   == Internal(InsertAt(node.keys, pos, below.separatorKey),
                          InsertAt(patched.children, pos, below.newNode))
  IN  CASE below.separatorKey = NoKey -> Whole(patched)
        [] below.separatorKey # NoKey /\ Len(grown.keys) > MaxInternalKeys(order) ->
             SplitInternal(grown)
        [] OTHER -> Whole(grown)

\* An internal node takes over what an insert below its child pos gave back.
AdoptBelow(order, node, pos, below) ==
  LET patched == Internal(node.keys, ReplaceAt(node.children, pos, below.node))
      grown   == Internal(InsertAt(node.keys, pos, below.separatorKey),
                          InsertAt(patched.children, pos + 1, below.newNode))
  IN  CASE below.separatorKey = NoKey -> Whole(patched)
        [] below.separatorKey # NoKey /\ Len(grown.keys) > MaxInternalKeys(order) ->
             SplitInternal(grown)
        [] OTHER -> Whole(grown)

\* _insertRecursive, at each height a function of the node.
InsertRecursive(order, k, r) ==
  LET insert[h \in Nat] ==
        [node \in Nodes[h] |->
           LET pos == FindInsertPos(node.keys, k)
           IN  IF node.leaf
               THEN LeafInsert(order, node, pos, k, r)
               ELSE AdoptBelow(order, node, pos, insert[h - 1][node.children[pos]])]
  IN  insert

\* insertEncoded(k, r).
InsertEncoded(tree, k, r) ==
  LET top == InsertRecursive(tree.order, k, r)[tree.height][tree.root]
      count == tree.keyCount + 1
  IN  IF top.separatorKey = NoKey
      THEN Tree(tree.order, top.node, tree.height, count)
      ELSE Tree(tree.order,
                Internal(<< top.separatorKey >>, << top.node, top.newNode >>),
                tree.height + 1, count)

-----------------------------------------------------------------------------
\* What a removal below a node gives back: the node, and whether k was found.
LeafRemove(leaf, k) ==
  LET i == SelectInSeq(leaf.keys, LAMBDA x : x = k)
  IN  IF i = 0
      THEN [node |-> leaf, removed |-> FALSE]
      ELSE [node |-> Leaf(RemoveAt(leaf.keys, i), RemoveAt(leaf.records, i)),
            removed |-> TRUE]

RemoveRecursive(k) ==
  LET remove[h \in Nat] ==
        [node \in Nodes[h] |->
           LET i == DescendPos(node.keys, k)
               below == remove[h - 1][node.children[i]]
           IN  IF node.leaf
               THEN LeafRemove(node, k)
               ELSE [node |-> Internal(node.keys,
                                       ReplaceAt(node.children, i, below.node)),
                     removed |-> below.removed]]
  IN  remove

\* Mutant of RemoveEncoded: the count goes down whether or not a key was found.
CarelessRemoveEncoded(tree, k) ==
  Tree(tree.order, RemoveRecursive(k)[tree.height][tree.root].node,
       tree.height, tree.keyCount - 1)

\* removeEncoded(k).  Underflow never merges nodes; the root keeps its keys, so
\* that its replacement by a single child never happens.
RemoveEncoded(tree, k) ==
  LET top == RemoveRecursive(k)[tree.height][tree.root]
  IN  Tree(tree.order, top.node, tree.height,
           IF top.removed THEN tree.keyCount - 1 ELSE tree.keyCount)

-----------------------------------------------------------------------------
SearchLeaf(leaf, k) ==
  LET i == SelectInSeq(leaf.keys, LAMBDA x : x = k)
  IN  IF i = 0 THEN NoRow ELSE leaf.records[i]

\* _searchNode.
SearchNode(k) ==
  LET search[h \in Nat] ==
        [node \in Nodes[h] |->
           IF node.leaf
           THEN SearchLeaf(node, k)
           ELSE search[h - 1][node.children[DescendPos(node.keys, k)]]]
  IN  search

\* searchEncoded(k).
SearchEncoded(tree, k) == SearchNode(k)[tree.height][tree.root]

LeafContents(leaf) ==
  [i \in 1 .. Len(leaf.keys) |-> [key |-> leaf.keys[i], row |-> leaf.records[i]]]

\* All entries below a node, in the order of the depth-first walk.
Contents[h \in Nat] ==
  [node \in Nodes[h] |->
     IF node.leaf
     THEN LeafContents(node)
     ELSE FlattenSeq([i \in 1 .. Len(node.children) |->
                        Contents[h - 1][node.children[i]]])]

ContentsOf(tree) == Contents[tree.height][tree.root]

\* The filter of _rangeSearchNode: both ends included.
InRange(k, a, b) ==
  /\ a # NoKey => a <= k
  /\ b # NoKey => k <= b

\* rangeSearchEncoded(a, b): each entry in turn, pushed when it is in range.  (A
\* leaf is sorted, so stopping at the first key beyond b is the same.)
RangeSearchEncoded(tree, a, b) ==
  LET all == ContentsOf(tree)
  IN  FlattenSeq([i \in 1 .. Len(all) |->
        IF InRange(all[i].key, a, b) THEN << all[i] >> ELSE << >>])

EntriesOf(tree) == Range(ContentsOf(tree))

-----------------------------------------------------------------------------
\* A descent never passes the last child of a node.
DescentStays(k, inserting) ==
  LET stays[h \in Nat] ==
        [node \in Nodes[h] |->
           LET i == IF inserting THEN FindInsertPos(node.keys, k)
                    ELSE DescendPos(node.keys, k)
           IN  node.leaf \/ ( /\ i <= Len(node.children)
                             /\ stays[h - 1][node.children[i]] )]
  IN  stays

IsSortedSeq(s) == \A i \in 1 .. Len(s) - 1 : s[i] <= s[i + 1]

KeySeq(entries) == [i \in 1 .. Len(entries) |-> entries[i].key]
=============================================================================
