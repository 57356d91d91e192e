---------------------------- MODULE BPTreeIndex -----------------------------
(***************************************************************************)
(* One BPTreeIndex (src/partition/BPTreeIndex.js) and its caller.  The     *)
(* operations are synchronous, so each is one action.  What the caller     *)
(* does is chosen at the start: the order it gives the index, the entries  *)
(* it may insert, whether it inserts a key that is stored, inserts a key   *)
(* it has removed, and removes keys at all.  The index inside a partition  *)
(* meets neither of the first two while its keys are unique: _moveData     *)
(* removes the keys at and above the partition's new end, and none of them *)
(* comes back.                                                             *)
(***************************************************************************)
EXTENDS BPTree

CONSTANT Callers   \* the callers that are considered

ASSUME CallersAssumption ==
  \A c \in Callers :
    /\ c.order \in Orders
    /\ {c.duplicates, c.reinserts, c.removes} \subseteq BOOLEAN
    /\ c.entries \subseteq Entry

VARIABLES
  caller,    \* who uses the index
  tree,      \* the index
  removed    \* history: the keys the caller has removed

vars == <<caller, tree, removed>>

Stored == EntriesOf(tree)
StoredKeys == {e.key : e \in Stored}

Init ==
  /\ caller \in Callers
  /\ tree = EmptyTree(caller.order)
  /\ removed = {}

Insert(e) ==
  /\ e \notin Stored
  /\ caller.duplicates \/ e.key \notin StoredKeys
  /\ caller.reinserts \/ e.key \notin removed
  /\ tree' = InsertEncoded(tree, e.key, e.row)
  /\ UNCHANGED <<caller, removed>>

RemoveKey(k) ==
  /\ caller.removes
  /\ tree' = RemoveEncoded(tree, k)
  /\ removed' = IF tree'.keyCount < tree.keyCount THEN removed \cup {k}
                ELSE removed
  /\ UNCHANGED caller

Next ==
  \/ \E e \in caller.entries : Insert(e)
  \/ \E k \in Keys : RemoveKey(k)

Spec == Init /\ [][Next]_vars

-----------------------------------------------------------------------------
\* The key count never goes below 0, all leaves stay at the same depth, and a
\* node has the fields of its kind.  (An internal node may have no child at
\* all: see TreeShapeSound.)
TypeOK ==
  /\ caller \in Callers
  /\ tree.order = caller.order
  /\ tree.keyCount \in Nat /\ tree.height \in Nat
  /\ tree.root \in Nodes[tree.height]
  /\ removed \subseteq Keys

\* search finds a stored key under every shape splits and removals give the
\* tree, with a row inserted for it, and finds no other key.
SearchFindsStored ==
  LET stored == Stored
      storedKeys == {e.key : e \in stored}
  IN  \A k \in Keys :
        IF k \in storedKeys
        THEN [key |-> k, row |-> SearchEncoded(tree, k)] \in stored
        ELSE SearchEncoded(tree, k) = NoRow

\* A full range search returns its entries in key order (and so does every
\* other one, which filters it), although insert and search break ties at a
\* separator in opposite directions.
RangeSearchSorted == IsSortedSeq(KeySeq(RangeSearchEncoded(tree, NoKey, NoKey)))

\* getApproxSize, which decides when a partition splits, is exact.
KeyCountExact == tree.keyCount = Len(ContentsOf(tree))

\* No descent runs off the children of a node: _splitInternal can leave a node
\* with as many keys as children, but the last of them is never passed; and at
\* order 2 it can leave a right node with no children, which none reaches.
TreeShapeSound ==
  \A k \in Keys, inserting \in BOOLEAN :
    DescentStays(k, inserting)[tree.height][tree.root]

\* For a caller with unique keys the tree implements the flat map of KeyIndex.
Flat == INSTANCE KeyIndex WITH
          entries <- IF caller.duplicates THEN {} ELSE Stored
ImplementsKeyIndex == Flat!Spec
=============================================================================
