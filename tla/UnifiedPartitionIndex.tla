----------------------- MODULE UnifiedPartitionIndex ------------------------
(***************************************************************************)
(* src/partition/UnifiedPartitionIndex.js with the B+ tree of every        *)
(* partition: the composition of the partition list with module BPTree.    *)
(* With unique keys it implements PartitionedIndex, which knows each       *)
(* partition only as a set of entries.  The constructor's minPartitionSize *)
(* is left out: nothing reads it.                                          *)
(***************************************************************************)
EXTENDS BPTree

CONSTANTS
  Order,              \* order, of the tree of each partition
  Entries,            \* the entries [key, row] a caller may insert
  Duplicates,         \* may the caller insert a key that is stored?
  MaxPartitionSize    \* maxPartitionSize

ASSUME EntriesAssumption == Entries \subseteq Entry
ASSUME CapacityAssumption == MaxPartitionSize \in Nat \ {0} /\ Order \in Orders

VARIABLES
  partitions,   \* this.partitions
  inserted      \* history: the entries inserted so far

vars == <<partitions, inserted>>

KeysOf(S) == {e.key : e \in S}

Parts == 1 .. Len(partitions)

-----------------------------------------------------------------------------
\* _containsKey: covers [startKey, endKey).
ContainsKey(part, k) ==
  /\ part.startKey # NoKey => part.startKey <= k
  /\ part.endKey # NoKey => k < part.endKey

\* _findPartitionIndex, 0 when no partition covers k.
FindPartitionIndex(k) == SelectInSeq(partitions, LAMBDA part : ContainsKey(part, k))

\* _findMedianKey.
FindMedianKey(tree) ==
  LET allData == RangeSearchEncoded(tree, NoKey, NoKey)
  IN  allData[(Len(allData) \div 2) + 1].key

\* Mutants of MoveData: nothing is removed from the old tree; the entry at the
\* pivot stays behind.
CopyData(oldTree, pivot) ==
  LET data == RangeSearchEncoded(oldTree, pivot, NoKey)
      copied[i \in 0 .. Len(data)] ==
        IF i = 0
        THEN [from |-> oldTree, to |-> EmptyTree(Order)]
        ELSE [copied[i - 1] EXCEPT !.to = InsertEncoded(@, data[i].key, data[i].row)]
  IN  copied[Len(data)]

MoveDataAbove(oldTree, pivot) ==
  LET data == RangeSearchEncoded(oldTree, pivot + 1, NoKey)
      moved[i \in 0 .. Len(data)] ==
        IF i = 0
        THEN [from |-> oldTree, to |-> EmptyTree(Order)]
        ELSE [from |-> RemoveEncoded(moved[i - 1].from, data[i].key),
              to   |-> InsertEncoded(moved[i - 1].to, data[i].key, data[i].row)]
  IN  moved[Len(data)]

\* _moveData: entry by entry, from the old tree to the new one.
MoveData(oldTree, pivot) ==
  LET data == RangeSearchEncoded(oldTree, pivot, NoKey)
      moved[i \in 0 .. Len(data)] ==
        IF i = 0
        THEN [from |-> oldTree, to |-> EmptyTree(Order)]
        ELSE [from |-> RemoveEncoded(moved[i - 1].from, data[i].key),
              to   |-> InsertEncoded(moved[i - 1].to, data[i].key, data[i].row)]
  IN  moved[Len(data)]

\* _splitPartition, of a partition list in which p is over capacity.
SplitPartition(parts, p) ==
  LET oldPart  == parts[p]
      splitKey == FindMedianKey(oldPart.btree)
      trees    == MoveData(oldPart.btree, splitKey)
      lower    == [oldPart EXCEPT !.endKey = splitKey, !.btree = trees.from]
      upper    == [oldPart EXCEPT !.startKey = splitKey, !.btree = trees.to]
  IN  InsertAt(ReplaceAt(parts, p, lower), p + 1, upper)

-----------------------------------------------------------------------------
Init ==
  /\ partitions =
       << [startKey |-> NoKey, endKey |-> NoKey, btree |-> EmptyTree(Order)] >>
  /\ inserted = {}

\* insert(value, rowPtr).
Insert(e) ==
  LET p     == FindPartitionIndex(e.key)
      grown == [partitions EXCEPT ![p].btree = InsertEncoded(@, e.key, e.row)]
  IN  /\ e \notin inserted
      /\ Duplicates \/ e.key \notin KeysOf(inserted)
      /\ p # 0
      /\ partitions' = IF grown[p].btree.keyCount > MaxPartitionSize
                       THEN SplitPartition(grown, p)
                       ELSE grown
      /\ inserted' = inserted \cup {e}

Next == \E e \in Entries : Insert(e)

Spec == Init /\ [][Next]_vars

-----------------------------------------------------------------------------
\* search(k).
Search(k) ==
  LET p == FindPartitionIndex(k)
  IN  IF p = 0 THEN NoRow ELSE SearchEncoded(partitions[p].btree, k)

\* _rangeIntersects.
RangeIntersects(part, a, b) ==
  /\ (part.endKey # NoKey /\ a # NoKey) => a < part.endKey
  /\ (part.startKey # NoKey /\ b # NoKey) => part.startKey < b

\* rangeSearch(a, b): the partitions in order, those that intersect [a, b).
RangeSearch(a, b) ==
  FlattenSeq([p \in Parts |->
    IF RangeIntersects(partitions[p], a, b)
    THEN RangeSearchEncoded(partitions[p].btree, a, b)
    ELSE << >>])

-----------------------------------------------------------------------------
\* The entries of the caller's history in range of [a, b).
InsertedBelow(a, b) ==
  {e \in inserted : (a # NoKey => a <= e.key) /\ (b # NoKey => e.key < b)}

\* Each insert is still found, with the row it brought, however many splits
\* have moved it between trees, and any other key is not found.  A range search
\* over many partitions is in key order, has each entry at most once, and has
\* every inserted entry of [a, b).
QueriesFindInserted ==
  /\ \A k \in Keys :
       IF k \in KeysOf(inserted)
       THEN [key |-> k, row |-> Search(k)] \in inserted
       ELSE Search(k) = NoRow
  /\ \A a, b \in Keys \cup {NoKey} :
       LET found == RangeSearch(a, b)
       IN  /\ IsSortedSeq(KeySeq(found))
           /\ Cardinality(Range(found)) = Len(found)
           /\ InsertedBelow(a, b) \subseteq Range(found)
           /\ Range(found) \subseteq inserted

\* The trees implement the sets of entries of PartitionedIndex: in particular
\* _moveData empties each old tree of exactly what the new one takes over.
Parted == INSTANCE PartitionedIndex WITH
            partitions <- [p \in Parts |->
              [startKey |-> partitions[p].startKey,
               endKey   |-> partitions[p].endKey,
               entries  |-> EntriesOf(partitions[p].btree)]]
ImplementsPartitionedIndex == Parted!Spec

-----------------------------------------------------------------------------
\* partitionIndex.test.js:176-178 and :202-204 expect rangeSearch to include
\* its end key, as does BPTreeIndex.js:163 ("New code").
RangeEndIncluded ==
  \A b \in Keys :
    LET found == RangeSearch(NoKey, b)
    IN  {e \in inserted : e.key <= b} \subseteq Range(found)

\* UnifiedPartitionIndex.js:73, "old partition => [oldStart.. splitKey)", with
\* :105, "Remove from old partition": nothing outside the bounds stays behind.
OldPartitionBelowSplit ==
  \A p \in Parts : \A e \in EntriesOf(partitions[p].btree) :
    ContainsKey(partitions[p], e.key)
=============================================================================
