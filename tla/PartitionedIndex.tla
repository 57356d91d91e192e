-------------------------- MODULE PartitionedIndex --------------------------
(***************************************************************************)
(* UnifiedPartitionIndex (src/partition/UnifiedPartitionIndex.js) with the *)
(* B+ tree of each partition abstracted to the set of entries it holds.    *)
(* Keys stand for encoded keys, compared by KeyEncoder.compareBytes: a     *)
(* total order, here that of the integers.  The index is unique: a caller  *)
(* never inserts a key twice (module UnifiedPartitionIndex, which keeps    *)
(* the trees, also checks what happens when it does).                      *)
(***************************************************************************)
EXTENDS Integers, FiniteSets, Sequences, SequencesExt

CONSTANTS
  Keys,               \* the encoded keys
  Rows,               \* the row pointers
  NoKey,              \* null: an open bound
  NoRow,              \* null: what a search that finds nothing returns
  MaxPartitionSize    \* maxPartitionSize

ASSUME KeysAssumption == Keys \subseteq Int /\ NoKey \notin Int
ASSUME RowsAssumption == NoRow \notin Rows
\* With maxPartitionSize = 0 every insert empties the partition it splits.
ASSUME SizeAssumption == MaxPartitionSize \in Nat \ {0}

VARIABLE partitions   \* this.partitions, in key order

vars == <<partitions>>

Entry == [key : Keys, row : Rows]

Partition == [startKey : Keys \cup {NoKey},
              endKey   : Keys \cup {NoKey},
              entries  : SUBSET Entry]

KeysOf(S) == {e.key : e \in S}

Parts == 1 .. Len(partitions)

StoredEntries == UNION {partitions[p].entries : p \in Parts}

-----------------------------------------------------------------------------
\* _containsKey: part covers [startKey, endKey), null meaning unbounded.
ContainsKey(part, k) ==
  /\ part.startKey # NoKey => part.startKey <= k
  /\ part.endKey # NoKey => k < part.endKey

\* _findPartitionIndex(k) = p: the first partition that covers k.
IsPartitionFor(p, k) ==
  /\ p \in Parts
  /\ ContainsKey(partitions[p], k)
  /\ \A q \in 1 .. p-1 : ~ ContainsKey(partitions[q], k)

\* _findMedianKey: the key at position floor(length / 2) of the sorted entries.
IsMedianKey(S, k) ==
  /\ k \in KeysOf(S)
  /\ Cardinality({e \in S : e.key < k}) = Cardinality(S) \div 2

\* Mutants of SplitPartition: _moveData copies without removing; the new
\* partition overwrites the next one (splice with a deleteCount of 1); the
\* old partition keeps its upper bound; the new one takes its upper bound from
\* a field that does not exist.
CopyPartition(p, part, k) ==
  LET upper == [startKey |-> k, endKey |-> part.endKey,
                entries |-> {e \in part.entries : k <= e.key}]
      lower == [part EXCEPT !.endKey = k]
  IN  InsertAt(ReplaceAt(partitions, p, lower), p + 1, upper)

OverwritingSplit(p, part, k) ==
  LET upper == [startKey |-> k, endKey |-> part.endKey,
                entries |-> {e \in part.entries : k <= e.key}]
      lower == [part EXCEPT !.endKey = k, !.entries = @ \ upper.entries]
  IN  IF p = Len(partitions)
      THEN Append(ReplaceAt(partitions, p, lower), upper)
      ELSE ReplaceAt(ReplaceAt(partitions, p, lower), p + 1, upper)

UnboundedSplit(p, part, k) ==
  LET upper == [startKey |-> k, endKey |-> part.endKey,
                entries |-> {e \in part.entries : k <= e.key}]
      lower == [part EXCEPT !.entries = @ \ upper.entries]
  IN  InsertAt(ReplaceAt(partitions, p, lower), p + 1, upper)

MisnamedSplit(p, part, k) ==
  LET upper == [startKey |-> k, endKey |-> NoRow,
                entries |-> {e \in part.entries : k <= e.key}]
      lower == [part EXCEPT !.endKey = k, !.entries = @ \ upper.entries]
  IN  InsertAt(ReplaceAt(partitions, p, lower), p + 1, upper)

\* _splitPartition and _moveData: part, the content of partition p, is cut at
\* k; the entries from k on move to a new partition that follows it.
SplitPartition(p, part, k) ==
  LET upper == [startKey |-> k,
                endKey   |-> part.endKey,
                entries  |-> {e \in part.entries : k <= e.key}]
      lower == [part EXCEPT !.endKey = k,
                            !.entries = {e \in part.entries : e.key < k}]
  IN  InsertAt(ReplaceAt(partitions, p, lower), p + 1, upper)

-----------------------------------------------------------------------------
Init ==
  partitions = << [startKey |-> NoKey, endKey |-> NoKey, entries |-> {}] >>

Grown(p, k, r) ==
  [partitions[p] EXCEPT !.entries = @ \cup {[key |-> k, row |-> r]}]

\* insert(value, rowPtr) when the partition keeps within maxPartitionSize.
InsertWithin(p, k, r) ==
  /\ Cardinality(Grown(p, k, r).entries) <= MaxPartitionSize
  /\ partitions' = ReplaceAt(partitions, p, Grown(p, k, r))

\* insert(value, rowPtr) when the partition must split.
InsertAndSplit(p, k, r) ==
  /\ Cardinality(Grown(p, k, r).entries) > MaxPartitionSize
  /\ \E m \in Keys :
       /\ IsMedianKey(Grown(p, k, r).entries, m)
       /\ partitions' = SplitPartition(p, Grown(p, k, r), m)

Insert(k, r) ==
  /\ k \notin KeysOf(StoredEntries)
  /\ \E p \in Parts :
       /\ IsPartitionFor(p, k)
       /\ InsertWithin(p, k, r) \/ InsertAndSplit(p, k, r)

Next == \E k \in Keys, r \in Rows : Insert(k, r)

Spec == Init /\ [][Next]_vars

-----------------------------------------------------------------------------
\* Mutant of RangeIntersects: an end one key above a counts as before a (<= 1
\* for <= 0).
StrictIntersects(part, a, b) ==
  /\ (part.endKey # NoKey /\ a # NoKey) => a < part.endKey - 1
  /\ (part.startKey # NoKey /\ b # NoKey) => part.startKey < b

\* _rangeIntersects.
RangeIntersects(part, a, b) ==
  /\ (part.endKey # NoKey /\ a # NoKey) => a < part.endKey
  /\ (part.startKey # NoKey /\ b # NoKey) => part.startKey < b

\* rangeSearchEncoded on one tree: both ends included.
InRange(k, a, b) ==
  /\ a # NoKey => a <= k
  /\ b # NoKey => k <= b

\* rangeSearch(a, b), as the set of entries it returns.
RangeSearch(a, b) ==
  {e \in StoredEntries :
     \E p \in Parts : /\ e \in partitions[p].entries
                      /\ RangeIntersects(partitions[p], a, b)
                      /\ InRange(e.key, a, b)}

\* search(k) may answer r.
SearchAnswers(k, r) ==
  \E p \in Parts :
    /\ IsPartitionFor(p, k)
    /\ \/ [key |-> k, row |-> r] \in partitions[p].entries
       \/ r = NoRow /\ k \notin KeysOf(partitions[p].entries)

-----------------------------------------------------------------------------
TypeOK ==
  /\ partitions \in Seq(Partition)
  /\ partitions # << >>
  /\ \A p \in Parts : IsFiniteSet(partitions[p].entries)

\* A partition ends before any later one starts.
PartitionsOrdered ==
  \A p, q \in Parts : p < q =>
    /\ partitions[p].endKey # NoKey
    /\ partitions[q].startKey # NoKey
    /\ partitions[p].endKey <= partitions[q].startKey

\* No key falls between two partitions.
EveryKeyHasPartition ==
  \A k \in Keys : \E p \in Parts : ContainsKey(partitions[p], k)

\* The partitions are a gapless ordered cover of the keys, however often their
\* neighbours have been split (_splitPartition splices the new partition behind
\* the old one and moves the bound): insert never reaches its "No partition
\* found for key??", and only one partition covers a key.
KeySpaceCovered == PartitionsOrdered /\ EveryKeyHasPartition

\* An entry is in a partition whose bounds cover its key.
EntriesWithinBounds ==
  \A p \in Parts : \A e \in partitions[p].entries :
    ContainsKey(partitions[p], e.key)

\* No two entries of the index have the same key.
KeysUnique ==
  \A p, q \in Parts :
    \A e \in partitions[p].entries, f \in partitions[q].entries :
      e.key = f.key => p = q /\ e = f

\* An entry is in one place, within the bounds of its partition, also after
\* _moveData has carried it over a split: it moves entries one by one and never
\* leaves a copy behind.
EntriesInOnePlace == EntriesWithinBounds /\ KeysUnique

\* search finds exactly what was inserted: for a stored key its row, and null
\* for every other key, whatever partition the key has been moved to.
SearchFindsWhatIsStored ==
  \A k \in Keys : \A r \in Rows \cup {NoRow} :
    SearchAnswers(k, r) <=>
      IF k \in KeysOf(StoredEntries)
      THEN [key |-> k, row |-> r] \in StoredEntries
      ELSE r = NoRow

\* Once the index has split, no partition is empty or above maxPartitionSize,
\* and a split leaves both halves with at least half of what overflowed
\* (test "should split into two partitions when exceeding capacity").
SizesBalanced ==
  \A p \in Parts :
    /\ Cardinality(partitions[p].entries) <= MaxPartitionSize
    /\ Len(partitions) > 1 =>
         Cardinality(partitions[p].entries) >= (MaxPartitionSize + 1) \div 2

\* rangeSearch(a, b) returns nothing outside [a, b] and everything in [a, b):
\* skipping a partition by its bounds never loses an entry below b.
RangeSearchSound ==
  \A a, b \in Keys \cup {NoKey} :
    /\ \A e \in RangeSearch(a, b) : InRange(e.key, a, b)
    /\ \A e \in StoredEntries :
         InRange(e.key, a, b) /\ e.key # b => e \in RangeSearch(a, b)

\* A boundary, once drawn by a split, stays: later splits only add boundaries.
StartKeys == {partitions[p].startKey : p \in Parts}
BoundariesPersist == [][StartKeys \subseteq StartKeys']_vars

\* The partitioned index implements the flat map of module KeyIndex.
Flat == INSTANCE KeyIndex WITH entries <- StoredEntries
ImplementsKeyIndex == Flat!Spec
=============================================================================
