---------------------------- MODULE EncodedIndex ----------------------------
(***************************************************************************)
(* UnifiedPartitionIndex over the keys its encoder makes of the caller's   *)
(* values: what PartitionedIndex takes for granted, that encoded keys are  *)
(* totally ordered and survive the decoding and encoding of a split.       *)
(*                                                                         *)
(* The caller, chosen at the start, says which encoder the index has and   *)
(* which values it may insert.  Values have the type of their column (what *)
(* the encoders make of others by coercion is not modelled) and the        *)
(* encoder keeps them whole (Regular).  A caller inserts no two values of  *)
(* the same key, though values that share a key may be searched for.       *)
(*                                                                         *)
(* For unique keys a tree of any order behaves like the sorted sequence of *)
(* its entries (UnifiedPartitionIndex implements PartitionedIndex), which  *)
(* a partition's tree is here: one leaf.  With keys stored twice it would  *)
(* not: removeEncoded misses copies left of a separator, and a split       *)
(* leaves them behind (MCUnifiedDuplicates).                               *)
(***************************************************************************)
EXTENDS KeyEncoders, FiniteSets

CONSTANTS
  Callers,            \* caller -> [encoder, values]
  NoKey,              \* null: an open bound
  NoRow,              \* null: what a search that finds nothing returns
  MaxPartitionSize    \* maxPartitionSize

ASSUME CallersAssumption ==
  \A c \in DOMAIN Callers :
    /\ IsEncoder(Callers[c].encoder)
    /\ \A v \in Callers[c].values :
         IsRow(Callers[c].encoder.columns, v) /\ Regular(Callers[c].encoder, v)
    /\ NoRow \notin Callers[c].values
ASSUME NullAssumption ==
  /\ NoKey \notin Seq(Bytes) /\ NoKey \notin Int
  /\ Throws \notin Int /\ Throws \notin Seq(Bytes)
ASSUME SizeAssumption == MaxPartitionSize \in Nat \ {0}

VARIABLES
  caller,       \* who uses the index
  partitions,   \* this.partitions
  inserted      \* history: the values inserted so far

vars == <<caller, partitions, inserted>>

Encoder == Callers[caller].encoder
Values == Callers[caller].values
KeyOf(v) == Encode(Encoder, v)
Parts == 1 .. Len(partitions)

-----------------------------------------------------------------------------
\* _findInsertPos and insertEncoded on a leaf; a row is known by its value.
InsertPos(leaf, k) ==
  LET i == SelectInSeq(leaf, LAMBDA e : Compare(Encoder, k, e.key) <= 0)
  IN  IF i = 0 THEN Len(leaf) + 1 ELSE i

\* Mutant of InsertEncoded: the key goes to the end.
AppendEncoded(leaf, k, row) == Append(leaf, [key |-> k, row |-> row])

InsertEncoded(leaf, k, row) ==
  InsertAt(leaf, InsertPos(leaf, k), [key |-> k, row |-> row])

\* removeEncoded and searchEncoded on a leaf: the loop stops at the first key
\* that is equal or greater, 0 when that one is not equal.
Find(leaf, k) ==
  LET i == SelectInSeq(leaf, LAMBDA e : Compare(Encoder, k, e.key) <= 0)
  IN  IF i # 0 /\ Compare(Encoder, k, leaf[i].key) = 0 THEN i ELSE 0

RemoveEncoded(leaf, k) ==
  IF Find(leaf, k) = 0 THEN leaf ELSE RemoveAt(leaf, Find(leaf, k))

\* rangeSearchEncoded on a leaf, whose loop ends behind the range: the leaf is
\* sorted.  The keys it returns are decoded, and each of its callers that goes on
\* with one encodes it again.
InRange(k, a, b) ==
  /\ a # NoKey => Compare(Encoder, k, a) >= 0
  /\ b # NoKey => Compare(Encoder, k, b) <= 0

RangeSearchEncoded(leaf, a, b) ==
  LET found[i \in 0 .. Len(leaf)] ==
        IF i = 0 THEN << >>
        ELSE IF InRange(leaf[i].key, a, b) THEN Append(found[i - 1], leaf[i])
        ELSE found[i - 1]
  IN  found[Len(leaf)]

DecodeKey(k) == Decode(Encoder, k)
Decodable(leaf) == \A i \in 1 .. Len(leaf) : Throws \notin Range(DecodeKey(leaf[i].key))

\* _containsKey, _findPartitionIndex.
ContainsKey(part, k) ==
  /\ part.startKey # NoKey => Compare(Encoder, k, part.startKey) >= 0
  /\ part.endKey # NoKey => Compare(Encoder, k, part.endKey) < 0

FindPartitionIndex(k) == SelectInSeq(partitions, LAMBDA part : ContainsKey(part, k))

\* _findMedianKey.
FindMedianKey(leaf) ==
  KeyOf(DecodeKey(leaf[(Len(leaf) \div 2) + 1].key))

\* Mutant of MoveData: the moved entries also stay.
CopyData(leaf, pivot) ==
  LET data == RangeSearchEncoded(leaf, pivot, NoKey)
      moved[i \in 0 .. Len(data)] ==
        IF i = 0 THEN [from |-> leaf, to |-> << >>]
        ELSE [from |-> leaf,
              to   |-> InsertEncoded(moved[i - 1].to, KeyOf(DecodeKey(data[i].key)),
                                     data[i].row)]
  IN  moved[Len(data)]

\* _moveData: entry by entry, into the new partition and out of the old one.
MoveEntry(leaves, k, row) ==
  [from |-> RemoveEncoded(leaves.from, k), to |-> InsertEncoded(leaves.to, k, row)]

MoveData(leaf, pivot) ==
  LET data == RangeSearchEncoded(leaf, pivot, NoKey)
      moved[i \in 0 .. Len(data)] ==
        IF i = 0 THEN [from |-> leaf, to |-> << >>]
        ELSE MoveEntry(moved[i - 1], KeyOf(DecodeKey(data[i].key)), data[i].row)
  IN  moved[Len(data)]

\* _splitPartition.
SplitPartition(parts, p) ==
  LET old    == parts[p]
      pivot  == FindMedianKey(old.leaf)
      leaves == MoveData(old.leaf, pivot)
  IN  InsertAt(ReplaceAt(parts, p, [old EXCEPT !.endKey = pivot, !.leaf = leaves.from]),
               p + 1, [old EXCEPT !.startKey = pivot, !.leaf = leaves.to])

-----------------------------------------------------------------------------
Init ==
  /\ caller \in DOMAIN Callers
  /\ partitions = << [startKey |-> NoKey, endKey |-> NoKey, leaf |-> << >>] >>
  /\ inserted = {}

\* insert(value, rowPtr), of a value whose key is new.  A key of the full
\* partition that cannot be decoded throws in _findMedianKey: the new entry is
\* in, the split does not happen.
Insert(v) ==
  LET p     == FindPartitionIndex(KeyOf(v))
      grown == [partitions EXCEPT ![p].leaf = InsertEncoded(@, KeyOf(v), v)]
      full  == Len(grown[p].leaf) > MaxPartitionSize
  IN  /\ KeyOf(v) \notin {KeyOf(w) : w \in inserted}
      /\ p # 0
      /\ partitions' = IF full /\ Decodable(grown[p].leaf)
                       THEN SplitPartition(grown, p)
                       ELSE grown
      /\ inserted' = inserted \cup {v}
      /\ UNCHANGED caller

Next == \E v \in Values : Insert(v)

Spec == Init /\ [][Next]_vars

-----------------------------------------------------------------------------
\* search(value).
Search(v) ==
  LET p == FindPartitionIndex(KeyOf(v))
      i == Find(partitions[p].leaf, KeyOf(v))
  IN  IF p = 0 \/ i = 0 THEN NoRow ELSE partitions[p].leaf[i].row

\* _rangeIntersects.
RangeIntersects(part, a, b) ==
  /\ (part.endKey # NoKey /\ a # NoKey) => Compare(Encoder, part.endKey, a) > 0
  /\ (part.startKey # NoKey /\ b # NoKey) => Compare(Encoder, part.startKey, b) < 0

\* rangeSearch(a, b), by encoded bounds.
RangeSearch(a, b) ==
  FlattenSeq([p \in Parts |->
    IF RangeIntersects(partitions[p], a, b)
    THEN RangeSearchEncoded(partitions[p].leaf, a, b)
    ELSE << >>])

-----------------------------------------------------------------------------
\* The leaves hold inserted rows; their keys ascend by compareBytes and are within
\* the bounds of their partition.
TypeOK ==
  /\ inserted \subseteq Values
  /\ \A p \in Parts :
       LET leaf == partitions[p].leaf
       IN  /\ {e.row : e \in Range(leaf)} \subseteq inserted
           /\ \A i \in 1 .. Len(leaf) : ContainsKey(partitions[p], leaf[i].key)
           /\ \A i \in 1 .. Len(leaf) - 1 :
                Compare(Encoder, leaf[i].key, leaf[i + 1].key) < 0

\* Through any number of splits, each of which decodes the keys it moves and
\* encodes them again, search answers the row that was inserted under the key of
\* the value it is asked for, and null when there is none.  That row is another
\* value's when that one was inserted under the same key (integers above 32 bits,
\* lone surrogates).
SearchFindsInserted ==
  \A v \in Values :
    LET same == {w \in inserted : KeyOf(w) = KeyOf(v)}
    IN  IF same = {} THEN Search(v) = NoRow ELSE Search(v) \in same

\* The keys a full range search returns are, decoded, the inserted values, each
\* once: what the encoder writes, through any number of splits, is what was put
\* in.
RangeSearchDecodes ==
  (\A v \in inserted : Exact(Encoder, v)) =>
    LET found == RangeSearch(NoKey, NoKey)
    IN  /\ Len(found) = Cardinality(inserted)
        /\ {DecodeKey(e.key) : e \in Range(found)} = inserted
        /\ \A e \in Range(found) : DecodeKey(e.key) = e.row

\* For integers and doubles that are not negative, texts, blobs and compound
\* keys of these, the order of keys is that of values: a range search returns
\* the values of its range, in ascending order.
RangeSearchByValue ==
  \A a, b \in Values : (\A v \in inserted \cup {a, b} : Ordered(Encoder, v)) =>
    LET found == RangeSearch(KeyOf(a), KeyOf(b))
        rows  == [i \in 1 .. Len(found) |-> found[i].row]
    IN  /\ \A i \in 1 .. Len(rows) - 1 : Less(Encoder, rows[i], rows[i + 1])
        /\ {v \in inserted : ~ Less(Encoder, v, a) /\ Less(Encoder, v, b)} \subseteq Range(rows)
        /\ Range(rows) \subseteq {v \in inserted : ~ Less(Encoder, v, a) /\ ~ Less(Encoder, b, v)}

\* No partition stays above maxPartitionSize: _findMedianKey never throws, and
\* each split, though it finds the entries it moves by keys that were decoded and
\* encoded again, makes two partitions of at most half the size.
SplitsHappen ==
  \A p \in Parts : Len(partitions[p].leaf) <= MaxPartitionSize

\* With the keys taken for their ranks, the index implements PartitionedIndex,
\* whose keys are integers: encoded keys are totally ordered, and the decoding and
\* encoding of a split leaves them what they were.
Ranks ==
  [c \in DOMAIN Callers |->
    LET encoder == Callers[c].encoder
        keys == {Encode(encoder, v) : v \in Callers[c].values}
    IN  [k \in keys |-> Cardinality({j \in keys : Compare(encoder, j, k) < 0})]]
Rank(k) ==
  CASE k = NoKey -> NoKey
    [] k # NoKey /\ k \in DOMAIN Ranks[caller] -> Ranks[caller][k]
    [] OTHER -> NoRow
RankSet == UNION {Range(Ranks[c]) : c \in DOMAIN Callers}
RankedEntries(leaf) == {[key |-> Rank(e.key), row |-> 0] : e \in Range(leaf)}
RankedPartition(part) ==
  [startKey |-> Rank(part.startKey), endKey |-> Rank(part.endKey),
   entries |-> RankedEntries(part.leaf)]
RankedPartitions == [p \in Parts |-> RankedPartition(partitions[p])]
Ranked == INSTANCE PartitionedIndex WITH
            Keys <- RankSet, Rows <- {0}, partitions <- RankedPartitions
ImplementsPartitionedIndex == Ranked!Spec
=============================================================================
