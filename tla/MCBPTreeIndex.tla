--------------------------- MODULE MCBPTreeIndex ----------------------------
(***************************************************************************)
(* Callers of BPTreeIndex for TLC.  As in the tests, the row of a key is   *)
(* determined by the key (neighbouring keys have different rows); a        *)
(* duplicate brings a second row.                                          *)
(***************************************************************************)
EXTENDS BPTreeIndex

SomeKeys == 1 .. 6

RowOf(k) == k % 3

EntriesUpTo(n) == {[key |-> k, row |-> RowOf(k)] : k \in 1 .. n}

\* Unique keys, inserted and removed in any order.
UniqueKeys(order, n) ==
  [order |-> order, entries |-> EntriesUpTo(n),
   duplicates |-> FALSE, reinserts |-> FALSE, removes |-> TRUE]

\* Two rows for each of three keys, never removed: copies straddle leaf splits.
TwoRowsEach ==
  [order |-> 3,
   entries |-> {[key |-> k, row |-> RowOf(k + d)] : k \in 1 .. 3, d \in {0, 1}},
   duplicates |-> TRUE, reinserts |-> FALSE, removes |-> FALSE]

PlainCallers == {UniqueKeys(2, 5), UniqueKeys(3, 6), TwoRowsEach}

\* A caller that inserts a key again after it has removed it.
ReinsertingCallers == {[UniqueKeys(3, 4) EXCEPT !.reinserts = TRUE]}
=============================================================================
