---------------------- MODULE MCUnifiedPartitionIndex -----------------------
(***************************************************************************)
(* Small instances of UnifiedPartitionIndex for TLC.                       *)
(***************************************************************************)
EXTENDS UnifiedPartitionIndex

SomeKeys == 1 .. 8
SomeRows == 1001 .. 2002

\* As in the tests, the row of a key is determined by the key.
UniqueEntries == {[key |-> k, row |-> k + 1000] : k \in 1 .. 8}

DuplicateEntries == {[key |-> k, row |-> k + r] : k \in 1 .. 2, r \in {1000, 2000}}
=============================================================================
