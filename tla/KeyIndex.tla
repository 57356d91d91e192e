------------------------------ MODULE KeyIndex ------------------------------
(***************************************************************************)
(* What an index over unique keys promises: a finite map from encoded keys *)
(* to row pointers.  The partitioned index and the B+ tree implement it;   *)
(* a caller of either never sees partitions, nodes or splits.              *)
(***************************************************************************)
CONSTANTS Keys, Rows

VARIABLE entries    \* the stored entries, at most one for a key

Entry == [key : Keys, row : Rows]

KeysOf(S) == {e.key : e \in S}

Init == entries = {}

\* insert(value, rowPtr) of a key that is not in the index.
Insert(k, r) ==
  /\ k \notin KeysOf(entries)
  /\ entries' = entries \cup {[key |-> k, row |-> r]}

\* removeEncoded(keyBytes) of a key that is in the index.
Remove(k) ==
  /\ k \in KeysOf(entries)
  /\ entries' = {e \in entries : e.key # k}

Next ==
  \/ \E k \in Keys, r \in Rows : Insert(k, r)
  \/ \E k \in Keys : Remove(k)

Spec == Init /\ [][Next]_entries
=============================================================================
