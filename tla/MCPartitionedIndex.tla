------------------------ MODULE MCPartitionedIndex --------------------------
(***************************************************************************)
(* A small instance of PartitionedIndex for TLC.                           *)
(***************************************************************************)
EXTENDS PartitionedIndex

MCKeys == 1 .. 7
=============================================================================
