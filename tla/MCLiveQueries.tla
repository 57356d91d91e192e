--------------------------- MODULE MCLiveQueries ----------------------------
(***************************************************************************)
(* A small instance of LiveQueries for TLC: two nodes that register the    *)
(* same live query, one that deregisters it, registrations that cannot     *)
(* succeed, and queries of each kind.                                      *)
(***************************************************************************)
EXTENDS LiveQueries

CONSTANTS node1, node2, d, quoted, odd, live, literal

\* The text of odd does not matter: it is rejected first.
TextOf ==
  [c \in {node1, node2, d, odd, quoted} |-> IF c = quoted THEN literal ELSE live]
RecipientsOf == [c \in {node1, node2, odd, quoted} |-> c]
=============================================================================
