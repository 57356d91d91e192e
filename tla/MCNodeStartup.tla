--------------------------- MODULE MCNodeStartup ----------------------------
(***************************************************************************)
(* Small instances of NodeStartup for TLC: every node may be the first or  *)
(* join through any other.                                                 *)
(***************************************************************************)
EXTENDS NodeStartup
=============================================================================
