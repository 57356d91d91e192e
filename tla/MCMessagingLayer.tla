-------------------------- MODULE MCMessagingLayer --------------------------
(***************************************************************************)
(* Small instances of MessagingLayer for TLC: two nodes that send to each  *)
(* other.                                                                  *)
(***************************************************************************)
EXTENDS MessagingLayer, TLC

CONSTANTS n1, n2, ping, fetch, notify

\* n1 pings n2 while n2 fetches n1's caches.
MCSource == ping :> n1 @@ fetch :> n2
MCDest   == ping :> n2 @@ fetch :> n1

\* n1 also sends a command that names its callback.
MCSource3 == MCSource @@ notify :> n1
MCDest3   == MCDest @@ notify :> n2
=============================================================================
