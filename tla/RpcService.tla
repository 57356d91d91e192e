----------------------------- MODULE RpcService -----------------------------
(***************************************************************************)
(* What the messaging layer promises for each request: the caller asks,    *)
(* the handler of the destination executes it at most once, and only then  *)
(* does the caller hear of it, at most once.  Nothing promises an answer.  *)
(***************************************************************************)
CONSTANT Requests

VARIABLE phase   \* how far each request has come

Phases == {"idle", "requested", "executed", "ended"}

Init == phase = [r \in Requests |-> "idle"]

Advance(r, from, to) ==
  /\ phase[r] = from
  /\ phase' = [phase EXCEPT ![r] = to]

Request(r) == Advance(r, "idle", "requested")
Execute(r) == Advance(r, "requested", "executed")
End(r)     == Advance(r, "executed", "ended")

Next == \E r \in Requests : Request(r) \/ Execute(r) \/ End(r)

Spec == Init /\ [][Next]_phase
=============================================================================
