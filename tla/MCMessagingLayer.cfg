\* Crossing RPCs of both kinds and a command with a named callback.
CONSTANTS
  n1 = n1
  n2 = n2
  ping = ping
  fetch = fetch
  notify = notify
  Nodes = {n1, n2}
  Requests = {ping, fetch, notify}
  Source <- MCSource3
  Dest <- MCDest3
  Rpcs = {ping, fetch}
  Deferred = {fetch}
  MaxCrashes = 1
SPECIFICATION FairSpec
INVARIANTS
  TypeOK
  UnacknowledgedIsSaved
  AckFindsCallback
PROPERTIES
  ImplementsRpcService
  RpcAnswered
  AnsweredIsRemoved
\* Every request may have been sent and every message lost.
CHECK_DEADLOCK FALSE
