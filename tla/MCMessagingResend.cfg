\* A lost command, until the housekeeping timers have fired.
CONSTANTS
  n1 = n1
  n2 = n2
  ping = ping
  fetch = fetch
  notify = notify
  Nodes = {n1, n2}
  Requests = {ping, fetch}
  Source <- MCSource
  Dest <- MCDest
  Rpcs = {ping, fetch}
  Deferred = {fetch}
  MaxCrashes = 0
SPECIFICATION FairSpec
PROPERTIES
  LostIsResent
CHECK_DEADLOCK FALSE
