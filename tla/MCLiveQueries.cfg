\* Any four of eight calls, in any order and at any time.
CONSTANTS
  node1 = node1
  node2 = node2
  d = d
  quoted = quoted
  odd = odd
  live = live
  literal = literal
  Registrations = {node1, node2, odd, quoted}
  Deregistrations = {d}
  Queries = {change, read, strange}
  Text <- TextOf
  Recipients <- RecipientsOf
  Modifying = {change}
  Unparsable = {odd, strange}
  Quoting = {literal}
  MaxCalls = 4
SPECIFICATION FairSpec
INVARIANTS
  TypeOK
  RegistrationRemembered
  DeregisteredIsGone
  AnswersTellWhatRan
PROPERTIES
  CallsEnd
\* Every call may have ended, with the process running or not.
CHECK_DEADLOCK FALSE
