\* Two clients and two files, one of them perhaps in the queue.
SPECIFICATION Spec
CONSTANTS
  Files = {f1, f2}
  Clients = {c1, c2}
  MaxOpens = 3
  MaxCalls = 2
  MaxFaults = 1
INVARIANTS
  HandlesCounted
  ExclusionHolds
PROPERTIES
  ClosedInTheEnd
\* Once all calls are made and nothing is in the queue nothing more happens.
CHECK_DEADLOCK FALSE
