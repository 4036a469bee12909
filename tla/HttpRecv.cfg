SPECIFICATION RecvSpec
CONSTANTS
  MaxLines = 4
  Requests <- MCRequests
  Size <- MCSize
  MaxCalls = 3
INVARIANTS
  StallsOnlyOnSplit
  EarlyOnlyOnStale
\* The server thread may wait for ever.
CHECK_DEADLOCK FALSE
