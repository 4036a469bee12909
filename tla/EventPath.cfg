SPECIFICATION FairSpec
CONSTANTS
  Session = {s1}
  Node = {n1, n2}
  MaxQueueSize = 2
  MaxNotified = 4
  Conn = {c1}
  Fd = {f1}
  NULL = NULL
  MaxClients = 1
  MaxActive = 1
  DestroyHeld = "busy"
  Leave = {}
  AllocMayFail = FALSE
INVARIANT SeenInOrder
PROPERTY AcceptedIsSeen
\* The message thread may wait for itself, with nothing left to do.
CHECK_DEADLOCK FALSE
