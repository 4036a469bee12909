\* README.md:6-7 against a browser that is reset: violated.
SPECIFICATION FairSpec
CONSTANTS
  Conn = {c1}
  Fd = {f1}
  NULL = NULL
  MaxClients = 1
  MaxActive = 1
  MaxEvents = 3
  DestroyHeld = "busy"
  Leave = {"rst"}
  AllocMayFail = FALSE
  Unloads = FALSE
PROPERTY EventsBroadcast
\* The message thread may wait for itself, with the server thread gone.
CHECK_DEADLOCK FALSE
