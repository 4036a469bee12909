SPECIFICATION FairSpec
CONSTANTS
  Conn = {c1, c2}
  Fd = {f1}
  NULL = NULL
  MaxClients = 2
  MaxActive = 1
  MaxEvents = 2
  DestroyHeld = "ok"
  Leave = {"close", "fin", "rst"}
  AllocMayFail = TRUE
  Unloads = FALSE
INVARIANT UniqueSocket
PROPERTIES
  EventsBroadcast
  ServerReturnsToPoll
