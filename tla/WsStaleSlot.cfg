\* logger.c:462 against a reused descriptor: violated.
SPECIFICATION Spec
CONSTANTS
  Conn = {c1, c2}
  Fd = {f1}
  NULL = NULL
  MaxClients = 1
  MaxActive = 1
  MaxEvents = 1
  DestroyHeld = "busy"
  Leave = {"rst"}
  AllocMayFail = FALSE
  Unloads = FALSE
SYMMETRY Interchangeable
INVARIANT RequestFromClient
