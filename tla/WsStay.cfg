SPECIFICATION Spec
CONSTANTS
  Conn = {c1, c2, c3, c4}
  Fd = {f1, f2, f3, f4}
  NULL = NULL
  MaxClients = 2
  MaxActive = 3
  MaxEvents = 3
  DestroyHeld = "busy"
  Leave = {}
  AllocMayFail = FALSE
  Unloads = TRUE
SYMMETRY Interchangeable
INVARIANTS
  EachEventOnce
  HandshakeFirst
  UpgradedHasSlot
  LostOnlyAtLimit
  UnloadClosesClients
\* The unload joins the message thread, which may wait for a mutex it holds.
CHECK_DEADLOCK FALSE
