SPECIFICATION FairPluginSpec
INVARIANTS
  MutexesUsable
  UnloadedClean
PROPERTY UnloadEnds
\* The unload waits for ever for a message thread that waits for itself.
CHECK_DEADLOCK FALSE
