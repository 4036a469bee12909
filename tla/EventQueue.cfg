SPECIFICATION FairSpec
CONSTANTS
  Session = {s1, s2}
  Node = {n1, n2, n3, n4}
  NULL = NULL
  MaxQueueSize = 2
  MaxEvents = 2
INVARIANTS
  TypeOK
  ListShape
  Ownership
  CountMatches
  QueueBound
  SessionOrder
  CrashOnlyAfterDrain
PROPERTIES
  UnloadEnds
  ImplementsFifo
