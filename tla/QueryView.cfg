SPECIFICATION Spec
CONSTANTS
  MaxQueries = 4
  MaxEnds = 3
  LogSizes = {1, 2}
INVARIANTS
  AlignedPastFirst
  MarksAreTrue
  EndingsShown
  PanelIsCurrent
\* All queries have ended and every start was dropped: nothing is left to do.
CHECK_DEADLOCK FALSE
