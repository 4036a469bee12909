SPECIFICATION FairSpec
CONSTANTS
  Opcodes = {1, 8}
  Lengths = {0, 125, 126, 65535, 65536, 2147483647}
  MaxFrames = 2
INVARIANTS
  FramesAgree
PROPERTY FramesArrive
\* The sender may stop with everything read.
CHECK_DEADLOCK FALSE
