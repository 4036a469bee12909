SPECIFICATION Spec
CONSTANTS
  Piece <- MCPiece
  Line <- MCLine
  HandshakeLine <- MCHandshakeLine
  Header <- MCHeader
  MaxHeaders = 2
INVARIANTS
  ServesPage
  AcceptsValid
\* One request is handled.
CHECK_DEADLOCK FALSE
