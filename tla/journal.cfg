CONSTANTS
  Overrides = TRUE
  Text = {"x", "y"}
  TILDE = TILDE
  length = 2
  Cushion = 0
  MaxLines = 3
  MaxCount = 3
  Screen = 2
  MaxSend = 2
  MaxOut = 1
SPECIFICATION Spec
INVARIANTS
  WindowIsRecent
  LinesAreTrue
  RequestsAreAnswered
PROPERTIES
  LinesCome
CHECK_DEADLOCK FALSE
