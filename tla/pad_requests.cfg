CONSTANTS
  Obj <- MCOne
  Kinds <- MCOneKinds
  Text <- MCText
  TILDE = "~"
  Cushion = 0
  MaxKey = 2
  Screen = 2
  MaxSend = 2
  MaxOut = 1
  MaxUniq = 2
  Reuses = FALSE
SPECIFICATION Spec
INVARIANTS
  RequestsArePending
  CallsAreMeant
  WindowIsThere
PROPERTIES
  LinesCome
CHECK_DEADLOCK FALSE
