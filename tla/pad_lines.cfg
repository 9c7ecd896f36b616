CONSTANTS
  Obj <- MCTwo
  Kinds <- MCTwoKinds
  Text <- MCText
  TILDE = "~"
  Cushion = 0
  MaxKey = 2
  Screen = 2
  MaxSend = 1
  MaxOut = 1
  MaxUniq = 3
  Reuses = FALSE
SPECIFICATION Spec
INVARIANTS
  KeysInOrder
  WindowsAgree
PROPERTIES
  KeepsPromise
CHECK_DEADLOCK FALSE
