CONSTANTS
  Addr <- MCAddr
  Kind <- MCKind
  Succ <- MCSucc
  Callee = 1
  Stmts <- MCStmts
  Stack0 <- MCStack0
  Start = 1
  Scratch = 20
  Words <- MCWords
  Data <- MCData
  MaxDepth = 4
  MaxSigs = 0
  TRAPINST = "trap"
SPECIFICATION Spec
PROPERTIES
  TopReturns
CHECK_DEADLOCK FALSE
