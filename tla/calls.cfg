CONSTANTS
  Addr <- MCAddr
  Kind <- MCKind
  Succ <- MCSucc
  Callee = 1
  Stmts <- MCStmts
  Stack0 <- MCStack0
  Start = 1
  Scratch = 20
  Words <- MCWords
  Data <- MCData
  MaxDepth = 4
  MaxSigs = 2
  TRAPINST = "trap"
SPECIFICATION FairSpec
INVARIANTS
  TypeOK
  TextRestored
PROPERTIES
  CallStepped
  ReturnStops
  IntoReturns
  DeathNoticed
CHECK_DEADLOCK FALSE
