CONSTANTS
  Stmt <- MCAddr
  Addr <- MCAddr
  Byte <- MCByte
  TRAPINST = "int3"
  Lo <- MCLo
  Succ <- MCSucc
  Code <- MCCode
  Start = 1
  Conditional <- MCNone
  CharMax = 3
  MaxSteps = 2
  MaxCycles = 1
  MaxAlarms = 1
  Signals = FALSE
  Untraced = FALSE
  Prompt = FALSE
SPECIFICATION Spec
INVARIANTS
  NoSkip
CHECK_DEADLOCK FALSE
