CONSTANTS
  Stmt <- MCAddr
  Addr <- MCAddr
  Byte <- MCByte
  TRAPINST = "int3"
  Lo <- MCLo
  Succ <- MCSucc
  Code <- MCCode
  Start = 1
  Conditional <- MCNone
  CharMax = 3
  MaxSteps = 1
  MaxCycles = 2
  MaxAlarms = 1
  Signals = TRUE
  Untraced = TRUE
  Prompt = TRUE
SPECIFICATION FairSpec
PROPERTIES
  StopHonoured
CHECK_DEADLOCK FALSE
