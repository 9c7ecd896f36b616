CONSTANTS
  Stmt <- MCAddr
  Addr <- MCAddr
  Byte <- MCByte
  TRAPINST = "int3"
  Lo <- MCLo
  Succ <- MCSucc
  Code <- MCCode
  Start = 1
  Conditional <- MCConditional
  CharMax = 3
  MaxSteps = 2
  MaxCycles = 2
  MaxAlarms = 1
  Signals = TRUE
  Untraced = TRUE
  Prompt = TRUE
SPECIFICATION FairSpec
INVARIANTS
  TypeOK
  TextOwned
  Polled
  SettledIsTrue
  PatientNoSkip
  CloseIsClean
PROPERTIES
  EventNoticed
  TracedStopHonoured
CHECK_DEADLOCK FALSE
