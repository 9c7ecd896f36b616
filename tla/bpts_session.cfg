CONSTANTS
  Stmt <- MCStmt
  Addr <- MCAddr
  Byte <- MCByte
  TRAPINST = "int3"
  Lo <- MCLo
  Image <- MCImage
  First = "A"
  Code <- MCCode
  Mapped <- MCMapped
SPECIFICATION Spec
INVARIANTS
  TypeOK
  TextIsProgramPlusTraps
  OneTrapPerAddress
  SavedIsOwn
  ClosedIsClean
PROPERTIES
  AllOrNothing
CHECK_DEADLOCK FALSE
