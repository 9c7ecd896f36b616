CONSTANTS
  Func = {main, f, g}
  Main = main
  NoFrame = NoFrame
  MaxDepth = 3
  StackLimit = 3
SPECIFICATION Spec
INVARIANTS
  FramesAgree
PROPERTIES
  WindowStays
SYMMETRY Callees
CHECK_DEADLOCK FALSE
