SPECIFICATION Spec
CONSTANTS
  Symbols <- MCSymbols
  Func <- MCFunc
  Fp <- MCFp
  Dim = 2
  Mem0 <- MCMem0
  Stores <- MCStores
  Typed <- MCTyped
  Derived <- MCDerived
  MaxNodes = 5
  MaxLines = 3
INVARIANT TypeOK
PROPERTIES
  ShownIsMeant
  SpiesAreTrue
