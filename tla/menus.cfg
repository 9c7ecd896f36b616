CONSTANTS
  Text <- MCText
  Cut <- MCCut
  Item <- MCItem
  Titles <- MCTitles
  InitialSize = 2
  MaxItems = 3
  MaxCartes = 2
  MaxSize = 2
  MaxSend = 1
SPECIFICATION Spec
INVARIANTS
  MadeIsMeant
  EntriesAreMeant
  Defined
CHECK_DEADLOCK FALSE
