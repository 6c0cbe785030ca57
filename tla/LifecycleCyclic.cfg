SPECIFICATION FairSpec
CONSTANTS
  Size = 4
  Node <- TwoNodes
  Layouts <- CyclicLayouts
  Divisions <- NoLayouts
  MaxOps = 0
  MaxInits = 1
  MaxNum = 1
PROPERTY FinalizeReturns
CHECK_DEADLOCK FALSE
