SPECIFICATION FairSpec
CONSTANTS
  Size = 4
  Node <- TwoNodes
  Layouts <- StartingLayouts
  Divisions <- LargeLayouts
  MaxOps = 1
  MaxInits = 2
  MaxNum = 2
INVARIANTS TypeOK MastersServeTheirNode QuitIsLast SemaphoresOutliveAccs
PROPERTY FinalizeReturns
