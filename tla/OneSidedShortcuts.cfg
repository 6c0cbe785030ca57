SPECIFICATION Spec
CONSTANTS
  Worker <- TwoWorkers
  Master <- OneMaster
  MasterOf <- TwoMasterOf
  Allowed <- Mixed
  Length <- ShortLong
  Shortcut <- GetShortcuts
  HeaderSize = 1
  ScaleSize = 1
  eager_threshold = 4
  max_message_size = 2
  Value <- Values
  MaxOps <- ThreeOne
INVARIANTS TypeOK UnflaggedMeansDone
PROPERTY ImplementsMemory
