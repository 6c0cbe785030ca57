SPECIFICATION FairSpec
CONSTANTS
  Worker <- TwoWorkers
  Master <- OneMaster
  MasterOf <- TwoMasterOf
  Allowed <- RmwAcc
  Length <- LongShort
  Shortcut <- SelfShortcuts
  HeaderSize = 1
  ScaleSize = 1
  eager_threshold = 4
  max_message_size = 2
  Value <- Values
  MaxOps <- ThreeOne
INVARIANTS ChannelsInStep
PROPERTIES ImplementsMemory NothingWaitsForever
