SPECIFICATION FairSpec
CONSTANTS
  Worker <- OneNodeWorkers
  Master <- OneNodeMasters
  MasterOf <- OneNodeMasterOf
  Host <- OneNodeHost
  MaxMutexes = 1
  Counts <- AnyCount
  MaxHeld = 1
INVARIANTS TypeOK MutualExclusion RepliesMatchReceives DestroyFindsUnlocked
  IndicesAllocated
PROPERTY CallsReturn
