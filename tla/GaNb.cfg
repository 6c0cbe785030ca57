SPECIFICATION Spec
CONSTANTS
  NbMax = 2
  MsgMax = 4
  NULL = NULL
  User = {u1}
  TagMod = 3
  PutSlots = 1
  Patches <- Mixed
  MaxOps = 3
  Shapes <- TwoMessages
CHECK_DEADLOCK FALSE
INVARIANTS TypeOK RingIntact HandleListsIntact AnswersHonest
PROPERTIES WaitCompletes CallsReturn
