SPECIFICATION Spec
CONSTANTS
  Array <- MCArray
  Transfers <- MCTransfers
  NBuf = 2
  MaxAio = 1
  MaxReq = 2
  MaxTransfers = 2
  Shapes <- MCShapes
INVARIANTS TypeOK LayoutSound CompletedIsDone TablesSound
PROPERTIES NoReuseInFlight ProbesSucceed
