SPECIFICATION Spec
CHECK_DEADLOCK FALSE
CONSTANTS
  Datatype <- DblDcpl
  ma_sizeof <- Sizes
  ma_base <- Bases
  AdSize = 80
  GuardSize = 4
  Alignment = 8
  SizeMod = 1048576
  DefaultTotal = 524288
  TableEntries = 1
  InitArgs <- Regions
  Segments = {1032}
  Counts = {1, 13}
  NumAligns = {0, 6}
  AlignAnyTime = FALSE
  MaxLost = 1
INVARIANTS TypeOK SegmentTiled HandlesSound InquiriesHold
