CONSTANTS
  PageSize = 4
  RowPages = 2
  Rows = 2
  MagicAt = 5
  MaxPacket = 3
  CountDown = 1
  Sizes = {7, 8, 16, 17}
  MaxImages = 2
  MaxLosses = 2
  Disciplined = TRUE
SPECIFICATION LiveSpec
INVARIANTS TypeOK StreamStored BootedUnmixed VerifyPasses
PROPERTIES UpdateTakesEffect DfuModeReached
CHECK_DEADLOCK FALSE
