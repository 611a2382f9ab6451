CONSTANTS
  PageSize = 4
  RowPages = 2
  Rows = 2
  MagicAt = 5
  MaxPacket = 3
  CountDown = 1
  Sizes = {16}
  MaxImages = 1
  MaxLosses = 1
  Disciplined = TRUE
SPECIFICATION Spec
INVARIANT BootedWhole
CHECK_DEADLOCK FALSE
