CONSTANTS
  RingLen = 4
  TxLen = 2
  ZlpCalls = 2
  DataBits = {8}
  MaxBytes = 6
  MaxUpsets = 1
SPECIFICATION LiveSpec
INVARIANTS TypeOK InOrder NothingLost BuffersApart OngoingTracked
PROPERTIES Delivered
CHECK_DEADLOCK FALSE
