CONSTANTS
  RxLen = 2
  QueueLen = 2
  ChunkLen = 2
  PosWrap = 4
  JobWrap = 3
  PacketLens = {1, 2}
  MaxBytes = 4
  MaxUpsets = 0
SPECIFICATION LiveSpec
PROPERTIES AllForwarded
CHECK_DEADLOCK FALSE
