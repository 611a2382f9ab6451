CONSTANTS
 RxLen = 3
 QueueLen = 3
 ChunkLen = 2
 PosWrap = 4
 JobWrap = 3
 PacketLens = {0, 2, 3}
 MaxBytes = 6
 MaxUpsets = 1
SPECIFICATION LiveSpec
INVARIANTS TypeOK NothingLost BuffersApart TransmitTracked Receiving
PROPERTIES Forwarded
CHECK_DEADLOCK FALSE
