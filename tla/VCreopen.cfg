CONSTANTS
  MaxCmds = 4
  MaxRetries = 2
  MaxResets = 2
  ReopenWays = {"bus", "config"}
  RspLens = {2, 3}
SPECIFICATION LiveSpec
INVARIANTS TypeOK JobsTracked Listening QuietRepliesIntact
PROPERTIES OldDataIsOld ImplementsService Served
CHECK_DEADLOCK FALSE
