CONSTANTS
  MaxCmds = 4
  MaxRetries = 2
  MaxResets = 2
  ReopenWays = {"config", "ctrl"}
  RspLens = {2, 3}
SPECIFICATION LiveSpec
INVARIANT AssertsHold
CHECK_DEADLOCK FALSE
