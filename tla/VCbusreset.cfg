CONSTANTS
  MaxCmds = 2
  MaxRetries = 0
  MaxResets = 1
  ReopenWays = {"bus"}
  RspLens = {2, 3}
SPECIFICATION Spec
INVARIANT AssertsHold
CHECK_DEADLOCK FALSE
