CONSTANTS
  Index = {0, 2, 15}
  Override <- MCOverride
  ButtonLine = 15
  MaxEdges = 2
  MaxCmds = 3
  MaxResets = 1
  ReopenWays = {"bus", "config", "ctrl"}
SPECIFICATION LiveSpec
INVARIANTS TypeOK LinesOwned EdgeKept Announced
PROPERTY Told
CHECK_DEADLOCK FALSE
