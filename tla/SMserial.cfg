CONSTANTS
  Index = {0, 2, 4}
  Override <- MCOverride
  Fmts <- MCFmts
  MaxData = 3
  MaxLength = 2
  MaxRsp = 9
  SizeWrap = 8
SPECIFICATION Spec
INVARIANTS TypeOK ConfigOwns ResponseParses BusReleased
