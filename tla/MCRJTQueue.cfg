SPECIFICATION Spec
CONSTANTS
  Byte = {0, 1}
  MaxLen = 3
  MaxXfer = 4
INVARIANTS
  RingInv
PROPERTIES
  ImplementsFIFO
