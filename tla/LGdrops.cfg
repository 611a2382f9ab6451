CONSTANTS
  Capacity = 5
  Chunk = 2
  Lens = {1, 2, 4}
  Ids = 8
SPECIFICATION LiveSpec
INVARIANTS TypeOK WholeMessages
PROPERTY DropsNoticed
