SPECIFICATION Spec
CONSTANTS
  Writers = {w1, w2}
  Readers = {r1}
  Inodes = {i1, i2, i3}
  NoFile = NoFile
  Blocks = 2
  Overlap = FALSE
  MaxRenders = 4
INVARIANTS TypeOK WholeScrape Inductive
PROPERTY ImplementsRegister
CHECK_DEADLOCK FALSE
