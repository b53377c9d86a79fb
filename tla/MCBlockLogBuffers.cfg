\* The index is written in several buffers and the process dies between them.
CONSTANTS
  MaxBlock = 6
  FirstBlocks = {1, 2}
  BufLen = 2
  Pos <- MCPos
SPECIFICATION Spec
INVARIANTS
  IndexExactUnlessCut
