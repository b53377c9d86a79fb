\* An end trim after an interrupted front trim leaves an index that open accepts.
CONSTANTS
  MaxBlock = 6
  FirstBlocks = {2}
  BufLen = 10
  Pos <- MCPos
SPECIFICATION Spec
INVARIANTS
  IndexExactUnlessHoled
