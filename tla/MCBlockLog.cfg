\* The index is written in several buffers; the process may die at any step, the machine
\* while the log is open, closed or being indexed.
CONSTANTS
  MaxBlock = 5
  FirstBlocks = {1, 2}
  BufLen = 2
  Pos <- MCPos
SPECIFICATION Spec
INVARIANTS
  IndexExact
  NothingLost
