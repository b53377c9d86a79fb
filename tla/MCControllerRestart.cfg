\* a3, the last block of the longer branch, is invalid and is pushed twice.
CONSTANTS
  Block <- MCBlock
  Genesis = "g"
  prev <- MCPrev
  num <- MCNum
  lib <- MCLib
  rank <- MCRank
  anc <- MCAnc
  MaxNum = 5
  InvalidSets = {{"a3"}}
  Modes = {"SPECULATIVE"}
  Scratch = Scratch
  NoState = NoState
  NoFile = NoFile
SPECIFICATION Spec
INVARIANTS
  PendingHeadStored
