CONSTANTS
  Block <- MCBlock
  Genesis = "g"
  prev <- MCPrev
  num <- MCNum
  lib <- MCLib
  rank <- MCRank
  anc <- MCAnc
  MaxNum = 5
  InvalidSets = {{"a3"}}
  Modes = {"SPECULATIVE", "IRREVERSIBLE"}
  Scratch = Scratch
  NoState = NoState
  NoFile = NoFile
SPECIFICATION Spec
INVARIANTS
  ReversalKnowsFork
