CONSTANTS
  Block <- MCBlock
  Genesis = "g"
  prev <- MCPrev
  num <- MCNum
  lib <- MCLib
  rank <- MCRank
  anc <- MCAnc
  MaxNum = 5
  InvalidSets <- MCInvalidSets
  Modes = {"SPECULATIVE", "IRREVERSIBLE"}
  Scratch = Scratch
  NoState = NoState
  NoFile = NoFile
SPECIFICATION Spec
INVARIANTS
  NeverFails
  StoresAgree
  BestBranchApplied
  IrreversibleForever
PROPERTIES
  FailedSwitchUndone
  RestartKeepsHead
  CallsEnd
