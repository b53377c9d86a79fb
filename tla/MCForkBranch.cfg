\* Every order of arrival, validation, removal, root advance and restart, and the branch
\* walks in every state.
CONSTANTS
  Block <- MCBlock
  Genesis = "g"
  prev <- MCPrev
  num <- MCNum
  lib <- MCLib
  rank <- MCRank
  anc <- MCAnc
  MaxNum = 4
  NoFile = NoFile
  Missing = Missing
  Throws = Throws
SPECIFICATION Spec
INVARIANTS
  Linked
  HeadIsBest
  NeverThrows
  BranchWalksExact
PROPERTIES
  HeadNotWorse
