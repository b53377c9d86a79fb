\* The branch walks and the promise of fork_database.hpp.
CONSTANTS
  Block <- MCBlock
  Genesis = "g"
  prev <- MCPrev
  num <- MCNum
  lib <- MCLib
  rank <- MCRank
  anc <- MCAnc
  MaxNum = 4
  NoFile = NoFile
  Missing = Missing
  Throws = Throws
SPECIFICATION Spec
INVARIANTS
  FetchBranchThrowsOnUnknown
