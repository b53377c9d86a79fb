\* Two processes start, grow the file, use it and die in any order, alone or
\* with the machine.
CONSTANTS
  Proc = {p, q}
  Page = {g, h}
  Value = {1, 2}
  NoProc = NoProc
SPECIFICATION Spec
SYMMETRY MCSymmetry
INVARIANTS
  CleanFileExact
  OneUser
PROPERTIES
  OpensSaved
