\* Sessions nested three deep over three object ids.
CONSTANTS
  v1 = v1
  v2 = v2
  Val <- MCVal
  Absent = Absent
  MaxId = 2
  MaxDepth = 3
  MaxRevision = 3
SPECIFICATION Spec
SYMMETRY MCSymmetry
INVARIANTS
  FramesExact
  NoIllegalMerge
PROPERTIES
  ImplementsSnapshots
