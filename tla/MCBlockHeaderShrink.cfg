\* A schedule that shrinks from four producers to three: the parent is preferred.
CONSTANTS
  Producer = {"p", "q", "r", "s"}
  Initial = "p"
  Schedules <- Shrinking
  Silent = {"r"}
  Restarting = {}
  Free = {}
  Confirms = {}
  MaxTracked = 8
  MaxGap = 2
  MaxBlock = 14
  Word = 64
SPECIFICATION Spec
PROPERTY
  LibKept
CHECK_DEADLOCK FALSE
