\* Four of five producers in turn, or three of them: one is silent, one signs any valid
\* header, one restarts.  Schedules keep their size, shrink and grow again.
CONSTANTS
  Producer = {"p", "q", "r", "s", "t"}
  Initial = "p"
  Schedules <- Rotating
  Silent = {"r"}
  Restarting = {"q"}
  Free = {"s"}
  Confirms = {0, 2}
  MaxTracked = 4
  MaxGap = 2
  MaxBlock = 12
  Word = 64
SPECIFICATION Spec
INVARIANTS
  DistinctConfirmers
  NewScheduleAccepted
  OwnBlockAccepted
PROPERTY
  ChildPreferred
\* the branch ends at MaxBlock
CHECK_DEADLOCK FALSE
