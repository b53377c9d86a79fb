SPECIFICATION Spec
CONSTANTS
    N = 2
    Rep = 2
    Mine = {0}
    OldAge = 2
    Ahead = 2
    MaxSlot = 6
    MaxCalls = 2
INVARIANT LoopAlive
INVARIANT NoSlotMissed
INVARIANT ProduceExpected
INVARIANT NeverSignTwice
CHECK_DEADLOCK FALSE
