SPECIFICATION Spec
CONSTANTS
    a = a
    b = b
    Feature = {a, b}
    Needs <- Dependent
    PreactRequired = {b}
    Earliest <- FromSlot
    MaxBlocks = 4
    MaxList = 2
    MaxFork = 1
    Gaps = {1}
INVARIANT RecordsAgree
PROPERTY OwnBlockStarts ScheduleKept
