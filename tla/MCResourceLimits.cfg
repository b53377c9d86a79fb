SPECIFICATION Spec
CONSTANTS
    alice = alice
    bob = bob
    Account = {alice, bob}
    P = 5
    MaxWord = 30
    Window = 2
    BlockMax = 4
    Target = 1
    Periods = 2
    Multiplier = 2
    Contract <- Down
    Expand <- Up
    MemCost = 1
    Limits <- TwoLimits
    Deltas <- GrowShrink
    Units = {2}
    Deferred <- OneDelay
    MaxSlot = 3
    MaxMem = 3
INVARIANT TotalsExact
INVARIANT MemWithinLimit
INVARIANT CpuBillFits
INVARIANT CloseToExact
CHECK_DEADLOCK FALSE
