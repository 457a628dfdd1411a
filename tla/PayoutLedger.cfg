\* Claim packs of two months: one at a time with corrections, or two at once.
SPECIFICATION LedgerSpec
CONSTANTS
    ta1 = ta1  ta2 = ta2  get1 = get1  get2 = get2
    TAs = {ta1, ta2}
    Months = {1, 2}
    Baht = 2
    Calls = {get1, get2}
    First = get1
    Cap = 8
    Rates = {3, 4}
    Mode = "cut"
    Lumps = {7, 9}
    MaxHours = 2
    MaxTime = 4
    Workloads <- All
INVARIANTS
    LedgerTypeOK
    PacksPrintFrozenLump
    ReissueIsCurrent
    PoolHeld
    SharesAreFair
PROPERTIES
    LockedFigureStands
CHECK_DEADLOCK FALSE
