SPECIFICATION Spec
CONSTANTS
    Subs = {1}
    Total <- OneTotal
    Lasts = 2
    Requests = {r1, r2}
    Resetter = resetter
    Costs = {1, 2}
    Faults = {"db"}
    Horizon = 1
CONSTRAINT SomeFresh
SYMMETRY Symmetry
CHECK_DEADLOCK FALSE
INVARIANTS QuotaInv NotOvercharged UsedExact
