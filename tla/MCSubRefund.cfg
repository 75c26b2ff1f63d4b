SPECIFICATION Spec
CONSTANTS
    Subs = {1}
    Total <- OneTotal
    Lasts = 2
    Requests = {r1}
    Resetter = resetter
    Costs = {1, 2}
    Faults = {"db"}
    Horizon = 1
CHECK_DEADLOCK FALSE
INVARIANT RefundIdempotent
