SPECIFICATION FairSpec
CONSTANTS
    Subs = {1, 2}
    Total <- TwoTotals
    Lasts = 1
    Requests = {r1}
    Resetter = resetter
    Costs = {2, 3}
    Faults = {}
    Horizon = 1
CHECK_DEADLOCK FALSE
 
PROPERTIES DueIsReset RefundEnds
