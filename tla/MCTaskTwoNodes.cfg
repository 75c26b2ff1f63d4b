SPECIFICATION Spec
CONSTANTS
    Tasks = {t1}
    SunoTasks = {}
    NoTask = NoTask
    Pollers = {p1, p2}
    Fetchers = {}
    Realtime = FALSE
    Upscaling = TRUE
    Costs = {0, 1, 2}
    Faults = {"insert", "load", "cas", "funding", "token", "row", "crash", "hang"}
    Budget = 0
SYMMETRY Symmetry
INVARIANTS
    TypeOK
    TaskInv
PROPERTIES
    FundingBilledOnce
    TokenBilledOnce
