SPECIFICATION Spec
CONSTANTS
    Tasks = {t1}
    SunoTasks = {}
    NoTask = NoTask
    Pollers = {p1}
    Fetchers = {f1}
    Realtime = FALSE
    Upscaling = TRUE
    Costs = {1}
    Faults = {}
    Budget = 1
PROPERTY RefundedOnce
