SPECIFICATION FairSpec
CONSTANTS
    Tasks = {t1, t2}
    SunoTasks = {t2}
    NoTask = NoTask
    Pollers = {p1}
    Fetchers = {}
    Realtime = FALSE
    Upscaling = TRUE
    Costs = {1, 2}
    Faults = {"token", "hang"}
    Budget = 0
CHECK_DEADLOCK FALSE
INVARIANT FinishedTaskBilled
PROPERTIES
    FundingBilledOnce
    TimedOutTaskSwept
    FailedTaskRefunded
