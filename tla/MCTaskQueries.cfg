SPECIFICATION Spec
CONSTANTS
    Tasks = {t1, t2}
    SunoTasks = {t2}
    NoTask = NoTask
    Pollers = {p1}
    Fetchers = {f1}
    Realtime = TRUE
    Upscaling = TRUE
    Costs = {1, 2}
    Faults = {"cas", "save"}
    Budget = 1
INVARIANT TokenFollowsFunding
