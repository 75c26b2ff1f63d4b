SPECIFICATION FairSpec
CONSTANTS
    Modes = {"text", "image", "video"}
    Sends <- UserSends
    MaxReq = 2
    MaxEdits = 1
    MaxReloads = 1
    PollMax = 2
    MaxFails = 2
    Cleared = TRUE
INVARIANTS TypeOK AnswersStayInMode RepliesStayInPlace OnlyTailWaits QuietIsSaved
PROPERTIES StreamKeepsToOwn PendingVideoEnds
CHECK_DEADLOCK FALSE
