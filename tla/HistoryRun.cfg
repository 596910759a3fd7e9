SPECIFICATION FairSpec
CONSTANTS
    c1 = c1  c2 = c2
    Chat <- TwoChats
    Depth = 1
    MaxRounds = 3
    MaxRefs = 1
    MaxRuns = 2
    MaxConnects = 1
    MaxSessions = 2
    None = None
INVARIANTS TypeOK RequestsStayInSession
PROPERTIES TimedOutOnlyIfSilent RunEnds
CHECK_DEADLOCK FALSE
