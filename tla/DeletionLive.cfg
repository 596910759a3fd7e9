SPECIFICATION Spec
CONSTANTS
    MaxTime = 3
    MaxQueue = 3
    MayCrash = FALSE
    MayFail = FALSE
    MayMerge = FALSE
INVARIANT LiveChatIsListed
