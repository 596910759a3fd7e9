SPECIFICATION Spec
CONSTANTS
    MaxTime = 2
    MaxQueue = 3
    MayCrash = TRUE
    MayFail = TRUE
    MayMerge = TRUE
INVARIANTS TypeOK StoreFollowsAdmission DeletedChatStaysHidden ListedChatIsSaved
