SPECIFICATION FairSpec
CONSTANTS
    MaxSignals = 4
    MaxDrops = 2
PROPERTIES HalfOpenHealed
CHECK_DEADLOCK FALSE
