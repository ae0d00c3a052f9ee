SPECIFICATION FairSpec
CONSTANTS
    MaxMessages = 2
    Direct = {2}
    Identified = {1, 2}
    Strangers = {1}
    MaxEvents = 1
INVARIANTS TypeOK StoredOnce OnlyLock FlagHasEnd
PROPERTIES GapHasCause CatchUpEnds
CHECK_DEADLOCK FALSE
