SPECIFICATION FairSpec
CONSTANTS
    MaxMessages = 1
    Direct = {1}
    Identified = {1}
    Strangers = {}
    MaxEvents = 1
PROPERTIES WaitIsServed
CHECK_DEADLOCK FALSE
