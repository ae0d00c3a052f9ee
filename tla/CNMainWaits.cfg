SPECIFICATION FairSpec
CONSTANTS
    Tor = FALSE
    Occurs = {"background", "expire"}
    MaxEvents = 2
    MaxConnects = 1
PROPERTIES WaitIsAnswered
CHECK_DEADLOCK FALSE
