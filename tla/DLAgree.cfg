CONSTANTS
    c1 = c1
    c2 = c2
    old = old
    Clients = {c1, c2}
    Old = {old}
    MaxEvents = 5
SPECIFICATION FairSpec
INVARIANTS
    TypeOK
    QuietAgreement
PROPERTIES
    TrafficEnds
CHECK_DEADLOCK FALSE
