SPECIFICATION Spec
CONSTANTS
    d1 = d1 d2 = d2 d3 = d3 NoDevice = NoDevice
    Devices = {d1, d2}
    Own = NoDevice
    Events = {"sheet"}
    MaxLists = 3
    MaxSheets = 1
SYMMETRY Peers
INVARIANTS TrustedIsListed
CHECK_DEADLOCK FALSE
