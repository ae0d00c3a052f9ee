SPECIFICATION Spec
CONSTANTS
    d1 = d1 d2 = d2 d3 = d3 NoDevice = NoDevice
    Devices = {d1, d2}
    Own = d1
    Events = {"sheet", "emptyList", "userRemove", "expire"}
    MaxLists = 3
    MaxSheets = 1
SYMMETRY Peers
INVARIANTS OwnRowExists TypeOK
CHECK_DEADLOCK FALSE
