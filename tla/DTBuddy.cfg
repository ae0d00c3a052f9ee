SPECIFICATION Spec
CONSTANTS
    d1 = d1 d2 = d2 d3 = d3 NoDevice = NoDevice
    Devices = {d1, d2}
    Own = NoDevice
    Events = {"sheet", "expire"}
    MaxLists = 2
    MaxSheets = 1
SYMMETRY Peers
INVARIANTS TrustHasCause DecisionStands
PROPERTIES FirstIsFinal
CHECK_DEADLOCK FALSE
