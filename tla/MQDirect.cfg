SPECIFICATION Spec
CONSTANTS
    a1 = a1 a2 = a2 a3 = a3 a4 = a4
    t1 = t1 t2 = t2 c1 = c1 c2 = c2 None = None
    Actions <- ApartActions
    Threads = {t1, t2}
    Accounts = {c1, c2}
    ThreadOf <- ApartThreadOf
    AccountOf <- ApartAccountOf
    KindOf <- ApartKindOf
    AutoLogin = {c1}
    Faults = {"drop", "statusFalls", "restart", "otrEnd", "blank", "unsupported"}
    MaxFaults = 1
SYMMETRY ApartAlike
INVARIANTS TypeOK NothingDropped
PROPERTIES NoOverwrittenWait
CHECK_DEADLOCK FALSE
