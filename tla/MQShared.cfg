SPECIFICATION Spec
CONSTANTS
    a1 = a1 a2 = a2 a3 = a3 a4 = a4
    t1 = t1 t2 = t2 c1 = c1 c2 = c2 None = None
    Actions <- SharedActions
    Threads = {t1, t2}
    Accounts = {c1}
    ThreadOf <- SharedThreadOf
    AccountOf <- SharedAccountOf
    KindOf <- SharedKindOf
    AutoLogin = {c1}
    Faults = {"drop", "statusFalls", "restart", "otrEnd", "delete", "encode",
              "orphan", "blank", "unsupported", "unavailable", "silent"}
    MaxFaults = 1
INVARIANTS CompletionOwned SingleHolder WrittenOnce WaitHasTimer
PROPERTIES ImplementsOutbox SentInOrder DropHasCause DropIsForever  
CHECK_DEADLOCK FALSE
