SPECIFICATION FairSpec
CONSTANTS
    a1 = a1 a2 = a2 a3 = a3 a4 = a4
    t1 = t1 t2 = t2 c1 = c1 c2 = c2 None = None
    Actions <- SharedActions
    Threads = {t1, t2}
    Accounts = {c1}
    ThreadOf <- SharedThreadOf
    AccountOf <- SharedAccountOf
    KindOf <- DrainsKindOf
    AutoLogin = {}
    Faults = {"drop", "statusFalls", "restart", "otrEnd"}
    MaxFaults = 1
PROPERTIES QueueDrains OtrWaitEnds
CHECK_DEADLOCK FALSE
