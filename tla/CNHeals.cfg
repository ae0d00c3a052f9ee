SPECIFICATION FairSpec
CONSTANTS
    Tor = FALSE
    Occurs = {"newTrust", "refuse", "conflict", "drop", "presence", "noHost", "slow",
              "background", "expire", "timeout", "logout", "nextHost"}
    MaxEvents = 2
    MaxConnects = 2
INVARIANTS TypeOK StatusIsTrue HealIsArmed
PROPERTIES StopStands AccidentHeals
CHECK_DEADLOCK FALSE
