SPECIFICATION FairSpec
CONSTANTS
    Clients = {c1, c2}
    Nil = Nil
    MaxTimers = 0
PROPERTIES
    SilenceFreesTheHost
CHECK_DEADLOCK FALSE
