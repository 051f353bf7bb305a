SPECIFICATION Spec
CONSTANTS
    Clients = {c1, c2}
    Nil = Nil
    MaxTimers = 1
PROPERTIES
    StartsWithBothPresent
CHECK_DEADLOCK FALSE
