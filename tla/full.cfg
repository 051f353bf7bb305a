SPECIFICATION FairSpec
CONSTANTS
    Entries = {e1, e2}
    ConnIds = {k1, k2, k3}
    Opens = 1
    Broadcasts = 1
    Nil = Nil
INVARIANTS
    SimulatedTypeOK
    AckIsCurrent
    OneOpener
    NobodyIsForgotten
PROPERTIES
    AttemptEnds
    RejectionIsCurrent
CHECK_DEADLOCK FALSE
