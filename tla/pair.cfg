SPECIFICATION Spec
CONSTANTS
    Clients = {c1, c2, c3}
    Nil = Nil
    MaxTimers = 1
SYMMETRY Interchangeable
INVARIANTS
    PairTypeOK
    PeersShareTheirRelay
PROPERTIES
    SettledPairsStay
CHECK_DEADLOCK FALSE
