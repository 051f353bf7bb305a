SPECIFICATION Spec
CONSTANTS
    Hosts = {h1, h2}
    Clients = {c1, c2, c3}
    ConnIds = {i1, i2}
    Nil = Nil
SYMMETRY Interchangeable
INVARIANTS
    AttributionTypeOK
    AttributedToTheirHost
    ConnIdsAreApart
    LearnedIdDecides
CHECK_DEADLOCK FALSE
