SPECIFICATION Spec
CONSTANTS
    Hosts = {h1, h2}
    Clients = {c1, c2}
    ConnIds = {i1, i2}
    Nil = Nil
SYMMETRY Interchangeable
INVARIANT ConnIdIsTheirs
CHECK_DEADLOCK FALSE
