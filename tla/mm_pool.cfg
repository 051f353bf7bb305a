SPECIFICATION Spec
CONSTANTS
    c1 = c1
    c2 = c2
    c3 = c3
    c4 = c4
    Hosts = {h1, h2}
    Addrs = {c1, c2}
    IPs = {c1, c2}
    IpOf <- OneAddressPerIP
    Nil = Nil
    JoinCushion = 1
    PostLandCooldown = 1
    AgeCap = 1
    MaxLeaving = 1
SYMMETRY Interchangeable
INVARIANTS
    TypeOK
    AssignedIsListed
    AtMostOneLeftBehind
PROPERTIES
    ClaimStands
    NeverPairsAcrossHosts
CHECK_DEADLOCK FALSE
