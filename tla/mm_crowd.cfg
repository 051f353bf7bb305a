SPECIFICATION Spec
CONSTANTS
    c1 = c1
    c2 = c2
    c3 = c3
    c4 = c4
    Hosts = {h1}
    Addrs = {c1, c2, c3, c4}
    IPs = {c1, c2, c3}
    IpOf <- SharedIP
    Nil = Nil
    JoinCushion = 1
    PostLandCooldown = 1
    AgeCap = 1
    MaxLeaving = 2
SYMMETRY NatInterchangeable
INVARIANTS
    AtMostTwoPerHost
    StrangersStayOut
PROPERTIES
    KeepsSeatContract
CHECK_DEADLOCK FALSE
