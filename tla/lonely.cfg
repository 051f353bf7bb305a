SPECIFICATION LonelySpec
CONSTANTS
    Hosts = {h1, h2}
    Addrs = {c1, c2}
    IPs = {c1, c2}
    IpOf <- OneAddressPerIP
    Nil = Nil
    JoinCushion = 1
    PostLandCooldown = 1
    AgeCap = 1
    MaxLeaving = 1
    LonelyThreshold = 1
INVARIANTS
    LonelyTypeOK
PROPERTIES
    SweepSparesAHost
    KickFinishes
CHECK_DEADLOCK FALSE
