CONSTANTS
    n1 = n1
    n2 = n2
    a1 = a1
    a2 = a2
    u1 = u1
    u2 = u2
    t1 = t1
    Nodes = {n1}
    Addrs = {a1, a2}
    Blocks = {}
    RootKey = n2
    MaxNodes = 1
    MaxAge = 1
    MaxClock = 1
    MaxNet = 2
    MaxMoves = 2
    Faults = {"crash", "probe", "loss", "persist"}
    Udp = {u1, u2}
    Tcp = {t1}
    MaxInflight = 1
    MaxTcp = 1
    MaxRestarts = 1
SPECIFICATION MCSpec
 
PROPERTY PacketsAreAnswered
PROPERTY DeadGatewaysLeaveDns
PROPERTY AddressConverges
