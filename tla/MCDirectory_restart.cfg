\* Two nodes compete for one entry; a moving node; crashes of the directory.
CONSTANTS
    n1 = n1
    n2 = n2
    a1 = a1
    a2 = a2
    b1 = b1
    Nodes = {n1, n2}
    Addrs = {a1, a2}
    Blocks = {b1}
    RootKey = n1
    MaxNodes = 1
    MaxAge = 1
    MaxClock = 2
    MaxNet = 1
    MaxMoves = 3
    Faults = {"crash", "probe", "loss"}
SYMMETRY AddrSymmetry
SPECIFICATION Spec
INVARIANT SnapshotHasTheTable
INVARIANT OfflineNeedsProbes
PROPERTY SeenNodesKept
