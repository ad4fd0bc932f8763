\* One request at a time, everything around it moving.
CONSTANTS
    o1 = o1
    o2 = o2
    t1 = t1
    t2 = t2
    NoDoc = NoDoc
    Operators = {o1, o2}
    Tasks = {t1}
    Modes = {"root_managed", "manifest", "live", "offline"}
    Providers = 1
    MaxVersion = 2
    MaxZones = 1
    Published = {"active", "suspended", "missigned"}
    Faults = {"forge", "tamper"}
SYMMETRY OperatorSymmetry
SPECIFICATION Spec
INVARIANT ContentIsAuthorised
 
 
PROPERTY OfflineKeepsResolving
