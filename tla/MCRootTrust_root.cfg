\* Two refreshing tasks, with and without a configured root key.
CONSTANTS
    k1 = k1
    k2 = k2
    t1 = t1
    t2 = t2
    NoKey = NoKey
    NoZone = NoZone
    Keys = {k1, k2}
    RootKey = k1
    Configured = {k1, NoKey}
    Tasks = {t1, t2}
    Loops = {t1}
    MaxVersion = 2
    MaxRestarts = 1
    Faults = {"fetch", "store"}
SPECIFICATION LiveSpec
INVARIANT UsesVerifiedZones
INVARIANT NoRootRollback
PROPERTY PinIsForever
PROPERTY FollowsTheRoot
