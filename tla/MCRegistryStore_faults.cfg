\* Crashes at every point and an error from every I/O step.
SPECIFICATION Spec
CONSTANTS
    TldNames = {"arte"}
    DomainNames = {}
    Parse <- MCFaultIdentity
    Lower <- MCFaultIdentity
    TldOf <- MCNoDomains
    Keys = {"root", "op", "carol", "dave"}
    RootKey = "root"
    OfficialOperator = "op"
    Nonces = {n1, n2, n3}
    SeedNonce = SeedNonce
    Iana = {}
    ReservedNames = {}
    PolicyNames = {}
    AuditTail = 2
    RootInit = RootInit
    None = None
    Handlers = {h1}
    Requests <- MCFaultRequests
    SeedFile = {}
    Packages = {}
    NonceTTL = 1
    MaxAge = 1
    MaxSkew = 0
    Faults = {"nonce", "content", "commit", "snapshot"}
    MaxClock = 3
    Versions = {0, 1, 2, 3}
SYMMETRY MCSymmetry
INVARIANTS
    OneMutationPerChallenge
    TargetVersionsAdvance
    AcceptedIsDurable
    Bootable
PROPERTIES
    ZoneVersionAdvances
