\* Crashes at every point, and I/O errors outside the transaction.
SPECIFICATION Spec
CONSTANTS
    TldNames = {"fed"}
    DomainNames = {"home.fed"}
    Parse <- MCIdentity
    Lower <- MCIdentity
    TldOf <- MCTldOf
    Keys = {"root", "op", "alice"}
    RootKey = "root"
    OfficialOperator = "op"
    Nonces = {n1, n2}
    SeedNonce = SeedNonce
    Iana = {}
    ReservedNames = {"fed"}
    PolicyNames = {}
    AuditTail = 2
    RootInit = RootInit
    None = None
    Handlers = {h1, h2}
    Requests <- MCRequests
    SeedFile <- MCSeedFile
    Packages <- MCPackages
    NonceTTL = 1
    MaxAge = 1
    MaxSkew = 0
    Faults = {"nonce", "content", "snapshot"}
    MaxClock = 1
    Versions = {0, 1, 2, 3}
SYMMETRY MCSymmetry
INVARIANTS
    TypeOK
    AllOrNothing
    AuditChains
    ServedNeverRollsBack
PROPERTY
    DatabaseKeepsThePromise
