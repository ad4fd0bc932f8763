SPECIFICATION SpecPublish
CONSTANTS
    TldNames = {"fed"}
    DomainNames = {"home.fed"}
    Parse <- MCIdentity
    Lower <- MCIdentity
    TldOf <- MCTldOf
    Keys = {"root", "op", "alice"}
    RootKey = "root"
    OfficialOperator = "op"
    Nonces = {n1, n2, n3}
    SeedNonce = SeedNonce
    Iana = {}
    ReservedNames = {"fed"}
    PolicyNames = {}
    AuditTail = 2
    RootInit = RootInit
    None = None
    Handlers = {h1, h2}
    Requests <- MCRequests
    SeedFile <- MCSeedFile
    Packages <- MCSites
    NonceTTL = 1
    MaxAge = 1
    MaxSkew = 0
    Faults = {"nonce", "content"}
    MaxClock = 0
    p1 = p1
    p2 = p2
    Clients = {p1, p2}
    Domain = "home.fed"
    Owner = "alice"
    Site <- MCSite
    Folder <- MCFolder
INVARIANT OkMeansPublished
 
INVARIANT NoBlindOverwrite
PROPERTY EveryRunIsAnswered
