\* Every kind of mutation on an official and a restricted TLD.
SPECIFICATION Spec
CONSTANTS
    TldNames <- MCTlds
    DomainNames <- MCDomains
    Parse <- MCIdentity
    Lower <- MCIdentity
    TldOf <- MCTldOf
    Keys = {"root", "op", "alice", "bob"}
    RootKey = "root"
    OfficialOperator = "op"
    Nonces = {n1}
    SeedNonce = SeedNonce
    Iana = {"com"}
    ReservedNames = {"fed"}
    PolicyNames = {}
    AuditTail = 3
    RootInit = RootInit
    None = None
    Envelope <- MCEnvelope
    Document <- MCDocument
    Version = {0, 1, 2, 3, 4, 5}
    Time = {0, 2}
INVARIANT
    RecordsVerify
PROPERTIES
    OwnershipIsTheOperators
    EnforcementSticks
CHECK_DEADLOCK FALSE
