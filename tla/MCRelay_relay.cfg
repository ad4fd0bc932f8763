CONSTANTS
    a = a
    b = b
    x = x
    c1 = c1
    c2 = c2
    c3 = c3
    Nodes = {a, b, x}
    Kinds = {"block", "registry"}
    Providers <- MCProviders
    Versions <- MCVersions
    Hosts = {x}
    Forging = {x}
    Slots = 1
    Calls = {c1, c2, c3}
    NoCall = NoCall
SPECIFICATION LiveSpec
INVARIANT OnlyVerified
PROPERTY SlotsComeBack
