\* One allocating process and two clients; every call whose
\* failure loses something fails at most once.
CONSTANTS
    p1 = p1
    p2 = p2
    p3 = p3
    Proc = {p1, p2, p3}
    Owner = p1
    NoWriter = NoWriter
    MaxFailures = 1
    MaxReaders = 2
SPECIFICATION Spec
SYMMETRY Clients
INVARIANTS
    TypeOK
    LocksGivenBack
    ResourcesAccounted
    LockableIsMapped
PROPERTIES
    WritesReachMemory
