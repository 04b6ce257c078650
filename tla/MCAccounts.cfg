SPECIFICATION Spec
CONSTANTS
    Instances = {i1}
    Redis = redis
    Limit = 2
    Window = 2
    Users = {a, b}
    Listed = {a, b}
    Clients = {c1, c2}
    NoUser = nouser
    Nobody = nobody
    Life = 1
    MaxTime = 2
    MaxCalls = 4
    MaxFaults = 1
    MaxWork = 5
CONSTRAINT FewFaults
SYMMETRY Symmetric
INVARIANTS SessionsRevoked SessionsWork RegisteredOnce AuditChain RateBounded
PROPERTIES AdminRemains
CHECK_DEADLOCK FALSE
