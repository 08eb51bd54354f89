CONSTANTS
    t1 = t1
    t2 = t2
    NoTerminal = NoTerminal
    NoAddr = NoAddr
    Terminals <- MCTerminals
    MaxTerminals = 2
    QueueSize = 2
    MaxRequests = 3
    MaxRestarts = 1
    MaxReallots = 1

SPECIFICATION Spec

INVARIANTS
    RequestsAgree

PROPERTIES
    AddressesAgree
    RequestsServed

CHECK_DEADLOCK FALSE
