SPECIFICATION FairSpec
CONSTANTS
    p1 = p1
    p2 = p2
    Producers <- MCProducers
    BufferSize = 1
    MaxCalls = 1
INVARIANTS
    FifoInv
PROPERTIES
    ImplementsChannel
    EveryFrameSent
    
