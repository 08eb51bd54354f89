SPECIFICATION InflightFairSpec
CONSTANTS
    c1 = c1
    c2 = c2
    c3 = c3
    c4 = c4
    c5 = c5
    c6 = c6
    Commands <- AllCommands
    Kind <- AllKinds
    Key <- AllKeys
    MaxSent = 2
INVARIANTS
    TrackingInv
    AnswerIsOwn
PROPERTIES
    ImplementsLifecycle
    EveryCommandEnds
    SenderReturns
