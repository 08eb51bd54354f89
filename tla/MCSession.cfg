CONSTANTS
    t1 = t1
    t2 = t2
    k = k
    NoTerminal = NoTerminal
    NoKey = NoKey
    Terminals <- MCTerminals
    Order <- MCOrder
    Keys <- MCKeys
    MaxOwed <- MCOwed
    MaxEvents = 2

SPECIFICATION Spec

INVARIANTS
    VotersAdmitted
    CountInv
    

PROPERTIES
    EarlyEndMeansAll
    PhaseKept
    TerminalsRegister

CHECK_DEADLOCK FALSE
