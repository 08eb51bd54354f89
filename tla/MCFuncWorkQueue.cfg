SPECIFICATION FairSpec
CONSTANTS
    p = p
    w = w
    o = o
    menu = menu
    computer = computer
    none = none
    Producers <- MCProducers
    Worker = w
    Other = o
    NoThread = none
    Users <- MCUsers
    Commands <- MCCommands
    MaxCalls <- MCMaxCalls
    MaxChanges = 1
INVARIANTS
    TypeOK
    QueueInv
PROPERTIES
    ImplementsChannel
    EveryCommandRuns
    CloseEnds
