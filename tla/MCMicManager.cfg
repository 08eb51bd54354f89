CONSTANTS
    chairman = chairman
    common = common
    a = a
    b = b
    c = c
    NoTerminal = NoTerminal
    Terminals <- MCTerminals
    ChannelsOf <- TwoUnits
    PerUnitMax = 2
    PriorOf <- MCPriorOf
    QueueSize = 3
    MaxFailureTimes = 2
    ByteValues = 4
    SysStates <- MCSysStates
    Permissions <- MCPermissions
    Outcomes <- AllOutcomes
    MaxRequests = 3
    MaxErrors = 1

SPECIFICATION Spec

INVARIANTS
    
    ConnectOutcomeIsOwn
    
    RecordedIsAcknowledged
PROPERTIES
    RequestsEndOrStrand
