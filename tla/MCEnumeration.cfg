CONSTANTS
    u1 = u1
    u2 = u2
    a = a
    Units <- MCUnits
    NoUnit = NoUnit
    NumChannels = 2
    MaxSlots = 2
    PerUnitMax = 1
    ChannelMux = 2
    Talkers <- MCTalkers
    NoTalker = NoTalker
    ByteValues = 5
    MaxFaults <- MCFaults
    MaxTalks = 2

SPECIFICATION Spec

INVARIANTS
    UnitsAgree
    ListedOnce

PROPERTIES
    ConnectionsKept
    EnumerationCompletes

CHECK_DEADLOCK FALSE
