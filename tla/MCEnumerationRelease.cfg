CONSTANTS
    u1 = u1
    u2 = u2
    a = a
    Units <- MCUnits
    NoUnit = NoUnit
    NumChannels = 2
    MaxSlots = 2
    PerUnitMax = 1
    ChannelMux = 2
    Talkers <- MCTalkers
    NoTalker = NoTalker
    ByteValues = 5
    MaxFaults <- MCFaults
    MaxTalks = 1

SPECIFICATION Spec

PROPERTIES
    ReleaseEnds

CHECK_DEADLOCK FALSE
