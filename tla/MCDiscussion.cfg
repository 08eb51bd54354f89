SPECIFICATION Spec
CONSTANTS
    a = a
    b = b
    c = c
    v = v
    ch = ch
    Terminals = {a, b, c, v, ch}
    NoAddr = NoAddr
    PriorOf <- TypeOf
    Modes = {"PPT", "FIFO", "LIMIT", "APPLY"}
    Limits = {1, 2}
    ApplyLimit = 2
    MaxSpk = 3
    MaxApply = 3
    FsQueueSize <- SizeOf
    UsedInStreams = 3
    MaxOps = 4
    MaxErrors = 1
SYMMETRY Symmetry
INVARIANTS
    TypeOK
    
    

    
CHECK_DEADLOCK FALSE
