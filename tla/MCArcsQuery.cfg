SPECIFICATION FairSpec
CONSTANTS
    QueueSize = 3
    Batch = 3
    MaxReports = 3
    MaxSeq = 1
INVARIANTS
    OneAtATime
    QueryInv
    RunsOnce
PROPERTIES
    ReportsDrain
