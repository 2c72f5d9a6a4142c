SPECIFICATION FairSpec
CONSTANTS
    MaxJobs = 4
    Scans = {p1}
    Window = 4
    ScanEvery = 3
    Horizon = 15
    MaxDelays = 1
    MaxFaults = 1
    Last = 3
    FirstAt = 5
    Period = 5
    MaxCancelled = 1
    DateShift = 0
INVARIANTS
    TypeOK
    SingleChain
    ChainKept
    RemindedOnce
    NoGaps
    OnTime
PROPERTIES
    ChainRunsOn
    OrphansDie
