SPECIFICATION Spec
CONSTANTS
    MaxJobs = 3
    Scans = {p1}
    Window = 4
    ScanEvery = 3
    Horizon = 12
    MaxDelays = 0
    MaxFaults = 0
    Last = 2
    FirstAt = 5
    Period = 5
    MaxCancelled = 1
    DateShift = 1
PROPERTY
    AnnouncedUnlessCancelled
