SPECIFICATION Spec
CONSTANTS
    Topics = {"breakout", "recording", "admission"}
    People = {p1}
    NoOne = NoOne
    MaxSubs = 2
    Free = Free
    MaxBreakouts = 2
    Setters = {r1}
    MaxAsked = 4
    MaxFaults = 1
    Hosts = {h1, h2}
    Timer = Timer
    Plans <- OneOrTwo
    Callers = {c1, c2}
    Posters = {w1, w2}
    Screen = Screen
    NoTake = NoTake
    Guests = {g1, g2}
    Admins = {a1, a2}
CONSTRAINTS
    Followed
    Budget
INVARIANTS
    TypeOK
    TimerKept
    SubRoomsAgree
    OneRecording
    FlagMatchesEgress
    LeaverStopsRecording
    StoppedIsPublished
    StatusMatchesPermission
    NobodyLeftWaiting
    OneGrant
PROPERTIES
    AutoEndsOwnSession
    TimedSessionEnds
