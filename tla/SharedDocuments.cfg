SPECIFICATION Spec
CONSTANTS
    Slots = {r1, r2}
    NoOne = NoOne
    Users = {u1, u2, u3}
    Channels = {"lab"}
    MaxMembers = 3
    MaxAdmins = 1
    MaxPrivate = 3
    MaxRoomRequests = 4
    Voters = {v1, v2}
    Options = {"a", "b"}
    MaxPollRequests = 4
    MaxAttempts = 3
    Marks = {1, 2}
    Markings <- BothOrOne
    MaxSubmissionRequests = 5
    Messages = {m1, m2}
    MaxPins = 1
    MaxChatRequests = 5
SYMMETRY Symmetry
INVARIANTS
    TypeOK
    EntriesBounded
    ChannelsWithinRoom
    VotesCounted
    
    
    OneOpenAttempt
    PinsKept
PROPERTY
    RemovedStaysOut
    ImplementsMembership
