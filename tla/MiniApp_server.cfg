\* Two overlapping exchanges of two launches, three photos, two previews and one fault.
\* The clock runs past the last moment a token of the launch can work.
CONSTANTS
    l1 = l1
    l2 = l2
    e1 = e1
    e2 = e2
    p1 = p1
    p2 = p2
    f1 = f1
    f2 = f2
    a1 = a1
    a2 = a2
    Admins <- TwoAdmins
    DayLength = 2
    ReportHour = 1
    NoRow = NoRow
    NoAdmin = NoAdmin
    Launches <- TwoLaunches
    AuthDate <- Launched
    MaxAge = 1
    FutureSkew = 1
    TTL = 1
    Exchanges <- TwoExchanges
    Previews <- TwoPreviews
    Messages <- ThreeMessages
    FileOf <- Sent
    NoLaunch = NoLaunch
    NoSource = NoSource
    MaxTokens = 2
    MaxTime = 5
    MaxFaults = 1
CONSTRAINT PartsApart
SYMMETRY Symmetry
CHECK_DEADLOCK FALSE
SPECIFICATION Spec
INVARIANTS
    OneSessionPerLaunch
    NewestIsActive
    ReportedOnce
    NewIsCountedOnce
    UnfailedPhotoStays
