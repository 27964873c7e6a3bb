\* Two messages to the dialog and one upload of the Mini App, one fault.
CONSTANTS
    wide = wide
    tall = tall
    unscanned = unscanned
    edge = edge
    doubtful = doubtful
    unsafe = unsafe
    lost = lost
    Messages <- TwoMessages
    Requests <- OneRequest
    Files <- ThreeFiles
    Sent <- SentFiles
    File <- Contents
    Look <- BandLook
    Replies <- FourReplies
    Reply <- AnswersGiven
    Forms <- TwoForms
    None = None
    gloss = gloss
    matte = matte
    Finishes <- TwoFinishes
    MaxBytes = 1000
    MaxSide = 2000
    MaxPixels = 80000
    OutputEdge = 640
    MaxColors = 2
    MaxFaults = 1
CHECK_DEADLOCK FALSE
CONSTRAINT BotOrApp
SYMMETRY Finished
SPECIFICATION Spec
INVARIANTS
    ApprovedIsSafe
    SurfaceAsChosen
    ProfileIsUsable
    VerdictIsTold
PROPERTY SampleIsNotTheCar
