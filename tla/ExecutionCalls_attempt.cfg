\* One attempt: every answer of Telegram, storage and the provider, and a stop at any step.
\* The limits put every file of SomeFiles within one unit of one of them.
CONSTANTS
    Files <- SomeFiles
    Missing = Missing
    Allowlist <- Formats
    MaxBytes = 2
    MinSide = 2
    MaxSide = 3
    MaxPixels = 6
    NoReference = NoReference
    References <- SomeReferences
    Images <- SomeImages
    MaxSideSum = 12
CHECK_DEADLOCK FALSE
SPECIFICATION Spec
INVARIANTS
    UnchangedPhotoIsRead
    PhotoFits
    ToldWhatIsCommitted
PROPERTY CallsAtMostOnce
