\* Two uploads against a quota of one with crashes and failed inserts, and one
\* color under two jobs and two edits (UploadsOrUses keeps the two parts apart).
\* Every request may have returned and every color be deleted: the system then stops.
CONSTANTS
    c1 = c1
    c2 = c2
    j1 = j1
    j2 = j2
    e1 = e1
    e2 = e2
    NoColor = NoColor
    Colors <- TwoColors
    Jobs <- TwoJobs
    Editors <- TwoEditors
    Quota = 1
    MaxFaults = 2
SPECIFICATION Spec
CHECK_DEADLOCK FALSE
SYMMETRY Symmetry
CONSTRAINT UploadsOrUses
INVARIANTS
    QuotaRespected
    ActiveIsStored
    ReferencesCounted
    HeldReferenceIsStored
    UsableProfile
PROPERTIES
    ApprovedIsNotReviewedAgain
