\* Five submissions, two active and three in the window at a time, with up to
\* four purchases or renewals: the fourth and the fifth job hold monthly units.
\* With every job ended and every purchase made the user has nothing left to do.
CONSTANTS
    NoSubmission = 0
    Jobs <- FiveJobs
    Submissions <- FiveJobs
    MaxActive = 2
    MaxRecent = 3
    Quota = 1
    MaxPurchases = 4
SPECIFICATION Spec
CHECK_DEADLOCK FALSE
CONSTRAINTS
    InOrder
    ExtrasOrMonthly
INVARIANTS
    LedgerExplainsBalances
    ReservationsBacked
    WithinGrant
    LimitsRespected
    OneJobPerSubmission
    OldQuotaIsBounded
PROPERTIES
    ImplementsAllowance
