\* The claim that a renewal retires the old quota.
CONSTANTS
    NoSubmission = 0
    Jobs <- FourJobs
    Submissions <- FourJobs
    MaxActive = 1
    MaxRecent = 4
    Quota = 1
    MaxPurchases = 3
SPECIFICATION Spec
CHECK_DEADLOCK FALSE
CONSTRAINTS
    InOrder
    NoExtras
INVARIANTS
    OldQuotaIsRetired
