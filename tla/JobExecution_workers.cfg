\* One job, two workers: every interleaving of claims, crashes and expiries,
\* and the refinement of GenerationJob.
\* MaxAttempts leaves room for every attempt that two faults can cost.
CONSTANTS
    j1 = j1
    j2 = j2
    w1 = w1
    w2 = w2
    NoWorker = NoWorker
    NoJob = NoJob
    Jobs <- OneJob
    Workers <- TwoWorkers
    MaxAttempts = 3
    MaxFaults = 2
SPECIFICATION FairSpec
INVARIANTS
    TypeOK
    AtMostOneRequest
    Settlement
    OwnerHoldsCurrentAttempt
    HonestFailure
PROPERTIES
    TerminalIsFinal
    EveryJobEnds
    ImplementsPromise
