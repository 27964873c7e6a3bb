\* One job, two workers: does a superseded attempt's error_summary tell the truth?
CONSTANTS
    j1 = j1
    j2 = j2
    w1 = w1
    w2 = w2
    NoWorker = NoWorker
    NoJob = NoJob
    Jobs <- OneJob
    Workers <- TwoWorkers
    MaxAttempts = 3
    MaxFaults = 2
SPECIFICATION Spec
INVARIANT ExpiredBeforeStartIsTrue
