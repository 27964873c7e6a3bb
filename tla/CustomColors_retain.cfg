\* The bare claim that only an unretained object is removed.
CONSTANTS
    c1 = c1
    c2 = c2
    j1 = j1
    j2 = j2
    e1 = e1
    e2 = e2
    NoColor = NoColor
    Colors <- OneColor
    Jobs <- TwoJobs
    Editors <- NoEditors
    Quota = 1
    MaxFaults = 0
SPECIFICATION Spec
CHECK_DEADLOCK FALSE
INVARIANTS
    OnlyUnretainedIsRemoved
