SPECIFICATION Spec
CONSTANTS
    j1 = j1  j2 = j2  j3 = j3  j4 = j4
    p1 = p1  p2 = p2  p3 = p3
    NoPermit = NoPermit
    NoJob = NoJob
    Job <- FourJobs
    Permit <- ThreePermits
    JobDef <- MixedJobs
    MaxConcurrency = 2
    MaxRps = 2
    MaxCost = 5
CHECK_DEADLOCK FALSE
INVARIANTS
    KilledAtShutdown
