SPECIFICATION MCSpec
CONSTANTS
    j1 = j1  j2 = j2
    p1 = p1  p2 = p2
    NoPermit = NoPermit
    NoJob = NoJob
    Job = {j1, j2}
    Permit = {p1, p2}
    JobDef <- StepJobs
    MaxConcurrency = 1
    MaxRps = 1
    MaxCost = 0
    MayAbort = {j1}
    MayTimeOut = {j1}
    MayBeLate = {j1}
    None = None  NoOne = NoOne  c1 = c1  c2 = c2
    Check = {c1, c2}
    Orders <- MCOrders
    Grace = 1
    Granularity = 2
    MaxTime = 2
    MaxWrites = 1
    short = short  full = full  q = q  w1 = w1  w2 = w2
    Msg = {short, full}
    Size <- MCSize
    RequestId = {q}
    AnswerTo <- MCAnswerTo
    Waiter = {w1, w2}
    WaitsFor <- MCWaitsFor
    MaxLine = 4
    MaxChunk = 2
    MaxText = 2
CHECK_DEADLOCK FALSE
INVARIANTS
    LeavesNoWork
    NeverDuplicate
    ChannelInv
    ChecksInv
PROPERTIES
    MCRunsReturn
    EndLosesNothing
    KeepsLink
