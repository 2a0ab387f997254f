SPECIFICATION MCSpec
CONSTANTS
    ja = ja  jb = jb  jc = jc  jd = jd  je = je  k1 = k1
    p1 = p1  p2 = p2  p3 = p3  r1 = r1  r2 = r2
    Core = {p1, p2, p3}
    Restarter = {r1, r2}
    Transport = {"stdio", "socket"}
    MaxRestarts = 2
    Letter = {"x", "y", "z"}
    MaxSize = 2
    NoCore = NoCore  NoKey = NoKey  NoJob = NoJob
    Job <- MCJob
    Key <- MCKey
    Interactive <- MCInteractive
    PriorityValue <- MCPriorityValue
    KeyOf <- MCKeyOf
    JobMaxAttempts <- MCJobMaxAttempts
    MaxAttempts = 2
    MaxDlq = 1
    MaxTimeouts = 1
    MaxCancels = 1
    fs = fs  cron = cron  hook = hook  cmd = cmd
    c1 = c1  review = review  build = build
    NoOutput = NoOutput  Never = Never
    Source <- MCSource
    Kind <- MCKind
    Always <- MCNone
    Change <- MCChange
    Output <- MCOutput
    Trigger <- MCTrigger
    On <- MCOn
    Debounce <- MCDebounce
    Cooldown <- MCCooldown
    Pauses <- MCBuild
    MaxRetries <- MCRetries
    Gated <- MCReview
    Analyzed <- MCReview
    MaxConcurrent = 2
    MaxQueue = 1
    BufferSize = 1
    MaxTime = 2
    MaxEvents = 3
    MaxCrashes = 1
CHECK_DEADLOCK FALSE
INVARIANTS
    SchedulerInv
    NoJobLost
    SupervisorInv
    LettersInv
    SourcesInv
    DaemonInv
PROPERTIES
    HangEnds
    StopEnds
