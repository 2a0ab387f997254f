SPECIFICATION MCSpec
CONSTANTS
    site = site  t1 = t1  t2 = t2  t3 = t3
    Guards = 2
    Policies <- MCPolicies
    Digest = {d1, d2}
    MaxProbes = 3
    MaxLost = 1
    Nil = Nil
    Hooks = 3
    KindOf <- MCKind
    Engines = {"worker", "pi"}
    Directives = {"skip", "annotate"}
    MaxInterventions = 1
    Concurrency = 2
    Unset = Unset
    Task = {t1, t2, t3}
    Plans <- MCPlans
    Workspace = {site}
    None = None
    MaxChunks = 2
    MaxEvents = 1
INVARIANTS
    SentinelInv HooksInv WorkersInv OutputKept
PROPERTIES
    MCEnds
CHECK_DEADLOCK FALSE
