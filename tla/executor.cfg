SPECIFICATION FairSpec
CONSTANTS
    Step <- MCStep
    Workflows <- AllFlows
INVARIANTS
    TypeOK
    DependenciesRespected
    SkipsJustified
    SlotsAccounted
    ExitFaithful
    WorkBounded
PROPERTIES
    KeepsSchedule
    SettledStatusFinal
    MCEnds
