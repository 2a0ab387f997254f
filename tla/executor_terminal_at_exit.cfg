SPECIFICATION Spec
CONSTANTS
    Step <- MCStep
    Workflows <- DataFlows
INVARIANT
    TerminalAtExit
