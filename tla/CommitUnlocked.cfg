SPECIFICATION Spec
CONSTANTS
    Order <- ChainOrder
    BuiltIn = {"INPUT", "OUTPUT"}
    NoMatch = "any"
    CounterBits = 4
    p1 = p1
    p2 = p2
    Procs = {p1, p2}
    NoProc = NoProc
    LockKinds <- ToolLocks
    Tables <- OneTable
    Images = {"any"}
    RuleTargets = {"", "c1", "DROP", "LOG"}
    Counts = {5}
    Modules = {"LOG"}
    MaxRules = 3
    MaxCalls = 1
    MaxCommits = 2
    MaxPackets = 1
PROPERTY NoLostUpdate
CHECK_DEADLOCK FALSE
