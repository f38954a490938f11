SPECIFICATION ServiceSpec
CONSTANTS
    NoRequest = NoRequest
    AddrBits = 2
    Hosts <- NoNames
    IFNAMSIZ = 4
    LongNames = {"a-name-of-twenty-nine-letters"}
    NoHead <- NoHeader
    Heads <- AllHeads
    Priorities = {0, 7}
    Requests <- AllRequests
    ControllerRequests <- Controller
    ToolRequests <- ToolReports
    MaxRules = 3
INVARIANTS MirrorIsKernel KernelCanFollow
PROPERTIES Served ReportsRead
VIEW WithoutOut
CHECK_DEADLOCK FALSE
