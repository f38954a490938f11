SPECIFICATION Spec
CONSTANTS
    Structs <- StructsValue
    Desc <- DescValue
    tcp = tcp
    udp = udp
    conntrack1 = conntrack1
    state0 = state0
    state1 = state1
    state2 = state2
    LOG = LOG
    standard = standard
    Files <- FilesValue
    FileOf <- FileOfValue
    NULL = NULL
    Builds = {TRUE}
    Kernels <- KernelsValue
    Protocols = {"tcp"}
    MaxCalls = 2
    MaxWords = 4
PROPERTIES LineEnds
CHECK_DEADLOCK FALSE
