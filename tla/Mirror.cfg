SPECIFICATION Spec
CONSTANTS
    NoHead = NoHead
    h1 = h1
    Heads = {NoHead, h1}
    Priorities = {0, 7, 100, 200}
    Requests <- AllRequests
    MaxRules = 3
INVARIANTS TypeOK LengthExact PolicyAtTail RulesSorted
PROPERTIES ReportedPlace StrayOnlyBelowOne ImplementsChains
CHECK_DEADLOCK FALSE
