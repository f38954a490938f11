SPECIFICATION Spec
CONSTANTS
    Tokens <- Words
    MaxTokens = 5
    AddrBits = 4
    Hosts <- Names
    IFNAMSIZ = 4
    LongNames = {"a-name-of-twenty-nine-letters"}
    Lines <- AllLines
    Served <- AllServed
    NoRequest = NoRequest
INVARIANTS SwitchComplete ExitsOnlyIfFatal RequestKept
INVARIANTS RulesMeanLine WholeAndUndone RuleShown
CHECK_DEADLOCK FALSE
