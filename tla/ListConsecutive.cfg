SPECIFICATION Spec
CONSTANTS
    t1 = t1
    t2 = t2
    Threads = {t1, t2}
    Roles <- TwoWriters
    Nodes = {n1, n2, n3}
    ListHead = ListHead
    Policy = Policy
    Poison = Poison
    MaxOps = 4
SYMMETRY NodeSymmetry
INVARIANT ConsecutiveEntries
CHECK_DEADLOCK FALSE
