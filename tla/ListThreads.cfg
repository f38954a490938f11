SPECIFICATION Spec
CONSTANTS
    t1 = t1
    t2 = t2
    Threads = {t1, t2}
    Roles <- SafeRoles
    Nodes = {n1, n2, n3, n4}
    ListHead = ListHead
    Policy = Policy
    Poison = Poison
    MaxOps = 5
SYMMETRY NodeSymmetry
INVARIANTS NeverWild RingExact ForwardWhole
PROPERTY OneStoreChanges
CHECK_DEADLOCK FALSE
