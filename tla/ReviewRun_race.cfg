SPECIFICATION Spec
CONSTANTS
    Pairs = {p1, p2}
    Agentic = {p1}
    Jobs = {j1, j2, j3}
    Free = Free
    MaxAttempt = 2
    MaxKills = 0
    MaxLapses = 1
SYMMETRY JobSymmetry
INVARIANTS
    OneRefreshedInside
    CompletedAccountsForEveryPair
    TimeCountedOnce
PROPERTY LifecycleHolds
CHECK_DEADLOCK FALSE
