SPECIFICATION Spec
CONSTANTS
    Pairs = {p1}
    Agentic = {}
    Jobs = {j1, j2}
    Free = Free
    MaxAttempt = 2
    MaxKills = 0
    MaxLapses = 1
INVARIANT OneAttemptAtWork
CHECK_DEADLOCK FALSE
