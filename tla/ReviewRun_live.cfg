SPECIFICATION FairSpec
CONSTANTS
    Pairs = {p1}
    Agentic = {}
    Jobs = {j1, j2}
    Free = Free
    MaxAttempt = 2
    MaxKills = 1
    MaxLapses = 1
INVARIANT TypeOK
PROPERTIES
    AttemptStartedOnce
    QueuedJobIsServed
    StaleAttemptLeaves
    RunningRunEnds
CHECK_DEADLOCK FALSE
