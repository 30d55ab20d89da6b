SPECIFICATION MCFairSpec
CONSTANTS
    local = local
    remote = remote
    c1 = c1
    Local = local
    Remotes <- MCRemotes
    Nameless = Nameless
    Calls = {c1}
    CallLists <- MCCallLists
    Windows <- MCWindows
    MaxSteps = 2
    MaxAttempts = 2
    Readings = 2
INVARIANTS
    TypeOK
    CodeStaysWithinPolicy
    EveryCallIsAnswered
    EvidenceWasShown
PROPERTIES
    ReadingEnds
CHECK_DEADLOCK FALSE
