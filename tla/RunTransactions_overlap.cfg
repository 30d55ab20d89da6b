SPECIFICATION Spec
CONSTANTS
    Pairs = {p1, p2}
    Users = {u1, u2}
    Worker = Worker
    MaxAttempt = 2
    Closed = Closed
SYMMETRY UserSymmetry
PROPERTY OnlyOvertakenBreakTheRules
CHECK_DEADLOCK FALSE
