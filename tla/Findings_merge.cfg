SPECIFICATION MCSpec
CONSTANTS
    Drafts = {d1, d2, d3}
    Keys = {k1, k2}
    Severities = {1, 2}
    Nobody = Nobody
SYMMETRY DraftSymmetry
INVARIANTS
    TypeOK
    EveryDraftEndsOnce
    BestDraftIsStored
CHECK_DEADLOCK FALSE
