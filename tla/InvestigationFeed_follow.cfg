SPECIFICATION Spec
CONSTANTS
    r1 = r1
    r2 = r2
    Readings = {r1, r2}
    Watchers = {w}
    Followers = {f}
    Page = 2
    MaxSteps = 4
SYMMETRY ReadingSymmetry
INVARIANTS
    MissedOnlyBeyondThePage
    ReadingsAreShownInOrder
    FollowersLoseOnlyOvertaken
CHECK_DEADLOCK FALSE
