SPECIFICATION FairSpec
CONSTANTS
    p1 = p1
    p2 = p2
    Paths = {p1, p2}
    Commits <- MCCommits
    Tree <- MCTree
    Absent = "absent"
    Requests = {r1, r2}
    MaxSnapshots = 2
    MaxKills = 1
INVARIANTS
    TypeOK
    FilesOfReadySnapshotsAreLinked
PROPERTIES
    ReadyBuildCoversItsTree
    OnlyOvertakenRewriteTheEnd
    CancelledBuildEnds
CHECK_DEADLOCK FALSE
