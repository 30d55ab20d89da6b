SPECIFICATION Spec
CONSTANTS
    MaxTokens = 4
    MinTokens = 2
    Overlap = 1
    TextTokens = 2
    MinLines = 1
    Builtins = {"print"}
    Paths = {1, 2, 3, 4}
    PathOf <- MCPathOf
    Versions <- MCVersions
    Content <- MCContent
    ParseOf <- MCParseOf
    MarksOf <- MCMarksOf
    Absent = "none"
    Commits = {"c1", "c2"}
    Tree <- MCTree
    MaxBuilds = 2
    MatchesPerFile = 2
    DefinitionLines = 2
    Margin = 1
    Requests <- MCRequests
    Limit = 2
    SimilarLimit = 1
    GitAvailable = TRUE
    Base = "c1"
    Budget = 6
    CodeWords = {"add", "stop", "shut", "Late"}
    LongWords = {"stop"}
    Pieces <- MCPieces
    Expansions <- MCExpansions
INVARIANTS
    TextMatchesItsPlace
    RolesAreReal
    ReadingFollowsChunks
CHECK_DEADLOCK FALSE
