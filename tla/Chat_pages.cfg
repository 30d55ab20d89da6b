SPECIFICATION MCFairSpec
CONSTANTS
    Local = local
    remote = remote
    Remotes <- MCRemotes
    Nameless = nameless
    p1 = p1
    p2 = p2
    Pages = {p1, p2}
    Conversations = {k1}
    t1 = t1
    Tenants = {t1}
    TenantOf <- MCTenantOf
    Preferences <- MCPreferences
    MaxQuestions = 2
    MaxSteps <- MCMaxSteps
    MaxCalls = 2
    MaxShutdowns = 1
    None = none
    Deleted = deleted
INVARIANTS StreamStaysWithinPolicy ShownAnswersAreRecorded EventsAreRecordedOnce RefusedOnlyWhenAllWereAsked
PROPERTIES TranscriptHolds QuestionEnds
CHECK_DEADLOCK FALSE
