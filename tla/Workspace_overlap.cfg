SPECIFICATION Spec
CONSTANTS
    a = a
    b = b
    c = c
    home = home
    People = {a, b, c}
    Organizations = {home, other}
    Names = {n, m}
    Servers = {s, t}
    Requests = {r1, r2}
    MaxAccounts = 4
    MaxRows = 4
    Home = home
    Team <- MCTeam
    Nobody = Nobody
    NoRow = NoRow
SYMMETRY Alike
INVARIANTS
    OwnersFallOnlyTogether
PROPERTIES
    JoinsAreInvited
    RolesChangeByOwners
    EditsSurviveRefresh
CHECK_DEADLOCK FALSE
