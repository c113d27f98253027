CONSTANTS
    custa = custa
    custb = custb
    demo_a = demo_a
    demo_b = demo_b
    Called = {"me", "tasks", "logout"}
    Requests = {r1, r2}
    Tenants <- MCTenants
    UserIds = {demo_a, demo_b}
    Usernames = {"demo"}
    Jtis = {j1}
    DemoUser <- MCDemoUser
    DemoName = "demo"
    TestEndpoints = FALSE
    NoTenant = NoTenant
    NoUser = NoUser
    NoToken = NoToken
    BadToken = BadToken
    RawTitles <- MCRawTitles
    Normalised <- MCNormalised
    Queries = {"A"}
    Containing <- MCContaining
    TaskIds = {t1}
    Descriptions = {""}
    Drafts <- MCDrafts
    Patches <- BothMoves
    Filters <- MCFilters
    BulkTenants = {custa, custb}
    Absent = Absent
    NoTask = NoTask
    NoId = NoId
    NoAccount = NoAccount
SPECIFICATION Spec
SYMMETRY MCSymmetry
PROPERTIES
    ImplementsSessions
    ImplementsTasks
