CONSTANTS
    custa = custa
    custb = custb
    demo_a = demo_a
    demo_b = demo_b
    usr_1 = usr_1
    Called = {"me", "tasks", "logout"}
    Requests = {r1, r2}
    Tenants <- MCTenants
    UserIds <- MCUserIds
    Usernames = {"demo", "ann"}
    Jtis = {j1, j2}
    DemoUser <- MCDemoUser
    DemoName = "demo"
    TestEndpoints = TRUE
    NoTenant = NoTenant
    NoUser = NoUser
    NoToken = NoToken
    BadToken = BadToken
SPECIFICATION Spec
SYMMETRY MCSymmetry
INVARIANTS
    SafeToDecodeAgain
