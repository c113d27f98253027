CONSTANTS
    Requests = {r1, r2, r3, r4}
    Workers = 2
    PoolSize = 2
    Tabs = {t1, t2}
    Clicks = {c1, c2}
    MaxTokens = 2
    Customers = {a, b}
    MaxPolls = 3
    Callers = {r1, r2}
    Jtis = {j1}
    custa = custa
    demo_a = demo_a
    NoTenant = NoTenant
    NoUser = NoUser
    NoToken = NoToken
    BadToken = BadToken
SPECIFICATION MCSpec
INVARIANTS
    ConnectionsComeBack
    LogoutKillsItsToken
PROPERTIES
    NoRefusalWithinPool
    EveryRequestEnds
    DeadPagesAreLeft
    LogoutTakesEffect
    SessionsEndClean
CHECK_DEADLOCK FALSE
