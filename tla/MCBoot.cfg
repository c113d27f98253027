CONSTANTS
    NumFiles = 2
    acme = acme
    Acme = Acme
    globex = globex
    Hostnames <- MCHostnames
    Lower <- MCLower
    text1 = text1
    text2 = text2
    number2 = number2
    RawIds <- MCRawIds
    Str <- MCStr
    Docs <- MCDocs
    NoFile = NoFile
    NoHost = NoHost
    NoTenant = NoTenant
    Processes = {p1, p2, p3}
    Tables <- MCTables
    Indexes <- MCIndexes
    Tenants <- MCTenants
SPECIFICATION MCSpec
INVARIANTS
    RoutingIsUnambiguous
    KitFindsTheTenants
    ServingIsComplete
    LoneStartSucceeds
PROPERTIES
    ReloadIsAllOrNothing
    BootsOnValidFiles
