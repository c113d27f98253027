CONSTANTS
    ann = ann
    bob = bob
    cat = cat
    Requests = {r1}
    TaskIds = {t1, t2}
    Accounts <- MCAccounts
    RawTitles <- MCRawTitles
    Normalised <- MCNormalised
    Queries = {"A"}
    Containing <- MCContaining
    Descriptions = {"", "d"}
    Drafts <- MCDrafts
    Patches <- AnyPatch
    Filters <- MCFilters
    BulkTenants = {"custa"}
    Absent = Absent
    NoTask = NoTask
    NoId = NoId
    NoAccount = NoAccount
SPECIFICATION Spec
SYMMETRY MCSymmetry
PROPERTIES
    FollowsStatusMachine
