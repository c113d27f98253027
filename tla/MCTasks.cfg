CONSTANTS
    ann = ann
    bob = bob
    cat = cat
    Requests = {r1, r2}
    TaskIds = {t1, t2}
    Accounts <- MCAccounts
    RawTitles <- MCRawTitles
    Normalised <- MCNormalised
    Queries = {"A"}
    Containing <- MCContaining
    Descriptions = {""}
    Drafts <- MCDrafts
    Patches <- MCPatches
    Filters <- MCFilters
    BulkTenants = {"custa"}
    Absent = Absent
    NoTask = NoTask
    NoId = NoId
    NoAccount = NoAccount
SPECIFICATION Spec
SYMMETRY MCSymmetry
INVARIANTS
    TypeOK
    TasksBelongToAccounts
    RepliesShowOwnRows
    RefusalsLeaveNoTrace
    OnlyTimeoutsSpareTheRow
PROPERTIES
    OnlyOwnersWrite
    OnlyAskedFieldsChange
    DeletesAreAskedFor
    ImplementsLifecycle
