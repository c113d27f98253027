CONSTANTS
    RawTitles <- MCRawTitles
    Normalised <- MCNormalised
    Queries <- MCQueries
    Containing <- MCContaining
    TaskIds = {a}
    Handlers = {h1, h2}
    BulkDelete = TRUE
SPECIFICATION Spec
SYMMETRY Symmetry
INVARIANTS
    LastAnswerIsTheList
PROPERTIES
    FailuresAreReported
    StaleAdvanceIsLegal
