CONSTANTS
    RawTitles <- MCRawTitles
    Normalised <- MCNormalised
    Queries <- MCQueries
    Containing <- MCContaining
    Scripts <- MCScripts
    TaskIds = {a, b}
    Handlers = {h1, h2, h3}
    BulkDelete = TRUE
SPECIFICATION JSpec
PROPERTIES
    JourneyEnds
CHECK_DEADLOCK FALSE
