SPECIFICATION Spec
CONSTANTS
    Extent = 16
    Step = 2
    MaxHops = 3
    MaxAdds = 1
    Datasets <- MCDatasets
    Foreign <- MCForeign
    Ways <- MCWays
INVARIANTS
    TypeOK
    NothingLost
    SplitsKept
    NothingInvented
    TracksPreserved
    DocumentsResolve
    TaxonomyConsistent
    RoundTripStable
    WrittenValidates
    CleanRootLoads
PROPERTIES
    AppendKeepsFiles
CHECK_DEADLOCK FALSE
