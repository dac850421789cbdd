SPECIFICATION Spec
CONSTANTS
    Extent = 16
    Step = 2
    MaxHops = 1
    MaxAdds = 0
    Datasets <- NoDatasets
    Foreign <- MCGapped
    Ways <- VisWays
INVARIANT NothingLost
CHECK_DEADLOCK FALSE
