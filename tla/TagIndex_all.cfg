SPECIFICATION Spec
CONSTANTS
    x = x
    y = y
    put = put
    refresh = refresh
    refresh2 = refresh2
    t1 = t1
    t2 = t2
    Ingest = Ingest
    Names <- MCNames
    Aliases <- MCAliases
    Manual <- MCManual
    StopNames <- MCStop
    Items <- MCItems
    Puts <- MCPuts
    Refreshes <- MCRefreshes
    Tasks <- MCTasks
    Batch = 1
    MaxIncremental = 1
    MaxId = 2
    MaxEdits = 2
    MaxStarts = 1
SYMMETRY Symmetry
INVARIANTS StaleIsRenewed IndexFollowsTable
CHECK_DEADLOCK FALSE
