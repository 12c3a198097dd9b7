SPECIFICATION Spec
CONSTANTS
    x = x
    y = y
    put = put
    refresh = refresh
    refresh2 = refresh2
    t1 = t1
    t2 = t2
    Ingest = Ingest
    Names <- MCNames
    Aliases <- MCAliases
    Manual <- MCManual
    StopNames <- MCNoStop
    Items <- MCSearchItems
    Puts <- MCPuts
    Refreshes <- MCNoEditors
    Tasks <- MCTasks
    Batch = 1
    MaxIncremental = 2
    MaxId = 2
    MaxEdits = 2
    MaxStarts = 0
SYMMETRY Symmetry
INVARIANT SourceTagsKept
CHECK_DEADLOCK FALSE
