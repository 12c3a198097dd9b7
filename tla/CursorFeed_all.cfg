SPECIFICATION FeedSpec
CONSTANTS
    wire = wire
    bank = bank
    a = a
    b = b
    j1 = j1
    j2 = j2
    NoDate = NoDate
    NoJob = NoJob
    NoText = NoText
    Sources <- MCSources
    Keys <- MCKeys
    Jobs <- MCJobs
    Retention <- MCRetention
    Batches <- MCBatches
    DeleteMax = 1
    MaxTick = 2
    MaxId = 3
    PageMax = 1
SYMMETRY JobSymmetry
INVARIANTS TypeOK TagsMatchText NothingPending CursorComplete
PROPERTIES KeptByAnyFeed ComesBackOnlyLate
CHECK_DEADLOCK FALSE
