SPECIFICATION FairSpec
CONSTANTS
    yahoo = yahoo
    A = A
    B = B
    t1 = t1
    t2 = t2
    NoTask = NoTask
    Sources <- MCOneSource
    Symbols <- MCTwoSymbols
    Keys <- MCKeys
    MaxFetches = 1
    Tasks <- MCTwoTasks
    MaxPrunes = 0
    MaxRestarts = 0
    Switched <- MCOnlyB
    OtherRuns = 1
PROPERTIES WatchedPolledForever JobsEnd
