SPECIFICATION Spec
CONSTANTS
    yahoo = yahoo
    A = A
    B = B
    t1 = t1
    t2 = t2
    NoTask = NoTask
    Sources <- MCOneSource
    Symbols <- MCTwoSymbols
    Keys <- MCKeys
    MaxFetches = 1
    Tasks <- MCTwoTasks
    MaxPrunes = 1
    MaxRestarts = 1
    Switched <- MCEverything
    OtherRuns = 0
SYMMETRY FullSymmetry
INVARIANTS TypeOK OneJobPerKey PacedRequests
PROPERTY CooldownUnlessForgotten
