SPECIFICATION Spec
CONSTANTS
    rss = rss
    dart = dart
    r1 = r1
    r2 = r2
    r3 = r3
    NoSource = NoSource
    Sources <- MCOnlyRss
    EnabledByDefault <- MCOnlyRss
    Conditional <- MCOnlyRss
    Blank <- MCBlankSecond
    MaxFetches = 1
    Runs <- MCThreeRuns
    MaxRefreshes = 2
    MaxVersion = 2
    MaxStreak = 1
    MaxQueue = 2
    MaxCrashes = 1
SYMMETRY RunSymmetry
INVARIANTS TypeOK OneRunPerSource EtagCovered DatabaseCatchesUp
PROPERTY EtagsAdvance
