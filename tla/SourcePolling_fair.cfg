SPECIFICATION FairSpec
CONSTANTS
    rss = rss
    dart = dart
    r1 = r1
    r2 = r2
    r3 = r3
    NoSource = NoSource
    Sources <- MCSources
    EnabledByDefault <- MCSources
    Conditional <- MCOnlyRss
    Blank <- MCNone
    MaxFetches = 1
    Runs <- MCTwoRuns
    MaxRefreshes = 0
    MaxVersion = 2
    MaxStreak = 1
    MaxQueue = 0
    MaxCrashes = 0
PROPERTIES PolledForever FinalContentStored
