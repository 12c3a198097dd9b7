\* One state per input: there is nothing to do after it.
SPECIFICATION CalculationsSpec
CHECK_DEADLOCK FALSE
CONSTANTS
    StopNames = {}
    Common = {"bank"}
    Digits <- MCDigits
    Length <- MCLength
    MaxNameWords = 3
    Particles <- MCParticles
    Latin <- MCLatin
    Lower <- MCLower
    Alnum <- MCAlnum
    Legal <- MCLegal
    KrLegal <- MCKrLegal
    Remarks <- MCRemarks
    MaxAsciiTerm = 3
    MinBaseName = 2
    TagCap = 2
    TextCap = 2
    TagOrder <- MCTagOrder
    Truth <- MCTruth
    Changes <- MCChanges
    Texts <- MCTexts
    Listed <- MCListed
    Summaries <- MCSummaries
    Fronts <- MCFronts
    Backs <- MCBacks
    Intervals <- MCIntervals
    Moments <- MCMoments
    Failures <- MCFailures
    Tables <- MCTables
    Queries <- MCQueries
    Truths <- MCTruths
    Limits <- MCLimits
    Delays <- MCDelays
    Years <- MCYears
    Companies <- MCCompanies
    Openings <- MCPieces
    Lines <- MCLines
INVARIANT CandidatesSuffice
INVARIANT NamesDecide
INVARIANT NoOpeningSlept
INVARIANT PagesComplete
INVARIANT DartQuartersTrue
INVARIANT DartPeriodsFollow
INVARIANT SecStatementsTrue
