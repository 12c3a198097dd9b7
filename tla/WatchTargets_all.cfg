SPECIFICATION FairSpec
CONSTANTS
    web = web
    bot = bot
    A = A
    B = B
    yahoo = yahoo
    naver = naver
    NoClient = NoClient
    Clients <- MCClients
    Symbols <- MCSymbols
    Callers <- MCCallers
    MaxPuts = 3
    MaxNames = 2
    MaxRestarts = 1
INVARIANTS NamesCurrent StaleOnlyByOverlap
PROPERTY RegisteredInTheEnd
