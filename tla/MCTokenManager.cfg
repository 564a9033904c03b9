SPECIFICATION TokenSpec
CONSTANTS
    Calls = {c1, c2, c3}
    NoCall = NoCall
    NoToken = NoToken
    NoReply = NoReply
    Lifetimes <- MCLifetimes
    MARGIN = 1
    TIMEOUT = 1
    MaxClock = 4
    MaxTokens = 3
INVARIANTS
    TokenTypeOK
    SingleFlight
    FetchOnlyWhenStale
    CachedTokenAlive
PROPERTIES
    TokensMoveForward
    GetTokenEnds
