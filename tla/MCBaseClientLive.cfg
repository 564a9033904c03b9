SPECIFICATION FairSpec
CONSTANTS
    c1 = c1
    c2 = c2
    alice = alice
    bob = bob
    Calls = {c1, c2}
    UserTokens = {}
    NoCall = NoCall
    NoToken = NoToken
    NoReply = NoReply
    Lifetimes <- MCLifetimes
    MARGIN = 1
    TIMEOUT = 1
    MaxClock = 0
    MaxTokens = 2
    MAX_RETRIES = 1
PROPERTIES
    CallsEnd
