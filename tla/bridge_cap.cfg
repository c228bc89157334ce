SPECIFICATION Spec
CONSTANTS
    Conns = {c1, c2}
    Talkers = {}
    Redelivered = {}
    Tokens <- MCTokens
    MaxConcurrent = 1
    MaxSession = 1
    Grace = 2
    Timeout = 1
    MaxFrames = 0
    Horizon = 3
    NoToken = NoToken
INVARIANTS
    StreamsWithinCap
CHECK_DEADLOCK FALSE
