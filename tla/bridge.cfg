SPECIFICATION FairSpec
CONSTANTS
    Conns = {c1, c2}
    Talkers = {c1}
    Tokens <- MCTokens
    MaxConcurrent = 1
    MaxSession = 1
    Grace = 2
    Timeout = 1
    Redelivered = {c2}
    MaxFrames = 2
    Horizon = 3
    NoToken = NoToken
INVARIANTS
    TypeOK
    StreamsWithinCapUnlessDisturbed
    AudioOnceInOrder
PROPERTIES
    GateIsTheOnlyEntry
    SlotsComeBack
CHECK_DEADLOCK FALSE
