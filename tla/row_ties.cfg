\* Every operation, with writes that share a millisecond.
SPECIFICATION FairSpec
CONSTANTS
    Requests = {r1, r2}
    Ops = {"public", "private", "mint", "tutor", "approve", "revoke", "signin", "delete"}
    MaxSession = 2
    MonthlyCap = 3
    MaxAttempts = 2
    MaxClock = 2
    MaxMonth = 1
    UniqueStamps = FALSE
INVARIANT MeterWithinCap
PROPERTY EveryRequestAnswered
CHECK_DEADLOCK FALSE
