\* Racing mints, sign-ins and erasures of one learner, in one month.
SPECIFICATION Spec
CONSTANTS
    Requests = {r1, r2, r3}
    Ops = {"mint", "signin", "delete"}
    MaxSession = 2
    MonthlyCap = 4
    MaxAttempts = 3
    MaxClock = 4
    MaxMonth = 0
    UniqueStamps = TRUE
SYMMETRY Symmetry
PROPERTY BookingIsAtomic
PROPERTY RefusedOnlyWhenSpent
CHECK_DEADLOCK FALSE
