\* Every operation, three of them racing, across a month rollover.
SPECIFICATION Spec
CONSTANTS
    Requests = {r1, r2, r3}
    Ops = {"public", "private", "mint", "tutor", "approve", "revoke", "signin", "delete"}
    MaxSession = 2
    MonthlyCap = 3
    MaxAttempts = 2
    MaxClock = 3
    MaxMonth = 1
    UniqueStamps = TRUE
SYMMETRY Symmetry
INVARIANT TypeOK
INVARIANT BookingIsFresh
INVARIANT BudgetUnlessClobbered
INVARIANT WithdrawnUnlessClobbered
CHECK_DEADLOCK FALSE
