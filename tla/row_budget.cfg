\* A visibility change racing a booking.
SPECIFICATION Spec
CONSTANTS
    Requests = {r1, r2, r3}
    Ops = {"mint", "public"}
    MaxSession = 2
    MonthlyCap = 3
    MaxAttempts = 3
    MaxClock = 3
    MaxMonth = 0
    UniqueStamps = TRUE
SYMMETRY Symmetry
INVARIANT BudgetWithinCap
CHECK_DEADLOCK FALSE
