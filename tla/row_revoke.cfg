\* A visibility change racing a revoke.
SPECIFICATION Spec
CONSTANTS
    Requests = {r1, r2, r3}
    Ops = {"tutor", "public", "revoke"}
    MaxSession = 2
    MonthlyCap = 3
    MaxAttempts = 3
    MaxClock = 3
    MaxMonth = 0
    UniqueStamps = TRUE
SYMMETRY Symmetry
PROPERTY NoServiceWhileWithdrawn
CHECK_DEADLOCK FALSE
