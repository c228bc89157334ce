\* A sliding refresh racing an erasure.
SPECIFICATION Spec
CONSTANTS
    Requests = {r1, r2}
    FirstToken = t0
    Ops = {"me", "delete"}
    DefaultTTL = 3
    PendingTTL = 1
    RefreshWindow = 2
    MayFail = FALSE
    MaxTerms = 1
    MaxNow = 4
INVARIANT LoggedOutEverywhere
CHECK_DEADLOCK FALSE
