\* A sign-in racing an erasure.
SPECIFICATION Spec
CONSTANTS
    Requests = {r1, r2}
    FirstToken = t0
    Ops = {"signin", "delete"}
    DefaultTTL = 2
    PendingTTL = 1
    RefreshWindow = 1
    MayFail = FALSE
    MaxTerms = 1
    MaxNow = 2
INVARIANT NothingWithoutConsent
CHECK_DEADLOCK FALSE
