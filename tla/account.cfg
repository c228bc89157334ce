\* Every operation, three requests, one terms bump, past the tombstones' end.
SPECIFICATION Spec
CONSTANTS
    Requests = {r1, r2, r3}
    FirstToken = t0
    Ops = {"signin", "accept", "decline", "logout", "me", "record", "delete", "approve"}
    DefaultTTL = 2
    PendingTTL = 1
    RefreshWindow = 1
    MayFail = TRUE
    MaxTerms = 2
    MaxNow = 5
SYMMETRY Symmetry
INVARIANT TypeOK
INVARIANT SignedOutStaysOut
INVARIANT ZeroTraceUntilAccepted
INVARIANT NothingWithoutConsentUndisturbed
INVARIANT LoggedOutEverywhereUndisturbed
CHECK_DEADLOCK FALSE
