SPECIFICATION Spec
CONSTANTS
    Commands = {c1, c2, c3}
    Refused = {c1}
    Accounts = {a1}
    NoAccount = NoAccount
    Unreadable = Unreadable
SYMMETRY Symmetry
INVARIANTS
    TypeOK
    CursorCountsPushedRows
    PushedInOrder
    OkMeansPushed
    OnceUnlessDisturbed
CHECK_DEADLOCK FALSE
