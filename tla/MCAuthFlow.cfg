SPECIFICATION Spec
CONSTANTS
    Users = {u1}
    Pairs = {p1, p2}
    Browsers = {b1}
    Scripts = {s1}
    Writers = {b1}
    Reqs = {r1, r2}
    None = None
SYMMETRY Symmetry
CONSTRAINT OneClientAtATime
INVARIANTS
    TypeOK
    HeldSessionsAreRecorded
PROPERTIES
    RevokedSessionsAreRefused
    ReuseOnlyIfMuddled
    OnlyRefreshUndoesLogout
    SuspendedOnlyRefreshes
    CsrfFailsOnlyIfOvertaken
