SPECIFICATION Spec
CONSTANTS
    Users = {u1, u2}
    Families = {f1, f2}
    Pairs = {p1, p2, p3}
    Reqs = {r1}
    AccessTTL = 1
    RefreshTTL = 2
    None = None
SYMMETRY Symmetry
INVARIANTS
    RecordsBelongToOwner
PROPERTIES
    OnlyOwnFamilyIsRevoked
