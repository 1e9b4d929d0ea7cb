SPECIFICATION Spec
CONSTANTS
    Users = {u1}
    Families = {f1}
    Pairs = {p1, p2, p3}
    Reqs = {r1, r2}
    AccessTTL = 1
    RefreshTTL = 2
    None = None
PROPERTIES
    ReuseRevokesEntireFamily
