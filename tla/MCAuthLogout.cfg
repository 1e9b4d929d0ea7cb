SPECIFICATION Spec
CONSTANTS
    Users = {u1}
    Pairs = {p1, p2}
    Browsers = {b1}
    Scripts = {}
    Writers = {b1}
    Reqs = {r1}
    None = None
PROPERTIES
    LogoutRevokesFamily
