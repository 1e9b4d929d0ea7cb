SPECIFICATION Spec
CONSTANTS
    Users = {u1}
    Organizations = {o1, o2}
    Projects = {p1}
    Scrapers = {s1}
    Targets = {t1}
    Emails = {e1}
    Slugs = {a, b}
    Names = {n1}
    Hosts = {h1}
    PublicAddresses = {pub}
    PrivateAddresses = {priv}
    Answers = {{}, {pub}, {pub, priv}}
    Grants = {"MANAGER"}
    Reqs = {r1, r2}
    None = None
SYMMETRY Symmetry
INVARIANTS
    TypeOK
    NamesUnique
    AuditMatchesRows
    StoredUrlsWereSafe
PROPERTIES
    UnauthorizedOnlyIfStale
    UpdatesAreApplied
    ImplementsCatalog
