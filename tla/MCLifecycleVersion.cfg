SPECIFICATION Spec
CONSTANTS
    Projects = {}
    Scrapers = {sc1}
    Names = {n1, n2}
    Configs = {c1, c2}
    Reqs = {r1, r2}
    MaxVersion = 2
    None = None
PROPERTIES
    ConfigurationChangeBumpsVersion
