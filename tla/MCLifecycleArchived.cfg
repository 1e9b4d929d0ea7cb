SPECIFICATION Spec
CONSTANTS
    Projects = {pr1}
    Scrapers = {}
    Names = {n1, n2}
    Configs = {}
    Reqs = {r1, r2}
    MaxVersion = 1
    None = None
PROPERTIES
    ArchivedIsTerminal
