CONSTANTS
    c1 = c1
    c2 = c2
    j1 = j1
    j2 = j2
    None = None
    Clients = {c1, c2}
    JobIds = {j1, j2}
    MaxRuns = 2
    Loads <- LiveLoads
SPECIFICATION FairSpec
PROPERTIES CommandsReturn
