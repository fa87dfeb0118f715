CONSTANTS
    s1 = s1
    s2 = s2
    Outsider = outsider
    Sessions = {s1}
    SeedCount = 2
    Adverse = {"crash", "error", "write"}
    MaxAdverse = 3
    MaxVersions = 12
SPECIFICATION FairSpec
PROPERTIES
    StepsComplete
CHECK_DEADLOCK FALSE
