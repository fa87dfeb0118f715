CONSTANTS
    s1 = s1
    s2 = s2
    Sessions = {s1}
    ApprovedAt = 1
    ValidUntil = 3
    MaxTime = 3
    Adverse = {"crash", "error"}
    MaxAdverse = 4
SPECIFICATION FairSpec
PROPERTIES
    HandoffCompletes
