CONSTANTS
    s1 = s1
    s2 = s2
    Outsider = outsider
    Sessions = {s1, s2}
    SeedCount = 2
    Adverse = {"crash", "error", "expire", "write", "delete"}
    MaxAdverse = 2
    MaxVersions = 5
SPECIFICATION Spec
INVARIANTS
    VerifiedHolds
    AcquireIsReported
PROPERTIES
    NeverOverwrites
    LockIsReturnedByItsTaker
SYMMETRY SessionSymmetry
CHECK_DEADLOCK FALSE
