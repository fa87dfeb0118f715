CONSTANTS
    s1 = s1
    s2 = s2
    Sessions = {s1, s2}
    ApprovedAt = 1
    ValidUntil = 3
    MaxTime = 3
    Adverse = {"crash", "error", "createBucket", "deleteBucket", "object", "retention", "lock", "config"}
    MaxAdverse = 1
SPECIFICATION Spec
SYMMETRY SessionSymmetry
INVARIANTS
    RecordedLockIsReal
    RecordedUploadIsOwn
