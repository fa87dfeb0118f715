SPECIFICATION NetworkSpec
CONSTANTS
    MaxTime = 2
    Intents = {"nat"}
    Operations = 1
    MaxAttempts = 2
    Validity = 1
    MaxEvents = 1
INVARIANT RouterEvidenceComplete
CHECK_DEADLOCK FALSE
