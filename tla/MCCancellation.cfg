SPECIFICATION CancellationSpec
CONSTANTS
    s1 = s1
    s2 = s2
    d1 = d1
    StepIDs <- MCStepIDs
    ContractSteps <- MCContractSteps
    Decisions <- MCDecisions
    PointOfNoReturn = s2
    PointOfNoReturnTrigger = "mutation-observed"
    StepStates = {"LOCK", "PROTECT", "EXECUTE", "VERIFY", "ROLLBACK"}
    HasRollbackBoundary = TRUE
    MaxTime = 2
    MaxAttempts = 2
    NoState = NoState
    NoStep = NoStep
    NoPause = NoPause
    NoDecision = NoDecision
    NoRequest = NoRequest
INVARIANTS
    AppliedDecisionRecordable
    NotCancelledPastPoint
    ScansAgree
CHECK_DEADLOCK FALSE
