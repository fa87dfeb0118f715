SPECIFICATION CancellationSpec
CONSTANTS
    s1 = s1
    s2 = s2
    d1 = d1
    StepIDs <- MCStepIDs
    ContractSteps <- MCContractSteps
    Decisions <- MCDecisions
    PointOfNoReturn = s2
    PointOfNoReturnTrigger = "mutation-observed"
    StepStates = {"PROTECT", "EXECUTE"}
    HasRollbackBoundary = TRUE
    MaxTime = 2
    MaxAttempts = 1
    NoState = NoState
    NoStep = NoStep
    NoPause = NoPause
    NoDecision = NoDecision
    NoRequest = NoRequest
INVARIANTS
    CancelMeansNoMutation
CHECK_DEADLOCK FALSE
