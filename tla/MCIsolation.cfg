CONSTANTS
    a1 = a1
    a2 = a2
    MaxTime = 4
    Actors <- MCActors
    Revisions = {"observed"}
    Binding = "approved"
    Foreign = "foreign"
    BootstrapSteps = {"t1"}
    RollbackSteps = {"r1"}
    StepIDs = {"t1", "r1"}
    ApprovedAt = 1
    ApprovalValidUntil = 3
    MaxT8EvidenceLifetime = 2
    MaxWrites = 4
    AddressBits = 4
    PrivateRanges <- MCPrivateRanges
    MaxSubnetBits = 3
    Policy <- MCPolicy
    Principals = {"operator", "destructive", "outsider"}
    MaxPreMutationProofLifetime = 2
    IAPRange <- MCIAPRange
    Requests <- MCRequests
    Observed <- MCObserved
    DesiredRule <- MCDesiredRule
    ForeignRule <- MCForeignRule
    Contracts <- MCContracts
    Operator = "operator"
    Nobody = "nobody"
    Outsider = "outsider"
    MaxChanges = 2
SPECIFICATION MCSpec
INVARIANTS
    TransitionsSeal
    TestsRunOnLiveEvidence
    PassRestsOnLooks
    CreatedRulesCanBeWiped
PROPERTIES
    VerdictsOnlyAdvance
    WipeSparesLiveRuns
SYMMETRY MCSymmetry
CHECK_DEADLOCK FALSE
