CONSTANTS
    None = None
    MaxTime = 4
    MaxStepAttempts = 10
    MaxRetryBackoff = 60
    MaxStepTimeout = 1
    SnapshotAge = 1
    AddressWidth = 4
    NarrowBits = 3
    PrivateNetworks <- MCPrivateNetworks
    IAPSource <- MCIAPSource
    Plans <- MCPlans
    PlanOf <- MCPlanOf
    ContractOf <- MCContracts
    Stranger <- MCStranger
    Freshness = 1
    LoginFreshness = 1
    Day = 2
    MaxFaults <- MCFaults
    Config <- MCConfig
    RequiredAPIs <- MCRequiredAPIs
    MaxEvidenceLifetime = 2
    MinimumValidity = 1
    PricingAge = 1
    ExactCost = 3
    Inventories <- MCInventories
    Prices <- MCPrices
    ProofLife = 2
    Skew = 1
    OpenedSteps = {"k1-retention-lock", "k3-bucket-iam"}
    Policies <- MCPolicies
SPECIFICATION MCSpec
INVARIANTS
    AuthorizedOnIntactWorld
    PlansAreSafe
    ScheduledRunInOneWindow
    DerivedPlansCanRun
    PlansStartFromEmptyProject
    SentAsApproved
    RetriesAreSafe
CHECK_DEADLOCK FALSE
