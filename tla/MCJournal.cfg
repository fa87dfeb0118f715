SPECIFICATION Spec
CONSTANTS
    s1 = s1
    s2 = s2
    StepIDs <- MCStepIDs
    MaxTime = 3
    MaxAttempts = 2
    NoState = NoState
    NoStep = NoStep
    NoPause = NoPause

INVARIANTS
    CancelledWithoutMutation
    RequestsHonored
    RequestBoundsWork
    NeverStuck
    StepsDoNotOverlap
PROPERTIES
    LifecycleSpec
CHECK_DEADLOCK FALSE
