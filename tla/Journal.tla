------------------------------- MODULE Journal -------------------------------
(***************************************************************************)
(* The durable operation journal (internal/workflow/journal.go).           *)
(*                                                                         *)
(* ValidateJournal reads a complete history entry by entry and refuses it  *)
(* at the first entry that breaks a rule.  The module is that loop seen as *)
(* an acceptor: its variables are the locals of ValidateJournal, and one   *)
(* action accepts one more entry.  The behaviours are therefore exactly    *)
(* the histories the validator accepts, and a refused entry is an action   *)
(* that is not enabled.                                                    *)
(*                                                                         *)
(* An entry carries its position and the operation, plan and contract it   *)
(* belongs to; those must match the stream, so they are left out.  Times   *)
(* are small naturals and 0 is Go's zero time.                             *)
(***************************************************************************)
EXTENDS OperationStates

CONSTANTS StepIDs,        \* step identifiers an entry may name
          MaxTime,        \* bound: latest recordedAt
          MaxAttempts,    \* bound: attempts recorded for one step
          NoState,        \* the machine is nil: nothing is accepted yet
          NoStep,         \* the empty step identifier
          NoPause         \* the pause metadata is nil

ASSUME BoundsAssumption ==
    MaxTime \in Nat \ {0} /\ MaxAttempts \in Nat \ {0}
ASSUME NilAssumption ==
    /\ NoState \notin operationStates
    /\ NoStep \notin StepIDs

VARIABLES
    state,                    \* machine.State()
    previousTime,             \* recordedAt of the last accepted entry
    attempts,                 \* attempts recorded per step
    completed,                \* steps recorded DONE
    mutationMayHaveOccurred,
    paused,                   \* metadata of the PAUSED entry in force
    pendingCancellation,      \* route a recorded request still requires, or "none" for Go's ""
    pendingCurrentStepID,     \* step in flight when it was requested
    pendingStepStartBoundary, \* last boundary before the request
    pendingRequestedAt

pendingVars == <<pendingCancellation, pendingCurrentStepID,
                 pendingStepStartBoundary, pendingRequestedAt>>

\* Observers: facts about the accepted entries that the validator itself does
\* not keep, and that the properties are stated with.
VARIABLES
    evidence,        \* some entry tells of a possible mutation
    requestState,    \* operation state of the last accepted request
    requests,        \* number of accepted requests, counted up to 2
    stepsSince,      \* steps accepted since the last request, up to 2
    lastBoundary,    \* recordedAt of the last transition or step entry
    overlap          \* some step started before the boundary preceding it

ghostVars == <<evidence, requestState, requests, stepsSince, lastBoundary,
               overlap>>

journalVars == <<state, previousTime, attempts, completed,
                 mutationMayHaveOccurred, paused, pendingVars, ghostVars>>

stepOutcomes == {"DONE", "FAILED", "UNKNOWN"}
mutationObservations == {"not-occurred", "occurred", "unknown"}
Times == 1..MaxTime
\* PausedAt and the reason are checked with the entry and never read again.
pauses == [mutationOccurred : BOOLEAN, resumeBy : 2..(MaxTime + 1),
           reapprovalRequired : BOOLEAN]

UpToTwo(n) == IF n >= 2 THEN 2 ELSE n + 1
-----------------------------------------------------------------------------
Init == /\ state = NoState
        /\ previousTime = 0
        /\ attempts = [id \in StepIDs |-> 0]
        /\ completed = {}
        /\ mutationMayHaveOccurred = FALSE
        /\ paused = NoPause
        /\ pendingCancellation = "none"
        /\ pendingCurrentStepID = NoStep
        /\ pendingStepStartBoundary = 0
        /\ pendingRequestedAt = 0
        /\ evidence = FALSE
        /\ requestState = NoState
        /\ requests = 0
        /\ stepsSince = 0
        /\ lastBoundary = 0
        /\ overlap = FALSE

\* The checks every entry passes before its kind is looked at.
EntryFollows(t) == /\ t \in Times
                   /\ t >= previousTime
                   /\ ~Terminal(state)

AcceptInitialTransition(t) ==
    /\ EntryFollows(t)
    /\ state = NoState
    /\ state' = "DISCOVER"
    /\ previousTime' = t
    /\ lastBoundary' = t
    /\ UNCHANGED <<attempts, completed, mutationMayHaveOccurred, paused,
                   pendingVars, evidence, requestState, requests, stepsSince,
                   overlap>>

PendingHonored(next) ==
    pendingCancellation # "none" /\ CanTransition(state, pendingCancellation)
        => next = pendingCancellation

\* A paused operation resumes before its deadline and without re-approval.
ResumePermitted(next, t) ==
    state = "PAUSED" /\ next = "DISCOVER"
        => t < paused.resumeBy /\ ~paused.reapprovalRequired

RouteKeptMutant(next) == TRUE
RouteKept(next) ==
    pendingCancellation \in {"none", next}
        \/ cancellationRouteReachable(next, pendingCancellation)

TransitionAcceptedMutant(next, t) ==
    /\ EntryFollows(t)
    /\ state # NoState
    /\ PendingHonored(next)
    /\ ResumePermitted(next, t)
    /\ CanTransition(state, next)
    /\ RouteKept(next)
\* Every check a transition entry to next, recorded at t, passes.
TransitionAccepted(next, t) ==
    /\ EntryFollows(t)
    /\ state # NoState
    /\ PendingHonored(next)
    /\ ResumePermitted(next, t)
    /\ next = "CANCELLED" => ~mutationMayHaveOccurred
    /\ CanTransition(state, next)
    /\ RouteKept(next)

ClearPendingStep == /\ pendingCurrentStepID' = NoStep
                    /\ pendingStepStartBoundary' = 0
                    /\ pendingRequestedAt' = 0

\* A request still pending is escalated once a mutation is possible.
escalateMutant(route, mutation) == route
escalate(route, mutation) == IF route # "none" /\ mutation THEN "ROLLBACK" ELSE route

\* ValidateJournalEntry: a pause is given with PAUSED and only with PAUSED.
WellFormedTransition(next, pause) ==
    pause \in (IF next = "PAUSED" THEN pauses ELSE {NoPause})

AcceptTransition(next, t, pause) ==
    /\ TransitionAccepted(next, t)
    /\ WellFormedTransition(next, pause)
    /\ LET remaining == IF next = pendingCancellation THEN "none"
                        ELSE pendingCancellation
       IN  IF next = "PAUSED"
           THEN /\ mutationMayHaveOccurred => pause.mutationOccurred
                /\ mutationMayHaveOccurred' =
                       (mutationMayHaveOccurred \/ pause.mutationOccurred)
                /\ pendingCancellation' =
                       escalate(remaining, mutationMayHaveOccurred')
                /\ evidence' = (evidence \/ pause.mutationOccurred)
           ELSE /\ pendingCancellation' = remaining
                /\ UNCHANGED <<mutationMayHaveOccurred, evidence>>
    /\ IF pendingCancellation = "none"
       THEN UNCHANGED <<pendingCurrentStepID, pendingStepStartBoundary,
                        pendingRequestedAt>>
       ELSE ClearPendingStep
    /\ paused' = pause
    /\ state' = next
    /\ previousTime' = t
    /\ lastBoundary' = t
    /\ UNCHANGED <<attempts, completed, requestState, requests, stepsSince,
                   overlap>>

StepTellsMutationMutant(outcome, mutated) == mutated
StepTellsMutation(outcome, mutated) == mutated \/ outcome = "UNKNOWN"

StepMatchesRequestMutant(id, startedAt) ==
    pendingCancellation # "none" /\ pendingCurrentStepID # NoStep =>
        id = pendingCurrentStepID /\ startedAt <= pendingRequestedAt
\* While a request is pending only the step it named may still be recorded.
StepMatchesRequest(id, startedAt) ==
    pendingCancellation # "none" =>
        IF pendingCurrentStepID = NoStep
        THEN ~CanTransition(state, pendingCancellation)
        ELSE id = pendingCurrentStepID /\ startedAt <= pendingRequestedAt

stepStartBoundaryMutant == pendingStepStartBoundary
stepStartBoundary == IF pendingCurrentStepID # NoStep
                     THEN pendingStepStartBoundary
                     ELSE previousTime

\* validateJournalStep; ended is FALSE when the entry has no endedAt.
WellFormedStep(outcome, startedAt, ended, t) ==
    startedAt \in 1..t /\ (ended \/ outcome = "UNKNOWN")

AcceptStep(id, outcome, startedAt, ended, mutated, t) ==
    /\ EntryFollows(t)
    /\ state \notin {NoState, "PAUSED"}
    /\ WellFormedStep(outcome, startedAt, ended, t)
    /\ StepMatchesRequest(id, startedAt)
    /\ startedAt >= stepStartBoundary
    /\ id \notin completed
    /\ attempts[id] < MaxAttempts
    /\ attempts' = [attempts EXCEPT ![id] = @ + 1]
    /\ completed' = IF outcome = "DONE" THEN completed \cup {id} ELSE completed
    /\ mutationMayHaveOccurred' =
           (mutationMayHaveOccurred \/ StepTellsMutation(outcome, mutated))
    /\ pendingCancellation' =
           escalate(pendingCancellation, mutationMayHaveOccurred')
    /\ ClearPendingStep
    /\ previousTime' = t
    /\ evidence' = (evidence \/ mutated \/ outcome = "UNKNOWN")
    /\ stepsSince' = UpToTwo(stepsSince)
    /\ lastBoundary' = t
    /\ overlap' = (overlap \/ startedAt < lastBoundary)
    /\ UNCHANGED <<state, paused, requestState, requests>>

\* validateJournalCancellation ties the route of an entry to its observation,
\* and its requestedAt to recordedAt.
requiredRoute(observation) == cancellationTarget(observation # "not-occurred")

AcceptRequest(id, observation, t) ==
    LET route == requiredRoute(observation)
    IN  /\ EntryFollows(t)
        /\ state # NoState
        /\ pendingCancellation = "none"
        /\ ~(mutationMayHaveOccurred /\ observation = "not-occurred")
        /\ cancellationRouteReachable(state, route)
        /\ mutationMayHaveOccurred' =
               (mutationMayHaveOccurred \/ observation # "not-occurred")
        /\ pendingCancellation' = route
        /\ pendingCurrentStepID' = id
        /\ pendingStepStartBoundary' = previousTime
        /\ pendingRequestedAt' = t
        /\ previousTime' = t
        /\ evidence' = (evidence \/ observation # "not-occurred")
        /\ requestState' = state
        /\ requests' = UpToTwo(requests)
        /\ stepsSince' = 0
        /\ UNCHANGED <<state, attempts, completed, paused, lastBoundary,
                       overlap>>

AcceptSomeTransition ==
    \E next \in operationStates, t \in Times, pause \in pauses \cup {NoPause} :
        AcceptTransition(next, t, pause)
AcceptSomeStep ==
    \E id \in StepIDs, outcome \in stepOutcomes, startedAt, t \in Times,
       ended, mutated \in BOOLEAN :
        AcceptStep(id, outcome, startedAt, ended, mutated, t)
AcceptSomeRequest ==
    \E id \in StepIDs, observation \in mutationObservations, t \in Times :
        AcceptRequest(id, observation, t)

Next == \/ \E t \in Times : AcceptInitialTransition(t)
        \/ AcceptSomeTransition
        \/ AcceptSomeStep
        \/ AcceptSomeRequest

Spec == Init /\ [][Next]_journalVars
-----------------------------------------------------------------------------
\* Type invariant of the validator's locals and of the observers.
TypeOK ==
    /\ state \in operationStates \cup {NoState}
    /\ previousTime \in 0..MaxTime
    /\ attempts \in [StepIDs -> 0..MaxAttempts]
    /\ completed \in SUBSET StepIDs
    /\ mutationMayHaveOccurred \in BOOLEAN
    /\ paused \in pauses \cup {NoPause}
    /\ pendingCancellation \in {"none", "CANCELLED", "ROLLBACK"}
    /\ pendingCurrentStepID \in StepIDs \cup {NoStep}
    /\ pendingStepStartBoundary \in 0..MaxTime
    /\ pendingRequestedAt \in 0..MaxTime
    /\ evidence \in BOOLEAN
    /\ requestState \in operationStates \cup {NoState}
    /\ requests \in 0..2
    /\ stepsSince \in 0..2
    /\ lastBoundary \in 0..MaxTime
    /\ overlap \in BOOLEAN

\* An accepted history that ends CANCELLED holds no entry, of any kind, that
\* tells of a possible mutation (ValidateJournal, "CANCELLED after possible
\* mutation must route through ROLLBACK").
CancelledWithoutMutation == state = "CANCELLED" => ~evidence

\* A recorded cancellation request is never lost: a history with one cannot
\* end in any terminal state but the ones its route leads to, although
\* escalation may change the route and the request may be recorded in a state
\* that cannot take it yet.
RequestsHonored ==
    Terminal(state) /\ requests > 0
        => /\ pendingCancellation = "none"
           /\ state \in {"CANCELLED", "VERIFIED_ROLLBACK", "FAILED_CLEANUP"}

\* No accepted history holds two requests.  The validator only refuses a
\* second one while the first is pending; that none is accepted later follows
\* from where the routes lead.
OneRequest == requests <= 1

\* After a request in PROTECT, EXECUTE or PAUSED at most the step in flight is
\* recorded, and the operation leaves that state along the route only.
RequestBoundsWork ==
    requestState \in {"PROTECT", "EXECUTE", "PAUSED"}
            /\ pendingCancellation # "none"
        => stepsSince <= 1 /\ state = requestState

\* Every accepted history that is not finished can be continued: no order of
\* pauses, steps and requests traps an operation between the check that a
\* pending route is taken and the check that CANCELLED follows no mutation.
NeverStuck ==
    state # NoState /\ ~Terminal(state)
        => \E next \in operationStates : TransitionAccepted(next, previousTime)

\* A recorded step never started before the transition or step entry that
\* precedes it, also when a request was recorded while the step was running
\* (pendingStepStartBoundary).
StepsDoNotOverlap == ~overlap

\* Every accepted history is a history of the abstract lifecycle.
Lifecycle == INSTANCE OperationLifecycle WITH mutated <- evidence
LifecycleSpec == Lifecycle!Spec
==============================================================================
