---------------------------- MODULE Cancellation ----------------------------
(***************************************************************************)
(* Cancellation of a running operation (internal/workflow/cancellation.go  *)
(* and the Machine of internal/workflow/machine.go).                       *)
(*                                                                         *)
(* A cancellation is decided from the durable journal and applied to the   *)
(* machine in memory, which is then recorded in the journal.  The three    *)
(* happen at different times: a decision may be kept while work goes on,   *)
(* the machine may have moved while the journal has not, and the process   *)
(* may stop in between.  The module adds the machine, the controller, the  *)
(* decisions handed out and what the four functions that replay the        *)
(* journal (RestoreCancellationController, cancellationContext,            *)
(* pointOfNoReturnReached, cancellationBoundaryRecorded) compute from it   *)
(* to the journal of module Journal.                                       *)
(*                                                                         *)
(* The engine that calls this code is not part of the repository.  It is   *)
(* modelled as any caller that moves the machine along Transition, records *)
(* each move before the next one, and records steps whenever they end,     *)
(* also between a move and its record.                                     *)
(***************************************************************************)
EXTENDS Journal, Sequences

CONSTANTS ContractSteps,          \* the contract's steps, in order
          PointOfNoReturn,        \* one of them, or NoStep
          PointOfNoReturnTrigger,
          HasRollbackBoundary,    \* RollbackBoundary() is not "none"
          StepStates,             \* bound: states the engine records steps in
          Decisions,              \* slots for decisions not yet dropped
          NoDecision, NoRequest

triggers == {"step-start", "mutation-observed", "step-complete"}

\* NewDefinition accepts only distinct steps and a point among them.
ASSUME ContractAssumption ==
    /\ ContractSteps \in Seq(StepIDs) /\ Len(ContractSteps) > 0
    /\ \A i, j \in 1..Len(ContractSteps) :
           ContractSteps[i] = ContractSteps[j] => i = j
    /\ PointOfNoReturn # NoStep =>
           \E i \in 1..Len(ContractSteps) : ContractSteps[i] = PointOfNoReturn
    /\ PointOfNoReturnTrigger \in triggers
    /\ HasRollbackBoundary \in BOOLEAN

VARIABLES
    machine,      \* Machine.state, NoState while no process runs
    queued,       \* CancellationController.queued
    outbox,       \* request entry Request returned and nobody recorded yet
    decision,     \* decisions handed out: Decisions -> record or NoDecision
    replay,       \* what replaying the journal computes
    appliedFrom   \* observer: state the machine was cancelled from

cancellationVars == <<machine, queued, outbox, decision, replay, appliedFrom>>
vars == <<journalVars, cancellationVars>>

\* current says that the machine's generation is still the decision's: every
\* transition increments the generation and nothing decrements it, so one bit
\* per decision stands for the comparison.
decisions == [from : operationStates, target : {"CANCELLED", "ROLLBACK"},
              current : BOOLEAN, used : BOOLEAN]
requestEntries == [stepID : StepIDs, observation : mutationObservations,
                   requestedAt : Times]

ASSUME NilsAssumption ==
    /\ NoPause \notin pauses
    /\ NoDecision \notin decisions
    /\ NoRequest \notin requestEntries
-----------------------------------------------------------------------------
(* Replaying the journal, one entry at a time.                             *)

replayStart == [nextStep |-> 1, contradicted |-> FALSE,
                observation |-> "not-occurred", pointReached |-> FALSE,
                target |-> "none", stepID |-> NoStep, boundary |-> FALSE]

contractStep(r) == IF r.nextStep <= Len(ContractSteps)
                   THEN ContractSteps[r.nextStep] ELSE NoStep

pointOfNoReturnReached(id, outcome, mutated) ==
    LET index(s) == CHOOSE i \in 1..Len(ContractSteps) : ContractSteps[i] = s
        known == \E i \in 1..Len(ContractSteps) : ContractSteps[i] = id
        triggered == CASE PointOfNoReturnTrigger = "step-start" -> TRUE
                       [] PointOfNoReturnTrigger = "mutation-observed" ->
                              mutated \/ outcome = "UNKNOWN"
                       [] PointOfNoReturnTrigger = "step-complete" ->
                              outcome = "DONE"
    IN  /\ PointOfNoReturn # NoStep
        /\ known => \/ index(id) > index(PointOfNoReturn)
                    \/ id = PointOfNoReturn /\ triggered

observationAfterStep(observation, outcome, mutated) ==
    IF outcome = "UNKNOWN" THEN "unknown"
    ELSE IF mutated /\ observation # "unknown" THEN "occurred"
    ELSE observation

targetAfterStepMutant(target, outcome, mutated) == target
targetAfterStep(target, outcome, mutated) ==
    IF target # "none" /\ (mutated \/ outcome = "UNKNOWN") THEN "ROLLBACK"
    ELSE target

replayStep(r, id, outcome, ended, mutated, identityMatches) ==
    LET expected == id = contractStep(r) /\ identityMatches
    IN  [r EXCEPT
          !.nextStep = IF expected /\ outcome = "DONE" THEN @ + 1 ELSE @,
          !.contradicted = @ \/ ~expected,
          !.observation = observationAfterStep(@, outcome, mutated),
          !.pointReached = @ \/ pointOfNoReturnReached(id, outcome, mutated),
          !.target = targetAfterStep(@, outcome, mutated),
          !.boundary = @ \/ (id = r.stepID /\ ended)]

replayTransition(r, next, pause) ==
    LET observed == IF pause # NoPause /\ pause.mutationOccurred
                    THEN [r EXCEPT !.observation = "occurred"] ELSE r
    IN  IF next = r.target
        THEN [observed EXCEPT !.target = "none", !.stepID = NoStep,
                              !.boundary = FALSE]
        ELSE observed

replayRequest(r, id, observation) ==
    [r EXCEPT !.contradicted = @ \/ id # contractStep(r),
              !.target = requiredRoute(observation),
              !.stepID = id]

\* RestoreCancellationController returns no error.
Restorable(r) == /\ ~r.contradicted
                 /\ r.target # "none" => ~r.pointReached
                 /\ r.target = "ROLLBACK" => HasRollbackBoundary
-----------------------------------------------------------------------------
(* The machine.                                                            *)

TransitionAuthorized(next) ==
    next = "CANCELLED" => ~cancellationAuthorizationRequired(machine)

Outdated == [d \in Decisions |->
                IF decision[d] = NoDecision THEN NoDecision
                ELSE [decision[d] EXCEPT !.current = FALSE]]

\* NewMachine and the first journal entry.
Start(t) == /\ AcceptInitialTransition(t)
            /\ machine' = "DISCOVER"
            /\ UNCHANGED <<queued, outbox, decision, replay, appliedFrom>>

\* The engine moves on, to a state the journal would accept now.
Transition(next) ==
    /\ machine = state
    /\ TransitionAccepted(next, previousTime)
    /\ TransitionAuthorized(next)
    /\ machine' = next
    /\ decision' = Outdated
    /\ appliedFrom' = NoState
    /\ UNCHANGED <<journalVars, queued, outbox, replay>>

\* The machine's state is recorded; an entry built for the position the new
\* entry takes can no longer be recorded.
RecordTransition(t, pause) ==
    /\ machine \notin {NoState, state}
    /\ AcceptTransition(machine, t, pause)
    /\ replay' = replayTransition(replay, machine, pause)
    /\ outbox' = NoRequest
    /\ UNCHANGED <<machine, queued, decision, appliedFrom>>

RecordStep(id, outcome, startedAt, ended, mutated, identityMatches, t) ==
    /\ machine # NoState
    /\ state \in StepStates
    /\ AcceptStep(id, outcome, startedAt, ended, mutated, t)
    /\ replay' = replayStep(replay, id, outcome, ended, mutated,
                            identityMatches)
    /\ outbox' = NoRequest
    /\ UNCHANGED <<machine, queued, decision, appliedFrom>>

\* The entry of a persist decision is recorded, if no entry took its place.
RecordRequest ==
    /\ machine # NoState
    /\ outbox # NoRequest
    /\ AcceptRequest(outbox.stepID, outbox.observation, outbox.requestedAt)
    /\ replay' = replayRequest(replay, outbox.stepID, outbox.observation)
    /\ outbox' = NoRequest
    /\ UNCHANGED <<machine, queued, decision, appliedFrom>>
-----------------------------------------------------------------------------
(* The controller.                                                         *)

RestoreCancellationController ==
    /\ machine # NoState
    /\ state # NoState
    /\ Restorable(replay)
    /\ queued' = (replay.target # "none")
    /\ UNCHANGED <<journalVars, machine, outbox, decision, replay,
                   appliedFrom>>

\* validateCancellationFoundation: the request extends the current journal.
Foundation(t) == /\ machine \in operationStates
                 /\ ~Terminal(machine)
                 /\ state = machine
                 /\ t > previousTime
                 /\ Restorable(replay)

HasContextMutant == requests = 0 /\ contractStep(replay) # NoStep
\* cancellationContext returns the step in flight.
HasContext == /\ ~replay.pointReached
              /\ requests = 0
              /\ contractStep(replay) # NoStep

\* routeCancellationTo: the controller is reset and a decision handed out.
routeCancellationTo(d, target) ==
    /\ CanTransition(machine, target)
    /\ decision[d] = NoDecision
    /\ decision' = [decision EXCEPT ![d] =
                       [from |-> machine, target |-> target,
                        current |-> TRUE, used |-> FALSE]]
    /\ queued' = FALSE
    /\ UNCHANGED <<journalVars, machine, outbox, replay, appliedFrom>>

RequestBeforeMutation(d, t) ==
    /\ Foundation(t)
    /\ ~queued
    /\ cancellationStateIsStructurallyPreMutation(machine)
    /\ routeCancellationTo(d, "CANCELLED")

RequestContext(t) ==
    /\ Foundation(t)
    /\ ~queued
    /\ ~cancellationStateIsStructurallyPreMutation(machine)
    /\ HasContext
    /\ replay.observation # "not-occurred" => HasRollbackBoundary

RequestWhilePaused(d, t) ==
    /\ RequestContext(t)
    /\ machine = "PAUSED"
    /\ routeCancellationTo(d,
           requiredRoute(replay.observation))

\* The request entry would be accepted by ValidateJournal.
RequestInFlight(t) ==
    /\ RequestContext(t)
    /\ machine \in {"PROTECT", "EXECUTE"}
    /\ t <= MaxTime
    /\ pendingCancellation = "none"
    /\ ~(mutationMayHaveOccurred /\ replay.observation = "not-occurred")
    /\ cancellationRouteReachable(state,
           requiredRoute(replay.observation))
    /\ outbox' = [stepID |-> contractStep(replay),
                  observation |-> replay.observation, requestedAt |-> t]
    /\ UNCHANGED <<journalVars, machine, queued, decision, replay,
                   appliedFrom>>

BoundaryRecorded == replay.boundary

AtBoundary(d) ==
    /\ machine \in operationStates
    /\ ~Terminal(machine)
    /\ queued
    /\ state = machine
    /\ Restorable(replay)
    /\ replay.target # "none"
    /\ BoundaryRecorded
    /\ routeCancellationTo(d, replay.target)

DecisionCurrentMutant(d) == decision[d].from = machine
DecisionCurrent(d) == decision[d].current /\ decision[d].from = machine

\* A decision is spent whether or not it still fits the machine.
ApplyCancellation(d) ==
    /\ machine # NoState
    /\ decision[d] # NoDecision
    /\ ~decision[d].used
    /\ IF DecisionCurrent(d) /\ CanTransition(machine, decision[d].target)
       THEN /\ machine' = decision[d].target
            /\ appliedFrom' = machine
            /\ decision' = [Outdated EXCEPT ![d].used = TRUE]
       ELSE /\ decision' = [decision EXCEPT ![d].used = TRUE]
            /\ UNCHANGED <<machine, appliedFrom>>
    /\ UNCHANGED <<journalVars, queued, outbox, replay>>

\* The caller lets go of a decision.
Drop(d) == /\ decision[d] # NoDecision
           /\ decision' = [decision EXCEPT ![d] = NoDecision]
           /\ UNCHANGED <<journalVars, machine, queued, outbox, replay,
                          appliedFrom>>
-----------------------------------------------------------------------------
(* The process stops; only the journal survives.                           *)

Crash == /\ machine # NoState
         /\ machine' = NoState
         /\ queued' = FALSE
         /\ outbox' = NoRequest
         /\ decision' = [d \in Decisions |-> NoDecision]
         /\ appliedFrom' = NoState
         /\ UNCHANGED <<journalVars, replay>>

RestoreMachine == /\ machine = NoState
                  /\ state # NoState
                  /\ machine' = state
                  /\ UNCHANGED <<journalVars, queued, outbox, decision,
                                 replay, appliedFrom>>
-----------------------------------------------------------------------------
CancellationInit == /\ Init
                    /\ machine = NoState
                    /\ queued = FALSE
                    /\ outbox = NoRequest
                    /\ decision = [d \in Decisions |-> NoDecision]
                    /\ replay = replayStart
                    /\ appliedFrom = NoState

RecordSomeTransition == \E t \in Times, pause \in pauses \cup {NoPause} :
                            RecordTransition(t, pause)
RecordSomeStep ==
    \E id \in StepIDs, outcome \in stepOutcomes, startedAt, t \in Times,
       ended, mutated, identityMatches \in BOOLEAN :
        RecordStep(id, outcome, startedAt, ended, mutated, identityMatches, t)

CancellationNext ==
    \/ \E t \in Times : Start(t)
    \/ \E next \in operationStates : Transition(next)
    \/ RecordSomeTransition
    \/ RecordSomeStep
    \/ RecordRequest
    \/ RestoreCancellationController
    \/ \E d \in Decisions, t \in 1..(MaxTime + 1) : RequestBeforeMutation(d, t)
    \/ \E d \in Decisions, t \in 1..(MaxTime + 1) : RequestWhilePaused(d, t)
    \/ \E t \in Times : RequestInFlight(t)
    \/ \E d \in Decisions : AtBoundary(d)
    \/ \E d \in Decisions : ApplyCancellation(d)
    \/ \E d \in Decisions : Drop(d)
    \/ Crash
    \/ RestoreMachine

CancellationSpec == CancellationInit /\ [][CancellationNext]_vars
-----------------------------------------------------------------------------

\* The machine left PROTECT, EXECUTE or PAUSED on a decision and the journal
\* does not say so yet.
Unrecorded == /\ cancellationAuthorizationRequired(appliedFrom)
              /\ machine \notin {NoState, state}

\* A decision taken in PROTECT, EXECUTE or PAUSED that ApplyCancellation lets
\* through is one the journal accepts, however long it was kept, whatever was
\* recorded after it was taken and whatever is recorded before it is: the
\* machine never ends CANCELLED over a mutation the journal knows of, and
\* never takes a route the journal refuses.
AppliedDecisionRecordable ==
    Unrecorded => TransitionAccepted(machine, previousTime)

\* No decision is applied once the contract's point of no return is reached,
\* though it is only looked at when the decision is made.
NotCancelledPastPoint == Unrecorded => ~replay.pointReached

\* The three scans of the journal agree.  The route that
\* RestoreCancellationController rebuilds after a restart is the one
\* ValidateJournal will hold the operation to (only the validator looks at
\* pauses, and only it escalates on mutations older than the request), and
\* cancellationContext and ValidateJournal agree on whether a mutation may have
\* occurred, so a request built from the one is accepted by the other.
ScansAgree ==
    /\ replay.target = pendingCancellation
    /\ requests = 0 => (replay.observation # "not-occurred"
                            <=> mutationMayHaveOccurred)

\* A decision to cancel says "no mutation may have occurred"
\* (cancellationCancelUI); for the states Request takes to be before any
\* mutation the code does not look at the journal for it.
CancelMeansNoMutation ==
    \A d \in Decisions :
        decision[d] # NoDecision =>
            (decision[d].target = "CANCELLED" /\ decision[d].current
                => ~mutationMayHaveOccurred)
==============================================================================
