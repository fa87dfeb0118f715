------------------------- MODULE CancellationProofs -------------------------
(***************************************************************************)
(* Theorems about cancellation, for every contract, every point of no      *)
(* return and any number of decisions handed out: what the engine records  *)
(* is always a history ValidateJournal accepts, the scans that replay the  *)
(* journal agree with it, and a decision that ApplyCancellation still lets *)
(* through is one the journal accepts.                                     *)
(***************************************************************************)
EXTENDS Cancellation, JournalProofs

-----------------------------------------------------------------------------
(* The inductive invariant, next to JournalInv.  A decision stays sound    *)
(* because nothing that could contradict it can be recorded before it is   *)
(* applied, and after that nothing but the machine's own transition.       *)

replayTypes ==
    [nextStep : 1..(Len(ContractSteps) + 1), contradicted : BOOLEAN,
     observation : mutationObservations, pointReached : BOOLEAN,
     target : {"none", "CANCELLED", "ROLLBACK"},
     stepID : StepIDs \cup {NoStep}, boundary : BOOLEAN]

CancellationTypeOK ==
    /\ machine \in operationStates \cup {NoState}
    /\ queued \in BOOLEAN
    /\ outbox \in requestEntries \cup {NoRequest}
    /\ decision \in [Decisions -> decisions \cup {NoDecision}]
    /\ replay \in replayTypes
    /\ appliedFrom \in operationStates \cup {NoState}

\* What the scans computed agrees with the validator's locals.
ReplayInv ==
    /\ replay.target = pendingCancellation
    /\ requests = 0 => (replay.observation # "not-occurred"
                            <=> mutationMayHaveOccurred)
    /\ requests = 0 => replay.stepID = NoStep /\ ~replay.boundary
    /\ replay.boundary => pendingCurrentStepID = NoStep

\* Only a running process holds decisions or an entry to record, and an entry
\* built in PROTECT or EXECUTE does not survive the next transition.
MachineInv ==
    /\ state = NoState => machine = NoState
    /\ machine = NoState =>
           /\ appliedFrom = NoState
           /\ outbox = NoRequest
           /\ \A d \in Decisions : decision[d] = NoDecision
    /\ outbox # NoRequest => state \in {"PROTECT", "EXECUTE"}

\* The journal accepts a transition to target, and no step or request can be
\* recorded before it: the operation is paused, or the boundary of the step
\* in flight is behind.
Settled(target) ==
    /\ target \in {"CANCELLED", "ROLLBACK"}
    /\ CanTransition(state, target)
    /\ pendingCancellation \in {"none", target}
    /\ target = "CANCELLED" => ~mutationMayHaveOccurred
    /\ ~replay.pointReached
    /\ \/ state = "PAUSED"
       \/ pendingCancellation = target /\ pendingCurrentStepID = NoStep

DecisionInv ==
    \A d \in Decisions :
        decision[d] # NoDecision /\ decision[d].current =>
            /\ machine = state
            /\ decision[d].from = machine
            /\ cancellationAuthorizationRequired(machine) =>
                   Settled(decision[d].target)

UnrecordedInv == Unrecorded => state = appliedFrom /\ Settled(machine)

CancellationInv == /\ CancellationTypeOK
                   /\ ReplayInv
                   /\ MachineInv
                   /\ DecisionInv
                   /\ UnrecordedInv

-----------------------------------------------------------------------------
(* What replaying one entry does to the scans' result.                     *)

\* The contract's steps are step identifiers.
LEMMA ContractStepTyped ==
    ASSUME NEW r \in replayTypes
    PROVE  contractStep(r) \in StepIDs \cup {NoStep}
<1>1. ContractSteps \in Seq(StepIDs)
  BY ContractAssumption DEF ContractAssumption
<1>2. r.nextStep \in Nat \ {0}
  BY <1>1 DEF replayTypes
<1> QED
  BY <1>1, <1>2 DEF contractStep

\* A step entry leaves a well-typed result, and the next step expected of the
\* contract is at most one past its end.
LEMMA ReplayStepTyped ==
    ASSUME NEW r \in replayTypes, NEW id \in StepIDs,
           NEW outcome \in stepOutcomes, NEW ended \in BOOLEAN,
           NEW mutated \in BOOLEAN, NEW identityMatches \in BOOLEAN
    PROVE  /\ replayStep(r, id, outcome, ended, mutated, identityMatches)
                  \in replayTypes
           /\ replayStep(r, id, outcome, ended, mutated,
                         identityMatches).stepID = r.stepID
           /\ replayStep(r, id, outcome, ended, mutated,
                         identityMatches).target
                  = targetAfterStep(r.target, outcome, mutated)
           /\ replayStep(r, id, outcome, ended, mutated,
                         identityMatches).observation
                  = observationAfterStep(r.observation, outcome, mutated)
           /\ r.stepID = NoStep /\ ~r.boundary =>
                  ~replayStep(r, id, outcome, ended, mutated,
                              identityMatches).boundary
<1> DEFINE expected == id = contractStep(r) /\ identityMatches
           next == IF expected /\ outcome = "DONE" THEN r.nextStep + 1
                   ELSE r.nextStep
           contradicted == r.contradicted \/ ~expected
           reached == r.pointReached
                          \/ pointOfNoReturnReached(id, outcome, mutated)
           ended_ == r.boundary \/ (id = r.stepID /\ ended)
           observed == observationAfterStep(r.observation, outcome, mutated)
           route == targetAfterStep(r.target, outcome, mutated)
<1>1. replayStep(r, id, outcome, ended, mutated, identityMatches) =
          [r EXCEPT !.nextStep = next, !.contradicted = contradicted,
                    !.observation = observed, !.pointReached = reached,
                    !.target = route, !.boundary = ended_]
  BY Zenon DEF replayStep
<1>2. next \in 1..(Len(ContractSteps) + 1)
  <2>1. Len(ContractSteps) \in Nat
    BY ContractAssumption DEF ContractAssumption
  <2>2. r.nextStep \in 1..(Len(ContractSteps) + 1)
    BY DEF replayTypes
  <2>3. expected => r.nextStep <= Len(ContractSteps)
    BY NilAssumption DEF contractStep, NilAssumption
  <2> QED
    BY <2>1, <2>2, <2>3
<1>3. /\ contradicted \in BOOLEAN /\ reached \in BOOLEAN
      /\ ended_ \in BOOLEAN
  OBVIOUS
<1>4. observed \in mutationObservations
  BY DEF observationAfterStep, replayTypes, mutationObservations
<1>5. route \in {"none", "CANCELLED", "ROLLBACK"}
  BY DEF targetAfterStep, replayTypes
<1>6. r.stepID \in StepIDs \cup {NoStep}
  BY DEF replayTypes
<1>7. r.stepID = NoStep /\ ~r.boundary => ~ended_
  BY NilAssumption DEF NilAssumption
<1> HIDE DEF next, contradicted, reached, ended_, observed, route
<1> DEFINE after == [r EXCEPT
                        !.nextStep = next, !.contradicted = contradicted,
                        !.observation = observed, !.pointReached = reached,
                        !.target = route, !.boundary = ended_]
<1>8. after \in replayTypes
  BY <1>2, <1>3, <1>4, <1>5, <1>6 DEF replayTypes
<1>9. /\ after.stepID = r.stepID /\ after.target = route
      /\ after.observation = observed
      /\ after.boundary = ended_
  BY DEF replayTypes
<1> QED
  BY <1>1, <1>7, <1>8, <1>9 DEF observed, route

\* A transition entry leaves a well-typed result; a pause adds its mutation
\* and the transition the route asks for ends the request.
LEMMA ReplayTransitionTyped ==
    ASSUME NEW r \in replayTypes, NEW next \in operationStates,
           NEW pause \in pauses \cup {NoPause}
    PROVE  LET after == replayTransition(r, next, pause)
           IN  /\ after \in replayTypes
               /\ after.target = IF next = r.target THEN "none" ELSE r.target
               /\ after.observation =
                      IF pause # NoPause /\ pause.mutationOccurred
                      THEN "occurred" ELSE r.observation
               /\ r.stepID = NoStep => after.stepID = NoStep
               /\ ~r.boundary => ~after.boundary
<1> DEFINE observed == IF pause # NoPause /\ pause.mutationOccurred
                       THEN [r EXCEPT !.observation = "occurred"] ELSE r
<1>1. /\ observed \in replayTypes
      /\ observed.target = r.target
      /\ observed.stepID = r.stepID
      /\ observed.boundary = r.boundary
      /\ observed.observation =
             IF pause # NoPause /\ pause.mutationOccurred
             THEN "occurred" ELSE r.observation
  BY DEF replayTypes, mutationObservations
<1>2. replayTransition(r, next, pause) =
          IF next = r.target
          THEN [observed EXCEPT !.target = "none", !.stepID = NoStep,
                                !.boundary = FALSE]
          ELSE observed
  BY DEF replayTransition
<1> HIDE DEF observed
<1> QED
  BY <1>1, <1>2 DEF replayTypes

\* A request entry leaves a well-typed result that names its step and route.
LEMMA ReplayRequestTyped ==
    ASSUME NEW r \in replayTypes, NEW id \in StepIDs,
           NEW observation \in mutationObservations
    PROVE  LET after == replayRequest(r, id, observation)
           IN  /\ after \in replayTypes
               /\ after.target = requiredRoute(observation)
               /\ after.boundary = r.boundary
<1>1. requiredRoute(observation) \in {"none", "CANCELLED", "ROLLBACK"}
  BY DEF requiredRoute, cancellationTarget
<1> DEFINE contradicted == r.contradicted \/ id # contractStep(r)
<1>2. contradicted \in BOOLEAN
  OBVIOUS
<1>3. replayRequest(r, id, observation) =
          [r EXCEPT !.contradicted = contradicted,
                    !.target = requiredRoute(observation), !.stepID = id]
  BY Zenon DEF replayRequest
<1> HIDE DEF contradicted
<1> QED
  BY <1>1, <1>2, <1>3 DEF replayTypes

-----------------------------------------------------------------------------
(* The invariant is kept.                                                  *)

\* The controller and the machine write nothing that is durable: the process
\* may stop between any of these actions and the next entry.
Quiet == UNCHANGED <<journalVars, replay>>

\* A handed out decision is typed.
LEMMA RouteTyped ==
    ASSUME CancellationTypeOK, NEW d \in Decisions,
           NEW target \in {"CANCELLED", "ROLLBACK"},
           machine \in operationStates, routeCancellationTo(d, target)
    PROVE  CancellationTypeOK'
<1>1. decision' \in [Decisions -> decisions \cup {NoDecision}]
  BY DEF routeCancellationTo, CancellationTypeOK, decisions
<1> QED
  BY <1>1 DEF routeCancellationTo, CancellationTypeOK

\* Outdating decisions keeps them typed, and none is current afterwards.
LEMMA OutdatedTyped ==
    ASSUME CancellationTypeOK
    PROVE  /\ Outdated \in [Decisions -> decisions \cup {NoDecision}]
           /\ \A d \in Decisions :
                  /\ Outdated[d] = NoDecision <=> decision[d] = NoDecision
                  /\ Outdated[d] # NoDecision => ~Outdated[d].current
<1>1. \A x \in decisions : [x EXCEPT !.current = FALSE] \in decisions
                              /\ ~[x EXCEPT !.current = FALSE].current
  BY DEF decisions
<1> QED
  BY <1>1, NilsAssumption DEF Outdated, CancellationTypeOK, NilsAssumption

\* Spending a decision keeps it typed and changes nothing else of it.
LEMMA UsedTyped ==
    ASSUME NEW f \in [Decisions -> decisions \cup {NoDecision}],
           NEW d \in Decisions, f[d] # NoDecision
    PROVE  LET after == [f EXCEPT ![d].used = TRUE]
           IN  /\ after \in [Decisions -> decisions \cup {NoDecision}]
               /\ \A e \in Decisions :
                      /\ after[e] = NoDecision <=> f[e] = NoDecision
                      /\ f[e] # NoDecision =>
                             /\ after[e].current = f[e].current
                             /\ after[e].from = f[e].from
                             /\ after[e].target = f[e].target
<1> DEFINE after == [f EXCEPT ![d].used = TRUE]
<1>1. f[d] \in decisions
  OBVIOUS
<1>2. /\ [f[d] EXCEPT !.used = TRUE] \in decisions
      /\ [f[d] EXCEPT !.used = TRUE].current = f[d].current
      /\ [f[d] EXCEPT !.used = TRUE].from = f[d].from
      /\ [f[d] EXCEPT !.used = TRUE].target = f[d].target
  BY <1>1 DEF decisions
<1>3. after = [f EXCEPT ![d] = [f[d] EXCEPT !.used = TRUE]]
  OBVIOUS
<1> QED
  BY <1>1, <1>2, <1>3, NilsAssumption DEF NilsAssumption

\* Type correctness of the machine, the controller and the scans.
LEMMA CancellationTypeStep ==
    ASSUME CancellationTypeOK, TypeOK, [CancellationNext]_vars
    PROVE  CancellationTypeOK'
<1> USE DEF CancellationTypeOK
<1>1. ASSUME NEW t \in Times, Start(t) PROVE CancellationTypeOK'
  BY <1>1 DEF Start, operationStates
<1>2. ASSUME NEW next \in operationStates, Transition(next)
      PROVE  CancellationTypeOK'
  BY <1>2, OutdatedTyped DEF Transition
<1>3. ASSUME NEW t \in Times, NEW pause \in pauses \cup {NoPause},
             RecordTransition(t, pause)
      PROVE  CancellationTypeOK'
  BY <1>3, ReplayTransitionTyped DEF RecordTransition
<1>4. ASSUME NEW id \in StepIDs, NEW outcome \in stepOutcomes,
             NEW startedAt \in Times, NEW t \in Times, NEW ended \in BOOLEAN,
             NEW mutated \in BOOLEAN, NEW identityMatches \in BOOLEAN,
             RecordStep(id, outcome, startedAt, ended, mutated,
                        identityMatches, t)
      PROVE  CancellationTypeOK'
  BY <1>4, ReplayStepTyped DEF RecordStep
<1>5. CASE RecordRequest
  <2>1. outbox \in requestEntries
    BY <1>5 DEF RecordRequest
  <2>2. outbox.stepID \in StepIDs /\ outbox.observation \in mutationObservations
    BY <2>1 DEF requestEntries
  <2> QED
    BY <1>5, <2>2, ReplayRequestTyped DEF RecordRequest
<1>6. CASE RestoreCancellationController
  BY <1>6 DEF RestoreCancellationController
<1>7. ASSUME NEW d \in Decisions, NEW t \in 1..(MaxTime + 1),
             RequestBeforeMutation(d, t)
      PROVE  CancellationTypeOK'
  BY <1>7, RouteTyped DEF RequestBeforeMutation, Foundation
<1>8. ASSUME NEW d \in Decisions, NEW t \in 1..(MaxTime + 1),
             RequestWhilePaused(d, t)
      PROVE  CancellationTypeOK'
  BY <1>8, RouteTyped
  DEF RequestWhilePaused, RequestContext, Foundation, requiredRoute,
      cancellationTarget
<1>9. ASSUME NEW t \in Times, RequestInFlight(t) PROVE CancellationTypeOK'
  <2>1. contractStep(replay) \in StepIDs
    BY <1>9, ContractStepTyped DEF RequestInFlight, RequestContext, HasContext
  <2>2. replay.observation \in mutationObservations
    BY DEF replayTypes
  <2>3. outbox' \in requestEntries
    BY <1>9, <2>1, <2>2 DEF RequestInFlight, requestEntries
  <2> QED
    BY <1>9, <2>3 DEF RequestInFlight
<1>10. ASSUME NEW d \in Decisions, AtBoundary(d) PROVE CancellationTypeOK'
  <2>1. replay.target \in {"CANCELLED", "ROLLBACK"}
    BY <1>10 DEF AtBoundary, replayTypes
  <2> QED
    BY <1>10, <2>1, RouteTyped DEF AtBoundary
<1>11. ASSUME NEW d \in Decisions, ApplyCancellation(d)
       PROVE  CancellationTypeOK'
  <2>1. decision[d] \in decisions
    BY <1>11 DEF ApplyCancellation
  <2>2. decision[d].target \in operationStates
    BY <2>1 DEF decisions, operationStates, terminalOperationStates
  <2>3. Outdated[d] # NoDecision
    BY <1>11, OutdatedTyped DEF ApplyCancellation
  <2>4. decision' \in [Decisions -> decisions \cup {NoDecision}]
    BY <1>11, <2>3, OutdatedTyped, UsedTyped DEF ApplyCancellation
  <2> QED
    BY <1>11, <2>2, <2>4 DEF ApplyCancellation
<1>12. ASSUME NEW d \in Decisions, Drop(d) PROVE CancellationTypeOK'
  BY <1>12 DEF Drop
<1>13. CASE Crash
  BY <1>13 DEF Crash
<1>14. CASE RestoreMachine
  BY <1>14 DEF RestoreMachine, TypeOK
<1>15. CASE UNCHANGED vars
  BY <1>15 DEF vars, cancellationVars
<1> QED
  BY <1>1, <1>2, <1>3, <1>4, <1>5, <1>6, <1>7, <1>8, <1>9, <1>10, <1>11,
     <1>12, <1>13, <1>14, <1>15
  DEF CancellationNext, RecordSomeTransition, RecordSomeStep

\* Only the engine's records change the journal.
LEMMA OnlyRecords ==
    ASSUME [CancellationNext]_vars
    PROVE  \/ \E t \in Times : Start(t)
           \/ RecordSomeTransition
           \/ RecordSomeStep
           \/ RecordRequest
           \/ Quiet
  BY DEF CancellationNext, vars, cancellationVars, Quiet, Transition,
         RestoreCancellationController, RequestBeforeMutation,
         RequestWhilePaused, RequestInFlight, routeCancellationTo, AtBoundary,
         ApplyCancellation, Drop, Crash, RestoreMachine

\* What the engine records is an entry ValidateJournal accepts.
LEMMA RecordsAreEntries ==
    ASSUME CancellationTypeOK, [CancellationNext]_vars
    PROVE  [Next]_journalVars
<1>1. ASSUME NEW t \in Times, Start(t) PROVE Next
  BY <1>1 DEF Start, Next
<1>2. CASE RecordSomeTransition
  <2>1. PICK t \in Times, pause \in pauses \cup {NoPause} :
            RecordTransition(t, pause)
    BY <1>2 DEF RecordSomeTransition
  <2>2. machine \in operationStates /\ AcceptTransition(machine, t, pause)
    BY <2>1 DEF RecordTransition, CancellationTypeOK
  <2> QED
    BY <2>2 DEF Next, AcceptSomeTransition
<1>3. CASE RecordSomeStep
  BY <1>3 DEF RecordSomeStep, RecordStep, Next, AcceptSomeStep
<1>4. CASE RecordRequest
  <2>1. outbox \in requestEntries
    BY <1>4 DEF RecordRequest, CancellationTypeOK
  <2>2. /\ outbox.stepID \in StepIDs /\ outbox.requestedAt \in Times
        /\ outbox.observation \in mutationObservations
        /\ AcceptRequest(outbox.stepID, outbox.observation,
                         outbox.requestedAt)
    BY <1>4, <2>1 DEF RecordRequest, requestEntries
  <2> QED
    BY <2>2 DEF Next, AcceptSomeRequest
<1>5. CASE Quiet
  BY <1>5 DEF Quiet
<1> QED
  BY <1>1, <1>2, <1>3, <1>4, <1>5, OnlyRecords

\* A pause is recorded only when no request is pending: from PROTECT and
\* EXECUTE a pending route can always be taken and must be.
LEMMA PauseWithoutRequest ==
    ASSUME JournalInv, NEW t \in Times, NEW pause \in pauses \cup {NoPause},
           AcceptTransition("PAUSED", t, pause)
    PROVE  pendingCancellation = "none"
<1>1. /\ CanTransition(state, "PAUSED")
      /\ PendingHonored("PAUSED")
  BY DEF AcceptTransition, TransitionAccepted
<1>2. state \in {"PROTECT", "EXECUTE"}
  BY <1>1, Successors
<1>3. pendingCancellation \in {"none", "CANCELLED", "ROLLBACK"}
  BY DEF JournalInv, TypeOK
<1> QED
  BY <1>1, <1>2, <1>3, Successors DEF PendingHonored

\* The scans keep agreeing with the validator, entry by entry.
LEMMA ReplayInvStep ==
    ASSUME CancellationTypeOK, JournalInv, JournalInv', ReplayInv,
           [CancellationNext]_vars
    PROVE  ReplayInv'
<1> USE DEF ReplayInv
<1>0. TypeOK /\ RequestInv /\ BoundaryInv /\ replay \in replayTypes
  BY DEF JournalInv, CancellationTypeOK
<1>1. ASSUME NEW t \in Times, Start(t) PROVE ReplayInv'
  BY <1>1 DEF Start, AcceptInitialTransition, pendingVars
<1>2. ASSUME NEW t \in Times, NEW pause \in pauses \cup {NoPause},
             RecordTransition(t, pause)
      PROVE  ReplayInv'
  <2>1. machine \in operationStates
    BY <1>2 DEF RecordTransition, CancellationTypeOK
  <2>2. AcceptTransition(machine, t, pause) /\ requests' = requests
    BY <1>2 DEF RecordTransition, AcceptTransition
  <2>3. /\ replay'.target = IF machine = replay.target THEN "none"
                            ELSE replay.target
        /\ replay'.observation = IF pause # NoPause /\ pause.mutationOccurred
                                 THEN "occurred" ELSE replay.observation
        /\ replay.stepID = NoStep => replay'.stepID = NoStep
        /\ ~replay.boundary => ~replay'.boundary
    BY <1>0, <1>2, <2>1, ReplayTransitionTyped DEF RecordTransition
  <2>4. machine # "none"
    BY <2>1 DEF operationStates, terminalOperationStates
  <2>5. pendingCancellation # "none" => pendingCurrentStepID' = NoStep
    BY <2>2 DEF AcceptTransition, ClearPendingStep
  <2>6. pendingCancellation = "none" => pendingCurrentStepID' = NoStep
    BY <1>0, <2>2 DEF AcceptTransition, BoundaryInv
  <2>7. CASE machine = "PAUSED"
    <3>1. pause \in pauses /\ pendingCancellation = "none"
      BY <2>2, <2>7, PauseWithoutRequest
      DEF AcceptTransition, WellFormedTransition
    <3>2. pause # NoPause
      BY <3>1, NilsAssumption DEF NilsAssumption
    <3>3. pendingCancellation' = "none"
      BY <2>2, <2>7, <3>1 DEF AcceptTransition, escalate
    <3>4. mutationMayHaveOccurred => pause.mutationOccurred
      BY <2>2, <2>7 DEF AcceptTransition
    <3>5. mutationMayHaveOccurred' =
              (mutationMayHaveOccurred \/ pause.mutationOccurred)
      BY <2>2, <2>7 DEF AcceptTransition
    <3>6. mutationMayHaveOccurred' <=> pause.mutationOccurred
      BY <3>4, <3>5, Zenon
    <3>7. ~pause.mutationOccurred => ~mutationMayHaveOccurred
      BY <3>4
    <3> QED
      BY <2>2, <2>3, <2>5, <2>6, <2>7, <3>1, <3>2, <3>3, <3>6, <3>7
  <2>8. CASE machine # "PAUSED"
    <3>1. pause = NoPause
      BY <2>2, <2>8 DEF AcceptTransition, WellFormedTransition
    <3>2. /\ pendingCancellation' = IF machine = pendingCancellation THEN "none"
                                    ELSE pendingCancellation
          /\ mutationMayHaveOccurred' = mutationMayHaveOccurred
      BY <2>2, <2>8 DEF AcceptTransition
    <3> QED
      BY <2>2, <2>3, <2>5, <2>6, <3>1, <3>2
  <2> QED
    BY <2>7, <2>8
<1>3. ASSUME NEW id \in StepIDs, NEW outcome \in stepOutcomes,
             NEW startedAt \in Times, NEW t \in Times, NEW ended \in BOOLEAN,
             NEW mutated \in BOOLEAN, NEW identityMatches \in BOOLEAN,
             RecordStep(id, outcome, startedAt, ended, mutated,
                        identityMatches, t)
      PROVE  ReplayInv'
  <2>1. /\ AcceptStep(id, outcome, startedAt, ended, mutated, t)
        /\ requests' = requests
        /\ pendingCurrentStepID' = NoStep
    BY <1>3 DEF RecordStep, AcceptStep, ClearPendingStep
  <2>2. /\ replay'.target = targetAfterStep(replay.target, outcome, mutated)
        /\ replay'.observation =
               observationAfterStep(replay.observation, outcome, mutated)
        /\ replay'.stepID = replay.stepID
        /\ replay.stepID = NoStep /\ ~replay.boundary => ~replay'.boundary
    BY <1>0, <1>3, ReplayStepTyped DEF RecordStep
  <2>3. mutationMayHaveOccurred' =
            (mutationMayHaveOccurred \/ StepTellsMutation(outcome, mutated))
    BY <2>1 DEF AcceptStep
  <2>4. mutationMayHaveOccurred'
            <=> mutationMayHaveOccurred \/ mutated \/ outcome = "UNKNOWN"
    BY <2>3, Zenon DEF StepTellsMutation
  <2>5. pendingCancellation' =
            escalate(pendingCancellation, mutationMayHaveOccurred')
    BY <2>1 DEF AcceptStep
  <2>6. replay'.target = pendingCancellation'
    <3>1. mutationMayHaveOccurred =>
              pendingCancellation \in {"none", "ROLLBACK"}
      BY <1>0 DEF RequestInv, TypeOK
    <3> QED
      BY <2>2, <2>4, <2>5, <3>1 DEF targetAfterStep, escalate
  <2>7. requests' = 0 => (replay'.observation # "not-occurred"
                              <=> mutationMayHaveOccurred')
    BY <2>1, <2>2, <2>4 DEF observationAfterStep
  <2> QED
    BY <2>1, <2>2, <2>6, <2>7
<1>4. CASE RecordRequest
  <2>1. outbox \in requestEntries
    BY <1>4 DEF RecordRequest, CancellationTypeOK
  <2>2. /\ outbox.stepID \in StepIDs
        /\ outbox.observation \in mutationObservations
    BY <2>1 DEF requestEntries
  <2>3. /\ pendingCancellation' = requiredRoute(outbox.observation)
        /\ requests' = UpToTwo(requests)
    BY <1>4 DEF RecordRequest, AcceptRequest
  <2>4. requests = 0 /\ requests' = 1
    <3>1. requests' <= 1 /\ requests \in 0..2
      BY <1>0 DEF JournalInv, RequestInv, TypeOK
    <3> QED
      BY <2>3, <3>1 DEF UpToTwo
  <2>5. /\ replay'.target = requiredRoute(outbox.observation)
        /\ replay'.boundary = replay.boundary
    BY <1>0, <1>4, <2>2, ReplayRequestTyped DEF RecordRequest
  <2> QED
    BY <2>3, <2>4, <2>5
<1>5. CASE Quiet
  BY <1>5 DEF Quiet, journalVars, pendingVars, ghostVars
<1> QED
  BY <1>1, <1>2, <1>3, <1>4, <1>5, OnlyRecords
  DEF RecordSomeTransition, RecordSomeStep

\* Only a running process holds decisions or an entry to record.
LEMMA MachineInvStep ==
    ASSUME CancellationTypeOK, JournalInv, MachineInv, [CancellationNext]_vars
    PROVE  MachineInv'
<1> USE DEF MachineInv, CancellationTypeOK
<1>0. state \in operationStates \cup {NoState}
  BY DEF JournalInv, TypeOK
<1>1. ASSUME NEW t \in Times, Start(t) PROVE MachineInv'
  BY <1>1, NilAssumption
  DEF Start, AcceptInitialTransition, NilAssumption, operationStates
<1>2. ASSUME NEW next \in operationStates, Transition(next) PROVE MachineInv'
  BY <1>2, NilAssumption
  DEF Transition, TransitionAccepted, journalVars, NilAssumption
<1>3. ASSUME NEW t \in Times, NEW pause \in pauses \cup {NoPause},
             RecordTransition(t, pause)
      PROVE  MachineInv'
  <2>1. state' = machine /\ machine # NoState
    BY <1>3 DEF RecordTransition, AcceptTransition
  <2> QED
    BY <1>3, <2>1 DEF RecordTransition
<1>4. ASSUME NEW id \in StepIDs, NEW outcome \in stepOutcomes,
             NEW startedAt \in Times, NEW t \in Times, NEW ended \in BOOLEAN,
             NEW mutated \in BOOLEAN, NEW identityMatches \in BOOLEAN,
             RecordStep(id, outcome, startedAt, ended, mutated,
                        identityMatches, t)
      PROVE  MachineInv'
  BY <1>4 DEF RecordStep, AcceptStep
<1>5. CASE RecordRequest
  BY <1>5 DEF RecordRequest, AcceptRequest
<1>6. CASE RestoreCancellationController
  BY <1>6 DEF RestoreCancellationController, journalVars
<1>7. ASSUME NEW d \in Decisions, NEW target, machine \in operationStates,
             routeCancellationTo(d, target)
      PROVE  MachineInv'
  BY <1>7, NilAssumption DEF routeCancellationTo, journalVars, NilAssumption
<1>8. ASSUME NEW t \in Times, RequestInFlight(t) PROVE MachineInv'
  BY <1>8, NilAssumption
  DEF RequestInFlight, RequestContext, Foundation, journalVars, NilAssumption
<1>9. ASSUME NEW d \in Decisions, ApplyCancellation(d) PROVE MachineInv'
  <2>1. machine # NoState
    BY <1>9 DEF ApplyCancellation
  <2>2. machine' # NoState
    <3>1. decision[d] \in decisions
      BY <1>9 DEF ApplyCancellation
    <3>2. decision[d].target \in operationStates
      BY <3>1 DEF decisions, operationStates, terminalOperationStates
    <3> QED
      BY <1>9, <3>2, NilAssumption DEF ApplyCancellation, NilAssumption
  <2> QED
    BY <1>9, <2>1, <2>2 DEF ApplyCancellation, journalVars
<1>10. ASSUME NEW d \in Decisions, Drop(d) PROVE MachineInv'
  BY <1>10 DEF Drop, journalVars
<1>11. CASE Crash
  BY <1>11 DEF Crash, journalVars
<1>12. CASE RestoreMachine
  BY <1>12 DEF RestoreMachine, journalVars
<1>13. CASE UNCHANGED vars
  BY <1>13 DEF vars, cancellationVars, journalVars
<1> QED
  BY <1>1, <1>2, <1>3, <1>4, <1>5, <1>6, <1>7, <1>8, <1>9, <1>10, <1>11,
     <1>12, <1>13
  DEF CancellationNext, RecordSomeTransition, RecordSomeStep,
      RequestBeforeMutation, RequestWhilePaused, RequestContext, Foundation,
      AtBoundary

\* Once a decision is settled nothing but its own transition is recorded: no
\* step, because the boundary is behind, and no second request.
LEMMA SettledHolds ==
    ASSUME CancellationTypeOK, JournalInv, MachineInv, NEW target,
           Settled(target)
    PROVE  ~RecordSomeStep /\ ~RecordRequest
<1>1. /\ target \in {"CANCELLED", "ROLLBACK"}
      /\ CanTransition(state, target)
      /\ \/ state = "PAUSED"
         \/ pendingCancellation = target /\ pendingCurrentStepID = NoStep
  BY DEF Settled
<1>2. ~RecordSomeStep
  BY <1>1 DEF RecordSomeStep, RecordStep, AcceptStep, StepMatchesRequest
<1>3. ~RecordRequest
  BY <1>1 DEF RecordRequest, AcceptRequest, MachineInv
<1> QED
  BY <1>2, <1>3

\* Being settled depends on the journal and the scans only.
LEMMA SettledStable ==
    ASSUME Quiet, NEW target, Settled(target)
    PROVE  Settled(target)'
  BY DEF Quiet, Settled, journalVars, pendingVars

\* A decision handed out at a step boundary, or while the operation is paused,
\* is settled.
LEMMA DecisionsAreSettled ==
    ASSUME CancellationTypeOK, JournalInv, ReplayInv,
           NEW d \in Decisions
    PROVE  /\ \A t \in 1..(MaxTime + 1) :
                  RequestWhilePaused(d, t) =>
                      Settled(requiredRoute(replay.observation))
           /\ AtBoundary(d) => Settled(replay.target)
<1>0. RequestInv /\ BoundaryInv /\ TypeOK /\ replay \in replayTypes
  BY DEF JournalInv, CancellationTypeOK
<1>1. ASSUME NEW t \in 1..(MaxTime + 1), RequestWhilePaused(d, t)
      PROVE  Settled(requiredRoute(replay.observation))
  <2> DEFINE route == requiredRoute(replay.observation)
  <2>1. /\ state = "PAUSED" /\ requests = 0 /\ ~replay.pointReached
        /\ CanTransition(state, route)
    BY <1>1
    DEF RequestWhilePaused, RequestContext, Foundation, HasContext,
        routeCancellationTo
  <2>2. pendingCancellation = "none"
    BY <1>0, <2>1 DEF RequestInv
  <2>3. /\ route \in {"CANCELLED", "ROLLBACK"}
        /\ route = "CANCELLED" => replay.observation = "not-occurred"
    BY DEF requiredRoute, cancellationTarget
  <2>4. route = "CANCELLED" => ~mutationMayHaveOccurred
    BY <2>1, <2>3 DEF ReplayInv
  <2> QED
    BY <2>1, <2>2, <2>3, <2>4 DEF Settled
<1>2. ASSUME AtBoundary(d) PROVE Settled(replay.target)
  <2>1. /\ state = machine /\ replay.target # "none" /\ replay.boundary
        /\ ~replay.pointReached /\ CanTransition(state, replay.target)
    BY <1>2
    DEF AtBoundary, Restorable, BoundaryRecorded, routeCancellationTo
  <2>2. /\ pendingCancellation = replay.target
        /\ pendingCurrentStepID = NoStep
    BY <2>1 DEF ReplayInv
  <2>3. pendingCancellation \in {"none", "CANCELLED", "ROLLBACK"}
    BY <1>0 DEF TypeOK
  <2>4. pendingCancellation = "CANCELLED" => ~mutationMayHaveOccurred
    BY <1>0 DEF RequestInv
  <2> QED
    BY <2>1, <2>2, <2>3, <2>4 DEF Settled
<1> QED
  BY <1>1, <1>2

\* A decision handed out is sound when it is, and those kept stay so.
LEMMA RoutedDecision ==
    ASSUME CancellationTypeOK, DecisionInv, UnrecordedInv,
           NEW d \in Decisions, NEW target \in {"CANCELLED", "ROLLBACK"},
           machine = state, routeCancellationTo(d, target),
           cancellationAuthorizationRequired(machine) => Settled(target)
    PROVE  DecisionInv' /\ UnrecordedInv'
<1>0. Quiet /\ machine' = machine /\ appliedFrom' = appliedFrom
  BY DEF routeCancellationTo, Quiet
<1>1. state' = state /\ Unrecorded' = Unrecorded
  BY <1>0 DEF Quiet, journalVars, Unrecorded
<1>2. \A e \in Decisions \ {d} : decision'[e] = decision[e]
  BY DEF routeCancellationTo, CancellationTypeOK
<1>3. decision'[d] = [from |-> machine, target |-> target,
                      current |-> TRUE, used |-> FALSE]
  BY DEF routeCancellationTo, CancellationTypeOK
<1>4. ASSUME NEW e \in Decisions,
             (decision[e] # NoDecision /\ decision[e].current)'
      PROVE  (/\ machine = state
              /\ decision[e].from = machine
              /\ cancellationAuthorizationRequired(machine) =>
                     Settled(decision[e].target))'
  <2> DEFINE route == IF e = d THEN target ELSE decision[e].target
  <2>1. /\ decision'[e].from = machine
        /\ decision'[e].target = route
    BY <1>2, <1>3, <1>4 DEF DecisionInv
  <2>2. cancellationAuthorizationRequired(machine) => Settled(route)
    BY <1>2, <1>4 DEF DecisionInv
  <2> HIDE DEF route
  <2> QED
    BY <1>0, <1>1, <2>1, <2>2 DEF Settled, Quiet, journalVars, pendingVars
<1>5. DecisionInv'
  BY <1>4 DEF DecisionInv
<1>6. UnrecordedInv'
  BY <1>0, <1>1
  DEF UnrecordedInv, Unrecorded, Settled, Quiet, journalVars, pendingVars
<1> QED
  BY <1>5, <1>6

\* A decision that is sound stays so until it is applied, outdated or gone,
\* and an applied one until it is recorded.
LEMMA DecisionStep ==
    ASSUME CancellationInv, JournalInv, [CancellationNext]_vars
    PROVE  DecisionInv' /\ UnrecordedInv'
<1>0. /\ CancellationTypeOK /\ TypeOK /\ ReplayInv /\ MachineInv
      /\ DecisionInv /\ UnrecordedInv
  BY DEF CancellationInv, JournalInv
<1> USE DEF DecisionInv, UnrecordedInv, Unrecorded
<1>1. ASSUME NEW t \in Times, Start(t) PROVE DecisionInv' /\ UnrecordedInv'
  <2>1. machine = NoState
    BY <1>0, <1>1 DEF Start, AcceptInitialTransition, MachineInv
  <2> QED
    BY <1>0, <1>1, <2>1
    DEF Start, AcceptInitialTransition, MachineInv
<1>2. ASSUME NEW next \in operationStates, Transition(next)
      PROVE  DecisionInv' /\ UnrecordedInv'
  <2>1. \A d \in Decisions :
            (decision[d] # NoDecision)' => ~(decision[d].current)'
    BY <1>0, <1>2, OutdatedTyped DEF Transition
  <2>2. ~cancellationAuthorizationRequired(appliedFrom')
    BY <1>2, NilAssumption
    DEF Transition, cancellationAuthorizationRequired, NilAssumption,
        operationStates
  <2> QED
    BY <2>1, <2>2
<1>3. ASSUME NEW t \in Times, NEW pause \in pauses \cup {NoPause},
             RecordTransition(t, pause)
      PROVE  DecisionInv' /\ UnrecordedInv'
  BY <1>0, <1>3 DEF RecordTransition, AcceptTransition
<1>4. ASSUME RecordSomeStep \/ RecordRequest
      PROVE  DecisionInv' /\ UnrecordedInv'
  <2>1. /\ state' = state /\ machine' = machine
        /\ decision' = decision /\ appliedFrom' = appliedFrom
    BY <1>4
    DEF RecordSomeStep, RecordStep, AcceptStep, RecordRequest, AcceptRequest
  <2>2. \A target : ~Settled(target)
    BY <1>0, <1>4, SettledHolds DEF CancellationInv
  <2> QED
    BY <1>0, <2>1, <2>2
<1>5. CASE RestoreCancellationController
  BY <1>0, <1>5
  DEF RestoreCancellationController, Settled, journalVars, pendingVars
<1>6. ASSUME NEW d \in Decisions, NEW t \in 1..(MaxTime + 1),
             RequestBeforeMutation(d, t)
      PROVE  DecisionInv' /\ UnrecordedInv'
  <2>1. /\ machine = state /\ routeCancellationTo(d, "CANCELLED")
        /\ ~cancellationAuthorizationRequired(machine)
    BY <1>6
    DEF RequestBeforeMutation, Foundation,
        cancellationStateIsStructurallyPreMutation,
        cancellationAuthorizationRequired
  <2> QED
    BY <1>0, <2>1, RoutedDecision
<1>7. ASSUME NEW d \in Decisions, NEW t \in 1..(MaxTime + 1),
             RequestWhilePaused(d, t)
      PROVE  DecisionInv' /\ UnrecordedInv'
  <2> DEFINE route == requiredRoute(replay.observation)
  <2>1. /\ machine = state /\ routeCancellationTo(d, route)
        /\ Settled(route)
    BY <1>0, <1>7, DecisionsAreSettled
    DEF RequestWhilePaused, RequestContext, Foundation
  <2>2. route \in {"CANCELLED", "ROLLBACK"}
    BY <2>1 DEF Settled
  <2> HIDE DEF route
  <2> QED
    BY <1>0, <2>1, <2>2, RoutedDecision
<1>8. ASSUME NEW t \in Times, RequestInFlight(t)
      PROVE  DecisionInv' /\ UnrecordedInv'
  BY <1>0, <1>8 DEF RequestInFlight, Settled, journalVars, pendingVars
<1>9. ASSUME NEW d \in Decisions, AtBoundary(d)
      PROVE  DecisionInv' /\ UnrecordedInv'
  <2>1. /\ machine = state /\ routeCancellationTo(d, replay.target)
        /\ Settled(replay.target)
    BY <1>0, <1>9, DecisionsAreSettled DEF AtBoundary
  <2>2. replay.target \in {"CANCELLED", "ROLLBACK"}
    BY <2>1 DEF Settled
  <2> QED
    BY <1>0, <2>1, <2>2, RoutedDecision
<1>10. ASSUME NEW d \in Decisions, ApplyCancellation(d)
       PROVE  DecisionInv' /\ UnrecordedInv'
  <2>1. decision[d] # NoDecision /\ Outdated[d] # NoDecision
    BY <1>0, <1>10, OutdatedTyped DEF ApplyCancellation
  <2>2. CASE DecisionCurrent(d) /\ CanTransition(machine, decision[d].target)
    <3>1. /\ machine' = decision[d].target /\ appliedFrom' = machine
          /\ decision' = [Outdated EXCEPT ![d].used = TRUE]
          /\ state' = state /\ Quiet
      BY <1>10, <2>2 DEF ApplyCancellation, Quiet, journalVars
    <3>2. \A e \in Decisions :
              (decision[e] # NoDecision)' => ~(decision[e].current)'
      BY <1>0, <2>1, <3>1, OutdatedTyped, UsedTyped
    <3>3. machine = state /\ (cancellationAuthorizationRequired(machine) =>
                                  Settled(decision[d].target))
      BY <1>0, <2>1, <2>2 DEF DecisionCurrent
    <3>4. UnrecordedInv'
      BY <3>1, <3>3 DEF Settled, Quiet, journalVars, pendingVars
    <3> QED
      BY <3>2, <3>4
  <2>3. CASE ~(DecisionCurrent(d) /\ CanTransition(machine, decision[d].target))
    <3>1. /\ machine' = machine /\ appliedFrom' = appliedFrom
          /\ decision' = [decision EXCEPT ![d].used = TRUE]
          /\ state' = state /\ Quiet
      BY <1>10, <2>3 DEF ApplyCancellation, Quiet, journalVars
    <3>2. \A e \in Decisions :
              /\ (decision[e] = NoDecision)' <=> decision[e] = NoDecision
              /\ decision[e] # NoDecision =>
                     /\ decision'[e].current = decision[e].current
                     /\ decision'[e].from = decision[e].from
                     /\ decision'[e].target = decision[e].target
      BY <1>0, <2>1, <3>1, UsedTyped DEF CancellationTypeOK
    <3>3. DecisionInv'
      BY <1>0, <3>1, <3>2 DEF Settled, Quiet, journalVars, pendingVars
    <3>4. UnrecordedInv'
      BY <1>0, <3>1 DEF Settled, Quiet, journalVars, pendingVars
    <3> QED
      BY <3>3, <3>4
  <2> QED
    BY <2>2, <2>3
<1>11. ASSUME NEW d \in Decisions, Drop(d) PROVE DecisionInv' /\ UnrecordedInv'
  <2>1. \A e \in Decisions :
            (decision[e] # NoDecision)' => decision'[e] = decision[e]
    BY <1>0, <1>11 DEF Drop, CancellationTypeOK
  <2> QED
    BY <1>0, <1>11, <2>1 DEF Drop, Settled, journalVars, pendingVars
<1>12. CASE Crash
  BY <1>12 DEF Crash, journalVars
<1>13. CASE RestoreMachine
  BY <1>0, <1>13 DEF RestoreMachine, MachineInv, journalVars
<1>14. CASE UNCHANGED vars
  BY <1>0, <1>14
  DEF vars, cancellationVars, Settled, journalVars, pendingVars
<1> QED
  BY <1>1, <1>2, <1>3, <1>4, <1>5, <1>6, <1>7, <1>8, <1>9, <1>10, <1>11,
     <1>12, <1>13, <1>14
  DEF CancellationNext, RecordSomeTransition

-----------------------------------------------------------------------------
\* At the start nothing is recorded and nothing decided.
LEMMA CancellationStarts == CancellationInit => CancellationInv
<1> SUFFICES ASSUME CancellationInit PROVE CancellationInv
  OBVIOUS
<1>1. Len(ContractSteps) \in Nat
  BY ContractAssumption DEF ContractAssumption
<1>2. replayStart \in replayTypes
  BY <1>1 DEF replayStart, replayTypes, mutationObservations
<1>3. decision \in [Decisions -> decisions \cup {NoDecision}]
  BY DEF CancellationInit
<1>4. CancellationTypeOK
  BY <1>2, <1>3 DEF CancellationInit, CancellationTypeOK
<1>5. ReplayInv
  BY DEF CancellationInit, Init, ReplayInv, replayStart
<1>6. MachineInv /\ DecisionInv
  BY DEF CancellationInit, Init, MachineInv, DecisionInv
<1>7. UnrecordedInv
  BY DEF CancellationInit, UnrecordedInv, Unrecorded
<1> QED
  BY <1>4, <1>5, <1>6, <1>7 DEF CancellationInv

\* The journal of an operation that is cancelled, restored or interrupted is
\* always one ValidateJournal accepts, so the theorems about accepted
\* histories are theorems about it.
THEOREM CancellationKeepsJournal == CancellationSpec => Spec
<1>1. CancellationInit => Init /\ CancellationTypeOK
  BY CancellationStarts DEF CancellationInit, CancellationInv
<1>2. CancellationTypeOK /\ [CancellationNext]_vars => [Next]_journalVars
  BY RecordsAreEntries
<1>3. CancellationTypeOK /\ TypeOK /\ [CancellationNext]_vars
          => CancellationTypeOK'
  BY CancellationTypeStep
<1>4. CancellationTypeOK /\ TypeOK /\ [CancellationNext]_vars => TypeOK'
  BY RecordsAreEntries, TypeOKStep
<1>5. CancellationInit => TypeOK
  BY TypeOKStart DEF CancellationInit
<1> QED
  BY <1>1, <1>2, <1>3, <1>4, <1>5, PTL DEF CancellationSpec, Spec

\* So an operation that the engine cancels, interrupts or restores is seen by
\* whoever reads its history as the abstract lifecycle: ApplyCancellation never
\* records what would take it back, forget a mutation, or cancel one.
THEOREM CancellationImplementsLifecycle == CancellationSpec => LifecycleSpec
  BY CancellationKeepsJournal, JournalImplementsLifecycle

\* The inductive invariant holds of every operation that may be cancelled,
\* for any contract, any number of decisions and any crashes.
THEOREM CancellationInvariant == CancellationSpec => [](CancellationInv /\ JournalInv)
<1>1. CancellationSpec => []JournalInv
  BY CancellationKeepsJournal, JournalInvariant, PTL
<1>2. /\ CancellationInv /\ JournalInv /\ JournalInv'
      /\ [CancellationNext]_vars
      => CancellationInv'
  <2> SUFFICES ASSUME CancellationInv, JournalInv, JournalInv',
                      [CancellationNext]_vars
               PROVE  CancellationInv'
    OBVIOUS
  <2>1. CancellationTypeOK' /\ ReplayInv' /\ MachineInv'
    BY CancellationTypeStep, ReplayInvStep, MachineInvStep
    DEF CancellationInv, JournalInv
  <2>2. DecisionInv' /\ UnrecordedInv'
    BY DecisionStep
  <2> QED
    BY <2>1, <2>2 DEF CancellationInv
<1> QED
  BY <1>1, <1>2, CancellationStarts, PTL DEF CancellationSpec

\* A decision from PROTECT, EXECUTE or PAUSED that ApplyCancellation lets
\* through is one ValidateJournal accepts, for any contract, any number of
\* decisions kept for any time and any crashes in between.
THEOREM DecisionsAreRecordable == CancellationSpec => []AppliedDecisionRecordable
<1>1. CancellationInv /\ JournalInv => AppliedDecisionRecordable
  <2> SUFFICES ASSUME CancellationInv, JournalInv, Unrecorded
               PROVE  TransitionAccepted(machine, previousTime)
    BY DEF AppliedDecisionRecordable
  <2>1. /\ state = appliedFrom /\ Settled(machine)
        /\ TypeOK /\ BoundaryInv
    BY DEF CancellationInv, UnrecordedInv, JournalInv
  <2>2. state \in {"PROTECT", "EXECUTE", "PAUSED"}
    BY <2>1 DEF Unrecorded, cancellationAuthorizationRequired
  <2>3. state # NoState
    BY <2>2, NilAssumption DEF NilAssumption, operationStates
  <2>4. EntryFollows(previousTime)
    <3>1. previousTime \in Times
      BY <2>1, <2>3 DEF TypeOK, BoundaryInv, Times
    <3>2. ~Terminal(state)
      BY <2>2 DEF Terminal, terminalOperationStates
    <3>3. previousTime >= previousTime
      BY <2>1 DEF TypeOK
    <3> QED
      BY <3>1, <3>2, <3>3 DEF EntryFollows
  <2>5. /\ PendingHonored(machine) /\ RouteKept(machine)
        /\ ResumePermitted(machine, previousTime)
    BY <2>1 DEF Settled, PendingHonored, RouteKept, ResumePermitted
  <2> QED
    BY <2>1, <2>3, <2>4, <2>5 DEF TransitionAccepted, Settled
<1> QED
  BY <1>1, CancellationInvariant, PTL

\* No decision is applied past the contract's point of no return, although
\* only Request and AtBoundary look at it.
THEOREM PointOfNoReturnHolds == CancellationSpec => []NotCancelledPastPoint
<1>1. CancellationInv => NotCancelledPastPoint
  BY DEF CancellationInv, UnrecordedInv, NotCancelledPastPoint, Settled
<1> QED
  BY <1>1, CancellationInvariant, PTL

\* RestoreCancellationController, cancellationContext and ValidateJournal
\* agree on the pending route and on whether a mutation may have occurred.
THEOREM ScansAlwaysAgree == CancellationSpec => []ScansAgree
<1>1. CancellationInv => ScansAgree
  BY DEF CancellationInv, ReplayInv, ScansAgree
<1> QED
  BY <1>1, CancellationInvariant, PTL
==============================================================================
