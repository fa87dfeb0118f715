---------------------------- MODULE JournalProofs ----------------------------
(***************************************************************************)
(* Theorems about the durable journal, for every set of steps and every    *)
(* bound: every history ValidateJournal accepts is type-correct, ends      *)
(* CANCELLED only without evidence of a mutation, records steps that do    *)
(* not overlap, and is a history of the abstract lifecycle.                *)
(***************************************************************************)
EXTENDS Journal, TLAPS

-----------------------------------------------------------------------------
(* What the transition table and the search of cancellationRouteReachable  *)
(* say about particular states.                                            *)

\* The transition table read as a case distinction on the state left.
LEMMA Successors ==
    ASSUME NEW from, NEW to
    PROVE  CanTransition(from, to) <=>
             \/ from = "DISCOVER" /\ to \in {"VALIDATE", "CANCELLED", "FAILED"}
             \/ from = "VALIDATE" /\ to \in {"PLAN", "CANCELLED", "FAILED"}
             \/ /\ from = "PLAN"
                /\ to \in {"APPROVED_WAITING", "LOCK", "CANCELLED", "FAILED"}
             \/ from = "APPROVED_WAITING" /\ to \in {"LOCK", "CANCELLED"}
             \/ /\ from = "LOCK"
                /\ to \in {"PROTECT", "EXECUTE", "CANCELLED", "FAILED"}
             \/ /\ from = "PROTECT"
                /\ to \in {"EXECUTE", "PAUSED", "ROLLBACK", "CANCELLED",
                           "FAILED"}
             \/ /\ from = "EXECUTE"
                /\ to \in {"PAUSED", "VERIFY", "ROLLBACK", "CANCELLED",
                           "FAILED"}
             \/ /\ from = "PAUSED"
                /\ to \in {"DISCOVER", "ROLLBACK", "CANCELLED", "FAILED"}
             \/ /\ from = "VERIFY"
                /\ to \in {"DOCUMENT", "COMPLETE_WITH_FAILED_VERIFICATION",
                           "ROLLBACK"}
             \/ /\ from = "DOCUMENT"
                /\ to \in {"COMPLETE", "COMPLETE_WITH_DOCUMENTATION_ERROR"}
             \/ /\ from = "ROLLBACK"
                /\ to \in {"VERIFIED_ROLLBACK", "FAILED_CLEANUP"}
  BY DEF CanTransition, transitions

\* A round of the search only adds states.
LEMMA VisitGrows ==
    ASSUME NEW visited
    PROVE  visited \subseteq visitNext(visited)
  BY DEF visitNext

\* A set of states the transitions lead out of only to terminal states is
\* all that the search visits from it.
LEMMA VisitCloses ==
    ASSUME NEW visited,
           \A from \in visited, to \in operationStates :
               CanTransition(from, to) => to \in visited \/ Terminal(to)
    PROVE  visitTwice(visited) = visited
<1>1. visitNext(visited) = visited
  BY DEF visitNext
<1> QED
  BY <1>1 DEF visitTwice

\* The route relation unfolded to the states the search visits.
LEMMA RouteReachable ==
    ASSUME NEW s \in operationStates, NEW target \in operationStates
    PROVE  cancellationRouteReachable(s, target) <=>
               \E via \in visitedFrom(s) : CanTransition(via, target)
<1>1. <<s, target>> \in { <<from, to>> : from, to \in operationStates }
  OBVIOUS
<1>2. <<s, target>>[1] = s /\ <<s, target>>[2] = target
  OBVIOUS
<1> QED
  BY <1>1, <1>2 DEF cancellationRouteReachable, cancellationRoutes

\* No route leaves a terminal state, ROLLBACK or DOCUMENT.
LEMMA DeadEnds ==
    ASSUME NEW s \in terminalOperationStates \cup {"ROLLBACK", "DOCUMENT"},
           NEW target \in {"CANCELLED", "ROLLBACK"}
    PROVE  ~cancellationRouteReachable(s, target)
<1>1. s \in operationStates /\ target \in operationStates
  BY DEF operationStates, terminalOperationStates
<1>2. \A to \in operationStates : CanTransition(s, to) => Terminal(to)
  BY Successors DEF Terminal, terminalOperationStates
<1>3. visitTwice({s}) = {s}
  BY <1>2, VisitCloses
<1>4. visitedFrom(s) = {s}
  BY <1>3 DEF visitedFrom
<1>5. ~CanTransition(s, target)
  BY Successors DEF terminalOperationStates
<1> QED
  BY <1>1, <1>4, <1>5, RouteReachable

\* After execution an operation can be rolled back but no longer cancelled.
LEMMA VerifyCannotCancel == ~cancellationRouteReachable("VERIFY", "CANCELLED")
<1> DEFINE S1 == {"VERIFY"}
           S2 == {"VERIFY", "DOCUMENT", "ROLLBACK"}
<1>1. visitNext(S1) = S2
  BY Successors DEF visitNext, operationStates, terminalOperationStates,
                    Terminal
<1>2. visitTwice(S2) = S2
  <2>1. \A from \in S2, to \in operationStates :
            CanTransition(from, to) => to \in S2 \/ Terminal(to)
    BY Successors DEF Terminal, terminalOperationStates
  <2> QED
    BY <2>1, VisitCloses
<1>3. visitNext(S2) = S2
  BY Successors DEF visitNext, operationStates, terminalOperationStates,
                    Terminal
<1>4. visitedFrom("VERIFY") = S2
  BY <1>1, <1>2, <1>3 DEF visitedFrom, visitTwice
<1>5. \A via \in S2 : ~CanTransition(via, "CANCELLED")
  BY Successors
<1> QED
  BY <1>4, <1>5, RouteReachable DEF operationStates, terminalOperationStates

\* A state whose successor is visited three rounds on is visited.
LEMMA VisitThree ==
    ASSUME NEW s \in operationStates, NEW a \in operationStates,
           NEW b \in operationStates, NEW c \in operationStates,
           ~Terminal(a), ~Terminal(b), ~Terminal(c),
           a = s \/ CanTransition(s, a),
           b = a \/ CanTransition(a, b),
           c = b \/ CanTransition(b, c)
    PROVE  c \in visitedFrom(s)
<1>1. a \in visitNext({s})
  BY DEF visitNext
<1>2. b \in visitTwice({s})
  BY <1>1 DEF visitNext, visitTwice
<1>3. c \in visitNext(visitTwice({s}))
  BY <1>2 DEF visitNext
<1>4. \A visited : visited \subseteq visitTwice(visited)
  BY VisitGrows DEF visitTwice
<1>5. c \in visitTwice(visitTwice({s}))
  BY <1>3, VisitGrows DEF visitTwice
<1> QED
  BY <1>4, <1>5 DEF visitedFrom

\* ROLLBACK can be reached from every state on the way to PROTECT.
LEMMA RollbackAhead ==
    ASSUME NEW s \in {"VALIDATE", "PLAN", "LOCK", "PROTECT"}
    PROVE  cancellationRouteReachable(s, "ROLLBACK")
<1>1. /\ CanTransition("VALIDATE", "PLAN")
      /\ CanTransition("PLAN", "LOCK")
      /\ CanTransition("LOCK", "PROTECT")
      /\ CanTransition("PROTECT", "ROLLBACK")
  BY Successors
<1>2. \A u \in {"VALIDATE", "PLAN", "LOCK", "PROTECT"} :
          u \in operationStates /\ ~Terminal(u)
  BY DEF operationStates, terminalOperationStates, Terminal
<1>3. "ROLLBACK" \in operationStates
  BY DEF operationStates
<1>4. "PROTECT" \in visitedFrom("VALIDATE")
  BY <1>1, <1>2, VisitThree, Zenon
<1>5. "PROTECT" \in visitedFrom("PLAN")
  BY <1>1, <1>2, VisitThree, Zenon
<1>6. "PROTECT" \in visitedFrom("LOCK")
  BY <1>1, <1>2, VisitThree, Zenon
<1>7. "PROTECT" \in visitedFrom("PROTECT")
  BY <1>1, <1>2, VisitThree, Zenon
<1> QED
  BY <1>1, <1>2, <1>3, <1>4, <1>5, <1>6, <1>7, RouteReachable

-----------------------------------------------------------------------------
\* What ValidateJournalEntry asks of one entry is expanded everywhere below.
USE DEF WellFormedTransition, WellFormedStep, requiredRoute

-----------------------------------------------------------------------------
(* The inductive invariant.  Its three parts are about the mutation that   *)
(* may have occurred, the boundaries steps start after, and the route a    *)
(* recorded request still requires.                                        *)

MutationInv == /\ evidence = mutationMayHaveOccurred
               /\ state = "CANCELLED" => ~mutationMayHaveOccurred

BoundaryInv == /\ lastBoundary <= previousTime
               /\ state # NoState => previousTime >= 1
               /\ pendingCancellation = "none" => pendingCurrentStepID = NoStep
               /\ pendingCurrentStepID # NoStep =>
                      pendingStepStartBoundary >= lastBoundary
               /\ ~overlap

\* States from which the two routes can be reached.
cancellable == {"DISCOVER", "VALIDATE", "PLAN", "APPROVED_WAITING", "LOCK",
                "PROTECT", "EXECUTE", "PAUSED"}

RequestInv ==
    /\ requests = 0 => pendingCancellation = "none"
    /\ requests <= 1
    /\ requests > 0 /\ pendingCancellation = "none" =>
           state \in {"CANCELLED", "ROLLBACK", "VERIFIED_ROLLBACK",
                     "FAILED_CLEANUP"}
    /\ pendingCancellation = "CANCELLED" =>
           state \in cancellable /\ ~mutationMayHaveOccurred
    /\ pendingCancellation = "ROLLBACK" =>
           state \in cancellable \cup {"VERIFY"}
    /\ cancellationAuthorizationRequired(requestState)
            /\ pendingCancellation # "none" =>
           /\ state = requestState
           /\ stepsSince <= 1
           /\ pendingCurrentStepID # NoStep => stepsSince = 0

JournalInv == TypeOK /\ MutationInv /\ BoundaryInv /\ RequestInv
-----------------------------------------------------------------------------
\* Before the first entry the validator's locals have their types.
LEMMA TypeOKStart == Init => TypeOK
<1> SUFFICES ASSUME Init PROVE TypeOK
  OBVIOUS
<1>1. attempts \in [StepIDs -> 0..MaxAttempts]
  BY BoundsAssumption DEF BoundsAssumption, Init
<1>2. /\ mutationMayHaveOccurred \in BOOLEAN
      /\ evidence \in BOOLEAN
      /\ overlap \in BOOLEAN
  BY Zenon DEF Init
<1> QED
  BY <1>1, <1>2, BoundsAssumption DEF BoundsAssumption, Init, TypeOK

\* Every accepted entry leaves the validator's locals well typed.
LEMMA TypeOKStep == TypeOK /\ [Next]_journalVars => TypeOK'
<1> SUFFICES ASSUME TypeOK, [Next]_journalVars PROVE TypeOK'
  OBVIOUS
<1> USE BoundsAssumption DEF BoundsAssumption
<1>1. ASSUME NEW t \in Times, AcceptInitialTransition(t) PROVE TypeOK'
  BY <1>1 DEF AcceptInitialTransition, TypeOK, Times, operationStates,
              pendingVars
<1>2. ASSUME NEW next \in operationStates, NEW t \in Times,
             NEW pause \in pauses \cup {NoPause},
             AcceptTransition(next, t, pause)
      PROVE TypeOK'
  <2>1. /\ state' \in operationStates
        /\ previousTime' \in 0..MaxTime
        /\ lastBoundary' \in 0..MaxTime
        /\ paused' \in pauses \cup {NoPause}
    BY <1>2 DEF AcceptTransition, Times
  <2>2. /\ mutationMayHaveOccurred' \in BOOLEAN
        /\ evidence' \in BOOLEAN
    BY <1>2, Zenon DEF AcceptTransition, TypeOK
  <2>3. pendingCancellation' \in {"none", "CANCELLED", "ROLLBACK"}
    BY <1>2 DEF AcceptTransition, TypeOK, escalate
  <2>4. /\ pendingCurrentStepID' \in StepIDs \cup {NoStep}
        /\ pendingStepStartBoundary' \in 0..MaxTime
        /\ pendingRequestedAt' \in 0..MaxTime
    BY <1>2 DEF AcceptTransition, TypeOK, ClearPendingStep
  <2> QED
    BY <1>2, <2>1, <2>2, <2>3, <2>4 DEF AcceptTransition, TypeOK
<1>3. ASSUME NEW id \in StepIDs, NEW outcome \in stepOutcomes,
             NEW startedAt \in Times, NEW t \in Times,
             NEW ended \in BOOLEAN, NEW mutated \in BOOLEAN,
             AcceptStep(id, outcome, startedAt, ended, mutated, t)
      PROVE TypeOK'
  <2>1. attempts' \in [StepIDs -> 0..MaxAttempts]
    BY <1>3 DEF AcceptStep, TypeOK
  <2>2. completed' \in SUBSET StepIDs
    BY <1>3 DEF AcceptStep, TypeOK
  <2>3. /\ mutationMayHaveOccurred' \in BOOLEAN
        /\ evidence' \in BOOLEAN
        /\ overlap' \in BOOLEAN
    BY <1>3, Zenon DEF AcceptStep, TypeOK
  <2>4. pendingCancellation' \in {"none", "CANCELLED", "ROLLBACK"}
    BY <1>3 DEF AcceptStep, TypeOK, escalate
  <2>5. stepsSince' \in 0..2
    BY <1>3 DEF AcceptStep, TypeOK, UpToTwo
  <2> QED
    BY <1>3, <2>1, <2>2, <2>3, <2>4, <2>5
    DEF AcceptStep, TypeOK, ClearPendingStep, Times
<1>4. ASSUME NEW id \in StepIDs, NEW observation \in mutationObservations,
             NEW t \in Times, AcceptRequest(id, observation, t)
      PROVE TypeOK'
  <2>1. /\ mutationMayHaveOccurred' \in BOOLEAN
        /\ evidence' \in BOOLEAN
    BY <1>4, Zenon DEF AcceptRequest, TypeOK
  <2>2. /\ pendingCancellation' \in {"none", "CANCELLED", "ROLLBACK"}
        /\ requests' \in 0..2
        /\ stepsSince' \in 0..2
    BY <1>4 DEF AcceptRequest, TypeOK, cancellationTarget, UpToTwo
  <2> QED
    BY <1>4, <2>1, <2>2 DEF AcceptRequest, TypeOK, Times
<1>5. CASE UNCHANGED journalVars
  BY <1>5 DEF journalVars, pendingVars, ghostVars, TypeOK
<1> QED
  BY <1>1, <1>2, <1>3, <1>4, <1>5
  DEF Next, AcceptSomeTransition, AcceptSomeStep, AcceptSomeRequest

\* The type invariant holds in every history ValidateJournal accepts.
THEOREM TypeCorrect == Spec => []TypeOK
  BY TypeOKStart, TypeOKStep, PTL DEF Spec

-----------------------------------------------------------------------------
\* The accumulated mutation flag is exactly the evidence in the entries, and
\* no entry after a CANCELLED transition can change it.
LEMMA MutationStep ==
    ASSUME JournalInv, [Next]_journalVars
    PROVE  MutationInv'
<1> USE DEF MutationInv
<1>0. MutationInv /\ TypeOK
  BY DEF JournalInv
<1>1. ASSUME NEW t \in Times, AcceptInitialTransition(t) PROVE MutationInv'
  BY <1>0, <1>1 DEF AcceptInitialTransition
<1>2. ASSUME NEW next \in operationStates, NEW t \in Times,
             NEW pause \in pauses \cup {NoPause},
             AcceptTransition(next, t, pause)
      PROVE MutationInv'
  <2>1. evidence' = mutationMayHaveOccurred'
    <3>1. CASE next = "PAUSED"
      <4>1. /\ mutationMayHaveOccurred' =
                   (mutationMayHaveOccurred \/ pause.mutationOccurred)
            /\ evidence' = (evidence \/ pause.mutationOccurred)
        BY <1>2, <3>1 DEF AcceptTransition
      <4> QED
        BY <1>0, <4>1, Zenon
    <3>2. CASE next # "PAUSED"
      BY <1>0, <1>2, <3>2 DEF AcceptTransition
    <3> QED
      BY <3>1, <3>2
  <2>2. state' = "CANCELLED" => ~mutationMayHaveOccurred'
    BY <1>0, <1>2 DEF AcceptTransition, TransitionAccepted
  <2> QED
    BY <2>1, <2>2
<1>3. ASSUME NEW id \in StepIDs, NEW outcome \in stepOutcomes,
             NEW startedAt \in Times, NEW t \in Times,
             NEW ended \in BOOLEAN, NEW mutated \in BOOLEAN,
             AcceptStep(id, outcome, startedAt, ended, mutated, t)
      PROVE MutationInv'
  <2>1. evidence' = mutationMayHaveOccurred'
    BY <1>0, <1>3, Zenon DEF AcceptStep, StepTellsMutation
  <2>2. state' # "CANCELLED"
    BY <1>3 DEF AcceptStep, EntryFollows, Terminal, terminalOperationStates
  <2> QED
    BY <2>1, <2>2
<1>4. ASSUME NEW id \in StepIDs, NEW observation \in mutationObservations,
             NEW t \in Times, AcceptRequest(id, observation, t)
      PROVE MutationInv'
  <2>1. evidence' = mutationMayHaveOccurred'
    BY <1>0, <1>4, Zenon DEF AcceptRequest
  <2>2. state' # "CANCELLED"
    BY <1>4 DEF AcceptRequest, EntryFollows, Terminal, terminalOperationStates
  <2> QED
    BY <2>1, <2>2
<1>5. CASE UNCHANGED journalVars
  BY <1>0, <1>5 DEF journalVars, pendingVars, ghostVars
<1> QED
  BY <1>1, <1>2, <1>3, <1>4, <1>5
  DEF Next, AcceptSomeTransition, AcceptSomeStep, AcceptSomeRequest

\* Every accepted step starts at or after the last transition or step entry:
\* the boundary saved with a request is never older than that entry.
LEMMA BoundaryStep ==
    ASSUME JournalInv, [Next]_journalVars
    PROVE  BoundaryInv'
<1> USE DEF BoundaryInv
<1>0. BoundaryInv /\ TypeOK
  BY DEF JournalInv
<1>1. ASSUME NEW t \in Times, AcceptInitialTransition(t) PROVE BoundaryInv'
  <2>1. /\ t >= 1 /\ previousTime' = t /\ lastBoundary' = t
        /\ overlap' = overlap
    BY <1>1, BoundsAssumption
    DEF AcceptInitialTransition, Times, BoundsAssumption
  <2>2. pendingCancellation = "none"
    BY <1>0, <1>1, NilAssumption
    DEF AcceptInitialTransition, JournalInv, RequestInv, TypeOK, cancellable,
        NilAssumption, operationStates
  <2>3. pendingCurrentStepID' = NoStep
    BY <1>0, <1>1, <2>2 DEF AcceptInitialTransition, pendingVars
  <2> QED
    BY <1>0, <2>1, <2>3, BoundsAssumption DEF Times, BoundsAssumption
<1>2. ASSUME NEW next \in operationStates, NEW t \in Times,
             NEW pause \in pauses \cup {NoPause},
             AcceptTransition(next, t, pause)
      PROVE BoundaryInv'
  <2>1. t >= 1 /\ previousTime' = t /\ lastBoundary' = t
    BY <1>2, BoundsAssumption DEF AcceptTransition, Times, BoundsAssumption
  <2>2. pendingCurrentStepID' = NoStep
    BY <1>0, <1>2 DEF AcceptTransition, ClearPendingStep
  <2>3. overlap' = overlap
    BY <1>2 DEF AcceptTransition
  <2> QED
    BY <1>0, <2>1, <2>2, <2>3, BoundsAssumption DEF Times, BoundsAssumption
<1>3. ASSUME NEW id \in StepIDs, NEW outcome \in stepOutcomes,
             NEW startedAt \in Times, NEW t \in Times,
             NEW ended \in BOOLEAN, NEW mutated \in BOOLEAN,
             AcceptStep(id, outcome, startedAt, ended, mutated, t)
      PROVE BoundaryInv'
  <2>1. t >= 1 /\ previousTime' = t /\ lastBoundary' = t
    BY <1>3, BoundsAssumption DEF AcceptStep, Times, BoundsAssumption
  <2>2. pendingCurrentStepID' = NoStep
    BY <1>3 DEF AcceptStep, ClearPendingStep
  <2>3. startedAt >= lastBoundary
    BY <1>0, <1>3, BoundsAssumption
    DEF AcceptStep, stepStartBoundary, TypeOK, Times, BoundsAssumption
  <2>4. ~(startedAt < lastBoundary)
    BY <1>0, <2>3, BoundsAssumption DEF TypeOK, Times, BoundsAssumption
  <2>5. ~overlap'
    BY <1>0, <1>3, <2>4 DEF AcceptStep
  <2> QED
    BY <2>1, <2>2, <2>5, BoundsAssumption DEF Times, BoundsAssumption
<1>4. ASSUME NEW id \in StepIDs, NEW observation \in mutationObservations,
             NEW t \in Times, AcceptRequest(id, observation, t)
      PROVE BoundaryInv'
  <2>1. pendingCancellation' # "none"
    BY <1>4 DEF AcceptRequest, cancellationTarget
  <2>2. /\ t >= 1 /\ t >= previousTime /\ previousTime' = t
        /\ lastBoundary' = lastBoundary
        /\ pendingStepStartBoundary' = previousTime
        /\ overlap' = overlap
    BY <1>4, BoundsAssumption
    DEF AcceptRequest, EntryFollows, Times, BoundsAssumption
  <2> QED
    BY <1>0, <2>1, <2>2, BoundsAssumption
    DEF TypeOK, Times, BoundsAssumption
<1>5. CASE UNCHANGED journalVars
  BY <1>0, <1>5 DEF journalVars, pendingVars, ghostVars
<1> QED
  BY <1>1, <1>2, <1>3, <1>4, <1>5
  DEF Next, AcceptSomeTransition, AcceptSomeStep, AcceptSomeRequest

\* A recorded request keeps its route until the operation takes it.
LEMMA RequestStep ==
    ASSUME JournalInv, [Next]_journalVars
    PROVE  RequestInv'
<1> USE DEF RequestInv
<1>0. RequestInv /\ TypeOK
  BY DEF JournalInv
<1>1. ASSUME NEW t \in Times, AcceptInitialTransition(t) PROVE RequestInv'
  <2>1. pendingCancellation = "none" /\ requests = 0
    BY <1>0, <1>1, NilAssumption
    DEF AcceptInitialTransition, TypeOK, cancellable,
        NilAssumption, operationStates, terminalOperationStates
  <2> QED
    BY <1>0, <1>1, <2>1 DEF AcceptInitialTransition, pendingVars
<1>2. ASSUME NEW next \in operationStates, NEW t \in Times,
             NEW pause \in pauses \cup {NoPause},
             AcceptTransition(next, t, pause)
      PROVE RequestInv'
  <2>1. /\ CanTransition(state, next) /\ state' = next
        /\ PendingHonored(next) /\ RouteKept(next)
        /\ requests' = requests /\ requestState' = requestState
        /\ stepsSince' = stepsSince
    BY <1>2 DEF AcceptTransition, TransitionAccepted
  <2>2. CASE pendingCancellation = "none"
    <3>1. pendingCancellation' = "none"
      BY <1>2, <2>2 DEF AcceptTransition, escalate
    <3>2. requests > 0 => next \in {"VERIFIED_ROLLBACK", "FAILED_CLEANUP"}
      BY <1>0, <2>1, <2>2, Successors
    <3> QED
      BY <1>0, <2>1, <3>1, <3>2 DEF TypeOK
  <2>3. CASE pendingCancellation # "none" /\ next = pendingCancellation
    <3>1. pendingCancellation' = "none"
      BY <1>2, <2>3 DEF AcceptTransition, escalate
    <3>2. next \in {"CANCELLED", "ROLLBACK"}
      BY <1>0, <2>3 DEF TypeOK
    <3> QED
      BY <1>0, <2>1, <3>1, <3>2 DEF TypeOK
  <2>4. CASE pendingCancellation # "none" /\ next # pendingCancellation
    <3>1. ~CanTransition(state, pendingCancellation)
      BY <2>1, <2>4 DEF PendingHonored
    <3>2. pendingCancellation = "ROLLBACK"
      BY <1>0, <2>4, <3>1, Successors DEF TypeOK, cancellable
    <3>3. state \in {"DISCOVER", "VALIDATE", "PLAN", "APPROVED_WAITING", "LOCK"}
      BY <1>0, <3>1, <3>2, Successors DEF cancellable
    <3>4. cancellationRouteReachable(next, "ROLLBACK")
      BY <2>1, <2>4, <3>2 DEF RouteKept
    <3>5. next \notin terminalOperationStates
      BY <3>4, DeadEnds
    <3>6. next \in cancellable /\ next # "PAUSED"
      BY <2>1, <3>3, <3>5, Successors DEF cancellable, terminalOperationStates
    <3>7. pendingCancellation' = "ROLLBACK"
      BY <1>2, <2>4, <3>2, <3>6 DEF AcceptTransition
    <3>8. ~cancellationAuthorizationRequired(requestState)
      BY <1>0, <2>4, <3>3 DEF cancellationAuthorizationRequired
    <3> QED
      BY <1>0, <2>1, <2>4, <3>6, <3>7, <3>8 DEF TypeOK
  <2> QED
    BY <2>2, <2>3, <2>4
<1>3. ASSUME NEW id \in StepIDs, NEW outcome \in stepOutcomes,
             NEW startedAt \in Times, NEW t \in Times,
             NEW ended \in BOOLEAN, NEW mutated \in BOOLEAN,
             AcceptStep(id, outcome, startedAt, ended, mutated, t)
      PROVE RequestInv'
  <2>1. /\ state' = state /\ requests' = requests
        /\ requestState' = requestState
        /\ stepsSince' = UpToTwo(stepsSince)
        /\ pendingCurrentStepID' = NoStep
        /\ StepMatchesRequest(id, startedAt)
    BY <1>3 DEF AcceptStep, ClearPendingStep
  <2>2. /\ pendingCancellation = "none" => pendingCancellation' = "none"
        /\ pendingCancellation = "ROLLBACK" => pendingCancellation' = "ROLLBACK"
        /\ pendingCancellation = "CANCELLED" =>
               \/ pendingCancellation' = "ROLLBACK"
               \/ /\ pendingCancellation' = "CANCELLED"
                  /\ ~mutationMayHaveOccurred'
    BY <1>3 DEF AcceptStep, escalate
  <2>3. cancellationAuthorizationRequired(requestState)
            /\ pendingCancellation # "none" =>
          pendingCurrentStepID # NoStep /\ stepsSince = 0
    <3> SUFFICES ASSUME cancellationAuthorizationRequired(requestState),
                        pendingCancellation # "none"
                 PROVE  pendingCurrentStepID # NoStep /\ stepsSince = 0
      OBVIOUS
    <3>1. state \in {"PROTECT", "EXECUTE", "PAUSED"}
      BY <1>0 DEF cancellationAuthorizationRequired
    <3>2. CanTransition(state, pendingCancellation)
      BY <1>0, <3>1, Successors DEF TypeOK
    <3>3. pendingCurrentStepID # NoStep
      BY <2>1, <3>2 DEF StepMatchesRequest
    <3> QED
      BY <1>0, <3>3
  <2> QED
    BY <1>0, <2>1, <2>2, <2>3 DEF TypeOK, UpToTwo
<1>4. ASSUME NEW id \in StepIDs, NEW observation \in mutationObservations,
             NEW t \in Times, AcceptRequest(id, observation, t)
      PROVE RequestInv'
  <2> DEFINE route == cancellationTarget(observation # "not-occurred")
  <2>1. /\ state' = state /\ state # NoState /\ ~Terminal(state)
        /\ pendingCancellation = "none" /\ pendingCancellation' = route
        /\ cancellationRouteReachable(state, route)
        /\ requestState' = state /\ stepsSince' = 0
        /\ requests' = UpToTwo(requests)
    BY <1>4 DEF AcceptRequest, EntryFollows
  <2>2. route \in {"CANCELLED", "ROLLBACK"}
    BY DEF cancellationTarget
  <2>3. state \in cancellable \cup {"VERIFY"}
    <3>1. state \in operationStates /\ state \notin terminalOperationStates
      BY <1>0, <2>1 DEF TypeOK, Terminal
    <3>2. state \notin {"ROLLBACK", "DOCUMENT"}
      BY <2>1, <2>2, DeadEnds
    <3> QED
      BY <3>1, <3>2 DEF operationStates, cancellable
  <2>4. route = "CANCELLED" => state \in cancellable
    BY <2>1, <2>3, VerifyCannotCancel
  <2>5. route = "CANCELLED" => ~mutationMayHaveOccurred'
    <3>1. route = "CANCELLED" => observation = "not-occurred"
      BY DEF cancellationTarget
    <3> QED
      BY <1>4, <3>1 DEF AcceptRequest
  <2>6. requests = 0 /\ requests' = 1
    <3>1. requests = 0
      BY <1>0, <2>1, <2>3 DEF TypeOK, cancellable
    <3> QED
      BY <2>1, <3>1 DEF UpToTwo
  <2> QED
    BY <2>1, <2>2, <2>3, <2>4, <2>5, <2>6
<1>5. CASE UNCHANGED journalVars
  BY <1>0, <1>5 DEF journalVars, pendingVars, ghostVars
<1> QED
  BY <1>1, <1>2, <1>3, <1>4, <1>5
  DEF Next, AcceptSomeTransition, AcceptSomeStep, AcceptSomeRequest

-----------------------------------------------------------------------------
\* The inductive invariant holds of every history ValidateJournal accepts.
THEOREM JournalInvariant == Spec => []JournalInv
<1>1. Init => MutationInv /\ BoundaryInv /\ RequestInv
  <2>1. Init => MutationInv
    BY Zenon DEF Init, MutationInv
  <2>2. Init => BoundaryInv
    BY DEF Init, BoundaryInv
  <2>3. Init => RequestInv
    BY DEF Init, RequestInv
  <2> QED
    BY <2>1, <2>2, <2>3
<1>2. JournalInv /\ [Next]_journalVars
          => MutationInv' /\ BoundaryInv' /\ RequestInv'
  BY MutationStep, BoundaryStep, RequestStep
<1> QED
  BY <1>1, <1>2, TypeCorrect, PTL DEF Spec, JournalInv

\* No accepted history ends CANCELLED after an entry that tells of a possible
\* mutation, whether a step, a pause or a request told it (ValidateJournal).
THEOREM CancelledIsClean == Spec => []CancelledWithoutMutation
<1>1. JournalInv => CancelledWithoutMutation
  BY DEF JournalInv, MutationInv, CancelledWithoutMutation
<1> QED
  BY <1>1, JournalInvariant, PTL

\* A history with a cancellation request ends only where its route leads, so
\* ValidateJournal lets no operation finish past a recorded request.
THEOREM RequestsAreHonored == Spec => []RequestsHonored
<1>1. JournalInv => RequestsHonored
  BY DEF JournalInv, RequestInv, RequestsHonored, TypeOK, Terminal,
         terminalOperationStates, cancellable
<1> QED
  BY <1>1, JournalInvariant, PTL

\* No accepted history holds two requests, although ValidateJournal refuses a
\* second one only while the first is pending.
THEOREM AtMostOneRequest == Spec => []OneRequest
<1>1. JournalInv => OneRequest
  BY DEF JournalInv, RequestInv, OneRequest
<1> QED
  BY <1>1, JournalInvariant, PTL

\* After a request in PROTECT, EXECUTE or PAUSED at most the step in flight is
\* recorded before the operation leaves along the route (ValidateJournal).
THEOREM RequestStopsWork == Spec => []RequestBoundsWork
<1>1. JournalInv => RequestBoundsWork
  BY DEF JournalInv, RequestInv, RequestBoundsWork,
         cancellationAuthorizationRequired
<1> QED
  BY <1>1, JournalInvariant, PTL

\* The steps of an accepted history start after the transition or step entry
\* before them, with or without a request in between (ValidateJournal).
THEOREM StepsAreSequential == Spec => []StepsDoNotOverlap
<1>1. JournalInv => StepsDoNotOverlap
  BY DEF JournalInv, BoundaryInv, StepsDoNotOverlap
<1> QED
  BY <1>1, JournalInvariant, PTL

\* Every accepted history that has not ended can be continued: the rules of
\* ValidateJournal never contradict each other.
THEOREM HistoriesCanEnd == Spec => []NeverStuck
<1>1. JournalInv => NeverStuck
  <2> SUFFICES ASSUME JournalInv, state # NoState, ~Terminal(state)
               PROVE  \E next \in operationStates :
                          TransitionAccepted(next, previousTime)
    BY DEF NeverStuck
  <2>0. TypeOK /\ BoundaryInv /\ RequestInv
    BY DEF JournalInv
  <2>1. EntryFollows(previousTime)
    BY <2>0, BoundsAssumption
    DEF EntryFollows, TypeOK, BoundaryInv, Times, BoundsAssumption
  <2>2. state \in operationStates \ terminalOperationStates
    BY <2>0 DEF TypeOK, Terminal
  <2>3. \A next \in operationStates :
          /\ CanTransition(state, next)
          /\ next \notin {"CANCELLED", "DISCOVER"}
          /\ PendingHonored(next) /\ RouteKept(next)
          => TransitionAccepted(next, previousTime)
    BY <2>1 DEF TransitionAccepted, ResumePermitted
  <2>4. CASE pendingCancellation = "none"
    <3>1. PICK next \in operationStates :
              CanTransition(state, next)
                  /\ next \notin {"CANCELLED", "DISCOVER"}
      BY <2>2, Successors DEF operationStates, terminalOperationStates
    <3> QED
      BY <2>3, <2>4, <3>1 DEF PendingHonored, RouteKept
  <2>5. CASE pendingCancellation = "CANCELLED"
    <3>1. CanTransition(state, "CANCELLED") /\ ~mutationMayHaveOccurred
      BY <2>0, <2>5, Successors DEF RequestInv, cancellable
    <3>2. TransitionAccepted("CANCELLED", previousTime)
      BY <2>1, <2>5, <3>1
      DEF TransitionAccepted, PendingHonored, ResumePermitted, RouteKept
    <3> QED
      BY <3>2 DEF operationStates, terminalOperationStates
  <2>6. CASE pendingCancellation = "ROLLBACK"
    <3>1. CASE CanTransition(state, "ROLLBACK")
      BY <2>3, <2>6, <3>1
      DEF PendingHonored, RouteKept, operationStates
    <3>2. CASE ~CanTransition(state, "ROLLBACK")
      <4>1. PICK next \in {"VALIDATE", "PLAN", "LOCK", "PROTECT"} :
                CanTransition(state, next)
        BY <2>0, <2>6, <3>2, Successors DEF RequestInv, cancellable
      <4>2. next \in operationStates
        BY DEF operationStates
      <4> QED
        BY <2>3, <2>6, <3>2, <4>1, <4>2, RollbackAhead
        DEF PendingHonored, RouteKept
    <3> QED
      BY <3>1, <3>2
  <2> QED
    BY <2>0, <2>4, <2>5, <2>6 DEF TypeOK
<1> QED
  BY <1>1, JournalInvariant, PTL
-----------------------------------------------------------------------------
\* ValidateJournal implements the abstract lifecycle: each accepted entry is
\* a lifecycle move, an observation, or nothing.
THEOREM JournalImplementsLifecycle == Spec => LifecycleSpec
<1>1. Init => Lifecycle!Init
  BY DEF Init, Lifecycle!Init
<1>2. JournalInv /\ [Next]_journalVars
          => [Lifecycle!Next]_(Lifecycle!lifecycleVars)
  <2> SUFFICES ASSUME JournalInv, [Next]_journalVars
               PROVE  [Lifecycle!Next]_(Lifecycle!lifecycleVars)
    OBVIOUS
  <2>0. TypeOK /\ evidence = mutationMayHaveOccurred
    BY DEF JournalInv, MutationInv
  <2>1. ASSUME NEW t \in Times, AcceptInitialTransition(t)
        PROVE  Lifecycle!Begin
    BY <2>1 DEF AcceptInitialTransition, Lifecycle!Begin
  <2>2. ASSUME NEW next \in operationStates, NEW t \in Times,
               NEW pause \in pauses \cup {NoPause},
               AcceptTransition(next, t, pause)
        PROVE  Lifecycle!Move(next)
    <3>1. /\ state \in operationStates /\ CanTransition(state, next)
          /\ next = "CANCELLED" => ~evidence
          /\ state' = next
      BY <2>0, <2>2 DEF AcceptTransition, TransitionAccepted, TypeOK
    <3>2. evidence' \in {evidence, TRUE}
      <4>1. CASE next = "PAUSED"
        <5>1. pause.mutationOccurred \in BOOLEAN
          BY <2>2, <4>1 DEF AcceptTransition, pauses
        <5>2. evidence' = (evidence \/ pause.mutationOccurred)
          BY <2>2, <4>1 DEF AcceptTransition
        <5>3. evidence \in BOOLEAN
          BY <2>0 DEF TypeOK
        <5> QED
          BY <5>1, <5>2, <5>3, Zenon
      <4>2. CASE next # "PAUSED"
        BY <2>2, <4>2 DEF AcceptTransition
      <4> QED
        BY <4>1, <4>2
    <3>3. evidence' # evidence => next = "PAUSED"
      BY <2>2 DEF AcceptTransition
    <3> QED
      BY <3>1, <3>2, <3>3
      DEF Lifecycle!Move, Lifecycle!CanTransition, Lifecycle!transitions,
          Lifecycle!operationStates, Lifecycle!terminalOperationStates,
          CanTransition, transitions, operationStates, terminalOperationStates
  <2>3. ASSUME NEW id \in StepIDs, NEW outcome \in stepOutcomes,
               NEW startedAt \in Times, NEW t \in Times,
               NEW ended \in BOOLEAN, NEW mutated \in BOOLEAN,
               AcceptStep(id, outcome, startedAt, ended, mutated, t)
        PROVE  Lifecycle!Observe
    <3>1. /\ state \in operationStates /\ ~Terminal(state) /\ state' = state
      BY <2>0, <2>3 DEF AcceptStep, EntryFollows, TypeOK
    <3>2. evidence' \in {evidence, TRUE}
      <4>1. evidence \in BOOLEAN
        BY <2>0 DEF TypeOK
      <4>2. evidence' = (evidence \/ mutated \/ outcome = "UNKNOWN")
        BY <2>3 DEF AcceptStep
      <4> QED
        BY <4>1, <4>2, Zenon
    <3> QED
      BY <3>1, <3>2
      DEF Lifecycle!Observe, Lifecycle!Terminal, Lifecycle!operationStates,
          Lifecycle!terminalOperationStates, Terminal, operationStates,
          terminalOperationStates
  <2>4. ASSUME NEW id \in StepIDs, NEW observation \in mutationObservations,
               NEW t \in Times, AcceptRequest(id, observation, t)
        PROVE  Lifecycle!Observe
    <3>1. /\ state \in operationStates /\ ~Terminal(state) /\ state' = state
      BY <2>0, <2>4 DEF AcceptRequest, EntryFollows, TypeOK
    <3>2. evidence' \in {evidence, TRUE}
      <4>1. evidence \in BOOLEAN
        BY <2>0 DEF TypeOK
      <4>2. evidence' = (evidence \/ observation # "not-occurred")
        BY <2>4 DEF AcceptRequest
      <4> QED
        BY <4>1, <4>2, Zenon
    <3> QED
      BY <3>1, <3>2
      DEF Lifecycle!Observe, Lifecycle!Terminal, Lifecycle!operationStates,
          Lifecycle!terminalOperationStates, Terminal, operationStates,
          terminalOperationStates
  <2>5. CASE UNCHANGED journalVars
    BY <2>5 DEF journalVars, pendingVars, ghostVars, Lifecycle!lifecycleVars
  <2>6. operationStates = Lifecycle!operationStates
    BY DEF operationStates, terminalOperationStates,
           Lifecycle!operationStates, Lifecycle!terminalOperationStates
  <2> QED
    BY <2>1, <2>2, <2>3, <2>4, <2>5, <2>6
    DEF Next, AcceptSomeTransition, AcceptSomeStep, AcceptSomeRequest,
        Lifecycle!Next
<1> QED
  BY <1>1, <1>2, JournalInvariant, PTL DEF Spec, LifecycleSpec, Lifecycle!Spec
==============================================================================
