------------------------------ MODULE Harness ------------------------------
(***************************************************************************)
(* The durable state of the test harness (isolation/state.go) and the      *)
(* admission of harness actions against it (isolation/admission.go).       *)
(*                                                                         *)
(* A state object is immutable: each operation takes the state an actor    *)
(* read earlier, checks it, and seals a new one, which the actor writes    *)
(* with the generation it read as the precondition.  Actors hold their     *)
(* evidence for any time before they use it, so every transition may meet  *)
(* a state and a clock other than the ones it was prepared for.            *)
(*                                                                         *)
(* The immutable part of the payload (project, manifest, plan, operation,  *)
(* envelope, resources, cleanup capabilities) is one value, Binding; the   *)
(* approval window and the two step lists are the constants below.  Times  *)
(* are naturals and 0 is the zero time.                                    *)
(***************************************************************************)
EXTENDS Clock

CONSTANTS
    Actors,             \* processes that observe the harness, write its state, ask for admission
    Revisions,          \* fingerprints of complete observations
    Binding, Foreign,   \* the approved plan, operation and envelope; any other value
    BootstrapSteps, RollbackSteps, StepIDs,
    ApprovedAt, ApprovalValidUntil,
    MaxT8EvidenceLifetime,
    MaxWrites           \* bound of the store's generation

ASSUME HarnessAssumption ==
    /\ ApprovedAt \in Nat \ {0} /\ ApprovalValidUntil \in Nat
    /\ ApprovedAt < ApprovalValidUntil
    /\ MaxT8EvidenceLifetime \in Nat \ {0} /\ MaxWrites \in Nat
    /\ Revisions # {}
    /\ BootstrapSteps \subseteq StepIDs /\ RollbackSteps \subseteq StepIDs

VARIABLES
    sound,      \* external: whether the harness is as planned at this moment
    store,      \* external: the state object and its generation
    copy,       \* what each actor last read of it
    evidence,   \* the observation each actor holds
    lastDrift,  \* the latest drift the store ever recorded (history)
    refused     \* whether the seal ever refused a transition's state (history)

harnessVars == <<now, sound, store, copy, evidence, lastDrift, refused>>

NoEvidence == [kind |-> "none", revision |-> CHOOSE r \in Revisions : TRUE,
               observedAt |-> 0, validUntil |-> 0]
Evidence == [kind : {"none", "t8", "drift"}, revision : Revisions,
             observedAt : Nat, validUntil : Nat]

\* Pending -> Open is the only change of phase; drift changes usability only.
Payload == [phase : {"pending", "open"}, usability : {"unusable", "usable"},
            openedAt : Nat, t8 : Evidence, drift : Evidence]

NewPendingHarnessState ==
    [phase |-> "pending", usability |-> "unusable", openedAt |-> 0,
     t8 |-> NoEvidence, drift |-> NoEvidence]

HarnessActions == {"bootstrap-step", "rollback-step", "test-i", "test-d",
                   "unrelated-mutation"}
HarnessRequests == [action : HarnessActions, wfTest : BOOLEAN,
                    binding : {Binding, Foreign},
                    step : StepIDs, revision : Revisions \cup {Foreign}]

----------------------------------------------------------------------------
(* The checks on evidence and on a payload *)

validateUTCWindow(start, end, maximum) ==
    /\ start # 0 /\ end # 0 /\ start < end
    /\ maximum > 0 => end - start <= maximum

validateT8Evidence(e) ==
    /\ e.kind = "t8"
    /\ validateUTCWindow(e.observedAt, e.validUntil, MaxT8EvidenceLifetime)

isFreshAt(observedAt, validUntil, time) == observedAt <= time /\ time < validUntil

InApprovalWindow(t) == ApprovedAt <= t /\ t < ApprovalValidUntil

\* What a sealed or decoded payload must satisfy.
validatePayload(p) ==
    \/ /\ p.phase = "pending" /\ p.usability = "unusable"
       /\ p.openedAt = 0 /\ p.t8 = NoEvidence /\ p.drift = NoEvidence
    \/ /\ p.phase = "open"
       /\ validateT8Evidence(p.t8)
       /\ p.openedAt # 0 /\ InApprovalWindow(p.openedAt)
       /\ IF p.usability = "usable"
             THEN p.drift = NoEvidence
             ELSE p.drift.kind = "drift" /\ p.t8.observedAt < p.drift.observedAt

----------------------------------------------------------------------------
(* The four transitions of a state: their guard and the payload they seal *)

CanOpen(p, e, time) ==
    /\ p.phase = "pending"
    /\ validateT8Evidence(e)
    /\ isFreshAt(e.observedAt, e.validUntil, time)
    /\ InApprovalWindow(time) /\ InApprovalWindow(e.observedAt)

OpenAfterT8(p, e, time) ==
    [p EXCEPT !.phase = "open", !.openedAt = time, !.usability = "usable", !.t8 = e]

NewerThanT8(p, e) ==
    e.kind = "drift" /\ p.t8.kind = "t8" /\ p.t8.observedAt < e.observedAt

AdvancesDrift(p, e) ==
    p.usability = "unusable" =>
        p.drift.kind = "drift" /\ (e = p.drift \/ p.drift.observedAt < e.observedAt)

CanMarkUnusable(p, e) == p.phase = "open" /\ NewerThanT8(p, e) /\ AdvancesDrift(p, e)

MarkTestsUnusable(p, e) == [p EXCEPT !.usability = "unusable", !.drift = e]

NewerThanDriftMutant(p, e) == p.drift.kind = "drift"
NewerThanDrift(p, e) == p.drift.kind = "drift" /\ p.drift.observedAt < e.observedAt

CanRestore(p, e, time) ==
    /\ p.phase = "open"
    /\ validateT8Evidence(e)
    /\ isFreshAt(e.observedAt, e.validUntil, time)
    /\ p.usability = "unusable" /\ NewerThanDrift(p, e)

RestoreTestsUsableMutant(p, e) == [p EXCEPT !.usability = "usable", !.t8 = e]
RestoreTestsUsable(p, e) ==
    [p EXCEPT !.usability = "usable", !.t8 = e, !.drift = NoEvidence]

CanRenew(p, e, time) ==
    /\ p.phase = "open" /\ p.usability = "usable" /\ p.t8.kind = "t8"
    /\ validateT8Evidence(e)
    /\ isFreshAt(e.observedAt, e.validUntil, time)
    /\ p.t8.observedAt < e.observedAt

RenewT8(p, e) == [p EXCEPT !.t8 = e]

----------------------------------------------------------------------------
(* Admission of one action against a state and the trusted expectation *)

\* The expectation is the caller's own observation of the durable object: the
\* state is refused unless every field agrees with it.
validateHarnessExpectationMutant(p, expected) == p.phase = expected.phase
validateHarnessExpectation(p, expected) == p = expected

admitPendingHarnessAction(req, time) ==
    /\ req.action \in {"bootstrap-step", "rollback-step"}
    /\ req.wfTest /\ req.binding = Binding
    /\ req.step \in IF req.action = "rollback-step" THEN RollbackSteps ELSE BootstrapSteps
    /\ ApprovedAt <= time
    /\ req.action = "bootstrap-step" => time < ApprovalValidUntil

admitOpenHarnessAction(p, req, time) ==
    \/ /\ req.action \in {"test-i", "test-d"}
       /\ p.usability = "usable"
       /\ isFreshAt(p.t8.observedAt, p.t8.validUntil, time)
       /\ req.revision = p.t8.revision
    \/ req.action = "unrelated-mutation"
    \/ req.action \in {"bootstrap-step", "rollback-step"} /\ req.wfTest

AdmitHarnessAction(p, expected, req, time) ==
    /\ validatePayload(p)
    /\ validateHarnessExpectation(p, expected)
    /\ IF p.phase = "pending" THEN admitPendingHarnessAction(req, time)
                              ELSE admitOpenHarnessAction(p, req, time)

----------------------------------------------------------------------------
(* The behaviour *)

NoCopy == [gen |-> 0, state |-> NewPendingHarnessState]

HarnessInit ==
    /\ ClockInit
    /\ sound = FALSE
    /\ store = [gen |-> 1, state |-> NewPendingHarnessState]
    /\ copy = [a \in Actors |-> NoCopy]
    /\ evidence = [a \in Actors |-> NoEvidence]
    /\ lastDrift = 0 /\ refused = FALSE

HarnessTick ==
    /\ Tick
    /\ UNCHANGED <<sound, store, copy, evidence, lastDrift, refused>>

\* Bootstrap completes, somebody changes a resource, somebody repairs it.
HarnessChanges ==
    /\ sound' = ~sound
    /\ UNCHANGED <<now, store, copy, evidence, lastDrift, refused>>

\* A complete TEST-ISO run succeeds or finds drift.
Observe(a, r, until) ==
    /\ evidence' = [evidence EXCEPT ![a] =
           [kind |-> IF sound THEN "t8" ELSE "drift", revision |-> r,
            observedAt |-> now, validUntil |-> IF sound THEN until ELSE 0]]
    /\ UNCHANGED <<now, sound, store, copy, lastDrift, refused>>

Read(a) ==
    /\ copy' = [copy EXCEPT ![a] = store]
    /\ UNCHANGED <<now, sound, store, evidence, lastDrift, refused>>

\* A transition ends with the seal, which gives no state that could not be
\* read back.  The write of a sealed one carries the generation that was read;
\* one that lost the race changes nothing, and the actor must read again.
Write(a, p) ==
    LET sealed == validatePayload(p)
        written == sealed /\ store.gen = copy[a].gen
    IN  /\ copy[a].gen # 0 /\ store.gen < MaxWrites
        /\ refused' = (refused \/ ~sealed)
        /\ store' = IF written THEN [gen |-> store.gen + 1, state |-> p] ELSE store
        /\ copy' = [copy EXCEPT ![a] = NoCopy]
        /\ lastDrift' = IF written /\ p.drift.observedAt > lastDrift
                           THEN p.drift.observedAt ELSE lastDrift
        /\ UNCHANGED <<now, sound, evidence>>

Open(a) ==
    /\ CanOpen(copy[a].state, evidence[a], now)
    /\ Write(a, OpenAfterT8(copy[a].state, evidence[a], now))

MarkUnusable(a) ==
    /\ CanMarkUnusable(copy[a].state, evidence[a])
    /\ Write(a, MarkTestsUnusable(copy[a].state, evidence[a]))

Restore(a) ==
    /\ CanRestore(copy[a].state, evidence[a], now)
    /\ Write(a, RestoreTestsUsable(copy[a].state, evidence[a]))

Renew(a) ==
    /\ CanRenew(copy[a].state, evidence[a], now)
    /\ Write(a, RenewT8(copy[a].state, evidence[a]))

\* An admission decides and changes nothing: any actor may ask at any time,
\* with the state it read and the store as the trusted expectation.
Admitted(a, req) ==
    copy[a].gen # 0 /\ AdmitHarnessAction(copy[a].state, store.state, req, now)

HarnessNext ==
    \/ HarnessTick
    \/ HarnessChanges
    \/ \E a \in Actors :
           \/ \E r \in Revisions, until \in (now + 1)..(now + MaxT8EvidenceLifetime) :
                  Observe(a, r, until)
           \/ Read(a)
           \/ Open(a) \/ MarkUnusable(a) \/ Restore(a) \/ Renew(a)

HarnessSpec == HarnessInit /\ [][HarnessNext]_harnessVars

----------------------------------------------------------------------------
(* Properties *)

HarnessTypeOK ==
    /\ ClockTypeOK /\ sound \in BOOLEAN /\ lastDrift \in Nat /\ refused \in BOOLEAN
    /\ store \in [gen : Nat \ {0}, state : Payload]
    /\ copy \in [Actors -> [gen : Nat, state : Payload]]
    /\ evidence \in [Actors -> Evidence]

\* Whatever evidence an actor held back and whatever state it had read: if the
\* conditions of a transition hold, the seal accepts what the transition makes.
\* No sequence of the four leads to a state in which a drift cannot be recorded
\* or a repair cannot be acknowledged, because the result would be unreadable.
TransitionsSeal == ~refused

\* A drift that was ever recorded is answered only by a T8 observed after it:
\* no stale T8, late writer or renewal makes the tests usable again.
DriftIsAnswered ==
    store.state.usability = "usable" => lastDrift < store.state.t8.observedAt

\* The harness opens once: afterwards it is open, opened at the same time, and
\* its T8 evidence and drift boundary never move back.
OpensOnce ==
    [][store.state.phase = "open" =>
          /\ store'.state.phase = "open"
          /\ store'.state.openedAt = store.state.openedAt
          /\ store.state.t8.observedAt <= store'.state.t8.observedAt
          /\ store'.state.usability = "unusable" =>
                 store.state.drift.observedAt <= store'.state.drift.observedAt]_harnessVars

\* Whoever reads the state sees a verdict that only newer observations change:
\* the transitions, with writers that lose the race and evidence of any age,
\* implement it.
Reading == INSTANCE HarnessVerdict WITH
    verdict <- IF store.state.phase = "pending" THEN "pending" ELSE store.state.usability,
    at <- IF store.state.phase = "pending" THEN 0
          ELSE IF store.state.usability = "usable" THEN store.state.t8.observedAt
          ELSE store.state.drift.observedAt,
    opened <- store.state.openedAt
VerdictsOnlyAdvance == Reading!Spec

\* A test is admitted only while the store says usable, within the lifetime of
\* a T8 that is newer than every recorded drift, and names that T8.
TestsRunOnLiveEvidence ==
    \A a \in Actors, req \in {r \in HarnessRequests : r.action \in {"test-i", "test-d"}} :
        Admitted(a, req) =>
            /\ store.state.usability = "usable"
            /\ lastDrift < store.state.t8.observedAt
            /\ store.state.t8.observedAt <= now
            /\ now < store.state.t8.observedAt + MaxT8EvidenceLifetime
            /\ req.revision = store.state.t8.revision

\* Until the first T8 succeeds only the approved envelope's own steps are
\* admitted, each from its own list: forward ones inside the approval window,
\* compensation also after it.
BlockadeUntilT8 ==
    store.state.phase = "pending" => \A a \in Actors, req \in HarnessRequests :
        Admitted(a, req) =>
            /\ req.binding = Binding
            /\ \/ /\ req.action = "bootstrap-step"
                  /\ req.step \in BootstrapSteps /\ InApprovalWindow(now)
               \/ /\ req.action = "rollback-step"
                  /\ req.step \in RollbackSteps /\ ApprovedAt <= now
=============================================================================
