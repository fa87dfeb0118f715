--------------------------- MODULE IsolationProofs ---------------------------
(***************************************************************************)
(* Proofs about the harness state and the admission against it, for any    *)
(* actors, revisions, approval window, evidence lifetime and bounds, and   *)
(* about a run's mutations and their cleanup, for any plans, policy,       *)
(* lifetime records and whatever others change meanwhile.                  *)
(***************************************************************************)
EXTENDS Harness, MutationBoundary, TLAPS

----------------------------------------------------------------------------
(* Types *)

LEMMA NoEvidenceTyped == NoEvidence \in Evidence
<1>1. (CHOOSE r \in Revisions : TRUE) \in Revisions
  BY HarnessAssumption DEF HarnessAssumption
<1>. QED
  BY <1>1 DEF NoEvidence, Evidence

LEMMA PendingTyped == NewPendingHarnessState \in Payload
BY NoEvidenceTyped DEF NewPendingHarnessState, Payload

LEMMA ClockTyped ==
    ASSUME HarnessTypeOK
    PROVE  now \in Nat /\ now # 0
BY ClockAssumption DEF HarnessTypeOK, ClockTypeOK, ClockAssumption

\* A write keeps the types if the payload it seals is one.
LEMMA WriteTyped ==
    ASSUME HarnessTypeOK, NEW a \in Actors, NEW p \in Payload, Write(a, p)
    PROVE  HarnessTypeOK'
<1>1. p.drift.observedAt \in Nat
  BY DEF Payload, Evidence
<1>2. lastDrift' \in Nat
  BY <1>1 DEF Write, HarnessTypeOK
<1>3. store' \in [gen : Nat \ {0}, state : Payload]
  <2>1. CASE store.gen = copy[a].gen
    BY <2>1 DEF Write, HarnessTypeOK
  <2>2. CASE store.gen # copy[a].gen
    BY <2>2 DEF Write, HarnessTypeOK
  <2>. QED
    BY <2>1, <2>2
<1>4. copy' \in [Actors -> [gen : Nat, state : Payload]]
  BY PendingTyped DEF Write, HarnessTypeOK, NoCopy
<1>. QED
  BY <1>2, <1>3, <1>4, Zenon DEF Write, HarnessTypeOK, ClockTypeOK

\* Each transition of a payload seals a payload.
LEMMA TransitionsTyped ==
    ASSUME NEW p \in Payload, NEW e \in Evidence, NEW t \in Nat
    PROVE  /\ OpenAfterT8(p, e, t) \in Payload
           /\ MarkTestsUnusable(p, e) \in Payload
           /\ RestoreTestsUsable(p, e) \in Payload
           /\ RenewT8(p, e) \in Payload
BY NoEvidenceTyped
   DEF OpenAfterT8, MarkTestsUnusable, RestoreTestsUsable, RenewT8, Payload

LEMMA ObserveTyped ==
    ASSUME HarnessTypeOK, NEW a \in Actors, NEW r \in Revisions,
           NEW until \in (now + 1)..(now + MaxT8EvidenceLifetime),
           Observe(a, r, until)
    PROVE  HarnessTypeOK'
<1>1. now \in Nat /\ until \in Nat
  BY ClockTyped, HarnessAssumption DEF HarnessAssumption
<1>. DEFINE e == [kind |-> IF sound THEN "t8" ELSE "drift", revision |-> r,
                  observedAt |-> now, validUntil |-> IF sound THEN until ELSE 0]
<1>2. e \in Evidence
  BY <1>1 DEF Evidence
<1>3. evidence' = [evidence EXCEPT ![a] = e]
  BY DEF Observe
<1>. HIDE DEF e
<1>4. evidence' \in [Actors -> Evidence]
  BY <1>2, <1>3 DEF HarnessTypeOK
<1>. QED
  BY <1>4 DEF Observe, HarnessTypeOK, ClockTypeOK

LEMMA TypeStep ==
    ASSUME HarnessTypeOK, [HarnessNext]_harnessVars
    PROVE  HarnessTypeOK'
<1>1. CASE HarnessTick
  BY <1>1, ClockAssumption
     DEF HarnessTick, Tick, HarnessTypeOK, ClockTypeOK, ClockAssumption
<1>2. CASE HarnessChanges
  BY <1>2 DEF HarnessChanges, HarnessTypeOK, ClockTypeOK
<1>3. ASSUME NEW a \in Actors, NEW r \in Revisions,
             NEW until \in (now + 1)..(now + MaxT8EvidenceLifetime),
             Observe(a, r, until)
      PROVE  HarnessTypeOK'
  BY <1>3, ObserveTyped
<1>4. ASSUME NEW a \in Actors, Read(a)
      PROVE  HarnessTypeOK'
  BY <1>4 DEF Read, HarnessTypeOK, ClockTypeOK
<1>5. ASSUME NEW a \in Actors
      PROVE  copy[a].state \in Payload /\ evidence[a] \in Evidence
  BY <1>5 DEF HarnessTypeOK
<1>6. ASSUME NEW a \in Actors, Open(a) \/ MarkUnusable(a) \/ Restore(a) \/ Renew(a)
      PROVE  HarnessTypeOK'
  <2>. DEFINE p == copy[a].state
              e == evidence[a]
  <2>1. /\ OpenAfterT8(p, e, now) \in Payload
        /\ MarkTestsUnusable(p, e) \in Payload
        /\ RestoreTestsUsable(p, e) \in Payload
        /\ RenewT8(p, e) \in Payload
    BY <1>5, <1>6, ClockTyped, TransitionsTyped
  <2>2. PICK q \in Payload : Write(a, q)
    BY <1>6, <2>1 DEF Open, MarkUnusable, Restore, Renew
  <2>. QED
    BY <1>6, <2>2, WriteTyped
<1>7. CASE UNCHANGED harnessVars
  BY <1>7 DEF harnessVars, HarnessTypeOK, ClockTypeOK
<1>. QED
  BY <1>1, <1>2, <1>3, <1>4, <1>6, <1>7 DEF HarnessNext

\* The variables keep their types: the states and copies are payloads and the
\* actors' evidence is what an observation can produce.
THEOREM HarnessTyped == HarnessSpec => []HarnessTypeOK
<1>1. ASSUME HarnessInit
      PROVE  HarnessTypeOK
  <2>1. NoCopy \in [gen : Nat, state : Payload]
    BY PendingTyped DEF NoCopy
  <2>2. copy \in [Actors -> [gen : Nat, state : Payload]]
    BY <1>1, <2>1 DEF HarnessInit
  <2>3. store \in [gen : Nat \ {0}, state : Payload]
    BY <1>1, PendingTyped DEF HarnessInit
  <2>4. evidence \in [Actors -> Evidence]
    BY <1>1, NoEvidenceTyped DEF HarnessInit
  <2>5. ClockTypeOK
    BY <1>1, ClockAssumption DEF HarnessInit, ClockInit, ClockTypeOK, ClockAssumption
  <2>. QED
    BY <1>1, <2>2, <2>3, <2>4, <2>5 DEF HarnessInit, HarnessTypeOK
<1>. QED
  BY <1>1, TypeStep, PTL DEF HarnessSpec

----------------------------------------------------------------------------
(* The inductive invariant *)

\* A read object is the store's, or an older generation of it.
ReadInv ==
    \A a \in Actors : copy[a].gen # 0 =>
        /\ copy[a].gen <= store.gen
        /\ copy[a].gen = store.gen => copy[a].state = store.state

\* The state says at least as much about drift as was ever recorded: nothing
\* before the first T8, then a T8 that is newer or a drift that is not older.
DriftInv ==
    /\ store.state.phase = "pending" => lastDrift = 0
    /\ store.state.phase = "open" =>
          IF store.state.usability = "usable"
             THEN lastDrift < store.state.t8.observedAt
             ELSE lastDrift <= store.state.drift.observedAt

\* The object in the store is one the strict decoder accepts.
StoreStaysReadable == validatePayload(store.state)

HarnessInv == StoreStaysReadable /\ ReadInv /\ DriftInv

\* What a state must be for a write of it to keep the invariant, and what the
\* state it replaces keeps of itself (OpensOnce).
Succeeds(p, old) ==
    /\ validatePayload(p)
    /\ p.phase = "open"
    /\ p.usability = "usable" =>
          lastDrift < p.t8.observedAt /\ p.drift.observedAt = 0
    /\ p.usability = "unusable" => lastDrift <= p.drift.observedAt
    /\ old.phase = "open" =>
          /\ p.openedAt = old.openedAt
          /\ old.t8.observedAt <= p.t8.observedAt
          /\ p.usability = "unusable" => old.drift.observedAt <= p.drift.observedAt

\* Each transition, applied to the state in the store, seals a successor of it.
LEMMA OpenSucceeds ==
    ASSUME HarnessTypeOK, HarnessInv, NEW e \in Evidence,
           CanOpen(store.state, e, now)
    PROVE  Succeeds(OpenAfterT8(store.state, e, now), store.state)
<1>. DEFINE p == store.state
<1>1. p \in Payload /\ lastDrift \in Nat
  BY DEF HarnessTypeOK
<1>2. /\ p.phase = "pending" /\ p.drift = NoEvidence /\ lastDrift = 0
      /\ validateT8Evidence(e) /\ InApprovalWindow(now)
  BY DEF HarnessInv, StoreStaysReadable, DriftInv, CanOpen, validatePayload
<1>3. e.observedAt # 0 /\ e.observedAt \in Nat
  BY <1>2 DEF validateT8Evidence, validateUTCWindow, Evidence
<1>4. NoEvidence.observedAt = 0
  BY DEF NoEvidence
<1>. QED
  BY <1>1, <1>2, <1>3, <1>4, ClockTyped
     DEF Succeeds, OpenAfterT8, validatePayload, Payload

LEMMA MarkSucceeds ==
    ASSUME HarnessTypeOK, HarnessInv, NEW e \in Evidence,
           CanMarkUnusable(store.state, e)
    PROVE  Succeeds(MarkTestsUnusable(store.state, e), store.state)
<1>. DEFINE p == store.state
<1>1. p \in Payload /\ lastDrift \in Nat
  BY DEF HarnessTypeOK
<1>2. p.t8 \in Evidence /\ p.drift \in Evidence
  BY <1>1 DEF Payload
<1>3. /\ p.t8.observedAt \in Nat /\ p.drift.observedAt \in Nat
      /\ e.observedAt \in Nat
  BY <1>2 DEF Evidence
<1>4. /\ p.phase = "open" /\ validateT8Evidence(p.t8)
      /\ p.openedAt # 0 /\ InApprovalWindow(p.openedAt)
      /\ e.kind = "drift" /\ p.t8.observedAt < e.observedAt
  BY DEF HarnessInv, StoreStaysReadable, CanMarkUnusable, NewerThanT8, validatePayload
<1>5. p.usability \in {"usable", "unusable"}
  BY <1>1 DEF Payload
<1>6. NoEvidence.observedAt = 0
  BY DEF NoEvidence
<1>7. p.usability = "usable" => p.drift.observedAt = 0
  BY <1>4, <1>6 DEF HarnessInv, StoreStaysReadable, validatePayload
<1>8. lastDrift <= e.observedAt /\ p.drift.observedAt <= e.observedAt
  <2>1. CASE p.usability = "usable"
    BY <1>1, <1>3, <1>4, <1>7, <2>1 DEF HarnessInv, DriftInv
  <2>2. CASE p.usability = "unusable"
    BY <1>1, <1>3, <1>4, <2>2
       DEF HarnessInv, DriftInv, CanMarkUnusable, AdvancesDrift
  <2>. QED
    BY <1>5, <2>1, <2>2
<1>. QED
  BY <1>1, <1>3, <1>4, <1>8 DEF Succeeds, MarkTestsUnusable, validatePayload, Payload

LEMMA RestoreSucceeds ==
    ASSUME HarnessTypeOK, HarnessInv, NEW e \in Evidence,
           CanRestore(store.state, e, now)
    PROVE  Succeeds(RestoreTestsUsable(store.state, e), store.state)
<1>. DEFINE p == store.state
<1>1. p \in Payload /\ lastDrift \in Nat
  BY DEF HarnessTypeOK
<1>2. p.t8 \in Evidence /\ p.drift \in Evidence
  BY <1>1 DEF Payload
<1>3. /\ p.t8.observedAt \in Nat /\ p.drift.observedAt \in Nat
      /\ e.observedAt \in Nat
  BY <1>2 DEF Evidence
<1>4. /\ p.phase = "open" /\ p.openedAt # 0 /\ InApprovalWindow(p.openedAt)
      /\ p.usability = "unusable" /\ validateT8Evidence(e)
      /\ p.t8.observedAt < p.drift.observedAt
      /\ p.drift.observedAt < e.observedAt
      /\ lastDrift <= p.drift.observedAt
  BY DEF HarnessInv, StoreStaysReadable, DriftInv, CanRestore, NewerThanDrift,
         validatePayload
<1>5. NoEvidence.observedAt = 0
  BY DEF NoEvidence
<1>. QED
  BY <1>1, <1>3, <1>4, <1>5 DEF Succeeds, RestoreTestsUsable, validatePayload, Payload

LEMMA RenewSucceeds ==
    ASSUME HarnessTypeOK, HarnessInv, NEW e \in Evidence,
           CanRenew(store.state, e, now)
    PROVE  Succeeds(RenewT8(store.state, e), store.state)
<1>. DEFINE p == store.state
<1>1. p \in Payload /\ lastDrift \in Nat
  BY DEF HarnessTypeOK
<1>2. p.t8 \in Evidence
  BY <1>1 DEF Payload
<1>3. p.t8.observedAt \in Nat /\ e.observedAt \in Nat
  BY <1>2 DEF Evidence
<1>4. /\ p.phase = "open" /\ p.openedAt # 0 /\ InApprovalWindow(p.openedAt)
      /\ p.usability = "usable" /\ p.drift = NoEvidence
      /\ validateT8Evidence(e)
      /\ p.t8.observedAt < e.observedAt
      /\ lastDrift < p.t8.observedAt
  BY DEF HarnessInv, StoreStaysReadable, DriftInv, CanRenew, validatePayload
<1>5. NoEvidence.observedAt = 0
  BY DEF NoEvidence
<1>. QED
  BY <1>1, <1>3, <1>4, <1>5 DEF Succeeds, RenewT8, validatePayload, Payload

\* What OpensOnce says of one step.
Kept ==
    store.state.phase = "open" =>
        /\ store'.state.phase = "open"
        /\ store'.state.openedAt = store.state.openedAt
        /\ store.state.t8.observedAt <= store'.state.t8.observedAt
        /\ store'.state.usability = "unusable" =>
               store.state.drift.observedAt <= store'.state.drift.observedAt

LEMMA UnchangedKept ==
    ASSUME HarnessTypeOK, store' = store
    PROVE  Kept
<1>1. store.state \in Payload
  BY DEF HarnessTypeOK
<1>2. store.state.t8.observedAt \in Nat /\ store.state.drift.observedAt \in Nat
  BY <1>1 DEF Payload, Evidence
<1>. QED
  BY <1>2 DEF Kept

\* A write that meets the generation it read replaces the state by a successor
\* of it; any other write changes nothing but the copy.
LEMMA WriteKeeps ==
    ASSUME HarnessTypeOK, HarnessInv, NEW a \in Actors, NEW p \in Payload,
           Write(a, p),
           store.gen = copy[a].gen => Succeeds(p, store.state)
    PROVE  HarnessInv' /\ Kept
<1>1. /\ store.gen \in Nat \ {0} /\ store.state \in Payload /\ lastDrift \in Nat
      /\ \A b \in Actors : copy[b].gen \in Nat
  BY DEF HarnessTypeOK
<1>2. \A b \in Actors : copy'[b] = IF b = a THEN NoCopy ELSE copy[b]
  BY DEF Write, HarnessTypeOK
<1>3. CASE store.gen = copy[a].gen
  <2>2. Succeeds(p, store.state)
    BY <1>3
  <2>1. store'.gen = store.gen + 1 /\ store'.state = p
    BY <1>3, <2>2 DEF Write, Succeeds
  <2>3. StoreStaysReadable'
    BY <2>1, <2>2 DEF Succeeds, StoreStaysReadable, validatePayload, validateT8Evidence,
       validateUTCWindow, InApprovalWindow
  <2>4. ReadInv'
    BY <1>1, <1>2, <2>1 DEF HarnessInv, ReadInv, NoCopy
  <2>5. DriftInv'
    <3>1. p.drift.observedAt \in Nat /\ p.usability \in {"usable", "unusable"}
      BY DEF Payload, Evidence
    <3>2. lastDrift' = IF p.drift.observedAt > lastDrift
                          THEN p.drift.observedAt ELSE lastDrift
      BY <1>3, <2>2 DEF Write, Succeeds
    <3>. QED
      BY <1>1, <2>1, <2>2, <3>1, <3>2 DEF Succeeds, DriftInv
  <2>6. Kept
    BY <2>1, <2>2 DEF Succeeds, Kept
  <2>. QED
    BY <2>3, <2>4, <2>5, <2>6 DEF HarnessInv
<1>4. CASE store.gen # copy[a].gen
  <2>1. store' = store /\ lastDrift' = lastDrift
    BY <1>4 DEF Write
  <2>2. ReadInv'
    BY <1>1, <1>2, <2>1 DEF HarnessInv, ReadInv, NoCopy
  <2>3. StoreStaysReadable' /\ DriftInv'
    BY <2>1 DEF HarnessInv, StoreStaysReadable, DriftInv, validatePayload,
       validateT8Evidence, validateUTCWindow, InApprovalWindow
  <2>. QED
    BY <2>1, <2>2, <2>3, UnchangedKept DEF HarnessInv
<1>. QED
  BY <1>3, <1>4

\* A step that leaves the store and the recorded drift alone, and reads at most.
LEMMA OthersKeep ==
    ASSUME HarnessTypeOK, HarnessInv, UNCHANGED <<store, lastDrift>>,
           \A a \in Actors : copy'[a] = copy[a] \/ copy'[a] = store
    PROVE  HarnessInv' /\ Kept
<1>1. store.gen \in Nat
  BY DEF HarnessTypeOK
<1>2. ReadInv'
  BY <1>1 DEF HarnessInv, ReadInv
<1>3. StoreStaysReadable' /\ DriftInv'
  BY DEF HarnessInv, StoreStaysReadable, DriftInv, validatePayload,
     validateT8Evidence, validateUTCWindow, InApprovalWindow
<1>. QED
  BY <1>2, <1>3, UnchangedKept DEF HarnessInv

LEMMA HarnessStep ==
    ASSUME HarnessTypeOK, HarnessInv, [HarnessNext]_harnessVars
    PROVE  HarnessInv' /\ Kept
<1>1. CASE HarnessTick \/ HarnessChanges \/ UNCHANGED harnessVars
  BY <1>1, OthersKeep DEF HarnessTick, HarnessChanges, harnessVars
<1>2. ASSUME NEW a \in Actors, NEW r \in Revisions,
             NEW until \in (now + 1)..(now + MaxT8EvidenceLifetime),
             Observe(a, r, until)
      PROVE  HarnessInv' /\ Kept
  BY <1>2, OthersKeep DEF Observe
<1>3. ASSUME NEW a \in Actors, Read(a)
      PROVE  HarnessInv' /\ Kept
  <2>1. \A b \in Actors : copy'[b] = copy[b] \/ copy'[b] = store
    BY <1>3 DEF Read, HarnessTypeOK
  <2>. QED
    BY <1>3, <2>1, OthersKeep DEF Read
<1>4. ASSUME NEW a \in Actors, Open(a) \/ MarkUnusable(a) \/ Restore(a) \/ Renew(a)
      PROVE  HarnessInv' /\ Kept
  <2>. DEFINE p == copy[a].state
              e == evidence[a]
  <2>1. p \in Payload /\ e \in Evidence /\ now \in Nat
    BY <1>4, ClockTyped DEF HarnessTypeOK
  <2>2. copy[a].gen # 0
    BY <1>4 DEF Open, MarkUnusable, Restore, Renew, Write
  <2>3. store.gen = copy[a].gen => p = store.state
    BY <1>4, <2>2 DEF HarnessInv, ReadInv
  <2>4. CASE Open(a)
    <3>1. CanOpen(p, e, now) /\ Write(a, OpenAfterT8(p, e, now))
      BY <2>4 DEF Open
    <3>2. OpenAfterT8(p, e, now) \in Payload
      BY <2>1, TransitionsTyped
    <3>3. store.gen = copy[a].gen => Succeeds(OpenAfterT8(p, e, now), store.state)
      BY <2>1, <2>3, <3>1, OpenSucceeds
    <3>. QED
      BY <1>4, <3>1, <3>2, <3>3, WriteKeeps
  <2>5. CASE MarkUnusable(a)
    <3>1. CanMarkUnusable(p, e) /\ Write(a, MarkTestsUnusable(p, e))
      BY <2>5 DEF MarkUnusable
    <3>2. MarkTestsUnusable(p, e) \in Payload
      BY <2>1, TransitionsTyped
    <3>3. store.gen = copy[a].gen => Succeeds(MarkTestsUnusable(p, e), store.state)
      BY <2>1, <2>3, <3>1, MarkSucceeds
    <3>. QED
      BY <1>4, <3>1, <3>2, <3>3, WriteKeeps
  <2>6. CASE Restore(a)
    <3>1. CanRestore(p, e, now) /\ Write(a, RestoreTestsUsable(p, e))
      BY <2>6 DEF Restore
    <3>2. RestoreTestsUsable(p, e) \in Payload
      BY <2>1, TransitionsTyped
    <3>3. store.gen = copy[a].gen => Succeeds(RestoreTestsUsable(p, e), store.state)
      BY <2>1, <2>3, <3>1, RestoreSucceeds
    <3>. QED
      BY <1>4, <3>1, <3>2, <3>3, WriteKeeps
  <2>7. CASE Renew(a)
    <3>1. CanRenew(p, e, now) /\ Write(a, RenewT8(p, e))
      BY <2>7 DEF Renew
    <3>2. RenewT8(p, e) \in Payload
      BY <2>1, TransitionsTyped
    <3>3. store.gen = copy[a].gen => Succeeds(RenewT8(p, e), store.state)
      BY <2>1, <2>3, <3>1, RenewSucceeds
    <3>. QED
      BY <1>4, <3>1, <3>2, <3>3, WriteKeeps
  <2>. QED
    BY <1>4, <2>4, <2>5, <2>6, <2>7
<1>. QED
  BY <1>1, <1>2, <1>3, <1>4 DEF HarnessNext

THEOREM HarnessInvariant == HarnessSpec => []HarnessInv
<1>1. HarnessInit => HarnessInv
  BY DEF HarnessInit, HarnessInv, StoreStaysReadable, ReadInv, DriftInv, NoCopy,
     NewPendingHarnessState, validatePayload
<1>. QED
  BY <1>1, HarnessTyped, HarnessStep, PTL DEF HarnessSpec

----------------------------------------------------------------------------
(* What the runs check *)

\* Each transition of a readable state, whether it is the store's or not, makes
\* a readable one.
LEMMA TransitionsReadable ==
    ASSUME NEW p \in Payload, NEW e \in Evidence, NEW t \in Nat \ {0},
           validatePayload(p)
    PROVE  /\ CanOpen(p, e, t) => validatePayload(OpenAfterT8(p, e, t))
           /\ CanMarkUnusable(p, e) => validatePayload(MarkTestsUnusable(p, e))
           /\ CanRestore(p, e, t) => validatePayload(RestoreTestsUsable(p, e))
           /\ CanRenew(p, e, t) => validatePayload(RenewT8(p, e))
<1>1. ASSUME CanOpen(p, e, t) PROVE validatePayload(OpenAfterT8(p, e, t))
  BY <1>1 DEF CanOpen, OpenAfterT8, validatePayload, Payload
<1>2. ASSUME CanMarkUnusable(p, e) PROVE validatePayload(MarkTestsUnusable(p, e))
  BY <1>2 DEF CanMarkUnusable, NewerThanT8, MarkTestsUnusable, validatePayload, Payload
<1>3. ASSUME CanRestore(p, e, t) PROVE validatePayload(RestoreTestsUsable(p, e))
  BY <1>3 DEF CanRestore, RestoreTestsUsable, validatePayload, Payload
<1>4. ASSUME CanRenew(p, e, t) PROVE validatePayload(RenewT8(p, e))
  BY <1>4 DEF CanRenew, RenewT8, validatePayload, Payload
<1>. QED
  BY <1>1, <1>2, <1>3, <1>4

\* What actors have read is readable, however old it is, and nothing was refused.
SealInv == ~refused /\ \A a \in Actors : validatePayload(copy[a].state)

LEMMA SealStep ==
    ASSUME HarnessTypeOK, HarnessInv, SealInv, [HarnessNext]_harnessVars
    PROVE  SealInv'
<1>0. validatePayload(NewPendingHarnessState)
  BY DEF validatePayload, NewPendingHarnessState
<1>1. ASSUME UNCHANGED refused,
             \A a \in Actors : copy'[a].state = copy[a].state \/ copy'[a] = store
      PROVE  SealInv'
  BY <1>1 DEF SealInv, HarnessInv, StoreStaysReadable
<1>2. ASSUME NEW a \in Actors, Read(a) PROVE SealInv'
  <2>1. \A b \in Actors : copy'[b].state = copy[b].state \/ copy'[b] = store
    BY <1>2 DEF Read, HarnessTypeOK
  <2>. QED
    BY <1>1, <1>2, <2>1 DEF Read
<1>3. ASSUME NEW a \in Actors, NEW p, validatePayload(p), Write(a, p) PROVE SealInv'
  <2>1. \A b \in Actors : copy'[b] = IF b = a THEN NoCopy ELSE copy[b]
    BY <1>3 DEF Write, HarnessTypeOK
  <2>2. ~refused'
    BY <1>3 DEF Write, SealInv
  <2>. QED
    BY <1>0, <2>1, <2>2 DEF SealInv, NoCopy
<1>4. ASSUME NEW a \in Actors, Open(a) \/ MarkUnusable(a) \/ Restore(a) \/ Renew(a)
      PROVE  SealInv'
  <2>. DEFINE p == copy[a].state
              e == evidence[a]
  <2>1. p \in Payload /\ e \in Evidence /\ now \in Nat \ {0} /\ validatePayload(p)
    BY <1>4, ClockTyped DEF HarnessTypeOK, SealInv
  <2>2. /\ CanOpen(p, e, now) => validatePayload(OpenAfterT8(p, e, now))
        /\ CanMarkUnusable(p, e) => validatePayload(MarkTestsUnusable(p, e))
        /\ CanRestore(p, e, now) => validatePayload(RestoreTestsUsable(p, e))
        /\ CanRenew(p, e, now) => validatePayload(RenewT8(p, e))
    BY <2>1, TransitionsReadable
  <2>. QED
    BY <1>3, <1>4, <2>2 DEF Open, MarkUnusable, Restore, Renew
<1>. QED
  BY <1>1, <1>2, <1>4
  DEF HarnessNext, harnessVars, HarnessTick, HarnessChanges, Observe

\* If the conditions of a transition hold, for whatever evidence and whatever
\* state was read, then sealHarnessState accepts its result.
THEOREM SealsNeverRefuse == HarnessSpec => []TransitionsSeal
<1>1. HarnessInit => SealInv
  BY DEF HarnessInit, SealInv, NoCopy, validatePayload, NewPendingHarnessState
<1>2. SealInv => TransitionsSeal
  BY DEF SealInv, TransitionsSeal
<1>. QED
  BY <1>1, <1>2, SealStep, HarnessTyped, HarnessInvariant, PTL DEF HarnessSpec

\* No stale T8, late write or renewal makes tests usable past a recorded drift.
THEOREM DriftAnswered == HarnessSpec => []DriftIsAnswered
<1>1. HarnessTypeOK /\ HarnessInv => DriftIsAnswered
  BY DEF HarnessInv, StoreStaysReadable, DriftInv, DriftIsAnswered, validatePayload
<1>. QED
  BY <1>1, HarnessTyped, HarnessInvariant, PTL

\* The harness opens once, and its evidence never moves back.
THEOREM OpenedOnce == HarnessSpec => OpensOnce
<1>1. HarnessTypeOK /\ HarnessInv /\ [HarnessNext]_harnessVars => [Kept]_harnessVars
  BY HarnessStep
<1>2. [Kept]_harnessVars
      => [store.state.phase = "open" =>
             /\ store'.state.phase = "open"
             /\ store'.state.openedAt = store.state.openedAt
             /\ store.state.t8.observedAt <= store'.state.t8.observedAt
             /\ store'.state.usability = "unusable" =>
                    store.state.drift.observedAt <= store'.state.drift.observedAt]_harnessVars
  BY DEF Kept
<1>. QED
  BY <1>1, <1>2, HarnessTyped, HarnessInvariant, PTL DEF HarnessSpec, OpensOnce

\* A write that meets the generation it read gives a verdict on newer evidence;
\* a drift that is recorded again gives none.
LEMMA VerdictStep ==
    ASSUME HarnessTypeOK, HarnessInv, [HarnessNext]_harnessVars
    PROVE  [Reading!Next]_(Reading!verdictVars)
<1>1. ASSUME store' = store
      PROVE  UNCHANGED Reading!verdictVars
  BY <1>1 DEF Reading!verdictVars
<1>2. ASSUME NEW a \in Actors, Open(a) \/ MarkUnusable(a) \/ Restore(a) \/ Renew(a),
             store' # store
      PROVE  [Reading!Next]_(Reading!verdictVars)
  <2>. DEFINE p == store.state
              e == evidence[a]
  <2>1. store.gen = copy[a].gen
    BY <1>2 DEF Open, MarkUnusable, Restore, Renew, Write
  <2>2. copy[a].state = p
    BY <1>2, <2>1 DEF Open, MarkUnusable, Restore, Renew, Write, HarnessTypeOK, HarnessInv, ReadInv
  <2>3. /\ p \in Payload /\ p.t8 \in Evidence /\ p.drift \in Evidence /\ e \in Evidence
        /\ now \in Nat
    BY <1>2, ClockTyped DEF HarnessTypeOK, Payload
  <2>4. /\ p.t8.observedAt \in Nat /\ p.drift.observedAt \in Nat /\ e.observedAt \in Nat
        /\ p.usability \in {"usable", "unusable"} /\ p.phase \in {"pending", "open"}
    BY <2>3 DEF Evidence, Payload
  <2>5. CASE Open(a)
    <3>1. CanOpen(p, e, now) /\ store'.state = OpenAfterT8(p, e, now)
      BY <1>2, <2>1, <2>2, <2>5 DEF Open, Write
    <3>2. /\ p.phase = "pending" /\ e.observedAt <= now /\ e.observedAt > 0
      BY <2>4, <3>1 DEF CanOpen, isFreshAt, validateT8Evidence, validateUTCWindow
    <3>3. /\ store'.state.phase = "open" /\ store'.state.usability = "usable"
          /\ store'.state.t8 = e /\ store'.state.openedAt = now
      BY <2>3, <3>1 DEF OpenAfterT8, Payload
    <3>. QED
      BY <2>4, <3>2, <3>3 DEF Reading!Next, Reading!Open
  <2>6. CASE MarkUnusable(a)
    <3>1. CanMarkUnusable(p, e) /\ store'.state = MarkTestsUnusable(p, e)
      BY <1>2, <2>1, <2>2, <2>6 DEF MarkUnusable, Write
    <3>2. /\ store'.state.phase = "open" /\ store'.state.usability = "unusable"
          /\ store'.state.drift = e /\ store'.state.openedAt = p.openedAt
      BY <2>3, <3>1 DEF MarkTestsUnusable, CanMarkUnusable, Payload
    <3>3. p.phase = "open" /\ p.t8.observedAt < e.observedAt
      BY <3>1 DEF CanMarkUnusable, NewerThanT8
    <3>4. CASE p.usability = "usable"
      BY <2>4, <3>2, <3>3, <3>4 DEF Reading!Next, Reading!Decide
    <3>5. CASE p.usability = "unusable" /\ p.drift.observedAt < e.observedAt
      BY <2>4, <3>2, <3>3, <3>5 DEF Reading!Next, Reading!Decide
    <3>6. CASE p.usability = "unusable" /\ e = p.drift
      BY <2>4, <3>2, <3>3, <3>6 DEF Reading!verdictVars
    <3>. QED
      BY <2>4, <3>1, <3>4, <3>5, <3>6 DEF CanMarkUnusable, AdvancesDrift
  <2>7. CASE Restore(a)
    <3>1. CanRestore(p, e, now) /\ store'.state = RestoreTestsUsable(p, e)
      BY <1>2, <2>1, <2>2, <2>7 DEF Restore, Write
    <3>2. /\ store'.state.phase = "open" /\ store'.state.usability = "usable"
          /\ store'.state.t8 = e /\ store'.state.openedAt = p.openedAt
      BY <2>3, <3>1 DEF RestoreTestsUsable, CanRestore, Payload
    <3>3. p.phase = "open" /\ p.usability = "unusable" /\ p.drift.observedAt < e.observedAt
      BY <3>1 DEF CanRestore, NewerThanDrift
    <3>. QED
      BY <2>4, <3>2, <3>3 DEF Reading!Next, Reading!Decide
  <2>8. CASE Renew(a)
    <3>1. CanRenew(p, e, now) /\ store'.state = RenewT8(p, e)
      BY <1>2, <2>1, <2>2, <2>8 DEF Renew, Write
    <3>2. /\ store'.state.phase = "open" /\ store'.state.usability = "usable"
          /\ store'.state.t8 = e /\ store'.state.openedAt = p.openedAt
      BY <2>3, <3>1 DEF RenewT8, CanRenew, Payload
    <3>3. p.phase = "open" /\ p.usability = "usable" /\ p.t8.observedAt < e.observedAt
      BY <3>1 DEF CanRenew
    <3>. QED
      BY <2>4, <3>2, <3>3 DEF Reading!Next, Reading!Decide
  <2>. QED
    BY <1>2, <2>5, <2>6, <2>7, <2>8
<1>. QED
  BY <1>1, <1>2 DEF HarnessNext, harnessVars, HarnessTick, HarnessChanges, Observe, Read

\* The four transitions, with writers that read long ago, lose the race or hold
\* old evidence, implement the verdict a reader relies on: it is given once for
\* good, and changes only by an observation newer than the one it rests on.
THEOREM HarnessImplementsVerdict == HarnessSpec => VerdictsOnlyAdvance
<1>1. HarnessInit => Reading!Init
  BY DEF HarnessInit, NewPendingHarnessState, Reading!Init
<1>2. HarnessTypeOK /\ HarnessInv /\ [HarnessNext]_harnessVars
          => [Reading!Next]_(Reading!verdictVars)
  BY VerdictStep
<1>. QED
  BY <1>1, <1>2, HarnessTyped, HarnessInvariant, PTL
     DEF HarnessSpec, VerdictsOnlyAdvance, Reading!Spec

\* A test is admitted only on a usable state, within the lifetime of a T8 that
\* is newer than every drift ever recorded.
THEOREM TestsOnLiveEvidence == HarnessSpec => []TestsRunOnLiveEvidence
<1>1. ASSUME HarnessTypeOK, HarnessInv, NEW a \in Actors, NEW req \in HarnessRequests,
             req.action \in {"test-i", "test-d"}, Admitted(a, req)
      PROVE  /\ store.state.usability = "usable"
             /\ lastDrift < store.state.t8.observedAt
             /\ store.state.t8.observedAt <= now
             /\ now < store.state.t8.observedAt + MaxT8EvidenceLifetime
             /\ req.revision = store.state.t8.revision
  <2>. DEFINE p == store.state
  <2>1. /\ copy[a].state = p /\ validatePayload(p)
        /\ IF p.phase = "pending" THEN admitPendingHarnessAction(req, now)
                                  ELSE admitOpenHarnessAction(p, req, now)
    BY <1>1 DEF Admitted, AdmitHarnessAction, validateHarnessExpectation
  <2>2. p.phase # "pending"
    BY <1>1, <2>1 DEF admitPendingHarnessAction
  <2>3. /\ p.usability = "usable" /\ req.revision = p.t8.revision
        /\ p.t8.observedAt <= now /\ now < p.t8.validUntil
    BY <1>1, <2>1, <2>2 DEF admitOpenHarnessAction, isFreshAt
  <2>4. p.phase = "open" /\ validateT8Evidence(p.t8)
    BY <2>1, <2>2 DEF validatePayload
  <2>5. lastDrift < p.t8.observedAt
    BY <1>1, <2>3, <2>4 DEF HarnessInv, DriftInv
  <2>6. p \in Payload
    BY <1>1 DEF HarnessTypeOK
  <2>7. p.t8.observedAt \in Nat /\ p.t8.validUntil \in Nat
    BY <2>6 DEF Payload, Evidence
  <2>8. /\ MaxT8EvidenceLifetime \in Nat /\ now \in Nat
        /\ p.t8.observedAt < p.t8.validUntil
        /\ p.t8.validUntil - p.t8.observedAt <= MaxT8EvidenceLifetime
    BY <1>1, <2>4, ClockTyped, HarnessAssumption
       DEF HarnessAssumption, validateT8Evidence, validateUTCWindow
  <2>. QED
    BY <2>3, <2>5, <2>7, <2>8
<1>2. HarnessTypeOK /\ HarnessInv => TestsRunOnLiveEvidence
  BY <1>1 DEF TestsRunOnLiveEvidence
<1>. QED
  BY <1>2, HarnessTyped, HarnessInvariant, PTL

\* Until the first T8 only the approved envelope's own steps are admitted.
THEOREM BlockadeHolds == HarnessSpec => []BlockadeUntilT8
<1>1. ASSUME HarnessTypeOK, NEW a \in Actors, NEW req \in HarnessRequests,
             store.state.phase = "pending", Admitted(a, req)
      PROVE  /\ req.binding = Binding
             /\ \/ /\ req.action = "bootstrap-step"
                   /\ req.step \in BootstrapSteps /\ InApprovalWindow(now)
                \/ /\ req.action = "rollback-step"
                   /\ req.step \in RollbackSteps /\ ApprovedAt <= now
  <2>1. admitPendingHarnessAction(req, now)
    BY <1>1 DEF Admitted, AdmitHarnessAction, validateHarnessExpectation
  <2>. QED
    BY <2>1 DEF admitPendingHarnessAction, InApprovalWindow
<1>2. HarnessTypeOK => BlockadeUntilT8
  BY <1>1 DEF BlockadeUntilT8
<1>. QED
  BY <1>2, HarnessTyped, PTL

----------------------------------------------------------------------------
(* The mutation boundary: what an input that passed the evaluation shows *)

\* Two valid identities with one key are one identity (CanonicalTargetKey).
LEMMA OneKeyOneIdentity ==
    ASSUME NEW a, NEW b, validateResourceIdentity(a), validateResourceIdentity(b),
           a.key = b.key
    PROVE  a = b
<1>1. /\ a = [project |-> a.project, service |-> a.service, kind |-> a.kind,
              scope |-> a.scope, parent |-> a.parent, name |-> a.name,
              key |-> CanonicalTargetKey(a)]
      /\ b = [project |-> b.project, service |-> b.service, kind |-> b.kind,
              scope |-> b.scope, parent |-> b.parent, name |-> b.name,
              key |-> CanonicalTargetKey(b)]
  BY DEF validateResourceIdentity
<1>2. a.key = CanonicalTargetKey(a) /\ b.key = CanonicalTargetKey(b)
  <2>1. \A p, s, k, c, q, n, key :
            [project |-> p, service |-> s, kind |-> k, scope |-> c, parent |-> q,
             name |-> n, key |-> key].key = key
    OBVIOUS
  <2> QED
    BY <1>1, <2>1
<1>3. <<a.project, a.service, a.scope, a.parent, a.kind, a.name>> =
          <<b.project, b.service, b.scope, b.parent, b.kind, b.name>>
  BY <1>2 DEF CanonicalTargetKey
<1>4. /\ a.project = b.project /\ a.service = b.service /\ a.scope = b.scope
      /\ a.parent = b.parent /\ a.kind = b.kind /\ a.name = b.name
  BY <1>3
<1>. QED
  BY <1>1, <1>2, <1>4

\* The evidence of an input is that of the look it was made from.
LEMMA InputShowsLook ==
    ASSUME NEW look
    PROVE  /\ inputOf(look).lifetime = Contracts[look.world.record]
           /\ inputOf(look).freshness.revision = look.world
           /\ inputOf(look).freshness.observedAt = look.at
           /\ inputOf(look).freshness.validUntil = look.until
           /\ "freshness" \in DOMAIN inputOf(look)
<1>1. "lifetime" \in DOMAIN ownEvidence(look)
      /\ "freshness" \in DOMAIN ownEvidence(look)
  BY DEF ownEvidence
<1>2. /\ inputOf(look).lifetime = ownEvidence(look).lifetime
      /\ inputOf(look).freshness = ownEvidence(look).freshness
      /\ "freshness" \in DOMAIN inputOf(look)
  BY <1>1 DEF inputOf
<1>. QED
  BY <1>2 DEF ownEvidence

\* Inputs with one fingerprint were made from one revision of the world.
LEMMA FingerprintFixesRevision ==
    ASSUME NEW in, NEW authorized,
           "freshness" \in DOMAIN in, "freshness" \in DOMAIN authorized,
           preMutationFingerprint(in) = preMutationFingerprint(authorized)
    PROVE  in.freshness.revision = authorized.freshness.revision
<1>1. /\ preMutationFingerprint(in)["freshness"] = in.freshness.revision
      /\ preMutationFingerprint(authorized)["freshness"]
             = authorized.freshness.revision
  BY DEF preMutationFingerprint
<1>. QED
  BY <1>1

\* The operator holds the run's lock and none of a declared environment.
LEMMA LocksProved ==
    ASSUME NEW in, NEW time, evaluatePreMutation(in, time)
    PROVE  /\ \E l \in ToSet(in.locks) :
                  l.class = "disposable" /\ l.run = in.run
                      /\ l.holder = Policy.operator
           /\ \A e \in Policy.environments : \E l \in ToSet(in.locks) :
                  l.name = e.name /\ l.holder # Policy.operator
<1>1. /\ ValidateHarnessLocks(in.locks, in.environments, in.run, in.principal)
      /\ in.principal = Policy.operator
      /\ ToSet(in.environments) = Policy.environments
  BY DEF evaluatePreMutation, validatePreMutationPolicy,
         NonDisposableEnvironmentInventoryFingerprint
<1>2. ASSUME NEW e \in Policy.environments
      PROVE  \E l \in ToSet(in.locks) : l.name = e.name /\ l.holder # Policy.operator
  <2>1. PICK l \in nonDisposable(in.locks) : e = [name |-> l.name, class |-> l.class]
    BY <1>1 DEF ValidateHarnessLocks
  <2>. QED
    BY <1>1, <2>1 DEF ValidateHarnessLocks, nonDisposable
<1>. QED
  BY <1>1, <1>2 DEF ValidateHarnessLocks

\* What is inserted is every rule of the run that was seen absent, no other.
LEMMA InsertsEveryAbsent ==
    ASSUME NEW in, NEW time, evaluatePreMutation(in, time)
    PROVE  {i.target.id : i \in ToSet(in.intents)} =
               {in.observations[k].id :
                   k \in {j \in DOMAIN in.observations :
                             in.observations[j].rule = Absent}}
<1>1. /\ ValidateFirewallRules(in, time) /\ validateMutationIntents(in)
  BY DEF evaluatePreMutation
<1>2. ASSUME NEW i \in ToSet(in.intents)
      PROVE  validateResourceIdentity(i.target.id)
  <2>1. SelectRunFirewallMutationTargets(in.run, <<i.target>>)
    BY <1>1 DEF validateMutationIntents
  <2>2. i.target \in ToSet(<<i.target>>)
    BY DEF ToSet
  <2>. QED
    BY <2>1, <2>2 DEF SelectRunFirewallMutationTargets
<1>3. ASSUME NEW k \in DOMAIN in.observations
      PROVE  /\ validateResourceIdentity(in.observations[k].id)
             /\ in.observations[k].state = "absent"
                    <=> in.observations[k].rule = Absent
  <2> DEFINE o == in.observations[k]
  <2>1. o \in ToSet(in.observations)
    BY DEF ToSet
  <2>2. PICK rule \in ToSet(in.rules) :
            /\ o.id = rule.id
            /\ \/ o.state = "present" /\ o.rule = rule
               \/ o.state = "absent" /\ o.rule = Absent
    BY <1>1, <2>1 DEF ValidateFirewallRules, observationExact
  <2>3. validateFirewallRule(rule, in)
    BY <1>1 DEF ValidateFirewallRules
  <2>4. validateResourceIdentity(rule.id) /\ rule.purpose \in Purposes
    BY <2>3 DEF validateFirewallRule
  <2>5. rule # Absent
    BY <2>4 DEF Absent, Purposes
  <2>. QED
    BY <2>2, <2>4, <2>5
<1>4. {i.target.id.key : i \in ToSet(in.intents)} = absentKeys(in)
  BY <1>1 DEF ValidateFirewallRules, validateMutationIntents, insertsEveryAbsent
<1>5. absentKeys(in) =
          {in.observations[k].id.key :
              k \in {j \in DOMAIN in.observations : in.observations[j].rule = Absent}}
  BY <1>3 DEF absentKeys, ToSet
<1>6. ASSUME NEW i \in ToSet(in.intents)
      PROVE  \E k \in DOMAIN in.observations :
                 in.observations[k].rule = Absent /\ in.observations[k].id = i.target.id
  <2>1. PICK k \in DOMAIN in.observations :
            /\ in.observations[k].rule = Absent
            /\ in.observations[k].id.key = i.target.id.key
    BY <1>4, <1>5
  <2>. QED
    BY <1>2, <1>3, <2>1, OneKeyOneIdentity
<1>7. ASSUME NEW k \in DOMAIN in.observations, in.observations[k].rule = Absent
      PROVE  \E i \in ToSet(in.intents) : i.target.id = in.observations[k].id
  <2>1. PICK i \in ToSet(in.intents) :
            i.target.id.key = in.observations[k].id.key
    BY <1>4, <1>5, <1>7
  <2>. QED
    BY <1>2, <1>3, <2>1, OneKeyOneIdentity
<1>. QED
  BY <1>6, <1>7

----------------------------------------------------------------------------
(* The mutation boundary: its inductive invariant *)

BoundaryTypeOK ==
    /\ ClockTypeOK
    /\ pc \in {"start", "authorized", "ready", "converged"}
    /\ seen.at \in Nat /\ seen.until \in Nat
    /\ boundary.at \in Nat /\ boundary.look.at \in Nat
    /\ decision.at \in Nat /\ decision.look.at \in Nat /\ decision.look.until \in Nat
    /\ boundary = [at |-> boundary.at, look |-> boundary.look,
                   intents |-> boundary.intents]

\* What a world is made of.
WorldShape(w) ==
    w = [rules |-> w.rules, holder |-> w.holder, production |-> w.production,
         granted |-> w.granted, record |-> w.record, since |-> w.since]

\* Rules that carry the defaults belong to one of the lifetime records so far,
\* and say so in their description.
RulesOfRecord(rules, record) ==
    \A p \in Purposes :
        rules[p] # Absent /\ rules[p].defaults =>
            \E k \in 1..record :
                /\ rules[p].lifetime = Contracts[k]
                /\ rules[p].description = RunFirewallDescription(Contracts[k])

\* Rules belong to a lifetime record that is or was the durable one; no look
\* shows a later record than the world has.
WorldInv ==
    /\ WorldShape(world)
    /\ world.rules = [p \in Purposes |-> world.rules[p]]
    /\ world.record \in DOMAIN Contracts
    /\ RulesOfRecord(world.rules, world.record)
    /\ seen # NoLook => seen.world.record \in 1..world.record
    /\ issued => boundary.look.world.record \in 1..world.record
    /\ sighting # NoSighting => sighting.purpose \in Purposes
    /\ clearing # NoClearing => clearing.purpose \in Purposes

\* What a decision and a boundary were made from.  Nothing that happens after
\* the look they rest on changes it.
EvidenceInv ==
    /\ pc # "start" =>
           /\ decision.look.at <= decision.at
           /\ decision.look.until <= decision.look.at + MaxPreMutationProofLifetime
    /\ issued =>
           /\ pc \in {"ready", "converged"}
           /\ evaluatePreMutation(final, boundary.at)
           /\ unchanged(final, inputOf(decision.look))
           /\ decision.at < boundary.look.at
           /\ boundary.look.until = decision.look.until
           /\ boundary.intents \subseteq ToSet(final.intents)

\* The record k, which was read at the time at, is the durable one, or was
\* replaced no earlier than that.
ReadThen(k, at) ==
    k \in 1..world.record /\ (k = world.record \/ at <= world.since)

\* What a record that was read, and a cleared cleanup, still say of the world.
CleanupInv ==
    /\ world.since \in Nat /\ world.since <= now
    /\ issued => boundary.at <= now
    /\ expected # NoRecord =>
           /\ expected.at \in Nat /\ expected.at <= now
           /\ expected.until = expected.at + MaxPreMutationProofLifetime
           /\ ReadThen(expected.record, expected.at)
    /\ clearing # NoClearing =>
           /\ clearing.at \in Nat /\ clearing.at <= now
           /\ clearing.mode = "expired-wipe" =>
                  \E k \in 1..world.record :
                      /\ Contracts[k].expiresAt <= clearing.at
                      /\ clearing.rule.description = RunFirewallDescription(Contracts[k])
                      /\ \/ k = world.record
                         \/ clearing.at < world.since + MaxPreMutationProofLifetime

PassageInv == /\ BoundaryTypeOK
              /\ WorldInv
              /\ EvidenceInv
              /\ CleanupInv

\* Type correctness of a run's looks, decision and boundary.
LEMMA BoundaryTypeStep ==
    ASSUME BoundaryTypeOK, [BoundaryNext]_boundaryVars
    PROVE  BoundaryTypeOK'
<1>. USE ClockAssumption, BoundaryAssumption
     DEF BoundaryTypeOK, ClockTypeOK, ClockAssumption, BoundaryAssumption
<1>1. CASE BoundaryTick
  BY <1>1 DEF BoundaryTick, Tick, passage
<1>2. ASSUME NEW until \in {now + MaxPreMutationProofLifetime, decision.look.until},
             Look(until)
      PROVE  BoundaryTypeOK'
  BY <1>2 DEF Look
<1>3. CASE AuthorizePreMutation
  BY <1>3 DEF AuthorizePreMutation
<1>4. CASE RevalidatePreMutation
  BY <1>4 DEF RevalidatePreMutation, NoLook
<1>5. CASE StartOver
  BY <1>5 DEF StartOver, NoDecision, NoLook
<1>6. ASSUME NEW i \in boundary.intents, ExecuteIntent(i) PROVE BoundaryTypeOK'
  BY <1>6 DEF ExecuteIntent
<1>7. ASSUME NEW p \in Purposes, See(p) PROVE BoundaryTypeOK'
  BY <1>7 DEF See, passage
<1>8. ASSUME NEW k, NEW mode, ReadRecord \/ Clear(k, mode) \/ DeleteRule
      PROVE  BoundaryTypeOK'
  BY <1>8 DEF ReadRecord, Clear, DeleteRule, passage
<1>9. ASSUME NEW w, OthersChange(w) PROVE BoundaryTypeOK'
  BY <1>9 DEF OthersChange, passage
<1>10. CASE UNCHANGED boundaryVars
  BY <1>10 DEF boundaryVars, passage
<1>. QED
  BY <1>1, <1>2, <1>3, <1>4, <1>5, <1>6, <1>7, <1>8, <1>9, <1>10
  DEF BoundaryNext, RuleChanges, LocksChange, PermissionsChange, RecordReplaced

\* What is inserted carries the lifetime record of the look the boundary
\* rests on.
LEMMA IntentsCarryRecord ==
    ASSUME EvidenceInv, issued, NEW i \in boundary.intents
    PROVE  /\ i.create.purpose \in Purposes
           /\ i.create.lifetime = Contracts[boundary.look.world.record]
           /\ i.create.description =
                  RunFirewallDescription(Contracts[boundary.look.world.record])
<1>1. /\ evaluatePreMutation(final, boundary.at) /\ i \in ToSet(final.intents)
  BY DEF EvidenceInv
<1>2. i.create \in ToSet(final.rules)
  BY <1>1 DEF evaluatePreMutation, validateMutationIntents
<1>3. validateFirewallRule(i.create, final)
  BY <1>1, <1>2 DEF evaluatePreMutation, ValidateFirewallRules
<1>4. /\ i.create.lifetime = final.lifetime /\ i.create.purpose \in Purposes
      /\ i.create.description = RunFirewallDescription(final.lifetime)
  BY <1>3 DEF validateFirewallRule, describesLifetime, RunLifetimeContractFingerprint
<1>. QED
  BY <1>4, InputShowsLook DEF final

\* A rule of one of the records so far may take any place.
LEMMA RulePut ==
    ASSUME WorldInv, NEW p \in Purposes, NEW rule,
           rule # Absent /\ rule.defaults =>
               \E k \in 1..world.record :
                   /\ rule.lifetime = Contracts[k]
                   /\ rule.description = RunFirewallDescription(Contracts[k]),
           world' = [world EXCEPT !.rules[p] = rule]
    PROVE  /\ WorldShape(world')
           /\ world'.record = world.record /\ world'.since = world.since
           /\ world'.rules = [q \in Purposes |-> world'.rules[q]]
           /\ RulesOfRecord(world'.rules, world.record)
<1>1. /\ WorldShape(world)
      /\ world.rules = [q \in Purposes |-> world.rules[q]]
      /\ RulesOfRecord(world.rules, world.record)
  BY DEF WorldInv
<1>. DEFINE rules == [world.rules EXCEPT ![p] = rule]
<1>2. world' = [rules |-> rules, holder |-> world.holder,
                production |-> world.production, granted |-> world.granted,
                record |-> world.record, since |-> world.since]
  BY <1>1 DEF WorldShape
<1>3. rules = [q \in Purposes |-> rules[q]]
  BY <1>1
<1>4. rules[p] = rule /\ \A q \in Purposes \ {p} : rules[q] = world.rules[q]
  BY <1>1
<1>5. RulesOfRecord(rules, world.record)
  BY <1>1, <1>4 DEF RulesOfRecord
<1>6. world'.rules = rules /\ world'.record = world.record /\ world'.since = world.since
  BY <1>2
<1>7. WorldShape(world')
  BY <1>2 DEF WorldShape
<1>. QED
  BY <1>3, <1>5, <1>6, <1>7

\* Whoever changes the world, every rule with the defaults belongs to a
\* lifetime record no later than the durable one.
LEMMA WorldStep ==
    ASSUME BoundaryTypeOK, WorldInv, EvidenceInv, [BoundaryNext]_boundaryVars
    PROVE  WorldInv'
<1>. USE BoundaryAssumption DEF BoundaryAssumption, issued
<1>0. /\ world.record \in 1..Len(Contracts) /\ Len(Contracts) \in Nat
      /\ WorldInv
  BY DEF WorldInv
<1>1. CASE BoundaryTick
  BY <1>0, <1>1 DEF BoundaryTick, WorldInv, passage, cleanup
<1>2. ASSUME NEW until, Look(until) PROVE WorldInv'
  BY <1>0, <1>2 DEF Look, WorldInv, cleanup
<1>3. CASE AuthorizePreMutation
  BY <1>0, <1>3 DEF AuthorizePreMutation, WorldInv, cleanup
<1>4. CASE RevalidatePreMutation
  <2>1. seen # NoLook
    BY <1>4 DEF RevalidatePreMutation, immediate, NoLook, BoundaryTypeOK
  <2>. QED
    BY <1>0, <1>4, <2>1 DEF RevalidatePreMutation, WorldInv, cleanup
<1>5. CASE StartOver
  BY <1>0, <1>5 DEF StartOver, WorldInv, cleanup
<1>6. ASSUME NEW i \in boundary.intents, ExecuteIntent(i) PROVE WorldInv'
  <2>1. boundary' = [boundary EXCEPT !.intents = @ \ {i}]
    BY <1>6 DEF ExecuteIntent
  <2>2. boundary'.look = boundary.look
    BY <2>1 DEF BoundaryTypeOK
  <2>3. issued
    BY <1>6 DEF ExecuteIntent, NoBoundary
  <2>4. /\ i.create.purpose \in Purposes
        /\ i.create.lifetime = Contracts[boundary.look.world.record]
        /\ i.create.description =
               RunFirewallDescription(Contracts[boundary.look.world.record])
        /\ boundary.look.world.record \in 1..world.record
    BY <1>0, <2>3, IntentsCarryRecord DEF WorldInv
  <2>5. CASE world.rules[i.create.purpose] = Absent
    <3>1. world' = [world EXCEPT !.rules[i.create.purpose] = i.create]
      BY <1>6, <2>5 DEF ExecuteIntent
    <3>2. /\ WorldShape(world')
          /\ world'.record = world.record
          /\ world'.rules = [q \in Purposes |-> world'.rules[q]]
          /\ RulesOfRecord(world'.rules, world.record)
      BY <1>0, <2>4, <3>1, RulePut
    <3>. QED
      BY <1>0, <1>6, <2>2, <2>3, <3>2 DEF ExecuteIntent, WorldInv, cleanup
  <2>6. CASE world.rules[i.create.purpose] # Absent
    BY <1>0, <1>6, <2>2, <2>3, <2>6 DEF ExecuteIntent, WorldInv, cleanup
  <2>. QED
    BY <2>5, <2>6
<1>7. ASSUME NEW p \in Purposes, See(p) PROVE WorldInv'
  BY <1>0, <1>7 DEF See, WorldInv, passage
<1>8. CASE DeleteRule
  <2>1. world' = [world EXCEPT !.rules[clearing.purpose] = Absent]
    BY <1>8 DEF DeleteRule
  <2>2. clearing.purpose \in Purposes
    BY <1>0, <1>8 DEF DeleteRule, WorldInv
  <2>3. /\ WorldShape(world')
        /\ world'.record = world.record
        /\ world'.rules = [q \in Purposes |-> world'.rules[q]]
        /\ RulesOfRecord(world'.rules, world.record)
    BY <1>0, <2>1, <2>2, RulePut
  <2>. QED
    BY <1>0, <1>8, <2>3 DEF DeleteRule, WorldInv, passage
<1>14. CASE ReadRecord
  BY <1>0, <1>14 DEF ReadRecord, WorldInv, passage
<1>15. ASSUME NEW k, NEW mode, Clear(k, mode) PROVE WorldInv'
  <2>1. clearing'.purpose = sighting.purpose /\ sighting # NoSighting
    BY <1>15 DEF Clear
  <2>. QED
    BY <1>0, <1>15, <2>1 DEF Clear, WorldInv, passage
<1>9. ASSUME NEW p \in Purposes,
             NEW rule \in {Absent, ForeignRule(p),
                           DesiredRule(Contracts[world.record], p)},
             RuleChanges(p, rule)
      PROVE  WorldInv'
  <2>1. world' = [world EXCEPT !.rules[p] = rule]
    BY <1>9 DEF RuleChanges, OthersChange
  <2>2. rule # Absent /\ rule.defaults =>
            \E k \in 1..world.record :
                /\ rule.lifetime = Contracts[k]
                /\ rule.description = RunFirewallDescription(Contracts[k])
    BY <1>0, <1>9
  <2>3. /\ WorldShape(world')
        /\ world'.record = world.record
        /\ world'.rules = [q \in Purposes |-> world'.rules[q]]
        /\ RulesOfRecord(world'.rules, world.record)
    BY <1>0, <2>1, <2>2, RulePut
  <2>. QED
    BY <1>0, <1>9, <2>3 DEF RuleChanges, OthersChange, WorldInv, passage, cleanup
<1>10. ASSUME NEW holder, NEW production, LocksChange(holder, production)
       PROVE  WorldInv'
  <2>1. world' = [world EXCEPT !.holder = holder, !.production = production]
    BY <1>10 DEF LocksChange, OthersChange
  <2>2. WorldShape(world') /\ world'.record = world.record /\ world'.rules = world.rules
    BY <1>0, <2>1 DEF WorldInv, WorldShape
  <2>. QED
    BY <1>0, <1>10, <2>2 DEF LocksChange, OthersChange, WorldInv, passage, cleanup
<1>11. CASE PermissionsChange
  <2>1. world' = [world EXCEPT !.granted = ~@]
    BY <1>11 DEF PermissionsChange, OthersChange
  <2>2. WorldShape(world') /\ world'.record = world.record /\ world'.rules = world.rules
    BY <1>0, <2>1 DEF WorldInv, WorldShape
  <2>. QED
    BY <1>0, <1>11, <2>2 DEF PermissionsChange, OthersChange, WorldInv, passage, cleanup
<1>12. CASE RecordReplaced
  <2>1. /\ world' = [world EXCEPT !.record = @ + 1, !.since = now]
        /\ world.record < Len(Contracts)
    BY <1>12 DEF RecordReplaced, OthersChange
  <2>2. /\ world'.record = world.record + 1 /\ world'.rules = world.rules
        /\ WorldShape(world')
    BY <1>0, <2>1 DEF WorldInv, WorldShape
  <2>3. world'.record \in DOMAIN Contracts
    BY <1>0, <2>1, <2>2
  <2>4. 1..world.record \subseteq 1..world'.record
    BY <1>0, <2>2
  <2>. QED
    BY <1>0, <1>12, <2>2, <2>3, <2>4
    DEF RecordReplaced, OthersChange, WorldInv, RulesOfRecord, passage, cleanup
<1>13. CASE UNCHANGED boundaryVars
  BY <1>0, <1>13 DEF boundaryVars, WorldInv, passage, cleanup
<1>. QED
  BY <1>1, <1>2, <1>3, <1>4, <1>5, <1>6, <1>7, <1>8, <1>9, <1>10, <1>11, <1>12,
     <1>13, <1>14, <1>15
  DEF BoundaryNext

\* The input made of a look does not change: the request of a run is fixed.
LEMMA RequestFixed ==
    ASSUME [BoundaryNext]_boundaryVars
    PROVE  /\ request' = request
           /\ \A look : inputOf(look)' = inputOf(look)
<1>1. request' = request
  BY DEF BoundaryNext, boundaryVars, BoundaryTick, Look, AuthorizePreMutation,
         RevalidatePreMutation, StartOver, ExecuteIntent, See, ReadRecord, Clear,
         DeleteRule, RuleChanges, LocksChange, PermissionsChange, RecordReplaced, OthersChange
<1>. QED
  BY <1>1 DEF inputOf, ownEvidence

\* What others do leaves the decision and the boundary alone.
LEMMA OthersKeepEvidence ==
    ASSUME EvidenceInv, request' = request, UNCHANGED <<pc, decision, boundary>>
    PROVE  EvidenceInv'
<1>1. final' = final /\ inputOf(decision.look)' = inputOf(decision.look)
      /\ (issued' <=> issued)
  BY DEF final, inputOf, ownEvidence, issued
<1>2. CASE issued
  <2>1. /\ evaluatePreMutation(final', boundary'.at)
        /\ unchanged(final', inputOf(decision.look)')
        /\ boundary'.intents \subseteq ToSet(final'.intents)
    BY <1>1, <1>2 DEF EvidenceInv
  <2>. QED
    BY <1>1, <1>2, <2>1 DEF EvidenceInv
<1>3. CASE ~issued
  BY <1>1, <1>3 DEF EvidenceInv
<1>. QED
  BY <1>2, <1>3

\* A boundary is only issued on two looks that agree, and its intents are used
\* up afterwards.
LEMMA EvidenceStep ==
    ASSUME BoundaryTypeOK, EvidenceInv, [BoundaryNext]_boundaryVars
    PROVE  EvidenceInv'
<1>0. request' = request
  BY RequestFixed
<1>1. CASE AuthorizePreMutation
  <2>1. validateEvidenceFreshness(inputOf(seen).freshness, now)
    BY <1>1 DEF AuthorizePreMutation, evaluatePreMutation
  <2>2. /\ seen.at <= now
        /\ seen.until - seen.at <= MaxPreMutationProofLifetime
    BY <2>1, InputShowsLook DEF validateEvidenceFreshness
  <2>3. seen.until <= seen.at + MaxPreMutationProofLifetime
    BY <2>2, BoundaryAssumption DEF BoundaryTypeOK, BoundaryAssumption
  <2>4. decision'.at = now /\ decision'.look = seen
    BY <1>1 DEF AuthorizePreMutation
  <2>5. ~issued /\ ~issued'
    BY <1>1 DEF AuthorizePreMutation, EvidenceInv, issued
  <2>. QED
    BY <2>2, <2>3, <2>4, <2>5 DEF EvidenceInv
<1>2. CASE RevalidatePreMutation
  <2>1. /\ boundary'.at = now /\ boundary'.look = seen
        /\ boundary'.intents = ToSet(inputOf(seen).intents)
        /\ decision' = decision /\ pc' \in {"ready", "converged"}
    BY <1>2 DEF RevalidatePreMutation
  <2>2. final' = inputOf(seen)
    BY <1>0, <2>1 DEF final, inputOf, ownEvidence
  <2>3. inputOf(decision.look)' = inputOf(decision.look)
    BY <1>0, <2>1 DEF inputOf, ownEvidence
  <2>4. /\ evaluatePreMutation(inputOf(seen), now)
        /\ unchanged(inputOf(seen), inputOf(decision.look))
        /\ immediate(seen) /\ pc = "authorized"
    BY <1>2 DEF RevalidatePreMutation
  <2>5. /\ evaluatePreMutation(final', boundary'.at)
        /\ unchanged(final', inputOf(decision.look)')
        /\ boundary'.intents \subseteq ToSet(final'.intents)
    BY <2>1, <2>2, <2>3, <2>4
  <2>6. /\ decision'.at < boundary'.look.at
        /\ boundary'.look.until = decision'.look.until
    BY <2>1, <2>4 DEF immediate
  <2>. QED
    BY <2>1, <2>4, <2>5, <2>6 DEF EvidenceInv
<1>3. CASE StartOver
  BY <1>3 DEF StartOver, EvidenceInv, issued
<1>4. ASSUME NEW i \in boundary.intents, ExecuteIntent(i) PROVE EvidenceInv'
  <2>1. /\ boundary'.at = boundary.at /\ boundary'.look = boundary.look
        /\ boundary'.intents = boundary.intents \ {i}
    BY <1>4 DEF ExecuteIntent, BoundaryTypeOK
  <2>2. issued /\ pc' = pc /\ decision' = decision
    BY <1>4 DEF ExecuteIntent, issued, NoBoundary
  <2>3. final' = final /\ inputOf(decision.look)' = inputOf(decision.look)
    BY <1>0, <2>1, <2>2 DEF final, inputOf, ownEvidence
  <2>4. /\ evaluatePreMutation(final', boundary'.at)
        /\ unchanged(final', inputOf(decision.look)')
        /\ boundary'.intents \subseteq ToSet(final'.intents)
    BY <2>1, <2>2, <2>3 DEF EvidenceInv
  <2>. QED
    BY <2>1, <2>2, <2>4 DEF EvidenceInv
<1>5. ASSUME UNCHANGED <<pc, decision, boundary>> PROVE EvidenceInv'
  BY <1>0, <1>5, OthersKeepEvidence
<1>. QED
  BY <1>1, <1>2, <1>3, <1>4, <1>5
  DEF BoundaryNext, boundaryVars, passage, BoundaryTick, Look, See, ReadRecord, Clear,
      DeleteRule, RuleChanges, LocksChange, PermissionsChange, RecordReplaced, OthersChange

\* What was read of the durable record stays true of the time it was read at.
LEMMA CleanupKept ==
    ASSUME CleanupInv, now \in Nat, now' \in Nat, now <= now',
           UNCHANGED <<world.record, world.since, expected, clearing>>,
           issued' => boundary'.at <= now'
    PROVE  CleanupInv'
BY DEF CleanupInv, ReadThen

\* A record that takes the run ID again comes after every read of the old one.
LEMMA CleanupAfterReplacement ==
    ASSUME BoundaryTypeOK, WorldInv, CleanupInv, RecordReplaced
    PROVE  CleanupInv'
<1>. USE BoundaryAssumption DEF BoundaryAssumption
<1>1. /\ world' = [world EXCEPT !.record = @ + 1, !.since = now]
      /\ UNCHANGED <<now, boundary, expected, clearing>>
  BY DEF RecordReplaced, OthersChange, passage, cleanup
<1>2. world'.record = world.record + 1 /\ world'.since = now
  BY <1>1 DEF WorldInv, WorldShape
<1>3. now \in Nat /\ world.record \in Nat
  BY ClockAssumption
  DEF WorldInv, BoundaryTypeOK, ClockTypeOK, ClockAssumption
<1>4. ASSUME NEW k, NEW at \in Nat, at <= now, ReadThen(k, at)
      PROVE  k \in 1..world'.record /\ at <= world'.since
  BY <1>2, <1>3, <1>4 DEF ReadThen
<1>5. expected # NoRecord => ReadThen(expected.record, expected.at)'
  BY <1>1, <1>4 DEF CleanupInv, ReadThen
<1>6. ASSUME clearing # NoClearing, clearing.mode = "expired-wipe"
      PROVE  \E k \in 1..world'.record :
                 /\ Contracts[k].expiresAt <= clearing.at
                 /\ clearing.rule.description = RunFirewallDescription(Contracts[k])
                 /\ clearing.at < world'.since + MaxPreMutationProofLifetime
  <2>1. PICK k \in 1..world.record :
            /\ Contracts[k].expiresAt <= clearing.at
            /\ clearing.rule.description = RunFirewallDescription(Contracts[k])
    BY <1>6 DEF CleanupInv
  <2>2. k \in 1..world'.record
    BY <1>2, <1>3
  <2>3. clearing.at < world'.since + MaxPreMutationProofLifetime
    BY <1>2, <1>3, <1>6 DEF CleanupInv
  <2>. QED
    BY <2>1, <2>2, <2>3
<1>7. issued' => boundary'.at <= now'
  BY <1>1 DEF CleanupInv, issued
<1>. QED
  BY <1>1, <1>2, <1>3, <1>5, <1>6, <1>7 DEF CleanupInv

\* A cleanup that passes rests on a record read less than a proof lifetime ago.
LEMMA CleanupClears ==
    ASSUME BoundaryTypeOK, WorldInv, CleanupInv, NEW c \in 1..world.record, NEW mode,
           Clear(c, mode)
    PROVE  CleanupInv'
<1>. USE BoundaryAssumption DEF BoundaryAssumption
<1>1. /\ ValidateRunFirewallCleanupTarget(sighting, Contracts[c], expected, mode, now)
      /\ clearing' = [at |-> now, mode |-> mode, purpose |-> sighting.purpose,
                      rule |-> sighting.rule]
      /\ expected' = NoRecord
      /\ UNCHANGED <<now, world, boundary>>
  BY DEF Clear, passage
<1>2. /\ clearing'.at = now /\ clearing'.mode = mode /\ clearing'.rule = sighting.rule
  BY <1>1
<1>3. now \in Nat /\ world.record \in Nat
  BY ClockAssumption DEF WorldInv, BoundaryTypeOK, ClockTypeOK, ClockAssumption
<1>4. /\ expected # NoRecord /\ now < expected.until
      /\ Contracts[c] = Contracts[expected.record]
      /\ sighting.rule.description = RunFirewallDescription(Contracts[c])
      /\ mode = "expired-wipe" => Contracts[c].expiresAt <= now
  BY <1>1 DEF ValidateRunFirewallCleanupTarget, validateOwnershipRecordExpectation,
              recordCurrent, expiredForWipe, RunLifetimeContractFingerprint
<1>5. /\ ReadThen(expected.record, expected.at) /\ expected.at \in Nat
      /\ expected.until = expected.at + MaxPreMutationProofLifetime
      /\ world.since \in Nat
  BY <1>4 DEF CleanupInv
<1>6. \/ expected.record = world.record
      \/ now < world.since + MaxPreMutationProofLifetime
  BY <1>3, <1>4, <1>5 DEF ReadThen
<1>7. expected.record \in 1..world.record
  BY <1>5 DEF ReadThen
<1>8. issued' => boundary'.at <= now'
  BY <1>1 DEF CleanupInv, issued
<1>. QED
  BY <1>1, <1>2, <1>3, <1>4, <1>5, <1>6, <1>7, <1>8 DEF CleanupInv

\* Reads and cleared cleanups keep what they say whatever others do.
LEMMA CleanupStep ==
    ASSUME BoundaryTypeOK, WorldInv, EvidenceInv, CleanupInv, [BoundaryNext]_boundaryVars
    PROVE  CleanupInv'
<1>. USE ClockAssumption DEF ClockAssumption, BoundaryTypeOK, ClockTypeOK
<1>1. now \in Nat /\ now' \in Nat /\ now <= now'
  BY DEF BoundaryNext, boundaryVars, BoundaryTick, Tick, Look, AuthorizePreMutation,
         RevalidatePreMutation, StartOver, ExecuteIntent, See, ReadRecord, Clear,
         DeleteRule, RuleChanges, LocksChange, PermissionsChange, RecordReplaced,
         OthersChange
<1>2. CASE RecordReplaced
  BY <1>2, CleanupAfterReplacement
<1>3. ASSUME NEW c \in 1..world.record, NEW mode, Clear(c, mode) PROVE CleanupInv'
  BY <1>3, CleanupClears
<1>4. CASE ReadRecord
  <2>1. /\ expected' = [at |-> now, until |-> now + MaxPreMutationProofLifetime,
                        record |-> world.record]
        /\ UNCHANGED <<now, world, boundary, clearing>>
    BY <1>4 DEF ReadRecord, passage
  <2>2. ReadThen(expected.record, expected.at)'
    BY <2>1, BoundaryAssumption DEF ReadThen, WorldInv, BoundaryAssumption
  <2>3. issued' => boundary'.at <= now'
    BY <2>1 DEF CleanupInv, issued
  <2>. QED
    BY <1>1, <2>1, <2>2, <2>3 DEF CleanupInv
<1>5. CASE DeleteRule
  <2>1. /\ clearing' = NoClearing
        /\ world' = [world EXCEPT !.rules[clearing.purpose] = Absent]
        /\ UNCHANGED <<now, boundary, expected>>
    BY <1>5 DEF DeleteRule, passage
  <2>2. world'.record = world.record /\ world'.since = world.since
    BY <2>1 DEF WorldInv, WorldShape
  <2>3. issued' => boundary'.at <= now'
    BY <2>1 DEF CleanupInv, issued
  <2>. QED
    BY <2>1, <2>2, <2>3 DEF CleanupInv, ReadThen
<1>6. ASSUME UNCHANGED <<expected, clearing, world.record, world.since>>,
             \/ boundary'.at = now
             \/ boundary' = boundary \/ (issued /\ boundary'.at = boundary.at)
      PROVE  CleanupInv'
  <2>1. issued' => boundary'.at <= now'
    BY <1>1, <1>6 DEF CleanupInv, issued
  <2>. QED
    BY <1>1, <1>6, <2>1, CleanupKept
<1>7. CASE RevalidatePreMutation
  <2>1. boundary'.at = now /\ UNCHANGED <<world, expected, clearing>>
    BY <1>7 DEF RevalidatePreMutation, cleanup
  <2>. QED
    BY <1>6, <2>1
<1>8. ASSUME NEW i \in boundary.intents, ExecuteIntent(i) PROVE CleanupInv'
  <2>1. /\ boundary'.at = boundary.at /\ issued
        /\ UNCHANGED <<expected, clearing>>
    BY <1>8 DEF ExecuteIntent, NoBoundary, issued, cleanup
  <2>2. world'.record = world.record /\ world'.since = world.since
    BY <1>8 DEF ExecuteIntent, WorldInv, WorldShape
  <2>. QED
    BY <1>6, <2>1, <2>2
<1>9. ASSUME NEW w, OthersChange(w), w.record = world.record, w.since = world.since
      PROVE  CleanupInv'
  BY <1>6, <1>9 DEF OthersChange, passage, cleanup
<1>10. ASSUME NEW p \in Purposes, NEW rule, RuleChanges(p, rule) PROVE CleanupInv'
  BY <1>9, <1>10 DEF RuleChanges, WorldInv, WorldShape
<1>11. ASSUME NEW holder, NEW production, LocksChange(holder, production)
       PROVE  CleanupInv'
  BY <1>9, <1>11 DEF LocksChange, WorldInv, WorldShape
<1>12. CASE PermissionsChange
  BY <1>9, <1>12 DEF PermissionsChange, WorldInv, WorldShape
<1>13. ASSUME UNCHANGED <<expected, clearing, world, boundary>> PROVE CleanupInv'
  BY <1>6, <1>13
<1>. QED
  BY <1>2, <1>3, <1>4, <1>5, <1>7, <1>8, <1>10, <1>11, <1>12, <1>13
  DEF BoundaryNext, boundaryVars, passage, cleanup, BoundaryTick, Look,
      AuthorizePreMutation, StartOver, See

\* PassageInv holds before anything has been looked at.
LEMMA PassageStart == BoundaryInit => PassageInv
<1>. SUFFICES ASSUME BoundaryInit PROVE PassageInv
  OBVIOUS
<1>1. BoundaryTypeOK
  BY ClockAssumption DEF BoundaryInit, BoundaryTypeOK, ClockInit, ClockTypeOK,
     ClockAssumption, NoLook, NoDecision, NoBoundary
<1>2. WorldInv
  <2>1. world = [rules |-> [p \in Purposes |-> Absent], holder |-> Operator,
                 production |-> Nobody, granted |-> TRUE, record |-> 1, since |-> now]
    BY DEF BoundaryInit
  <2>2. /\ world.rules = [p \in Purposes |-> Absent] /\ world.holder = Operator
        /\ world.production = Nobody /\ world.granted = TRUE /\ world.record = 1
        /\ world.since = now
    BY <2>1
  <2>3. WorldShape(world)
    BY <2>1, <2>2, Zenon DEF WorldShape
  <2>4. world.record \in DOMAIN Contracts
    BY <2>2, BoundaryAssumption DEF BoundaryAssumption
  <2>5. RulesOfRecord(world.rules, world.record)
    BY <2>2 DEF RulesOfRecord
  <2>. QED
    BY <2>2, <2>3, <2>4, <2>5 DEF BoundaryInit, WorldInv, issued
<1>3. EvidenceInv
  BY DEF BoundaryInit, EvidenceInv, issued
<1>4. CleanupInv
  <2>1. world.since = 1 /\ now = 1
    BY DEF BoundaryInit, ClockInit
  <2>. QED
    BY <2>1 DEF BoundaryInit, CleanupInv, issued
<1>. QED
  BY <1>1, <1>2, <1>3, <1>4 DEF PassageInv

\* The looks, the decision, the boundary and the rules in the world keep the
\* relations the properties below follow from, whatever others change.
THEOREM PassageInvariant == BoundarySpec => []PassageInv
<1>1. PassageInv /\ [BoundaryNext]_boundaryVars => PassageInv'
  BY BoundaryTypeStep, WorldStep, EvidenceStep, CleanupStep DEF PassageInv
<1>. QED
  BY <1>1, PassageStart, PTL DEF BoundarySpec

\* What is sent to the provider rests on two looks in one short window that show
\* one world, in which the operator held its run's lock and no declared
\* environment's, had exactly the pinned permissions, and the rules inserted
\* are those seen absent (AuthorizePreMutation, RevalidatePreMutation).
THEOREM PassageRestsOnLooks == BoundarySpec => []PassRestsOnLooks
<1>1. ASSUME PassageInv, issued PROVE PassRestsOnLooks
  <2>1. /\ evaluatePreMutation(final, boundary.at)
        /\ unchanged(final, inputOf(decision.look))
        /\ decision.at < boundary.look.at
        /\ boundary.look.until = decision.look.until
        /\ pc # "start"
    BY <1>1 DEF PassageInv, EvidenceInv
  <2>2. /\ decision.look.at <= decision.at
        /\ decision.look.until <= decision.look.at + MaxPreMutationProofLifetime
    BY <1>1, <2>1 DEF PassageInv, EvidenceInv
  <2>3. /\ boundary.look.at <= boundary.at /\ boundary.at < boundary.look.until
    BY <2>1, InputShowsLook
    DEF evaluatePreMutation, validateEvidenceFreshness, final
  <2>4. boundary.look.world = decision.look.world
    <3>1. preMutationFingerprint(final) = preMutationFingerprint(inputOf(decision.look))
      BY <2>1 DEF unchanged
    <3>2. /\ "freshness" \in DOMAIN final
          /\ final.freshness.revision = boundary.look.world
      BY InputShowsLook DEF final
    <3>3. /\ "freshness" \in DOMAIN inputOf(decision.look)
          /\ inputOf(decision.look).freshness.revision = decision.look.world
      BY InputShowsLook
    <3>. HIDE DEF final
    <3>4. final.freshness.revision = inputOf(decision.look).freshness.revision
      BY <3>1, <3>2, <3>3, FingerprintFixesRevision
    <3>. QED
      BY <3>2, <3>3, <3>4
  <2>5. ToSet(final.permissions.observed) = Policy.permissions
    BY <2>1 DEF evaluatePreMutation, ValidatePermissionProof,
                PermissionInventoryFingerprint
  <2>6. /\ \E l \in ToSet(final.locks) : /\ l.class = "disposable" /\ l.run = final.run
                                         /\ l.holder = Policy.operator
        /\ \A e \in Policy.environments :
               \E l \in ToSet(final.locks) :
                   l.name = e.name /\ l.holder # Policy.operator
    BY <2>1, LocksProved
  <2>7. {i.target.id : i \in ToSet(final.intents)} =
            {final.observations[k].id :
                k \in {j \in DOMAIN final.observations :
                          final.observations[j].rule = Absent}}
    BY <2>1, InsertsEveryAbsent
  <2>8. /\ decision.look.until \in Nat /\ decision.look.at \in Nat
        /\ MaxPreMutationProofLifetime \in Nat /\ boundary.at \in Nat
    BY <1>1, BoundaryAssumption DEF PassageInv, BoundaryTypeOK, BoundaryAssumption
  <2>9. boundary.at < decision.look.at + MaxPreMutationProofLifetime
    BY <2>1, <2>2, <2>3, <2>8
  <2>. QED
    BY <2>1, <2>2, <2>3, <2>4, <2>5, <2>6, <2>7, <2>9 DEF PassRestsOnLooks
<1>2. PassageInv => PassRestsOnLooks
  BY <1>1 DEF PassRestsOnLooks
<1>. QED
  BY <1>2, PassageInvariant, PTL

\* A rule that the run created, however late, is in reach of the nightly wipe
\* once its lifetime record has expired: the checks of a rule and of its record
\* (validateFirewallRule, validateRunLifetimeContract) imply those of the cleanup
\* (ValidateRunFirewallCleanupTarget).
THEOREM CreatedRulesWipeable == BoundarySpec => []CreatedRulesCanBeWiped
<1>1. ASSUME PassageInv, issued, NEW i \in ToSet(final.intents),
             world.rules[i.create.purpose] = i.create,
             Contracts[world.record] = final.lifetime,
             final.lifetime.expiresAt <= now
      PROVE  ValidateRunFirewallCleanupTarget(
                 [at |-> now, purpose |-> i.create.purpose, rule |-> i.create],
                 final.lifetime,
                 [at |-> now, until |-> now + MaxPreMutationProofLifetime,
                  record |-> world.record],
                 "expired-wipe", now)
  <2>. DEFINE target == [at |-> now, purpose |-> i.create.purpose, rule |-> i.create]
              record == [at |-> now, until |-> now + MaxPreMutationProofLifetime,
                         record |-> world.record]
  <2>1. evaluatePreMutation(final, boundary.at) /\ boundary.at <= now
    BY <1>1 DEF PassageInv, EvidenceInv, CleanupInv
  <2>2. /\ now \in Nat /\ now > 0 /\ MaxPreMutationProofLifetime \in Nat \ {0}
        /\ boundary.at \in Nat
    BY <1>1, BoundaryAssumption, ClockAssumption
    DEF PassageInv, BoundaryTypeOK, ClockTypeOK, BoundaryAssumption, ClockAssumption
  <2>3. /\ i.create \in ToSet(final.rules) /\ i.create.id.key = i.target.id.key
        /\ SelectRunFirewallMutationTargets(final.run, <<i.target>>)
    BY <1>1, <2>1 DEF evaluatePreMutation, validateMutationIntents
  <2>4. validateFirewallRule(i.create, final) /\ validateRunLifetimeContract(final, boundary.at)
    BY <2>1, <2>3 DEF evaluatePreMutation, ValidateFirewallRules
  <2>5. /\ validateResourceIdentity(i.target.id)
        /\ i.target.id.service = "compute" /\ i.target.id.kind = "firewalls"
        /\ i.target.id.scope = "global"
    <3>1. i.target \in ToSet(<<i.target>>)
      BY DEF ToSet
    <3>. QED
      BY <2>3, <3>1 DEF SelectRunFirewallMutationTargets
  <2>6. i.create.id = i.target.id
    BY <2>3, <2>4, <2>5, OneKeyOneIdentity DEF validateFirewallRule
  <2>7. i.create.id.project = Policy.project /\ final.lifetime.project = Policy.project
    BY <2>1, <2>3, <2>4 DEF evaluatePreMutation, validatePreMutationProject,
                            validateFirewallRule
  <2>8. isExactRunFirewallName(i.create.id.name, final.lifetime.run)
    BY <2>4 DEF validateFirewallRule, validateRunLifetimeContract, isExactRunFirewallName
  <2>9. i.create.description =
            RunFirewallDescription(RunLifetimeContractFingerprint(final.lifetime))
    BY <2>4 DEF validateFirewallRule, describesLifetime
  <2>10. /\ validContract(final.lifetime)
         /\ final.lifetime.createdAt < final.lifetime.expiresAt
         /\ final.lifetime.expiresAt - final.lifetime.createdAt <= Policy.limits.lifetime
         /\ final.lifetime.createdAt <= final.freshness.observedAt
         /\ final.freshness.observedAt <= boundary.at
    BY <2>4 DEF validateRunLifetimeContract
  <2>11. final.lifetime.createdAt <= now
    <3>1. final.freshness.observedAt = boundary.look.at
      BY InputShowsLook DEF final
    <3>2. boundary.look.at \in Nat /\ final.lifetime.createdAt \in Nat
      BY <1>1, BoundaryAssumption
      DEF PassageInv, BoundaryTypeOK, WorldInv, BoundaryAssumption
    <3>. QED
      BY <2>1, <2>2, <2>10, <3>1, <3>2
  <2>12. validateOwnershipRecordExpectation(record, now)
    <3>1. record.at # NoRecord.at
      BY <2>2 DEF NoRecord
    <3>. QED
      BY <2>2, <3>1 DEF validateOwnershipRecordExpectation
  <2>13. recordCurrent(final.lifetime, record)
    BY <1>1 DEF recordCurrent
  <2>14. target.at = now /\ target.rule = i.create
    OBVIOUS
  <2>. HIDE DEF target, record
  <2>15. ValidateRunFirewallCleanupTarget(target, final.lifetime, record, "expired-wipe", now)
    BY <1>1, <2>2, <2>4, <2>5, <2>6, <2>7, <2>8, <2>9, <2>10, <2>11, <2>12, <2>13, <2>14
    DEF ValidateRunFirewallCleanupTarget, validateFirewallRule, expiredForWipe
  <2>. QED
    BY <2>15 DEF target, record
<1>2. PassageInv => CreatedRulesCanBeWiped
  BY <1>1 DEF CreatedRulesCanBeWiped
<1>. QED
  BY <1>2, PassageInvariant, PTL

\* A rule of a run that is still alive is taken by the nightly wipe only when it
\* was put at the name after the wipe had looked, by a run whose record has been
\* replaced or whose record took the place of the one that was read, less than a
\* proof lifetime before the check or after it (ValidateRunFirewallCleanupTarget).
THEOREM WipeSpares == BoundarySpec => WipeSparesLiveRuns
<1>1. ASSUME PassageInv, [BoundaryNext]_boundaryVars, wipes, taken # Absent,
             taken.defaults, now < taken.lifetime.expiresAt
      PROVE  /\ taken # clearing.rule
             /\ \/ taken.lifetime # Contracts[world.record]
                \/ clearing.at < world.since + MaxPreMutationProofLifetime
  <2>1. PICK k \in 1..world.record :
            /\ Contracts[k].expiresAt <= clearing.at
            /\ clearing.rule.description = RunFirewallDescription(Contracts[k])
            /\ \/ k = world.record
               \/ clearing.at < world.since + MaxPreMutationProofLifetime
    BY <1>1 DEF PassageInv, CleanupInv, wipes
  <2>2. PICK j \in 1..world.record :
            /\ taken.lifetime = Contracts[j]
            /\ taken.description = RunFirewallDescription(Contracts[j])
    BY <1>1 DEF PassageInv, WorldInv, RulesOfRecord, wipes, taken
  <2>3. now \in Nat /\ clearing.at \in Nat /\ clearing.at <= now
    BY <1>1, ClockAssumption
    DEF PassageInv, CleanupInv, BoundaryTypeOK, ClockTypeOK, ClockAssumption, wipes
  <2>4. Contracts[k].expiresAt \in Nat
    BY <1>1, BoundaryAssumption DEF PassageInv, WorldInv, BoundaryAssumption
  <2>5. taken.lifetime # Contracts[k]
    BY <1>1, <2>1, <2>3, <2>4
  <2>6. taken # clearing.rule
    BY <2>1, <2>2, <2>5 DEF RunFirewallDescription
  <2>. QED
    BY <2>1, <2>5, <2>6
<1>2. PassageInv /\ [BoundaryNext]_boundaryVars => [sparesLiveRuns]_boundaryVars
  BY <1>1 DEF sparesLiveRuns
<1>. QED
  BY <1>2, PassageInvariant, PTL DEF BoundarySpec, WipeSparesLiveRuns
=============================================================================
