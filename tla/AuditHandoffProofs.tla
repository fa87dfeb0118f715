------------------------- MODULE AuditHandoffProofs -------------------------
(***************************************************************************)
(* Proofs about the audit handoff, for any sessions, approval window and   *)
(* number of adverse events: the types; that what K1b records and seals    *)
(* about the irreversible lock is real, whatever other sessions, other     *)
(* users of the bucket and failures do in between; that a foreign bucket   *)
(* is left alone; and that the record chain of one caller stays readable.  *)
(***************************************************************************)
EXTENDS AuditHandoff, FiniteSetTheorems, TLAPS

\* A record of a session is well formed.
LEMMA RecordTyped ==
    ASSUME TypeOK, NEW s \in Sessions, NEW phase \in phases, NEW gen \in Nat
    PROVE  recordFor(s, phase, gen) \in recordSet
<1>1. records[s] \subseteq files /\ IsFiniteSet(files)
  BY DEF TypeOK
<1>2. Cardinality(records[s]) \in Nat
  BY <1>1, FS_Subset, FS_CardinalityType
<1>. QED
  BY <1>2 DEF recordFor, recordSet, TypeOK

\* What append leaves behind is typed.
LEMMA AppendTyped ==
    ASSUME TypeOK, NEW s \in Sessions, NEW phase \in phases, NEW gen \in Nat
    PROVE  LET r == recordFor(s, phase, gen)
           IN  /\ files \cup {r} \subseteq recordSet
               /\ IsFiniteSet(files \cup {r})
               /\ [records EXCEPT ![s] = @ \cup {r}]
                      \in [Sessions -> SUBSET (files \cup {r})]
               /\ records \in [Sessions -> SUBSET (files \cup {r})]
<1>. DEFINE r == recordFor(s, phase, gen)
<1>1. r \in recordSet
  BY RecordTyped
<1>2. IsFiniteSet(files \cup {r})
  BY FS_AddElement DEF TypeOK
<1>. HIDE DEF r
<1>3. files \cup {r} \subseteq recordSet
  BY <1>1 DEF TypeOK
<1>4. /\ [records EXCEPT ![s] = @ \cup {r}]
             \in [Sessions -> SUBSET (files \cup {r})]
      /\ records \in [Sessions -> SUBSET (files \cup {r})]
  BY DEF TypeOK
<1>. QED
  BY <1>2, <1>3, <1>4 DEF r

\* Going on, failing and returning keep the types of pc and outcome.
LEMMA EndsTyped ==
    ASSUME TypeOK, NEW s \in Sessions
    PROVE  /\ \A next \in locations : Goto(s, next) =>
                  /\ pc' \in [Sessions -> locations]
                  /\ outcome' \in [Sessions -> outcomeSet]
           /\ \A chain : FailWith(s, chain) =>
                  /\ pc' \in [Sessions -> locations]
                  /\ outcome' \in [Sessions -> outcomeSet]
           /\ \A recs : Return(s, recs) =>
                  /\ pc' \in [Sessions -> locations]
                  /\ outcome' \in [Sessions -> outcomeSet]
<1>1. "idle" \in locations
  BY DEF locations
<1>2. \A chain : statusLocked(chain) \in BOOLEAN
  BY DEF statusLocked, readHandoffRecords
<1>3. \A recs, phase : phaseReached(recs, phase) \in BOOLEAN
  BY DEF phaseReached
<1>4. stepOf(s) \in {"k1a", "k1b"}
  BY DEF stepOf
<1>5. \A next \in locations : Goto(s, next) =>
          pc' \in [Sessions -> locations] /\ outcome' \in [Sessions -> outcomeSet]
  BY DEF Goto, TypeOK
<1>6. \A chain : FailWith(s, chain) =>
          pc' \in [Sessions -> locations] /\ outcome' \in [Sessions -> outcomeSet]
  BY <1>1, <1>2, <1>4 DEF FailWith, TypeOK, outcomeSet
<1>7. \A recs : Return(s, recs) =>
          pc' \in [Sessions -> locations] /\ outcome' \in [Sessions -> outcomeSet]
  BY <1>1, <1>3, <1>4 DEF Return, TypeOK, outcomeSet
<1>. QED
  BY <1>5, <1>6, <1>7

\* Writing a record keeps the types.
LEMMA RecordKeepsType ==
    ASSUME TypeOK, NEW s \in Sessions, NEW phase \in phases, NEW gen \in Nat,
           NEW next \in locations, Record(s, phase, gen, next)
    PROVE  TypeOK'
<1>1. CASE append(s, phase, gen) /\ Goto(s, next)
  BY <1>1, AppendTyped, EndsTyped DEF TypeOK, Record, append, provider
<1>2. CASE Fail(s) /\ UNCHANGED <<files, records>>
  BY <1>2, EndsTyped DEF TypeOK, Record, Fail, provider
<1>. QED
  BY <1>1, <1>2 DEF Record

\* So does the last record of a call.
LEMMA LastRecordKeepsType ==
    ASSUME TypeOK, NEW s \in Sessions, NEW phase \in phases,
           \/ append(s, phase, 0) /\ Return(s, records'[s])
           \/ Fail(s) /\ UNCHANGED <<files, records>>,
           UNCHANGED <<provider, now, task, seen, adversities, raced>>
    PROVE  TypeOK'
<1>1. CASE append(s, phase, 0) /\ Return(s, records'[s])
  BY <1>1, AppendTyped, EndsTyped DEF TypeOK, append, provider
<1>2. CASE Fail(s) /\ UNCHANGED <<files, records>>
  BY <1>2, EndsTyped DEF TypeOK, Fail, provider
<1>. QED
  BY <1>1, <1>2

\* A request that only reads keeps the types.
LEMMA CheckKeepsType ==
    ASSUME TypeOK, NEW s \in Sessions, NEW ok, NEW next \in locations,
           Check(s, ok, next)
    PROVE  TypeOK'
<1>1. /\ pc' \in [Sessions -> locations]
      /\ outcome' \in [Sessions -> outcomeSet]
  BY EndsTyped DEF Check, Fail
<1>. QED
  BY <1>1 DEF TypeOK, Check, provider, session

\* Changing attributes of a bucket keeps the bucket's type.
LEMMA AttributesTyped ==
    ASSUME NEW b \in bucketSet
    PROVE  /\ \A v \in BOOLEAN : [b EXCEPT !.compliant = v] \in bucketSet
           /\ \A v \in BOOLEAN : [b EXCEPT !.archive = v] \in bucketSet
           /\ \A v \in BOOLEAN : [b EXCEPT !.locked = v] \in bucketSet
           /\ \A v, w \in BOOLEAN :
                  [b EXCEPT !.locked = v, !.lockedByUs = w] \in bucketSet
           /\ \A v \in retentions : [b EXCEPT !.retention = v] \in bucketSet
           /\ [b EXCEPT !.metageneration = @ + 1] \in bucketSet
           /\ b.compliant \in BOOLEAN /\ b.archive \in BOOLEAN
           /\ b.locked \in BOOLEAN /\ b.lockedByUs \in BOOLEAN
           /\ b.retention \in retentions /\ b.metageneration \in Nat
<1>1. \A v \in BOOLEAN : [b EXCEPT !.compliant = v] \in bucketSet
  BY DEF bucketSet
<1>2. \A v \in BOOLEAN : [b EXCEPT !.archive = v] \in bucketSet
  BY DEF bucketSet
<1>3. \A v \in BOOLEAN : [b EXCEPT !.locked = v] \in bucketSet
  BY DEF bucketSet
<1>4. \A v, w \in BOOLEAN :
          [b EXCEPT !.locked = v, !.lockedByUs = w] \in bucketSet
  BY DEF bucketSet
<1>5. \A v \in retentions : [b EXCEPT !.retention = v] \in bucketSet
  BY DEF bucketSet
<1>6. [b EXCEPT !.metageneration = @ + 1] \in bucketSet
  BY DEF bucketSet
<1>7. /\ b.compliant \in BOOLEAN /\ b.archive \in BOOLEAN
      /\ b.locked \in BOOLEAN /\ b.lockedByUs \in BOOLEAN
      /\ b.retention \in retentions /\ b.metageneration \in Nat
  BY DEF bucketSet
<1>. QED
  BY <1>1, <1>2, <1>3, <1>4, <1>5, <1>6, <1>7

\* So are the buckets that come into being.
LEMMA NewBucketsTyped ==
    /\ noBucket \in bucketSet
    /\ [noBucket EXCEPT !.exists = TRUE, !.ours = TRUE, !.metageneration = 1]
           \in bucketSet
    /\ \A a \in BOOLEAN, v \in retentions :
           [noBucket EXCEPT !.exists = TRUE, !.compliant = TRUE, !.archive = a,
                            !.retention = v, !.metageneration = 1] \in bucketSet
<1>1. noBucket \in bucketSet
  BY DEF noBucket, bucketSet, retentions
<1>2. \A b \in bucketSet :
          [b EXCEPT !.exists = TRUE, !.ours = TRUE, !.metageneration = 1]
              \in bucketSet
  BY DEF bucketSet
<1>3. \A b \in bucketSet, a \in BOOLEAN, v \in retentions :
          [b EXCEPT !.exists = TRUE, !.compliant = TRUE, !.archive = a,
                    !.retention = v, !.metageneration = 1] \in bucketSet
  BY DEF bucketSet
<1>. QED
  BY <1>1, <1>2, <1>3

\* What a command does to the bucket keeps the bucket's type.
LEMMA EffectsTyped ==
    ASSUME TypeOK
    PROVE  \/ Creates \/ EnablesVersioning \/ ConfiguresLifecycle
           \/ ConfiguresRetention \/ Locks
           => /\ bucket' \in bucketSet
              /\ UNCHANGED <<object, generations>>
<1>. bucket \in bucketSet
  BY DEF TypeOK
<1>1. Creates => bucket' \in bucketSet
  BY NewBucketsTyped DEF Creates
<1>2. ASSUME NEW changed \in bucketSet, Updates(changed)
      PROVE  bucket' \in bucketSet
  BY <1>2, AttributesTyped DEF Updates
<1>3. /\ [bucket EXCEPT !.compliant = TRUE] \in bucketSet
      /\ [bucket EXCEPT !.archive = TRUE] \in bucketSet
      /\ [bucket EXCEPT !.retention = "audit"] \in bucketSet
  BY AttributesTyped DEF retentions
<1>4. [bucket EXCEPT !.locked = TRUE, !.lockedByUs = @ \/ ~bucket.locked]
          \in bucketSet
  BY AttributesTyped, Zenon
<1>5. EnablesVersioning \/ ConfiguresLifecycle \/ ConfiguresRetention \/ Locks
      => bucket' \in bucketSet
  BY <1>2, <1>3, <1>4
     DEF EnablesVersioning, ConfiguresLifecycle, ConfiguresRetention, Locks
<1>. QED
  BY <1>1, <1>5 DEF Creates, EnablesVersioning, ConfiguresLifecycle,
                    ConfiguresRetention, Locks, Updates

\* Every step keeps the types.
LEMMA TypeStep ==
    ASSUME TypeOK, [Next]_vars
    PROVE  TypeOK'
<1>. USE HandoffAssumption DEF HandoffAssumption
<1>1. ASSUME NEW s \in Sessions, Bootstrap(s) \/ LockRetention(s)
      PROVE  TypeOK'
  <2>1. PICK t \in tasks : open(s, t)
    BY <1>1 DEF Bootstrap, LockRetention, tasks
  <2>2. /\ pc' \in [Sessions -> locations]
        /\ outcome' \in [Sessions -> outcomeSet]
    <3>1. firstStep(files, t) \in locations /\ "seal" \in locations
      BY DEF firstStep, locations
    <3>2. CASE validAt(now) /\ readHandoffRecords(files)
      <4>1. \E next \in locations : Goto(s, next)
        BY <2>1, <3>1, <3>2 DEF open
      <4>. QED
        BY <4>1, EndsTyped
    <3>3. CASE ~validAt(now) \/ ~readHandoffRecords(files)
      <4>1. (t = "bootstrap" /\ validAt(now)) \in BOOLEAN
        BY DEF validAt
      <4>2. /\ UNCHANGED pc
            /\ \E v \in outcomeSet : outcome' = [outcome EXCEPT ![s] = v]
        BY <2>1, <3>3, <4>1 DEF open, outcomeSet
      <4>. QED
        BY <4>2 DEF TypeOK
    <3>. QED
      BY <3>2, <3>3
  <2>3. /\ task' \in [Sessions -> tasks]
        /\ records' \in [Sessions -> SUBSET files]
        /\ seen' \in [Sessions -> sightSet]
    BY <2>1 DEF open, TypeOK, noSight, sightSet, retentions
  <2>. QED
    BY <2>1, <2>2, <2>3 DEF open, TypeOK, provider
<1>2. ASSUME NEW s \in Sessions,
             \/ Seal(s) \/ ClaimBucket(s) \/ RecordCreated(s) \/ RecordLifecycle(s)
             \/ RecordConfigured(s) \/ RecordLockClaim(s) \/ RecordUpload(s)
      PROVE  TypeOK'
  <2>1. \E phase \in phases, gen \in Nat, next \in locations :
            Record(s, phase, gen, next)
    <3>1. /\ firstStep({}, task[s]) \in locations
          /\ uploadPhase[item(s)] \in phases
          /\ seen[s].generation \in Nat
      BY DEF firstStep, locations, uploadPhase, item, objects, phases, TypeOK,
             sightSet
    <3>. QED
      BY <3>1, <1>2 DEF Seal, ClaimBucket, RecordCreated, RecordLifecycle,
          RecordConfigured, RecordLockClaim, RecordUpload, phases, locations
  <2>. QED
    BY <2>1, RecordKeepsType
<1>3. ASSUME NEW s \in Sessions,
             \/ RefuseOutOfOrder(s) \/ EnsureBucket(s) \/ AdoptExistingBucket(s)
             \/ CreateBucket(s) \/ ObserveCreated(s) \/ RemoteObjectMatches(s)
             \/ EnsureLifecycle(s) \/ VerifyEnvelope(s) \/ LockRetentionCall(s)
      PROVE  TypeOK'
  <2>1. \E next \in locations : \E ok : Check(s, ok, next)
    BY <1>3 DEF RefuseOutOfOrder, EnsureBucket, AdoptExistingBucket,
        CreateBucket, ObserveCreated, RemoteObjectMatches, EnsureLifecycle,
        VerifyEnvelope, LockRetentionCall, afterBucket, locations
  <2>. QED
    BY <2>1, CheckKeepsType
<1>4. ASSUME NEW s \in Sessions,
             CreateCommand(s) \/ EnableVersioning(s) \/ ConfigureLifecycle(s)
      PROVE  TypeOK'
  <2>1. /\ bucket' \in bucketSet
        /\ UNCHANGED <<object, generations>>
    BY <1>4, EffectsTyped DEF CreateCommand, EnableVersioning,
        ConfigureLifecycle, Command, provider, TypeOK
  <2>2. \/ Fail(s)
        \/ \E next \in locations : Goto(s, next)
    BY <1>4 DEF CreateCommand, EnableVersioning, ConfigureLifecycle, Command,
        locations
  <2>3. UNCHANGED <<files, now, session, adversities, raced>>
    BY <1>4 DEF CreateCommand, EnableVersioning, ConfigureLifecycle, Command
  <2>. QED
    BY <2>1, <2>2, <2>3, EndsTyped DEF TypeOK, session, Fail
<1>5. ASSUME NEW s \in Sessions, ConfigureRetention(s) \/ LockCommand(s)
      PROVE  TypeOK'
  <2>1. /\ bucket' \in bucketSet
        /\ UNCHANGED <<object, generations>>
    BY <1>5, EffectsTyped DEF ConfigureRetention, LockCommand,
        LockCommandStep, provider, TypeOK
  <2>2. Fail(s) \/ Goto(s, "verifyBucket")
    BY <1>5 DEF ConfigureRetention, LockCommand, LockCommandStep
  <2>3. task' \in [Sessions -> tasks]
    BY <1>5 DEF ConfigureRetention, LockCommand, LockCommandStep, TypeOK, tasks
  <2>4. UNCHANGED <<files, now, records, seen, adversities, raced>>
    BY <1>5 DEF ConfigureRetention, LockCommand, LockCommandStep
  <2>5. "verifyBucket" \in locations
    BY DEF locations
  <2>. QED
    BY <2>1, <2>2, <2>3, <2>4, <2>5, EndsTyped DEF TypeOK, Fail
<1>6. ASSUME NEW s \in Sessions,
             Upload(s) \/ UploadError(s)
      PROVE  TypeOK'
  <2>1. /\ object' \in [objects -> [generation : Nat,
                                    content : {"none", "own", "other"}]]
        /\ generations' \in Nat /\ UNCHANGED bucket
    BY <1>6 DEF Upload, UploadError, UploadUnclear, Uploads, provider, TypeOK
  <2>2. Fail(s) \/ \E next \in locations : Goto(s, next)
    BY <1>6 DEF Upload, UploadError, UploadUnclear, locations
  <2>3. /\ UNCHANGED <<files, now, session, raced>>
        /\ adversities' \in Nat
    BY <1>6 DEF Upload, UploadError, UploadUnclear, Happens, TypeOK
  <2>. QED
    BY <2>1, <2>2, <2>3, EndsTyped DEF TypeOK, session, Fail
<1>7. ASSUME NEW s \in Sessions,
             DescribeUpload(s) \/ DescribeObject(s) \/ VerifyBucket(s)
      PROVE  TypeOK'
  <2>1. /\ seen' \in [Sessions -> sightSet]
        /\ UNCHANGED <<files, provider, now, task, records,
                       adversities, raced>>
    <3>1. \A o \in objects : object[o].generation \in Nat
      BY DEF TypeOK
    <3>2. item(s) \in objects
      BY DEF item, objects
    <3>3. bucket.retention \in retentions /\ bucket.locked \in BOOLEAN
              /\ bucket.metageneration \in Nat
      BY AttributesTyped DEF TypeOK
    <3>4. CASE DescribeUpload(s) \/ DescribeObject(s)
      <4>1. seen[s] \in sightSet
        BY DEF TypeOK
      <4>2. [seen[s] EXCEPT !.generation = object[item(s)].generation] \in sightSet
        BY <3>1, <3>2, <4>1 DEF sightSet
      <4>. QED
        BY <3>4, <4>2 DEF DescribeUpload, DescribeObject, See, TypeOK
    <3>5. CASE VerifyBucket(s)
      BY <3>3, <3>5 DEF VerifyBucket, TypeOK, sightSet
    <3>. QED
      BY <1>7, <3>4, <3>5
  <2>2. Fail(s) \/ \E next \in locations : Goto(s, next)
    BY <1>7 DEF DescribeUpload, DescribeObject, See, VerifyBucket, locations
  <2>. QED
    BY <2>1, <2>2, EndsTyped DEF TypeOK, provider, Fail
<1>8. ASSUME NEW s \in Sessions, VerifyJournal(s)
      PROVE  TypeOK'
  <2>1. \/ Fail(s) \/ Return(s, records[s])
        \/ \E next \in locations : Goto(s, next)
    <3>1. ASSUME Goto(s, inspected(s)), admissible(s),
                 task[s] \in {"inspect", "converge"},
                 task[s] = "inspect" /\ seen[s].locked =>
                     ~reached(s, "retention-locked")
          PROVE  inspected(s) \in locations
      <4>1. seen[s].retention \in retentions
        BY DEF TypeOK, sightSet
      <4>. QED
        BY <3>1, <4>1 DEF inspected, admissible, locations, retentions
    <3>2. task[s] \in tasks
      BY DEF TypeOK
    <3>. QED
      BY <1>8, <3>1, <3>2 DEF VerifyJournal, locations, tasks
  <2>. QED
    BY <1>8, <2>1, EndsTyped DEF VerifyJournal, TypeOK, provider, session, Fail
<1>9. ASSUME NEW s \in Sessions, RecordVerified(s) \/ RecordLocked(s)
      PROVE  TypeOK'
  BY <1>9, LastRecordKeepsType DEF RecordVerified, RecordLocked, phases
<1>10. ASSUME NEW s \in Sessions, Crash(s) \/ PortError(s)
      PROVE  TypeOK'
  <2>1. /\ pc' \in [Sessions -> locations]
        /\ outcome' \in [Sessions -> outcomeSet]
    <3>1. CASE Crash(s)
      BY <3>1 DEF Crash, TypeOK, noOutcome, outcomeSet, locations
    <3>2. CASE PortError(s)
      BY <3>2, EndsTyped DEF PortError, Fail
    <3>. QED
      BY <1>10, <3>1, <3>2
  <2>. QED
    BY <1>10, <2>1 DEF Crash, PortError, Happens, TypeOK, provider, session
<1>11. ASSUME NEW s \in Sessions, CommandUnclear(s)
      PROVE  TypeOK'
  <2>1. bucket' \in bucketSet /\ UNCHANGED <<object, generations>>
    BY <1>11, EffectsTyped DEF CommandUnclear
  <2>2. adversities' \in Nat
    BY <1>11 DEF CommandUnclear, Happens, TypeOK
  <2>. QED
    BY <1>11, <2>1, <2>2, EndsTyped DEF CommandUnclear, TypeOK, Fail
<1>12. ASSUME NEW s \in Sessions, AppendUnclear(s)
      PROVE  TypeOK'
  <2>1. PICK phase \in phases :
            /\ files' = files \cup {recordFor(s, phase, 0)}
            /\ FailWith(s, files \cup {recordFor(s, phase, 0)})
    BY <1>12 DEF AppendUnclear, phases
  <2>2. adversities' \in Nat /\ UNCHANGED <<provider, now, session, raced>>
    BY <1>12 DEF AppendUnclear, Happens, TypeOK
  <2>. QED
    BY <2>1, <2>2, AppendTyped, EndsTyped DEF TypeOK, provider, session
<1>13. CASE Others
  <2>1. bucket \in bucketSet
    BY DEF TypeOK
  <2>2. /\ bucket' \in bucketSet /\ now' \in Nat /\ adversities' \in Nat
        /\ raced' \in BOOLEAN
        /\ object' \in [objects -> [generation : Nat,
                                    content : {"none", "own", "other"}]]
        /\ generations' \in Nat
        /\ UNCHANGED <<files, pc, session, outcome>>
    <3>1. CASE ClockJump
      BY <3>1 DEF ClockJump, Happens, TypeOK, provider
    <3>2. CASE OthersCreateBucket
      <4>1. bucket' \in bucketSet
        BY <3>2, NewBucketsTyped DEF OthersCreateBucket
      <4>. QED
        BY <3>2, <4>1 DEF OthersCreateBucket, Happens, Aside, TypeOK
    <3>3. CASE OthersDeleteBucket
      <4>1. raced' \in BOOLEAN
        BY <3>3, <2>1 DEF OthersDeleteBucket
      <4>2. bucket' \in bucketSet
        BY <3>3, NewBucketsTyped DEF OthersDeleteBucket
      <4>. QED
        BY <3>3, <4>1, <4>2
           DEF OthersDeleteBucket, Happens, Aside, TypeOK
    <3>4. CASE \E o \in objects : OthersChangeObject(o)
      BY <3>4 DEF OthersChangeObject, Happens, Aside, noObject, TypeOK
    <3>5. CASE OthersSetRetention
      <4>1. bucket' \in bucketSet
        BY <3>5, <2>1, AttributesTyped DEF OthersSetRetention, Updates
      <4>2. raced' \in BOOLEAN
        BY <3>5 DEF OthersSetRetention, TypeOK
      <4>. QED
        BY <3>5, <4>1, <4>2 DEF OthersSetRetention, Updates, Happens, Aside, TypeOK
    <3>6. CASE OthersLock
      <4>1. bucket' \in bucketSet
        BY <3>6, <2>1, AttributesTyped DEF OthersLock, Updates
      <4>. QED
        BY <3>6, <4>1 DEF OthersLock, Updates, Happens, Aside, TypeOK
    <3>7. CASE OthersConfigure
      <4>1. bucket' \in bucketSet
        BY <3>7, <2>1, AttributesTyped DEF OthersConfigure, Updates
      <4>. QED
        BY <3>7, <4>1 DEF OthersConfigure, Updates, Happens, Aside, TypeOK
    <3>. QED
      BY <1>13, <3>1, <3>2, <3>3, <3>4, <3>5, <3>6, <3>7 DEF Others
  <2>. QED
    BY <2>2 DEF TypeOK, session
<1>14. CASE UNCHANGED vars
  BY <1>14 DEF TypeOK, vars, provider, session
<1>. QED
  BY <1>1, <1>2, <1>3, <1>4, <1>5, <1>6, <1>7, <1>8, <1>9, <1>10, <1>11, <1>12, <1>13, <1>14
     DEF Next, SessionStep, AdverseSession

\* The initial state is typed.
LEMMA HandoffInitTyped == Init => TypeOK
<1>1. IsFiniteSet({})
  BY FS_EmptySet
<1>2. noBucket \in bucketSet
  BY NewBucketsTyped
<1>3. noSight \in sightSet /\ noOutcome \in outcomeSet
  BY DEF noSight, sightSet, noOutcome, outcomeSet, retentions
<1>4. /\ noObject \in [generation : Nat, content : {"none", "own", "other"}]
      /\ "idle" \in locations /\ "bootstrap" \in tasks /\ ApprovedAt \in Nat
  BY HandoffAssumption DEF HandoffAssumption, noObject, locations, tasks
<1>. SUFFICES ASSUME Init PROVE TypeOK
  OBVIOUS
<1>5. files \subseteq recordSet /\ IsFiniteSet(files)
  BY <1>1 DEF Init
<1>6. /\ object \in [objects -> [generation : Nat,
                                 content : {"none", "own", "other"}]]
      /\ generations \in Nat /\ now \in Nat /\ adversities \in Nat
  BY <1>4 DEF Init
<1>7. bucket \in bucketSet
  BY <1>2 DEF Init
<1>8. /\ pc \in [Sessions -> locations] /\ task \in [Sessions -> tasks]
      /\ records \in [Sessions -> SUBSET files]
  BY <1>4 DEF Init
<1>9. /\ seen \in [Sessions -> sightSet]
      /\ outcome \in [Sessions -> outcomeSet]
  BY <1>3 DEF Init
<1>10. raced \in BOOLEAN
  BY DEF Init
<1>. QED
  BY <1>5, <1>6, <1>7, <1>8, <1>9, <1>10 DEF TypeOK

\* Every variable keeps its type in every behaviour of the handoff.
THEOREM HandoffTypeCorrect == Spec => []TypeOK
<1>. QED
  BY HandoffInitTyped, TypeStep, PTL DEF Spec
-----------------------------------------------------------------------------
(* The irreversible lock: what each step can do.                           *)

Acts(s) == Bootstrap(s) \/ LockRetention(s) \/ SessionStep(s) \/ AdverseSession(s)

\* A session that does not act keeps its memory.
Unmoved(t) == /\ pc'[t] = pc[t] /\ task'[t] = task[t]
              /\ records'[t] = records[t] /\ seen'[t] = seen[t]
              /\ outcome'[t] = outcome[t]

Effects(s) == \/ UNCHANGED provider
              \/ Creates \/ EnablesVersioning \/ ConfiguresLifecycle
              \/ ConfiguresRetention
              \/ Locks /\ pc[s] = "lockCommand"
              \/ \E o \in objects : Uploads(o)

\* Whatever a session does: only its own memory changes, no record is lost,
\* and the provider sees one of the commands or nothing.
ActFrame(s) == /\ \A t \in Sessions \ {s} : Unmoved(t)
               /\ files \subseteq files'
               /\ raced' = raced
               /\ Effects(s)

\* Every action of a session keeps to that frame.
LEMMA Acting ==
    ASSUME TypeOK, NEW s \in Sessions, Acts(s)
    PROVE  ActFrame(s)
<1>. USE DEF ActFrame, Unmoved, Effects
<1>1. CASE Bootstrap(s) \/ LockRetention(s)
  <2>1. PICK t \in tasks : open(s, t)
    BY <1>1 DEF Bootstrap, LockRetention, tasks
  <2>2. \A t0 \in Sessions \ {s} : Unmoved(t0)
    BY <2>1 DEF open, Goto, TypeOK
  <2>. QED
    BY <2>1, <2>2 DEF open
<1>2. ASSUME NEW phase, NEW gen, NEW next, Record(s, phase, gen, next)
      PROVE  ActFrame(s)
  BY <1>2 DEF Record, append, Goto, Fail, FailWith, TypeOK
<1>3. ASSUME NEW ok, NEW next, Check(s, ok, next)
      PROVE  ActFrame(s)
  BY <1>3 DEF Check, Goto, Fail, FailWith, session, TypeOK
<1>4. CASE \/ Seal(s) \/ ClaimBucket(s) \/ RecordCreated(s)
           \/ RecordLifecycle(s) \/ RecordConfigured(s) \/ RecordLockClaim(s)
           \/ RecordUpload(s)
  BY <1>2, <1>4 DEF Seal, ClaimBucket, RecordCreated, RecordLifecycle,
      RecordConfigured, RecordLockClaim, RecordUpload
<1>5. CASE \/ RefuseOutOfOrder(s) \/ EnsureBucket(s) \/ AdoptExistingBucket(s)
           \/ CreateBucket(s) \/ ObserveCreated(s) \/ RemoteObjectMatches(s)
           \/ EnsureLifecycle(s) \/ VerifyEnvelope(s) \/ LockRetentionCall(s)
  BY <1>3, <1>5 DEF RefuseOutOfOrder, EnsureBucket, AdoptExistingBucket,
      CreateBucket, ObserveCreated, RemoteObjectMatches, EnsureLifecycle,
      VerifyEnvelope, LockRetentionCall
<1>6. CASE CreateCommand(s) \/ EnableVersioning(s) \/ ConfigureLifecycle(s)
  <2>1. Effects(s)
    BY <1>6 DEF CreateCommand, EnableVersioning, ConfigureLifecycle, Command
  <2>2. /\ Fail(s) \/ \E next : Goto(s, next)
        /\ UNCHANGED <<files, session, raced>>
    BY <1>6 DEF CreateCommand, EnableVersioning, ConfigureLifecycle, Command
  <2>. QED
    BY <2>1, <2>2 DEF Fail, FailWith, Goto, session, TypeOK
<1>7. CASE ConfigureRetention(s) \/ LockCommand(s)
  <2>1. Effects(s)
    BY <1>7 DEF ConfigureRetention, LockCommand, LockCommandStep
  <2>2. /\ Fail(s) \/ Goto(s, "verifyBucket")
        /\ \A t \in Sessions \ {s} : task'[t] = task[t]
        /\ UNCHANGED <<files, records, seen, raced>>
    BY <1>7 DEF ConfigureRetention, LockCommand, LockCommandStep, TypeOK
  <2>. QED
    BY <2>1, <2>2 DEF Fail, FailWith, Goto, TypeOK
<1>8. CASE Upload(s) \/ UploadError(s)
  <2>1. Effects(s)
    <3>1. item(s) \in objects
      BY DEF item, objects
    <3>. QED
      BY <1>8, <3>1 DEF Upload, UploadError, UploadUnclear
  <2>2. /\ Fail(s) \/ \E next : Goto(s, next)
        /\ UNCHANGED <<files, session, raced>>
    BY <1>8 DEF Upload, UploadError, UploadUnclear
  <2>. QED
    BY <2>1, <2>2 DEF Fail, FailWith, Goto, session, TypeOK
<1>9. CASE DescribeUpload(s) \/ DescribeObject(s) \/ VerifyBucket(s)
  <2>1. /\ \A t \in Sessions \ {s} : seen'[t] = seen[t]
        /\ UNCHANGED <<files, provider, task, records, raced>>
    BY <1>9 DEF DescribeUpload, DescribeObject, See, VerifyBucket, TypeOK
  <2>2. Fail(s) \/ \E next : Goto(s, next)
    BY <1>9 DEF DescribeUpload, DescribeObject, See, VerifyBucket
  <2>. QED
    BY <2>1, <2>2 DEF Fail, FailWith, Goto, TypeOK
<1>10. CASE VerifyJournal(s)
  <2>1. \/ Fail(s) \/ Return(s, records[s]) \/ \E next : Goto(s, next)
    BY <1>10 DEF VerifyJournal
  <2>. QED
    BY <1>10, <2>1 DEF VerifyJournal, Fail, FailWith, Return, Goto, session, TypeOK
<1>11. CASE RecordVerified(s) \/ RecordLocked(s)
  BY <1>11 DEF RecordVerified, RecordLocked, append, Return, Fail, FailWith, TypeOK
<1>12. CASE Crash(s) \/ PortError(s)
  BY <1>12 DEF Crash, PortError, Fail, FailWith, session, TypeOK
<1>13. CASE CommandUnclear(s)
  BY <1>13 DEF CommandUnclear, Fail, FailWith, TypeOK
<1>14. CASE AppendUnclear(s)
  BY <1>14 DEF AppendUnclear, FailWith, session, TypeOK
<1>. QED
  BY <1>1, <1>4, <1>5, <1>6, <1>7, <1>8, <1>9, <1>10, <1>11, <1>12, <1>13, <1>14
     DEF Acts, SessionStep, AdverseSession
-----------------------------------------------------------------------------
(* What any step can do to the bucket and its objects.                     *)

LiveObjects ==
    \A o \in objects : /\ object[o].generation <= generations
                       /\ object[o].generation = 0 <=> object[o].content = "none"
                       /\ object[o].generation = 0 <=> object[o] = noObject

Empty == \A o \in objects : object[o].generation = 0

LockFacts == /\ bucket.locked => bucket.exists /\ bucket.retention # "none"
             /\ bucket.lockedByUs => bucket.locked

ObjectsMove ==
    /\ generations <= generations'
    /\ \A o \in objects : \/ object'[o] = object[o]
                          \/ object'[o].generation = 0
                          \/ object'[o].generation > generations
    /\ \A o \in objects : object'[o] # object[o] /\ object[o].generation # 0 =>
                              bucket.retention = "none"

BucketMoves ==
    /\ bucket.exists /\ ~bucket'.exists => Empty
    /\ bucket.locked /\ ~Empty => bucket'.locked
    /\ bucket.exists /\ bucket'.exists =>
           /\ bucket.metageneration <= bucket'.metageneration
           /\ bucket.metageneration = bucket'.metageneration => bucket' = bucket

RaceMoves ==
    /\ raced => raced'
    /\ bucket.exists /\ ~bucket'.exists /\ ~raced' =>
           ~bucket.ours /\ \A s \in Sessions : pc[s] = "idle"
    /\ bucket.exists /\ bucket.retention # "none"
       /\ bucket'.exists /\ bucket'.retention = "none" /\ ~raced' => \A s \in Sessions : pc[s] # "lockCommand"

\* The bucket the observers follow: locked by a session only by Locks.
LockMoves == bucket'.lockedByUs =>
                 \/ bucket.lockedByUs
                 \/ \E s \in Sessions : pc[s] = "lockCommand"

ProviderStep == /\ ObjectsMove /\ BucketMoves /\ RaceMoves /\ LockMoves
                /\ LiveObjects' /\ LockFacts'

\* An update counts the metageneration up and keeps the objects.
LEMMA UpdateMoves ==
    ASSUME TypeOK, LiveObjects, NEW changed \in bucketSet, Updates(changed),
           changed.metageneration = bucket.metageneration,
           changed.exists = bucket.exists
    PROVE  /\ bucket'.exists /\ bucket.exists
           /\ bucket'.metageneration = bucket.metageneration + 1
           /\ bucket'.locked = changed.locked
           /\ bucket'.lockedByUs = changed.lockedByUs
           /\ bucket'.retention = changed.retention
           /\ bucket'.ours = changed.ours
           /\ UNCHANGED <<object, generations>>
<1>1. bucket' = [changed EXCEPT !.metageneration = @ + 1]
  BY DEF Updates
<1>2. bucket.exists
  BY DEF Updates
<1>. QED
  BY <1>1, <1>2 DEF Updates, bucketSet

\* A step that only updates attributes of the bucket.
LEMMA UpdateStep ==
    ASSUME TypeOK, LiveObjects, LockFacts,
           NEW changed \in bucketSet, Updates(changed),
           changed.metageneration = bucket.metageneration,
           changed.exists = bucket.exists,
           bucket.locked => changed.locked,
           changed.locked => changed.retention # "none",
           changed.lockedByUs => changed.locked,
           changed.lockedByUs =>
               bucket.lockedByUs \/ \E s \in Sessions : pc[s] = "lockCommand",
           raced => raced',
           bucket.retention # "none" /\ changed.retention = "none" /\ ~raced'
               => \A s \in Sessions : pc[s] # "lockCommand"
    PROVE  ProviderStep
<1>1. /\ bucket'.exists /\ bucket.exists
      /\ bucket'.metageneration = bucket.metageneration + 1
      /\ bucket'.locked = changed.locked
      /\ bucket'.lockedByUs = changed.lockedByUs
      /\ bucket'.retention = changed.retention
      /\ UNCHANGED <<object, generations>>
  BY UpdateMoves
<1>2. bucket.metageneration \in Nat /\ generations \in Nat
  BY AttributesTyped DEF TypeOK
<1>3. ObjectsMove
  BY <1>1, <1>2 DEF ObjectsMove
<1>4. BucketMoves
  BY <1>1, <1>2 DEF BucketMoves
<1>5. RaceMoves /\ LockMoves
  BY <1>1 DEF RaceMoves, LockMoves
<1>6. LiveObjects'
  BY <1>1 DEF LiveObjects
<1>7. LockFacts'
  BY <1>1 DEF LockFacts
<1>. QED
  BY <1>3, <1>4, <1>5, <1>6, <1>7 DEF ProviderStep

\* The commands of the sessions.
LEMMA EffectStep ==
    ASSUME TypeOK, LiveObjects, LockFacts, raced' = raced,
           NEW s \in Sessions, Effects(s)
    PROVE  ProviderStep
<1>. bucket \in bucketSet /\ generations \in Nat
  BY DEF TypeOK
<1>1. CASE UNCHANGED provider
  BY <1>1 DEF ProviderStep, ObjectsMove, BucketMoves, RaceMoves, LockMoves,
      LiveObjects, LockFacts, provider, Empty, bucketSet
<1>2. CASE Creates
  <2>1. /\ ~bucket.exists /\ bucket'.exists /\ ~bucket'.locked
        /\ ~bucket'.lockedByUs /\ UNCHANGED <<object, generations>>
    BY <1>2 DEF Creates, noBucket
  <2>2. ~bucket.locked
    BY <2>1 DEF LockFacts
  <2>. QED
    BY <2>1, <2>2 DEF ProviderStep, ObjectsMove, BucketMoves, RaceMoves,
        LockMoves, LiveObjects, LockFacts
<1>3. CASE EnablesVersioning
  <2>. DEFINE c == [bucket EXCEPT !.compliant = TRUE]
  <2>1a. c \in bucketSet
    BY AttributesTyped
  <2>1b. /\ c.metageneration = bucket.metageneration
        /\ c.exists = bucket.exists /\ c.locked = bucket.locked
        /\ c.lockedByUs = bucket.lockedByUs /\ c.retention = bucket.retention
    BY DEF bucketSet
  <2>2. Updates(c)
    BY <1>3 DEF EnablesVersioning
  <2>. HIDE DEF c
  <2>. QED
    BY <2>1a, <2>1b, <2>2, UpdateStep DEF LockFacts
<1>4. CASE ConfiguresLifecycle
  <2>. DEFINE c == [bucket EXCEPT !.archive = TRUE]
  <2>1a. c \in bucketSet
    BY AttributesTyped
  <2>1b. /\ c.metageneration = bucket.metageneration
        /\ c.exists = bucket.exists /\ c.locked = bucket.locked
        /\ c.lockedByUs = bucket.lockedByUs /\ c.retention = bucket.retention
    BY DEF bucketSet
  <2>2. Updates(c)
    BY <1>4 DEF ConfiguresLifecycle
  <2>. HIDE DEF c
  <2>. QED
    BY <2>1a, <2>1b, <2>2, UpdateStep DEF LockFacts
<1>5. CASE ConfiguresRetention
  <2>. DEFINE c == [bucket EXCEPT !.retention = "audit"]
  <2>1a. c \in bucketSet
    BY AttributesTyped DEF retentions
  <2>1b. /\ c.metageneration = bucket.metageneration
        /\ c.exists = bucket.exists /\ c.locked = bucket.locked
        /\ c.lockedByUs = bucket.lockedByUs /\ c.retention = "audit"
    BY DEF bucketSet
  <2>2. Updates(c)
    BY <1>5 DEF ConfiguresRetention
  <2>. HIDE DEF c
  <2>. QED
    BY <2>1a, <2>1b, <2>2, UpdateStep DEF LockFacts
<1>6. CASE Locks /\ pc[s] = "lockCommand"
  <2>. DEFINE c == [bucket EXCEPT !.locked = TRUE,
                                  !.lockedByUs = @ \/ ~bucket.locked]
  <2>1. c \in bucketSet
    BY AttributesTyped, Zenon
  <2>2. /\ c.metageneration = bucket.metageneration
        /\ c.exists = bucket.exists /\ c.locked = TRUE
        /\ c.retention = bucket.retention
    BY DEF bucketSet
  <2>3. Updates(c) /\ bucket.retention # "none"
    BY <1>6 DEF Locks
  <2>. HIDE DEF c
  <2>. QED
    BY <1>6, <2>1, <2>2, <2>3, UpdateStep
<1>7. CASE \E o \in objects : Uploads(o)
  <2>1. PICK o \in objects : Uploads(o)
    BY <1>7
  <2>2. /\ object[o] = noObject /\ UNCHANGED bucket
        /\ generations' = generations + 1
        /\ object'[o].generation = generations + 1
        /\ object'[o].content = "own"
        /\ \A o0 \in objects \ {o} : object'[o0] = object[o0]
    BY <2>1 DEF Uploads, TypeOK
  <2>3. object[o].generation = 0
    BY <2>2 DEF noObject
  <2>4. ObjectsMove
    BY <2>2, <2>3 DEF ObjectsMove
  <2>5. LiveObjects'
    <3>1. object'[o] # noObject
      BY <2>2 DEF noObject
    <3>2. \A o0 \in objects : object[o0].generation \in Nat
      BY DEF TypeOK
    <3>. QED
      BY <2>2, <3>1, <3>2 DEF LiveObjects
  <2>6. BucketMoves /\ RaceMoves /\ LockMoves /\ LockFacts'
    BY <2>2 DEF BucketMoves, RaceMoves, LockMoves, LockFacts, bucketSet
  <2>. QED
    BY <2>4, <2>5, <2>6 DEF ProviderStep
<1>. QED
  BY <1>1, <1>2, <1>3, <1>4, <1>5, <1>6, <1>7 DEF Effects

\* What the other users of the bucket can do.
LEMMA OthersStep ==
    ASSUME TypeOK, LiveObjects, LockFacts, Others
    PROVE  ProviderStep
<1>. bucket \in bucketSet /\ generations \in Nat
  BY DEF TypeOK
<1>1. CASE ClockJump
  BY <1>1 DEF ClockJump, ProviderStep, ObjectsMove, BucketMoves, RaceMoves,
      LockMoves, LiveObjects, LockFacts, provider, Empty, bucketSet
<1>2. CASE OthersCreateBucket
  <2>1. /\ ~bucket.exists /\ bucket'.exists /\ ~bucket'.locked
        /\ ~bucket'.lockedByUs /\ UNCHANGED <<object, generations, raced>>
    BY <1>2 DEF OthersCreateBucket, noBucket
  <2>2. ~bucket.locked
    BY <2>1 DEF LockFacts
  <2>. QED
    BY <2>1, <2>2 DEF ProviderStep, ObjectsMove, BucketMoves, RaceMoves,
        LockMoves, LiveObjects, LockFacts
<1>3. CASE OthersDeleteBucket
  <2>1. /\ bucket.exists /\ ~bucket'.exists /\ ~bucket'.locked
        /\ ~bucket'.lockedByUs /\ UNCHANGED <<object, generations>>
        /\ \A o \in objects : object[o] = noObject
        /\ raced' = (raced \/ bucket.ours \/ Underway(locations \ {"idle"}))
    BY <1>3 DEF OthersDeleteBucket, noBucket
  <2>2. Empty
    BY <2>1 DEF Empty, noObject
  <2>3. RaceMoves
    BY <2>1 DEF RaceMoves, Underway, TypeOK
  <2>. QED
    BY <2>1, <2>2, <2>3 DEF ProviderStep, ObjectsMove, BucketMoves,
        LockMoves, LiveObjects, LockFacts
<1>4. CASE \E o \in objects : OthersChangeObject(o)
  <2>1. PICK o \in objects : OthersChangeObject(o)
    BY <1>4
  <2>2. /\ UNCHANGED <<bucket, raced>>
        /\ \A o0 \in objects \ {o} : object'[o0] = object[o0]
    BY <2>1 DEF OthersChangeObject, TypeOK
  <2>3. \/ /\ generations' = generations /\ object'[o] = noObject
           /\ bucket.retention = "none"
        \/ /\ generations' = generations + 1
           /\ object'[o] = [generation |-> generations + 1, content |-> "other"]
           /\ bucket.retention = "none" \/ object[o] = noObject
    BY <2>1 DEF OthersChangeObject, TypeOK
  <2>4. ObjectsMove
    BY <2>2, <2>3 DEF ObjectsMove, noObject
  <2>5. LiveObjects'
    <3>1. \A o0 \in objects : object[o0].generation \in Nat
      BY DEF TypeOK
    <3>. QED
      BY <2>2, <2>3, <3>1 DEF LiveObjects, noObject
  <2>6. BucketMoves /\ RaceMoves /\ LockMoves /\ LockFacts'
    BY <2>2 DEF BucketMoves, RaceMoves, LockMoves, LockFacts, bucketSet
  <2>. QED
    BY <2>4, <2>5, <2>6 DEF ProviderStep
<1>5. CASE OthersSetRetention
  <2>1. PICK v \in retentions \ {bucket.retention} :
            /\ ~bucket.locked \/ v = "foreign"
            /\ Updates([bucket EXCEPT !.retention = v])
    BY <1>5 DEF OthersSetRetention
  <2>. DEFINE c == [bucket EXCEPT !.retention = v]
  <2>2a. c \in bucketSet
    BY AttributesTyped
  <2>2b. /\ c.metageneration = bucket.metageneration
        /\ c.exists = bucket.exists /\ c.locked = bucket.locked
        /\ c.lockedByUs = bucket.lockedByUs /\ c.retention = v
    BY DEF bucketSet
  <2>3. raced' = (raced \/ Underway({"lockCommand"}))
    BY <1>5 DEF OthersSetRetention
  <2>4. Updates(c)
    BY <2>1
  <2>. HIDE DEF c
  <2>. QED
    BY <2>1, <2>2a, <2>2b, <2>3, <2>4, UpdateStep DEF LockFacts, Underway
<1>6. CASE OthersLock
  <2>. DEFINE c == [bucket EXCEPT !.locked = TRUE]
  <2>1a. c \in bucketSet
    BY AttributesTyped
  <2>1b. /\ c.metageneration = bucket.metageneration
        /\ c.exists = bucket.exists /\ c.locked = TRUE
        /\ c.lockedByUs = bucket.lockedByUs /\ c.retention = bucket.retention
    BY DEF bucketSet
  <2>2. Updates(c) /\ bucket.retention # "none" /\ raced' = raced
    BY <1>6 DEF OthersLock
  <2>. HIDE DEF c
  <2>. QED
    BY <2>1a, <2>1b, <2>2, UpdateStep DEF LockFacts
<1>7. CASE OthersConfigure
  <2>1. PICK c \in {[bucket EXCEPT !.compliant = ~@],
                    [bucket EXCEPT !.archive = ~@]} : Updates(c)
    BY <1>7 DEF OthersConfigure
  <2>2. /\ c \in bucketSet /\ c.metageneration = bucket.metageneration
        /\ c.exists = bucket.exists /\ c.locked = bucket.locked
        /\ c.lockedByUs = bucket.lockedByUs /\ c.retention = bucket.retention
    BY <2>1 DEF bucketSet
  <2>3. raced' = raced
    BY <1>7 DEF OthersConfigure
  <2>. QED
    BY <2>1, <2>2, <2>3, UpdateStep DEF LockFacts
<1>. QED
  BY <1>1, <1>2, <1>3, <1>4, <1>5, <1>6, <1>7 DEF Others

\* One step of anybody.
LEMMA AnyStep ==
    ASSUME TypeOK, LiveObjects, LockFacts, [Next]_vars
    PROVE  /\ ProviderStep
           /\ files \subseteq files'
           /\ \A t \in Sessions : Acts(t) \/ Unmoved(t)
<1>1. ASSUME NEW s \in Sessions, Acts(s)
      PROVE  /\ ProviderStep
             /\ files \subseteq files'
             /\ \A t \in Sessions : Acts(t) \/ Unmoved(t)
  BY <1>1, Acting, EffectStep DEF ActFrame
<1>2. CASE Others
  <2>1. UNCHANGED <<files, pc, session, outcome>>
    BY <1>2 DEF Others, ClockJump, OthersCreateBucket, OthersDeleteBucket,
        OthersChangeObject, OthersSetRetention, OthersLock, OthersConfigure, Aside
  <2>. QED
    BY <1>2, <2>1, OthersStep DEF Unmoved, session
<1>3. CASE UNCHANGED vars
  <2>1. ProviderStep
    BY <1>3 DEF vars, provider, ProviderStep, ObjectsMove, BucketMoves,
        RaceMoves, LockMoves, LiveObjects, LockFacts, Empty, TypeOK, bucketSet
  <2>. QED
    BY <1>3, <2>1 DEF vars, Unmoved, session
<1>. QED
  BY <1>1, <1>2, <1>3 DEF Next, Acts
-----------------------------------------------------------------------------
(* Where a session is and what it has on record.                           *)

BootstrapOnly == {"ensureBucket", "adoptExistingBucket", "claimBucket",
    "createBucket", "createCommand", "enableVersioning", "observeCreated",
    "recordCreated", "upload", "describeUpload", "remoteObjectMatches",
    "describeObject", "recordUpload", "ensureLifecycle", "configureLifecycle",
    "recordLifecycle"}

Verifying == {"verifyBucket", "verifyEnvelope", "verifyJournal"}

LockOnly == {"configureRetention", "recordConfigured", "recordLockClaim",
             "lockRetention", "lockCommand"}

LocalInv(t) ==
    /\ pc[t] \in BootstrapOnly => task[t] = "bootstrap"
    /\ pc[t] \in Verifying /\ task[t] # "bootstrap" =>
           reached(t, "handoff-verified")
    /\ pc[t] \in LockOnly => reached(t, "handoff-verified")
    /\ pc[t] \in LockOnly \cup {"verifyEnvelope", "verifyJournal", "recordLocked"}
           => uploadsDone(records[t])
    /\ pc[t] \in {"lockRetention", "lockCommand"} =>
           reached(t, "retention-lock-claimed")

\* An acting session keeps what it knows in step with where it is.
LEMMA LocalStep ==
    ASSUME TypeOK, NEW s \in Sessions, Acts(s), LocalInv(s)
    PROVE  LocalInv(s)'
<1>. USE DEF LocalInv, BootstrapOnly, Verifying, LockOnly
<1>1. ASSUME pc'[s] \in {"idle", "seal", "outOfOrder"}
      PROVE  LocalInv(s)'
  BY <1>1
<1>2. ASSUME Fail(s) PROVE LocalInv(s)'
  BY <1>1, <1>2 DEF Fail, FailWith, TypeOK
<1>3. CASE Bootstrap(s) \/ LockRetention(s)
  <2>1. PICK t \in tasks : open(s, t) /\ t \in {"bootstrap", "inspect"}
    BY <1>3 DEF Bootstrap, LockRetention, tasks
  <2>2. CASE validAt(now) /\ readHandoffRecords(files)
    <3>1. /\ records'[s] = files /\ task'[s] = t
          /\ pc'[s] = IF phaseReached(files, "envelope-sealed")
                      THEN firstStep(files, t) ELSE "seal"
      BY <2>1, <2>2 DEF open, Goto, TypeOK
    <3>. QED
      BY <2>1, <3>1 DEF firstStep, reached
  <2>3. CASE ~(validAt(now) /\ readHandoffRecords(files))
    <3>1. pc'[s] = "idle"
      BY <2>1, <2>3 DEF open
    <3>. QED
      BY <3>1, <1>1
  <2>. QED
    BY <2>2, <2>3
<1>4. ASSUME NEW phase, NEW gen, NEW next, Record(s, phase, gen, next),
             ~Fail(s)
      PROVE  /\ pc'[s] = next /\ task'[s] = task[s]
             /\ \A p : phaseReached(records[s], p) => phaseReached(records'[s], p)
             /\ phaseReached(records'[s], phase)
  <2>1. append(s, phase, gen) /\ Goto(s, next) /\ UNCHANGED task
    BY <1>4 DEF Record
  <2>2. records'[s] = records[s] \cup {recordFor(s, phase, gen)}
    BY <2>1 DEF append, TypeOK
  <2>3. recordFor(s, phase, gen).phase = phase
    BY DEF recordFor
  <2>. QED
    BY <2>1, <2>2, <2>3 DEF Goto, TypeOK, phaseReached
<1>5. CASE Seal(s) /\ ~Fail(s)
  <2>1. pc'[s] = firstStep({}, task[s]) /\ task'[s] = task[s]
    BY <1>4, <1>5 DEF Seal
  <2>2. pc'[s] = IF task[s] = "bootstrap" THEN "ensureBucket" ELSE "outOfOrder"
    BY <2>1 DEF firstStep, phaseReached
  <2>. QED
    BY <2>1, <2>2
<1>6. CASE \/ ClaimBucket(s) \/ RecordCreated(s) \/ RecordLifecycle(s)
           \/ RecordUpload(s)
  <2>1. CASE ~Fail(s)
    <3>1. /\ pc'[s] \in {"createBucket", "upload", "ensureLifecycle", "verifyBucket"}
          /\ task'[s] = task[s] /\ pc[s] \in BootstrapOnly
      BY <1>4, <1>6, <2>1 DEF ClaimBucket, RecordCreated, RecordLifecycle, RecordUpload
    <3>. QED
      BY <3>1
  <2>. QED
    BY <1>2, <2>1
<1>7. CASE RecordConfigured(s) \/ RecordLockClaim(s)
  <2>1. CASE ~Fail(s)
    <3>1. /\ \A p : phaseReached(records[s], p) => phaseReached(records'[s], p)
          /\ \/ pc'[s] = "recordLockClaim"
             \/ /\ pc'[s] = "lockRetention"
                /\ phaseReached(records'[s], "retention-lock-claimed")
          /\ pc[s] \in LockOnly
      BY <1>4, <1>7, <2>1 DEF RecordConfigured, RecordLockClaim
    <3>. QED
      BY <3>1 DEF reached, uploadsDone
  <2>. QED
    BY <1>2, <2>1
<1>8. ASSUME NEW ok, NEW next, Check(s, ok, next), ~Fail(s)
      PROVE  /\ pc'[s] = next /\ task'[s] = task[s] /\ records'[s] = records[s]
             /\ ok
  BY <1>8 DEF Check, Goto, session, TypeOK
<1>9. CASE \/ RefuseOutOfOrder(s) \/ EnsureBucket(s) \/ AdoptExistingBucket(s)
           \/ CreateBucket(s) \/ ObserveCreated(s) \/ RemoteObjectMatches(s)
           \/ EnsureLifecycle(s)
  <2>1. CASE ~Fail(s)
    <3>1. /\ task'[s] = task[s]
          /\ \/ pc'[s] = "idle"
             \/ pc[s] \in BootstrapOnly /\ pc'[s] \in BootstrapOnly \cup {"verifyBucket"}
      BY <1>8, <1>9, <2>1 DEF RefuseOutOfOrder, EnsureBucket,
          AdoptExistingBucket, CreateBucket, ObserveCreated,
          RemoteObjectMatches, EnsureLifecycle, afterBucket
    <3>. QED
      BY <3>1
  <2>. QED
    BY <1>2, <2>1
<1>10. CASE VerifyEnvelope(s) \/ LockRetentionCall(s)
  <2>1. CASE ~Fail(s)
    <3>1. /\ task'[s] = task[s] /\ records'[s] = records[s]
          /\ \/ pc[s] = "verifyEnvelope" /\ pc'[s] = "verifyJournal"
             \/ pc[s] = "lockRetention" /\ pc'[s] = "lockCommand"
      BY <1>8, <1>10, <2>1 DEF VerifyEnvelope, LockRetentionCall
    <3>. QED
      BY <3>1 DEF reached, uploadsDone
  <2>. QED
    BY <1>2, <2>1
<1>11. CASE CreateCommand(s) \/ EnableVersioning(s) \/ ConfigureLifecycle(s)
  <2>1. CASE ~Fail(s)
    <3>1. /\ task'[s] = task[s] /\ pc[s] \in BootstrapOnly
          /\ pc'[s] \in {"enableVersioning", "observeCreated", "recordLifecycle"}
      BY <1>11, <2>1 DEF CreateCommand, EnableVersioning, ConfigureLifecycle,
          Command, Goto, session, TypeOK
    <3>. QED
      BY <3>1
  <2>. QED
    BY <1>2, <2>1
<1>12. CASE ConfigureRetention(s) \/ LockCommand(s)
  <2>1. CASE ~Fail(s)
    <3>1. /\ records'[s] = records[s] /\ pc[s] \in LockOnly
          /\ pc'[s] = "verifyBucket"
      BY <1>12, <2>1 DEF ConfigureRetention, LockCommand, LockCommandStep,
          Goto, TypeOK
    <3>. QED
      BY <3>1 DEF reached, uploadsDone
  <2>. QED
    BY <1>2, <2>1
<1>13. CASE Upload(s) \/ UploadError(s) \/ DescribeUpload(s) \/ DescribeObject(s)
  <2>1. CASE ~Fail(s)
    <3>1. /\ task'[s] = task[s] /\ pc[s] \in BootstrapOnly
          /\ pc'[s] \in {"describeUpload", "remoteObjectMatches", "recordUpload"}
      BY <1>13, <2>1 DEF Upload, UploadError, UploadUnclear, DescribeUpload,
          DescribeObject, See, Goto, session, TypeOK
    <3>. QED
      BY <3>1
  <2>. QED
    BY <1>2, <2>1
<1>14. CASE VerifyBucket(s)
  <2>1. CASE ~Fail(s)
    <3>1. /\ records'[s] = records[s] /\ task'[s] = task[s]
          /\ pc[s] = "verifyBucket" /\ pc'[s] = "verifyEnvelope"
          /\ uploadsDone(records[s])
      BY <1>14, <2>1 DEF VerifyBucket, Goto, TypeOK
    <3>. QED
      BY <3>1 DEF reached, uploadsDone
  <2>. QED
    BY <1>2, <2>1
<1>15. CASE VerifyJournal(s)
  <2>1. CASE ~Fail(s)
    <3>1. /\ records'[s] = records[s] /\ task'[s] = task[s]
          /\ pc[s] = "verifyJournal"
          /\ admissible(s)
      BY <1>15, <2>1 DEF VerifyJournal, session
    <3>2. \/ pc'[s] = "idle"
          \/ pc'[s] = "recordVerified"
          \/ task[s] = "confirmLock" /\ pc'[s] = "recordLocked"
          \/ /\ pc'[s] = inspected(s) /\ task[s] \in {"inspect", "converge"}
             /\ task[s] = "inspect" /\ seen[s].locked =>
                    ~reached(s, "retention-locked")
      BY <1>15, <2>1 DEF VerifyJournal, Goto, Return, TypeOK, tasks
    <3>3. seen[s].retention \in retentions
      BY DEF TypeOK, sightSet
    <3>4. CASE /\ pc'[s] = inspected(s) /\ task[s] \in {"inspect", "converge"}
               /\ task[s] = "inspect" /\ seen[s].locked =>
                      ~reached(s, "retention-locked")
      <4>1. \/ pc'[s] \in {"recordLocked", "configureRetention",
                           "recordConfigured", "recordLockClaim"}
            \/ pc'[s] = "lockRetention" /\ reached(s, "retention-lock-claimed")
        BY <3>1, <3>3, <3>4 DEF inspected, admissible, retentions
      <4>. QED
        BY <3>1, <3>4, <4>1 DEF reached, uploadsDone
    <3>. QED
      BY <3>1, <3>2, <3>4 DEF reached, uploadsDone
  <2>. QED
    BY <1>2, <2>1
<1>16. CASE RecordVerified(s) \/ RecordLocked(s) \/ Crash(s) \/ PortError(s)
            \/ CommandUnclear(s) \/ AppendUnclear(s)
  <2>1. pc'[s] = "idle"
    BY <1>16 DEF RecordVerified, RecordLocked, Crash, PortError,
        CommandUnclear, AppendUnclear, Return, Fail, FailWith, TypeOK
  <2>. QED
    BY <1>1, <2>1
<1>. QED
  BY <1>2, <1>3, <1>5, <1>6, <1>7, <1>9, <1>10, <1>11, <1>12, <1>13, <1>14,
     <1>15, <1>16 DEF Acts, SessionStep, AdverseSession, Seal
-----------------------------------------------------------------------------
(* What an act adds to the directory, and where it can lead.               *)

\* A new upload record describes the version the session saw; a new lock
\* record comes from the end of LockRetention.
LEMMA NewRecord ==
    ASSUME TypeOK, NEW s \in Sessions, Acts(s), NEW r \in files' \ files
    PROVE  /\ UNCHANGED provider
           /\ r.phase = "retention-locked" => pc[s] = "recordLocked"
           /\ \A o \in objects : r.phase = uploadPhase[o] =>
                  /\ pc[s] = "recordUpload" /\ o = item(s)
                  /\ r.generation = seen[s].generation
<1>1. ASSUME NEW phase, NEW gen, NEW next, Record(s, phase, gen, next)
      PROVE  r.phase = phase /\ r.generation = gen /\ UNCHANGED provider
  BY <1>1 DEF Record, append, recordFor, Fail, FailWith
<1>2. CASE files' = files
  BY <1>2
<1>3. CASE \/ Seal(s) \/ ClaimBucket(s) \/ RecordCreated(s)
           \/ RecordLifecycle(s) \/ RecordConfigured(s) \/ RecordLockClaim(s)
  <2>1. /\ UNCHANGED provider
        /\ r.phase \in {"envelope-sealed", "audit-bucket-create-claimed",
               "audit-bucket-created", "lifecycle-configured",
               "retention-configured", "retention-lock-claimed"}
    BY <1>1, <1>3 DEF Seal, ClaimBucket, RecordCreated, RecordLifecycle,
        RecordConfigured, RecordLockClaim
  <2>. QED
    BY <2>1 DEF uploadPhase, objects
<1>4. CASE RecordUpload(s)
  <2>1. /\ UNCHANGED provider /\ pc[s] = "recordUpload"
        /\ r.phase = uploadPhase[item(s)]
        /\ r.generation = seen[s].generation
    BY <1>1, <1>4 DEF RecordUpload
  <2>. QED
    BY <2>1 DEF uploadPhase, objects, item
<1>5. CASE RecordVerified(s) \/ RecordLocked(s) \/ AppendUnclear(s)
  <2>1. /\ UNCHANGED provider
        /\ \/ r.phase = "handoff-verified"
           \/ r.phase = "retention-locked" /\ pc[s] = "recordLocked"
    BY <1>5 DEF RecordVerified, RecordLocked, AppendUnclear, append, recordFor
  <2>. QED
    BY <2>1 DEF uploadPhase, objects
<1>6. CASE \/ Bootstrap(s) \/ LockRetention(s)
           \/ RefuseOutOfOrder(s) \/ EnsureBucket(s) \/ AdoptExistingBucket(s)
           \/ CreateBucket(s) \/ ObserveCreated(s) \/ RemoteObjectMatches(s)
           \/ EnsureLifecycle(s) \/ VerifyEnvelope(s) \/ LockRetentionCall(s)
  BY <1>2, <1>6 DEF Bootstrap, LockRetention, open, RefuseOutOfOrder,
      EnsureBucket, AdoptExistingBucket, CreateBucket, ObserveCreated,
      RemoteObjectMatches, EnsureLifecycle, VerifyEnvelope, LockRetentionCall,
      Check
<1>7. CASE \/ CreateCommand(s) \/ EnableVersioning(s) \/ ConfigureLifecycle(s)
           \/ ConfigureRetention(s) \/ LockCommand(s)
           \/ Upload(s) \/ UploadError(s) \/ DescribeUpload(s)
           \/ DescribeObject(s) \/ VerifyBucket(s) \/ VerifyJournal(s)
           \/ Crash(s) \/ PortError(s) \/ CommandUnclear(s)
  BY <1>2, <1>7 DEF CreateCommand, EnableVersioning, ConfigureLifecycle,
      ConfigureRetention, LockCommand, LockCommandStep, Command, Upload,
      UploadError, UploadUnclear, DescribeUpload, DescribeObject, See,
      VerifyBucket, VerifyJournal, Crash, PortError, CommandUnclear
<1>. QED
  BY <1>3, <1>4, <1>5, <1>6, <1>7 DEF Acts, SessionStep, AdverseSession

Watched == {"recordUpload", "verifyEnvelope", "verifyJournal",
    "recordConfigured", "recordLockClaim", "lockRetention", "lockCommand",
    "recordLocked"}

\* How a session comes to the places where it relies on what it saw.
Arrival(s) ==
    \/ /\ pc'[s] = "recordUpload"
       /\ object[item(s)].content = "own"
       /\ seen'[s].generation = object[item(s)].generation
       /\ records'[s] = records[s]
    \/ /\ pc'[s] = "verifyEnvelope"
       /\ bucket.exists /\ records'[s] = records[s]
       /\ seen'[s].retention = bucket.retention
       /\ seen'[s].locked = bucket.locked
       /\ seen'[s].metageneration = bucket.metageneration
    \/ /\ pc[s] = "verifyEnvelope" /\ pc'[s] = "verifyJournal"
       /\ objectVerified(records[s], "envelope")
       /\ seen'[s] = seen[s] /\ records'[s] = records[s]
    \/ /\ pc[s] = "verifyJournal"
       /\ objectVerified(records[s], "journal")
       /\ seen'[s] = seen[s] /\ records'[s] = records[s]
       /\ \/ pc'[s] = "recordLocked" /\ seen[s].locked
          \/ /\ pc'[s] \in {"recordConfigured", "recordLockClaim", "lockRetention"}
             /\ seen[s].retention = "audit"
    \/ /\ pc[s] \in {"recordConfigured", "recordLockClaim"}
       /\ pc'[s] \in {"recordLockClaim", "lockRetention"}
       /\ seen'[s] = seen[s]
       /\ records[s] \subseteq records'[s]
       /\ \A r \in records'[s] \ records[s] :
              r.phase \in {"retention-configured", "retention-lock-claimed"}
    \/ /\ pc[s] = "lockRetention" /\ pc'[s] = "lockCommand" /\ lockable(s)
       /\ seen'[s] = seen[s] /\ records'[s] = records[s]

\* No other action leads there, and none of these touches the provider.
LEMMA Arriving ==
    ASSUME TypeOK, NEW s \in Sessions, Acts(s), pc'[s] \in Watched
    PROVE  Arrival(s) /\ UNCHANGED provider
<1>. USE DEF Watched
<1>1. ~Fail(s) /\ pc'[s] # "idle"
  BY DEF Fail, FailWith, TypeOK
<1>2. ASSUME NEW ok, NEW next, Check(s, ok, next)
      PROVE  /\ ok /\ pc'[s] = next /\ seen'[s] = seen[s]
             /\ records'[s] = records[s] /\ UNCHANGED provider
  BY <1>1, <1>2 DEF Check, Goto, session, TypeOK
<1>3. ASSUME NEW phase, NEW gen, NEW next, Record(s, phase, gen, next)
      PROVE  /\ pc'[s] = next /\ seen'[s] = seen[s] /\ UNCHANGED provider
             /\ records'[s] = records[s] \cup {recordFor(s, phase, gen)}
  BY <1>1, <1>3 DEF Record, append, Goto, TypeOK
<1>4. CASE DescribeUpload(s) \/ DescribeObject(s)
  BY <1>1, <1>4 DEF DescribeUpload, DescribeObject, See, describesOwn, Goto,
      TypeOK, sightSet, Arrival
<1>5. CASE VerifyBucket(s)
  BY <1>1, <1>5 DEF VerifyBucket, checkCommonState, Goto, TypeOK, Arrival
<1>6. CASE VerifyEnvelope(s) \/ LockRetentionCall(s)
  BY <1>2, <1>6 DEF VerifyEnvelope, LockRetentionCall, Arrival
<1>7. CASE VerifyJournal(s)
  <2>1. /\ records'[s] = records[s] /\ seen'[s] = seen[s]
        /\ pc[s] = "verifyJournal" /\ UNCHANGED provider
        /\ admissible(s) /\ objectVerified(records[s], "journal")
    BY <1>1, <1>7 DEF VerifyJournal, session
  <2>2. \/ pc'[s] = "recordVerified"
        \/ task[s] = "confirmLock" /\ pc'[s] = "recordLocked"
        \/ /\ pc'[s] = inspected(s) /\ task[s] \in {"inspect", "converge"}
           /\ task[s] = "inspect" /\ seen[s].locked =>
                  ~reached(s, "retention-locked")
    BY <1>1, <1>7 DEF VerifyJournal, Goto, Return, TypeOK, tasks
  <2>3. seen[s].retention \in retentions
    BY DEF TypeOK, sightSet
  <2>4. CASE task[s] = "confirmLock" /\ pc'[s] = "recordLocked"
    BY <2>1, <2>4 DEF admissible, Arrival
  <2>5. CASE /\ pc'[s] = inspected(s) /\ task[s] \in {"inspect", "converge"}
             /\ task[s] = "inspect" /\ seen[s].locked =>
                    ~reached(s, "retention-locked")
    <3>1. \/ pc'[s] = "recordLocked" /\ seen[s].locked
          \/ pc'[s] = "configureRetention"
          \/ /\ pc'[s] \in {"recordConfigured", "recordLockClaim", "lockRetention"}
             /\ seen[s].retention = "audit"
      BY <2>1, <2>3, <2>5 DEF inspected, admissible, retentions
    <3>. QED
      BY <2>1, <3>1 DEF Arrival
  <2>. QED
    BY <2>1, <2>2, <2>4, <2>5
<1>8. CASE RecordConfigured(s) \/ RecordLockClaim(s)
  <2>1. /\ pc[s] \in {"recordConfigured", "recordLockClaim"}
        /\ pc'[s] \in {"recordLockClaim", "lockRetention"}
        /\ seen'[s] = seen[s] /\ UNCHANGED provider
        /\ \E phase \in {"retention-configured", "retention-lock-claimed"} :
               records'[s] = records[s] \cup {recordFor(s, phase, 0)}
    BY <1>3, <1>8 DEF RecordConfigured, RecordLockClaim
  <2>. QED
    BY <2>1 DEF Arrival, recordFor
<1>9. CASE \/ Seal(s) \/ ClaimBucket(s) \/ RecordCreated(s)
           \/ RecordLifecycle(s) \/ RecordUpload(s)
  BY <1>3, <1>9 DEF Seal, ClaimBucket, RecordCreated, RecordLifecycle,
      RecordUpload, firstStep
<1>10. CASE \/ RefuseOutOfOrder(s) \/ EnsureBucket(s) \/ AdoptExistingBucket(s)
            \/ CreateBucket(s) \/ ObserveCreated(s) \/ RemoteObjectMatches(s)
            \/ EnsureLifecycle(s)
  BY <1>2, <1>10 DEF RefuseOutOfOrder, EnsureBucket, AdoptExistingBucket,
      CreateBucket, ObserveCreated, RemoteObjectMatches, EnsureLifecycle,
      afterBucket
<1>11. CASE \/ CreateCommand(s) \/ EnableVersioning(s) \/ ConfigureLifecycle(s)
            \/ ConfigureRetention(s) \/ LockCommand(s)
            \/ Upload(s) \/ UploadError(s)
  <2>1. \E next \in {"enableVersioning", "observeCreated", "recordLifecycle",
                     "verifyBucket", "describeUpload", "remoteObjectMatches"} :
            Goto(s, next)
    BY <1>1, <1>11 DEF CreateCommand, EnableVersioning, ConfigureLifecycle,
        ConfigureRetention, LockCommand, LockCommandStep, Command, Upload,
        UploadError, UploadUnclear
  <2>. QED
    BY <2>1 DEF Goto, TypeOK
<1>12. CASE Bootstrap(s) \/ LockRetention(s)
  <2>1. pc'[s] \in {"idle", "seal", "verifyBucket", "ensureBucket", "outOfOrder"}
    BY <1>12 DEF Bootstrap, LockRetention, open, Goto, firstStep, TypeOK
  <2>. QED
    BY <2>1
<1>13. CASE \/ RecordVerified(s) \/ RecordLocked(s) \/ Crash(s) \/ PortError(s)
            \/ CommandUnclear(s) \/ AppendUnclear(s)
  BY <1>1, <1>13 DEF RecordVerified, RecordLocked, Crash, PortError,
      CommandUnclear, AppendUnclear, Return, FailWith, TypeOK
<1>. QED
  BY <1>4, <1>5, <1>6, <1>7, <1>8, <1>9, <1>10, <1>11, <1>12, <1>13
     DEF Acts, SessionStep, AdverseSession
-----------------------------------------------------------------------------
(* The inductive invariant.                                                *)

\* Versions on record, and the one a session is about to record, exist and
\* hold the operation's content as long as they are live.
VersionsInv ==
    /\ \A r \in files, o \in objects : r.phase = uploadPhase[o] =>
           r.generation \in 1..generations
    /\ \A t \in Sessions : pc[t] = "recordUpload" =>
           /\ seen[t].generation \in 1..generations
           /\ object[item(t)].generation = seen[t].generation =>
                  object[item(t)].content = "own"
    /\ RecordedUploadIsOwn

Verified(t, o) == objectVerified(records[t], o)

Replaced(t, o) == \E r \in records[t] : /\ r.phase = uploadPhase[o]
                                        /\ r.generation # object[o].generation

\* A session that saw the bucket locked: the lock is still there, or the
\* recorded version is gone for good and the session will notice.
SealInv(t) ==
    /\ pc[t] = "verifyEnvelope" /\ seen[t].locked =>
           bucket.locked \/ Replaced(t, "envelope")
    /\ pc[t] = "verifyJournal" /\ seen[t].locked =>
           bucket.locked /\ Verified(t, "envelope")
    /\ pc[t] = "recordLocked" =>
           bucket.locked /\ \A o \in objects : Verified(t, o)

SameBucket(t) == bucket.metageneration = seen[t].metageneration

\* A session that saw the bucket unlocked: as long as the metageneration it saw
\* stands, so do the retention period and what the period protects.
WindowInv(t) ==
    ~raced =>
    /\ pc[t] \in {"verifyEnvelope", "verifyJournal", "recordConfigured",
                  "recordLockClaim", "lockRetention"} =>
           /\ bucket.exists
           /\ seen[t].metageneration <= bucket.metageneration
           /\ SameBucket(t) => bucket.retention = seen[t].retention
    /\ pc[t] = "verifyJournal" /\ SameBucket(t) /\ bucket.retention # "none" =>
           Verified(t, "envelope")
    /\ pc[t] \in {"recordConfigured", "recordLockClaim", "lockRetention"}
       /\ SameBucket(t) /\ bucket.retention # "none" =>
           \A o \in objects : Verified(t, o)
    /\ pc[t] = "lockCommand" =>
           /\ bucket.exists /\ bucket.retention # "none"
           /\ \A o \in objects : Verified(t, o)

OutcomeInv == \A t \in Sessions : outcome[t].step = "k1b" /\ outcome[t].verified
                                      => phaseReached(files, "retention-locked")

HandoffInv == /\ TypeOK /\ LiveObjects /\ LockFacts /\ VersionsInv
              /\ \A t \in Sessions : LocalInv(t) /\ SealInv(t) /\ WindowInv(t)
              /\ OutcomeInv /\ RecordedLockIsReal /\ LockSealsHandoff

\* A live version under a retention period outlives any step.
LEMMA Protected ==
    ASSUME TypeOK, LiveObjects, LockFacts, ProviderStep,
           NEW o \in objects, object[o].content # "none",
           bucket.exists, bucket.retention # "none"
    PROVE  /\ object'[o] = object[o] /\ bucket'.exists
           /\ bucket.locked => bucket'.locked
<1>1. object[o].generation # 0
  BY DEF LiveObjects
<1>. QED
  BY <1>1 DEF ProviderStep, ObjectsMove, BucketMoves, Empty

\* Recorded versions and those about to be recorded stay the operation's.
LEMMA VersionsStep ==
    ASSUME TypeOK, LiveObjects, LockFacts, VersionsInv, [Next]_vars
    PROVE  VersionsInv'
<1>1. /\ ProviderStep /\ files \subseteq files'
      /\ \A t \in Sessions : Acts(t) \/ Unmoved(t)
  BY AnyStep
<1>2. /\ generations \in Nat /\ generations' \in Nat
      /\ \A o \in objects : object[o].generation \in Nat
      /\ \A o \in objects : object'[o].generation \in Nat
      /\ generations <= generations'
      /\ \A o \in objects : \/ object'[o] = object[o]
                            \/ object'[o].generation = 0
                            \/ object'[o].generation > generations
  <2>1. TypeOK'
    BY TypeStep
  <2>. QED
    BY <1>1, <2>1 DEF TypeOK, ProviderStep, ObjectsMove
<1>3. ASSUME NEW g \in 1..generations, NEW o \in objects,
             object[o].generation = g => object[o].content = "own"
      PROVE  /\ g \in 1..generations'
             /\ object'[o].generation = g => object'[o].content = "own"
  BY <1>2, <1>3
<1>4. \A s \in Sessions : item(s) \in objects
  BY DEF item, objects
<1>5. ASSUME NEW r \in files', NEW o \in objects, r.phase = uploadPhase[o]
      PROVE  /\ r.generation \in 1..generations'
             /\ object'[o].generation = r.generation => object'[o].content = "own"
  <2>1. CASE r \in files
    BY <1>3, <1>5, <2>1 DEF VersionsInv, RecordedUploadIsOwn
  <2>2. CASE r \notin files
    <3>1. PICK s \in Sessions : Acts(s)
      <4>1. files' # files
        BY <2>2, <1>5
      <4>2. ~Others /\ ~UNCHANGED vars
        BY <4>1 DEF Others, ClockJump, OthersCreateBucket, OthersDeleteBucket,
            OthersChangeObject, OthersSetRetention, OthersLock,
            OthersConfigure, Aside, vars
      <4>. QED
        BY <4>2 DEF Next, Acts
    <3>2. /\ pc[s] = "recordUpload" /\ o = item(s)
          /\ r.generation = seen[s].generation
      BY <1>5, <2>2, <3>1, NewRecord
    <3>. QED
      BY <1>3, <1>4, <3>2 DEF VersionsInv
  <2>. QED
    BY <2>1, <2>2
<1>6. ASSUME NEW t \in Sessions, pc'[t] = "recordUpload"
      PROVE  /\ seen'[t].generation \in 1..generations'
             /\ object'[item(t)'].generation = seen'[t].generation =>
                    object'[item(t)'].content = "own"
  <2>1. CASE Unmoved(t)
    <3>1. item(t)' = item(t) /\ seen'[t] = seen[t] /\ pc[t] = "recordUpload"
      BY <1>6, <2>1 DEF Unmoved, item, reached
    <3>. QED
      BY <1>3, <1>4, <3>1 DEF VersionsInv
  <2>2. CASE Acts(t)
    <3>1. Arrival(t) /\ UNCHANGED provider
      BY <1>6, <2>2, Arriving DEF Watched
    <3>2. /\ object[item(t)].content = "own" /\ records'[t] = records[t]
          /\ seen'[t].generation = object[item(t)].generation
      BY <1>6, <3>1 DEF Arrival
    <3>3. item(t)' = item(t)
      BY <3>2 DEF item, reached
    <3>4. object[item(t)].generation \in 1..generations
      BY <1>2, <1>4, <3>2 DEF LiveObjects
    <3>. QED
      BY <3>1, <3>2, <3>3, <3>4 DEF provider
  <2>. QED
    BY <1>1, <2>1, <2>2
<1>. QED
  BY <1>5, <1>6 DEF VersionsInv, RecordedUploadIsOwn

\* What a verified object is worth: it is live, and records agree with it.
LEMMA VerifiedFacts ==
    ASSUME TypeOK, LiveObjects, NEW t \in Sessions, NEW o \in objects
    PROVE  /\ Verified(t, o) => object[o].content = "own"
           /\ Verified(t, o) => ~Replaced(t, o)
           /\ /\ Verified(t, o) /\ object'[o] = object[o]
              /\ \A r \in records'[t] : r.phase = uploadPhase[o] => r \in records[t]
              => Verified(t, o)'
BY DEF Verified, objectVerified, Replaced

\* SealInv of a session that did not act.
LEMMA SealKept ==
    ASSUME TypeOK, LiveObjects, LockFacts, VersionsInv, NEW t \in Sessions,
           LocalInv(t), SealInv(t), ProviderStep, Unmoved(t)
    PROVE  SealInv(t)'
<1>. USE DEF Unmoved
<1>1. "envelope" \in objects /\ "journal" \in objects
  BY DEF objects
<1>2. bucket.locked => bucket.exists /\ bucket.retention # "none"
  BY DEF LockFacts
<1>3. ASSUME NEW o \in objects, bucket.locked, Verified(t, o)
      PROVE  bucket'.locked /\ Verified(t, o)'
  BY <1>2, <1>3, Protected, VerifiedFacts
<1>4. ASSUME pc[t] = "verifyEnvelope", bucket.locked \/ Replaced(t, "envelope")
      PROVE  bucket'.locked \/ Replaced(t, "envelope")'
  <2>1. PICK r \in records[t] : r.phase = uploadPhase["envelope"]
    BY <1>4 DEF LocalInv, uploadsDone, phaseReached, uploadPhase, objects
  <2>2. \A q \in records[t] : q.phase = uploadPhase["envelope"] =>
            q.generation \in 1..generations
    BY <1>1 DEF VersionsInv, TypeOK
  <2>3. CASE Replaced(t, "envelope")
    <3>1. PICK q \in records[t] : /\ q.phase = uploadPhase["envelope"]
                                  /\ q.generation # object["envelope"].generation
      BY <2>3 DEF Replaced
    <3>2. q.generation # object'["envelope"].generation
      BY <1>1, <2>2, <3>1 DEF ProviderStep, ObjectsMove, TypeOK
    <3>. QED
      BY <3>1, <3>2 DEF Replaced
  <2>4. CASE bucket.locked /\ ~bucket'.locked
    <3>1. Empty
      BY <2>4 DEF ProviderStep, BucketMoves
    <3>2. object["envelope"].generation = 0
      BY <1>1, <3>1 DEF Empty
    <3>3. r.generation # object["envelope"].generation
      BY <2>1, <2>2, <3>2
    <3>4. Replaced(t, "envelope")
      BY <2>1, <3>3 DEF Replaced
    <3>. QED
      BY <2>3, <3>4
  <2>. QED
    BY <1>4, <2>3, <2>4
<1>5. pc'[t] = pc[t] /\ seen'[t] = seen[t]
  OBVIOUS
<1>. QED
  BY <1>1, <1>3, <1>4, <1>5 DEF SealInv

\* SealInv of a session that acted.
LEMMA SealActs ==
    ASSUME TypeOK, LiveObjects, LockFacts, NEW t \in Sessions,
           SealInv(t), Acts(t)
    PROVE  SealInv(t)'
<1>1. CASE pc'[t] \notin Watched
  BY <1>1 DEF SealInv, Watched
<1>2. CASE pc'[t] \in Watched
  <2>1. Arrival(t) /\ bucket' = bucket /\ object' = object
    BY <1>2, Arriving DEF provider
  <2>2. \A o \in objects : records'[t] = records[t] /\ Verified(t, o) => Verified(t, o)'
    BY <2>1, VerifiedFacts
  <2>3. objects = {"envelope", "journal"}
    BY DEF objects
  <2>4. CASE pc'[t] = "verifyEnvelope"
    BY <2>1, <2>4 DEF Arrival, SealInv
  <2>5. CASE pc'[t] = "verifyJournal"
    <3>1. /\ pc[t] = "verifyEnvelope" /\ Verified(t, "envelope")
          /\ seen'[t] = seen[t] /\ records'[t] = records[t]
      BY <2>1, <2>5 DEF Arrival, Verified
    <3>2. ~Replaced(t, "envelope")
      BY <3>1, <2>3, VerifiedFacts
    <3>. QED
      BY <2>1, <2>2, <2>3, <2>5, <3>1, <3>2 DEF SealInv
  <2>6. CASE pc'[t] = "recordLocked"
    <3>1. /\ pc[t] = "verifyJournal" /\ Verified(t, "journal") /\ seen[t].locked
          /\ seen'[t] = seen[t] /\ records'[t] = records[t]
      BY <2>1, <2>6 DEF Arrival, Verified
    <3>2. bucket.locked /\ Verified(t, "envelope")
      BY <3>1 DEF SealInv
    <3>. QED
      BY <2>1, <2>2, <2>3, <2>6, <3>1, <3>2 DEF SealInv
  <2>7. CASE pc'[t] \notin {"verifyEnvelope", "verifyJournal", "recordLocked"}
    BY <2>7 DEF SealInv
  <2>. QED
    BY <2>4, <2>5, <2>6, <2>7
<1>. QED
  BY <1>1, <1>2

\* WindowInv of a session that did not act.
LEMMA WindowKept ==
    ASSUME TypeOK, TypeOK', LiveObjects, LockFacts, NEW t \in Sessions,
           WindowInv(t), ProviderStep, Unmoved(t)
    PROVE  WindowInv(t)'
<1>. SUFFICES ASSUME ~raced' PROVE WindowInv(t)'
  BY DEF WindowInv
<1>1. ~raced
  BY DEF ProviderStep, RaceMoves
<1>2. /\ pc'[t] = pc[t] /\ seen'[t] = seen[t] /\ records'[t] = records[t]
  BY DEF Unmoved
<1>3. /\ bucket.metageneration \in Nat /\ bucket'.metageneration \in Nat
      /\ seen[t].metageneration \in Nat
  BY AttributesTyped DEF TypeOK, sightSet
<1>4. ASSUME NEW o \in objects, bucket.exists, bucket.retention # "none",
             Verified(t, o)
      PROVE  Verified(t, o)'
  BY <1>2, <1>4, Protected, VerifiedFacts
<1>5. ASSUME pc[t] # "idle", bucket.exists
      PROVE  /\ bucket'.exists
             /\ bucket.metageneration <= bucket'.metageneration
             /\ bucket.metageneration = bucket'.metageneration => bucket' = bucket
  BY <1>5 DEF ProviderStep, RaceMoves, BucketMoves
<1>. DEFINE W == {"verifyEnvelope", "verifyJournal", "recordConfigured",
                  "recordLockClaim", "lockRetention"}
<1>6. CASE pc[t] \in W
  <2>1. /\ bucket.exists /\ seen[t].metageneration <= bucket.metageneration
        /\ SameBucket(t) => bucket.retention = seen[t].retention
    BY <1>1, <1>6 DEF WindowInv
  <2>2. bucket'.exists /\ seen[t].metageneration <= bucket'.metageneration
    BY <1>3, <1>5, <1>6, <2>1
  <2>3. SameBucket(t)' => SameBucket(t) /\ bucket' = bucket
    BY <1>2, <1>3, <1>5, <1>6, <2>1 DEF SameBucket
  <2>4. "envelope" \in objects
    BY DEF objects
  <2>. QED
    BY <1>1, <1>2, <1>4, <1>6, <2>1, <2>2, <2>3, <2>4 DEF WindowInv
<1>7. CASE pc[t] = "lockCommand"
  <2>1. /\ bucket.exists /\ bucket.retention # "none"
        /\ \A o \in objects : Verified(t, o)
    BY <1>1, <1>7 DEF WindowInv
  <2>2. bucket'.exists
    BY <1>5, <1>7, <2>1
  <2>3. bucket'.retention # "none"
    BY <1>7, <2>1, <2>2 DEF ProviderStep, RaceMoves
  <2>. QED
    BY <1>2, <1>4, <1>7, <2>1, <2>2, <2>3 DEF WindowInv
<1>8. CASE pc[t] \notin W \cup {"lockCommand"}
  BY <1>2, <1>8 DEF WindowInv
<1>. QED
  BY <1>6, <1>7, <1>8

\* WindowInv of a session that acted.
LEMMA WindowActs ==
    ASSUME TypeOK, LiveObjects, LockFacts, NEW t \in Sessions,
           WindowInv(t), Acts(t)
    PROVE  WindowInv(t)'
<1>1. CASE pc'[t] \notin Watched
  BY <1>1 DEF WindowInv, Watched
<1>2. CASE pc'[t] \in Watched
  <2>1. Arrival(t) /\ bucket' = bucket /\ object' = object /\ raced' = raced
    BY <1>2, Arriving, Acting DEF provider, ActFrame
  <2>2. objects = {"envelope", "journal"} /\ bucket.metageneration \in Nat
    BY AttributesTyped DEF objects, TypeOK
  <2>3. \A o \in objects : records'[t] = records[t] /\ Verified(t, o) => Verified(t, o)'
    BY <2>1, VerifiedFacts
  <2>. SUFFICES ASSUME ~raced PROVE WindowInv(t)'
    BY <2>1 DEF WindowInv
  <2>4. CASE pc'[t] = "verifyEnvelope"
    BY <2>1, <2>2, <2>4 DEF Arrival, WindowInv, SameBucket
  <2>5. CASE pc'[t] = "verifyJournal"
    <3>1. /\ pc[t] = "verifyEnvelope" /\ Verified(t, "envelope")
          /\ seen'[t] = seen[t] /\ records'[t] = records[t]
      BY <2>1, <2>5 DEF Arrival, Verified
    <3>. QED
      BY <2>1, <2>2, <2>3, <2>5, <3>1 DEF WindowInv, SameBucket
  <2>6. CASE /\ pc[t] = "verifyJournal"
             /\ pc'[t] \in {"recordConfigured", "recordLockClaim", "lockRetention"}
    <3>1. /\ Verified(t, "journal")
          /\ seen'[t] = seen[t] /\ records'[t] = records[t]
      BY <2>1, <2>6 DEF Arrival, Verified
    <3>. QED
      BY <2>1, <2>2, <2>3, <2>6, <3>1 DEF WindowInv, SameBucket
  <2>7. CASE /\ pc[t] # "verifyJournal"
             /\ pc'[t] \in {"recordConfigured", "recordLockClaim", "lockRetention"}
    <3>1. /\ pc[t] \in {"recordConfigured", "recordLockClaim"}
          /\ seen'[t] = seen[t]
          /\ \A r \in records'[t] \ records[t] :
                 r.phase \in {"retention-configured", "retention-lock-claimed"}
      BY <2>1, <2>7 DEF Arrival
    <3>2. \A o \in objects : Verified(t, o) => Verified(t, o)'
      BY <2>1, <3>1, VerifiedFacts DEF uploadPhase
    <3>. QED
      BY <2>1, <2>7, <3>1, <3>2 DEF WindowInv, SameBucket
  <2>8. CASE pc'[t] = "lockCommand"
    <3>1. /\ pc[t] = "lockRetention" /\ lockable(t)
          /\ seen'[t] = seen[t] /\ records'[t] = records[t]
      BY <2>1, <2>8 DEF Arrival
    <3>2. SameBucket(t) /\ bucket.retention # "none" /\ bucket.exists
      BY <3>1 DEF lockable, SameBucket
    <3>. QED
      BY <2>1, <2>3, <2>8, <3>1, <3>2 DEF WindowInv
  <2>9. CASE pc'[t] \in {"recordUpload", "recordLocked"}
    BY <2>9 DEF WindowInv
  <2>. QED
    BY <1>2, <2>4, <2>5, <2>6, <2>7, <2>8, <2>9 DEF Watched
<1>. QED
  BY <1>1, <1>2
-----------------------------------------------------------------------------
(* The theorems.                                                           *)

\* K1b is reported verified only with the lock on record.
LEMMA OutcomeStep ==
    ASSUME TypeOK, OutcomeInv, [Next]_vars,
           files \subseteq files', \A t \in Sessions : Acts(t) \/ Unmoved(t)
    PROVE  OutcomeInv'
<1>. SUFFICES ASSUME NEW t \in Sessions,
                     outcome'[t].step = "k1b", outcome'[t].verified
              PROVE  phaseReached(files', "retention-locked")
  BY DEF OutcomeInv
<1>1. CASE outcome'[t] = outcome[t]
  BY <1>1 DEF OutcomeInv, phaseReached
<1>2. ASSUME NEW chain, FailWith(t, chain) PROVE FALSE
  BY <1>2 DEF FailWith, TypeOK
<1>3. ASSUME NEW recs, Return(t, recs), recs \subseteq files'
      PROVE  phaseReached(files', "retention-locked")
  <2>1. outcome'[t].step = stepOf(t)
    BY <1>3 DEF Return, TypeOK
  <2>2. phaseReached(recs, "retention-locked")
    BY <1>3, <2>1 DEF Return, TypeOK
  <2>. QED
    BY <1>3, <2>2 DEF phaseReached
<1>4. \A next : Goto(t, next) => outcome' = outcome
  BY DEF Goto
<1>5. TypeOK'
  BY TypeStep
<1>6. CASE Bootstrap(t) \/ LockRetention(t)
  BY <1>1, <1>6 DEF Bootstrap, LockRetention, open, Goto, TypeOK
<1>7. ASSUME NEW phase, NEW gen, NEW next, Record(t, phase, gen, next)
      PROVE  phaseReached(files', "retention-locked")
  BY <1>1, <1>2, <1>4, <1>7 DEF Record, Fail
<1>8. ASSUME NEW ok, NEW next, Check(t, ok, next)
      PROVE  phaseReached(files', "retention-locked")
  BY <1>1, <1>2, <1>4, <1>8 DEF Check, Fail
<1>9. CASE \/ Seal(t) \/ ClaimBucket(t) \/ RecordCreated(t)
           \/ RecordLifecycle(t) \/ RecordConfigured(t) \/ RecordLockClaim(t)
           \/ RecordUpload(t)
  BY <1>7, <1>9 DEF Seal, ClaimBucket, RecordCreated, RecordLifecycle,
      RecordConfigured, RecordLockClaim, RecordUpload
<1>10. CASE \/ RefuseOutOfOrder(t) \/ EnsureBucket(t) \/ AdoptExistingBucket(t)
            \/ CreateBucket(t) \/ ObserveCreated(t) \/ RemoteObjectMatches(t)
            \/ EnsureLifecycle(t) \/ VerifyEnvelope(t) \/ LockRetentionCall(t)
  BY <1>8, <1>10 DEF RefuseOutOfOrder, EnsureBucket, AdoptExistingBucket,
      CreateBucket, ObserveCreated, RemoteObjectMatches, EnsureLifecycle,
      VerifyEnvelope, LockRetentionCall
<1>11. CASE \/ CreateCommand(t) \/ EnableVersioning(t) \/ ConfigureLifecycle(t)
            \/ ConfigureRetention(t) \/ LockCommand(t) \/ Upload(t)
            \/ UploadError(t) \/ DescribeUpload(t) \/ DescribeObject(t)
            \/ VerifyBucket(t) \/ PortError(t) \/ CommandUnclear(t)
  <2>1. Fail(t) \/ \E next : Goto(t, next)
    BY <1>11 DEF CreateCommand, EnableVersioning, ConfigureLifecycle,
        ConfigureRetention, LockCommand, LockCommandStep, Command, Upload,
        UploadError, UploadUnclear, DescribeUpload, DescribeObject, See,
        VerifyBucket, PortError, CommandUnclear
  <2>. QED
    BY <1>1, <1>2, <1>4, <2>1 DEF Fail
<1>12. CASE VerifyJournal(t)
  <2>1. \/ Fail(t) \/ Return(t, records[t]) \/ \E next : Goto(t, next)
    BY <1>12 DEF VerifyJournal
  <2>2. records[t] \subseteq files'
    BY DEF TypeOK
  <2>. QED
    BY <1>1, <1>2, <1>3, <1>4, <2>1, <2>2 DEF Fail
<1>13. CASE RecordVerified(t) \/ RecordLocked(t)
  <2>1. Fail(t) \/ Return(t, records'[t])
    BY <1>13 DEF RecordVerified, RecordLocked
  <2>2. records'[t] \subseteq files'
    BY <1>5 DEF TypeOK
  <2>. QED
    BY <1>2, <1>3, <2>1, <2>2 DEF Fail
<1>14. CASE Crash(t)
  BY <1>14 DEF Crash, noOutcome, TypeOK
<1>15. CASE AppendUnclear(t)
  BY <1>2, <1>15 DEF AppendUnclear
<1>. QED
  BY <1>1, <1>6, <1>9, <1>10, <1>11, <1>12, <1>13, <1>14, <1>15
     DEF Acts, SessionStep, AdverseSession, Unmoved

\* A locked bucket that holds both objects as recorded stays so.
LEMMA SealedForGood ==
    ASSUME TypeOK, LiveObjects, LockFacts, ProviderStep, files \subseteq files',
           bucket.locked, Intact
    PROVE  /\ bucket'.exists /\ bucket'.locked /\ bucket'.retention # "none"
           /\ Intact'
<1>1. bucket.exists /\ bucket.retention # "none"
  BY DEF LockFacts
<1>2. \A o \in objects : object'[o] = object[o] /\ bucket'.locked
  BY <1>1, Protected DEF Intact
<1>3. "envelope" \in objects
  BY DEF objects
<1>4. bucket'.locked /\ LockFacts'
  BY <1>2, <1>3 DEF ProviderStep
<1>. QED
  BY <1>2, <1>4 DEF Intact, LockFacts

\* A session that verified both objects has found the bucket intact.
LEMMA VerifiedIntact ==
    ASSUME TypeOK, NEW t \in Sessions, uploadsDone(records[t]),
           \A o \in objects : Verified(t, o)
    PROVE  Intact
<1>1. records[t] \subseteq files
  BY DEF TypeOK
<1>2. \A o \in objects : \E r \in records[t] : r.phase = uploadPhase[o]
  BY DEF uploadsDone, phaseReached, uploadPhase, objects
<1>. QED
  BY <1>1, <1>2 DEF Intact, Verified, objectVerified

\* The invariant is inductive.
LEMMA HandoffStep ==
    ASSUME HandoffInv, [Next]_vars
    PROVE  HandoffInv'
<1>. USE DEF HandoffInv
<1>1. TypeOK'
  BY TypeStep
<1>2. /\ ProviderStep /\ files \subseteq files'
      /\ \A t \in Sessions : Acts(t) \/ Unmoved(t)
  BY AnyStep
<1>3. LiveObjects' /\ LockFacts'
  BY <1>2 DEF ProviderStep
<1>4. VersionsInv'
  BY VersionsStep
<1>5. ASSUME NEW t \in Sessions
      PROVE  LocalInv(t)' /\ SealInv(t)' /\ WindowInv(t)'
  <2>1. CASE Acts(t)
    BY <2>1, LocalStep, SealActs, WindowActs
  <2>2. CASE Unmoved(t)
    <3>1. LocalInv(t)'
      BY <2>2 DEF Unmoved, LocalInv, reached, uploadsDone
    <3>. QED
      BY <1>1, <1>2, <2>2, <3>1, SealKept, WindowKept
  <2>. QED
    BY <1>2, <2>1, <2>2
<1>6. OutcomeInv'
  BY <1>2, OutcomeStep
<1>7. ASSUME phaseReached(files', "retention-locked")
      PROVE  /\ bucket'.exists /\ bucket'.locked /\ bucket'.retention # "none"
             /\ Intact'
  <2>1. bucket.locked /\ Intact
    <3>1. CASE phaseReached(files, "retention-locked")
      BY <3>1 DEF RecordedLockIsReal
    <3>2. CASE ~phaseReached(files, "retention-locked")
      <4>1. PICK r \in files' \ files : r.phase = "retention-locked"
        BY <1>7, <3>2 DEF phaseReached
      <4>2. PICK s \in Sessions : Acts(s)
        <5>1. files' # files
          BY <4>1
        <5>2. ~Others /\ ~UNCHANGED vars
          BY <5>1 DEF Others, ClockJump, OthersCreateBucket,
              OthersDeleteBucket, OthersChangeObject, OthersSetRetention,
              OthersLock, OthersConfigure, Aside, vars
        <5>. QED
          BY <5>2 DEF Next, Acts
      <4>3. pc[s] = "recordLocked"
        BY <4>1, <4>2, NewRecord
      <4>. QED
        BY <4>3, VerifiedIntact DEF SealInv, LocalInv
    <3>. QED
      BY <3>1, <3>2
  <2>. QED
    BY <1>2, <2>1, SealedForGood
<1>8. RecordedLockIsReal'
  BY <1>6, <1>7 DEF RecordedLockIsReal, OutcomeInv
<1>9. LockSealsHandoff'
  <2>. SUFFICES ASSUME bucket'.lockedByUs, ~raced'
                PROVE  /\ phaseReached(files', "handoff-verified")
                       /\ phaseReached(files', "retention-lock-claimed")
                       /\ Intact'
    BY DEF LockSealsHandoff
  <2>1. ~raced
    BY <1>2 DEF ProviderStep, RaceMoves
  <2>2. CASE bucket.lockedByUs
    <3>1. bucket.locked
      BY <2>2 DEF LockFacts
    <3>. QED
      BY <1>2, <2>1, <2>2, <3>1, SealedForGood DEF LockSealsHandoff, phaseReached
  <2>3. CASE ~bucket.lockedByUs
    <3>1. PICK s \in Sessions : pc[s] = "lockCommand"
      BY <1>2, <2>3 DEF ProviderStep, LockMoves
    <3>2. /\ bucket.exists /\ bucket.retention # "none"
          /\ \A o \in objects : Verified(s, o)
      BY <2>1, <3>1 DEF WindowInv
    <3>3. /\ reached(s, "handoff-verified") /\ uploadsDone(records[s])
          /\ reached(s, "retention-lock-claimed")
      BY <3>1 DEF LocalInv, LockOnly
    <3>4. records[s] \subseteq files
      BY DEF TypeOK
    <3>5. Intact
      BY <3>2, <3>3, VerifiedIntact
    <3>6. \A o \in objects : object'[o] = object[o]
      BY <1>2, <3>2, <3>5, Protected DEF Intact
    <3>. QED
      BY <1>2, <3>3, <3>4, <3>5, <3>6 DEF Intact, reached, phaseReached
  <2>. QED
    BY <2>2, <2>3
<1>. QED
  BY <1>1, <1>3, <1>4, <1>5, <1>6, <1>8, <1>9

\* In every behaviour: types, versions, what each session may rely on at each
\* place, and the two lock properties below hold together.
THEOREM HandoffInvariant == Spec => []HandoffInv
<1>1. Init => HandoffInv
  <2>. SUFFICES ASSUME Init PROVE HandoffInv
    OBVIOUS
  <2>1. Init => TypeOK
    BY HandoffInitTyped
  <2>2. LiveObjects
    BY DEF Init, LiveObjects, noObject
  <2>3. LockFacts /\ LockSealsHandoff
    BY DEF Init, LockFacts, LockSealsHandoff, noBucket
  <2>4. VersionsInv
    BY DEF Init, VersionsInv, RecordedUploadIsOwn
  <2>5. \A t \in Sessions : LocalInv(t) /\ SealInv(t) /\ WindowInv(t)
    BY DEF Init, LocalInv, SealInv, WindowInv, BootstrapOnly, Verifying, LockOnly
  <2>6. OutcomeInv /\ RecordedLockIsReal
    BY DEF Init, OutcomeInv, RecordedLockIsReal, noOutcome, phaseReached
  <2>. QED
    BY <2>1, <2>2, <2>3, <2>4, <2>5, <2>6 DEF HandoffInv
<1>. QED
  BY <1>1, HandoffStep, PTL DEF Spec

\* What LockRetention records, and the executor reports as verified, is a
\* bucket locked for good with the envelope and the journal entry in it.
THEOREM RecordedLocksAreReal == Spec => []RecordedLockIsReal
<1>1. HandoffInv => RecordedLockIsReal
  BY DEF HandoffInv
<1>. QED
  BY <1>1, HandoffInvariant, PTL

\* LockRetention makes the bucket irreversible only with the handoff verified,
\* the lock claimed on disk and both objects in place, unless the bucket
\* changes between the port's last look and the command.
THEOREM LocksSealTheHandoff == Spec => []LockSealsHandoff
<1>1. HandoffInv => LockSealsHandoff
  BY DEF HandoffInv
<1>. QED
  BY <1>1, HandoffInvariant, PTL

\* uploadCreateOnly records only versions with the operation's content.
THEOREM RecordedUploadsAreOwn == Spec => []RecordedUploadIsOwn
<1>1. HandoffInv => RecordedUploadIsOwn
  BY DEF HandoffInv, VersionsInv
<1>. QED
  BY <1>1, HandoffInvariant, PTL
-----------------------------------------------------------------------------
(* The sealed handoff.                                                     *)

\* What the abstract specification calls claimed and confirmed.
Claimed == /\ phaseReached(files, "handoff-verified")
           /\ phaseReached(files, "retention-lock-claimed")
Confirmed == phaseReached(files, "retention-locked")

\* A step of a session adds at most one record to the directory.
LEMMA OneRecord ==
    ASSUME TypeOK, NEW s \in Sessions, Acts(s)
    PROVE  \/ files' = files
           \/ \E r \in files' \ files : files' = files \cup {r}
<1>1. ASSUME NEW phase, NEW gen, append(s, phase, gen)
      PROVE  files' = files \/ \E r \in files' \ files : files' = files \cup {r}
  <2>1. files' = files \cup {recordFor(s, phase, gen)}
    BY <1>1 DEF append
  <2>. QED
    BY <2>1
<1>2. ASSUME NEW phase, NEW gen, NEW next, Record(s, phase, gen, next)
      PROVE  files' = files \/ \E r \in files' \ files : files' = files \cup {r}
  BY <1>1, <1>2 DEF Record
<1>3. CASE \/ Seal(s) \/ ClaimBucket(s) \/ RecordCreated(s)
           \/ RecordLifecycle(s) \/ RecordConfigured(s) \/ RecordLockClaim(s)
           \/ RecordUpload(s)
  BY <1>2, <1>3 DEF Seal, ClaimBucket, RecordCreated, RecordLifecycle,
      RecordConfigured, RecordLockClaim, RecordUpload
<1>4. CASE RecordVerified(s) \/ RecordLocked(s)
  BY <1>1, <1>4 DEF RecordVerified, RecordLocked
<1>5. CASE AppendUnclear(s)
  <2>1. PICK phase : files' = files \cup {recordFor(s, phase, 0)}
    BY <1>5 DEF AppendUnclear
  <2>. QED
    BY <2>1
<1>6. CASE \/ Bootstrap(s) \/ LockRetention(s)
           \/ RefuseOutOfOrder(s) \/ EnsureBucket(s) \/ AdoptExistingBucket(s)
           \/ CreateBucket(s) \/ ObserveCreated(s) \/ RemoteObjectMatches(s)
           \/ EnsureLifecycle(s) \/ VerifyEnvelope(s) \/ LockRetentionCall(s)
  BY <1>6 DEF Bootstrap, LockRetention, open, RefuseOutOfOrder,
      EnsureBucket, AdoptExistingBucket, CreateBucket, ObserveCreated,
      RemoteObjectMatches, EnsureLifecycle, VerifyEnvelope, LockRetentionCall,
      Check
<1>7. CASE \/ CreateCommand(s) \/ EnableVersioning(s) \/ ConfigureLifecycle(s)
           \/ ConfigureRetention(s) \/ LockCommand(s)
           \/ Upload(s) \/ UploadError(s) \/ DescribeUpload(s)
           \/ DescribeObject(s) \/ VerifyBucket(s) \/ VerifyJournal(s)
           \/ Crash(s) \/ PortError(s) \/ CommandUnclear(s)
  BY <1>7 DEF CreateCommand, EnableVersioning, ConfigureLifecycle,
      ConfigureRetention, LockCommand, LockCommandStep, Command, Upload,
      UploadError, UploadUnclear, DescribeUpload, DescribeObject, See,
      VerifyBucket, VerifyJournal, Crash, PortError, CommandUnclear
<1>. QED
  BY <1>3, <1>4, <1>5, <1>6, <1>7 DEF Acts, SessionStep, AdverseSession

\* A step that leaves the records, the objects, the lock and the observer alone
\* is a stutter.
LEMMA HandoffStutters ==
    ASSUME UNCHANGED <<files, object, raced>>,
           bucket'.locked = bucket.locked, bucket'.lockedByUs = bucket.lockedByUs
    PROVE  UNCHANGED Handoff!handoffVars
<1>1. (phaseReached(files, "handoff-verified")
           /\ phaseReached(files, "retention-lock-claimed"))'
      = (phaseReached(files, "handoff-verified")
           /\ phaseReached(files, "retention-lock-claimed"))
  OBVIOUS
<1>2. Intact' = Intact
  BY DEF Intact
<1>3. phaseReached(files, "retention-locked")' = phaseReached(files, "retention-locked")
  OBVIOUS
<1>4. UNCHANGED (IF ~bucket.locked THEN "open"
                 ELSE IF bucket.lockedByUs THEN "operation" ELSE "others")
  OBVIOUS
<1>. QED
  BY <1>1, <1>2, <1>3, <1>4 DEF Handoff!handoffVars

\* An object that goes, or is replaced, was in an open bucket or was not whole.
LEMMA HandoffChanges ==
    ASSUME UNCHANGED <<files, raced>>, ~bucket.locked \/ ~Intact,
           bucket'.locked = bucket.locked, bucket'.lockedByUs = bucket.lockedByUs
    PROVE  Handoff!Change
<1>1. Claimed' = Claimed /\ Confirmed' = Confirmed
  BY DEF Claimed, Confirmed
<1>2. Intact' \in BOOLEAN
  BY DEF Intact
<1>3. UNCHANGED (IF ~bucket.locked THEN "open"
                 ELSE IF bucket.lockedByUs THEN "operation" ELSE "others")
  OBVIOUS
<1>4. (IF ~bucket.locked THEN "open"
       ELSE IF bucket.lockedByUs THEN "operation" ELSE "others") = "open" \/ ~Intact
  OBVIOUS
<1>. QED
  BY <1>1, <1>2, <1>3, <1>4 DEF Handoff!Change, Claimed, Confirmed

\* A record of a session: the handoff is claimed, completed or confirmed.
LEMMA HandoffRecords ==
    ASSUME HandoffInv, HandoffInv', NEW s \in Sessions, Acts(s),
           NEW r \in files' \ files, files' = files \cup {r}
    PROVE  [Handoff!Next]_(Handoff!handoffVars)
<1>1. UNCHANGED provider /\ raced' = raced
  BY Acting, NewRecord DEF HandoffInv, ActFrame
<1>2. UNCHANGED <<bucket, object, raced>>
  BY <1>1 DEF provider
<1>3. ASSUME NEW phase, r.phase # phase
      PROVE  phaseReached(files', phase) <=> phaseReached(files, phase)
  BY <1>3 DEF phaseReached
<1>4. ASSUME \A o \in objects : r.phase # uploadPhase[o]
      PROVE  Intact' <=> Intact
  BY <1>2, <1>4 DEF Intact
<1>5. CASE r.phase = "retention-locked"
  <2>1. phaseReached(files', "retention-locked")
    BY <1>5 DEF phaseReached
  <2>2. bucket.locked /\ Intact'
    BY <1>2, <2>1 DEF HandoffInv, RecordedLockIsReal
  <2>3. Intact
    BY <1>4, <1>5, <2>2 DEF uploadPhase, objects
  <2>4. (phaseReached(files, "handoff-verified")
           /\ phaseReached(files, "retention-lock-claimed"))'
      = (phaseReached(files, "handoff-verified")
           /\ phaseReached(files, "retention-lock-claimed"))
    BY <1>3, <1>5
  <2>. QED
    BY <1>2, <2>1, <2>2, <2>3, <2>4 DEF Handoff!Next, Handoff!Confirm
<1>6. CASE r.phase # "retention-locked" /\ \A o \in objects : r.phase # uploadPhase[o]
  <2>1. Intact' = Intact
    BY <1>4, <1>6, Zenon DEF Intact
  <2>2. Confirmed' = Confirmed
    BY <1>3, <1>6, Zenon DEF Confirmed, phaseReached
  <2>3. Claimed => Claimed'
    BY DEF Claimed, phaseReached
  <2>4. CASE Claimed' = Claimed
    BY <1>2, <2>1, <2>2, <2>4 DEF Handoff!handoffVars, Claimed, Confirmed
  <2>5. CASE Claimed' # Claimed
    <3>1. ~Claimed /\ Claimed' = TRUE
      BY <2>3, <2>5, Zenon DEF Claimed
    <3>. QED
      BY <1>2, <2>1, <2>2, <3>1 DEF Handoff!Next, Handoff!Claim, Claimed, Confirmed
  <2>. QED
    BY <2>4, <2>5
<1>7. CASE \E o \in objects : r.phase = uploadPhase[o]
  <2>1. /\ r.phase # "handoff-verified" /\ r.phase # "retention-lock-claimed"
        /\ r.phase # "retention-locked"
    BY <1>7 DEF uploadPhase, objects
  <2>2. Claimed' = Claimed
    BY <1>3, <2>1, Zenon DEF Claimed, phaseReached
  <2>3. Confirmed' = Confirmed
    BY <1>3, <2>1, Zenon DEF Confirmed, phaseReached
  <2>4. Intact => Intact'
    BY <1>2 DEF Intact
  <2>5. Intact' \in BOOLEAN
    BY DEF Intact
  <2>6. CASE ~Intact
    BY <1>2, <2>2, <2>3, <2>5, <2>6 DEF Handoff!Next, Handoff!Change, Claimed, Confirmed
  <2>7. CASE Intact
    <3>1. Intact' = Intact
      BY <2>4, <2>7, Zenon DEF Intact
    <3>. QED
      BY <1>2, <2>2, <2>3, <3>1 DEF Handoff!handoffVars, Claimed, Confirmed
  <2>. QED
    BY <2>6, <2>7
<1>. QED
  BY <1>5, <1>6, <1>7

\* A session's step.
LEMMA HandoffActs ==
    ASSUME HandoffInv, HandoffInv', NEW s \in Sessions, Acts(s)
    PROVE  [Handoff!Next]_(Handoff!handoffVars)
<1>0. /\ bucket \in bucketSet /\ LockFacts /\ LockFacts'
      /\ raced' = raced /\ Effects(s)
  BY Acting DEF HandoffInv, TypeOK, ActFrame
<1>1. CASE files' # files
  BY <1>1, OneRecord, HandoffRecords DEF HandoffInv
<1>2. CASE files' = files /\ UNCHANGED provider
  BY <1>0, <1>2, HandoffStutters DEF provider
<1>3. CASE files' = files /\ Creates
  <2>1. bucket'.locked = FALSE /\ bucket'.lockedByUs = FALSE /\ UNCHANGED object
    BY <1>3 DEF Creates, noBucket
  <2>2. bucket.locked = FALSE /\ bucket.lockedByUs = FALSE
    BY <1>0, <1>3 DEF Creates, LockFacts, bucketSet
  <2>. QED
    BY <1>0, <1>3, <2>1, <2>2, HandoffStutters
<1>4. CASE files' = files
           /\ (EnablesVersioning \/ ConfiguresLifecycle \/ ConfiguresRetention)
  <2>1. /\ bucket'.locked = bucket.locked /\ bucket'.lockedByUs = bucket.lockedByUs
        /\ UNCHANGED object
    BY <1>0, <1>4 DEF EnablesVersioning, ConfiguresLifecycle, ConfiguresRetention,
                      Updates, bucketSet
  <2>. QED
    BY <1>0, <1>4, <2>1, HandoffStutters
<1>5. CASE files' = files /\ Locks
  <2>1. /\ bucket'.locked = TRUE /\ UNCHANGED object
        /\ bucket'.lockedByUs = (bucket.lockedByUs \/ ~bucket.locked)
    BY <1>0, <1>5 DEF Locks, Updates, bucketSet
  <2>2. bucket.locked \in BOOLEAN /\ bucket.lockedByUs \in BOOLEAN
    BY <1>0 DEF bucketSet
  <2>3. CASE bucket.locked
    BY <1>0, <1>5, <2>1, <2>2, <2>3, HandoffStutters
  <2>4. CASE ~bucket.locked
    <3>1. bucket'.lockedByUs = TRUE
      BY <2>1, <2>2, <2>4
    <3>2. raced \/ (Claimed' /\ Intact')
      BY <1>0, <3>1 DEF HandoffInv, LockSealsHandoff, Claimed
    <3>3. Claimed' = Claimed /\ Confirmed' = Confirmed
      BY <1>5 DEF Claimed, Confirmed
    <3>4. Intact' = Intact
      BY <1>5, <2>1 DEF Intact
    <3>. QED
      BY <1>0, <2>1, <2>4, <3>1, <3>2, <3>3, <3>4
         DEF Handoff!Next, Handoff!Seal, Claimed, Confirmed
  <2>. QED
    BY <2>3, <2>4
<1>6. ASSUME files' = files, NEW o \in objects, Uploads(o)
      PROVE  [Handoff!Next]_(Handoff!handoffVars)
  <2>1. ~Intact /\ UNCHANGED bucket
    BY <1>6 DEF Uploads, Intact, noObject
  <2>. QED
    BY <1>0, <1>6, <2>1, HandoffChanges DEF Handoff!Next
<1>. QED
  BY <1>0, <1>1, <1>2, <1>3, <1>4, <1>5, <1>6 DEF Effects

\* A step of others.
LEMMA HandoffOthers ==
    ASSUME HandoffInv, Others
    PROVE  [Handoff!Next]_(Handoff!handoffVars)
<1>0. bucket \in bucketSet /\ LockFacts /\ raced \in BOOLEAN
  BY DEF HandoffInv, TypeOK
<1>00. files' = files
  BY DEF Others, ClockJump, OthersCreateBucket, OthersDeleteBucket,
      OthersChangeObject, OthersSetRetention, OthersLock, OthersConfigure, Aside
<1>01. Claimed' = Claimed /\ Confirmed' = Confirmed
  BY <1>00 DEF Claimed, Confirmed
<1>02. UNCHANGED object => Intact' = Intact
  BY <1>00 DEF Intact
<1>1. CASE ClockJump
  BY <1>00, <1>1, HandoffStutters DEF ClockJump, provider
<1>2. CASE OthersCreateBucket
  <2>1. bucket'.locked = FALSE /\ bucket'.lockedByUs = FALSE
    BY <1>2 DEF OthersCreateBucket, noBucket
  <2>2. bucket.locked = FALSE /\ bucket.lockedByUs = FALSE
    BY <1>0, <1>2 DEF OthersCreateBucket, LockFacts, bucketSet
  <2>. QED
    BY <1>00, <1>2, <2>1, <2>2, HandoffStutters DEF OthersCreateBucket
<1>3. CASE OthersDeleteBucket
  <2>1. ~Intact /\ bucket'.locked = FALSE /\ UNCHANGED object
    BY <1>3 DEF OthersDeleteBucket, noBucket, noObject, Intact, objects
  <2>2. raced' \in {raced, TRUE}
    BY <1>0, <1>3 DEF OthersDeleteBucket
  <2>. QED
    BY <1>01, <1>02, <2>1, <2>2 DEF Handoff!Next, Handoff!Delete, Claimed, Confirmed
<1>4. ASSUME NEW o \in objects, OthersChangeObject(o)
      PROVE  [Handoff!Next]_(Handoff!handoffVars)
  <2>1. UNCHANGED <<bucket, raced>>
    BY <1>4 DEF OthersChangeObject
  <2>2. ~bucket.locked \/ ~Intact
    BY <1>0, <1>4 DEF OthersChangeObject, LockFacts, Intact, noObject
  <2>. QED
    BY <1>00, <2>1, <2>2, HandoffChanges DEF Handoff!Next
<1>5. CASE OthersSetRetention
  <2>1. /\ bucket'.locked = bucket.locked /\ bucket'.lockedByUs = bucket.lockedByUs
        /\ UNCHANGED object
    BY <1>0, <1>5 DEF OthersSetRetention, Updates, bucketSet
  <2>2. raced' = raced \/ raced' = TRUE
    BY <1>0, <1>5 DEF OthersSetRetention
  <2>3. CASE raced' = raced
    BY <1>00, <2>1, <2>3, HandoffStutters
  <2>4. CASE raced' = TRUE
    BY <1>01, <1>02, <2>1, <2>4 DEF Handoff!Next, Handoff!Race, Claimed, Confirmed
  <2>. QED
    BY <2>2, <2>3, <2>4
<1>6. CASE OthersLock
  <2>1. /\ bucket'.locked = TRUE /\ bucket'.lockedByUs = bucket.lockedByUs
        /\ UNCHANGED <<object, raced>> /\ ~bucket.locked
    BY <1>0, <1>6 DEF OthersLock, Updates, bucketSet
  <2>2. bucket.lockedByUs = FALSE
    BY <1>0, <2>1 DEF LockFacts, bucketSet
  <2>. QED
    BY <1>01, <1>02, <2>1, <2>2
       DEF Handoff!Next, Handoff!OthersSeal, Claimed, Confirmed
<1>7. CASE OthersConfigure
  <2>1. /\ bucket'.locked = bucket.locked /\ bucket'.lockedByUs = bucket.lockedByUs
        /\ UNCHANGED <<object, raced>>
    BY <1>0, <1>7 DEF OthersConfigure, Updates, bucketSet
  <2>. QED
    BY <1>00, <2>1, HandoffStutters
<1>. QED
  BY <1>1, <1>2, <1>3, <1>4, <1>5, <1>6, <1>7 DEF Others

\* K1a and K1b implement the sealed handoff, for any number of sessions, any
\* approval window and whatever other users of the bucket do: LockRetention
\* seals only a claimed and whole handoff (or one raced where no check looks), a
\* sealed whole bucket stays so, and only such a lock is recorded.
THEOREM HandoffImplementsSeal == Spec => SealsForGood
<1>1. Init => Handoff!Init
  BY DEF Init, Handoff!Init, Intact, phaseReached, objects, noBucket, noObject
<1>2. HandoffInv /\ HandoffInv' /\ [Next]_vars
          => [Handoff!Next]_(Handoff!handoffVars)
  <2>. SUFFICES ASSUME HandoffInv, HandoffInv', [Next]_vars
                PROVE  [Handoff!Next]_(Handoff!handoffVars)
    OBVIOUS
  <2>1. CASE UNCHANGED vars
    BY <2>1, HandoffStutters DEF vars, provider
  <2>. QED
    BY <2>1, HandoffActs, HandoffOthers DEF Next, Acts
<1>. QED
  BY <1>1, <1>2, HandoffInvariant, PTL DEF Spec, SealsForGood, Handoff!Spec
-----------------------------------------------------------------------------
(* A bucket somebody else created.                                         *)

\* Where a call can be that has not seen its own bucket.
beforeBucket == {"idle", "seal", "outOfOrder", "ensureBucket",
    "adoptExistingBucket", "claimBucket", "createBucket", "createCommand"}

ourPhases == phases \ {"envelope-sealed", "audit-bucket-create-claimed"}

\* Nothing says that there is a bucket of this operation.
Bucketless ==
    /\ \A r \in files : r.phase \notin ourPhases
    /\ \A o \in objects : object[o].content # "own"
    /\ \A s \in Sessions : pc[s] \in beforeBucket

\* The bucket is the operation's, or it has left no trace of having one.
OwnBucketInv == raced \/ (bucket.exists /\ bucket.ours) \/ Bucketless

\* A bucket of the operation is only lost by a deletion that the observer notes.
LEMMA OursKept ==
    ASSUME TypeOK, bucket.exists, bucket.ours, [Next]_vars
    PROVE  raced' \/ (bucket'.exists /\ bucket'.ours)
<1>. bucket \in bucketSet
  BY DEF TypeOK
<1>1. ASSUME NEW c \in bucketSet, Updates(c), c.exists = bucket.exists,
             c.ours = bucket.ours
      PROVE  bucket'.exists /\ bucket'.ours
  <2>1. bucket' = [c EXCEPT !.metageneration = @ + 1]
    BY <1>1 DEF Updates
  <2>. QED
    BY <1>1, <2>1 DEF bucketSet
<1>2. ASSUME NEW s \in Sessions, Acts(s)
      PROVE  bucket'.exists /\ bucket'.ours
  <2>1. Effects(s)
    BY <1>2, Acting DEF ActFrame
  <2>2. CASE UNCHANGED provider \/ \E o \in objects : Uploads(o)
    BY <2>2 DEF provider, Uploads
  <2>3. CASE Creates
    BY <2>3 DEF Creates
  <2>4. CASE EnablesVersioning
    <3>1. [bucket EXCEPT !.compliant = TRUE] \in bucketSet
      BY AttributesTyped
    <3>2. /\ [bucket EXCEPT !.compliant = TRUE].exists = bucket.exists
          /\ [bucket EXCEPT !.compliant = TRUE].ours = bucket.ours
      BY DEF bucketSet
    <3>. QED
      BY <1>1, <2>4, <3>1, <3>2 DEF EnablesVersioning
  <2>5. CASE ConfiguresLifecycle
    <3>1. [bucket EXCEPT !.archive = TRUE] \in bucketSet
      BY AttributesTyped
    <3>2. /\ [bucket EXCEPT !.archive = TRUE].exists = bucket.exists
          /\ [bucket EXCEPT !.archive = TRUE].ours = bucket.ours
      BY DEF bucketSet
    <3>. QED
      BY <1>1, <2>5, <3>1, <3>2 DEF ConfiguresLifecycle
  <2>6. CASE ConfiguresRetention
    <3>1. [bucket EXCEPT !.retention = "audit"] \in bucketSet
      BY AttributesTyped DEF retentions
    <3>2. /\ [bucket EXCEPT !.retention = "audit"].exists = bucket.exists
          /\ [bucket EXCEPT !.retention = "audit"].ours = bucket.ours
      BY DEF bucketSet
    <3>. QED
      BY <1>1, <2>6, <3>1, <3>2 DEF ConfiguresRetention
  <2>7. CASE Locks
    <3>. DEFINE c == [bucket EXCEPT !.locked = TRUE,
                                    !.lockedByUs = @ \/ ~bucket.locked]
    <3>1. c \in bucketSet
      BY AttributesTyped, Zenon
    <3>2. c.exists = bucket.exists /\ c.ours = bucket.ours
      BY DEF bucketSet
    <3>3. Updates(c)
      BY <2>7 DEF Locks
    <3>. QED
      BY <1>1, <3>1, <3>2, <3>3
  <2>. QED
    BY <2>1, <2>2, <2>3, <2>4, <2>5, <2>6, <2>7 DEF Effects
<1>3. CASE OthersDeleteBucket
  BY <1>3 DEF OthersDeleteBucket
<1>4. CASE \/ ClockJump \/ OthersCreateBucket
           \/ \E o \in objects : OthersChangeObject(o)
           \/ UNCHANGED vars
  BY <1>4 DEF ClockJump, OthersCreateBucket, OthersChangeObject, vars, provider
<1>5. CASE OthersSetRetention
  <2>1. PICK retention \in retentions : Updates([bucket EXCEPT !.retention = retention])
    BY <1>5 DEF OthersSetRetention
  <2>2. [bucket EXCEPT !.retention = retention] \in bucketSet
    BY AttributesTyped
  <2>3. /\ [bucket EXCEPT !.retention = retention].exists = bucket.exists
        /\ [bucket EXCEPT !.retention = retention].ours = bucket.ours
    BY DEF bucketSet
  <2>. QED
    BY <1>1, <2>1, <2>2, <2>3
<1>6. CASE OthersLock
  <2>1. [bucket EXCEPT !.locked = TRUE] \in bucketSet
    BY AttributesTyped
  <2>2. /\ [bucket EXCEPT !.locked = TRUE].exists = bucket.exists
        /\ [bucket EXCEPT !.locked = TRUE].ours = bucket.ours
    BY DEF bucketSet
  <2>. QED
    BY <1>1, <1>6, <2>1, <2>2 DEF OthersLock
<1>7. CASE OthersConfigure
  <2>1. PICK c \in {[bucket EXCEPT !.compliant = ~@], [bucket EXCEPT !.archive = ~@]} :
            Updates(c)
    BY <1>7 DEF OthersConfigure
  <2>2. c \in bucketSet
    BY AttributesTyped
  <2>3. c.exists = bucket.exists /\ c.ours = bucket.ours
    BY DEF bucketSet
  <2>. QED
    BY <1>1, <2>1, <2>2, <2>3
<1>. QED
  BY <1>2, <1>3, <1>4, <1>5, <1>6, <1>7 DEF Next, Others, Acts

\* A call that has found no bucket of its own creates it or stays without one:
\* it adopts nothing.
LEMMA BucketlessStep ==
    ASSUME TypeOK, Bucketless, [Next]_vars
    PROVE  raced' \/ (bucket'.exists /\ bucket'.ours) \/ Bucketless'
<1>. DEFINE Goal == raced' \/ (bucket'.exists /\ bucket'.ours) \/ Bucketless'
<1>1. ASSUME NEW s \in Sessions
      PROVE  /\ pc[s] \in beforeBucket
             /\ ~reached(s, "audit-bucket-created")
             /\ ~phaseReached(files, "handoff-verified")
  BY <1>1 DEF Bucketless, ourPhases, phases, phaseReached, reached, TypeOK
<1>2. ASSUME NEW s \in Sessions, Acts(s), pc'[s] \in beforeBucket, UNCHANGED object,
             \A r \in files' \ files : r.phase \notin ourPhases
      PROVE  Goal
  <2>1. \A t \in Sessions \ {s} : pc'[t] = pc[t]
    BY <1>2, Acting DEF ActFrame, Unmoved
  <2>. QED
    BY <1>1, <1>2, <2>1 DEF Bucketless
<1>3. ASSUME NEW s \in Sessions, Acts(s), Fail(s), UNCHANGED <<object, files>>
      PROVE  Goal
  <2>1. pc'[s] = "idle"
    BY <1>3 DEF Fail, FailWith, TypeOK
  <2>. QED
    BY <1>2, <1>3, <2>1 DEF beforeBucket
<1>4. ASSUME NEW s \in Sessions, Acts(s), UNCHANGED <<object, files>>,
             NEW next \in beforeBucket, Goto(s, next)
      PROVE  Goal
  <2>1. pc'[s] = next
    BY <1>4 DEF Goto, TypeOK
  <2>. QED
    BY <1>2, <1>4, <2>1
<1>5. ASSUME NEW s \in Sessions, Bootstrap(s) \/ LockRetention(s) PROVE Goal
  <2>1. PICK t : open(s, t)
    BY <1>5 DEF Bootstrap, LockRetention
  <2>2. pc'[s] \in beforeBucket /\ UNCHANGED <<object, files>>
    BY <1>1, <2>1 DEF open, Goto, firstStep, beforeBucket, provider, TypeOK
  <2>. QED
    BY <1>2, <1>5, <2>2 DEF Acts
<1>6. ASSUME NEW s \in Sessions, Acts(s), NEW phase \in phases \ ourPhases,
             NEW next \in beforeBucket, Record(s, phase, 0, next)
      PROVE  Goal
  <2>1. CASE canAppend(s, phase) /\ append(s, phase, 0) /\ Goto(s, next)
    <3>1. pc'[s] = next /\ UNCHANGED object
      BY <1>6, <2>1 DEF Record, Goto, provider, TypeOK
    <3>2. files' \ files \subseteq {recordFor(s, phase, 0)}
          /\ recordFor(s, phase, 0).phase = phase
      BY <2>1 DEF append, recordFor
    <3>. QED
      BY <1>2, <1>6, <3>1, <3>2
  <2>. QED
    BY <1>3, <1>6, <2>1 DEF Record, provider
<1>7. ASSUME NEW s \in Sessions, SessionStep(s) PROVE Goal
  <2>0. Acts(s)
    BY <1>7 DEF Acts
  <2>1. CASE Seal(s)
    <3>1. firstStep({}, task[s]) \in beforeBucket
      BY DEF firstStep, phaseReached, beforeBucket
    <3>. QED
      BY <1>6, <2>0, <2>1, <3>1 DEF Seal, phases, ourPhases
  <2>2. CASE ClaimBucket(s)
    BY <1>6, <2>0, <2>2 DEF ClaimBucket, phases, ourPhases, beforeBucket
  <2>3. CASE RefuseOutOfOrder(s)
    BY <1>3, <2>0, <2>3 DEF RefuseOutOfOrder, Check, provider
  <2>4. CASE EnsureBucket(s)
    BY <1>1, <1>3, <1>4, <2>0, <2>4 DEF EnsureBucket, Check, provider, beforeBucket
  <2>5. CASE AdoptExistingBucket(s)
    <3>1. ~envelopeMatches
      BY DEF Bucketless, envelopeMatches, objects
    <3>. QED
      BY <1>3, <2>0, <2>5, <3>1 DEF AdoptExistingBucket, Check, provider
  <2>6. CASE CreateBucket(s)
    BY <1>3, <1>4, <2>0, <2>6 DEF CreateBucket, Check, provider, beforeBucket
  <2>7. CASE CreateCommand(s)
    <3>1. CASE Creates
      BY <3>1 DEF Creates, noBucket
    <3>. QED
      BY <1>3, <2>0, <2>7, <3>1 DEF CreateCommand, Command, provider
  <2>8. pc[s] \in beforeBucket
    BY <1>1
  <2>. QED
    BY <1>7, <2>1, <2>2, <2>3, <2>4, <2>5, <2>6, <2>7, <2>8
    DEF SessionStep, EnableVersioning, ObserveCreated, RecordCreated, Upload,
        DescribeUpload, RemoteObjectMatches, DescribeObject, RecordUpload,
        EnsureLifecycle, ConfigureLifecycle, RecordLifecycle, VerifyBucket,
        VerifyEnvelope, VerifyJournal, RecordVerified, ConfigureRetention,
        RecordConfigured, RecordLockClaim, LockRetentionCall, LockCommand,
        RecordLocked, beforeBucket
<1>8. ASSUME NEW s \in Sessions, AdverseSession(s) PROVE Goal
  <2>0. Acts(s) /\ pc[s] \in beforeBucket
    BY <1>1, <1>8 DEF Acts
  <2>1. CASE Crash(s)
    <3>1. pc'[s] = "idle" /\ UNCHANGED <<object, files>>
      BY <2>1 DEF Crash, provider, TypeOK
    <3>. QED
      BY <1>2, <2>0, <3>1 DEF beforeBucket
  <2>2. CASE PortError(s)
    BY <1>3, <2>0, <2>2 DEF PortError, provider
  <2>3. CASE CommandUnclear(s)
    <3>1. Creates
      BY <2>0, <2>3 DEF CommandUnclear, beforeBucket
    <3>. QED
      BY <3>1 DEF Creates, noBucket
  <2>. QED
    BY <1>8, <2>0, <2>1, <2>2, <2>3
    DEF AdverseSession, UploadError, UploadUnclear, AppendUnclear, beforeBucket
<1>9. CASE Others
  <2>1. UNCHANGED <<files, pc>>
    BY <1>9 DEF Others, Aside, ClockJump, OthersCreateBucket, OthersDeleteBucket,
        OthersChangeObject, OthersSetRetention, OthersLock, OthersConfigure
  <2>2. \A o \in objects : object'[o].content # "own"
    <3>1. CASE \E o \in objects : OthersChangeObject(o)
      <4>0. PICK o \in objects : \E v : /\ object' = [object EXCEPT ![o] = v]
                                        /\ v.content # "own"
        BY <3>1 DEF OthersChangeObject, noObject
      <4>1. PICK v : object' = [object EXCEPT ![o] = v] /\ v.content # "own"
        BY <4>0
      <4>2. \A i \in objects : object'[i] = v \/ object'[i] = object[i]
        BY <4>1 DEF TypeOK
      <4>. QED
        BY <4>1, <4>2 DEF Bucketless
    <3>2. CASE UNCHANGED object
      BY <3>2 DEF Bucketless
    <3>. QED
      BY <1>9, <3>1, <3>2 DEF Others, ClockJump, provider, OthersCreateBucket,
          OthersDeleteBucket, OthersSetRetention, OthersLock, OthersConfigure, Updates
  <2>. QED
    BY <2>1, <2>2 DEF Bucketless
<1>10. CASE UNCHANGED vars
  BY <1>10 DEF vars, provider, Bucketless
<1>. QED
  BY <1>5, <1>7, <1>8, <1>9, <1>10 DEF Next

\* A bucket somebody else created is never recorded as the operation's and never
\* receives its objects (adoptExistingBucket, ensureBucket).
THEOREM ForeignBucketsUntouched == Spec => []ForeignBucketUntouched
<1>1. Init => OwnBucketInv
  BY DEF Init, OwnBucketInv, Bucketless, beforeBucket, noObject
<1>2. ASSUME TypeOK, OwnBucketInv, [Next]_vars
      PROVE  OwnBucketInv'
  <2>1. CASE raced
    <3>1. raced'
      <4>1. ASSUME NEW s \in Sessions, Acts(s) PROVE raced'
        BY <1>2, <2>1, <4>1, Acting DEF ActFrame
      <4>2. CASE Others \/ UNCHANGED vars
        BY <2>1, <4>2 DEF vars, Others, ClockJump, OthersCreateBucket,
            OthersDeleteBucket, OthersChangeObject, OthersSetRetention, OthersLock,
            OthersConfigure
      <4>. QED
        BY <1>2, <4>1, <4>2 DEF Next, Acts
    <3>. QED
      BY <3>1 DEF OwnBucketInv
  <2>2. CASE bucket.exists /\ bucket.ours
    BY <1>2, <2>2, OursKept DEF OwnBucketInv
  <2>3. CASE Bucketless
    BY <1>2, <2>3, BucketlessStep DEF OwnBucketInv
  <2>. QED
    BY <1>2, <2>1, <2>2, <2>3 DEF OwnBucketInv
<1>3. OwnBucketInv => ForeignBucketUntouched
  BY DEF OwnBucketInv, ForeignBucketUntouched, Bucketless, phaseReached,
     ourPhases, phases
<1>. QED
  BY <1>1, <1>2, <1>3, HandoffTypeCorrect, PTL DEF Spec
-----------------------------------------------------------------------------
(* The record chain of one caller.                                         *)

\* The record a caller may append to the chain it has read extends the chain.
LEMMA ChainGrows ==
    ASSUME TypeOK, NEW s \in Sessions, NEW phase \in phases, NEW gen \in Nat,
           records[s] = files, readHandoffRecords(files), canAppend(s, phase)
    PROVE  readHandoffRecords(files \cup {recordFor(s, phase, gen)})
<1>. DEFINE n == Cardinality(files)
            new == recordFor(s, phase, gen)
            chain == files \cup {new}
<1>1. IsFiniteSet(files) /\ n \in Nat
  BY FS_CardinalityType DEF TypeOK
<1>2. /\ new.sequence = n + 1 /\ new.phase = phase /\ new.recordedAt = now
  BY DEF recordFor
<1>3. \A r \in files : r.sequence \in 1..n
  BY DEF readHandoffRecords
<1>4. new \notin files
  BY <1>1, <1>2, <1>3
<1>5. Cardinality(chain) = n + 1
  BY <1>1, <1>4, FS_AddElement
<1>. HIDE DEF new, n, chain
<1>6. {r.sequence : r \in chain} = 1..(n + 1)
  <2>1. {r.sequence : r \in files} = 1..n
    BY DEF readHandoffRecords, n
  <2>2. {r.sequence : r \in chain} = {r.sequence : r \in files} \cup {n + 1}
    BY <1>2 DEF chain
  <2>3. 1..(n + 1) = (1..n) \cup {n + 1}
    BY <1>1
  <2>. QED
    BY <2>1, <2>2, <2>3
<1>7. ASSUME NEW r1 \in chain, NEW r2 \in chain, r1.sequence < r2.sequence
      PROVE  order[r1.phase] < order[r2.phase] /\ r1.recordedAt <= r2.recordedAt
  <2>1. CASE r1 \in files /\ r2 \in files
    BY <1>7, <2>1 DEF readHandoffRecords
  <2>2. CASE r1 \in files /\ r2 = new
    BY <1>2, <2>2 DEF canAppend, clockForward
  <2>3. CASE r1 = new
    <3>1. r2 = new \/ r2.sequence \in 1..n
      BY <1>3 DEF chain
    <3>. QED
      BY <1>1, <1>2, <1>7, <2>3, <3>1
  <2>. QED
    BY <2>1, <2>2, <2>3 DEF chain
<1>8. readHandoffRecords(chain)
  BY <1>5, <1>6, <1>7, Zenon DEF readHandoffRecords
<1>. QED
  BY <1>8 DEF chain, new

\* A call under way knows every record; the records can be read.
ChainInv ==
    /\ readHandoffRecords(files)
    /\ \A s \in Sessions : pc[s] # "idle" => records[s] = files

\* What one caller does, alone on the directory, keeps the chain readable.
LEMMA ChainActs ==
    ASSUME TypeOK, ChainInv, NEW s, Sessions = {s}, Acts(s)
    PROVE  ChainInv'
<1>. s \in Sessions
  OBVIOUS
<1>1. ASSUME UNCHANGED files,
             \/ pc'[s] = "idle"
             \/ records'[s] = files
             \/ records'[s] = records[s] /\ pc[s] # "idle"
      PROVE  ChainInv'
  BY <1>1 DEF ChainInv
<1>2. ASSUME NEW phase \in phases, NEW gen \in Nat, canAppend(s, phase), pc[s] # "idle",
             files' = files \cup {recordFor(s, phase, gen)},
             \/ pc'[s] = "idle"
             \/ records'[s] = records[s] \cup {recordFor(s, phase, gen)}
      PROVE  ChainInv'
  <2>1. records[s] = files /\ readHandoffRecords(files)
    BY <1>2 DEF ChainInv
  <2>2. readHandoffRecords(files \cup {recordFor(s, phase, gen)})
    BY <1>2, <2>1, ChainGrows
  <2>3. readHandoffRecords(files')
    BY <1>2, <2>2
  <2>4. readHandoffRecords(files)' <=> readHandoffRecords(files')
    BY DEF readHandoffRecords
  <2>. QED
    BY <1>2, <2>1, <2>3, <2>4 DEF ChainInv
<1>3. ASSUME NEW phase \in phases, NEW gen \in Nat, NEW next, pc[s] # "idle",
             Record(s, phase, gen, next)
      PROVE  ChainInv'
  <2>1. CASE canAppend(s, phase) /\ append(s, phase, gen)
    <3>1. /\ files' = files \cup {recordFor(s, phase, gen)}
          /\ records'[s] = records[s] \cup {recordFor(s, phase, gen)}
      BY <2>1 DEF append, TypeOK
    <3>. QED
      BY <1>2, <1>3, <2>1, <3>1
  <2>. QED
    BY <1>1, <1>3, <2>1 DEF Record
<1>4. CASE Bootstrap(s) \/ LockRetention(s)
  <2>1. PICK t : open(s, t)
    BY <1>4 DEF Bootstrap, LockRetention
  <2>2. UNCHANGED files /\ (records'[s] = files \/ pc'[s] = "idle")
    BY <2>1 DEF open, TypeOK
  <2>. QED
    BY <1>1, <2>2
<1>5. CASE \/ Seal(s) \/ ClaimBucket(s) \/ RecordCreated(s)
           \/ RecordLifecycle(s) \/ RecordConfigured(s) \/ RecordLockClaim(s)
           \/ RecordUpload(s)
  <2>1. seen[s].generation \in Nat /\ uploadPhase[item(s)] \in phases
    <3>1. seen[s] \in sightSet
      BY DEF TypeOK
    <3>2. item(s) \in objects
      BY DEF item, objects
    <3>. QED
      BY <3>1, <3>2 DEF sightSet, uploadPhase, phases
  <2>. QED
    BY <1>3, <1>5, <2>1 DEF Seal, ClaimBucket, RecordCreated, RecordLifecycle,
        RecordConfigured, RecordLockClaim, RecordUpload, phases
<1>6. CASE RecordVerified(s) \/ RecordLocked(s)
  <2>1. PICK phase \in {"handoff-verified", "retention-locked"} :
            /\ pc[s] # "idle"
            /\ \/ canAppend(s, phase) /\ append(s, phase, 0)
               \/ UNCHANGED <<files, records>>
    BY <1>6 DEF RecordVerified, RecordLocked
  <2>2. CASE canAppend(s, phase) /\ append(s, phase, 0)
    <3>1. /\ files' = files \cup {recordFor(s, phase, 0)}
          /\ records'[s] = records[s] \cup {recordFor(s, phase, 0)}
      BY <2>2 DEF append, TypeOK
    <3>. QED
      BY <1>2, <2>1, <2>2, <3>1 DEF phases
  <2>. QED
    BY <1>1, <2>1, <2>2
<1>7. CASE AppendUnclear(s)
  <2>1. PICK phase \in {"handoff-verified", "retention-locked"} :
            /\ pc[s] # "idle" /\ canAppend(s, phase)
            /\ files' = files \cup {recordFor(s, phase, 0)}
            /\ FailWith(s, files \cup {recordFor(s, phase, 0)})
    BY <1>7 DEF AppendUnclear
  <2>2. pc'[s] = "idle"
    BY <2>1 DEF FailWith, TypeOK
  <2>. QED
    BY <1>2, <2>1, <2>2 DEF phases
<1>8. CASE \/ RefuseOutOfOrder(s) \/ EnsureBucket(s) \/ AdoptExistingBucket(s)
           \/ CreateBucket(s) \/ CreateCommand(s) \/ EnableVersioning(s)
           \/ ObserveCreated(s) \/ Upload(s) \/ DescribeUpload(s)
           \/ RemoteObjectMatches(s) \/ DescribeObject(s)
           \/ EnsureLifecycle(s) \/ ConfigureLifecycle(s)
  <2>1. pc[s] # "idle" /\ UNCHANGED <<files, records>>
    BY <1>8 DEF RefuseOutOfOrder, EnsureBucket, AdoptExistingBucket, CreateBucket,
        CreateCommand, EnableVersioning, ObserveCreated, Upload, DescribeUpload,
        RemoteObjectMatches, DescribeObject, EnsureLifecycle, ConfigureLifecycle,
        Check, Command, See, session
  <2>. QED
    BY <1>1, <2>1
<1>9. CASE \/ VerifyBucket(s) \/ VerifyEnvelope(s) \/ VerifyJournal(s)
           \/ ConfigureRetention(s) \/ LockRetentionCall(s) \/ LockCommand(s)
           \/ Crash(s) \/ PortError(s) \/ CommandUnclear(s) \/ UploadError(s)
  <2>1. pc[s] # "idle" /\ UNCHANGED <<files, records>>
    BY <1>9 DEF VerifyBucket, VerifyEnvelope, VerifyJournal, ConfigureRetention,
        LockRetentionCall, LockCommand, LockCommandStep, Check, Crash, PortError,
        CommandUnclear, UploadError, UploadUnclear, session
  <2>. QED
    BY <1>1, <2>1
<1>. QED
  BY <1>4, <1>5, <1>6, <1>7, <1>8, <1>9 DEF Acts, SessionStep, AdverseSession

\* With one caller at a time the record directory can always be read again:
\* sequence numbers without a gap, phases and times that go forward
\* (append, readHandoffRecords).
THEOREM ChainsReadable ==
    ASSUME NEW s, Sessions = {s}
    PROVE  Spec => []ChainReadable
<1>1. ASSUME Init PROVE ChainInv
  <2>1. Cardinality({}) = 0
    BY FS_EmptySet
  <2>. QED
    BY <1>1, <2>1 DEF Init, ChainInv, readHandoffRecords
<1>2. ASSUME TypeOK, ChainInv, [Next]_vars PROVE ChainInv'
  <2>1. CASE UNCHANGED <<files, pc, records>>
    BY <1>2, <2>1 DEF ChainInv, readHandoffRecords
  <2>2. ASSUME Others \/ UNCHANGED vars PROVE UNCHANGED <<files, pc, records>>
    BY <2>2 DEF vars, session, Others, Aside, ClockJump, OthersCreateBucket,
        OthersDeleteBucket, OthersChangeObject, OthersSetRetention, OthersLock,
        OthersConfigure
  <2>3. CASE Acts(s)
    BY <1>2, <2>3, ChainActs
  <2>. QED
    BY <1>2, <2>1, <2>2, <2>3 DEF Next, Acts
<1>3. ChainInv => ChainReadable
  BY DEF ChainInv, ChainReadable
<1>. QED
  BY <1>1, <1>2, <1>3, HandoffTypeCorrect, PTL DEF Spec
=============================================================================
