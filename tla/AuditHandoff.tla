---------------------------- MODULE AuditHandoff ----------------------------
(***************************************************************************)
(* The audit handoff: steps K1a (Bootstrap) and K1b (LockRetention) of     *)
(* internal/control/handoff.go, the part of internal/control/executor.go   *)
(* that runs them, and the bucket commands of                              *)
(* internal/gcp/storage_operations.go that they send.                      *)
(*                                                                         *)
(* K1a creates the audit bucket and stores the envelope and the first      *)
(* journal entry in it; K1b locks the bucket's retention, which nobody can *)
(* undo.  Progress is kept in a directory of record files, one per phase,  *)
(* that only grows.  Every call reads the directory first and resumes from *)
(* there.  A call is a sequence of provider requests and file writes; each *)
(* is a step here, so that a crash, a failed or half-answered request, a   *)
(* clock jump, another call on the same directory or another user of the   *)
(* bucket can come between any two.                                        *)
(***************************************************************************)
EXTENDS Integers, FiniteSets

CONSTANTS Sessions,     \* callers of the executor that share the directory
          ApprovedAt, ValidUntil,  \* approval window of the envelope
          MaxTime,      \* bound: the clock shows 0..MaxTime
          Adverse,      \* the kinds of adverse event that may happen
          MaxAdverse    \* bound: how many of them happen

adverseKinds == {"crash", "error", "clock", "createBucket", "deleteBucket",
                 "object", "retention", "lock", "config"}

ASSUME HandoffAssumption ==
    /\ ApprovedAt \in Nat /\ ValidUntil \in Nat /\ MaxTime \in Nat
    /\ Adverse \subseteq adverseKinds
    /\ MaxAdverse \in Nat

phases == {"envelope-sealed", "audit-bucket-create-claimed",
           "audit-bucket-created", "envelope-uploaded", "journal-uploaded",
           "lifecycle-configured", "handoff-verified", "retention-configured",
           "retention-lock-claimed", "retention-locked"}

order == [p \in phases |->
    CASE p = "envelope-sealed" -> 0
      [] p = "audit-bucket-create-claimed" -> 1
      [] p = "audit-bucket-created" -> 2
      [] p = "envelope-uploaded" -> 3
      [] p = "journal-uploaded" -> 4
      [] p = "lifecycle-configured" -> 5
      [] p = "handoff-verified" -> 6
      [] p = "retention-configured" -> 7
      [] p = "retention-lock-claimed" -> 8
      [] p = "retention-locked" -> 9]

objects == {"envelope", "journal"}
uploadPhase == [o \in objects |-> IF o = "envelope" THEN "envelope-uploaded"
                                                    ELSE "journal-uploaded"]
retentions == {"none", "audit", "foreign"}  \* 0, AuditRetentionSeconds, other

VARIABLES
    files,       \* record files in the handoff directory
    bucket,      \* the bucket of the audit bucket's name
    object,      \* the live version of each object in it
    generations, \* how many object versions the provider has made
    now,         \* the clock
    pc,          \* where each session's call is
    task,        \* which call it is and why it verifies
    records,     \* handoffSession.records
    seen,        \* last observation: of the bucket, and of an upload
    outcome,     \* StepOutcome of the session's last call
    adversities, \* number of adverse events so far
    raced        \* observer: the bucket was changed where no check looks

provider == <<bucket, object, generations>>
session == <<task, records, seen>>
vars == <<files, provider, now, pc, session, outcome, adversities, raced>>

locations == {"idle", "seal", "outOfOrder", "ensureBucket",
    "adoptExistingBucket", "claimBucket", "createBucket", "createCommand", "enableVersioning",
    "observeCreated", "recordCreated", "upload", "describeUpload",
    "remoteObjectMatches", "describeObject", "recordUpload",
    "ensureLifecycle", "configureLifecycle", "recordLifecycle",
    "verifyBucket", "verifyEnvelope", "verifyJournal", "recordVerified",
    "configureRetention", "recordConfigured", "recordLockClaim",
    "lockRetention", "lockCommand", "recordLocked"}

\* Bootstrap; LockRetention's first observation; the one after the retention
\* period was set; the one after the lock.
tasks == {"bootstrap", "inspect", "converge", "confirmLock"}

noObject == [generation |-> 0, content |-> "none"]
noBucket == [exists |-> FALSE, ours |-> FALSE, compliant |-> FALSE,
             archive |-> FALSE, retention |-> "none", locked |-> FALSE,
             lockedByUs |-> FALSE, metageneration |-> 0]
noSight == [retention |-> "none", locked |-> FALSE, metageneration |-> 0,
            generation |-> 0]
noOutcome == [step |-> "none", failed |-> FALSE, mutated |-> FALSE,
              verified |-> FALSE]

recordSet == [sequence : Nat, phase : phases, recordedAt : Nat,
              generation : Nat]
bucketSet == [exists : BOOLEAN, ours : BOOLEAN, compliant : BOOLEAN,
              archive : BOOLEAN, retention : retentions, locked : BOOLEAN,
              lockedByUs : BOOLEAN, metageneration : Nat]
sightSet == [retention : retentions, locked : BOOLEAN, metageneration : Nat,
             generation : Nat]
outcomeSet == [step : {"none", "k1a", "k1b"}, failed : BOOLEAN,
               mutated : BOOLEAN, verified : BOOLEAN]

\* The type of every variable.
TypeOK ==
    /\ files \subseteq recordSet /\ IsFiniteSet(files)
    /\ bucket \in bucketSet
    /\ object \in [objects -> [generation : Nat,
                               content : {"none", "own", "other"}]]
    /\ generations \in Nat
    /\ now \in Nat
    /\ pc \in [Sessions -> locations]
    /\ task \in [Sessions -> tasks]
    /\ records \in [Sessions -> SUBSET files]
    /\ seen \in [Sessions -> sightSet]
    /\ outcome \in [Sessions -> outcomeSet]
    /\ adversities \in Nat
    /\ raced \in BOOLEAN

Init ==
    /\ files = {}
    /\ bucket = noBucket
    /\ object = [o \in objects |-> noObject]
    /\ generations = 0
    /\ now = ApprovedAt
    /\ pc = [s \in Sessions |-> "idle"]
    /\ task = [s \in Sessions |-> "bootstrap"]
    /\ records = [s \in Sessions |-> {}]
    /\ seen = [s \in Sessions |-> noSight]
    /\ outcome = [s \in Sessions |-> noOutcome]
    /\ adversities = 0
    /\ raced = FALSE
-----------------------------------------------------------------------------
(* The record chain.                                                       *)

phaseReached(recs, phase) == \E r \in recs : r.phase = phase
reached(s, phase) == phaseReached(records[s], phase)

\* readHandoffRecords: the files in name order carry the sequence numbers 1,
\* 2, ... and phases and times go forward.
readHandoffRecords(recs) ==
    /\ {r.sequence : r \in recs} = 1..Cardinality(recs)
    /\ \A r1, r2 \in recs : r1.sequence < r2.sequence =>
           order[r1.phase] < order[r2.phase] /\ r1.recordedAt <= r2.recordedAt

clockForwardMutant(s) == TRUE

clockForward(s) == \A r \in records[s] : r.recordedAt <= now

validAt(t) == ApprovedAt <= t /\ t < ValidUntil

authorizeMutation(s) == clockForward(s) /\ validAt(now)

recordFor(s, phase, gen) ==
    [sequence |-> Cardinality(records[s]) + 1, phase |-> phase,
     recordedAt |-> now, generation |-> gen]

\* The name of a record's file is its sequence number and its phase.
fileTaken(r) == \E f \in files : f.sequence = r.sequence /\ f.phase = r.phase

canAppend(s, phase) ==
    /\ \A r \in records[s] : order[r.phase] < order[phase]
    /\ clockForward(s)
    /\ ~fileTaken(recordFor(s, phase, 0))
-----------------------------------------------------------------------------
(* How a call ends.                                                        *)

stepOf(s) == IF task[s] = "bootstrap" THEN "k1a" ELSE "k1b"

\* After a failed LockRetention the executor asks the chain, through Status,
\* whether the boundary was crossed.
statusLocked(chain) == /\ readHandoffRecords(chain)
                       /\ phaseReached(chain, "retention-locked")

FailWith(s, chain) ==
    /\ pc' = [pc EXCEPT ![s] = "idle"]
    /\ outcome' = [outcome EXCEPT ![s] =
           [step |-> stepOf(s), failed |-> TRUE, verified |-> FALSE,
            mutated |-> stepOf(s) = "k1a" \/ statusLocked(chain)]]

Fail(s) == FailWith(s, files)

Return(s, recs) ==
    /\ pc' = [pc EXCEPT ![s] = "idle"]
    /\ outcome' = [outcome EXCEPT ![s] =
           [step |-> stepOf(s), failed |-> FALSE,
            mutated |-> stepOf(s) = "k1a"
                           \/ phaseReached(recs, "retention-locked"),
            verified |-> phaseReached(recs,
                IF stepOf(s) = "k1a" THEN "handoff-verified"
                                     ELSE "retention-locked")]]

Goto(s, location) == /\ pc' = [pc EXCEPT ![s] = location]
                     /\ UNCHANGED outcome

\* handoffSession.append publishes the record's file and keeps the record.
append(s, phase, gen) ==
    LET r == recordFor(s, phase, gen)
    IN  /\ files' = files \cup {r}
        /\ records' = [records EXCEPT ![s] = @ \cup {r}]

Record(s, phase, gen, next) ==
    /\ \/ canAppend(s, phase) /\ append(s, phase, gen) /\ Goto(s, next)
       \/ ~canAppend(s, phase) /\ Fail(s) /\ UNCHANGED <<files, records>>
    /\ UNCHANGED <<provider, now, task, seen, adversities, raced>>

\* A request that only reads: it goes on when ok holds and fails otherwise.
Check(s, ok, next) ==
    /\ \/ ok /\ Goto(s, next)
       \/ ~ok /\ Fail(s)
    /\ UNCHANGED <<files, provider, now, session, adversities, raced>>
-----------------------------------------------------------------------------
(* Opening a session.                                                      *)

\* The unlocked bucket configuration a handoff starts from.
checkCommonState == bucket.exists /\ bucket.compliant

checkPreLockState == checkCommonState /\ ~bucket.locked
                                      /\ bucket.retention # "foreign"

firstStep(recs, t) ==
    IF phaseReached(recs, "handoff-verified") THEN "verifyBucket"
    ELSE IF t = "bootstrap" THEN "ensureBucket" ELSE "outOfOrder"

open(s, t) ==
    /\ pc[s] = "idle"
    /\ task' = [task EXCEPT ![s] = t]
    /\ seen' = [seen EXCEPT ![s] = noSight]
    /\ UNCHANGED <<files, provider, now, adversities, raced>>
    /\ \/ /\ validAt(now) /\ readHandoffRecords(files)
          /\ records' = [records EXCEPT ![s] = files]
          /\ Goto(s, IF phaseReached(files, "envelope-sealed")
                     THEN firstStep(files, t) ELSE "seal")
       \/ /\ ~validAt(now) \/ ~readHandoffRecords(files)
          /\ outcome' = [outcome EXCEPT ![s] =
                 [step |-> IF t = "bootstrap" THEN "k1a" ELSE "k1b",
                  failed |-> TRUE, verified |-> FALSE,
                  mutated |-> t = "bootstrap" /\ validAt(now)]]
          /\ UNCHANGED <<records, pc>>

Bootstrap(s) == open(s, "bootstrap")
LockRetention(s) == open(s, "inspect")

Seal(s) ==
    /\ pc[s] = "seal"
    /\ Record(s, "envelope-sealed", 0, firstStep({}, task[s]))

\* LockRetention of a handoff that K1a has not verified.
RefuseOutOfOrder(s) ==
    /\ pc[s] = "outOfOrder"
    /\ Check(s, FALSE, "idle")
-----------------------------------------------------------------------------
(* K1a: the bucket.                                                        *)

uploadsDone(recs) == /\ phaseReached(recs, "envelope-uploaded")
                     /\ phaseReached(recs, "journal-uploaded")

\* The first of ensureUploads, ensureLifecycle and verify with work left.
afterBucket(s) ==
    IF ~uploadsDone(records[s]) THEN "upload"
    ELSE IF reached(s, "lifecycle-configured") THEN "verifyBucket"
    ELSE "ensureLifecycle"

EnsureBucket(s) ==
    /\ pc[s] = "ensureBucket"
    /\ IF bucket.exists
       THEN Check(s, checkPreLockState,
                  IF reached(s, "audit-bucket-created") THEN afterBucket(s)
                  ELSE "adoptExistingBucket")
       ELSE Check(s, ~reached(s, "audit-bucket-created"),
                  IF reached(s, "audit-bucket-create-claimed")
                  THEN "createBucket" ELSE "claimBucket")

envelopeMatchesMutant == phaseReached(files, "audit-bucket-create-claimed")

\* Only the operation's own envelope in the bucket proves ownership.
envelopeMatches == object["envelope"].content = "own"

AdoptExistingBucket(s) ==
    /\ pc[s] = "adoptExistingBucket"
    /\ Check(s, bucket.exists /\ envelopeMatches, "recordCreated")

ClaimBucket(s) ==
    /\ pc[s] = "claimBucket"
    /\ Record(s, "audit-bucket-create-claimed", 0, "createBucket")

\* authorizeMutation, then CreateAuditBucket looks once more.
CreateBucket(s) ==
    /\ pc[s] = "createBucket"
    /\ Check(s, authorizeMutation(s) /\ ~bucket.exists, "createCommand")

Creates ==
    /\ ~bucket.exists
    /\ bucket' = [noBucket EXCEPT !.exists = TRUE, !.ours = TRUE,
                                  !.metageneration = 1]
    /\ UNCHANGED <<object, generations>>

Updates(changed) ==
    /\ bucket.exists
    /\ bucket' = [changed EXCEPT !.metageneration = @ + 1]
    /\ UNCHANGED <<object, generations>>

EnablesVersioning == Updates([bucket EXCEPT !.compliant = TRUE])

\* A command the provider carried out and confirmed; the provider refuses one
\* that does not apply.
Command(s, effect, refused, next) ==
    /\ \/ effect /\ Goto(s, next)
       \/ refused /\ Fail(s) /\ UNCHANGED provider
    /\ UNCHANGED <<files, now, session, adversities, raced>>

CreateCommand(s) ==
    /\ pc[s] = "createCommand"
    /\ Command(s, Creates, bucket.exists, "enableVersioning")

EnableVersioning(s) ==
    /\ pc[s] = "enableVersioning"
    /\ Command(s, EnablesVersioning, ~bucket.exists, "observeCreated")

ObserveCreated(s) ==
    /\ pc[s] = "observeCreated"
    /\ Check(s, checkPreLockState, "recordCreated")

RecordCreated(s) ==
    /\ pc[s] = "recordCreated"
    /\ Record(s, "audit-bucket-created", 0, "upload")
-----------------------------------------------------------------------------
(* K1a: the uploads.                                                       *)

\* The object being uploaded is the first one without a record.
item(s) == IF reached(s, "envelope-uploaded") THEN "journal" ELSE "envelope"

Uploads(o) ==
    /\ bucket.exists /\ object[o] = noObject
    /\ generations' = generations + 1
    /\ object' = [object EXCEPT ![o] = [generation |-> generations + 1,
                                        content |-> "own"]]
    /\ UNCHANGED bucket

\* UploadCreateOnly writes only where no live version is; a refusal is the
\* precondition failure when a version can be seen.
Upload(s) ==
    /\ pc[s] = "upload"
    /\ \/ /\ authorizeMutation(s) /\ Uploads(item(s))
          /\ Goto(s, "describeUpload")
       \/ /\ authorizeMutation(s) /\ bucket.exists
          /\ object[item(s)] # noObject
          /\ Goto(s, "remoteObjectMatches") /\ UNCHANGED provider
       \/ /\ ~authorizeMutation(s) \/ ~bucket.exists
          /\ Fail(s) /\ UNCHANGED provider
    /\ UNCHANGED <<files, now, session, adversities, raced>>

\* The upload's error does not say whether it happened; seeing an object makes
\* it the precondition failure, and its descriptor is then read back.
UploadUnclear(s) ==
    /\ pc[s] = "upload" /\ authorizeMutation(s)
    /\ Uploads(item(s)) \/ UNCHANGED provider
    /\ \/ Fail(s)
       \/ object'[item(s)] # noObject /\ Goto(s, "remoteObjectMatches")
    /\ UNCHANGED <<files, now, session, raced>>

describesOwnMutant(o) == object[o] # noObject

\* MatchesContent of a descriptor read back.
describesOwn(o) == object[o].content = "own"

See(s, o, ok, next) ==
    /\ \/ /\ ok /\ Goto(s, next)
          /\ seen' = [seen EXCEPT ![s].generation = object[o].generation]
       \/ ~ok /\ Fail(s) /\ UNCHANGED seen
    /\ UNCHANGED <<files, provider, now, task, records, adversities,
                   raced>>

DescribeUpload(s) ==
    /\ pc[s] = "describeUpload"
    /\ See(s, item(s), describesOwn(item(s)), "recordUpload")

RemoteObjectMatches(s) ==
    /\ pc[s] = "remoteObjectMatches"
    /\ Check(s, object[item(s)].content = "own", "describeObject")

DescribeObject(s) ==
    /\ pc[s] = "describeObject"
    /\ See(s, item(s), describesOwn(item(s)), "recordUpload")

RecordUpload(s) ==
    /\ pc[s] = "recordUpload"
    /\ Record(s, uploadPhase[item(s)], seen[s].generation,
              IF item(s) = "envelope" THEN "upload" ELSE "ensureLifecycle")
-----------------------------------------------------------------------------
(* K1a: the lifecycle rule, and the end of Bootstrap.                      *)

EnsureLifecycle(s) ==
    /\ pc[s] = "ensureLifecycle"
    /\ Check(s, checkPreLockState, IF bucket.archive THEN "recordLifecycle"
                                   ELSE "configureLifecycle")

ConfiguresLifecycle == Updates([bucket EXCEPT !.archive = TRUE])

ConfigureLifecycle(s) ==
    /\ pc[s] = "configureLifecycle"
    /\ Command(s, authorizeMutation(s) /\ ConfiguresLifecycle,
               ~authorizeMutation(s) \/ ~bucket.exists, "recordLifecycle")

RecordLifecycle(s) ==
    /\ pc[s] = "recordLifecycle"
    /\ Record(s, "lifecycle-configured", 0, "verifyBucket")

RecordVerified(s) ==
    /\ pc[s] = "recordVerified"
    /\ \/ /\ canAppend(s, "handoff-verified")
          /\ append(s, "handoff-verified", 0) /\ Return(s, records'[s])
       \/ /\ ~canAppend(s, "handoff-verified")
          /\ Fail(s) /\ UNCHANGED <<files, records>>
    /\ UNCHANGED <<provider, now, task, seen, adversities, raced>>
-----------------------------------------------------------------------------
(* verifyObservation: the bucket, then both objects.                       *)

VerifyBucket(s) ==
    /\ pc[s] = "verifyBucket"
    /\ LET ok == checkCommonState /\ bucket.archive /\ uploadsDone(records[s])
       IN  \/ /\ ok /\ Goto(s, "verifyEnvelope")
              /\ seen' = [seen EXCEPT ![s] =
                     [retention |-> bucket.retention, locked |-> bucket.locked,
                      metageneration |-> bucket.metageneration,
                      generation |-> 0]]
           \/ ~ok /\ Fail(s) /\ UNCHANGED seen
    /\ UNCHANGED <<files, provider, now, task, records, adversities,
                   raced>>

\* The recorded descriptor is the live one and its content is the operation's.
objectVerifiedMutant(recs, o) == object[o] # noObject

objectVerified(recs, o) ==
    /\ object[o].content = "own"
    /\ \A r \in recs : r.phase = uploadPhase[o] =>
                           r.generation = object[o].generation

VerifyEnvelope(s) ==
    /\ pc[s] = "verifyEnvelope"
    /\ Check(s, objectVerified(records[s], "envelope"), "verifyJournal")

\* Where LockRetention goes with the bucket it observed.
inspected(s) ==
    CASE seen[s].locked /\ ~reached(s, "retention-locked") -> "recordLocked"
      [] ~seen[s].locked /\ seen[s].retention = "none" -> "configureRetention"
      [] ~seen[s].locked /\ seen[s].retention = "audit" ->
             IF ~reached(s, "retention-configured") THEN "recordConfigured"
             ELSE IF ~reached(s, "retention-lock-claimed")
             THEN "recordLockClaim" ELSE "lockRetention"

admissibleMutant(s) == ~seen[s].locked

admissible(s) ==
    CASE task[s] = "inspect" ->
             IF seen[s].locked
             THEN /\ seen[s].retention = "audit"
                  /\ reached(s, "retention-lock-claimed")
             ELSE seen[s].retention # "foreign"
      [] task[s] = "converge" ->
             seen[s].retention = "audit" /\ ~seen[s].locked
      [] task[s] = "confirmLock" ->
             seen[s].retention = "audit" /\ seen[s].locked
      [] OTHER -> TRUE

VerifyJournal(s) ==
    /\ pc[s] = "verifyJournal"
    /\ \/ /\ ~objectVerified(records[s], "journal") \/ ~admissible(s)
          /\ Fail(s)
       \/ /\ objectVerified(records[s], "journal") /\ admissible(s)
          /\ CASE task[s] = "bootstrap" /\ reached(s, "handoff-verified") ->
                      Return(s, records[s])
               [] task[s] = "bootstrap" /\ ~reached(s, "handoff-verified") ->
                      Goto(s, "recordVerified")
               [] task[s] = "inspect" /\ seen[s].locked
                          /\ reached(s, "retention-locked") -> Return(s, records[s])
               [] task[s] = "confirmLock" -> Goto(s, "recordLocked")
               [] OTHER -> Goto(s, inspected(s))
    /\ UNCHANGED <<files, provider, now, session, adversities, raced>>
-----------------------------------------------------------------------------
(* K1b.                                                                    *)

\* A command of LockRetention, followed by a new observation for purpose t.
LockCommandStep(s, effect, refused, t) ==
    /\ \/ /\ effect /\ Goto(s, "verifyBucket")
          /\ task' = [task EXCEPT ![s] = t]
       \/ refused /\ Fail(s) /\ UNCHANGED <<provider, task>>
    /\ UNCHANGED <<files, now, records, seen, adversities, raced>>

\* The provider refuses to shorten or remove a locked retention period.
ConfiguresRetention ==
    /\ ~bucket.locked \/ bucket.retention = "audit"
    /\ Updates([bucket EXCEPT !.retention = "audit"])

ConfigureRetention(s) ==
    /\ pc[s] = "configureRetention"
    /\ LockCommandStep(s, authorizeMutation(s) /\ ConfiguresRetention,
           \/ ~authorizeMutation(s) \/ ~bucket.exists
           \/ bucket.locked /\ bucket.retention # "audit",
           "converge")

RecordConfigured(s) ==
    /\ pc[s] = "recordConfigured"
    /\ Record(s, "retention-configured", 0, "recordLockClaim")

RecordLockClaim(s) ==
    /\ pc[s] = "recordLockClaim"
    /\ Record(s, "retention-lock-claimed", 0, "lockRetention")

lockableMutant(s) == bucket.exists /\ bucket.retention = "audit" /\ ~bucket.locked

\* The port looks at the bucket immediately before the irreversible command.
lockable(s) == /\ bucket.exists /\ bucket.retention = "audit" /\ ~bucket.locked
               /\ bucket.metageneration = seen[s].metageneration

LockRetentionCall(s) ==
    /\ pc[s] = "lockRetention"
    /\ Check(s, authorizeMutation(s) /\ lockable(s), "lockCommand")

Locks ==
    /\ bucket.retention # "none"
    /\ Updates([bucket EXCEPT !.locked = TRUE,
                              !.lockedByUs = @ \/ ~bucket.locked])

LockCommand(s) ==
    /\ pc[s] = "lockCommand"
    /\ LockCommandStep(s, Locks, ~bucket.exists \/ bucket.retention = "none",
                       "confirmLock")

RecordLocked(s) ==
    /\ pc[s] = "recordLocked"
    /\ \/ /\ canAppend(s, "retention-locked")
          /\ append(s, "retention-locked", 0) /\ Return(s, records'[s])
       \/ /\ ~canAppend(s, "retention-locked")
          /\ Fail(s) /\ UNCHANGED <<files, records>>
    /\ UNCHANGED <<provider, now, task, seen, adversities, raced>>
-----------------------------------------------------------------------------
(* Adverse events.                                                         *)

Happens(kind) == /\ kind \in Adverse /\ adversities < MaxAdverse
                 /\ adversities' = adversities + 1

Crash(s) ==
    /\ Happens("crash") /\ pc[s] # "idle"
    /\ pc' = [pc EXCEPT ![s] = "idle"]
    /\ outcome' = [outcome EXCEPT ![s] = noOutcome]
    /\ UNCHANGED <<files, provider, now, session, raced>>

\* A request or file write fails and had no effect.
PortError(s) ==
    /\ Happens("error") /\ pc[s] # "idle"
    /\ Fail(s)
    /\ UNCHANGED <<files, provider, now, session, raced>>

\* A command whose error leaves open whether it happened, and it did.
CommandUnclear(s) ==
    /\ Happens("error")
    /\ \/ pc[s] = "createCommand" /\ Creates
       \/ pc[s] = "enableVersioning" /\ EnablesVersioning
       \/ pc[s] = "configureLifecycle" /\ authorizeMutation(s)
              /\ ConfiguresLifecycle
       \/ pc[s] = "configureRetention" /\ authorizeMutation(s)
              /\ ConfiguresRetention
       \/ pc[s] = "lockCommand" /\ Locks
    /\ Fail(s)
    /\ UNCHANGED <<files, now, task, records, seen, raced>>

UploadError(s) == Happens("error") /\ UploadUnclear(s)

\* The record was published and the directory's fsync failed.
AppendUnclear(s) ==
    /\ Happens("error") /\ pc[s] \in {"recordVerified", "recordLocked"}
    /\ LET phase == IF pc[s] = "recordVerified" THEN "handoff-verified"
                                                ELSE "retention-locked"
           chain == files \cup {recordFor(s, phase, 0)}
       IN  canAppend(s, phase) /\ files' = chain /\ FailWith(s, chain)
    /\ UNCHANGED <<provider, now, session, raced>>

ClockJump ==
    /\ Happens("clock")
    /\ now' \in 0..MaxTime
    /\ UNCHANGED <<files, provider, pc, session, outcome, raced>>

Aside == UNCHANGED <<files, now, pc, session, outcome>>

Underway(where) == \E s \in Sessions : pc[s] \in where

OthersCreateBucket ==
    /\ Happens("createBucket") /\ ~bucket.exists
    /\ \E archive \in BOOLEAN, retention \in retentions :
           bucket' = [noBucket EXCEPT !.exists = TRUE, !.compliant = TRUE,
               !.archive = archive, !.retention = retention,
               !.metageneration = 1]
    /\ Aside /\ UNCHANGED <<object, generations, raced>>

\* A bucket is deleted only when it is empty.
OthersDeleteBucket ==
    /\ Happens("deleteBucket") /\ bucket.exists
    /\ \A o \in objects : object[o] = noObject
    /\ bucket' = noBucket
    /\ raced' = (raced \/ bucket.ours \/ Underway(locations \ {"idle"}))
    /\ Aside /\ UNCHANGED <<object, generations>>

\* A retention period, locked or not, protects the live objects: they can be
\* neither deleted nor replaced.
OthersChangeObject(o) ==
    /\ Happens("object") /\ bucket.exists
    /\ \/ /\ bucket.retention = "none" /\ object[o] # noObject
          /\ object' = [object EXCEPT ![o] = noObject]
          /\ UNCHANGED generations
       \/ /\ bucket.retention = "none" \/ object[o] = noObject
          /\ object' = [object EXCEPT ![o] =
                 [generation |-> generations + 1, content |-> "other"]]
          /\ generations' = generations + 1
    /\ Aside /\ UNCHANGED <<bucket, raced>>

\* A locked period can still be extended.
OthersSetRetention ==
    /\ Happens("retention")
    /\ \E retention \in retentions \ {bucket.retention} :
           /\ ~bucket.locked \/ retention = "foreign"
           /\ Updates([bucket EXCEPT !.retention = retention])
    /\ raced' = (raced \/ Underway({"lockCommand"}))
    /\ Aside

OthersLock ==
    /\ Happens("lock") /\ bucket.retention # "none" /\ ~bucket.locked
    /\ Updates([bucket EXCEPT !.locked = TRUE])
    /\ Aside /\ UNCHANGED raced

OthersConfigure ==
    /\ Happens("config")
    /\ \/ Updates([bucket EXCEPT !.compliant = ~@])
       \/ Updates([bucket EXCEPT !.archive = ~@])
    /\ Aside /\ UNCHANGED raced
-----------------------------------------------------------------------------
SessionStep(s) ==
    \/ Seal(s) \/ RefuseOutOfOrder(s) \/ EnsureBucket(s)
    \/ AdoptExistingBucket(s) \/ ClaimBucket(s) \/ CreateBucket(s)
    \/ CreateCommand(s) \/ EnableVersioning(s)
    \/ ObserveCreated(s) \/ RecordCreated(s)
    \/ Upload(s) \/ DescribeUpload(s) \/ RemoteObjectMatches(s)
    \/ DescribeObject(s) \/ RecordUpload(s)
    \/ EnsureLifecycle(s) \/ ConfigureLifecycle(s) \/ RecordLifecycle(s)
    \/ VerifyBucket(s) \/ VerifyEnvelope(s) \/ VerifyJournal(s)
    \/ RecordVerified(s)
    \/ ConfigureRetention(s) \/ RecordConfigured(s) \/ RecordLockClaim(s)
    \/ LockRetentionCall(s) \/ LockCommand(s) \/ RecordLocked(s)

AdverseSession(s) == \/ Crash(s) \/ PortError(s) \/ CommandUnclear(s)
                     \/ UploadError(s) \/ AppendUnclear(s)

Others == \/ ClockJump \/ OthersCreateBucket \/ OthersDeleteBucket
          \/ \E o \in objects : OthersChangeObject(o)
          \/ OthersSetRetention \/ OthersLock \/ OthersConfigure

Next == \/ \E s \in Sessions : \/ Bootstrap(s) \/ LockRetention(s)
                               \/ SessionStep(s) \/ AdverseSession(s)
        \/ Others

Spec == Init /\ [][Next]_vars

\* An operator who resumes the handoff again and again with the step that is
\* due; a call that has begun runs on.
Resume(s) == open(s, IF phaseReached(files, "handoff-verified")
                     THEN "inspect" ELSE "bootstrap")

FairSpec == /\ Spec
            /\ \A s \in Sessions : /\ SF_vars(Resume(s))
                                   /\ WF_vars(SessionStep(s))
-----------------------------------------------------------------------------
(* Properties.                                                             *)

\* Both objects are in the bucket with the operation's content, in the
\* version whose upload is recorded.
Intact ==
    \A o \in objects :
        /\ object[o].content = "own"
        /\ \E r \in files : /\ r.phase = uploadPhase[o]
                            /\ r.generation = object[o].generation

\* LockRetention records the lock, and the executor reports K1b verified,
\* only about a bucket that is locked and holds both objects as recorded;
\* nothing anybody else does later can make that false.
RecordedLockIsReal ==
    \/ phaseReached(files, "retention-locked")
    \/ \E s \in Sessions : outcome[s].step = "k1b" /\ outcome[s].verified
    => /\ bucket.exists /\ bucket.locked /\ bucket.retention # "none"
       /\ Intact

\* LockRetention makes the bucket irreversible only after the handoff was
\* verified and the lock claimed on disk, and while both objects are there as
\* recorded: the bucket is observed before the objects, and the retention
\* period seen then keeps the objects until the metageneration changes.  Only
\* a change between the port's last look and the command escapes.
LockSealsHandoff ==
    bucket.lockedByUs /\ ~raced =>
        /\ phaseReached(files, "handoff-verified")
        /\ phaseReached(files, "retention-lock-claimed")
        /\ Intact

\* What LockRetention and its records amount to for whoever looks at both: a
\* handoff that is sealed once, for good, and told truthfully (SealedHandoff).
Handoff == INSTANCE SealedHandoff WITH
    claimed <- /\ phaseReached(files, "handoff-verified")
               /\ phaseReached(files, "retention-lock-claimed"),
    whole <- Intact,
    sealed <- IF ~bucket.locked THEN "open"
              ELSE IF bucket.lockedByUs THEN "operation" ELSE "others",
    confirmed <- phaseReached(files, "retention-locked")
SealsForGood == Handoff!Spec

\* adoptExistingBucket and ensureBucket: a bucket somebody else created is
\* never recorded as this operation's and never receives its objects.
ForeignBucketUntouched ==
    bucket.exists /\ ~bucket.ours /\ ~raced =>
        /\ ~phaseReached(files, "audit-bucket-created")
        /\ \A o \in objects : object[o].content # "own"

\* append and readHandoffRecords: whatever the clock does and wherever a call
\* stops, the next call can read the records.  For one session at a time.
ChainReadable == readHandoffRecords(files)

\* uploadCreateOnly records a version only if it holds this operation's
\* content, also when the upload failed and the object found instead is
\* replaced between the read and the describe.
RecordedUploadIsOwn ==
    \A r \in files, o \in objects :
        /\ r.phase = uploadPhase[o]
        /\ r.generation = object[o].generation
        => object[o].content = "own"

\* A create that stopped before the envelope was stored: it blocks for
\* explicit recovery (adoptExistingBucket).
PartialBucket ==
    /\ bucket.exists /\ ~phaseReached(files, "audit-bucket-created")
    /\ object["envelope"] = noObject

\* Bootstrap and LockRetention resume: whatever calls crash or fail half-way,
\* the handoff ends locked and recorded, or with the partial bucket that
\* needs recovery.
HandoffCompletes == \/ <>phaseReached(files, "retention-locked")
                    \/ <>[]PartialBucket
=============================================================================
