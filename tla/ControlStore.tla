---------------------------- MODULE ControlStore ----------------------------
(***************************************************************************)
(* The objects of the control bucket: steps K4 (seedControl) and K5        *)
(* (lockRoundTrip) of internal/control/executor.go with                    *)
(* SeedControlStore of internal/control/seeds.go, and the conditional      *)
(* uploads of internal/gcp/storage_operations.go that they send.           *)
(*                                                                         *)
(* K4 creates the seed objects that are absent and accepts compatible ones *)
(* that are there.  K5 takes the lock object, proves that a write with the *)
(* old generation is refused, and releases it again.  Nothing is recorded  *)
(* locally: the generation an upload is conditional on is all that keeps   *)
(* callers apart.  Every provider request is a step, and an upload that    *)
(* fails is followed by a describe that decides what the failure means.    *)
(* A read is one step: it is pinned to the version it describes, which the *)
(* bucket's versioning keeps.                                              *)
(***************************************************************************)
EXTENDS Integers

CONSTANTS Sessions,    \* callers of the executor for one envelope
          Outsider,    \* whoever else writes the control bucket
          SeedCount,   \* number of seed objects; four in the code
          Adverse,     \* the kinds of adverse event that may happen
          MaxAdverse,  \* bound: how many of them happen
          MaxVersions  \* bound: no call begins after so many object versions

ASSUME StoreAssumption ==
    /\ Outsider \notin Sessions
    /\ SeedCount \in Nat \ {0}
    /\ Adverse \subseteq {"crash", "error", "expire", "write", "delete"}
    /\ MaxAdverse \in Nat /\ MaxVersions \in Nat

seeds == 1..SeedCount
lock == 1                 \* SeedObjects lists the lock record first

\* "compatible" and "held" are what validateExistingSeed accepts besides the
\* seed's own bytes; a held or otherwise used lock record is not a clean one.
kinds == {"none", "seed", "compatible", "held", "bad"}

noObject == [generation |-> 0, kind |-> "none", by |-> Outsider]
noOutcome == [step |-> "none", failed |-> FALSE, mutated |-> FALSE,
              verified |-> FALSE]
noSeed == [generation |-> 0, preexisting |-> FALSE]
noCall == [index |-> 1, seed |-> [o \in seeds |-> noSeed],
           prior |-> [generation |-> 0, kind |-> "none"],
           acquired |-> 0, released |-> 0]

VARIABLES
    object,      \* the live version of each seed object
    generations, \* how many versions the provider has made
    valid,       \* the approval window is open
    completed,   \* the steps the journal records as done
    pc,          \* where each session's call is
    call,        \* what the call has observed: seeds, prior lock, generations
    outcome,     \* StepOutcome of the session's last call
    adversities, \* number of adverse events so far
    took,        \* observer: the call has really taken the lock
    disturbed    \* observer: an outsider has written or deleted the lock

provider == <<object, generations>>
observers == <<took, disturbed>>
vars == <<provider, valid, completed, pc, call, outcome, adversities,
          observers>>

seeding == {"preflight", "create", "explainCreate", "describeCreated",
            "reread"}
locking == {"describeAcquired", "probe", "explainProbe", "release",
            "describeReleased", "final"}
locations == {"idle", "observe", "readLock", "acquire"} \cup seeding
                 \cup locking

callSet == [index : seeds,
            seed : [seeds -> [generation : Nat, preexisting : BOOLEAN]],
            prior : [generation : Nat, kind : kinds],
            acquired : Nat, released : Nat]
outcomeSet == [step : {"none", "k4", "k5"}, failed : BOOLEAN,
               mutated : BOOLEAN, verified : BOOLEAN]

\* The type of every variable; a failed call has verified nothing.
TypeOK ==
    /\ object \in [seeds -> [generation : Nat, kind : kinds,
                             by : Sessions \cup {Outsider}]]
    /\ generations \in Nat
    /\ valid \in BOOLEAN
    /\ completed \subseteq {"k4", "k5"}
    /\ pc \in [Sessions -> locations]
    /\ call \in [Sessions -> callSet]
    /\ outcome \in [Sessions -> outcomeSet]
    /\ \A s \in Sessions : ~(outcome[s].failed /\ outcome[s].verified)
    /\ adversities \in Nat
    /\ took \in [Sessions -> BOOLEAN]
    /\ disturbed \in BOOLEAN

Init ==
    /\ object = [o \in seeds |-> noObject]
    /\ generations = 0
    /\ valid = TRUE
    /\ completed = {}
    /\ pc = [s \in Sessions |-> "idle"]
    /\ call = [s \in Sessions |-> noCall]
    /\ outcome = [s \in Sessions |-> noOutcome]
    /\ adversities = 0
    /\ took = [s \in Sessions |-> FALSE]
    /\ disturbed = FALSE
-----------------------------------------------------------------------------
(* Contents, and how a call ends.                                          *)

compatibleMutant(kind) == kind = "seed"

\* validateExistingSeed: the seed's bytes, or a record that means the same.
compatible(kind) == kind \in {"seed", "compatible", "held"}

\* lockRoundTrip takes only a released record without any holder's traces.
cleanLock(kind) == kind \in {"seed", "compatible"}

stepOf(s) == IF pc[s] = "observe" \/ pc[s] \in seeding THEN "k4" ELSE "k5"

createdSome(s) == \E o \in seeds : /\ call[s].seed[o].generation # 0
                                   /\ ~call[s].seed[o].preexisting

mutationReportedMutant(s) == pc[s] \in seeding \cup locking

\* MutationOccurred of a call that fails where it is: every failure of
\* SeedControlStore that is not an incompatible object; what was created,
\* afterwards; and everything from the acquiring write on.
mutationReported(s) == \/ pc[s] \in seeding \cup locking \cup {"acquire"}
                       \/ pc[s] = "observe" /\ createdSome(s)

FailAs(s, mutated) ==
    /\ pc' = [pc EXCEPT ![s] = "idle"]
    /\ outcome' = [outcome EXCEPT ![s] =
           [step |-> stepOf(s), failed |-> TRUE, mutated |-> mutated,
            verified |-> FALSE]]

Fail(s) == FailAs(s, mutationReported(s))

\* The caller records a verified step as done.
Verify(s, mutated) ==
    /\ pc' = [pc EXCEPT ![s] = "idle"]
    /\ outcome' = [outcome EXCEPT ![s] =
           [step |-> stepOf(s), failed |-> FALSE, mutated |-> mutated,
            verified |-> TRUE]]
    /\ completed' = completed \cup {stepOf(s)}

Goto(s, location) == /\ pc' = [pc EXCEPT ![s] = location]
                     /\ UNCHANGED <<outcome, completed>>

Stop(s) == Fail(s) /\ UNCHANGED <<call, completed>>
-----------------------------------------------------------------------------
(* Conditional uploads.                                                    *)

generationMatchesMutant(o, expected) ==
    expected = 0 => object[o].generation = 0

\* --if-generation-match; zero asks for absence.
generationMatches(o, expected) == object[o].generation = expected

write(s, o, kind) ==
    /\ generations' = generations + 1
    /\ object' = [object EXCEPT ![o] =
           [generation |-> generations + 1, kind |-> kind, by |-> s]]

describesOwnMutant(s, o, kind) == object[o] # noObject

\* MatchesContent: a held record names its holder, other contents do not
\* differ from one writer to the next.
describesOwn(s, o, kind) ==
    /\ object[o].kind = kind
    /\ kind = "held" => object[o].by = s

\* The describe after an upload that failed: a version with another
\* generation makes the failure the precondition failure.
preconditionFailed(o, expected) ==
    object[o] # noObject /\ object[o].generation # expected
-----------------------------------------------------------------------------
(* K4.                                                                     *)

\* Execute refuses a step that is not admitted or comes outside the window.
open(s, admitted, location) ==
    /\ pc[s] = "idle" /\ generations < MaxVersions
    /\ call' = [call EXCEPT ![s] = noCall]
    /\ took' = [took EXCEPT ![s] = FALSE]
    /\ \/ /\ admitted /\ valid
          /\ pc' = [pc EXCEPT ![s] = location]
          /\ outcome' = [outcome EXCEPT ![s] = noOutcome]
       \/ /\ ~admitted \/ ~valid
          /\ outcome' = [outcome EXCEPT ![s] = [noOutcome EXCEPT !.failed = TRUE]]
          /\ UNCHANGED pc
    /\ UNCHANGED <<provider, valid, completed, adversities, disturbed>>

SeedControl(s) == open(s, TRUE, "preflight")

foundAt(o, preexisting) == [generation |-> object[o].generation,
                            preexisting |-> preexisting]

\* One turn of a loop over the seeds: seed is what is known of them now, and
\* the loop goes on at location or ends at next.
Turn(s, seed, location, next) ==
    /\ call' = [call EXCEPT ![s].seed = seed,
           ![s].index = IF @ < SeedCount THEN @ + 1 ELSE 1]
    /\ Goto(s, IF call[s].index < SeedCount THEN location ELSE next)

item(s) == call[s].index

withSeed(s, preexisting) ==
    [call[s].seed EXCEPT ![item(s)] = foundAt(item(s), preexisting)]

\* The read-only pass over all seeds.
Preflight(s) ==
    /\ pc[s] = "preflight"
    /\ \/ /\ object[item(s)] = noObject
          /\ Turn(s, call[s].seed, "preflight", "create")
       \/ /\ object[item(s)] # noObject /\ compatible(object[item(s)].kind)
          /\ Turn(s, withSeed(s, TRUE), "preflight", "create")
       \/ /\ object[item(s)] # noObject /\ ~compatible(object[item(s)].kind)
          /\ FailAs(s, FALSE) /\ UNCHANGED <<call, completed>>
    /\ UNCHANGED <<provider, valid, adversities, observers>>

found(s) == call[s].seed[item(s)].generation # 0

KeepSeed(s) ==
    /\ pc[s] = "create" /\ found(s)
    /\ Turn(s, call[s].seed, "create", "observe")
    /\ UNCHANGED <<provider, valid, adversities, observers>>

\* The port checks the authorization's window before it sends a command.
Create(s) ==
    /\ pc[s] = "create" /\ ~found(s)
    /\ \/ /\ valid /\ generationMatches(item(s), 0)
          /\ write(s, item(s), "seed")
          /\ Goto(s, "describeCreated")
       \/ /\ ~valid \/ ~generationMatches(item(s), 0)
          /\ Goto(s, "explainCreate")
          /\ UNCHANGED provider
    /\ UNCHANGED <<valid, call, adversities, observers>>

ExplainCreate(s) ==
    /\ pc[s] = "explainCreate"
    /\ \/ /\ preconditionFailed(item(s), 0)
          /\ Goto(s, "reread") /\ UNCHANGED call
       \/ ~preconditionFailed(item(s), 0) /\ Stop(s)
    /\ UNCHANGED <<provider, valid, adversities, observers>>

TakeSeed(s, preexisting) ==
    Turn(s, withSeed(s, preexisting), "create", "observe")

DescribeCreated(s) ==
    /\ pc[s] = "describeCreated"
    /\ \/ describesOwn(s, item(s), "seed") /\ TakeSeed(s, FALSE)
       \/ ~describesOwn(s, item(s), "seed") /\ Stop(s)
    /\ UNCHANGED <<provider, valid, adversities, observers>>

\* "Lost a create race after the preflight: re-read and validate."
Reread(s) ==
    /\ pc[s] = "reread"
    /\ \/ /\ object[item(s)] # noObject /\ compatible(object[item(s)].kind)
          /\ TakeSeed(s, TRUE)
       \/ object[item(s)] = noObject /\ Stop(s)
       \/ /\ object[item(s)] # noObject /\ ~compatible(object[item(s)].kind)
          /\ FailAs(s, FALSE) /\ UNCHANGED <<call, completed>>
    /\ UNCHANGED <<provider, valid, adversities, observers>>

unchangedSeed(s, o) ==
    /\ object[o] # noObject
    /\ object[o].generation = call[s].seed[o].generation
    /\ compatible(object[o].kind)

\* Every seed is read again, in order.
Observe(s) ==
    /\ pc[s] = "observe"
    /\ \/ ~unchangedSeed(s, item(s)) /\ Stop(s)
       \/ /\ unchangedSeed(s, item(s)) /\ item(s) < SeedCount
          /\ Turn(s, call[s].seed, "observe", "observe")
       \/ /\ unchangedSeed(s, item(s)) /\ item(s) = SeedCount
          /\ Verify(s, createdSome(s)) /\ UNCHANGED call
    /\ UNCHANGED <<provider, valid, adversities, observers>>
-----------------------------------------------------------------------------
(* K5.                                                                     *)

LockRoundTrip(s) == open(s, "k4" \in completed, "readLock")

ReadLock(s) ==
    /\ pc[s] = "readLock"
    /\ \/ /\ cleanLock(object[lock].kind)
          /\ call' = [call EXCEPT ![s].prior =
                 [generation |-> object[lock].generation,
                  kind |-> object[lock].kind]]
          /\ Goto(s, "acquire")
       \/ ~cleanLock(object[lock].kind) /\ Stop(s)
    /\ UNCHANGED <<provider, valid, adversities, observers>>

Acquires(s) ==
    /\ valid /\ generationMatches(lock, call[s].prior.generation)
    /\ write(s, lock, "held")
    /\ took' = [took EXCEPT ![s] = TRUE]

\* Nothing is sent outside the approval window, and nothing is reported.
Acquire(s) ==
    /\ pc[s] = "acquire"
    /\ \/ Acquires(s) /\ Goto(s, "describeAcquired")
       \/ /\ valid /\ ~generationMatches(lock, call[s].prior.generation)
          /\ Fail(s) /\ UNCHANGED <<provider, completed, took>>
       \/ /\ ~valid /\ FailAs(s, FALSE)
          /\ UNCHANGED <<provider, completed, took>>
    /\ UNCHANGED <<valid, call, adversities, disturbed>>

DescribeAcquired(s) ==
    /\ pc[s] = "describeAcquired"
    /\ \/ /\ describesOwn(s, lock, "held")
          /\ call' = [call EXCEPT ![s].acquired = object[lock].generation]
          /\ Goto(s, "probe")
       \/ ~describesOwn(s, lock, "held") /\ Stop(s)
    /\ UNCHANGED <<provider, valid, adversities, observers>>

\* The write with the stale generation.  It is never accepted here; that it is
\* refused, fails or is not even sent makes no difference to what follows.
Probe(s) ==
    /\ pc[s] = "probe"
    /\ ~generationMatches(lock, call[s].prior.generation)
    /\ Goto(s, "explainProbe")
    /\ UNCHANGED <<provider, valid, call, adversities, observers>>

\* Only the precondition failure lets the round trip go on.
ExplainProbe(s) ==
    /\ pc[s] = "explainProbe"
    /\ \/ /\ preconditionFailed(lock, call[s].prior.generation)
          /\ Goto(s, "release") /\ UNCHANGED call
       \/ ~preconditionFailed(lock, call[s].prior.generation) /\ Stop(s)
    /\ UNCHANGED <<provider, valid, adversities, observers>>

Releases(s) ==
    /\ valid /\ generationMatches(lock, call[s].acquired)
    /\ write(s, lock, call[s].prior.kind)

Release(s) ==
    /\ pc[s] = "release"
    /\ \/ Releases(s) /\ Goto(s, "describeReleased")
       \/ /\ ~valid \/ ~generationMatches(lock, call[s].acquired)
          /\ Fail(s) /\ UNCHANGED <<provider, completed>>
    /\ UNCHANGED <<valid, call, adversities, observers>>

DescribeReleased(s) ==
    /\ pc[s] = "describeReleased"
    /\ \/ /\ describesOwn(s, lock, call[s].prior.kind)
          /\ call' = [call EXCEPT ![s].released = object[lock].generation]
          /\ Goto(s, "final")
       \/ ~describesOwn(s, lock, call[s].prior.kind) /\ Stop(s)
    /\ UNCHANGED <<provider, valid, adversities, observers>>

restored(s) == /\ object[lock].generation = call[s].released
               /\ object[lock].kind = call[s].prior.kind

Final(s) ==
    /\ pc[s] = "final"
    /\ \/ restored(s) /\ Verify(s, TRUE) /\ UNCHANGED call
       \/ ~restored(s) /\ Stop(s)
    /\ UNCHANGED <<provider, valid, adversities, observers>>
-----------------------------------------------------------------------------
(* Adverse events.                                                         *)

Happens(kind) == /\ kind \in Adverse /\ adversities < MaxAdverse
                 /\ adversities' = adversities + 1

Crash(s) ==
    /\ Happens("crash") /\ pc[s] # "idle"
    /\ pc' = [pc EXCEPT ![s] = "idle"]
    /\ outcome' = [outcome EXCEPT ![s] = noOutcome]
    /\ UNCHANGED <<provider, valid, completed, call, observers>>

\* A request that only reads fails, or an upload before it is sent.
RequestError(s) ==
    /\ Happens("error") /\ pc[s] # "idle"
    /\ pc[s] = "acquire" => valid
    /\ pc[s] = "create" => ~found(s)
    /\ Stop(s)
    /\ UNCHANGED <<provider, valid, observers>>

\* The command of a create fails; it may have happened.
CreateError(s) ==
    /\ Happens("error") /\ pc[s] = "create" /\ ~found(s)
    /\ \/ /\ valid /\ generationMatches(item(s), 0)
          /\ write(s, item(s), "seed")
       \/ UNCHANGED provider
    /\ Goto(s, "explainCreate")
    /\ UNCHANGED <<valid, call, observers>>

\* A write to the lock takes effect and its answer is lost.
AcquireError(s) ==
    /\ Happens("error") /\ pc[s] = "acquire"
    /\ Acquires(s) /\ Fail(s)
    /\ UNCHANGED <<valid, completed, call, disturbed>>

ReleaseError(s) ==
    /\ Happens("error") /\ pc[s] = "release"
    /\ Releases(s) /\ Fail(s)
    /\ UNCHANGED <<valid, completed, call, observers>>

Expire ==
    /\ Happens("expire") /\ valid
    /\ valid' = FALSE
    /\ UNCHANGED <<provider, completed, pc, call, outcome, observers>>

Aside == UNCHANGED <<valid, completed, pc, call, outcome, took>>

OthersWrite(o) ==
    /\ Happens("write")
    /\ \E kind \in {"compatible", "bad"}
                      \cup (IF o = lock THEN {"held"} ELSE {}) :
           write(Outsider, o, kind)
    /\ disturbed' = (disturbed \/ o = lock)
    /\ Aside

OthersDelete(o) ==
    /\ Happens("delete") /\ object[o] # noObject
    /\ object' = [object EXCEPT ![o] = noObject]
    /\ disturbed' = (disturbed \/ o = lock)
    /\ Aside /\ UNCHANGED generations
-----------------------------------------------------------------------------
SessionStep(s) ==
    \/ Preflight(s) \/ KeepSeed(s) \/ Create(s) \/ ExplainCreate(s)
    \/ DescribeCreated(s) \/ Reread(s) \/ Observe(s)
    \/ ReadLock(s) \/ Acquire(s) \/ DescribeAcquired(s) \/ Probe(s)
    \/ ExplainProbe(s) \/ Release(s) \/ DescribeReleased(s) \/ Final(s)

AdverseSession(s) == \/ Crash(s) \/ RequestError(s) \/ CreateError(s)
                     \/ AcquireError(s) \/ ReleaseError(s)

Next == \/ \E s \in Sessions : \/ SeedControl(s) \/ LockRoundTrip(s)
                               \/ SessionStep(s) \/ AdverseSession(s)
        \/ Expire
        \/ \E o \in seeds : OthersWrite(o) \/ OthersDelete(o)

Spec == Init /\ [][Next]_vars

\* An operator who runs the step that is due until both are done; a call that
\* has begun runs on.
Resume(s) == IF "k4" \in completed THEN LockRoundTrip(s) ELSE SeedControl(s)

FairSpec == /\ Spec
            /\ \A s \in Sessions : /\ SF_vars(Resume(s))
                                   /\ WF_vars(SessionStep(s))
-----------------------------------------------------------------------------
(* Properties.                                                             *)

\* UploadControlCreateOnly and UploadIfGenerationMatch: a session's write
\* creates an absent seed, replaces the clean lock record it has read by its
\* own held one, or replaces its own held record by the content it found.
\* Whatever anybody else wrote in between is never overwritten.
OverwritesNothing(o) ==
    LET s == object'[o].by
    IN  object'[o] # object[o] /\ s \in Sessions =>
            \/ object[o] = noObject /\ object'[o].kind = "seed"
            \/ /\ o = lock /\ object'[o].kind = "held"
               /\ cleanLock(object[o].kind)
               /\ object[o].generation = call[s].prior.generation
            \/ /\ o = lock /\ object[o].kind = "held" /\ object[o].by = s
               /\ object'[o].kind = call[s].prior.kind

NeverOverwrites == [][\A o \in seeds : OverwritesNothing(o)]_vars

\* A session between its acquire and its release.
holding(s) == pc[s] \in {"probe", "explainProbe", "release"}

\* lockRoundTrip: as long as only the protocol writes the lock record, at
\* most one session believes that it holds the lock, also when acquires fail
\* ambiguously and holders crash.
LockExclusive ==
    disturbed \/ \A s, t \in Sessions : holding(s) /\ holding(t) => s = t

\* A running call that has taken the lock, whether it knows already or not.
inUse(s) == pc[s] = "describeAcquired" \/ holding(s)

\* lockRoundTrip, read as the lock record itself: free until a call takes it,
\* given back by that call and no other, and left held by one that fails or
\* crashes in between (LockRecord).
Record == INSTANCE LockRecord WITH
    state <- IF object[lock].kind = "none" THEN "absent"
             ELSE IF cleanLock(object[lock].kind) THEN "free"
             ELSE object[lock].kind,
    holders <- {s \in Sessions : object[lock].kind = "held" /\ object[lock].by = s},
    using <- {s \in Sessions : inUse(s)}
LockIsReturnedByItsTaker == Record!Spec

\* What a verified step reports is so as long as nobody changes it.  K5: the
\* version it released the lock with is a clean record with the content the
\* lock had before.  K4: each seed is compatible, and what it reports as created
\* was written by a session.
VerifiedHolds ==
    \A s \in Sessions :
        outcome[s].verified =>
            /\ outcome[s].step = "k5" /\ object[lock].generation = call[s].released =>
                   /\ object[lock].kind = call[s].prior.kind
                   /\ object[lock].kind # "held"
            /\ outcome[s].step = "k4" =>
                   \A o \in seeds :
                       object[o].generation = call[s].seed[o].generation =>
                           /\ compatible(object[o].kind)
                           /\ call[s].seed[o].preexisting \/ object[o].by \in Sessions

\* lockRoundTrip sets MutationOccurred before the acquiring write: a call
\* that took the lock, knowingly or not, never reports that nothing happened.
AcquireIsReported ==
    \A s \in Sessions :
        outcome[s].step = "k5" /\ took[s] => outcome[s].mutated

\* Where K4 or K5 cannot go on: the window has closed, somebody else's object
\* is incompatible, a lock record is in use, or the seeded lock is gone.
Blocked == \/ ~valid
           \/ \E o \in seeds : object[o].kind = "bad"
           \/ object[lock].kind = "held"
           \/ "k4" \in completed /\ object[lock] = noObject

\* K4 and K5 converge when they are retried: whatever requests fail, both
\* steps are verified, or something that the code refuses to touch blocks.
StepsComplete == <>("k5" \in completed) \/ <>[]Blocked
=============================================================================
