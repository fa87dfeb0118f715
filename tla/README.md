# CtrlDB: a verification project in TLA+

CtrlDB is a control plane for self-managed databases on Google Cloud. Its
repository holds the safety core of that program: the lifecycle of an operation
and its durable journal, cancellation, the bootstrap of an audit and a control
bucket, network steps with compensation, admission guards for a test harness,
and a good deal of validation. There is no engine yet: the code is a set of
components with sharp promises that a future engine will call. This project
models the components in which order, failure and concurrency decide whether
the promises hold, checks them with TLC on small instances and proves the most
important ones with TLAPS for every instance.

All paths below are relative to `internal/` of the repository.

## 1. Inventory

| Component | State it keeps | Operations | What is hard about it |
|---|---|---|---|
| Operation lifecycle (`domain/operation.go`, `workflow/machine.go`) | state, generation | `Transition`, `RestoreMachine` | CANCELLED must not be reachable without authority from states where work may have happened |
| Journal (`domain/journal.go`, `workflow/journal.go`) | the entries; nine locals while validating | `ValidateJournal`, `ValidateJournalEntry` | long histories of pauses, resumes, attempts and one request; rules that must not contradict each other |
| Cancellation (`workflow/cancellation.go`) | controller (queued), decisions handed out | `Request`, `AtBoundary`, `ApplyCancellation`, `RestoreCancellationController` | a decision is computed from the journal, applied later, recorded later still; four scans of one journal must agree; restarts |
| Audit handoff K1a/K1b (`control/handoff.go`, `control/statedir.go`) | record files, audit bucket, two objects | `Bootstrap`, `LockRetention`, `Status` | crashes between any two requests, errors that do not say what happened, an irreversible lock, other users of the bucket, two callers |
| Step executor K2-K5 (`control/executor.go`, `seeds.go`, `iam.go`, `store.go`) | control bucket, bindings, seed objects, lock object | `Execute` and one function per step | partial failure, honest reporting of mutations, compare-and-swap races |
| Control bucket and bindings K2, K3 (`control/executor.go`, `iam.go`) | record chain, control bucket, bindings, bindings added by a call | create or adopt, add, compensate | ownership after a crash; which grants are the operation's to remove |
| Storage port (`gcp/storage_operations.go`, `storage_client.go`, `storage_parse.go`) | authorised step, session | one method per `gcloud` command | look-before-write without server-side preconditions; a session kept past its windows |
| Process runner (`gcp/process.go`, `runner`) | child, pipes, captures, watcher, wait delay | `Run` | a helper that outlives the child, limits, two contexts read one after the other |
| Network steps T1-T4 (`gcp/network_*.go`) | creation records, preflight | `ApplyNetworkStep`, verify, compensate | compensation after partial application; names reused by others; a NAT that lives in its router |
| Harness state and admission (`isolation/state.go`, `admission.go`) | the state object and its generation | open, mark unusable, restore, renew, admit | stale evidence and stale reads meeting a newer state |
| Isolation guard and cleanup (`isolation/guard.go`, `firewall.go`, `permission_proof.go`, `ownership.go`) | a decision, a boundary | authorize, revalidate, cleanup target | two looks at a world that changes; a run ID that is taken again |
| Preflight (`observation/preflight.go`) | none | construction, collisions | what counts as an empty project |
| Bootstrap plan compiler (`isolation/bootstrap/*.go`) | none | `Compile`, `ParseCompiledPlan` | a stored plan is derived again and must come out the same |
| Envelope (`control/envelope.go`) | the stored envelope | seal, store, load | several windows and several documents bound to each other |
| Plan policy and execution gate (`policy/plan.go`, `permission.go`, `workflow/definition.go`) | approval and login records | `SealPlan`, `ValidatePlanForExecution`, registry | records, looks and drift in any order |
| Retry decision (`workflow/retry.go`) | none | `DecideRetry` | backoff arithmetic, ambiguous failures |
| Configuration, output parsing, redaction, linter | none | validation | pure functions |

How they interact: a preflight looks at the project; the plan compiler turns it
into step intents (K1a, K1b, K2, K3, K4, K5, T1...T8, each depending on the one
before); an envelope seals plan and approval; the execution gate decides
whether a plan may run now; the executor admits one intent at a time, talks to
the provider through the port, which runs one `gcloud` process per request, and
returns a `StepOutcome`; the engine (not in the repository) is to record
outcomes in the journal, to retry, and to drive the machine; cancellation reads
the journal and moves the machine. T8 opens the harness; from then on test runs
are admitted against its state, pass the guard to the provider, and leave rules
behind that a teardown or the nightly wipe removes.

## 2. Modules

| Module | Models | Used by |
|---|---|---|
| `OperationStates` | states, transition table, route search (constant level) | all workflow modules |
| `OperationLifecycle` | abstract specification: what a durable history promises its reader | refinement target of `Journal` and `Cancellation` |
| `Journal` | `ValidateJournal` as an acceptor of entries | extended by `Cancellation` |
| `Cancellation` | machine, controller, decisions and replay on top of the journal | `MCCancellation` |
| `AuditHandoff` | K1a and K1b, the executor around them and the port commands they send | `MCAuditHandoff` |
| `SealedHandoff` | abstract specification: what records and lock promise whoever looks at them | refinement target of `AuditHandoff` |
| `ControlStore` | K4 and K5: seed objects and lock record of the control bucket, and the conditional uploads | `MCControlStore` |
| `LockRecord` | abstract specification: what the lock record promises the calls that use it | refinement target of `ControlStore` |
| `Clock` | a clock that never goes back | `Harness`, `MutationBoundary`, `NetworkSteps`, `ExecutionGate`, `PlanHandoff` |
| `Harness` | the harness state, its transitions and the admission against it | `MCIsolation` |
| `HarnessVerdict` | abstract specification: what the harness state promises its readers | refinement target of `Harness` |
| `IsolationTargets` | identities, selectors of test resources, caps, networks (constant level) | `PreMutation` |
| `PreMutation` | the proofs one input must pass (constant level) | `MutationBoundary` |
| `MutationBoundary` | authorization, second look, execution; cleanup | `MCIsolation` |
| `NetworkSteps` | T1 to T4 with compensation | `MCSteps` |
| `BucketSteps` | K2, K3 with compensation | `MCSteps` |
| `ProcessBoundary` | the run of one `gcloud` command | `MCSteps` |
| `PlanPolicy` | what a plan and a contract must look like (constant level) | `ExecutionGate`, `BootstrapPlan`, `RetrySchedule` |
| `ExecutionGate` | the gate and the records, looks and drift around it | `MCPlanning` |
| `BootstrapPlan` | the compiled bootstrap plan (constant level) | `PlanHandoff` |
| `PlanHandoff` | from preflight to an authorised storage call | `MCPlanning` |
| `RetrySchedule` | the attempts of one step | `MCPlanning` |
| `JournalProofs` | theorems about the journal | `CancellationProofs` |
| `CancellationProofs` | theorems about cancellation | - |
| `AuditHandoffProofs` | theorems about the handoff | - |
| `ControlStoreProofs` | theorems about seeds and lock | - |
| `IsolationProofs` | theorems about the harness state and the mutation boundary | - |
| `StepsProofs` | theorems about the network and bucket steps | - |
| `ProcessProofs` | theorems about the run of a command | - |
| `PlanningProofs` | theorems about the gate, the handoff of the plan and the retries | - |
| `MC...` | instances for TLC | the runs |

A definition whose name ends in `Mutant` stands directly before the definition
it is a faulty variant of (a dropped guard, a forgotten case, a check on the
wrong thing). It is not used by any specification; putting it in the place of
the original shows that the property named in `PROJECT.json` notices.

### Journal

The variables are the locals of `ValidateJournal` under their own names; one
action accepts one more entry: `AcceptInitialTransition`, `AcceptTransition`,
`AcceptStep`, `AcceptRequest`. A refused entry is an action that is not
enabled, so the behaviours are exactly the accepted histories. Identifiers that
must be constant over a stream are left out; times are small naturals with 0
for Go's zero time; `attempts` is bounded by `MaxAttempts`. Six observer
variables (`evidence`, `requestState`, `requests`, `stepsSince`,
`lastBoundary`, `overlap`) record facts about the entries that the validator
does not keep, so that properties do not have to be stated in the validator's
own terms. `evidence`, for instance, is set by any entry that tells of a
mutation, whatever the validator makes of it.

### Cancellation

Adds the machine in memory, the controller, up to `Decisions` decisions handed
out, the request entry waiting to be recorded, and `replay`: what
`RestoreCancellationController`, `cancellationContext`,
`pointOfNoReturnReached` and `cancellationBoundaryRecorded` compute from the
journal, advanced entry by entry. The journal hash and sequence number of a
binding are abstracted to "no entry was recorded since"; the machine's
generation to one bit per decision. The engine is external: it is any caller
that moves the machine to a state the journal would accept, records each move
before the next, records steps whenever they end, keeps or drops decisions,
and may stop at any point, after which only the journal is left.

### AuditHandoff

Every provider request and every file write of a call is a step of its own
(`pc[s]`), so anything may happen between two of them. `files` is the record
directory; a file's name is its sequence number and phase, which is why two
sessions can collide or not. The bucket has the attributes the code compares:
compliant (everything `checkCommonState` looks at), archive rule, retention
period (none, ours, other), locked, metageneration. `ours`, `lockedByUs` and `raced`
are observers. Each object has a generation and content
(ours or other). Adverse events are a crash of the calling process, an error
without effect, an error with effect (`CommandUnclear`, `UploadError`,
`AppendUnclear`), a clock jump, and another principal creating, deleting,
locking or changing the bucket, its retention or its objects.

Abstractions: the stored envelope is always the same one
(`EnsureBootstrapEnvelope` refuses another); a crash is of the process, not of
the machine (published files survive); objects do not outlive their retention;
the two reads of `verifyObject` are one step, which is sound because both pin
the generation recorded; a published record with a failed directory sync is
modelled at the last record of each call, because earlier it equals the record
followed by an error; the port's authorisation (`admit`) and the renderings of
commands are left out; the two phases of K2 are in `BucketSteps`.

### ControlStore

`object` holds the live version of each seed object: its generation, the kind
of its content and who wrote it; `generations` numbers all versions. The lock
record is one of the seeds. A call of K4 walks the seeds three times, as
`SeedControlStore` and `seedControl` do (`Preflight`, then `Create` or
`KeepSeed` with what follows an upload, then `Observe`); a call of K5 is one
action per request, from `ReadLock` to `Final`. `call` is what the Go function
has in its locals: outcome of each seed, prior lock record, acquired and
released generation. `outcome` is the `StepOutcome` returned.

An upload is two steps because the port makes it two requests: the command, and
a describe that verifies it or decides what its failure means
(`ExplainCreate`, `ExplainProbe`). A describe that shows another generation
turns any failure into the precondition failure, whatever the command's own
failure was. The command of a create can fail although it took effect
(`CreateError`), the answer of an acquire or release can be lost
(`AcquireError`, `ReleaseError`), any other request can fail without effect
(`RequestError`), the caller can crash, the approval window can close, and an
outsider can write or delete any object. `took` and `disturbed` are observers.

Abstractions. A content is one of the kinds the code tells apart: the seed's
bytes, a compatible record, a held lock record, anything else. Held records
name their holder; other contents are equal whoever wrote them, as they are in
the code, where seeds are derived from the envelope. A read is one step: the
bytes are fetched for the generation that was described, and the bucket keeps
old versions. The window the executor checks and the window of the session's
authorisation are one (`valid`). What makes the two callers' envelopes the
same, the lease inside a held record and `SeedObjects`' validation of its
inputs are left out.

### Harness, PreMutation and MutationBoundary

`Harness` keeps the state object with its generation (`store`), what each actor
last read of it (`copy`) and the observation each actor holds (`evidence`). An
operation of the code takes a state and seals a new one; here the actor does so
with the state it read, whenever it likes, and writes with the generation it
read as the precondition. Every transition ends in `sealHarnessState`, which
refuses a state that could not be read back; `refused` remembers that it did.
`sound` is the world: whether the harness is as planned. An admission changes nothing, so it is an operator (`Admitted`) over
which the properties quantify.

`PreMutation` is `evaluatePreMutation` as one operator per proof. A
fingerprint of canonical JSON is the value it is taken of; lists that the code
sorts are compared as sets; names are sequences of their hyphen-separated
segments, so the code's string prefixes are sequence prefixes and two run IDs
can have overlapping namespaces. `MutationBoundary` puts time and other people
around it: the run looks, is authorized, looks again, is revalidated, and its
intents are executed one by one, at any time after: nothing looks at the clock
again. A cleanup is four requests (`See` a rule, `ReadRecord`, `Clear`,
`DeleteRule`) at times of their own: the code has the check, its callers do the
rest. `clearing` is a cleanup that passed the check and has not deleted yet, and
`world.since` the time at which the durable record took the run ID over. Rules,
locks, permissions and the lifetime record of the run ID change in between. What
the provider executes and what others do is external.

### NetworkSteps, BucketSteps and ProcessBoundary

A call of `NetworkSteps` has a list of resources to do (`call.todo`) and a
location (`call.pc`), one per provider command: the read by exact name, the
read of the router that a NAT lives in, the status read, the create or delete,
the read after it. A resource is its incarnation, whether its observed state
reduces to the desired one, and who created it (history). `records` are the
creation records the gateway keeps: a compensation deletes an incarnation only
under a record of its own operation. `moved` and `swapped` remember what others
changed in the two windows no check can close.

`BucketSteps` has the record chain of the claim, the control bucket, the
bindings with who made them, and the call with the bindings it added. A
command may fail with or without effect; then the binding is read again, and
that read may fail too (`untold`). Compensation is the removal of what calls
reported as added.

`ProcessBoundary` is one command: the child and a helper it may fork write to
two pipes, two goroutines copy into bounded captures, a watcher kills the group
when the context is done, and `Run` waits, drains, reads the caller's context,
then its own, and says how the command ended. `elapsed` is the time since the
start. It moves while a step of the program is due only as far as the budget
`MaxLag`, which `lag` counts.

### ExecutionGate, BootstrapPlan, PlanHandoff, RetrySchedule

`ExecutionGate` states `ValidatePlanForExecution` as the union of what each
check blocks. Around it others create the approval and login records, withdraw
the scheduler's intent and change what the plan was reviewed against; the
executor looks (`Revalidate`) and asks (`Check`) at times of its own. `intact`
remembers the times at which nothing had drifted.

`BootstrapPlan` derives plan, contract, desired resources and the fourteen
steps as `compile.go` does. `PlanHandoff` runs them: preflight, permission
proof, `Compile` (the caller names the creation time), approval, sealing,
storing, an edit on disk, loading, opening a session of a step, starting it,
sending its calls. A hash is the value it covers, so an edit is a different
document. An edit recomputes every hash inside it (`Rehashed`: the plan and the
permissions in the binding, the binding in the intents) and its own; the
approval is rewritten to fit or left as it was made. Nothing in the code is
signed, so some edits are accepted with a rewritten approval: other times, a
longer validity, another observation revision, another cost limit with the plan
derived again from it. Edits of the project, the region or the names in the
desired state are not among `Edits`.

`RetrySchedule` lets one step fail in any way, having mutated or not and being
known to or not, and lets `DecideRetry` decide.

## 3. Runs

| Run | Instance | Question |
|---|---|---|
| `journal` | 2 steps, 3 instants, 2 attempts | do accepted histories keep the rules and refine the lifecycle |
| `cancellation` | contract of 2 steps, point of no return at the second, 1 decision kept, 2 instants | do kept decisions, restarts and the scans stay consistent with the journal |
| `audit_handoff` | 1 caller, any 3 adverse events | is what gets sealed intact, is a foreign bucket left alone, does the chain stay readable |
| `audit_sessions` | 2 callers, any 1 adverse event, symmetric callers | do recorded locks and uploads stay true when two calls interleave |
| `audit_resume` | 1 caller, 4 crashes or errors, fairness | does resuming finish the handoff |
| `control_store` | 2 callers, 2 seeds, any 2 adverse events, symmetric callers | is nothing overwritten, is the lock exclusive, are verified and failed steps told truthfully |
| `control_resume` | 1 caller, 3 crashes, errors or foreign writes, fairness | does repeating K4 and K5 get both verified |
| `isolation` | harness: 2 actors, 4 instants, 4 writes; boundary: 5 requests, 2 lifetime records, 2 changes by others | do stale evidence and stale looks ever get a state written, a test admitted, a rule created or removed that should not be |
| `bootstrap_steps` | network: intents subnet and NAT, 2 operations; buckets: 3 bindings; process: 2 requests | is every report honest, does compensation spare others, is used output whole |
| `planning` | 23 plans for 10 contracts; 11 projects; 9 retry policies; 4 instants | is what runs what was seen, approved and cooled off, inside every window |
| `cancel_without_mutation` | as `cancellation` | a disagreement between the code and what it says (section 6) |
| `router_delete` | intent NAT, 1 adverse event | the same for the compensation of T3 |

Three of the runs are sums of independent parts: one initial choice decides
which component a behaviour is about, and the others rest. The parts share no
state, or are two halves of one component (`isolation`); the sum only saves runs.

Bounds. Two steps are needed for a step before, at and after the point of no
return and for a step that is not the one a request names; three instants for
a boundary, a step start and a request that all differ. A second attempt is
needed for a step that fails and is repeated after a request. One kept decision
suffices because decisions do not see each other: `ApplyCancellation` compares
a decision with the machine only. Deadlock is not checked for the journal and
cancellation runs, because histories end and counters are bounded; that no
history is trapped is the property `NeverStuck`. In the handoff runs deadlock
is checked: a caller can always call again. Three adverse events allow, for
example, a crash after an unclear command followed by interference; the runs
with two callers have a state space dominated by the interleavings and allow
one. The approval window is [1, 3) on a clock of 0..3, so that both ends and
time going back are met.

Two seeds are enough for K4: the lock record, which K5 shares, and one other;
a failure at the second is what makes a failure partial. `MaxVersions` stops
new calls once so many versions exist, never a call that has begun; since calls
then no longer begin, deadlock is not checked in the two `control_` runs. In
`control_store` five versions are two seeds, one round trip and an
acquire that meets it, or an outsider's write instead; in `control_resume`
twelve are more than three adverse events leave room for, so the bound does not
cut a retry short (if it did, the liveness property would fail).

In `isolation` four instants hold an approval window of two, an evidence
lifetime of two and a drift on both sides; four writes are one opening, one
drift, one repair and one more of any kind, by two actors that each may hold an
old read. Two changes by others are enough for a change between the two looks
and its reversal, or for a run ID taken again. The requests are a good one, one
that asks for a rule that exists, one that omits an environment, one that is
too large and one whose rule describes another lifetime record. The boundary is
run in two parts. In the one all requests are made and nothing is cleaned up. In
the other the request is the good one, locks and permissions stay as they are,
and a cleanup reads the record before it looks at the rule and finishes before
the next begins; the wipe races the run and the replaced run ID there. The
theorems of section 4 are about the whole, without these limits.

In `bootstrap_steps` the intents `subnet` and `nat` are those with something
more than a create (the range check, the router that the NAT depends on);
all four intents together were checked separately with the same result
(4.39 million states). A behaviour takes one preflight per operation. The
second operation makes two calls, so that it can apply and compensate; the
first makes one (`CallsOfFirst`), which is enough to leave something behind. Two
calls for both were checked separately with the same result (2.54 million
states for the network part). For the
process two units of output pass a pipe of one against limits of one, so that a
writer blocks, a capture overflows and a limit is met exactly; timeout, wait
delay and lag budget are one tick, and one request of two is invalid.

In `planning` the plans are, for each contract, the one that follows it to the
letter, and plans with one flaw each; drift and foreign records together are
bounded by two for the former (one where the plan opens access, whose properties
compare parts of a plan) and none for the latter. Addresses have four bits, so
ranges contain, overlap and miss each other. The storage steps whose sessions
are opened are K1b and K3, the irreversible one and the one with the most kinds
of calls, and they are opened under documents that are as compiled or whose
times were moved (`FewSessions`): the other edits leave a session's windows as
they are, and the theorem about `SentAsApproved` has no such bound.

Deadlock is not checked in these three runs: their clocks and counters are
bounded, a command ends and a plan that may not run stays where it is.

Fairness (`audit_resume` and `control_resume`). A call that has begun runs on (weak fairness of
`SessionStep`): Go code between two requests does not stop without the process
stopping, and that is the event `Crash`. An operator, or the engine, calls the
step that is due again and again (strong fairness of `Resume`): the executor is
written to be called again, and nothing else would resume the handoff. The
number of adverse events is bounded, so the operator eventually has a quiet
moment. Nothing is assumed about other users of the bucket; in `audit_resume`
there are none, since somebody who keeps deleting objects can prevent
completion for ever, and in `control_resume` their writes are among the three
adverse events and may leave an object that the code refuses to touch, which
is the other outcome the property allows (`Blocked`).

What the passing runs show is listed with the properties in the modules; the
short form:

* `CancelledWithoutMutation`, `RequestsHonored`, `RequestBoundsWork`,
  `NeverStuck`, `StepsDoNotOverlap`: the journal's rules do what they are for,
  together and over whole histories.
* `LifecycleSpec`: the journal implements `OperationLifecycle` with
  `mutated <- evidence`.
* `AppliedDecisionRecordable`, `NotCancelledPastPoint`: a decision taken in
  PROTECT, EXECUTE or PAUSED is never applied after the journal has moved past
  it. This rests on the order in which a request is recorded, on the boundary
  entry and on the generation check.
* `ScansAgree`: the scans of cancellation.go agree with the validator.
* `SealsForGood`, `ForeignBucketUntouched`, `ChainReadable` (one caller),
  `RecordedLockIsReal`, `RecordedUploadIsOwn` (two), `HandoffCompletes`: see the
  comments in `AuditHandoff`. `SealsForGood` is the refinement of `SealedHandoff`
  with `sealed` for the lock and who set it, `whole` for both objects being there
  as recorded, `claimed` and `confirmed` for the records before and after the
  lock. It contains `LockSealsHandoff` and adds that nothing takes a sealed
  whole bucket back.
* `NeverOverwrites`, `LockIsReturnedByItsTaker`: the expected generation is all
  that keeps callers of K4 and K5 apart, and it is enough, also when answers are
  lost and holders crash. The second is the refinement of `LockRecord`: until an
  outsider meddles, the record is taken only when it is free and given back
  only by the call that took it; one that a call leaves held stays held, since
  the code has no takeover. `VerifiedHolds`: a verified step describes objects
  that are what it says, as long as nobody changes them. `AcquireIsReported`: a
  failed K5 that may have taken the lock says so.
* `TransitionsSeal`, `VerdictsOnlyAdvance`, `TestsRunOnLiveEvidence`: the four
  transitions of the harness state compose, in any order and with evidence held
  back for any time, only because each compares observation times; the write's
  generation does the rest. The seal never refuses a transition whose conditions
  held, so no drift or repair is left that cannot be recorded.
  `VerdictsOnlyAdvance` is the refinement of `HarnessVerdict`, whose `verdict` is
  the usability the state tells, `at` the observation that rests on and `opened`
  the time it was opened.
* `PassRestsOnLooks`: what a boundary promises of the world at its second look.
  `CreatedRulesCanBeWiped`: the two sets of rules agree, those by which a rule is
  accepted (firewall.go) and those by which it may be removed (ownership.go);
  whenever the provider creates it, it is not left beyond the reach of the wipe.
  `WipeSparesLiveRuns`: what the wipe may hit of a run that is still alive. The
  check rests on a record read up to `MaxPreMutationProofLifetime` before, and
  the delete goes by name afterwards, so two races stay open (section 6), and
  the property says that there are no others.
* `ReportsHold`, `StepOutcomesHold`: in T1-T4 and K2, K3 "no mutation" is true,
  added grants are told, and "verified" holds until others interfere.
  `UndoesOnlyOwn`, `OthersSpared`: nothing of others is recorded, removed,
  overlapped or changed outside two windows that the comments name. The check
  before each command, not the one at the start of the step, is what keeps
  these. Each is a conjunction of the properties of the same kind of
  `NetworkSteps` and `BucketSteps`.
* `OutputIsWhole`, `KillIsReported`, `RunEndsInTime`: see `ProcessBoundary`.
* `AuthorizedOnIntactWorld`, `ScheduledRunInOneWindow`, `PlansAreSafe`
  (`DestructionIsProtected` and `ExposureIsBounded`): what the gate's many
  comparisons add up to. `DerivedPlansCanRun`: and that they do not contradict
  each other. A plan that takes from its contract what the contract fixes,
  chooses the rest well and has time (`FollowsToTheLetter`) can run; of the
  plans of the instance exactly those derived from an acceptable contract
  (`MCDerived`) are such plans.
* `PlansStartFromEmptyProject`, `SentAsApproved` (`ApprovedDocumentRuns`,
  `EditsKeepTheWork` and `MutationInsideWindows`): the chain from a look at the
  project to a storage call has no gap in time or content that a plan compiled
  again, an edit of the stored plan or a session kept too long could use. Under
  the approval as it was made only the approved document is read back. With the
  approval rewritten an edit may be accepted, but not one of the steps, their
  order, resources, retries and permissions, and none of the limits that leaves
  the plan as it was. `RetriesAreSafe` (`RetriesBounded` and
  `MutatesOnce`): attempts, pauses and mutations of one step.

The type invariants and seven more properties (`OneRequest`,
`OpensOnce`, `DriftIsAnswered`, `BlockadeUntilT8`, `LockExclusive`,
`LockSealsHandoff`, `ProductionLogin`) are in no run, because section 4 proves them for every value of the constants.

## 4. Proofs

Every safety property of the passing runs is a theorem, for all values of the
constants that satisfy the assumptions named, the four refinements included. Each proof has the same
shape: an inductive invariant that TLC checked first, one lemma per conjunct or
per action, and a temporal theorem at the end.

### Journal and cancellation

`JournalProofs` proves, for every set of steps and every bound, type
correctness, `OneRequest`, all invariants of the `journal` run and the
refinement, from `BoundsAssumption` and `NilAssumption`. It begins by
evaluating the route search once and for all. The inductive invariant
`JournalInv` is the type invariant plus three parts: `MutationInv` (the
validator's flag is the evidence in the entries), `BoundaryInv` (the last
boundary is not later than the last entry, and while a request names a step its
saved boundary is not earlier than the last boundary), `RequestInv` (where the
operation can be while a route is pending, and that a pending CANCELLED
excludes a mutation). None of the properties is inductive alone: that no second
request is accepted needs the set of states a routed operation can be in; that
no history is trapped needs that a pending CANCELLED implies no mutation.

`CancellationProofs` proves, for any contract, any point of no return and any
number of decisions kept, from `ContractAssumption` and `NilsAssumption`, that
what the engine records is always a history of the journal
(`CancellationKeepsJournal`), so that `JournalInv` can be used and the
abstract lifecycle is implemented here too (`CancellationImplementsLifecycle`),
and then
`AppliedDecisionRecordable`, `NotCancelledPastPoint` and `ScansAgree`. The
last one comes from `ReplayInv`, which relates what the scans have computed so
far to the validator's locals, entry by entry. For the first two the key notion
is `Settled(target)`: the journal accepts a transition to the target, and
before that transition no step and no request can be recorded. `DecisionInv`
says that a decision which the machine would still let through is settled;
`Unrecorded` decisions, applied and not yet recorded, stay so because nothing
but their own transition can be recorded (`SettledHolds`). Where a decision
becomes settled is where the code's guards are used: at a step boundary, or
while the operation is paused.

### Audit handoff, seeds and lock

`AuditHandoffProofs` works from `HandoffAssumption`, for any set of sessions,
any approval window and any number and kind of adverse events. For
`RecordedLockIsReal`, `LockSealsHandoff` and `RecordedUploadIsOwn`: an
observation of the bucket that shows a retention period protects the objects
until the metageneration changes; the objects are looked at after the bucket,
so what was verified stays true until the lock command if the metageneration is
still the observed one; once the bucket is locked nothing removes the objects.
`HandoffInv` says, for each location of each session after its observation,
which part of this holds already.
`HandoffImplementsSeal` then takes the steps one by one: an act adds at most one
record (`OneRecord`), what it makes of the bucket is one of the commands, and
the guard of `Seal` is `LockSealsHandoff` after the step. For `ForeignBucketUntouched`: `OwnBucketInv`
says that the bucket is the operation's, or was lost by a deletion that the
observer notes, or that no file, object or caller bears a trace of having one.
For `ChainReadable`: `ChainInv` says that a call under way knows every record.
It holds with one caller only, so the theorem has the hypothesis that there is
one; with two it is false (section 6).

`ControlStoreProofs` proves, for any sessions, number of seeds and kind and
number of adverse events, from `StoreAssumption`, type correctness,
`LockExclusive`, `NeverOverwrites`, `AcquireIsReported` and `VerifiedHolds`.
`LockInv` is the invariant for the first two: generations only grow and zero is
absence (`Numbered`); the version a session is about to replace is, if still
live, the clean record it read (`PriorPinned`); the version a holder has is, if
still live, its own held record, and it is live unless an outsider interfered
(`HeldPinned`). A held record is not clean, so nobody acquires over it, and it
names its holder, so nobody else releases it. `ReportInv` follows a call from
the acquiring write to its outcome. `FoundInv` is for `VerifiedHolds`: a
version that a call found or made of a seed is, as long as it is the live one,
what the call took it for, the loops leave no seed out, and the version
released has the content that was found.

`ControlStoreImplementsLockRecord` needs all of these and one more:
`UsingPinned`, that a running call which has taken the lock, whether it knows
yet or not, is the one that the held record names. With it every step is one of
`LockRecord`'s or a stutter: a release finds the own held record and writes
the clean content that was found (`FoundInv`), an acquire finds a clean record
(`PriorPinned`), a create finds none (`Numbered`), and a call that stops leaves
the record alone.

### Network steps, bucket steps, commands

`StepsProofs` proves `ReportsHold`, `UndoesOnlyOwn`, `StepOutcomesHold` and
`OthersSpared` for any intents, operations, attempts, bindings and number of
events, from `NetworkAssumption`, `BucketAssumption` and `ClockAssumption`.
The heart of `NetworkInv` is `traced`: the incarnation in a creation record
will never be given to a resource again, and the resource that has it was
created by the record's operation, unless others swapped it in the window no
check can close. For a NAT the incarnation is its router's with the router's
fingerprint, so `traced` needs that a NAT does not outlive its router and that
the fingerprint of a router changes with its NAT. `ownDeletion`, `passed` and `rangesClear` say, for each
location of a call, what its checks so far have established. `BucketInv` has
the same roles for K2 and K3: `GrantInv` (a binding made by a call was
reported, is known to the call, or is beyond knowing), `PreexistingInv` (what a
call means to add was absent when it looked), `OwnershipInv`, `CheckedInv`.

`ProcessProofs` proves the four properties of a command from
`CommandAssumption`. `WaitInv` ties the location of `Run` to child and watcher;
`TimeInv` bounds the time before the wait delay begins by the timeout and after
it by the delay; `EndInv` says that a stream that ended on its own is whole and
stays so, since nobody who could write is left to fork; `KillInv` that a killed
child leaves a context that stays done.

### Harness and mutation boundary

`IsolationProofs` proves all six properties of the harness state for any
actors, windows, evidence and number of writes, from `HarnessAssumption` and
`ClockAssumption`. `TransitionsSeal` is `SealsNeverRefuse`: whatever was ever
read is readable (`SealInv`), and a transition whose conditions hold makes a
readable state of a readable one (`TransitionsReadable`), lost race or not.
`HarnessInv` adds to the readability of the store that a copy of the store's
own generation is the store (`ReadInv`), so that a write that is not lost is a
write of the state it was computed from, and that the state says at least as
much about drift as was ever recorded (`DriftInv`). One lemma per transition
shows that it seals a successor (`Succeeds`); `OpensOnce` falls out of the same
lemmas. The refinement of `HarnessVerdict` needs no more: each write that is not
lost is a transition of the state in the store (`ReadInv`), and each transition
compares the time of its observation with that of the one before.

It also proves `PassRestsOnLooks`, `CreatedRulesCanBeWiped` and
`WipeSparesLiveRuns` for any requests, worlds and changes by others, from
`BoundaryAssumption`. `PassageInv` says what a decision and a boundary were made
from and that nothing that happens later changes it (`EvidenceInv`), and that
rules and looks belong to a lifetime record that is or was the durable one
(`WorldInv`). The proof of `PassRestsOnLooks` takes `evaluatePreMutation` apart
proof by proof; it needs that two valid identities with one key are one
identity, since the code compares keys. `CreatedRulesWipeable` goes through the
conditions of the cleanup one by one and finds each in what the boundary
accepted. `WipeSpares` rests on `CleanupInv`: a record that a cleanup read is
the durable one or was replaced after it was read, and a cleanup that passed the
check under the wipe's authority saw a rule that describes a record which had
expired by then and is the durable one, or was until less than a proof lifetime
before. Nothing is assumed about the order in which the records of one run ID expire.

### Gate, handoff of the plan, retries

`PlanningProofs` proves type correctness, `AuthorizedOnIntactWorld`,
`ProductionLogin` and `ScheduledRunInOneWindow` for any plans, contracts and
amount of drift, from `GateAssumption` (plans have natural times, fingerprints
and lists of steps; different plans of one project are different records) and
`ClockAssumption`. The invariant is small (a look that saw no drift was taken
at an intact time); the work is in `LookWasIntact`: a reading that agrees with
the plan in resources, permissions, preconditions, policy and assets cannot
have been taken through any drift, because each kind of drift makes some
compared value one that an accepted plan does not have.

`DerivedPlansRun` proves `DerivedPlansCanRun` for every plan and contract. It
goes through the validation of a plan and through the gate rule by rule and
shows that a plan which takes its steps, approval, permissions and exposure
from an acceptable contract satisfies each (`FollowerStepsValid`,
`FollowerExposure`, `FollowerSeals`, `FollowerMatches`), and then names the
times of an approval, a login, a look and a check that pass together
(`FollowerTimes`, `FollowerPasses`).

`EveryContractHasPlan` adds that such plans exist: for every contract the
registry accepts, in any class of environment, at any time and with any
cooling-off, there are a plan and evidence that the gate lets through. The
witness, `planOf`, is the plan of an author who wants nothing of his own: one
resource for each step, of a kind the step allows, a grant for each permission,
one snapshot that protects all of them, the one source the asked exposure
allows (`PlannedSteps`, `PlannedPermissions`, `PlannedSource`, `PlanFollows`).
It rests on `NoneIsNothing` (the absent value is neither a number nor a record),
on addresses of at least one bit, and on `ContractTyped`: a list of steps,
minima that are approval classes, exposures of the four kinds in
`domain/exposure.go`. So neither theorem holds for want of a plan.

`SafePlansOnly` proves `PlansAreSafe`. Its first half, that what is destroyed
is protected, unfolds the validation of steps and recovery assets. Its second
half counts the addresses an accepted exposure reaches. That needs arithmetic
of prefixes: a prefix contained in another lies inside its block
(`NestedQuotient`, `WiderPrefix`), and a narrow prefix has few addresses
(`BlockIsBounded`), for any width of addresses (`AddressAssumption`).

`ApprovedPlanIsSent` proves `SentAsApproved`. `HandoffInv` says that the approval
as it was made is one of an unedited document, so that what is loaded under it
is that document (`AcceptedIsApproved`). `AcceptedKeepsTheWork` is about any
document at all, not only the edits that TLC makes: if `validateCompiledPayload`
accepts it, its intents and permissions are those of the registry, in whichever
region (`RegistryIgnoresRegion`, `IntentsButBinding`, `RightsOfPlan`), and its
limits are those of any document with the same plan, whose resources carry them
in their fingerprints. The windows
of `MutationInsideWindows` follow from `SessionInv`. `PlansNeedEmptyProject`
proves `PlansStartFromEmptyProject` by `FitProject`, which relates what the
compiler compares (provider identities, ranges, rules) with what the property
says (names, addresses). This proof found that the property had been stated too
strongly: the name of a bucket is taken only by a bucket, and of the rules open
to the internet only those for TCP, under either name, or for all protocols are
looked for. `ConfigAssumption` and
`EnvelopeAssumption` say that configuration and inventories are typed.

`RetriesStaySafe` proves `RetriesAreSafe` for any policies
(`PoliciesAssumption`: three integers each). `RetryInv` says that every pause
is the one the policy computes and that a step which is not idempotent has
mutated nothing while it may be tried again; that the pauses never shrink and
stay in their bounds is a fact about `backoffSeconds`.

### Induction

`backoffSeconds` and `TwoTo` are recursive functions. What is proved of them
for every number is proved by induction with a set in place of the usual
predicate parameter: `AllNaturals` says that a set that holds 0 and every
successor of a member holds all naturals, and is applied to the set of the
numbers for which the fact holds. That a recursive function exists at all is
proved in the same way, from its finite approximations. `LeastElement` is the
same for least elements; it makes "the first position of what is left to do"
meaningful in the network steps.

### Only model-checked

Liveness (`HandoffCompletes`, `StepsComplete`) is out of the prover's reach:
temporal formulas with fairness need `ENABLED`.

## 5. Not modelled

The JSON codecs, object names and digests (conversions without state; their
effect, refusing what is malformed, is in the guards). `UIState` and messages.
`archcheck` (a linter), redaction, configuration schemas and the parsing of
provider output (text processing; what an observation accepts is modelled).
Rendering of command arguments. In the process runner the checks of the
executable and its environment; `runner.BoundedCapture`, which nothing outside
its tests uses. In the policy the cost table and the identity table, compared
with fixed values. In the isolation guard the ownership of permanent singletons
and fingerprints that only detect edits. `VerifyStep` of the executor, which
reads and changes nothing.

## 6. Disagreements and observations

Two runs are kept for disagreements between the code and what it says.

1. `cancel_without_mutation`: `Request` in DISCOVER...LOCK never looks for
   mutations. After PAUSED with a mutation and a resume it hands out a decision
   that says "no mutation may have occurred", which can be applied to the
   machine, and which the journal then refuses to record.
2. `router_delete`: the observation a router delete rests on may show a NAT
   that the operation did not record, because the second read of the router
   accepts one with the desired NAT (gcp/network_compensate.go).

The models show more, for which no run is kept.

* A request recorded while the step of the point of no return is running cannot
  be restored once that step reports a mutation, while the journal accepts only
  ROLLBACK.
* K1b can lock the bucket irreversibly and report that no mutation occurred,
  when the answer to the lock command is lost.
* Two sessions can publish different phases of the audit chain under one
  sequence number; after that no call can read the chain. What the two-session
  run shows is that locks and uploads recorded before remain true.
* A K4 that created one seed and then lost the race for another to an
  incompatible object reports that no mutation occurred. A create whose answer
  is lost is taken for a lost race, so a verified K4 can report its own object
  as preexisting (seeds.go:215). A stale write that never reached the provider
  counts as refused (executor.go:420).
* A retried K3 takes the bindings of its own crashed attempt for ones that were
  there before, and no compensation will remove them (`untold`).
* T1 to T4 declare rollback, but the plan proves no delete permission for them;
  K1a sends a bucket update without proving that permission, and K1b reads
  objects without proving that one.
* K2 declares rollback after the point of no return, where the risk summary of
  the plan says there is none.
* A plan whose cooling-off equals its validity seals, but can never run.
* Only `0.0.0.0/0` counts as the whole internet when a preflight looks for an
  open database port; two halves of the address space do not.
* A pause just below an odd maximum jumps to the maximum early.
* A storage mutation may be sent up to twice the clock skew after the step
  began, also past the approval's end; `MutationInsideWindows` states that
  bound.
* The cleanup of a run's rules compares with a record that was read up to
  `MaxPreMutationProofLifetime` before, and the delete goes by name after the
  check. A run ID that is taken again in between, or a rule of that name that is
  made again, is not protected. What the check protects is stated by
  `WipeSparesLiveRuns`.
* A rule made under a lifetime record that has been replaced can never be
  cleaned up: the check asks for the durable record and for a rule that
  describes it. `CreatedRulesCanBeWiped` therefore speaks of the durable record.
* Nothing looks at the time between the boundary and the insert of a rule: a rule
  can be created after the expiry of its lifetime record.
* Nothing in a bootstrap envelope is signed. An edit that recomputes all hashes
  and rewrites the approval is accepted if the plan can be derived again from
  the rest; canonical_test.go builds such a document and asserts that its hash
  differs.
* A command that ends with status 0 while a helper holds a pipe is reported as
  one that could not be started; a cancellation between the two context reads
  is reported as a timeout; a helper in the group may outlive a command that
  failed by itself.

## 7. Plan

Done: the modules and runs of sections 2 and 3 and the proofs of section 4.

What is left:

1. Liveness of the network steps under the fairness of `audit_resume`, checked
   with TLC: repeated compensation ends with nothing of the operation left, or
   with something the code refuses to touch.
