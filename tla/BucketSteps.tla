------------------------------ MODULE BucketSteps ------------------------------
(***************************************************************************)
(* The control bucket (K2) and the bucket bindings (K3) of the storage     *)
(* executor (control/executor.go, control/iam.go) over the storage port    *)
(* (gcp/storage_operations.go, gcp/storage_client.go).                     *)
(*                                                                         *)
(* A call sends one provider command at a time.  Any of them may fail, a   *)
(* command also after it took effect; the process may crash between any    *)
(* two, a record may be published by a call that reports failure, and      *)
(* others change the bucket and its bindings meanwhile.                    *)
(***************************************************************************)
EXTENDS Naturals, Sequences, SequencesExt, FiniteSets

CONSTANTS
    Buckets,            \* the audit and the control bucket
    Rendered,           \* the policy's bindings, in the order they are added
    Foreign,            \* bindings outside the policy
    BucketOf(_),        \* the bucket of a binding
    Absent, Before,     \* nobody's binding; one others made
    MaxCalls, MaxMishaps

ASSUME BucketAssumption ==
    /\ MaxCalls \in Nat /\ MaxMishaps \in Nat
    /\ Buckets = {"audit", "control"} /\ Rendered \in Seq(ToSet(Rendered))
    /\ \A b \in ToSet(Rendered) \cup Foreign : BucketOf(b) \in Buckets
    /\ Absent \notin Nat /\ Before \notin Nat /\ Absent # Before

VARIABLES
    bucket,     \* external: the control bucket
    chain,      \* the records of this operation in the state directory
    bindings,   \* external: who made each binding: Absent, Before or a call
    expired,    \* the approval window is over
    calls, step, outcome,
    done,       \* the steps that were verified
    reported,   \* the added bindings the calls returned
    touched,    \* what others changed since a call last looked at it (history)
    raced,      \* what others added behind the back of a call (history)
    untold,     \* bindings added by a call that could not tell (history)
    mishaps

bucketVars == <<bucket, chain, bindings, expired, calls, step, outcome, done, reported,
                touched, raced, untold, mishaps>>

Policy == ToSet(Rendered)
Bindings == Policy \cup Foreign
In(name) == {b \in Bindings : BucketOf(b) = name}
Live == {b \in Bindings : bindings[b] # Absent}

NoBucket == [exists |-> FALSE, ours |-> FALSE, versioning |-> FALSE, exact |-> FALSE]
Idle == [id |-> "none", pc |-> "idle", left |-> {}, seen |-> {}, todo |-> {},
         added |-> {}, mutated |-> FALSE, effect |-> FALSE]
NoOutcome == [id |-> "none", verified |-> FALSE, mutated |-> TRUE, effect |-> TRUE]

BucketInit ==
    /\ bucket = NoBucket /\ chain = {}
    /\ bindings \in [Bindings -> {Absent, Before}] /\ In("control") \cap Live = {}
    /\ expired = FALSE /\ calls = 0 /\ step = Idle /\ outcome = NoOutcome
    /\ done = {} /\ reported = {}
    /\ touched = {} /\ raced = {} /\ untold = {} /\ mishaps = 0

GoOn(s) == step' = s /\ UNCHANGED <<outcome, done, reported>>

\* A step returns its outcome also when it fails.
Return(s, verified) ==
    /\ outcome' = [id |-> s.id, verified |-> verified, mutated |-> s.mutated,
                   effect |-> s.effect]
    /\ done' = IF verified THEN done \cup {s.id} ELSE done
    /\ reported' = reported \cup s.added
    /\ step' = Idle

Fail(s) == Return(s, FALSE)

marked(s) == [s EXCEPT !.mutated = TRUE]
effective(s) == [marked(s) EXCEPT !.effect = TRUE]

\* The steps run in order: K3 needs K2.
StartStep(id) ==
    /\ step = Idle /\ calls < MaxCalls /\ ~expired
    /\ id = "k3" => "k2" \in done
    /\ calls' = calls + 1
    /\ step' = [Idle EXCEPT !.id = id, !.left = Buckets,
                    !.pc = IF id = "k2" THEN "describe" ELSE "get"]
    /\ outcome' = NoOutcome
    /\ UNCHANGED <<bucket, chain, bindings, expired, done, reported, touched, raced, untold,
                   mishaps>>

BucketReadFails ==
    /\ step.pc \in {"describe", "redescribe", "verify", "get", "check"}
    /\ Fail(step)
    /\ UNCHANGED <<bucket, chain, bindings, expired, calls, touched, raced, untold, mishaps>>

\* The approval window is checked before every mutation.
ApprovalLapses ==
    /\ expired /\ step.pc \in {"create", "version", "add"} /\ Fail(step)
    /\ UNCHANGED <<bucket, chain, bindings, expired, calls, touched, raced, untold, mishaps>>

----------------------------------------------------------------------------
(* K2: the control bucket *)

K2Unchanged == UNCHANGED <<bindings, expired, calls, raced, untold, mishaps>>

accepted(exists) == exists <=> "created" \in chain

DescribeBucket ==
    /\ step.pc = "describe"
    /\ touched' = touched \ {"bucket"}
    /\ \/ ~accepted(bucket.exists) /\ Fail(step)
       \/ /\ accepted(bucket.exists) /\ bucket.exists
          /\ IF bucket.versioning THEN Return(step, bucket.exact)
                                  ELSE GoOn([step EXCEPT !.pc = "version"])
       \/ /\ accepted(bucket.exists) /\ ~bucket.exists
          /\ GoOn([step EXCEPT !.pc = IF chain = {} THEN "claim" ELSE "create"])
    /\ UNCHANGED <<bucket, chain>> /\ K2Unchanged

\* A record may be published and the append still fail.
AppendRecord(phase, next) ==
    \/ chain' = chain \cup {phase} /\ GoOn([step EXCEPT !.pc = next])
    \/ chain' \in {chain, chain \cup {phase}} /\ Fail(step)

ClaimControlBucket ==
    /\ step.pc = "claim" /\ AppendRecord("claimed", "create")
    /\ UNCHANGED <<bucket, touched>> /\ K2Unchanged

\* The port describes once more: a bucket that is there is never created.
LookBeforeCreate ==
    /\ step.pc = "create" /\ ~expired
    /\ \/ ~bucket.exists /\ GoOn([marked(step) EXCEPT !.pc = "look"])
       \/ Fail(marked(step))
    /\ UNCHANGED <<bucket, chain, touched>> /\ K2Unchanged

OurBucket == [exists |-> TRUE, ours |-> TRUE, versioning |-> FALSE, exact |-> TRUE]

CreateControlBucket ==
    /\ step.pc = "look"
    /\ \/ /\ ~bucket.exists /\ ~expired /\ bucket' = OurBucket
          /\ \/ GoOn([effective(step) EXCEPT !.pc = "record"])
             \/ Fail(effective(step))
       \/ UNCHANGED bucket /\ Fail(step)
    /\ UNCHANGED <<chain, touched>> /\ K2Unchanged

RecordControlBucket ==
    /\ step.pc = "record" /\ AppendRecord("created", "redescribe")
    /\ UNCHANGED <<bucket, touched>> /\ K2Unchanged

\* After the creation, and again after the convergence of versioning.
DescribeAgain ==
    /\ step.pc \in {"redescribe", "verify"}
    /\ touched' = touched \ {"bucket"}
    /\ \/ ~bucket.exists /\ Fail(step)
       \/ /\ bucket.exists
          /\ IF bucket.versioning \/ step.pc = "verify"
                THEN Return(step, bucket.versioning /\ bucket.exact)
                ELSE GoOn([step EXCEPT !.pc = "version"])
    /\ UNCHANGED <<bucket, chain>> /\ K2Unchanged

EnableVersioning ==
    /\ step.pc = "version" /\ ~expired
    /\ \/ /\ bucket.exists /\ bucket' = [bucket EXCEPT !.versioning = TRUE]
          /\ \/ GoOn([effective(step) EXCEPT !.pc = "verify"])
             \/ Fail(effective(step))
       \/ UNCHANGED bucket /\ Fail(marked(step))
    /\ UNCHANGED <<chain, touched>> /\ K2Unchanged

----------------------------------------------------------------------------
(* K3: the bucket bindings *)

K3Unchanged == UNCHANGED <<bucket, chain, expired, calls, raced, mishaps>>

observable(name) == name = "control" => bucket.exists

\* The positions of the rendered bindings that were absent.
CompensationBindings(preexisting) == {i \in DOMAIN Rendered : Rendered[i] \notin preexisting}

GoAdd(s) == IF s.todo = {} THEN [s EXCEPT !.pc = "check", !.left = Buckets]
                             ELSE [s EXCEPT !.pc = "add"]

\* Each bucket is read once, in any order.
GetBindings(name) ==
    /\ step.pc = "get" /\ name \in step.left /\ observable(name)
    /\ touched' = touched \ {name}
    /\ LET seen == step.seen \cup (In(name) \cap Live)
           s == [step EXCEPT !.left = @ \ {name}, !.seen = seen]
       IN  GoOn(IF s.left # {} THEN s
                ELSE GoAdd([s EXCEPT !.todo = CompensationBindings(seen)]))
    /\ UNCHANGED <<bindings, untold>> /\ K3Unchanged

\* They are added in order.
binding == Rendered[Min(step.todo)]

\* Adding a binding that is there changes nothing.
add == bindings' = [bindings EXCEPT ![binding] = IF @ = Absent THEN calls ELSE @]
added(s) == [s EXCEPT !.added = @ \cup {binding}]

AddBinding ==
    /\ step.pc = "add" /\ ~expired
    /\ \/ /\ observable(BucketOf(binding)) /\ add
          /\ \/ GoOn(GoAdd([added(effective(step)) EXCEPT !.todo = @ \ {Min(@)}]))
             \/ GoOn([effective(step) EXCEPT !.pc = "reobserve"])
       \/ UNCHANGED bindings /\ GoOn([marked(step) EXCEPT !.pc = "reobserve"])
    /\ UNCHANGED <<touched, untold>> /\ K3Unchanged

containsBinding(after, b) == b \in after

\* After a failed add: a grant that is there counts as the operation's own.
ReobserveBinding ==
    /\ step.pc = "reobserve"
    /\ \/ /\ observable(BucketOf(binding))
          /\ Fail(IF containsBinding(Live, binding) THEN added(step) ELSE step)
          /\ UNCHANGED untold
       \/ Fail(step) /\ untold' = untold \cup {binding}
    /\ UNCHANGED <<bindings, touched>> /\ K3Unchanged

bindingsEqualPolicyMutant(observed, name) == In(name) \cap Policy \subseteq observed
bindingsEqualPolicy(observed, name) == observed = In(name) \cap Policy

CheckBindings(name) ==
    /\ step.pc = "check" /\ name \in step.left /\ observable(name)
    /\ touched' = touched \ {name}
    /\ \/ ~bindingsEqualPolicy(In(name) \cap Live, name) /\ Fail(step)
       \/ /\ bindingsEqualPolicy(In(name) \cap Live, name)
          /\ IF step.left = {name} THEN Return(step, TRUE)
                                   ELSE GoOn([step EXCEPT !.left = @ \ {name}])
    /\ UNCHANGED <<bindings, untold>> /\ K3Unchanged

----------------------------------------------------------------------------
(* Crashes, compensation and others: external *)

\* What the step had added but not yet returned is known to nobody.
StepCrash ==
    /\ step # Idle /\ mishaps < MaxMishaps /\ mishaps' = mishaps + 1
    /\ step' = Idle
    /\ untold' = untold \cup {b \in Bindings : bindings[b] = calls}
    /\ UNCHANGED <<bucket, chain, bindings, expired, calls, outcome, done, reported, touched,
                   raced>>

\* Compensation removes bindings that were recorded as added, and only those.
RemoveBinding(b) ==
    /\ step = Idle /\ b \in reported
    /\ bindings' = [bindings EXCEPT ![b] = Absent]
    /\ reported' = reported \ {b} /\ touched' = touched \cup {BucketOf(b)}
    /\ UNCHANGED <<bucket, chain, expired, calls, step, outcome, done, raced, untold, mishaps>>

Others(things) ==
    /\ mishaps < MaxMishaps /\ mishaps' = mishaps + 1
    /\ touched' = touched \cup things
    /\ UNCHANGED <<chain, expired, calls, step, outcome, done, reported, untold>>

\* A step that has read the bindings cannot tell this one from its own.
OthersAddBinding(b) ==
    /\ bindings[b] = Absent /\ observable(BucketOf(b))
    /\ bindings' = [bindings EXCEPT ![b] = Before]
    /\ raced' = IF \/ b \in reported
                   \/ step.id = "k3" /\ (step.pc # "get" \/ BucketOf(b) \notin step.left)
                   THEN raced \cup {b} ELSE raced
    /\ UNCHANGED bucket
    /\ Others({BucketOf(b)})

OthersRemoveBinding(b) ==
    /\ bindings[b] # Absent
    /\ bindings' = [bindings EXCEPT ![b] = Absent]
    /\ UNCHANGED <<bucket, raced>>
    /\ Others({BucketOf(b)})

OthersCreateBucket ==
    /\ ~bucket.exists
    /\ bucket' \in [exists : {TRUE}, ours : {FALSE}, versioning : BOOLEAN, exact : BOOLEAN]
    /\ UNCHANGED <<bindings, raced>>
    /\ Others({"bucket"})

OthersModifyBucket ==
    /\ bucket.exists
    /\ bucket' \in {[bucket EXCEPT !.versioning = FALSE], [bucket EXCEPT !.exact = FALSE]}
    /\ UNCHANGED <<bindings, raced>>
    /\ Others({"bucket"})

\* From here on a bucket of that name may be somebody else's.
OthersDeleteBucket ==
    /\ bucket.exists /\ bucket' = NoBucket
    /\ bindings' = [b \in Bindings |-> IF b \in In("control") THEN Absent ELSE bindings[b]]
    /\ UNCHANGED raced
    /\ Others({"bucket", "control"} \cup IF bucket.ours THEN {"replaced"} ELSE {})

Expire ==
    /\ ~expired /\ expired' = TRUE
    /\ UNCHANGED <<bucket, chain, bindings, calls, step, outcome, done, reported, touched,
                   raced, untold, mishaps>>

BucketNext ==
    \/ \E id \in {"k2", "k3"} : StartStep(id)
    \/ BucketReadFails \/ ApprovalLapses
    \/ DescribeBucket \/ ClaimControlBucket \/ LookBeforeCreate \/ CreateControlBucket
    \/ RecordControlBucket \/ DescribeAgain \/ EnableVersioning
    \/ \E name \in Buckets : GetBindings(name) \/ CheckBindings(name)
    \/ AddBinding \/ ReobserveBinding
    \/ StepCrash
    \/ \E b \in Bindings : RemoveBinding(b) \/ OthersAddBinding(b) \/ OthersRemoveBinding(b)
    \/ OthersCreateBucket \/ OthersModifyBucket \/ OthersDeleteBucket
    \/ Expire

BucketSpec == BucketInit /\ [][BucketNext]_bucketVars

----------------------------------------------------------------------------
(* Properties *)

\* A K2 or K3 step that reports no mutation has changed nothing.
StorageReportsHonest == ~outcome.mutated => ~outcome.effect

\* K2 never changes a bucket that others created, not even under a claim of its
\* own and however its records were lost, unless the operation's own bucket of
\* that name was deleted after its creation was recorded.
ForeignControlBucketKept ==
    [][bucket.exists /\ ~bucket.ours /\ bucket' # bucket /\ mishaps' = mishaps =>
          "replaced" \in touched]_bucketVars

\* A verified step holds until others change it: the bucket is as desired, the
\* bindings are exactly the rendered policy.
StorageOutcomesHold ==
    outcome.verified =>
        IF outcome.id = "k2"
           THEN (bucket.versioning /\ bucket.exact) \/ "bucket" \in touched
           ELSE \A name \in Buckets : In(name) \cap Live = In(name) \cap Policy
                                          \/ name \in touched

\* No grant that was there before the operation is ever reported as added, so
\* compensation never removes one; a grant others add between the read and the
\* add of one step cannot be told apart.
PreexistingGrantsKept ==
    \A b \in reported \cup step.added : bindings[b] # Before \/ b \in raced

\* Every grant a step made is reported as added, also when the command that
\* made it failed, unless the process crashed or the provider did not answer
\* the re-observation either.  A retry takes those for preexisting ones.
GrantsReported ==
    \A b \in Bindings :
        bindings[b] \notin {Absent, Before} =>
            \/ b \in reported \cup step.added \cup untold
            \/ step.pc = "reobserve" /\ b = binding
=============================================================================
