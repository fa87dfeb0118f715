-------------------------- MODULE MutationBoundary --------------------------
(***************************************************************************)
(* One run's passage to the provider (isolation/guard.go): a request is    *)
(* authorized against a first observation, revalidated against a second    *)
(* one, and only then executed; and the cleanup of what runs left behind   *)
(* (isolation/ownership.go).  Between any two steps the provider, the      *)
(* locks, the permissions and the lifetime record change under the run.    *)
(***************************************************************************)
EXTENDS PreMutation, Clock

CONSTANTS
    Requests,           \* what plans ask for: good ones and wrong ones
    Observed(_, _),     \* the input made of a request and the world
    DesiredRule(_, _),  \* the rule a contract asks for, by contract and purpose
    ForeignRule(_),     \* a rule of that name that is not the run's, by purpose
    Contracts,          \* lifetime records, by generation
    Operator, Nobody, Outsider,
    MaxChanges          \* bound of what others change

ASSUME BoundaryAssumption ==
    /\ MaxPreMutationProofLifetime \in Nat \ {0}
    /\ \A k \in DOMAIN Contracts :
           Contracts[k].createdAt \in Nat /\ Contracts[k].expiresAt \in Nat
    /\ Len(Contracts) \in Nat \ {0} /\ DOMAIN Contracts = 1..Len(Contracts)
    /\ \A p \in Purposes : ~ForeignRule(p).defaults
    /\ \A p \in Purposes, k \in DOMAIN Contracts :
           /\ DesiredRule(Contracts[k], p).lifetime = Contracts[k]
           /\ DesiredRule(Contracts[k], p).description = RunFirewallDescription(Contracts[k])

VARIABLES
    world,      \* external: [rules, holder, production, granted, record, since]
    request,    \* the plan's request the run works on
    seen,       \* the run's last look at the world, and when
    pc,
    decision,   \* what AuthorizePreMutation returned
    boundary,   \* what RevalidatePreMutation returned
    sighting,   \* the rule a cleanup saw, and when
    expected,   \* the durable lifetime record it read, and when
    clearing,   \* the cleanup that passed the check and is not yet carried out
    changes     \* what others have changed so far

passage == <<seen, pc, decision, boundary>>
cleanup == <<sighting, expected, clearing>>
boundaryVars == <<now, world, request, passage, cleanup, changes>>

NoLook == [at |-> 0, until |-> 0]
NoDecision == [at |-> 0, look |-> NoLook]
NoBoundary == [at |-> 0, look |-> NoLook, intents |-> {}]
NoSighting == [at |-> 0]
NoRecord == [at |-> 0]
NoClearing == [at |-> 0]

BoundaryInit ==
    /\ ClockInit
    /\ world = [rules |-> [p \in Purposes |-> Absent], holder |-> Operator,
                production |-> Nobody, granted |-> TRUE, record |-> 1, since |-> now]
    /\ request \in Requests
    /\ seen = NoLook /\ pc = "start"
    /\ decision = NoDecision /\ boundary = NoBoundary
    /\ sighting = NoSighting /\ expected = NoRecord /\ clearing = NoClearing
    /\ changes = 0

----------------------------------------------------------------------------
(* Authorization and revalidation *)

\* The run looks at everything at one moment and may wait before it uses it.
Look(until) ==
    /\ pc \in {"start", "authorized"} /\ until > 0
    /\ seen' = [at |-> now, until |-> until, world |-> world]
    /\ UNCHANGED <<now, world, request, pc, decision, boundary, cleanup, changes>>

\* The evidence is dated, and the lifetime record is the durable one.
ownEvidence(look) ==
    [lifetime |-> Contracts[look.world.record],
     freshness |-> [revision |-> look.world, observedAt |-> look.at,
                    validUntil |-> look.until]]

inputOf(look) ==
    LET observed == Observed(request, look.world)
        own == ownEvidence(look)
    IN  [f \in DOMAIN observed \cup DOMAIN own |->
            IF f \in DOMAIN own THEN own[f] ELSE observed[f]]

\* The decision is opaque: a fingerprint of the input, the operation, the time
\* and the expiry, all of which the look it was made from determines.
AuthorizePreMutation ==
    /\ pc = "start" /\ seen # NoLook
    /\ evaluatePreMutation(inputOf(seen), now)
    /\ decision' = [at |-> now, look |-> seen]
    /\ pc' = "authorized"
    /\ UNCHANGED <<now, world, request, seen, boundary, cleanup, changes>>

immediateMutant(look) == decision.at <= now /\ look.until = decision.look.until
\* Newer evidence under the first expiry, and a clock that did not go back.
immediate(look) ==
    decision.at <= now /\ decision.at < look.at /\ look.until = decision.look.until

unchanged(in, authorized) ==
    /\ preMutationFingerprint(in) = preMutationFingerprint(authorized)
    /\ in.operation = authorized.operation

RevalidatePreMutation ==
    LET in == inputOf(seen)
    IN  /\ pc = "authorized" /\ immediate(seen)
        /\ evaluatePreMutation(in, now) /\ unchanged(in, inputOf(decision.look))
        /\ boundary' = [at |-> now, look |-> seen, intents |-> ToSet(in.intents)]
        /\ pc' = IF in.intents = <<>> THEN "converged" ELSE "ready"
        /\ seen' = NoLook
        /\ UNCHANGED <<now, world, request, decision, cleanup, changes>>

\* A run that was refused, or has waited too long, starts over.
StartOver ==
    /\ pc = "authorized"
    /\ pc' = "start" /\ decision' = NoDecision
    /\ UNCHANGED <<now, world, request, seen, boundary, cleanup, changes>>

\* External: the provider executes one intent; it refuses a name that exists.
ExecuteIntent(i) ==
    /\ pc = "ready" /\ i \in boundary.intents
    /\ boundary' = [boundary EXCEPT !.intents = @ \ {i}]
    /\ world' = IF world.rules[i.create.purpose] = Absent
                   THEN [world EXCEPT !.rules[i.create.purpose] = i.create] ELSE world
    /\ UNCHANGED <<now, request, seen, pc, decision, cleanup, changes>>

----------------------------------------------------------------------------
(* Cleanup of a run's rules by its own teardown or by the nightly wipe.    *)
(* The code has only the check; the looks before it and the delete after   *)
(* it are its callers', each a request of its own.                         *)

\* External: a cleanup sees one rule.
See(p) ==
    /\ world.rules[p] # Absent
    /\ sighting' = [at |-> now, purpose |-> p, rule |-> world.rules[p]]
    /\ UNCHANGED <<now, world, request, passage, expected, clearing, changes>>

\* External: a cleanup reads which lifetime record is the durable one.  A
\* shorter validity than the longest allowed only refuses more.
ReadRecord ==
    /\ expected' = [at |-> now, until |-> now + MaxPreMutationProofLifetime,
                    record |-> world.record]
    /\ UNCHANGED <<now, world, request, passage, sighting, clearing, changes>>

validateOwnershipRecordExpectation(record, time) ==
    /\ record # NoRecord
    /\ record.until - record.at <= MaxPreMutationProofLifetime
    /\ record.at <= time /\ time < record.until

recordCurrentMutant(contract, record) == TRUE
\* The lifetime record the caller names is the one that was read: identity,
\* generation and the revision, which is the fingerprint of the whole.
recordCurrent(contract, record) == contract = Contracts[record.record]

expiredForWipe(contract, mode, time) == mode = "expired-wipe" => contract.expiresAt <= time

ValidateRunFirewallCleanupTarget(target, contract, record, mode, time) ==
    /\ validateResourceIdentity(target.rule.id)
    /\ target.rule.id.project = Policy.project
    /\ target.rule.id.service = "compute" /\ target.rule.id.kind = "firewalls"
    /\ target.rule.id.scope = "global"
    /\ isExactRunFirewallName(target.rule.id.name, contract.run)
    /\ validContract(contract) /\ contract.project = Policy.project
    /\ validateOwnershipRecordExpectation(record, time)
    /\ recordCurrent(contract, record)
    /\ target.rule.description
           = RunFirewallDescription(RunLifetimeContractFingerprint(contract))
    /\ target.at > 0 /\ target.at <= time /\ contract.createdAt <= target.at
    /\ time - target.at < MaxPreMutationProofLifetime
    /\ contract.createdAt < contract.expiresAt
    /\ contract.expiresAt - contract.createdAt <= Policy.limits.lifetime
    /\ expiredForWipe(contract, mode, time)

\* The caller names the lifetime record it takes for the rule's, any that ever
\* was the durable one, and the authority it cleans up under.
Clear(k, mode) ==
    /\ sighting # NoSighting /\ clearing = NoClearing
    /\ ValidateRunFirewallCleanupTarget(sighting, Contracts[k], expected, mode, now)
    /\ clearing' = [at |-> now, mode |-> mode, purpose |-> sighting.purpose,
                    rule |-> sighting.rule]
    /\ sighting' = NoSighting /\ expected' = NoRecord
    /\ UNCHANGED <<now, world, request, passage, changes>>

\* External: the provider deletes whatever has the name by then.
DeleteRule ==
    /\ clearing # NoClearing /\ clearing' = NoClearing
    /\ world' = [world EXCEPT !.rules[clearing.purpose] = Absent]
    /\ UNCHANGED <<now, request, passage, sighting, expected, changes>>

----------------------------------------------------------------------------
(* Everybody else *)

BoundaryTick ==
    /\ Tick
    /\ UNCHANGED <<world, request, passage, cleanup, changes>>

OthersChange(w) ==
    /\ changes < MaxChanges /\ w # world
    /\ changes' = changes + 1
    /\ world' = w
    /\ UNCHANGED <<now, request, passage, cleanup>>

\* An earlier attempt of the run, or somebody else, left or removed a rule.
RuleChanges(p, rule) == OthersChange([world EXCEPT !.rules[p] = rule])

LocksChange(holder, production) ==
    OthersChange([world EXCEPT !.holder = holder, !.production = production])

PermissionsChange == OthersChange([world EXCEPT !.granted = ~@])

\* The run ID is used again: a new lifetime record replaces the old one.
RecordReplaced ==
    /\ world.record < Len(Contracts)
    /\ OthersChange([world EXCEPT !.record = @ + 1, !.since = now])

BoundaryNext ==
    \/ BoundaryTick
    \/ \E until \in {now + MaxPreMutationProofLifetime, decision.look.until} : Look(until)
    \/ AuthorizePreMutation \/ RevalidatePreMutation
    \/ StartOver
    \/ \E i \in boundary.intents : ExecuteIntent(i)
    \/ \E p \in Purposes :
           \/ See(p)
           \/ \E rule \in {Absent, ForeignRule(p),
                           DesiredRule(Contracts[world.record], p)} : RuleChanges(p, rule)
    \/ ReadRecord
    \/ \E k \in 1..world.record, mode \in {"recorded-teardown", "expired-wipe"} : Clear(k, mode)
    \/ DeleteRule
    \/ \E holder \in {Operator, Outsider}, production \in {Operator, Nobody} :
           LocksChange(holder, production)
    \/ PermissionsChange
    \/ RecordReplaced

BoundarySpec == BoundaryInit /\ [][BoundaryNext]_boundaryVars

----------------------------------------------------------------------------
(* Properties *)

issued == boundary # NoBoundary
final == inputOf(boundary.look)

\* What is sent to the provider rests on two looks at the world: the second came
\* after the authorization, both lie in one short window that has not passed,
\* and they show the same world.  In it the operator held its run's lock and was
\* seen not to hold that of any declared environment, it had exactly the
\* permissions the policy pins, and what is inserted is every rule of the run
\* that was seen to be absent and no other.
PassRestsOnLooks ==
    issued =>
        LET locks == ToSet(final.locks)
            absent == {k \in DOMAIN final.observations : final.observations[k].rule = Absent}
        IN  /\ decision.look.at <= decision.at
            /\ decision.at < boundary.look.at
            /\ boundary.look.at <= boundary.at
            /\ boundary.at < decision.look.at + MaxPreMutationProofLifetime
            /\ boundary.look.world = decision.look.world
            /\ \E l \in locks : /\ l.class = "disposable" /\ l.run = final.run
                                /\ l.holder = Policy.operator
            /\ \A e \in Policy.environments :
                   \E l \in locks : l.name = e.name /\ l.holder # Policy.operator
            /\ ToSet(final.permissions.observed) = Policy.permissions
            /\ {i.target.id : i \in ToSet(final.intents)}
                   = {final.observations[k].id : k \in absent}

\* No rule is out of the nightly wipe's reach.  A rule that the run created, at
\* whatever time after its boundary the provider came to it, passes the check of
\* the cleanup once its lifetime record has expired, if nobody took the run ID
\* again: what makes a rule acceptable (firewall.go) is enough for its removal
\* (ownership.go).
CreatedRulesCanBeWiped ==
    issued => \A i \in ToSet(final.intents) :
        LET rule == world.rules[i.create.purpose]
        IN  rule = i.create /\ Contracts[world.record] = final.lifetime
                /\ final.lifetime.expiresAt <= now =>
            ValidateRunFirewallCleanupTarget(
                [at |-> now, purpose |-> i.create.purpose, rule |-> rule],
                final.lifetime,
                [at |-> now, until |-> now + MaxPreMutationProofLifetime,
                 record |-> world.record],
                "expired-wipe", now)

\* What the nightly wipe may take of a run that is still alive.  The delete goes
\* by name and comes after the check, which comes after the looks.  If it takes
\* a rule whose own lifetime has not passed, then this is not the rule the wipe
\* saw, and either its lifetime record is no longer the durable one, or it took
\* the run ID over after the record the check rests on was read, that is no
\* earlier than one proof lifetime before the check.
taken == world.rules[clearing.purpose]

wipes == clearing # NoClearing /\ clearing' = NoClearing /\ clearing.mode = "expired-wipe"

sparesLiveRuns ==
    wipes /\ taken # Absent /\ taken.defaults /\ now < taken.lifetime.expiresAt =>
        /\ taken # clearing.rule
        /\ \/ taken.lifetime # Contracts[world.record]
           \/ clearing.at < world.since + MaxPreMutationProofLifetime

WipeSparesLiveRuns == [][sparesLiveRuns]_boundaryVars
=============================================================================
