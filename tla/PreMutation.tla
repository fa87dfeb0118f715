---------------------------- MODULE PreMutation ----------------------------
(***************************************************************************)
(* The proofs a run's mutation needs (isolation/guard.go, firewall.go,     *)
(* permission_proof.go): evaluatePreMutation over one input, which is the  *)
(* plan's request together with everything observed at one moment.         *)
(*                                                                         *)
(* A fingerprint of canonical JSON is the value it is taken of; a list the *)
(* code sorts before it compares or fingerprints is compared as a set.     *)
(* The provider defaults a firewall rule must carry (enabled, priority,    *)
(* direction, no denied tuple, no service account, no destination, no log, *)
(* no resource-manager tag) are the one field "defaults".                  *)
(***************************************************************************)
EXTENDS IsolationTargets

CONSTANTS
    Policy,                 \* the trusted policy: project, caps, principals, pins
    Principals,             \* the canonical principals
    MaxPreMutationProofLifetime,
    IAPRange                \* the source range of the provider's SSH proxy

Absent == [purpose |-> "absent"]

----------------------------------------------------------------------------
(* Freshness, operation, policy, project *)

validateEvidenceFreshness(f, now) ==
    /\ f.observedAt > 0 /\ f.observedAt < f.validUntil
    /\ f.validUntil - f.observedAt <= MaxPreMutationProofLifetime
    /\ f.observedAt <= now /\ now < f.validUntil

validateOperationBinding(op) == op.attempt > 0

NonDisposableEnvironmentInventoryFingerprint(environments) == ToSet(environments)

validEnvironments(environments) ==
    /\ environments # <<>>
    /\ \A e \in ToSet(environments) : e.class # "disposable" /\ e.name # "disposable"
    /\ \A i, j \in DOMAIN environments :
           environments[i].name = environments[j].name => i = j

validateProductionCIDRs(cidrs) ==
    /\ IsInjective(cidrs)
    /\ \A c \in ToSet(cidrs) : parseCanonicalIPv4Prefix(c)

validatePreMutationPolicy(in) ==
    /\ validateRunLimits(Policy.limits)
    /\ Policy.window \in 1..Policy.limits.lifetime
    /\ Policy.operator \in Principals /\ Policy.destructive \in Principals
    /\ Policy.operator # Policy.destructive
    /\ in.principal = Policy.operator
    /\ in.testCIDR = Policy.testCIDR
    /\ validEnvironments(in.environments)
    /\ NonDisposableEnvironmentInventoryFingerprint(in.environments) = Policy.environments
    /\ in.productionCIDRs # <<>> /\ validateProductionCIDRs(in.productionCIDRs)
    /\ ToSet(in.productionCIDRs) = Policy.productionCIDRs

presentRules(observations) ==
    {o.rule : o \in {x \in ToSet(observations) : x.state = "present"}}

validatePreMutationProject(in) ==
    \A id \in {t.id : t \in ToSet(in.targets)}
              \cup {i.id : i \in ToSet(in.capacity.instances)}
              \cup {d.id : d \in ToSet(in.capacity.disks)}
              \cup {r.id : r \in ToSet(in.rules)} \cup {r.network : r \in ToSet(in.rules)}
              \cup {o.id : o \in ToSet(in.observations)}
              \cup {r.id : r \in presentRules(in.observations)}
              \cup {r.network : r \in presentRules(in.observations)}
              \cup {p.resource : p \in ToSet(in.permissions.expected)}
              \cup {p.resource : p \in ToSet(in.permissions.observed)} :
        id.project = Policy.project

----------------------------------------------------------------------------
(* Capacity *)

CapacitySnapshotFingerprint(c) ==
    <<c.plan, ToSet(c.instances), ToSet(c.disks), c.lifetime, c.cost>>

plannedInstance(run, i) ==
    /\ validateResourceIdentity(i.id)
    /\ i.id.service = "compute" /\ i.id.kind = "instances"
    /\ inRunNamespace(run, i.id.name) /\ i.run = run
    /\ i.vcpus > 0 /\ i.memory > 0

plannedDisk(run, d) ==
    /\ validateResourceIdentity(d.id)
    /\ d.id.service = "compute" /\ d.id.kind = "disks"
    /\ inRunNamespace(run, d.id.name) /\ d.run = run /\ d.size > 0

largest(S) == CHOOSE x \in S \cup {0} : \A y \in S : y <= x

\* What the run can hold at one time: the largest machine, the largest disk.
runRequest(c) ==
    [vcpus |-> largest({i.vcpus : i \in ToSet(c.instances)}),
     memory |-> largest({i.memory : i \in ToSet(c.instances)}),
     disk |-> largest({d.size : d \in ToSet(c.disks)}),
     instances |-> Len(c.instances), lifetime |-> c.lifetime, cost |-> c.cost]

validateCapacityProof(c, run) ==
    /\ c.snapshot = CapacitySnapshotFingerprint(c)
    /\ c.instances # <<>> /\ keysDistinct(c.instances) /\ keysDistinct(c.disks)
    /\ \A i \in ToSet(c.instances) : plannedInstance(run, i)
    /\ \A d \in ToSet(c.disks) : plannedDisk(run, d)
    /\ ValidateRunRequest(Policy.limits, runRequest(c))

----------------------------------------------------------------------------
(* Locks *)

nonDisposable(locks) == {l \in ToSet(locks) : l.class # "disposable"}

\* Exactly the run's own lock, held by the harness, and one observation of
\* each declared environment, none of them held by the harness.
ValidateHarnessLocks(locks, environments, run, harness) ==
    /\ harness \in Principals
    /\ validEnvironments(environments)
    /\ \A i, j \in DOMAIN locks : locks[i].name = locks[j].name => i = j
    /\ \A l \in ToSet(locks) : l.active = (l.holder \in Principals)
    /\ \E l \in ToSet(locks) : l.class = "disposable"
    /\ \A l \in ToSet(locks) : l.class = "disposable" =>
           l.name = "disposable" /\ l.run = run /\ l.active /\ l.holder = harness
    /\ \A l \in nonDisposable(locks) : l.run = <<>> /\ l.holder # harness
    /\ {[name |-> l.name, class |-> l.class] : l \in nonDisposable(locks)}
           = ToSet(environments)

----------------------------------------------------------------------------
(* Permissions: exact tuples [identity, resource, permission, granted] *)

PermissionInventoryFingerprint(expected) == ToSet(expected)

newPermissionObservationKey(p) == <<p.identity, p.resource.key, p.permission>>

tuplesDistinct(tuples) ==
    \A i, j \in DOMAIN tuples :
        newPermissionObservationKey(tuples[i]) = newPermissionObservationKey(tuples[j])
            => i = j

isForbiddenServiceWrite(permission) ==
    /\ permission.service \in {"monitoring", "cloudscheduler", "run"}
    /\ permission.action \notin {"get", "list", "getIamPolicy", "query", "fullView"}

ValidatePermissionProof(permissions, principal) ==
    LET expected == permissions.expected  observed == permissions.observed
    IN  /\ principal \in Principals
        /\ expected # <<>>
        /\ \A p \in ToSet(expected) \cup ToSet(observed) :
               /\ validateResourceIdentity(p.resource)
               /\ p.identity = principal
               /\ ~(p.granted /\ isForbiddenServiceWrite(p.permission))
        /\ tuplesDistinct(expected) /\ tuplesDistinct(observed)
        /\ PermissionInventoryFingerprint(expected) = Policy.permissions
        /\ ToSet(observed) = ToSet(expected)

ProjectAuthorizationResource(project) ==
    LET id == [project |-> project, service |-> "cloudresourcemanager", kind |-> "projects",
               scope |-> "global", parent |-> <<>>, name |-> <<project>>]
    IN  id @@ [key |-> CanonicalTargetKey(id)]

computeFirewallInsertPermissions ==
    {[service |-> "compute", action |-> "create"],
     [service |-> "compute", action |-> "updatePolicy"]}

validateEmittedIntentPermissions(in) ==
    in.intents # <<>> =>
        \A permission \in computeFirewallInsertPermissions :
            \A proof \in {in.permissions.expected, in.permissions.observed} :
                \E p \in ToSet(proof) :
                    /\ p.granted /\ p.permission = permission /\ p.identity = in.principal
                    /\ p.resource = ProjectAuthorizationResource(Policy.project)

----------------------------------------------------------------------------
(* Firewall rules and the lifetime record they carry *)

RunLifetimeContractFingerprint(contract) == contract
RunFirewallDescription(fingerprint) == [lifetime |-> fingerprint]
RunNodeTag(fingerprint) == [node |-> fingerprint]

validContract(contract) ==
    /\ contract.generation > 0 /\ contract.createdAt > 0 /\ contract.expiresAt > 0
    /\ contract.revocation = "WF-TEST-01"

leavesWindow(contract, now) ==
    now < contract.expiresAt /\ contract.expiresAt - now >= Policy.window

validateRunLifetimeContract(in, now) ==
    LET contract == in.lifetime
    IN  /\ validContract(contract)
        /\ contract.run = in.run /\ contract.plan = in.capacity.plan
        /\ contract.operation = in.operation.operation
        /\ in.freshness.observedAt <= now
        /\ contract.createdAt <= in.freshness.observedAt
        /\ Policy.window <= in.capacity.lifetime
        /\ leavesWindow(contract, now)
        /\ contract.createdAt < contract.expiresAt
        /\ contract.expiresAt - contract.createdAt <= in.capacity.lifetime
        /\ contract.expiresAt - contract.createdAt <= Policy.limits.lifetime

validateTestTags(tags) == \A tag \in tags : DOMAIN tag = {"node"}

describesLifetimeMutant(rule, lifetime) == DOMAIN rule.description = {"lifetime"}
describesLifetime(rule, lifetime) == rule.description = RunFirewallDescription(lifetime)

validateFirewallRule(rule, in) ==
    LET lifetime == RunLifetimeContractFingerprint(in.lifetime)
    IN  /\ rule.run = in.run
        /\ describesLifetime(rule, lifetime)
        /\ rule.defaults
        /\ validateResourceIdentity(rule.id) /\ validateResourceIdentity(rule.network)
        /\ rule.id.kind = "firewalls" /\ rule.network.kind = "networks"
        /\ rule.network.name = <<Generated, Test>>
        /\ rule.id.project = rule.network.project /\ rule.id.project = in.lifetime.project
        /\ rule.targetTags # {} /\ validateTestTags(rule.targetTags)
        /\ \A source \in rule.sourceCIDRs, production \in ToSet(in.productionCIDRs) :
               parseCanonicalIPv4Prefix(source) /\ ~prefixesOverlap(source, production)
        /\ rule.purpose \in Purposes
        /\ rule.id.name = RunFirewallRuleName(in.run, rule.purpose)
        /\ rule.targetTags = {RunNodeTag(lifetime)}
        /\ rule.lifetime = lifetime
        /\ \/ rule.purpose = "iap-ssh" /\ rule.port = 22
              /\ rule.sourceTags = {} /\ rule.sourceCIDRs = {IAPRange}
           \/ rule.purpose = "internal" /\ rule.port = 27017
              /\ rule.sourceCIDRs = {} /\ rule.sourceTags = {RunNodeTag(lifetime)}

absentKeys(in) == {o.id.key : o \in {x \in ToSet(in.observations) : x.state = "absent"}}

observationExact(o, in) ==
    \E rule \in ToSet(in.rules) :
        /\ o.id = rule.id
        /\ \/ o.state = "present" /\ o.rule = rule
           \/ o.state = "absent" /\ o.rule = Absent

targetKeys(in) == {t.id.key : t \in ToSet(in.targets)}

insertsEveryAbsent(in) == targetKeys(in) = absentKeys(in)

\* Both rules of the run, one exhaustive observation of each; every rule
\* confirmed absent is a target and no other is.
ValidateFirewallRules(in, now) ==
    /\ validateRunLifetimeContract(in, now)
    /\ Len(in.rules) = 2 /\ Len(in.observations) = 2
    /\ {r.purpose : r \in ToSet(in.rules)} = Purposes
    /\ \A r \in ToSet(in.rules) \cup presentRules(in.observations) :
           validateFirewallRule(r, in)
    /\ keysDistinct(in.observations)
    /\ \A o \in ToSet(in.observations) : observationExact(o, in)
    /\ insertsEveryAbsent(in)

validateMutationIntents(in) ==
    /\ Len(in.intents) = Len(in.targets)
    /\ in.principal = Policy.operator
    /\ \A i \in ToSet(in.intents) :
           /\ i.action = "compute.firewalls.insert" /\ i.role = "operator"
           /\ SelectRunFirewallMutationTargets(in.run, <<i.target>>)
           /\ i.target \in ToSet(in.targets)
           /\ i.create \in ToSet(in.rules) /\ i.create.id.key = i.target.id.key
    /\ {i.target.id.key : i \in ToSet(in.intents)} = targetKeys(in)

----------------------------------------------------------------------------
(* The evaluation *)

evaluatePreMutation(in, now) ==
    /\ validateOperationBinding(in.operation)
    /\ validateEvidenceFreshness(in.freshness, now)
    /\ validatePreMutationPolicy(in)
    /\ SelectRunFirewallMutationTargets(in.run, in.targets)
    /\ validatePreMutationProject(in)
    /\ validateCapacityProof(in.capacity, in.run)
    /\ ValidateNetworkCIDR(in.testCIDR, ToSet(in.productionCIDRs))
    /\ ValidateHarnessLocks(in.locks, in.environments, in.run, in.principal)
    /\ ValidatePermissionProof(in.permissions, in.principal)
    /\ ValidateFirewallRules(in, now)
    /\ validateMutationIntents(in)
    /\ validateEmittedIntentPermissions(in)

\* Everything but the two times of the observation.
preMutationFingerprint(in) ==
    [f \in DOMAIN in |->
        CASE f = "freshness" -> in.freshness.revision
          [] f = "capacity" -> CapacitySnapshotFingerprint(in.capacity)
          [] f = "permissions" -> <<ToSet(in.permissions.expected), ToSet(in.permissions.observed)>>
          [] f \in {"targets", "productionCIDRs", "environments", "locks", "intents",
                    "rules", "observations"} -> ToSet(in[f])
          [] OTHER -> in[f]]
=============================================================================
