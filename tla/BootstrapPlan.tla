---------------------------- MODULE BootstrapPlan ---------------------------
(***************************************************************************)
(* The plan of the bootstrap workflow WF-TEST-01 as the compiler derives   *)
(* it (isolation/bootstrap/compile.go, canonical.go) from a preflight      *)
(* observation (observation/preflight.go), permission evidence, prices and *)
(* the harness configuration.  Everything here is a pure function: a hash  *)
(* stands for the value it covers, a name for a resource's identifier.     *)
(***************************************************************************)
EXTENDS PlanPolicy

CONSTANTS
    Config,                 \* the validated harness configuration
    RequiredAPIs,           \* requiredAPIs
    MaxEvidenceLifetime,    \* observation.MaxEvidenceLifetime
    MinimumValidity,        \* minimumPlanValidity
    PricingAge,             \* maximumPricingAge
    ExactCost               \* maximumExactMicros

ASSUME ConfigAssumption ==
    /\ Config.validity \in Nat /\ Config.cost \in Nat /\ Config.cidr \in AddressPrefixes
    /\ MaxEvidenceLifetime \in Nat

----------------------------------------------------------------------------
(* The desired resources, and the identity the provider knows each one by  *)

Desired(id, kind, location, parent) ==
    [id |-> id, kind |-> kind, location |-> location, parent |-> parent]

buildDesiredResources(region) == {
    Desired("audit-bucket", "bucket", region, None),
    Desired("control-bucket", "bucket", region, None),
    Desired("test-network", "network", "global", None),
    Desired("test-subnet", "subnetwork", region, "test-network"),
    Desired("test-router", "router", region, "test-network"),
    Desired("test-nat", "nat", region, "test-router"),
    Desired("test-iap-firewall", "firewall", "global", "test-network"),
    Desired("test-internal-firewall", "firewall", "global", "test-network"),
    Desired("test-operator-sa", "service-account", "global", None),
    Desired("test-destructive-sa", "service-account", "global", None),
    Desired("test-vm-sa", "service-account", "global", None),
    Desired("test-wipe-sa", "service-account", "global", None),
    Desired("test-operator-role", "role", "global", None),
    Desired("test-destructive-role", "role", "global", None),
    Desired("test-wipe-job", "run-job", region, None),
    Desired("test-wipe-scheduler", "scheduler-job", region, "test-wipe-job")}

\* A NAT's path names its router; no other path names a parent.
ProviderID(r) ==
    <<r.kind, r.location, IF r.kind = "nat" THEN r.parent ELSE None, r.id>>

----------------------------------------------------------------------------
(* The fourteen steps, a chain in which each depends on the one before     *)

Retry(attempts, initial, max) == [attempts |-> attempts, initial |-> initial, max |-> max]
Once == Retry(1, 0, 0)
Step(id, resources, retry, failure, permissions) ==
    [id |-> id, resources |-> resources, retry |-> retry, failure |-> failure,
     permissions |-> permissions, cancelSafe |-> id # "k1-retention-lock",
     ponr |-> CASE id = "k1-retention-lock" -> "audit-retention-lock"
                [] id = "t8-isolation-gate" -> "verification-only"
                [] OTHER -> "reversible"]

stepRegistry(resources) == <<
    Step("k1-audit-bootstrap", {"audit-bucket"}, Retry(3, 2, 10), "pause",
         {"buckets.create", "buckets.get", "objects.create", "objects.get"}),
    Step("k1-retention-lock", {"audit-bucket"}, Retry(3, 2, 10), "pause",
         {"buckets.get", "buckets.update"}),
    Step("k2-control-bucket", {"control-bucket"}, Retry(3, 2, 10), "rollback",
         {"buckets.create", "buckets.get", "buckets.update"}),
    Step("k3-bucket-iam", {"audit-bucket", "control-bucket"}, Retry(5, 2, 20), "rollback",
         {"buckets.getIamPolicy", "buckets.setIamPolicy"}),
    Step("k4-seed-control", {"control-bucket"}, Retry(3, 2, 10), "pause",
         {"objects.create", "objects.get"}),
    Step("k5-lock-round-trip", {"control-bucket"}, Once, "pause",
         {"objects.create", "objects.get", "objects.update"}),
    Step("t1-network", {"test-network"}, Retry(3, 5, 20), "rollback",
         {"networks.create", "networks.get"}),
    Step("t2-subnet", {"test-subnet"}, Retry(3, 5, 20), "rollback",
         {"subnetworks.create", "subnetworks.get"}),
    Step("t3-nat", {"test-router", "test-nat"}, Retry(3, 5, 20), "rollback",
         {"routers.create", "routers.get", "routers.update"}),
    Step("t4-firewall", {"test-iap-firewall", "test-internal-firewall"}, Retry(3, 5, 20),
         "rollback", {"firewalls.create", "firewalls.get"}),
    Step("t5-identities", {"test-operator-sa", "test-destructive-sa", "test-vm-sa",
                           "test-wipe-sa", "test-operator-role", "test-destructive-role"},
         Retry(5, 2, 20), "rollback",
         {"roles.create", "roles.get", "roles.update", "serviceAccounts.create",
          "serviceAccounts.get", "serviceAccounts.setIamPolicy", "projects.getIamPolicy",
          "projects.setIamPolicy"}),
    Step("t6-control-prefix", {"control-bucket"}, Retry(5, 2, 20), "rollback",
         {"buckets.getIamPolicy", "buckets.setIamPolicy"}),
    Step("t7-nightly-wipe", {"test-wipe-job", "test-wipe-scheduler"}, Retry(3, 5, 30),
         "rollback", {"schedulerJobs.create", "schedulerJobs.get", "serviceAccounts.actAs",
                      "runJobs.create", "runJobs.get", "runJobs.run"}),
    Step("t8-isolation-gate", {r.id : r \in resources}, Once, "pause",
         {"schedulerJobs.get", "firewalls.get", "networks.get", "routers.get",
          "subnetworks.get", "roles.get", "serviceAccounts.get",
          "serviceAccounts.getIamPolicy", "projects.getIamPolicy", "runJobs.get",
          "buckets.get", "buckets.getIamPolicy"})>>

expectedPermissionGrants(definitions) ==
    UNION {{[step |-> d.id, permission |-> p, granted |-> TRUE] : p \in d.permissions} :
              d \in Range(definitions)}

----------------------------------------------------------------------------
(* The preflight observation *)

ScopeValid(r, region) ==
    /\ r.kind \in {"network", "firewall", "service-account", "role"} => r.location = "global"
    /\ r.kind \in {"subnetwork", "router", "nat", "run-job", "scheduler-job", "bucket"}
         => r.location # "global"
    /\ r.kind = "nat" => r.parent # None

\* validatePayload: what one exhaustive look at the project must contain.
PreflightValid(o) ==
    /\ o.exhaustive
    /\ o.observed < o.until /\ o.until - o.observed <= MaxEvidenceLifetime
    /\ [name |-> o.region, up |-> TRUE] \in o.regions
    /\ \A z \in o.zones : \E r \in o.regions : r.name = z.region
    /\ [name |-> o.zone, region |-> o.region, up |-> TRUE] \in o.zones
    /\ \A m \in o.machines : m.zone = o.zone /\ m.cpus > 0 /\ m.memory > 0
    /\ \A m, n \in o.machines : m.name = n.name => m = n
    /\ \A p \in o.ranges : Masked(p)
    /\ \A r \in o.resources : r.project = o.project /\ ScopeValid(r, o.region)
    /\ \A r, s \in o.resources : ProviderID(r) = ProviderID(s) => r = s
    /\ \A f \in o.firewalls : \A p \in f.sources : Masked(p)

FreshAt(e, t) == e.observed <= t /\ t < e.until

CIDROverlaps(o, range) == \E p \in o.ranges : PrefixOverlaps(range, p)

exposesMongoDB(f) ==
    /\ ~f.disabled /\ f.direction = "ingress"
    /\ Everywhere \in f.sources
    /\ \E a \in f.allowed :
           /\ a.protocol \in {"tcp", "6", "all"}
           /\ a.ports = {} \/ \E p \in a.ports : p[1] <= 27017 /\ 27017 <= p[2]

----------------------------------------------------------------------------
(* Compile *)

\* Mutant of the next definition: a bucket is told apart by its location, as the other kinds are.
rejectTargetCollisionsMutant(o, desired) ==
    \A r \in o.resources, d \in desired :
        r.kind = d.kind /\ r.id = d.id /\ r.project = Config.project =>
            r.location # d.location \/ ProviderID(r) # ProviderID(d)

rejectTargetCollisions(o, desired) ==
    \A r \in o.resources, d \in desired :
        r.kind = d.kind /\ r.id = d.id /\ r.project = Config.project =>
            /\ d.kind # "bucket"
            /\ r.location # d.location \/ ProviderID(r) # ProviderID(d)

PricesCurrent(price, at) ==
    /\ FreshAt(price, at)
    /\ price.date <= at /\ at - price.date <= PricingAge

validatePricing(price, o, at) ==
    /\ price.machine = Config.machine /\ price.zone = Config.zone
    /\ PricesCurrent(price, at)
    /\ price.estimate <= ExactCost /\ price.estimate <= Config.cost
    /\ \E m \in o.machines : m.name = price.machine
    /\ \A m \in o.machines : m.name = price.machine =>
           ~m.deprecated /\ m.cpus = price.cpus /\ m.memory = price.memory

validatePermissionProofs(evidence, definitions, account, at) ==
    /\ evidence.account = account
    /\ FreshAt(evidence, at)
    /\ evidence.grants = expectedPermissionGrants(definitions)

validateCompileRequest(q) ==
    LET o == q.preflight
    IN  /\ Config.validity >= MinimumValidity
        /\ q.policy.local # None /\ q.policy.local = q.policy.approved
        /\ o.project = Config.project /\ o.region = Config.region /\ o.zone = Config.zone
        /\ FreshAt(o, q.created)
        /\ ~CIDROverlaps(o, Config.cidr)
        /\ \A f \in o.firewalls : ~exposesMongoDB(f)
        /\ RequiredAPIs \subseteq o.apis
        /\ validatePricing(q.price, o, q.created)

buildRunLimits(price) ==
    [machine |-> price.machine, cpus |-> price.cpus, memory |-> price.memory,
     instances |-> Config.instances, lifetime |-> Config.lifetime, cost |-> Config.cost,
     estimate |-> price.estimate]

planPreconditions == {[id |-> "observation-fresh", ok |-> TRUE], [id |-> "cidr-clear", ok |-> TRUE],
                      [id |-> "permissions-proven", ok |-> TRUE]}

PlanResource(d, limits) ==
    [kind |-> "bootstrap-action", name |-> d.id, project |-> Config.project,
     print |-> <<d.id, d.resources, limits>>]
TermsOf(d) ==
    [identity |-> "human", retry |-> d.retry, cancelSafe |-> d.cancelSafe, timeout |-> 1,
     failure |-> d.failure]

buildPlanValues(id, account, created, expires, policy, limits, definitions) ==
    [id |-> id, workflow |-> "WF-TEST-01", project |-> Config.project, class |-> "disposable",
     principal |-> account, created |-> created, expires |-> expires,
     cooling |-> 0, intent |-> None, policy |-> [policy EXCEPT !.match = TRUE], stepUp |-> FALSE,
     approval |-> SecuritySensitive,
     resources |-> {PlanResource(d, limits) : d \in Range(definitions)},
     preconditions |-> planPreconditions,
     steps |-> [i \in DOMAIN definitions |->
                   [id |-> definitions[i].id, terms |-> TermsOf(definitions[i]),
                    targets |-> {PlanResource(definitions[i], limits)}]],
     permissions |-> UNION {{[step |-> d.id, identity |-> "human", permission |-> p,
                              resource |-> PlanResource(d, limits), granted |-> TRUE] :
                                p \in d.permissions} : d \in Range(definitions)},
     point |-> "k1-retention-lock", trigger |-> "mutation-observed",
     exposure |-> "none", controls |-> None, protection |-> TRUE,
     boundary |-> "audit-retention-lock", assets |-> {}]

\* The contract buildPlanValues constructs beside the plan.
bootstrapContract(definitions) ==
    [workflow |-> "WF-TEST-01", boundary |-> "audit-retention-lock",
     point |-> "k1-retention-lock", trigger |-> "mutation-observed",
     steps |-> [i \in DOMAIN definitions |->
                   [id |-> definitions[i].id, terms |-> TermsOf(definitions[i]),
                    effect |-> IF definitions[i].id = "t8-isolation-gate" THEN "read" ELSE "mutation",
                    minimum |-> SecuritySensitive, kinds |-> {"bootstrap-action"},
                    permissions |-> definitions[i].permissions, stepUp |-> FALSE,
                    recovery |-> FALSE, exposure |-> None]]]

desiredState(account) ==
    [account |-> account, project |-> Config.project, region |-> Config.region, zone |-> Config.zone,
     cidr |-> Config.cidr, validity |-> Config.validity]

buildEnvelopeBinding(plan, o, evidence) ==
    [plan |-> plan, account |-> plan.principal, revision |-> o.revision,
     observed |-> o.observed, until |-> o.until, permissions |-> evidence]

buildIntents(definitions, binding) ==
    [i \in DOMAIN definitions |->
        [step |-> definitions[i].id, binding |-> binding, resources |-> definitions[i].resources,
         dependencies |-> IF i = 1 THEN {} ELSE {definitions[i - 1].id},
         retry |-> definitions[i].retry, ponr |-> definitions[i].ponr]]

Definitions == stepRegistry(buildDesiredResources(Config.region))

CompileAdmits(q) ==
    /\ validateCompileRequest(q)
    /\ rejectTargetCollisions(q.preflight, buildDesiredResources(Config.region))
    /\ validatePermissionProofs(q.evidence, Definitions, q.preflight.account, q.created)

CompiledPayload(q) ==
    LET limits == buildRunLimits(q.price)
        plan == buildPlanValues(q.id, q.preflight.account, q.created, q.created + Config.validity,
                                q.policy, limits, Definitions)
        binding == buildEnvelopeBinding(plan, q.preflight, q.evidence)
    IN  [plan |-> plan, binding |-> binding,
         desired |-> desiredState(q.preflight.account),
         resources |-> buildDesiredResources(Config.region), limits |-> limits,
         price |-> q.price, evidence |-> q.evidence, intents |-> buildIntents(Definitions, binding)]

----------------------------------------------------------------------------
(* ParseCompiledPlan: whatever was derived is derived again and compared   *)

BindingValid(b, plan, evidence) ==
    /\ b.plan = plan /\ b.account = plan.principal /\ b.permissions = evidence
    /\ b.observed < b.until /\ FreshAt(b, plan.created)

validateDesiredState(desired, plan) ==
    /\ desired.account = plan.principal /\ desired.project = plan.project
    /\ desired.validity > 0 /\ plan.expires = plan.created + desired.validity
    /\ Masked(desired.cidr)
    /\ \E n \in PrivateNetworks : PrefixContains(n, desired.cidr.address)

validateLimitsAndPricing(x) ==
    /\ x.limits.machine = x.price.machine /\ x.limits.cpus = x.price.cpus
    /\ x.price.zone = x.desired.zone
    /\ x.limits.memory = x.price.memory /\ x.limits.instances = x.price.instances
    /\ x.limits.lifetime = x.price.lifetime
    /\ x.limits.cost <= ExactCost /\ x.limits.estimate = x.price.estimate
    /\ x.limits.estimate <= x.limits.cost
    /\ PricesCurrent(x.price, x.plan.created)

validateCompiledPayload(x) ==
    /\ validatePlanStructure(x.plan)
    /\ validateDesiredState(x.desired, x.plan)
    /\ x.resources = buildDesiredResources(x.desired.region)
    /\ validateLimitsAndPricing(x)
    /\ validatePermissionProofs(x.evidence, stepRegistry(x.resources), x.plan.principal,
                                  x.plan.created)
    /\ BindingValid(x.binding, x.plan, x.evidence)
    /\ x.plan = buildPlanValues(x.plan.id, x.desired.account, x.plan.created, x.plan.expires,
                                x.plan.policy, x.limits, stepRegistry(x.resources))
    /\ x.intents = buildIntents(stepRegistry(x.resources), x.binding)
=============================================================================
