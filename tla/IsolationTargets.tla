-------------------------- MODULE IsolationTargets --------------------------
(***************************************************************************)
(* Which resources the test harness may touch (isolation/guard.go,         *)
(* isolation/ownership.go, config/resource.go): identities and their keys, *)
(* the selectors of a run's own targets and of cleanup targets, the caps   *)
(* of a run, and the network of the harness.                               *)
(*                                                                         *)
(* A name is the sequence of its hyphen-separated segments, so that the    *)
(* code's string prefixes are sequence prefixes: run <<"a">> and run       *)
(* <<"a", "b">> have overlapping namespaces here as they have there.       *)
(* Addresses are the naturals below 2^AddressBits.                         *)
(***************************************************************************)
EXTENDS Naturals, Sequences, SequencesExt, FiniteSets

CONSTANTS
    AddressBits,            \* width of an address
    PrivateRanges,          \* the private prefixes
    MaxSubnetBits           \* the longest prefix the provider accepts

Generated == "ctrldb"
Test == "test"

----------------------------------------------------------------------------
(* Identities *)

computeKinds == {"instances", "disks", "firewalls", "networks", "subnetworks",
                 "routers", "routerNats"}
scopesOf(kind) ==
    CASE kind = "instances" -> {"zone"}
      [] kind = "disks" -> {"zone", "region"}
      [] kind \in {"firewalls", "networks"} -> {"global"}
      [] kind \in {"subnetworks", "routers", "routerNats"} -> {"region"}
      [] OTHER -> {"global", "region", "zone"}

validateKnownResourceScope(id) ==
    id.service = "compute" => id.scope \in scopesOf(id.kind)

\* The key names every explicit field, so two valid identities with one key
\* are one identity.
CanonicalTargetKey(id) ==
    <<id.project, id.service, id.scope, id.parent, id.kind, id.name>>

validateResourceIdentity(id) ==
    /\ validateKnownResourceScope(id)
    /\ id.name # <<>>
    /\ (id.parent # <<>>) <=> (id.service = "compute" /\ id.kind = "routerNats")
    /\ id = [project |-> id.project, service |-> id.service, kind |-> id.kind,
             scope |-> id.scope, parent |-> id.parent, name |-> id.name,
             key |-> CanonicalTargetKey(id)]

\* Both halves of the destructive selector: the reserved names and the labels.
IsTestResource(name, labels) ==
    /\ IsStrictPrefix(<<Generated, Test>>, name)
    /\ labels.managedBy = Generated
    /\ labels.environment = "disposable"
    /\ labels.purpose = "test-isolation"

validateMutationTarget(t) ==
    validateResourceIdentity(t.id) /\ IsTestResource(t.id.name, t.labels)

labelCapableCleanupIdentity(id) ==
    id.service = "compute" /\ id.kind \in {"instances", "disks"}

----------------------------------------------------------------------------
(* Selectors.  Each refuses the whole list when one target is not certain. *)

RunResourcePrefix(run) == <<Generated, Test>> \o run

keysDistinct(targets) ==
    \A i, j \in DOMAIN targets : targets[i].id.key = targets[j].id.key => i = j

inRunNamespace(run, name) == IsStrictPrefix(RunResourcePrefix(run), name)

SelectRunMutationTargets(run, targets) ==
    /\ keysDistinct(targets)
    /\ \A t \in ToSet(targets) :
           /\ validateMutationTarget(t)
           /\ labelCapableCleanupIdentity(t.id)
           /\ inRunNamespace(run, t.id.name)
           /\ t.labels.run = run

Purposes == {"iap-ssh", "internal"}
RunFirewallRuleName(run, purpose) == RunResourcePrefix(run) \o <<purpose>>

isExactRunFirewallName(name, run) ==
    \E purpose \in Purposes : name = RunFirewallRuleName(run, purpose)

noLabels == [managedBy |-> "", environment |-> "", purpose |-> "", run |-> <<>>]

SelectRunFirewallMutationTargets(run, targets) ==
    /\ keysDistinct(targets)
    /\ \A t \in ToSet(targets) :
           /\ validateResourceIdentity(t.id)
           /\ t.id.service = "compute" /\ t.id.kind = "firewalls" /\ t.id.scope = "global"
           /\ t.labels = noLabels
           /\ isExactRunFirewallName(t.id.name, run)

ValidateCleanupTargets(project, targets) ==
    /\ keysDistinct(targets)
    /\ \A t \in ToSet(targets) :
           /\ validateMutationTarget(t)
           /\ t.id.project = project
           /\ labelCapableCleanupIdentity(t.id)

\* The targets the nightly wipe deletes: none at all when one is ambiguous.
SelectExpiredTargets(project, candidates, now, maxLifetime) ==
    IF /\ now > 0 /\ maxLifetime > 0
       /\ ValidateCleanupTargets(project, candidates)
       /\ \A c \in ToSet(candidates) : 0 < c.createdAt /\ c.createdAt <= now
       THEN {c \in ToSet(candidates) : now - c.createdAt >= maxLifetime}
       ELSE {}

----------------------------------------------------------------------------
(* Caps of a run *)

validateRunLimits(limits) ==
    /\ limits.vcpus > 0 /\ limits.memory > 0 /\ limits.disk > 0
    /\ limits.instances > 0 /\ limits.lifetime > 0

ValidateRunRequest(limits, request) ==
    /\ validateRunLimits(limits)
    /\ request.vcpus \in 1..limits.vcpus
    /\ request.memory \in 1..limits.memory
    /\ request.disk \in 0..limits.disk
    /\ request.instances \in 1..limits.instances
    /\ request.lifetime \in 1..limits.lifetime
    /\ request.cost \in 0..limits.cost

----------------------------------------------------------------------------
(* The network: a prefix is an address and a number of leading bits *)

span(prefix) == 2 ^ (AddressBits - prefix.bits)
contains(prefix, address) == address \div span(prefix) = prefix.address \div span(prefix)
parseCanonicalIPv4Prefix(prefix) ==
    prefix.bits \in 0..AddressBits /\ prefix.address % span(prefix) = 0

isPrivateIPv4Prefix(prefix) ==
    \E range \in PrivateRanges :
        prefix.bits >= range.bits /\ contains(range, prefix.address)

prefixesOverlap(first, second) ==
    contains(first, second.address) \/ contains(second, first.address)

ValidateNetworkCIDR(test, forbidden) ==
    /\ parseCanonicalIPv4Prefix(test)
    /\ test.bits <= MaxSubnetBits
    /\ isPrivateIPv4Prefix(test)
    /\ \A f \in forbidden :
           parseCanonicalIPv4Prefix(f) /\ ~prefixesOverlap(test, f)
=============================================================================
