----------------------------- MODULE PlanPolicy -----------------------------
(***************************************************************************)
(* What a reviewed plan and the trusted contract of its workflow must look *)
(* like (policy/plan.go, domain/plan.go, workflow/definition.go).  A plan  *)
(* is a record; its hash covers all of it, so it stands for its own hash.  *)
(* Text, patterns and encodings are left out, and so is the identity       *)
(* table, which the code compares with one fixed value.                    *)
(***************************************************************************)
EXTENDS Naturals, Sequences, SequencesExt, FiniteSets

CONSTANTS
    None,                   \* an absent optional value
    MaxStepAttempts,        \* domain.MaxStepAttempts
    MaxRetryBackoff,        \* domain.MaxRetryBackoffSeconds
    MaxStepTimeout,         \* domain.MaxStepTimeoutSeconds
    SnapshotAge,            \* the hour a snapshot proof stays current
    AddressWidth,           \* bits of an address
    NarrowBits,             \* the shortest prefix of an external source (/24)
    PrivateNetworks,        \* rfc1918Networks
    IAPSource               \* 35.235.240.0/20

(* Approval classes AP-0 to AP-5 *)
Read == 0
Protected == 2
SecuritySensitive == 3
Destructive == 4
DataDestructive == 5
ApprovalClasses == 0..5

Image(S, F(_)) == {F(x) : x \in S}
Unique(S, F(_)) == Cardinality(Image(S, F)) = Cardinality(S)

----------------------------------------------------------------------------
(* Address prefixes: the addresses that agree on their first bits *)

\* The powers of two, as a function that can be reasoned about.
TwoTo[n \in Nat] == IF n = 0 THEN 1 ELSE 2 * TwoTo[n - 1]

AddressPrefixes == [address : 0..(TwoTo[AddressWidth] - 1), bits : 0..AddressWidth]
Everywhere == [address |-> 0, bits |-> 0]
PrefixSize(p) == TwoTo[AddressWidth - p.bits]
Masked(p) == p.address % PrefixSize(p) = 0
PrefixContains(p, a) == a - (a % PrefixSize(p)) = p.address
PrefixOverlaps(p, q) ==
    IF p.bits <= q.bits THEN PrefixContains(p, q.address) ELSE PrefixContains(q, p.address)

ASSUME AddressAssumption ==
    /\ AddressWidth \in Nat /\ NarrowBits \in 0..AddressWidth /\ SnapshotAge \in Nat
    /\ IAPSource \in AddressPrefixes /\ PrivateNetworks \subseteq AddressPrefixes

----------------------------------------------------------------------------
(* Retry policies and the contract of a workflow *)

RetryPolicyValid(r) ==
    /\ r.attempts \in 1..MaxStepAttempts
    /\ r.attempts = 1 => r.initial = 0 /\ r.max = 0
    /\ r.attempts > 1 => r.initial > 0 /\ r.initial <= r.max /\ r.max <= MaxRetryBackoff

TermsValid(t) == RetryPolicyValid(t.retry) /\ t.timeout \in 1..MaxStepTimeout

validateExecutionExposureRequirement(s) ==
    s.exposure # None =>
        /\ s.effect = "mutation" /\ s.minimum >= SecuritySensitive
        /\ s.exposure.delta # "none"
        /\ s.exposure.wide => /\ s.exposure.delta = "external"
                              /\ s.exposure.profile = "ACC-08"
                              /\ s.minimum = DataDestructive
        /\ ~s.exposure.wide => s.exposure.profile # "ACC-08"

\* Mutant of the next definition: any mutation may ask for a fresh login.
ContractStepValidMutant(s) ==
    /\ TermsValid(s.terms)
    /\ s.effect = "mutation" => s.minimum # Read
    /\ s.stepUp \/ s.recovery => s.effect = "mutation"
    /\ s.effect = "mutation" /\ s.minimum = DataDestructive => s.recovery
    /\ validateExecutionExposureRequirement(s)
    /\ s.kinds # {} /\ s.permissions # {}

ContractStepValid(s) ==
    /\ TermsValid(s.terms)
    /\ s.effect = "mutation" => s.minimum # Read
    /\ s.stepUp \/ s.recovery => s.effect = "mutation" /\ s.minimum >= Destructive
    /\ s.effect = "mutation" /\ s.minimum = DataDestructive => s.recovery
    /\ validateExecutionExposureRequirement(s)
    /\ s.kinds # {} /\ s.permissions # {}

ContractExposures(c) == {s.exposure : s \in Range(c.steps)} \ {None}

\* What NewDefinition and NewExecutionContract let into the registry.
ContractValid(c) ==
    /\ c.steps # <<>>
    /\ \A i \in DOMAIN c.steps : ContractStepValid(c.steps[i])
    /\ Cardinality({s.id : s \in Range(c.steps)}) = Len(c.steps)
    /\ Cardinality(ContractExposures(c)) <= 1
    /\ c.point = None <=> c.trigger = None
    /\ c.point # None => \E s \in Range(c.steps) : s.id = c.point
    /\ (\E s \in Range(c.steps) : s.effect = "mutation" \/ s.terms.failure = "rollback")
         => c.boundary # "none"

----------------------------------------------------------------------------
(* The structure of a plan *)

stableKey(r) == <<r.kind, r.name>>
Targets(p) == UNION {s.targets : s \in Range(p.steps)}

validateResources(resources, project) ==
    Unique(resources, stableKey) /\ \A r \in resources : r.project = project

PlanWindowValid(p) ==
    /\ p.created < p.expires
    /\ p.cooling <= p.expires - p.created

validatePolicyHash(h) == h.match <=> (h.local # None /\ h.local = h.approved)

PlanStepUpValid(p) ==
    p.stepUp => p.class = "production" /\ p.approval >= Destructive

validateIntent(p) == p.intent # None => p.intent.start < p.intent.until

validateSteps(p) ==
    /\ p.steps # <<>>
    /\ Cardinality({s.id : s \in Range(p.steps)}) = Len(p.steps)
    /\ \A s \in Range(p.steps) :
           TermsValid(s.terms) /\ s.targets # {} /\ s.targets \subseteq p.resources
    /\ Targets(p) = p.resources
    /\ p.point # None => \E s \in Range(p.steps) : s.id = p.point
    /\ p.point = None <=> p.trigger = None

validatePermissions(p) ==
    /\ \A g \in p.permissions :
           /\ \E s \in Range(p.steps) : s.id = g.step /\ s.terms.identity = g.identity
           /\ g.resource \in p.resources
    /\ p.approval # Read =>
           /\ {s.id : s \in Range(p.steps)} \subseteq {g.step : g \in p.permissions}
           /\ p.resources \subseteq {g.resource : g \in p.permissions}

----------------------------------------------------------------------------
(* Recovery assets *)

\* Mutant of the next definition: another step of the plan may destroy the recovery asset.
RecoveryAssetValidMutant(p, a) ==
    /\ a.protects # {} /\ a.protects \subseteq p.resources
    /\ \A r \in a.protects : stableKey(r) # stableKey(a.resource)
    /\ a.verified <= p.created /\ p.created - a.verified <= p.expires - p.created
    /\ a.kind = "pbm-recovery-point" =>
           /\ a.resource.kind = "pbm-recovery-point" /\ a.restoreTo # None
           /\ p.created <= a.restoreTo /\ a.restoreTo <= p.expires
    /\ a.kind = "snapshot" =>
           /\ a.resource.kind = "snapshot" /\ a.restoreTo = None
           /\ p.created - a.verified <= SnapshotAge

RecoveryAssetValid(p, a) ==
    /\ \A r \in Targets(p) : stableKey(r) # stableKey(a.resource)
    /\ a.protects # {} /\ a.protects \subseteq p.resources
    /\ \A r \in a.protects : stableKey(r) # stableKey(a.resource)
    /\ a.verified <= p.created /\ p.created - a.verified <= p.expires - p.created
    /\ a.kind = "pbm-recovery-point" =>
           /\ a.resource.kind = "pbm-recovery-point" /\ a.restoreTo # None
           /\ p.created <= a.restoreTo /\ a.restoreTo <= p.expires
    /\ a.kind = "snapshot" =>
           /\ a.resource.kind = "snapshot" /\ a.restoreTo = None
           /\ p.created - a.verified <= SnapshotAge

validateRecoveryAssets(p) ==
    /\ p.approval = DataDestructive => p.assets # {}
    /\ \A a \in p.assets : RecoveryAssetValid(p, a)
    /\ validateResources({a.resource : a \in p.assets}, p.project)
    /\ Unique(p.assets, LAMBDA a : stableKey(a.resource))

----------------------------------------------------------------------------
(* Exposure *)

whollyWithinRFC1918(range) ==
    \E n \in PrivateNetworks : range.bits >= n.bits /\ PrefixContains(n, range.address)

validExposureSource(s) ==
    CASE s.kind = "cidr" -> Masked(s.range) /\ (s.range.bits >= NarrowBits \/ s.range = Everywhere)
      [] s.kind = "private-range" -> Masked(s.range) /\ whollyWithinRFC1918(s.range)
      [] s.kind = "iap" -> s.range = IAPSource
      [] s.kind \in {"tag", "service-account", "tunnel"} -> s.range = None

sourceAllowedForExposure(exposure, kind) ==
    CASE exposure = "private" -> kind \in {"private-range", "tag", "service-account"}
      [] exposure = "tunnel" -> kind \in {"iap", "tunnel"}
      [] exposure = "external" -> kind = "cidr"

validExposureAuthentication(exposure, authentication) ==
    CASE exposure = "tunnel" -> authentication = "iap"
      [] exposure = "external" -> authentication \in {"scram", "vpn", "overlay"}
      [] OTHER -> authentication # "iap"

validExposureTLS(exposure, trust) ==
    trust # "none" /\ (exposure = "external" => trust = "public")

validateExposureLifetime(p, c) ==
    LET hasExpiry == c.expires # None
        hasReview == c.review # None
    IN  /\ c.wide => /\ c.profile = "ACC-08" /\ p.approval = DataDestructive
                     /\ c.permanent => ~hasExpiry /\ ~hasReview
                     /\ ~c.permanent => hasExpiry /\ ~hasReview
        /\ ~c.wide => ~c.permanent /\ hasExpiry # hasReview
        /\ hasExpiry => c.expires > p.created
        /\ hasReview => c.review > p.created

validateExposureControls(p) ==
    LET c == p.controls
    IN  /\ p.exposure = "none" => c = None
        /\ p.exposure # "none" =>
               /\ p.approval >= SecuritySensitive /\ c # None
               /\ c.targets # {} /\ c.targets \subseteq p.resources
               /\ c.sources # {}
               /\ \A s \in c.sources :
                      validExposureSource(s) /\ sourceAllowedForExposure(p.exposure, s.kind)
               /\ validExposureAuthentication(p.exposure, c.authentication)
               /\ validExposureTLS(p.exposure, c.trust)
               /\ [id |-> c.simulation, ok |-> TRUE] \in p.preconditions
               /\ c.wide <=> [kind |-> "cidr", range |-> Everywhere] \in c.sources
               /\ c.wide \/ c.profile # "ACC-08"
               /\ validateExposureLifetime(p, c)

----------------------------------------------------------------------------
(* A plan that seals: validatePlanStructure *)
validatePlanStructure(p) ==
    /\ PlanWindowValid(p)
    /\ validatePolicyHash(p.policy)
    /\ PlanStepUpValid(p)
    /\ validateIntent(p)
    /\ validateResources(p.resources, p.project)
    /\ p.approval # Read => p.resources # {}
    /\ Unique(p.preconditions, LAMBDA c : c.id)
    /\ validateSteps(p)
    /\ validatePermissions(p)
    /\ validateExposureControls(p)
    /\ p.approval >= Protected => p.protection
    /\ validateRecoveryAssets(p)
=============================================================================
