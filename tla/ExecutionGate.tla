---------------------------- MODULE ExecutionGate ---------------------------
(***************************************************************************)
(* The gate in front of every executor (policy/permission.go): a sealed    *)
(* plan, the contract of its workflow, and the evidence read about it.     *)
(* The gate itself is a function.  Around it, the approval store, the      *)
(* scheduler, the login service and the provider act in any order: records *)
(* are created at server times, intents are withdrawn, and what the plan   *)
(* was reviewed against drifts and comes back.  A record names a plan      *)
(* where the code holds the plan's hash.                                   *)
(***************************************************************************)
EXTENDS PlanPolicy, Clock

CONSTANTS
    Plans,                  \* names of the plans that are handed to the gate
    Stranger,               \* the plan that other records may be about
    PlanOf,                 \* name -> the plan
    ContractOf,             \* name -> the registered contract of its workflow
    Freshness,              \* executionEvidenceFreshness
    LoginFreshness,         \* stepUpFreshness
    Day,                    \* ticks of a calendar day (utcDateAfter)
    MaxFaults               \* name -> how much may go wrong around that plan

IsList(steps) == steps \in Seq(Range(steps))

SourceKinds == {"cidr", "private-range", "tag", "service-account", "iap", "tunnel"}
IsRecord(r) == r = [field \in DOMAIN r |-> r[field]]
ControlsTyped(c) ==
    /\ c.wide \in BOOLEAN /\ c.permanent \in BOOLEAN
    /\ c.expires # None => c.expires \in Nat
    /\ c.review # None => c.review \in Nat
    /\ c.sources \subseteq [kind : SourceKinds, range : AddressPrefixes \cup {None}]

\* What every plan has, whatever it proposes: times, a fingerprint for each
\* resource, an answer for each permission and precondition, a list of steps.
PlanTyped(p) ==
    /\ p.created \in Nat /\ p.expires \in Nat /\ p.cooling \in Nat
    /\ p.approval \in ApprovalClasses
    /\ \A a \in p.assets : a.verified \in Nat
    /\ p.controls # None => ControlsTyped(p.controls)
    /\ p.intent # None => p.intent.start \in Nat /\ p.intent.until \in Nat
    /\ \A r \in p.resources : "print" \in DOMAIN r /\ r["print"] # None
    /\ \A g \in p.permissions : IsRecord(g) /\ "granted" \in DOMAIN g /\ g.granted \in BOOLEAN
    /\ \A c \in p.preconditions : IsRecord(c) /\ "ok" \in DOMAIN c /\ c.ok \in BOOLEAN
    /\ "approved" \in DOMAIN p.policy
    /\ IsList(p.steps)

ASSUME GateAssumption ==
    /\ Freshness \in Nat /\ {LoginFreshness, Day} \subseteq Nat \ {0}
    /\ \A n \in Plans : /\ PlanTyped(PlanOf[n]) /\ IsList(ContractOf[n].steps)
                        /\ \A s \in Range(ContractOf[n].steps) : s.minimum \in ApprovalClasses
                        /\ MaxFaults[n] \in Nat
                        /\ n # Stranger => PlanOf[n] # PlanOf[Stranger]
    /\ \A n \in Plans \cup {Stranger}, t \in 1..MaxTime :
           [plan |-> PlanOf[n], created |-> t] # None
    /\ \A n \in Plans :
           /\ [window |-> PlanOf[n].intent, active |-> TRUE, sole |-> TRUE] # None
           /\ \A t \in PlanOf[n].created..PlanOf[n].expires :
                  None \notin {[plan |-> n, created |-> t], [plan |-> PlanOf[n], created |-> t]}

VARIABLES
    plan,                   \* the plan that is to run
    drifted,                \* what now differs from what was reviewed
    faults,                 \* how much has gone wrong so far: the bound's counter
    approval,               \* None or the create-only approval record
    intent,                 \* None or the scheduler's view of the intent
    look,                   \* None or the last revalidation
    login,                  \* None or the last fresh-login record
    authorised,             \* None or the time the gate let the plan through
    intact                  \* history: the times at which nothing had drifted

gateVars == <<now, plan, drifted, faults, approval, intent, look, login, authorised, intact>>

Facts == {"resource", "permission", "precondition", "policy", "asset", "unread"}

----------------------------------------------------------------------------
(* The checks of ValidatePlanForExecution, each the set of what it blocks  *)

Block(kind, holds) == IF holds THEN {kind} ELSE {}

TimeBlockers(p, e) ==
    Block("plan-time", \/ e.look.at > e.checked \/ e.look.at < p.created
                       \/ e.checked - e.look.at > Freshness
                       \/ e.checked < p.created)

\* planStepMatchesContract, the allowed target kinds and the recovery proof.
StepMatches(p, s, c) ==
    /\ s.id = c.id /\ s.terms = c.terms
    /\ \A t \in s.targets : t.kind \in c.kinds
    /\ c.recovery => \A t \in s.targets : \E a \in p.assets : t \in a.protects

minimumApproval(c) == Max({s.minimum : s \in Range(c.steps)})
mutationCapable(c) == \E s \in Range(c.steps) : s.effect = "mutation"
requiresStepUp(c) == \E s \in Range(c.steps) : s.stepUp
requiresRecovery(c) == \E s \in Range(c.steps) : s.recovery

SameShape(p, c) ==
    /\ p.workflow = c.workflow /\ Len(p.steps) = Len(c.steps)
    /\ p.boundary = c.boundary /\ p.point = c.point /\ p.trigger = c.trigger

requiredPermissions(p, c) ==
    UNION {{<<p.steps[i].id, p.steps[i].terms.identity, perm, t>> :
               perm \in c.steps[i].permissions, t \in p.steps[i].targets} : i \in DOMAIN p.steps}
permissionKey(g) == <<g.step, g.identity, g.permission, g.resource>>

planMatchesExposureRequirement(p, c) ==
    IF ContractExposures(c) = {} THEN p.exposure = "none" /\ p.controls = None
    ELSE LET r == CHOOSE r \in ContractExposures(c) : TRUE
             exposed == UNION {p.steps[i].targets :
                                  i \in {j \in DOMAIN p.steps : c.steps[j].exposure # None}}
         IN  /\ p.exposure = r.delta /\ p.controls # None
             /\ p.controls.profile = r.profile /\ p.controls.wide = r.wide
             /\ p.controls.simulation = r.simulation
             /\ p.controls.targets = exposed

validateExecutionContract(p, c) ==
    IF ~SameShape(p, c) THEN {"execution-contract"}
    ELSE Block("execution-contract",
               \/ ~planMatchesExposureRequirement(p, c)
               \/ \E i \in DOMAIN p.steps : ~StepMatches(p, p.steps[i], c.steps[i])
               \/ p.approval < minimumApproval(c)
               \/ mutationCapable(c) /\ p.approval = Read)
         \cup Block("recovery-asset", requiresRecovery(c) /\ p.assets = {})
         \cup Block("permission", Image(p.permissions, permissionKey) # requiredPermissions(p, c))

validateExposureExecutionTime(p, checked) ==
    LET c == p.controls
    IN  Block("exposure", /\ c # None /\ ~c.permanent
                          /\ \/ c.expires # None /\ c.expires <= checked
                             \/ c.review # None /\ checked \div Day > c.review \div Day)

\* Mutant of the next definition: what was looked at before the cooling-off ended counts.
validateApprovalEvidenceMutant(p, e) ==
    IF e.approval = None THEN {"approval"}
    ELSE LET ready == e.approval.created + p.cooling
         IN  Block("approval", \/ e.approval.plan # p \/ e.approval.created < p.created
                               \/ e.approval.created > e.checked
                               \/ p.intent # None /\ e.approval.created < p.intent.start)
             \cup Block("cooling-off", e.checked < ready)

validateApprovalEvidence(p, e) ==
    IF e.approval = None THEN {"approval"}
    ELSE LET ready == e.approval.created + p.cooling
         IN  Block("approval", \/ e.approval.plan # p \/ e.approval.created < p.created
                               \/ e.approval.created > e.checked
                               \/ p.intent # None /\ e.approval.created < p.intent.start)
             \cup Block("cooling-off", e.checked < ready \/ e.look.at < ready)

\* Mutant of the next definition: only the look must fall before the end of the window.
validateIntentEvidenceMutant(p, e) ==
    IF p.intent = None \/ e.intent = None
    THEN Block("intent", p.intent # e.intent)
    ELSE Block("intent",
               \/ e.intent.window # p.intent \/ ~e.intent.active \/ ~e.intent.sole
               \/ e.checked < p.intent.start
               \/ e.look.at < p.intent.start \/ e.look.at > p.intent.until)

validateIntentEvidence(p, e) ==
    IF p.intent = None \/ e.intent = None
    THEN Block("intent", p.intent # e.intent)
    ELSE Block("intent",
               \/ e.intent.window # p.intent \/ ~e.intent.active \/ ~e.intent.sole
               \/ e.checked < p.intent.start \/ e.checked > p.intent.until
               \/ e.look.at < p.intent.start \/ e.look.at > p.intent.until)

validatePolicyEvidence(p, e) == Block("policy", ~p.policy.match \/ e.look.policy # p.policy)
validatePreconditionEvidence(p, e) ==
    Block("precondition", e.look.preconditions # p.preconditions
                          \/ \E c \in p.preconditions : ~c.ok)
validateResourceEvidence(p, e) == Block("resource", e.look.resources # p.resources)
validateRecoveryEvidence(p, e) == Block("recovery-asset", e.look.assets # p.assets)
validateGrantEvidence(p, e) ==
    Block("permission", e.look.permissions # p.permissions \/ \E g \in p.permissions : ~g.granted)

validateStepUpEvidence(p, e) ==
    IF ~p.stepUp \/ e.login = None
    THEN Block("step-up", p.stepUp # (e.login # None))
    ELSE Block("step-up",
               \/ e.login.plan # p
               \/ e.login.created < e.look.at \/ e.login.created > e.checked
               \/ e.checked - e.login.created >= LoginFreshness
               \/ e.approval = None \/ e.login.created < e.approval.created + p.cooling)

\* A plan that needs no approval must not come with one.
approvalBlockers(p, e, c) ==
    IF minimumApproval(c) # Read \/ mutationCapable(c) \/ p.approval # Read \/ p.intent # None
       \/ ~SameShape(p, c)
    THEN validateApprovalEvidence(p, e)
    ELSE Block("approval", e.approval # None)

wantStepUp(p, c) == p.class = "production" /\ (requiresStepUp(c) \/ ~SameShape(p, c))

ExecutionBlockers(p, e, c) ==
    TimeBlockers(p, e) \cup Block("plan-binding", e.look.plan # p)
    \cup validateExecutionContract(p, c) \cup validateExposureExecutionTime(p, e.checked)
    \cup approvalBlockers(p, e, c) \cup validateIntentEvidence(p, e)
    \cup validatePolicyEvidence(p, e) \cup validatePreconditionEvidence(p, e)
    \cup validateResourceEvidence(p, e) \cup validateRecoveryEvidence(p, e)
    \cup validateGrantEvidence(p, e)
    \cup Block("step-up", p.stepUp # wantStepUp(p, c)) \cup validateStepUpEvidence(p, e)

\* The plan must also seal, and not have expired (ValidatePlan, ValidatePlanAt).
ValidatePlanForExecution(p, e, c) ==
    /\ e.checked < p.expires
    /\ validatePlanStructure(p)
    /\ ExecutionBlockers(p, e, c) = {}

----------------------------------------------------------------------------
(* What a revalidation reads: the facts of the plan, except what drifted   *)

changed(x, field, value) == [x EXCEPT ![field] = value]

\* PermissionChecks: every permission the plan lists, granted or not.
PermissionChecks(p, facts) ==
    {changed(g, "granted", g.granted /\ "permission" \notin facts) : g \in p.permissions}

readResources(p, facts) ==
    IF "resource" \in facts THEN {changed(r, "print", None) : r \in p.resources}
    ELSE IF "unread" \in facts THEN p.resources \ {CHOOSE r \in p.resources : TRUE}
    ELSE p.resources

Reading(p, facts, at) ==
    [plan |-> p, at |-> at,
     resources |-> readResources(p, facts),
     preconditions |-> {changed(c, "ok", c.ok /\ "precondition" \notin facts) : c \in p.preconditions},
     permissions |-> PermissionChecks(p, facts),
     policy |-> IF "policy" \in facts THEN changed(p.policy, "approved", None) ELSE p.policy,
     assets |-> IF "asset" \in facts THEN {} ELSE p.assets]

\* A drift only counts where the plan has something that can drift.
touches(p, f) ==
    CASE f = "permission" -> p.permissions # {}
      [] f = "precondition" -> p.preconditions # {}
      [] f = "asset" -> p.assets # {}
      [] OTHER -> p.resources # {}

----------------------------------------------------------------------------
(* The actors *)

thePlan == PlanOf[plan]
theContract == ContractOf[plan]

\* A stored record, with the plan its hash stands for.
Held(record) ==
    IF record = None THEN None ELSE [plan |-> PlanOf[record.plan], created |-> record.created]

Evidence(l, a, g, i, t) ==
    [checked |-> t, look |-> Reading(thePlan, l.facts, l.at), approval |-> Held(a),
     login |-> Held(g), intent |-> i]

\* The scheduler's view of a live intent.
LiveIntent ==
    IF thePlan.intent = None THEN None
    ELSE [window |-> thePlan.intent, active |-> TRUE, sole |-> TRUE]

GateInit ==
    /\ ClockInit
    /\ plan \in Plans /\ ContractValid(theContract)
    /\ drifted = {} /\ faults = 0
    /\ approval = None /\ look = None /\ login = None /\ authorised = None
    /\ intent = LiveIntent
    /\ intact = {now}

\* Something the plan was reviewed against faults, or faults back.
Drift(f) ==
    /\ authorised = None /\ faults < MaxFaults[plan] /\ touches(thePlan, f)
    /\ drifted' = (drifted \ {f}) \cup ({f} \ drifted)
    /\ faults' = faults + 1
    /\ intact' = IF drifted' = {} THEN intact \cup {now} ELSE intact
    /\ UNCHANGED <<now, plan, approval, intent, look, login, authorised>>

\* A record about another plan is one of the things that go wrong.
Strange(other) ==
    IF other = plan THEN UNCHANGED faults
    ELSE faults < MaxFaults[plan] /\ faults' = faults + 1

\* The storage service creates the approval record, once, at its own time;
\* it may be the record of another plan.
CreateApproval(other) ==
    /\ authorised = None /\ approval = None
    /\ approval' = [plan |-> other, created |-> now]
    /\ Strange(other)
    /\ UNCHANGED <<now, plan, drifted, intent, look, login, authorised, intact>>

\* The scheduler withdraws the intent, or holds a second active one.
Reschedule(field) ==
    /\ authorised = None /\ intent # None /\ faults < MaxFaults[plan]
    /\ intent' = changed(intent, field, FALSE)
    /\ faults' = faults + 1
    /\ UNCHANGED <<now, plan, drifted, approval, look, login, authorised, intact>>

Revalidate ==
    /\ authorised = None
    /\ look' = [at |-> now, facts |-> drifted]
    /\ UNCHANGED <<now, plan, drifted, faults, approval, intent, login, authorised, intact>>

LogIn(other) ==
    /\ authorised = None
    /\ login' = [plan |-> other, created |-> now]
    /\ Strange(other)
    /\ UNCHANGED <<now, plan, drifted, approval, intent, look, authorised, intact>>

\* The executor assembles the evidence and asks the gate.
Check ==
    /\ authorised = None /\ look # None
    /\ ValidatePlanForExecution(thePlan, Evidence(look, approval, login, intent, now), theContract)
    /\ authorised' = now
    /\ UNCHANGED <<now, plan, drifted, faults, approval, intent, look, login, intact>>

GateTick ==
    /\ authorised = None
    /\ Tick
    /\ intact' = IF drifted = {} THEN intact \cup {now'} ELSE intact
    /\ UNCHANGED <<plan, drifted, faults, approval, intent, look, login, authorised>>

GateNext ==
    \/ \E f \in Facts : Drift(f)
    \/ \E other \in {plan, Stranger} : CreateApproval(other) \/ LogIn(other)
    \/ \E field \in {"active", "sole"} : Reschedule(field)
    \/ Revalidate \/ Check \/ GateTick

GateSpec == GateInit /\ [][GateNext]_gateVars

----------------------------------------------------------------------------
(* Properties *)

\* The gate's state is well formed: one look, at most one record of a kind,
\* none of them from the future.
GateTypeOK ==
    /\ plan \in Plans /\ drifted \subseteq Facts /\ faults \in 0..MaxFaults[plan]
    /\ intact \subseteq 1..now
    /\ look # None => look.at <= now /\ look.facts \subseteq Facts
    /\ \A r \in {approval, login} \ {None} : r.plan \in {plan, Stranger} /\ r.created <= now
    /\ authorised # None => authorised = now

\* When an approval counts from: the cooling-off runs after it was created.
readyAt == IF approval = None THEN thePlan.created ELSE approval.created + thePlan.cooling

\* A plan runs only if, at one moment after its cooling-off and not long ago,
\* nothing it was reviewed against was different, every precondition held and
\* every permission its contract asks for was granted; without an approval it
\* cannot mutate.  The look, the approval and the check come in any order.
AuthorizedOnIntactWorld ==
    authorised # None =>
        /\ \E m \in intact : readyAt <= m /\ m <= authorised /\ authorised - m <= Freshness
        /\ \A c \in thePlan.preconditions : c.ok
        /\ \A i \in DOMAIN theContract.steps :
               /\ \A perm \in theContract.steps[i].permissions, t \in thePlan.steps[i].targets :
                      \E g \in thePlan.permissions :
                          /\ g.step = thePlan.steps[i].id /\ g.permission = perm
                          /\ g.resource = t /\ g.granted
               /\ theContract.steps[i].effect = "mutation" => approval # None
        /\ approval # None => approval.plan = plan

\* A step that must be recoverable destroys nothing whose recovery asset is
\* missing, seen to be gone, or itself among the things some step of the plan
\* touches; a snapshot is never older than its age at planning and the plan.
DestructionIsProtected ==
    authorised # None =>
        \A i \in DOMAIN theContract.steps :
            theContract.steps[i].recovery =>
                /\ thePlan.approval >= theContract.steps[i].minimum
                /\ \A t \in thePlan.steps[i].targets : \E a \in thePlan.assets :
                       /\ t \in a.protects
                       /\ \A s \in Range(thePlan.steps) : a.resource \notin s.targets
                       /\ a.kind = "snapshot" =>
                              authorised < a.verified + SnapshotAge + (thePlan.expires - thePlan.created)
                       /\ "asset" \notin look.facts

\* In production a step that asks for a fresh login runs only after somebody
\* logged in for this very plan when its cooling-off was over, with the world
\* seen intact between the two, whatever the plan says about its login.
ProductionLogin ==
    authorised # None /\ thePlan.class = "production"
            /\ (\E s \in Range(theContract.steps) : s.stepUp) =>
        /\ login # None /\ login.plan = plan
        /\ authorised < login.created + LoginFreshness
        /\ \E m \in intact : readyAt <= m /\ m <= login.created

\* A scheduled plan is approved, cooled off, looked at and let through inside
\* its one window, and never on a withdrawn or ambiguous intent.
ScheduledRunInOneWindow ==
    authorised # None /\ thePlan.intent # None =>
        /\ {approval.created, look.at, authorised}
               \subseteq thePlan.intent.start..thePlan.intent.until
        /\ approval.created + thePlan.cooling \in thePlan.intent.start..look.at
        /\ intent.active /\ intent.sole

Addresses == 0..(TwoTo[AddressWidth] - 1)
Covered(range) == {a \in Addresses : a \div PrefixSize(range) = range.address \div PrefixSize(range)}

\* What a plan opens is what its contract declares, and is bounded: private
\* means private addresses, one external source is narrow, and the whole
\* internet takes a data-destructive approval; what is not permanent has an
\* end that has not passed.
ExposureIsBounded ==
    authorised # None /\ thePlan.exposure # "none" =>
        LET c == thePlan.controls
            declared == {i \in DOMAIN theContract.steps : theContract.steps[i].exposure # None}
            reach(s) == IF s.range = None THEN {} ELSE Covered(s.range)
        IN  /\ c.targets = UNION {thePlan.steps[i].targets : i \in declared}
            /\ \A s \in c.sources :
                   /\ thePlan.exposure = "private" =>
                          reach(s) \subseteq UNION {Covered(n) : n \in PrivateNetworks}
                   /\ thePlan.exposure = "tunnel" => reach(s) \subseteq Covered(IAPSource)
                   /\ \/ Cardinality(reach(s)) <= TwoTo[AddressWidth - NarrowBits]
                      \/ thePlan.exposure # "external"
                      \/ thePlan.approval = DataDestructive
                         /\ \E i \in declared : theContract.steps[i].exposure.wide
            /\ \/ c.permanent /\ c.wide
               \/ c.expires # None /\ authorised < c.expires
               \/ c.review # None /\ authorised \div Day <= c.review \div Day

\* What the gate lets through destroys nothing it could not restore, and opens
\* no more than was declared, nor for longer.
PlansAreSafe == DestructionIsProtected /\ ExposureIsBounded

\* What a plan takes from its contract, and the author cannot choose.
TakesFromContract(p, c) ==
    /\ SameShape(p, c)
    /\ \A i \in DOMAIN c.steps :
           /\ p.steps[i].id = c.steps[i].id /\ p.steps[i].terms = c.steps[i].terms
           /\ p.steps[i].targets # {}
           /\ \A t \in p.steps[i].targets : t.kind \in c.steps[i].kinds
    /\ p.approval = minimumApproval(c) /\ p.stepUp = wantStepUp(p, c)
    /\ Image(p.permissions, permissionKey) = requiredPermissions(p, c)
    /\ planMatchesExposureRequirement(p, c)

\* What the author does choose is well formed, each choice by itself.
ChosenWell(p, c) ==
    /\ p.resources = Targets(p) /\ validateResources(p.resources, p.project)
    /\ validatePolicyHash(p.policy) /\ p.policy.match /\ p.protection
    /\ Unique(p.preconditions, LAMBDA x : x.id)
    /\ \A x \in p.preconditions : x.ok
    /\ \A g \in p.permissions : g.granted
    /\ validateRecoveryAssets(p)
    /\ \A i \in DOMAIN c.steps : c.steps[i].recovery =>
           \A t \in p.steps[i].targets : \E a \in p.assets : t \in a.protects
    /\ p.controls # None =>
           LET o == p.controls
           IN  /\ o.sources # {}
               /\ \A s \in o.sources :
                      validExposureSource(s) /\ sourceAllowedForExposure(p.exposure, s.kind)
               /\ validExposureAuthentication(p.exposure, o.authentication)
               /\ validExposureTLS(p.exposure, o.trust)
               /\ [id |-> o.simulation, ok |-> TRUE] \in p.preconditions
               /\ o.wide <=> [kind |-> "cidr", range |-> Everywhere] \in o.sources
               /\ IF o.wide THEN o.review = None /\ (o.permanent <=> o.expires = None)
                  ELSE ~o.permanent /\ (o.expires = None <=> o.review # None)

\* Approved as soon as it may be, it cools off before any of its times has run out.
earliest(p) == IF p.intent # None /\ p.intent.start > p.created THEN p.intent.start ELSE p.created
HasTime(p) ==
    LET ready == earliest(p) + p.cooling
        o == p.controls
    IN  /\ ready < p.expires
        /\ p.intent # None => p.intent.start < p.intent.until /\ ready <= p.intent.until
        /\ o # None => /\ o.expires # None => ready < o.expires
                       /\ o.review # None => /\ p.created < o.review
                                             /\ ready \div Day <= o.review \div Day

FollowsToTheLetter(p, c) == TakesFromContract(p, c) /\ ChosenWell(p, c) /\ HasTime(p)

\* Whatever contract the registry accepts, the plan that follows it to the
\* letter can run: an approval, a look, a login and a check at some times pass
\* every rule of the plan, the contract and the gate together.
DerivedPlansCanRun ==
    faults = 0 /\ now = 1 /\ {approval, look, login} = {None}
            /\ FollowsToTheLetter(thePlan, theContract) =>
        \E at \in [{"approval", "look", "login", "check"} -> thePlan.created..thePlan.expires],
          a, g \in BOOLEAN :
            /\ at["look"] <= at["check"]
            /\ ValidatePlanForExecution(thePlan,
                   Evidence([at |-> at["look"], facts |-> {}],
                            IF a THEN [plan |-> plan, created |-> at["approval"]] ELSE None,
                            IF g THEN [plan |-> plan, created |-> at["login"]] ELSE None,
                            LiveIntent, at["check"]),
                   theContract)
=============================================================================
