----------------------------- MODULE MCPlanning -----------------------------
(* The execution gate, the handoff of the bootstrap plan and the retries of *)
(* a step for TLC, as the three parts of one run: a few contracts, the plan *)
(* that follows each, plans flawed in one way, and projects that are fit or *)
(* unfit for a bootstrap.                                                   *)
EXTENDS ExecutionGate, PlanHandoff, RetrySchedule, TLC
VARIABLE part
handoffState == <<preflight, proof, request, approvalProof, envelope, loaded,
                  session, sent>>
gateState == <<plan, drifted, faults, approval, intent, look, login, authorised, intact>>

(* Contracts *)
MCTerms == [identity |-> "operator", retry |-> Once, cancelSafe |-> TRUE, timeout |-> 1,
            failure |-> "pause"]
MCStep(id, effect, minimum) ==
    [id |-> id, terms |-> MCTerms, effect |-> effect, minimum |-> minimum, kinds |-> {"node"},
     permissions |-> {"act", "see"}, stepUp |-> FALSE, recovery |-> FALSE, exposure |-> None]
MCContract(name, steps) ==
    [workflow |-> name, boundary |-> "checkpoint", point |-> None, trigger |-> None, steps |-> steps]
Opening(delta, profile, wide) ==
    [delta |-> delta, profile |-> profile, wide |-> wide, simulation |-> "simulated"]
Wiping(minimum) == [MCStep("s1", "mutation", minimum) EXCEPT !.stepUp = TRUE, !.recovery = minimum > Protected]
Exposing(minimum, opening) ==
    [MCStep("s1", "mutation", minimum) EXCEPT !.exposure = opening, !.recovery = minimum = DataDestructive]
MCContractOf(base) ==
    CASE base = "diagnose" -> MCContract(base, <<MCStep("s1", "read", Read)>>)
      [] base \in {"configure", "nightly"} -> MCContract(base, <<MCStep("s1", "mutation", Protected)>>)
      [] base = "wipe" -> MCContract(base,
                              <<Wiping(DataDestructive),
                                [MCStep("s2", "mutation", Protected) EXCEPT !.kinds = {"node", "snapshot"}]>>)
      [] base = "careless" -> MCContract(base, <<Wiping(Protected)>>)
      [] base = "expose" -> MCContract(base, <<Exposing(SecuritySensitive, Opening("external", "ACC-05", FALSE))>>)
      [] base = "private" -> MCContract(base, <<Exposing(SecuritySensitive, Opening("private", "ACC-02", FALSE))>>)
      [] base = "open" -> MCContract(base, <<Exposing(DataDestructive, Opening("external", "ACC-08", TRUE))>>)
      [] base = "bootstrap" -> bootstrapContract(Definitions)

(* The plan that follows a contract *)
MCResource(name) == [kind |-> "node", name |-> name, project |-> "p", print |-> "seen"]
MCSnapshot == [MCResource("backup") EXCEPT !.kind = "snapshot"]
MCAsset == [kind |-> "snapshot", resource |-> MCSnapshot, protects |-> {MCResource("s1")},
            verified |-> 1, restoreTo |-> None]
MCControls(opening, sources) ==
    [profile |-> opening.profile, authentication |-> "scram", targets |-> {MCResource("s1")},
     sources |-> sources, trust |-> "public", simulation |-> "simulated", wide |-> opening.wide,
     permanent |-> opening.wide, expires |-> IF opening.delta = "external" /\ ~opening.wide THEN 4 ELSE None,
     review |-> IF opening.delta = "private" THEN 3 ELSE None]
MCSources(opening) ==
    CASE opening.delta = "private" -> {[kind |-> "private-range", range |-> [address |-> 10, bits |-> 3]]}
      [] opening.wide -> {[kind |-> "cidr", range |-> Everywhere]}
      [] OTHER -> {[kind |-> "cidr", range |-> [address |-> 4, bits |-> 3]]}
MCFollow(base) ==
    LET c == MCContractOf(base)
        opening == c.steps[1].exposure
        minimum == Max({s.minimum : s \in Range(c.steps)})
    IN  [id |-> base, workflow |-> base, project |-> "p", class |-> "production", principal |-> "operator",
         created |-> 2, expires |-> 5, cooling |-> IF minimum = Read THEN 0 ELSE 1,
         intent |-> IF base = "nightly" THEN [start |-> 2, until |-> 3] ELSE None,
         policy |-> [local |-> "policy", approved |-> "policy", match |-> TRUE],
         stepUp |-> c.steps[1].stepUp, approval |-> minimum,
         resources |-> {MCResource(s.id) : s \in Range(c.steps)},
         preconditions |-> {[id |-> "simulated", ok |-> TRUE]},
         steps |-> [i \in DOMAIN c.steps |-> [id |-> c.steps[i].id, terms |-> c.steps[i].terms,
                                             targets |-> {MCResource(c.steps[i].id)}]],
         permissions |-> UNION {{[step |-> s.id, identity |-> "operator", permission |-> perm,
                                  resource |-> MCResource(s.id), granted |-> TRUE] :
                                    perm \in s.permissions} : s \in Range(c.steps)},
         point |-> None, trigger |-> None,
         exposure |-> IF opening = None THEN "none" ELSE opening.delta,
         controls |-> IF opening = None THEN None ELSE MCControls(opening, MCSources(opening)),
         protection |-> TRUE, boundary |-> "checkpoint",
         assets |-> IF c.steps[1].recovery THEN {MCAsset} ELSE {}]

(* The bootstrap plan, compiled in an empty project *)
MCPrice == [machine |-> "m1", zone |-> "z1", cpus |-> 2, memory |-> 4, instances |-> 1, lifetime |-> 1,
            estimate |-> 1, date |-> 1, observed |-> 1, until |-> 3]
MCBootstrap ==
    buildPlanValues("bootstrap", "operator", 2, 2 + Config.validity,
                    [local |-> "policy", approved |-> "policy", match |-> TRUE],
                    buildRunLimits(MCPrice), Definitions)

(* Plans with one flaw *)
MCFlaws == {
    <<"configure", "denied">>, <<"configure", "failed">>, <<"configure", "lower">>, <<"configure", "unlisted">>,
    <<"wipe", "uncovered">>, <<"wipe", "self">>, <<"wipe", "stale">>, <<"wipe", "no-login">>,
    <<"expose", "wide">>, <<"expose", "broad">>, <<"expose", "eternal">>, <<"expose", "endless">>,
    <<"private", "outside">>, <<"open", "cheap">>}
MCFlawed(p, flaw) ==
    CASE flaw = "none" -> p
      [] flaw = "denied" -> [p EXCEPT !.permissions = {[g EXCEPT !.granted = FALSE] : g \in @}]
      [] flaw = "failed" -> [p EXCEPT !.preconditions = {[id |-> "simulated", ok |-> FALSE]}]
      [] flaw = "lower" -> [p EXCEPT !.approval = 1]
      [] flaw = "unlisted" -> [p EXCEPT !.permissions = {g \in @ : g.permission = "act"}]
      [] flaw = "uncovered" -> [p EXCEPT !.assets = {[MCAsset EXCEPT !.protects = {MCResource("s2")}]}]
      [] flaw = "self" -> [p EXCEPT !.resources = (@ \ {MCResource("s2")}) \cup {MCSnapshot},
                                    !.steps[2].targets = {MCSnapshot},
                                    !.permissions = {IF g.step = "s2" THEN [g EXCEPT !.resource = MCSnapshot]
                                                     ELSE g : g \in @}]
      [] flaw = "stale" -> [p EXCEPT !.assets = {[MCAsset EXCEPT !.verified = 0]}]
      [] flaw = "no-login" -> [p EXCEPT !.stepUp = FALSE]
      [] flaw = "wide" -> [p EXCEPT !.controls.sources = {[kind |-> "cidr", range |-> Everywhere]}]
      [] flaw = "broad" -> [p EXCEPT !.controls.sources = {[kind |-> "cidr", range |-> [address |-> 4, bits |-> 2]]}]
      [] flaw = "eternal" -> [p EXCEPT !.controls.permanent = TRUE, !.controls.expires = None]
      [] flaw = "endless" -> [p EXCEPT !.controls.expires = None]
      [] flaw = "outside" -> [p EXCEPT !.controls.sources =
                                 {[kind |-> "private-range", range |-> [address |-> 8, bits |-> 1]]}]
      [] flaw = "cheap" -> [p EXCEPT !.approval = SecuritySensitive]
MCDerived == {"diagnose", "configure", "nightly", "wipe", "careless", "expose", "private", "open", "bootstrap"}
                 \X {"none"}
MCPlans == MCDerived \cup MCFlaws
MCPlanOf == [n \in MCPlans |-> IF n[1] = "bootstrap" THEN MCBootstrap ELSE MCFlawed(MCFollow(n[1]), n[2])]
MCContracts == [n \in MCPlans |-> MCContractOf(n[1])]
MCFaults == [n \in MCPlans |-> CASE n \in MCFlaws \/ n[1] \in {"careless", "bootstrap"} -> 0
                                [] n[1] \in {"expose", "private", "open"} -> 1
                                [] OTHER -> 2]
MCStranger == <<"configure", "none">>
MCPrivateNetworks == {[address |-> 8, bits |-> 2]}
MCIAPSource == [address |-> 12, bits |-> 3]

(* Projects and prices *)
MCConfig == [project |-> "p", region |-> "r1", zone |-> "z1", cidr |-> [address |-> 8, bits |-> 3],
             validity |-> 2, machine |-> "m1", instances |-> 1, lifetime |-> 1, cost |-> 2]
MCFound(id, kind, location, parent) ==
    [id |-> id, kind |-> kind, location |-> location, parent |-> parent, project |-> "p"]
MCRule(protocol, ports, disabled) ==
    [disabled |-> disabled, direction |-> "ingress", sources |-> {Everywhere},
     allowed |-> {[protocol |-> protocol, ports |-> ports]}]
MCOthers == {MCFound("test-nat", "nat", "r1", "other-router"), MCFound("test-subnet", "subnetwork", "r2", "n")}
MCRules == {MCRule("tcp", {<<22, 22>>}, FALSE), MCRule("6", {}, TRUE)}
\* Holds nothing of the bootstrap's, only what may be there beside it.
MCEmpty == [exhaustive |-> TRUE, project |-> "p", account |-> "operator", region |-> "r1", zone |-> "z1",
            regions |-> {[name |-> "r1", up |-> TRUE]}, zones |-> {[name |-> "z1", region |-> "r1", up |-> TRUE]},
            machines |-> {[name |-> "m1", zone |-> "z1", cpus |-> 2, memory |-> 4, deprecated |-> FALSE]},
            ranges |-> {[address |-> 0, bits |-> 2]}, resources |-> MCOthers, apis |-> {"compute", "storage"},
            firewalls |-> MCRules]
MCHolds(id, kind, location, parent) ==
    [MCEmpty EXCEPT !.resources = @ \cup {MCFound(id, kind, location, parent)}]
MCAdmits(rule) == [MCEmpty EXCEPT !.firewalls = @ \cup {rule}]
MCInventories == {
    MCEmpty,
    MCHolds("control-bucket", "bucket", "r2", None), MCHolds("test-nat", "nat", "r1", "test-router"),
    MCHolds("test-network", "network", "global", None),
    [MCEmpty EXCEPT !.ranges = {[address |-> 8, bits |-> 1]}],
    [MCEmpty EXCEPT !.ranges = {[address |-> 9, bits |-> 4]}],
    MCAdmits(MCRule("tcp", {<<27000, 27100>>}, FALSE)), MCAdmits(MCRule("6", {}, FALSE)),
    [MCEmpty EXCEPT !.apis = {"compute"}], [MCEmpty EXCEPT !.zones = {[name |-> "z1", region |-> "r1", up |-> FALSE]}],
    [MCEmpty EXCEPT !.exhaustive = FALSE]}
MCPrices == {MCPrice, [MCPrice EXCEPT !.estimate = 3]}
MCRequiredAPIs == {"compute", "storage"}

MCPolicies == {Retry(1, 0, 0), Retry(3, 2, 10), Retry(5, 2, 20), Retry(10, 1, 60), Retry(4, 3, 5),
               Retry(2, 7, 7), Retry(4, 1, 61), Retry(11, 1, 2), Retry(3, 0, 2)}

(* The sum of the three parts *)
GateIdle ==
    /\ plan = MCStranger /\ drifted = {} /\ faults = 1 /\ approval = None /\ intent = None
    /\ look = None /\ login = None /\ authorised = None /\ intact = {}
HandoffIdle ==
    /\ preflight = None /\ proof = None /\ request = None
    /\ approvalProof = None /\ envelope = None /\ loaded = None /\ session = None /\ sent = None
RetryIdle ==
    /\ policy = Once /\ idempotent = TRUE /\ attempt = 1 /\ delays = <<>> /\ mutations = 0 /\ stopped = TRUE
MCInit ==
    \/ part = "gate" /\ GateInit /\ HandoffIdle /\ RetryIdle
    \/ part = "handoff" /\ HandoffInit /\ GateIdle /\ RetryIdle
    \/ part = "retry" /\ ClockInit /\ RetryInit /\ GateIdle /\ HandoffIdle
\* Sessions are opened under documents that are as compiled or moved in time.
FewSessions == session # None => loaded.document.edit \in {"none", "times"}
MCNext ==
    \/ part = "gate" /\ GateNext /\ UNCHANGED <<part, handoffState, retryVars>>
    \/ part = "handoff" /\ HandoffNext /\ FewSessions' /\ UNCHANGED <<part, gateState, retryVars>>
    \/ part = "retry" /\ RetryNext /\ UNCHANGED <<part, now, gateState, handoffState>>
MCSpec == MCInit /\ [][MCNext]_<<part, now, gateState, handoffState, retryVars>>
=============================================================================
