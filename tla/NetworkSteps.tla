----------------------------- MODULE NetworkSteps -----------------------------
(***************************************************************************)
(* The network steps T1-T4: apply, verify and compensate                   *)
(* (gcp/network_client.go, network_compensate.go, network_parse.go).       *)
(*                                                                         *)
(* A call works through the resources of its intent, one provider command  *)
(* at a time; every read and every command may fail, a command may also    *)
(* fail after it took effect, the process may crash between any two        *)
(* commands, and others change the same resources meanwhile.               *)
(*                                                                         *)
(* A resource is its incarnation, whether its observed state reduces to    *)
(* the desired one ("exact"), and who created it (history only: 0 is       *)
(* somebody else).  The NAT lives in its router: the router's fingerprint  *)
(* "print" changes with it and the NAT is gone when the router is.         *)
(***************************************************************************)
EXTENDS Clock, Sequences, SequencesExt, FiniteSets

CONSTANTS
    Intents,        \* the intents to explore
    Operations,     \* durable operations that run the step, one after another
    MaxAttempts,    \* the intent's retry bound, for each operation
    Validity,       \* how long a preflight is fresh
    MaxEvents       \* bound of crashes and of what others do

ASSUME NetworkAssumption ==
    /\ Intents \subseteq {"network", "subnet", "nat", "firewall"}
    /\ Operations \in Nat /\ MaxAttempts \in Nat /\ Validity \in Nat /\ MaxEvents \in Nat

VARIABLES
    intent,
    world,      \* external: the resources of the intent
    ranges,     \* external: the address ranges of other subnets
    born,       \* external: incarnations given out
    preflight,  \* the sealed observation the authorization is bound to
    op, attempt,
    call,       \* the call in progress
    records,    \* creation records the gateway keeps
    last,       \* what the last call returned
    moved,      \* what others changed since a call last looked at it (history)
    swapped,    \* what others changed between creation and record (history)
    events

networkVars == <<now, intent, world, ranges, born, preflight, op, attempt, call,
                 records, last, moved, swapped, events>>
providerVars == <<world, born>>
operatorVars == <<now, intent, ranges, preflight, op, attempt, swapped, events>>

networkIntentSteps ==
    [network |-> <<"network">>, subnet |-> <<"subnet">>,
     nat |-> <<"router", "nat">>, firewall |-> <<"iap", "internal">>]
plan == networkIntentSteps[intent]
Resources == ToSet(plan)

Gone == [id |-> 0, print |-> 0, exact |-> FALSE, by |-> 0]
present(r) == world[r] # Gone

NoIncarnation == <<0, 0>>
incarnation(r) ==
    IF r = "nat" THEN <<world["router"].id, world["router"].print>> ELSE <<world[r].id, 0>>

NoCall == [mode |-> "none", pc |-> "idle", stage |-> "before", todo |-> {}, from |-> 0,
           created |-> {}, chosen |-> {}, mutated |-> FALSE, inc |-> NoIncarnation,
           effect |-> FALSE, sawNAT |-> FALSE]
NoResult == [mode |-> "none", ok |-> FALSE, mutation |-> "unknown", effect |-> FALSE,
             targets |-> {}]

\* A call goes through the plan in order, a compensation in the reverse order:
\* dependents first, the NAT before its router.
position(c) == IF c.mode = "compensate" THEN Max(c.todo) ELSE Min(c.todo)
resource == plan[position(call)]

NetworkInit ==
    /\ ClockInit /\ intent \in Intents
    /\ world = [r \in Resources |-> Gone] /\ ranges = {} /\ born = 0
    /\ preflight = [at |-> 0, until |-> 0, ranges |-> {}]
    /\ op = 1 /\ attempt = 0
    /\ call = NoCall /\ records = {} /\ last = NoResult
    /\ moved = {} /\ swapped = {} /\ events = 0

----------------------------------------------------------------------------
(* Checks that need no provider command *)

freshAt(t) == preflight.at <= t /\ t < preflight.until

validateNetworkAuthorization == call.from <= now /\ freshAt(now)

\* All ranges a preflight shows; the desired subnet itself is tolerated.
allRanges ==
    ranges \cup IF "subnet" \in Resources /\ present("subnet") /\ world["subnet"].exact
                   THEN {"desired"} ELSE {}
rejectSubnetOverlap(seen) == "overlapping" \in seen

rangesUnchanged(current, sealed) == current = sealed

\* Records of this operation, one per resource, each with an incarnation.
admitCompensation(chosen) ==
    /\ \A rec \in chosen : rec.op = op /\ rec.incarnation # NoIncarnation
    /\ \A r1, r2 \in chosen : r1.resource = r2.resource => r1 = r2

\* The positions in the plan of the resources that were recorded.
compensable(chosen) == {i \in DOMAIN plan : \E rec \in chosen : rec.resource = plan[i]}

----------------------------------------------------------------------------
(* How a call goes on and how it ends *)

escalatedMutant(c, mutation) == mutation
\* A failure after an earlier change of the same call is one that mutated.
escalated(c, mutation) ==
    IF mutation = "not-occurred" /\ (c.created # {} \/ c.mutated)
       THEN "occurred" ELSE mutation

Finish(c, ok, mutation) ==
    /\ last' = [mode |-> c.mode, ok |-> ok, mutation |-> escalated(c, mutation),
                effect |-> c.effect, targets |-> {rec.resource : rec \in c.chosen}]
    /\ records' = records \cup c.created
    /\ call' = NoCall

Goto(c) == call' = c /\ UNCHANGED <<records, last>>

Advance(c) ==
    IF c.todo = {position(c)} THEN Finish(c, TRUE, "not-occurred")
    ELSE Goto([c EXCEPT !.todo = @ \ {position(c)}, !.pc = "observe", !.stage = "before",
                        !.sawNAT = FALSE])

creationRecord(inc) ==
    [op |-> op, attempt |-> attempt, resource |-> resource, incarnation |-> inc]

\* A read failed or showed something else than the desired state.
ObserveFailed(inc) ==
    IF call.stage = "before" THEN Finish(call, FALSE, "not-occurred")
    ELSE IF call.mode = "apply"
       THEN Finish([call EXCEPT !.created = @ \cup {creationRecord(inc)}], FALSE, "occurred")
       ELSE Finish(call, FALSE, "occurred")

ObservedAbsent ==
    \/ /\ call.mode = "compensate"
       /\ Advance([call EXCEPT !.mutated = @ \/ call.stage = "after"])
    \/ /\ call.mode = "verify" \/ (call.mode = "apply" /\ call.stage = "after")
       /\ ObserveFailed(NoIncarnation)
    \/ /\ call.mode = "apply" /\ call.stage = "before"
       /\ Goto([call EXCEPT !.pc = IF resource = "subnet" THEN "ranges" ELSE "create"])

newlyCreatedMutant(c) == TRUE
newlyCreated(c) == c.stage = "after"

recorded == CHOOSE rec \in call.chosen : rec.resource = resource
sameIncarnationMutant(inc) == TRUE
sameIncarnation(inc) == recorded.incarnation = inc

\* The resource is there, exactly as desired, in incarnation inc.
ObservedPresent(inc) ==
    IF call.mode # "compensate"
       THEN Advance(IF call.mode = "apply" /\ newlyCreated(call)
                       THEN [call EXCEPT !.created = @ \cup {creationRecord(inc)}] ELSE call)
    ELSE IF call.stage = "after" \/ ~sameIncarnation(inc) THEN ObserveFailed(inc)
    ELSE Goto([call EXCEPT !.pc = IF resource = "router" THEN "nats" ELSE "delete"])

----------------------------------------------------------------------------
(* The provider reads of a call *)

reading == call.pc \in {"observe", "owner", "status", "ranges", "nats", "again"}

ReadFails ==
    /\ reading
    /\ ObserveFailed(IF call.pc = "status" THEN call.inc ELSE NoIncarnation)
    /\ UNCHANGED <<operatorVars, providerVars, moved>>

exactState(r) == world[r].exact

\* The exact-name read.  A router is its desired self with and without the
\* desired NAT; the NATs of a router that does not exist cannot be listed.
Observe ==
    /\ call.pc = "observe"
    /\ resource = "nat" => present("router")
    /\ moved' = moved \ {resource}
    /\ \/ ~present(resource) /\ ObservedAbsent
       \/ /\ present(resource) /\ ~exactState(resource)
          /\ ObserveFailed(NoIncarnation)
       \/ /\ present(resource) /\ exactState(resource)
          /\ IF resource = "nat" THEN Goto([call EXCEPT !.pc = "owner"])
                                 ELSE ObservedPresent(incarnation(resource))
    /\ UNCHANGED <<operatorVars, providerVars>>

\* The NAT's incarnation is its router's id and fingerprint, read separately.
ObserveOwner ==
    /\ call.pc = "owner" /\ present("router")
    /\ moved' = IF call.mode = "compensate" THEN moved \ {"nat"} ELSE moved
    /\ IF call.mode = "compensate"
          THEN ObservedPresent(incarnation("nat"))
          ELSE Goto([call EXCEPT !.pc = "status", !.inc = incarnation("nat")])
    /\ UNCHANGED <<operatorVars, providerVars>>

ObserveStatus ==
    /\ call.pc = "status" /\ present("nat")
    /\ ObservedPresent(call.inc)
    /\ UNCHANGED <<operatorVars, providerVars, moved>>

requireCurrentSubnetRanges ==
    /\ call.pc = "ranges"
    /\ moved' = moved \ {"ranges"}
    /\ IF /\ rangesUnchanged(allRanges, preflight.ranges)
          /\ ~rejectSubnetOverlap(preflight.ranges) /\ freshAt(now)
          THEN Goto([call EXCEPT !.pc = "create"])
          ELSE Finish(call, FALSE, "not-occurred")
    /\ UNCHANGED <<operatorVars, providerVars>>

requireNoNAT ==
    /\ call.pc = "nats" /\ present("router")
    /\ moved' = moved \ {"nat"}
    /\ IF present("nat") THEN Finish(call, FALSE, "not-occurred")
                         ELSE Goto([call EXCEPT !.pc = "again"])
    /\ UNCHANGED <<operatorVars, providerVars>>

\* The router once more, as the last evidence before its delete.
ObserveAgain ==
    /\ call.pc = "again"
    /\ moved' = moved \ {"router"}
    /\ IF present("router") /\ exactState("router") /\ sameIncarnation(incarnation("router"))
          THEN Goto([call EXCEPT !.pc = "delete", !.sawNAT = present("nat")])
          ELSE Finish(call, FALSE, "not-occurred")
    /\ UNCHANGED <<operatorVars, providerVars>>

----------------------------------------------------------------------------
(* The provider commands of a call *)

\* A NAT is part of its router's state and does not outlive it.
put(r, thing) ==
    LET w == [world EXCEPT ![r] = thing]
    IN  CASE r = "nat" -> [w EXCEPT !["router"].print = @ + 1]
          [] r = "router" /\ thing = Gone -> [w EXCEPT !["nat"] = Gone]
          [] OTHER -> w

AuthorizationLapses ==
    /\ call.pc \in {"create", "delete"} /\ ~validateNetworkAuthorization
    /\ Finish(call, FALSE, "not-occurred")
    /\ UNCHANGED <<operatorVars, providerVars, moved>>

creatable == /\ call.pc = "create" /\ validateNetworkAuthorization
             /\ ~present(resource) /\ (resource = "nat" => present("router"))
create ==
    /\ world' = put(resource, [id |-> born + 1, print |-> 0, exact |-> TRUE, by |-> op])
    /\ born' = born + 1
deletable == call.pc = "delete" /\ validateNetworkAuthorization /\ present(resource)
delete == world' = put(resource, Gone) /\ UNCHANGED born

CreateResource ==
    /\ creatable /\ create
    /\ Goto([call EXCEPT !.pc = "observe", !.stage = "after", !.effect = TRUE])
    /\ UNCHANGED <<operatorVars, moved>>

DeleteResource ==
    /\ deletable /\ delete
    /\ Goto([call EXCEPT !.pc = "observe", !.stage = "after", !.effect = TRUE])
    /\ UNCHANGED <<operatorVars, moved>>

\* The command fails, after it took effect or without.
CommandFails ==
    /\ call.pc \in {"create", "delete"} /\ validateNetworkAuthorization
    /\ \/ /\ (creatable /\ create) \/ (deletable /\ delete)
          /\ Finish([call EXCEPT !.effect = TRUE], FALSE, "unknown")
       \/ Finish(call, FALSE, "unknown") /\ UNCHANGED providerVars
    /\ UNCHANGED <<operatorVars, moved>>

----------------------------------------------------------------------------
(* The gateway: external *)

TakePreflight ==
    /\ call = NoCall
    /\ preflight' = [at |-> now, until |-> now + Validity, ranges |-> allRanges]
    /\ UNCHANGED <<now, intent, ranges, op, attempt, swapped, events, providerVars, moved,
                   call, records, last>>

\* Admission of a call, before any command runs.
StartCall(mode, chosen) ==
    /\ call = NoCall /\ attempt < MaxAttempts /\ freshAt(now)
    /\ mode = "apply" /\ "subnet" \in Resources => ~rejectSubnetOverlap(preflight.ranges)
    /\ mode = "compensate" => chosen # {} /\ admitCompensation(chosen)
    /\ attempt' = attempt + 1
    /\ call' = [NoCall EXCEPT !.mode = mode, !.pc = "observe", !.from = now, !.chosen = chosen,
                    !.todo = IF mode = "compensate" THEN compensable(chosen)
                                                  ELSE DOMAIN plan]
    /\ last' = NoResult
    /\ UNCHANGED <<now, intent, ranges, preflight, op, swapped, events, providerVars, moved,
                   records>>

NextOperation ==
    /\ call = NoCall /\ op < Operations
    /\ op' = op + 1 /\ attempt' = 0
    /\ UNCHANGED <<now, intent, ranges, preflight, swapped, events, providerVars, moved, call,
                   records, last>>

\* What the call had created but not yet returned is known to nobody.
NetworkCrash ==
    /\ call # NoCall /\ events < MaxEvents /\ events' = events + 1
    /\ call' = NoCall
    /\ UNCHANGED <<now, intent, ranges, preflight, op, attempt, swapped, providerVars, moved,
                   records, last>>

----------------------------------------------------------------------------
(* Others: external *)

Touch(things) ==
    /\ events < MaxEvents /\ events' = events + 1
    /\ moved' = moved \cup things
    /\ swapped' = IF call.mode = "apply" /\ call.stage = "after" /\ resource \in things
                     THEN swapped \cup {resource} ELSE swapped
    /\ UNCHANGED <<now, intent, preflight, op, attempt, call, records, last>>

\* Somebody creates a resource of that name, or deletes and recreates it.
OthersCreate(r, exact) ==
    /\ r = "nat" => present("router")
    /\ world' = [put(r, Gone) EXCEPT ![r] =
                     [id |-> born + 1, print |-> 0, exact |-> exact, by |-> 0]]
    /\ born' = born + 1 /\ UNCHANGED ranges
    /\ Touch(IF r = "router" THEN {"router", "nat"} ELSE {r})

OthersModify(r) ==
    /\ present(r)
    /\ world' = put(r, [world[r] EXCEPT !.exact = ~@, !.print = @ + 1])
    /\ UNCHANGED <<born, ranges>>
    /\ Touch({r})

OthersDelete(r) ==
    /\ present(r)
    /\ world' = put(r, Gone)
    /\ UNCHANGED <<born, ranges>>
    /\ Touch(IF r = "router" THEN {"router", "nat"} ELSE {r})

OthersAddRange(range) ==
    /\ range \notin ranges /\ ranges' = ranges \cup {range}
    /\ UNCHANGED providerVars
    /\ Touch({"ranges"})

NetworkTick ==
    /\ Tick
    /\ UNCHANGED <<intent, ranges, preflight, op, attempt, swapped, events, providerVars, moved,
                   call, records, last>>

NetworkNext ==
    \/ NetworkTick \/ TakePreflight \/ NextOperation \/ NetworkCrash
    \/ \E mode \in {"apply", "verify"} : StartCall(mode, {})
    \/ \E chosen \in SUBSET records : StartCall("compensate", chosen)
    \/ ReadFails
    \/ Observe \/ ObserveOwner \/ ObserveStatus
    \/ requireCurrentSubnetRanges \/ requireNoNAT \/ ObserveAgain
    \/ AuthorizationLapses \/ CreateResource \/ DeleteResource \/ CommandFails
    \/ \E r \in Resources :
           \/ \E exact \in BOOLEAN : OthersCreate(r, exact)
           \/ OthersModify(r) \/ OthersDelete(r)
    \/ \E range \in {"overlapping", "disjoint"} : OthersAddRange(range)

NetworkSpec == NetworkInit /\ [][NetworkNext]_networkVars

----------------------------------------------------------------------------
(* Properties *)

Incarnations == Nat \X Nat
CreationRecords == [op : Nat, attempt : Nat, resource : Resources, incarnation : Incarnations]

\* A call that reports no mutation has changed nothing: not with an earlier
\* resource of the same step, not with a command whose answer was lost.
ReportsAreHonest ==
    last # NoResult /\ last.mutation = "not-occurred" => ~last.effect

\* Compensation deletes only what this very operation created.  The two
\* windows no check can close are excepted: others replaced the resource after
\* the last look, or before the incarnation was recorded.
CompensationSparesOthers ==
    [][\A r \in Resources :
          present(r) /\ world[r].by # op /\ world'[r] = Gone /\ events' = events =>
              r \in moved \cup swapped]_networkVars

\* A record whose incarnation is the live one names a resource that the
\* recorded operation created: what was already present is never recorded.
RecordsAreOwn ==
    \A rec \in records :
        present(rec.resource) /\ rec.incarnation = incarnation(rec.resource) =>
            world[rec.resource].by = rec.op \/ rec.resource \in swapped

\* What a successful call promises holds until others change it: an applied or
\* verified step is there as desired, a compensated resource is gone.
OutcomesHold ==
    last.ok =>
        IF last.mode = "compensate"
           THEN \A r \in last.targets : ~present(r) \/ r \in moved
           ELSE \A r \in Resources : (present(r) /\ world[r].exact) \/ r \in moved

\* A subnet is never created over a range that was there when the provider's
\* ranges were last listed.
SubnetIsDisjoint ==
    [][\A r \in Resources \cap {"subnet"} :
          ~present(r) /\ world'[r] # Gone /\ events' = events =>
              "overlapping" \notin ranges \/ "ranges" \in moved]_networkVars

\* The router's last observation before its delete shows no NAT: "a router
\* delete would also remove a NAT this operation did not record"
\* (gcp/network_compensate.go).  The re-observation accepts a router that
\* carries the desired NAT.
RouterEvidenceComplete ==
    call.pc = "delete" /\ resource = "router" => ~call.sawNAT
=============================================================================
