----------------------------- MODULE PlanHandoff ----------------------------
(***************************************************************************)
(* From a look at an empty project to an authorised storage call: the      *)
(* preflight is read, permissions are proved, the plan is compiled,        *)
(* approved, sealed into an envelope, kept on disk and read back           *)
(* (control/envelope.go), and a step opens a storage session under it      *)
(* (gcp/storage_client.go).  Time passes between any two of these, the     *)
(* caller chooses the times it passes in, and a stored document may be     *)
(* edited and every hash in it recomputed: nothing is signed.              *)
(***************************************************************************)
EXTENDS BootstrapPlan, Clock

CONSTANTS
    Inventories,            \* what the project may hold when it is looked at
    Prices,                 \* the price evidence a caller can hold
    ProofLife,              \* lifetime of the permission evidence
    Skew,                   \* storageClockSkew
    OpenedSteps             \* the storage steps whose sessions are opened

StorageSteps == {"k1-audit-bootstrap", "k1-retention-lock", "k2-control-bucket",
                 "k3-bucket-iam", "k4-seed-control", "k5-lock-round-trip"}

\* What every look at a project lists, whatever it holds.
InventoryTyped(found) ==
    /\ {"project", "resources", "ranges", "firewalls"} \subseteq DOMAIN found
    /\ found.ranges \subseteq AddressPrefixes
    /\ \A f \in found.firewalls : \A a \in f.allowed : a.ports \subseteq Nat \X Nat

ASSUME EnvelopeAssumption ==
    /\ None \notin Inventories /\ \A found \in Inventories : InventoryTyped(found)
    /\ Skew \in Nat /\ OpenedSteps \subseteq StorageSteps

VARIABLES
    preflight,              \* None or the preflight observation
    proof,                  \* None or the permission evidence
    request,                \* None or the request whose compiled plan is held
    approvalProof,          \* None or the approval and the request it is of
    envelope,               \* None or the envelope stored on disk
    loaded,                 \* None or the envelope read back and accepted
    session,                \* None or the storage session of a step
    sent                    \* history: None or the last mutating call

handoffVars == <<now, preflight, proof, request, approvalProof, envelope,
                 loaded, session, sent>>

Times == 1..MaxTime

----------------------------------------------------------------------------
(* Documents.  An edit changes one part of a compiled document and then    *)
(* recomputes every hash in it.                                            *)

Edits == {"times", "validity", "revision", "permissions", "limits", "rebuilt limits",
          "intents"}

\* The evidence document behind a proof that misses the grants of one step.
Granted(e) ==
    [account |-> e.account, observed |-> e.observed, until |-> e.until,
     grants |-> {g \in expectedPermissionGrants(Definitions) : g.step # e.withheld}]
Full(q) == [q EXCEPT !.evidence = Granted(@)]

\* The hashes inside a payload: the binding's of the plan and of the permission
\* evidence, and the intents' of the binding.
Rehashed(x) ==
    LET binding == [x.binding EXCEPT !.plan = x.plan, !.permissions = x.evidence]
    IN  [x EXCEPT !.binding = binding,
                  !.intents = [i \in DOMAIN @ |-> [@[i] EXCEPT !.binding = binding]]]

\* A run that may cost one more, with the plan derived again from it or not.
Costlier(x) == [x.limits EXCEPT !.cost = @ + 1]
Rebuilt(x) ==
    buildPlanValues(x.plan.id, x.plan.principal, x.plan.created, x.plan.expires, x.plan.policy,
                    Costlier(x), stepRegistry(x.resources))

Payload(document) ==
    LET x == CompiledPayload(Full(document.request))
        edited ==
          CASE document.edit = "times" -> [x EXCEPT !.plan.created = @ + 1, !.plan.expires = @ + 1]
            [] document.edit = "validity" ->
                   [x EXCEPT !.desired.validity = @ + 1, !.plan.expires = @ + 1]
            [] document.edit = "revision" -> [x EXCEPT !.binding.revision = None]
            [] document.edit = "permissions" ->
                   [x EXCEPT !.plan.permissions = {g \in @ : g.step # "k1-retention-lock"}]
            [] document.edit = "limits" -> [x EXCEPT !.limits = Costlier(x)]
            [] document.edit = "rebuilt limits" ->
                   [x EXCEPT !.limits = Costlier(x), !.plan = Rebuilt(x)]
            [] document.edit = "intents" -> [x EXCEPT !.intents[2].retry = Retry(9, 1, 1)]
    IN  IF document.edit = "none" THEN x ELSE Rehashed(edited)

Compiled(q) == [request |-> q, edit |-> "none"]

----------------------------------------------------------------------------
(* Approval and envelope: plan is the plan of the document *)

\* Mutant of the next definition: the approval is not compared with the document.
validateApprovalProofMutant(a, document, plan) ==
    /\ a.by = plan.principal
    /\ a.at < a.until
    /\ plan.created <= a.at /\ a.until <= plan.expires

validateApprovalProof(a, document, plan) ==
    /\ a.document = document
    /\ a.by = plan.principal
    /\ a.at < a.until
    /\ plan.created <= a.at /\ a.until <= plan.expires

EnvelopeValid(v, plan) ==
    /\ validateApprovalProof(v.approval, v.document, plan)
    /\ plan.created <= v.sealed /\ v.sealed < plan.expires
    /\ v.approval.at <= v.sealed /\ v.sealed < v.approval.until
    /\ plan.created <= v.entry /\ v.entry <= v.sealed

\* ParseBootstrapEnvelope parses the embedded plan, then validates the whole.
ParseBootstrapEnvelope(v) ==
    LET x == Payload(v.document) IN validateCompiledPayload(x) /\ EnvelopeValid(v, x.plan)

validAt(v, t) ==
    LET plan == Payload(v.document).plan
    IN  /\ v.approval.at <= t /\ t < v.approval.until
        /\ plan.created <= t /\ t < plan.expires

----------------------------------------------------------------------------
(* The storage session of a step *)

mutatingOperations(step) ==
    CASE step = "k1-audit-bootstrap" -> {"create audit", "versioning", "lifecycle", "upload"}
      [] step = "k1-retention-lock" -> {"retention", "lock-retention"}
      [] step = "k2-control-bucket" -> {"create control", "versioning"}
      [] step = "k3-bucket-iam" -> {"add-binding", "remove-binding"}
      [] step = "k4-seed-control" -> {"upload"}
      [] step = "k5-lock-round-trip" -> {"upload-cas"}

IntentsOf(v) == {i \in Range(Payload(v.document).intents) : i.step \in OpenedSteps}

validateStorageAuthorization(a, i) ==
    /\ a.binding = i.binding /\ a.step = i.step
    /\ a.attempt \in 1..i.retry.attempts
    /\ a.observed <= a.now /\ a.now < a.until

\* The trusted clock decides, and a retained session ends with the skew.
fresh(a) ==
    /\ a.observed <= now /\ now < a.until
    /\ a.now <= now + Skew /\ now <= a.now + Skew

----------------------------------------------------------------------------
HandoffInit ==
    /\ ClockInit
    /\ preflight = None /\ proof = None /\ request = None /\ approvalProof = None
    /\ envelope = None /\ loaded = None /\ session = None /\ sent = None

\* What was found, and when.  The revision covers what was seen and not when.
Observation(found, at, until) ==
    [field \in DOMAIN found \cup {"observed", "until", "revision"} |->
        CASE field = "observed" -> at [] field = "until" -> until
          [] field = "revision" -> found [] OTHER -> found[field]]

\* The project is looked at.
Preflight(found, life) ==
    /\ preflight = None
    /\ LET o == Observation(found, now, now + life) IN PreflightValid(o) /\ preflight' = o
    /\ UNCHANGED <<now, proof, request, approvalProof, envelope, loaded, session, sent>>

ProvePermissions(withheld) ==
    /\ proof = None
    /\ proof' = [account |-> "operator", observed |-> now, until |-> now + ProofLife,
                 withheld |-> withheld]
    /\ UNCHANGED <<now, preflight, request, approvalProof, envelope, loaded,
                   session, sent>>

\* The compiler reads no clock: the caller names the creation time.
Compile(created, price, approved) ==
    /\ envelope = None /\ preflight # None /\ proof # None
    /\ LET q == [id |-> "plan", created |-> created, price |-> price, preflight |-> preflight,
                 evidence |-> proof, policy |-> [local |-> "policy", approved |-> approved, match |-> TRUE]]
       IN  /\ CompileAdmits(Full(q))
           /\ validateCompiledPayload(Payload(Compiled(q)))
           /\ request' = q
    /\ UNCHANGED <<now, preflight, proof, approvalProof, envelope, loaded,
                   session, sent>>

Approve ==
    /\ request # None /\ approvalProof = None
    /\ LET plan == Payload(Compiled(request)).plan
       IN  \E by \in {"operator", "other"}, at, until \in Times :
               LET a == [document |-> Compiled(request), by |-> by, at |-> at, until |-> until]
               IN  validateApprovalProof(a, Compiled(request), plan) /\ approvalProof' = a
    /\ UNCHANGED <<now, preflight, proof, request, envelope, loaded, session, sent>>

SealBootstrapEnvelope ==
    /\ request # None /\ approvalProof # None /\ envelope = None
    /\ LET plan == Payload(Compiled(request)).plan
       IN  \E sealed, entry \in Times :
               LET v == [document |-> Compiled(request), approval |-> approvalProof,
                         sealed |-> sealed, entry |-> entry]
               IN  EnvelopeValid(v, plan) /\ envelope' = v
    /\ UNCHANGED <<now, preflight, proof, request, approvalProof, loaded, session, sent>>

\* The stored plan document is edited, with its hashes, and the approval
\* rewritten to be one of the edited document, or left as it was made.
Edit(e, reapproved) ==
    /\ envelope # None /\ loaded = None /\ envelope.document.edit = "none"
    /\ envelope' = [envelope EXCEPT !.document.edit = e,
                                    !.approval.document.edit = IF reapproved THEN e ELSE @]
    /\ UNCHANGED <<now, preflight, proof, request, approvalProof, loaded, session, sent>>

Load ==
    /\ envelope # None /\ loaded = None
    /\ ParseBootstrapEnvelope(envelope)
    /\ loaded' = envelope
    /\ UNCHANGED <<now, preflight, proof, request, approvalProof, envelope, session, sent>>

\* The gateway's caller opens the session of a step.
Authorize ==
    /\ loaded # None /\ session = None
    /\ \E i \in IntentsOf(loaded), attempt \in 1..(MaxStepAttempts + 1), claimed, observed \in Times,
          until \in 2..(MaxTime + 1) :
           LET a == [binding |-> i.binding, step |-> i.step, attempt |-> attempt, now |-> claimed,
                     observed |-> observed, until |-> until]
           IN  /\ fresh(a)
               /\ validateStorageAuthorization(a, i)
               /\ session' = [step |-> i.step, now |-> claimed, observed |-> observed,
                              until |-> until, begun |-> None]
    /\ UNCHANGED <<now, preflight, proof, request, approvalProof, envelope, loaded, sent>>

\* The executor starts the step: the envelope's own windows, once.
Begin ==
    /\ session # None /\ session.begun = None
    /\ validAt(loaded, now)
    /\ session' = [session EXCEPT !.begun = now]
    /\ UNCHANGED <<now, preflight, proof, request, approvalProof, envelope, loaded, sent>>

\* run: every mutating call asks the clock again.
Mutate(operation) ==
    /\ session # None /\ session.begun # None
    /\ operation \in mutatingOperations(session.step)
    /\ fresh(session)
    /\ sent' = [operation |-> operation, at |-> now]
    /\ UNCHANGED <<now, preflight, proof, request, approvalProof, envelope, loaded,
                   session>>

HandoffTick ==
    /\ Tick
    /\ UNCHANGED <<preflight, proof, request, approvalProof, envelope, loaded,
                   session, sent>>

HandoffNext ==
    \/ Load \/ HandoffTick
    \/ \E found \in Inventories, life \in 1..(MaxEvidenceLifetime + 1) : Preflight(found, life)
    \/ \E withheld \in {None, "k1-retention-lock"} : ProvePermissions(withheld)
    \/ \E created \in Times, price \in Prices, approved \in {"policy", "other"} :
           Compile(created, price, approved)
    \/ \E e \in Edits, reapproved \in BOOLEAN : Edit(e, reapproved)
    \/ Approve \/ SealBootstrapEnvelope \/ Authorize \/ Begin
    \/ \E step \in OpenedSteps : \E operation \in mutatingOperations(step) : Mutate(operation)

HandoffSpec == HandoffInit /\ [][HandoffNext]_handoffVars

----------------------------------------------------------------------------
(* Properties *)

\* Two ranges share an address, seen as sets of addresses.
SharesAddress(p, q) ==
    \E a \in 0..(TwoTo[AddressWidth] - 1) :
        /\ a \div PrefixSize(p) = p.address \div PrefixSize(p)
        /\ a \div PrefixSize(q) = q.address \div PrefixSize(q)

\* A compiled plan starts from a project in which, at one look not long before
\* the time the caller says the plan was created, nothing it would create was
\* there: no bucket of its buckets' names anywhere, no resource of its
\* identities, no address of its network, and no database port open to the
\* internet, whether the rule names TCP, gives its number or allows all.
PlansStartFromEmptyProject ==
    request # None =>
        LET o == request.preflight
        IN  /\ request.created - o.observed \in 0..(MaxEvidenceLifetime - 1)
            /\ \A r \in o.resources, d \in buildDesiredResources(Config.region) :
                   /\ ProviderID(r) # ProviderID(d)
                   /\ r.kind = "bucket" /\ d.kind = "bucket" => r.id # d.id
            /\ \A p \in o.ranges : ~SharesAddress(p, Config.cidr)
            /\ ~\E f \in o.firewalls : \E a \in f.allowed :
                   /\ ~f.disabled /\ f.direction = "ingress" /\ Everywhere \in f.sources
                   /\ a.protocol \in {"tcp", "6", "all"}
                   /\ a.ports = {} \/ \E p \in a.ports : 27017 \in p[1]..p[2]

\* What a document makes the executor do, whatever binding it is done under,
\* and the permissions it says the steps have.
Work(x) == [i \in DOMAIN x.intents |-> [x.intents[i] EXCEPT !.binding = None]]
Rights(x) == {<<g.step, g.permission>> : g \in x.plan.permissions}

\* An envelope that is read back with the approval as it was made holds the
\* plan as it was compiled and approved, by the account the project was seen
\* with, and was sealed while the approval and the plan were both open: not a
\* plan compiled again after the approval, nor one edited on disk, however
\* consistently its hashes were recomputed.
ApprovedDocumentRuns ==
    loaded # None /\ loaded.approval = approvalProof =>
        LET created == loaded.document.request.created
        IN  /\ loaded.document.edit = "none"
            /\ loaded.document = approvalProof.document
            /\ loaded.approval.by = loaded.document.request.preflight.account
            /\ created <= loaded.approval.at /\ loaded.approval.at <= loaded.sealed
            /\ loaded.sealed < loaded.approval.until
            /\ loaded.approval.until <= created + Config.validity

KeepsTheWork(document) ==
    LET x == Payload(document)
        compiled == CompiledPayload(Full(document.request))
    IN  /\ Work(x) = Work(compiled) /\ Rights(x) = Rights(compiled)
        /\ x.plan = compiled.plan => x.limits = compiled.limits

\* Even with the approval rewritten to fit an edited document, what is read
\* back has the steps of the compiled plan, their order, resources, retries and
\* permissions, and limits that differ only where the plan itself differs.  It
\* is read back once, so it is looked at before a session is opened under it.
EditsKeepTheWork == loaded # None /\ session = None => KeepsTheWork(loaded.document)

\* A storage call that changes something is sent while the observation of its
\* session is open, by a step that began inside the approval, and no later
\* after that than twice the clock skew, however long the session is kept.
MutationInsideWindows ==
    sent # None =>
        /\ session.observed <= sent.at /\ sent.at < session.until
        /\ session.begun \in loaded.approval.at..(loaded.approval.until - 1)
        /\ sent.at < session.begun + 2 * Skew + 1
        /\ sent.operation \in {"retention", "lock-retention"} => session.step = "k1-retention-lock"

\* What reaches the storage API under an approval as it was made is what was
\* approved, what reaches it under any other is the work of a compiled plan,
\* and it is sent in time, however long a session is kept.
SentAsApproved == ApprovedDocumentRuns /\ EditsKeepTheWork /\ MutationInsideWindows
=============================================================================
