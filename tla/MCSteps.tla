------------------------------- MODULE MCSteps ---------------------------------
(***************************************************************************)
(* The network steps, the bucket steps and the run of one of their gcloud  *)
(* commands: each behaviour explores one of the three, chosen in the       *)
(* initial state, while the others rest.                                   *)
(***************************************************************************)
EXTENDS NetworkSteps, BucketSteps, ProcessBoundary, TLC

VARIABLE part

stepsVars == <<part, networkVars, bucketVars, commandVars>>

MCRendered == <<"audit creator", "audit viewer", "control viewer">>
MCBucketOf(b) == IF b = "control viewer" THEN "control" ELSE "audit"
MCRequest(timeout, out) ==
    [timeout |-> timeout, limit |-> [s \in Streams |-> IF s = "stdout" THEN out ELSE 1]]
MCRequests == {MCRequest(1, 1), MCRequest(3, 1)}
MCAtRest == MCRequest(1, 1)

MCInit ==
    /\ part \in {"network", "bucket", "command"}
    /\ NetworkInit /\ BucketInit /\ CommandInit
    /\ part # "network" => intent = "subnet"
    /\ part # "bucket" => Live = {}
    /\ part # "command" => request = MCAtRest

\* Of two operations the first makes one call and the second up to MaxAttempts:
\* what an earlier operation left is there for an apply and a compensation.
CallsOfFirst == 1
NetworkPart ==
    /\ part = "network" /\ NetworkNext /\ (op = 1 => attempt' <= CallsOfFirst)
    /\ UNCHANGED <<part, bucketVars, commandVars>>
BucketPart == part = "bucket" /\ BucketNext /\ UNCHANGED <<part, networkVars, commandVars>>
CommandPart == part = "command" /\ CommandNext /\ UNCHANGED <<part, networkVars, bucketVars>>

MCNext == NetworkPart \/ BucketPart \/ CommandPart

MCSpec == MCInit /\ [][MCNext]_stepsVars

----------------------------------------------------------------------------
(* Properties of the network steps and the bucket steps together *)

\* What the steps report is true and whole: a report of no mutation means that
\* nothing was changed, and every grant a step made is reported as added.
ReportsHold == ReportsAreHonest /\ StorageReportsHonest /\ GrantsReported

\* What compensation may undo is the operation's own: no resource and no grant
\* that was there before is recorded as created or added.
UndoesOnlyOwn == RecordsAreOwn /\ PreexistingGrantsKept

\* What a successful step promised holds until others change it.
StepOutcomesHold == OutcomesHold /\ StorageOutcomesHold

\* The steps leave alone what others made: compensation deletes none of it, no
\* subnet takes a part of its ranges, and a foreign bucket is not configured.
OthersSpared ==
    CompensationSparesOthers /\ SubnetIsDisjoint /\ ForeignControlBucketKept
=============================================================================
