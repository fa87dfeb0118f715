---------------------------- MODULE RetrySchedule ---------------------------
(***************************************************************************)
(* The attempts of one step under its retry policy (workflow/retry.go).    *)
(* An attempt that fails may have mutated something; what the executor     *)
(* reports of that is the truth, or that it does not know.  Seconds are    *)
(* int64 in the code: a policy that is Valid doubles a pause of at most an *)
(* hour nine times, so plain integers are exact.                           *)
(***************************************************************************)
EXTENDS PlanPolicy, Integers

CONSTANT Policies           \* the retry policies a step may be given

ASSUME PoliciesAssumption == Policies \subseteq [attempts : Int, initial : Int, max : Int]

VARIABLES
    policy,                 \* the retry policy of the step
    idempotent,             \* whether the step may be repeated after a mutation
    attempt,                \* the attempt that runs, counted from one
    delays,                 \* the pauses before the attempts after the first
    mutations,              \* history: how many attempts mutated
    stopped                 \* the step was given up

retryVars == <<policy, idempotent, attempt, delays, mutations, stopped>>

FailureClasses == {"transient", "timeout", "validation", "permission", "stale-fingerprint"}

nextDelay(p, delay) == IF delay >= p.max \div 2 THEN p.max ELSE delay * 2

\* The loop of DecideRetry: one doubling per attempt already made.
backoffSeconds(p, made) ==
    LET after[n \in 1..made] == IF n = 1 THEN p.initial ELSE nextDelay(p, after[n - 1])
    IN  after[made]

\* Mutant of the next definition: what is not known to have mutated is retried.
mayRetryMutant(p, repeatable, made, failure, reported) ==
    /\ RetryPolicyValid(p)
    /\ failure \notin {"validation", "permission", "stale-fingerprint"}
    /\ repeatable \/ reported # "occurred"
    /\ made < p.attempts

\* The decision knows what the executor reported, not what happened.
mayRetry(p, repeatable, made, failure, reported) ==
    /\ RetryPolicyValid(p)
    /\ failure \notin {"validation", "permission", "stale-fingerprint"}
    /\ reported # "unknown"
    /\ repeatable \/ reported # "occurred"
    /\ made < p.attempts

RetryInit ==
    /\ policy \in Policies /\ idempotent \in BOOLEAN
    /\ attempt = 1 /\ delays = <<>> /\ mutations = 0 /\ stopped = FALSE

\* The running attempt fails, having mutated or not, and DecideRetry says what
\* follows.
Fail(failure, mutated, reported) ==
    /\ ~stopped
    /\ mutations' = IF mutated THEN mutations + 1 ELSE mutations
    /\ IF mayRetry(policy, idempotent, attempt, failure, reported)
       THEN /\ attempt' = attempt + 1
            /\ delays' = Append(delays, backoffSeconds(policy, attempt))
            /\ stopped' = FALSE
       ELSE stopped' = TRUE /\ UNCHANGED <<attempt, delays>>
    /\ UNCHANGED <<policy, idempotent>>

RetryNext ==
    \E failure \in FailureClasses, mutated \in BOOLEAN :
        \E reported \in {"unknown", IF mutated THEN "occurred" ELSE "not-occurred"} :
            Fail(failure, mutated, reported)

RetrySpec == RetryInit /\ [][RetryNext]_retryVars

----------------------------------------------------------------------------
(* Properties *)

\* A step is attempted no more often than its policy says, and its pauses start
\* at the initial backoff, never shrink, at most double and never pass the
\* maximum; near the maximum a pause may jump to it early.
RetriesBounded ==
    /\ attempt = Len(delays) + 1
    /\ attempt > 1 => attempt <= policy.attempts /\ policy.attempts <= MaxStepAttempts
    /\ \A i \in DOMAIN delays :
           /\ policy.initial <= delays[i] /\ delays[i] <= policy.max
           /\ i = 1 => delays[i] = policy.initial
           /\ i > 1 => \/ delays[i] = 2 * delays[i - 1]
                       \/ delays[i] = policy.max /\ 2 * delays[i - 1] + 1 >= policy.max

\* A step that is not idempotent mutates at most once, however often it is
\* retried and whatever the executor knew about the attempts that failed.
MutatesOnce == ~idempotent => mutations <= 1

\* However often a step is retried, the pauses stay in their policy and what is
\* not idempotent mutates at most once.
RetriesAreSafe == RetriesBounded /\ MutatesOnce
=============================================================================
