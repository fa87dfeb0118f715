--------------------------- MODULE ProcessBoundary --------------------------
(***************************************************************************)
(* One gcloud command as processBoundary.Run (gcp/process.go) sees it.     *)
(* The child and a helper it may fork write to two pipes; the goroutines   *)
(* of os/exec copy them into bounded captures; a watcher kills the process *)
(* group when the context is done; Run waits for the child, then for the   *)
(* pipes, and reads the contexts before it says how the command ended.     *)
(* Output is counted in units.  The child, the helper, the pipes and       *)
(* os/exec are external.  A process that is killed dies at once.           *)
(***************************************************************************)
EXTENDS Naturals

CONSTANTS
    Requests,       \* requests to explore: [timeout, limit : [Streams -> Nat]]
    MaxTimeout,     \* runner.MaxTimeout
    MaxOutput,      \* runner.MaxStdoutBytes and MaxStderrBytes
    PipeSize,       \* what a pipe holds
    WaitDelay,      \* processWaitDelay
    MaxWritten,     \* bound of what is written to a pipe
    MaxLag          \* bound of the time the program's own steps take

VARIABLES
    request,
    elapsed,        \* since the command was started
    child,          \* external: the gcloud process
    helper,         \* external: a process it forked, in its group or not
    stream,         \* the pipes and their captures
    parent,         \* how the caller's context ended
    watcher,        \* the goroutine that waits for the context
    timer,          \* when the wait delay began, or Never
    waiter,         \* where Run is
    failure,        \* what command.Run returns
    parentSeen,     \* the caller's context as Run read it
    verdict,        \* how Run says the command ended
    lag

commandVars == <<request, elapsed, child, helper, stream, parent, watcher, timer,
                 waiter, failure, parentSeen, verdict, lag>>
outside == <<request, elapsed, lag>>

Streams == {"stdout", "stderr"}

ASSUME CommandAssumption ==
    /\ Requests \subseteq [timeout : Nat, limit : [Streams -> Nat]]
    /\ {MaxTimeout, MaxOutput, PipeSize, WaitDelay, MaxWritten, MaxLag} \subseteq Nat

Never == MaxTimeout + WaitDelay + MaxLag + 1
NoHelper == [state |-> "none", inside |-> TRUE, holds |-> {}]

----------------------------------------------------------------------------
(* What Run and its captures compute *)

ValidateRequest(r) == r.timeout \in 1..MaxTimeout /\ \A s \in Streams : r.limit[s] \in 1..MaxOutput

contextDone == parent # "live" \/ elapsed >= request.timeout

\* Mutant of the next definition: one unit too many goes unnoticed.
exceededMutant(s) == stream[s].taken > request.limit[s] + 1

exceeded(s) == stream[s].taken > request.limit[s]

\* Mutant of the next definition: the time is never bounded.
delayOverMutant == FALSE

delayOver == timer # Never /\ elapsed >= timer + WaitDelay

\* Mutant of the next definition: the context of the run itself is forgotten.
processContextFailureMutant(runErr, parentErr, runDone) ==
    CASE runErr = "none" -> "none"
      [] runErr # "none" /\ parentErr = "deadline" -> "timeout"
      [] runErr # "none" /\ parentErr = "canceled" -> "canceled"
      [] OTHER -> "none"

processContextFailure(runErr, parentErr, runDone) ==
    CASE runErr = "none" -> "none"
      [] runErr # "none" /\ parentErr = "deadline" -> "timeout"
      [] runErr # "none" /\ parentErr = "canceled" -> "canceled"
      [] runErr # "none" /\ parentErr = "live" /\ runDone -> "timeout"
      [] OTHER -> "none"

classified(byContext) ==
    CASE byContext # "none" -> byContext
      [] byContext = "none" /\ exceeded("stdout") -> "stdoutLimit"
      [] byContext = "none" /\ ~exceeded("stdout") /\ exceeded("stderr") -> "stderrLimit"
      [] OTHER -> CASE failure = "none" -> "success"
                    [] failure = "exit" -> "exit"
                    [] OTHER -> "start"

----------------------------------------------------------------------------
(* The child, its helper and the caller *)

running(s) == \/ child = "running"
              \/ helper.state = "running" /\ s \in helper.holds
allCopied == \A s \in Streams : stream[s].ended

CommandInit ==
    /\ request \in Requests
    /\ elapsed = 0 /\ lag = 0
    /\ child = "unborn" /\ helper = NoHelper
    /\ stream = [s \in Streams |-> [written |-> 0, pending |-> 0, taken |-> 0, ended |-> FALSE]]
    /\ parent = "live" /\ watcher = "off" /\ timer = Never
    /\ waiter = "begin" /\ failure = "none" /\ parentSeen = "live" /\ verdict = "none"

\* A process blocks while the pipe is full.
Writes(s) ==
    /\ running(s) /\ ~stream[s].ended
    /\ stream[s].pending < PipeSize /\ stream[s].written < MaxWritten
    /\ stream' = [stream EXCEPT ![s].written = @ + 1, ![s].pending = @ + 1]
    /\ UNCHANGED <<outside, child, helper, parent, watcher, timer, waiter, failure,
                   parentSeen, verdict>>

Forks ==
    /\ child = "running" /\ helper = NoHelper
    /\ \E inside \in BOOLEAN, holds \in SUBSET Streams :
           helper' = [state |-> "running", inside |-> inside, holds |-> holds]
    /\ UNCHANGED <<outside, child, stream, parent, watcher, timer, waiter, failure,
                   parentSeen, verdict>>

Exits ==
    /\ \/ child = "running" /\ child' \in {"ok", "failed"} /\ UNCHANGED helper
       \/ helper.state = "running" /\ helper' = [helper EXCEPT !.state = "gone"]
          /\ UNCHANGED child
    /\ UNCHANGED <<outside, stream, parent, watcher, timer, waiter, failure, parentSeen,
                   verdict>>

ParentEnds ==
    /\ parent = "live" /\ verdict = "none"
    /\ parent' \in {"deadline", "canceled"}
    /\ UNCHANGED <<outside, child, helper, stream, watcher, timer, waiter, failure,
                   parentSeen, verdict>>

----------------------------------------------------------------------------
(* Run and the goroutines of os/exec *)

\* The request is checked; os/exec starts nothing when the context is done.
Begin ==
    /\ waiter = "begin"
    /\ \/ /\ ~ValidateRequest(request)
          /\ waiter' = "returned" /\ verdict' = "invalid"
          /\ UNCHANGED <<child, watcher, failure>>
       \/ /\ ValidateRequest(request)
          /\ waiter' = "readParent" /\ failure' = "start"
          /\ UNCHANGED <<child, watcher, verdict>>
       \/ /\ ValidateRequest(request) /\ ~contextDone
          /\ waiter' = "wait" /\ child' = "running" /\ watcher' = "watching"
          /\ UNCHANGED <<failure, verdict>>
    /\ UNCHANGED <<outside, helper, stream, parent, timer, parentSeen>>

boundedWrite(record) == [record EXCEPT !.pending = @ - 1, !.taken = @ + 1]

\* The capture keeps what fits, and never stops reading.
Copies(s) ==
    /\ stream[s].pending > 0 /\ ~stream[s].ended
    /\ stream' = [stream EXCEPT ![s] = boundedWrite(@)]
    /\ UNCHANGED <<outside, child, helper, parent, watcher, timer, waiter, failure,
                   parentSeen, verdict>>

atEnd(s) == child # "unborn" /\ ~stream[s].ended /\ stream[s].pending = 0 /\ ~running(s)

ReachesEnd(s) ==
    /\ atEnd(s)
    /\ stream' = [stream EXCEPT ![s].ended = TRUE]
    /\ UNCHANGED <<outside, child, helper, parent, watcher, timer, waiter, failure,
                   parentSeen, verdict>>

\* command.Cancel kills the group; a child that has ended and was not yet
\* waited for still belongs to it.
Interrupt ==
    /\ watcher = "watching" /\ contextDone
    /\ child' = IF child = "running" THEN "killed" ELSE child
    /\ helper' = IF helper.state = "running" /\ helper.inside
                 THEN [helper EXCEPT !.state = "gone"] ELSE helper
    /\ watcher' = IF waiter = "wait" \/ helper' # helper THEN "interrupted" ELSE "foundDone"
    /\ timer' = elapsed
    /\ UNCHANGED <<outside, stream, parent, waiter, failure, parentSeen, verdict>>

Reap ==
    /\ waiter = "wait" /\ child # "running"
    /\ waiter' = "collect"
    /\ UNCHANGED <<outside, child, helper, stream, parent, watcher, timer, failure,
                   parentSeen, verdict>>

\* Wait takes the watcher's word, or stops it when it has none.
Collect ==
    /\ waiter = "collect"
    /\ waiter' = "drain"
    /\ watcher' = IF watcher = "watching" THEN "off" ELSE watcher
    /\ failure' = CASE child # "ok" -> "exit"
                    [] child = "ok" /\ watcher = "interrupted" -> "context"
                    [] OTHER -> "none"
    /\ UNCHANGED <<outside, child, helper, stream, parent, timer, parentSeen, verdict>>

\* The pipes are copied to their end or closed when the delay is over.
Drain ==
    /\ waiter = "drain"
    /\ \/ allCopied /\ waiter' = "readParent" /\ UNCHANGED <<stream, timer, failure>>
       \/ ~allCopied /\ timer = Never /\ timer' = elapsed /\ UNCHANGED <<stream, waiter, failure>>
       \/ /\ delayOver
          /\ stream' = [s \in Streams |-> [stream[s] EXCEPT !.ended = TRUE]]
          /\ failure' = IF failure = "none" THEN "delay" ELSE failure
          /\ waiter' = "readParent"
          /\ UNCHANGED timer
    /\ UNCHANGED <<outside, child, helper, parent, watcher, parentSeen, verdict>>

ReadParent ==
    /\ waiter = "readParent"
    /\ waiter' = "readRun" /\ parentSeen' = parent
    /\ UNCHANGED <<outside, child, helper, stream, parent, watcher, timer, failure, verdict>>

Classify ==
    /\ waiter = "readRun"
    /\ waiter' = "returned"
    /\ verdict' = classified(processContextFailure(failure, parentSeen, contextDone))
    /\ UNCHANGED <<outside, child, helper, stream, parent, watcher, timer, failure,
                   parentSeen>>

\* The program has a step to take.
busy == \/ watcher = "watching" /\ contextDone
        \/ waiter \in {"collect", "readParent", "readRun"}
        \/ waiter = "wait" /\ child # "running"
        \/ waiter = "drain" /\ (allCopied \/ timer = Never \/ delayOver)
        \/ \E s \in Streams : atEnd(s) \/ (stream[s].pending > 0 /\ ~stream[s].ended)

TimePasses ==
    /\ waiter \notin {"begin", "returned"} /\ elapsed < Never
    /\ busy => lag < MaxLag
    /\ elapsed' = elapsed + 1
    /\ lag' = IF busy THEN lag + 1 ELSE lag
    /\ UNCHANGED <<request, child, helper, stream, parent, watcher, timer, waiter, failure,
                   parentSeen, verdict>>

CommandNext ==
    \/ \E s \in Streams : Writes(s) \/ Copies(s) \/ ReachesEnd(s)
    \/ Forks \/ Exits \/ ParentEnds
    \/ Begin \/ Interrupt \/ Reap \/ Collect \/ Drain \/ ReadParent \/ Classify
    \/ TimePasses

CommandSpec == CommandInit /\ [][CommandNext]_commandVars

----------------------------------------------------------------------------
(* Properties *)

\* What was copied and what waits in the pipe was written, once.
CommandTypeOK ==
    /\ request \in Requests /\ elapsed \in 0..Never /\ lag \in 0..MaxLag
    /\ child \in {"unborn", "running", "ok", "failed", "killed"}
    /\ helper \in [state : {"none", "running", "gone"}, inside : BOOLEAN, holds : SUBSET Streams]
    /\ \A s \in Streams :
           /\ stream[s].pending \in 0..PipeSize
           /\ stream[s].taken + stream[s].pending = stream[s].written
    /\ failure \in {"none", "start", "exit", "context", "delay"}

\* A command whose output is used ended by itself, with status 0, and the
\* output is all of it: nobody can add to it and nothing was cut off, though
\* a helper may have outlived the child and the captures are bounded.
OutputIsWhole ==
    verdict = "success" =>
        /\ child = "ok"
        /\ \A s \in Streams :
               /\ stream[s].taken = stream[s].written /\ ~running(s)
               /\ stream[s].taken <= request.limit[s]

\* A command that was killed is reported as timed out or cancelled, whichever
\* of the contexts, the exit status and the output limits Run looks at first,
\* and nothing of its process group runs on.
KillIsReported ==
    child = "killed" /\ waiter = "returned" =>
        /\ verdict \in {"timeout", "canceled"}
        /\ ~(helper.state = "running" /\ helper.inside)

\* However the child and its helper behave, Run is over when the timeout and
\* the wait delay have passed, but for the time its own steps took.
RunEndsInTime ==
    waiter \notin {"begin", "returned"} => elapsed <= request.timeout + WaitDelay + lag
=============================================================================
