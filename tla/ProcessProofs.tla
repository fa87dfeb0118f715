---------------------------- MODULE ProcessProofs ----------------------------
(***************************************************************************)
(* Proofs about the run of one gcloud command, for any requests, limits,   *)
(* pipe size, wait delay and lag of the program's own steps.               *)
(***************************************************************************)
EXTENDS ProcessBoundary, TLAPS

----------------------------------------------------------------------------
(* Types *)

StreamSet == [written : Nat, pending : Nat, taken : Nat, ended : BOOLEAN]
HelperSet == [state : {"none", "running", "gone"}, inside : BOOLEAN, holds : SUBSET Streams]

TypedInv ==
    /\ request \in [timeout : Nat, limit : [Streams -> Nat]]
    /\ elapsed \in Nat /\ lag \in 0..MaxLag /\ timer \in Nat
    /\ child \in {"unborn", "running", "ok", "failed", "killed"}
    /\ helper \in HelperSet
    /\ stream \in [Streams -> StreamSet]
    /\ parent \in {"live", "deadline", "canceled"}
    /\ parentSeen \in {"live", "deadline", "canceled"}
    /\ watcher \in {"off", "watching", "interrupted", "foundDone"}
    /\ waiter \in {"begin", "wait", "collect", "drain", "readParent", "readRun", "returned"}
    /\ failure \in {"none", "start", "exit", "context", "delay"}

LEMMA NeverTyped ==
    /\ Never \in Nat /\ Never > MaxTimeout + MaxLag /\ Never > 0
    /\ MaxTimeout \in Nat /\ MaxLag \in Nat /\ WaitDelay \in Nat /\ PipeSize \in Nat
BY CommandAssumption DEF CommandAssumption, Never

LEMMA StreamStepTyped ==
    ASSUME TypedInv, \E s \in Streams : Writes(s) \/ Copies(s) \/ ReachesEnd(s)
    PROVE  TypedInv'
<1>1. PICK s \in Streams : Writes(s) \/ Copies(s) \/ ReachesEnd(s)
  OBVIOUS
<1>2. stream[s] \in StreamSet
  BY DEF TypedInv
<1>3. CASE Writes(s)
  <2>1. stream' \in [Streams -> StreamSet]
    BY <1>2, <1>3 DEF Writes, TypedInv, StreamSet
  <2>. QED
    BY <1>3, <2>1 DEF Writes, outside, TypedInv
<1>4. CASE Copies(s)
  <2>1. boundedWrite(stream[s]) \in StreamSet
    <3>. DEFINE r == stream[s]
    <3>1. r.pending \in Nat /\ r.pending > 0 /\ r.taken \in Nat
      BY <1>2, <1>4 DEF Copies, StreamSet
    <3>2. r.pending - 1 \in Nat /\ r.taken + 1 \in Nat
      BY <3>1
    <3>. HIDE DEF r
    <3>3. r \in StreamSet
      BY <1>2 DEF r
    <3>4. boundedWrite(r) \in StreamSet
      BY <3>2, <3>3 DEF boundedWrite, StreamSet
    <3>. QED
      BY <3>4 DEF r
  <2>2. stream' \in [Streams -> StreamSet]
    BY <1>4, <2>1 DEF Copies, TypedInv
  <2>. QED
    BY <1>4, <2>2 DEF Copies, outside, TypedInv
<1>5. CASE ReachesEnd(s)
  <2>1. stream' \in [Streams -> StreamSet]
    BY <1>2, <1>5 DEF ReachesEnd, TypedInv, StreamSet
  <2>. QED
    BY <1>5, <2>1 DEF ReachesEnd, outside, TypedInv
<1>. QED
  BY <1>1, <1>3, <1>4, <1>5

LEMMA ProcessStepTyped ==
    ASSUME TypedInv, Forks \/ Exits \/ ParentEnds \/ Interrupt
    PROVE  TypedInv'
<1>1. CASE Forks
  BY <1>1 DEF Forks, outside, TypedInv, HelperSet
<1>2. CASE Exits
  <2>1. helper' \in HelperSet
    BY <1>2 DEF Exits, TypedInv, HelperSet
  <2>. QED
    BY <1>2, <2>1 DEF Exits, outside, TypedInv
<1>3. CASE ParentEnds
  BY <1>3 DEF ParentEnds, outside, TypedInv
<1>4. CASE Interrupt
  <2>1. helper' \in HelperSet
    BY <1>4 DEF Interrupt, TypedInv, HelperSet
  <2>. QED
    BY <1>4, <2>1 DEF Interrupt, outside, TypedInv
<1>. QED
  BY <1>1, <1>2, <1>3, <1>4

LEMMA RunStepTyped ==
    ASSUME TypedInv,
           Begin \/ Reap \/ Collect \/ Drain \/ ReadParent \/ Classify \/ TimePasses
    PROVE  TypedInv'
<1>1. CASE Begin
  BY <1>1 DEF Begin, outside, TypedInv
<1>2. CASE Reap
  BY <1>2 DEF Reap, outside, TypedInv
<1>3. CASE Collect
  BY <1>3 DEF Collect, outside, TypedInv
<1>4. CASE Drain
  <2>1. stream' \in [Streams -> StreamSet]
    <3>1. \A s \in Streams : [stream[s] EXCEPT !.ended = TRUE] \in StreamSet
      BY DEF TypedInv, StreamSet
    <3>2. stream \in [Streams -> StreamSet]
      BY DEF TypedInv
    <3>. QED
      BY <1>4, <3>1, <3>2 DEF Drain
  <2>. QED
    BY <1>4, <2>1 DEF Drain, outside, TypedInv
<1>5. CASE ReadParent
  BY <1>5 DEF ReadParent, outside, TypedInv
<1>6. CASE Classify
  BY <1>6 DEF Classify, outside, TypedInv
<1>7. CASE TimePasses
  <2>1. lag' \in 0..MaxLag
    BY <1>7, NeverTyped DEF TimePasses, TypedInv
  <2>. QED
    BY <1>7, <2>1 DEF TimePasses, TypedInv
<1>. QED
  BY <1>1, <1>2, <1>3, <1>4, <1>5, <1>6, <1>7

THEOREM CommandTyped == CommandSpec => []TypedInv
<1>1. ASSUME CommandInit
      PROVE  TypedInv
  <2>1. stream \in [Streams -> StreamSet] /\ helper \in HelperSet
    BY <1>1 DEF CommandInit, StreamSet, NoHelper, HelperSet
  <2>2. request \in [timeout : Nat, limit : [Streams -> Nat]]
    BY <1>1, CommandAssumption DEF CommandInit, CommandAssumption
  <2>. QED
    BY <1>1, <2>1, <2>2, NeverTyped DEF CommandInit, TypedInv
<1>2. ASSUME TypedInv, [CommandNext]_commandVars
      PROVE  TypedInv'
  <2>1. CASE UNCHANGED commandVars
    BY <1>2, <2>1 DEF commandVars, TypedInv
  <2>. QED
    BY <1>2, <2>1, StreamStepTyped, ProcessStepTyped, RunStepTyped DEF CommandNext
<1>. QED
  BY <1>1, <1>2, PTL DEF CommandSpec

----------------------------------------------------------------------------
(* Units are neither lost nor doubled *)

\* What was copied and what waits in the pipe was written, once.
THEOREM CommandTypeCorrect == CommandSpec => []CommandTypeOK
<1>1. ASSUME CommandInit
      PROVE  CommandTypeOK
  BY <1>1, NeverTyped DEF CommandInit, CommandTypeOK, NoHelper
<1>2. ASSUME TypedInv, CommandTypeOK, [CommandNext]_commandVars
      PROVE  CommandTypeOK'
  <2>1. /\ request' \in Requests /\ elapsed' \in 0..Never /\ lag' \in 0..MaxLag
        /\ child' \in {"unborn", "running", "ok", "failed", "killed"}
        /\ helper' \in HelperSet
        /\ failure' \in {"none", "start", "exit", "context", "delay"}
    <3>1. TypedInv'
      BY <1>2, StreamStepTyped, ProcessStepTyped, RunStepTyped
         DEF CommandNext, commandVars, TypedInv
    <3>2. request' = request
      BY <1>2 DEF CommandNext, commandVars, outside, Writes, Copies, ReachesEnd, Forks,
         Exits, ParentEnds, Begin, Interrupt, Reap, Collect, Drain, ReadParent, Classify,
         TimePasses
    <3>3. elapsed' = elapsed \/ (elapsed < Never /\ elapsed' = elapsed + 1)
      BY <1>2 DEF CommandNext, commandVars, outside, Writes, Copies, ReachesEnd, Forks,
         Exits, ParentEnds, Begin, Interrupt, Reap, Collect, Drain, ReadParent, Classify,
         TimePasses
    <3>4. elapsed' \in 0..Never
      BY <1>2, <3>3, NeverTyped DEF CommandTypeOK
    <3>. QED
      BY <1>2, <3>1, <3>2, <3>4 DEF TypedInv, CommandTypeOK
  <2>2. ASSUME NEW s \in Streams
        PROVE  /\ stream'[s].pending \in 0..PipeSize
               /\ stream'[s].taken + stream'[s].pending = stream'[s].written
    <3>1. /\ stream[s].written \in Nat /\ stream[s].pending \in Nat
          /\ stream[s].taken \in Nat /\ PipeSize \in Nat
      BY <1>2, NeverTyped DEF TypedInv, StreamSet
    <3>2. /\ stream[s].pending \in 0..PipeSize
          /\ stream[s].taken + stream[s].pending = stream[s].written
      BY <1>2 DEF CommandTypeOK
    <3>3. ASSUME NEW t \in Streams, Writes(t)
          PROVE  /\ stream'[s].pending \in 0..PipeSize
                 /\ stream'[s].taken + stream'[s].pending = stream'[s].written
      BY <1>2, <3>1, <3>2, <3>3 DEF Writes, TypedInv, StreamSet
    <3>4. ASSUME NEW t \in Streams, Copies(t)
          PROVE  /\ stream'[s].pending \in 0..PipeSize
                 /\ stream'[s].taken + stream'[s].pending = stream'[s].written
      BY <1>2, <3>1, <3>2, <3>4 DEF Copies, boundedWrite, TypedInv, StreamSet
    <3>5. ASSUME NEW t \in Streams, ReachesEnd(t)
          PROVE  /\ stream'[s].pending \in 0..PipeSize
                 /\ stream'[s].taken + stream'[s].pending = stream'[s].written
      BY <1>2, <3>1, <3>2, <3>5 DEF ReachesEnd, TypedInv, StreamSet
    <3>6. CASE Drain
      BY <1>2, <3>1, <3>2, <3>6 DEF Drain, TypedInv, StreamSet
    <3>7. CASE stream' = stream
      BY <3>2, <3>7
    <3>. QED
      BY <1>2, <3>3, <3>4, <3>5, <3>6, <3>7
         DEF CommandNext, commandVars, Forks, Exits, ParentEnds, Begin, Interrupt, Reap,
             Collect, ReadParent, Classify, TimePasses
  <2>. QED
    BY <2>1, <2>2 DEF CommandTypeOK, HelperSet
<1>. QED
  BY <1>1, <1>2, CommandTyped, PTL DEF CommandSpec

----------------------------------------------------------------------------
(* Where Run is, and what that says of the child and the watcher *)

WaitInv ==
    /\ waiter = "begin" =>
           /\ child = "unborn" /\ elapsed = 0 /\ timer = Never
           /\ watcher = "off"
    /\ waiter \in {"begin", "wait", "collect"} => failure = "none"
    /\ waiter = "wait" => watcher # "off"
    /\ waiter \in {"wait", "collect", "drain"} => child # "unborn"
    /\ waiter \notin {"begin", "wait"} => child # "running"
    /\ waiter \notin {"begin", "returned"} => request.timeout <= MaxTimeout
    /\ watcher = "watching" => waiter \in {"wait", "collect"} /\ timer = Never
    /\ watcher \in {"interrupted", "foundDone"} => child # "running"
    /\ verdict # "none" => waiter = "returned"

LEMMA WaitStep ==
    ASSUME TypedInv, WaitInv, [CommandNext]_commandVars
    PROVE  WaitInv'
<1>1. CASE UNCHANGED commandVars
  BY <1>1 DEF commandVars, WaitInv
<1>2. CASE \E s \in Streams : Writes(s) \/ Copies(s) \/ ReachesEnd(s)
  BY <1>2 DEF Writes, Copies, ReachesEnd, outside, WaitInv
<1>3. CASE Forks \/ ParentEnds
  BY <1>3 DEF Forks, ParentEnds, outside, WaitInv
<1>4. CASE Exits
  BY <1>4 DEF Exits, outside, WaitInv
<1>5. CASE Begin
  BY <1>5, CommandAssumption
     DEF Begin, outside, WaitInv, ValidateRequest, TypedInv, CommandAssumption
<1>6. CASE Interrupt
  BY <1>6 DEF Interrupt, outside, WaitInv
<1>7. CASE Reap
  BY <1>7 DEF Reap, outside, WaitInv
<1>8. CASE Collect
  BY <1>8 DEF Collect, outside, WaitInv, TypedInv
<1>9. CASE Drain
  BY <1>9 DEF Drain, outside, WaitInv
<1>10. CASE ReadParent
  BY <1>10 DEF ReadParent, outside, WaitInv
<1>11. CASE Classify
  BY <1>11 DEF Classify, outside, WaitInv
<1>12. CASE TimePasses
  BY <1>12 DEF TimePasses, WaitInv
<1>. QED
  BY <1>1, <1>2, <1>3, <1>4, <1>5, <1>6, <1>7, <1>8, <1>9, <1>10, <1>11, <1>12
     DEF CommandNext

----------------------------------------------------------------------------
(* The time a run takes *)

\* Until the delay begins the timeout bounds the time, and then the delay does.
TimeInv ==
    /\ waiter \in {"wait", "collect", "drain"} /\ timer = Never
           => elapsed <= request.timeout + lag
    /\ waiter \notin {"begin", "returned"} /\ timer # Never
           => timer <= request.timeout + lag
    /\ RunEndsInTime

LEMMA TimeStep ==
    ASSUME TypedInv, WaitInv, TimeInv, [CommandNext]_commandVars
    PROVE  TimeInv'
<1>. DEFINE still == UNCHANGED <<request, elapsed, lag, timer>>
<1>0. /\ elapsed \in Nat /\ lag \in Nat /\ timer \in Nat /\ request.timeout \in Nat
      /\ lag <= MaxLag
  BY NeverTyped DEF TypedInv
<1>1. CASE still /\ waiter' = waiter
  BY <1>1 DEF TimeInv, RunEndsInTime
<1>2. CASE Begin
  BY <1>0, <1>2, NeverTyped DEF Begin, outside, WaitInv, TimeInv, RunEndsInTime
<1>3. CASE Interrupt
  <2>1. waiter \in {"wait", "collect"} /\ timer = Never
    BY <1>3 DEF Interrupt, WaitInv
  <2>2. elapsed <= request.timeout + lag /\ request.timeout <= MaxTimeout
    BY <2>1 DEF TimeInv, WaitInv
  <2>3. elapsed # Never
    BY <1>0, <2>2, NeverTyped
  <2>. QED
    BY <1>0, <1>3, <2>1, <2>2, <2>3, NeverTyped
       DEF Interrupt, outside, TimeInv, RunEndsInTime
<1>4. CASE Reap \/ Collect \/ ReadParent \/ Classify
  BY <1>4 DEF Reap, Collect, ReadParent, Classify, outside, TimeInv, RunEndsInTime
<1>5. CASE Drain
  <2>1. waiter = "drain" /\ UNCHANGED <<request, elapsed, lag>>
        /\ waiter' \in {"drain", "readParent"}
    BY <1>5 DEF Drain, outside
  <2>2. timer' = timer \/ (timer = Never /\ timer' = elapsed)
    BY <1>5 DEF Drain
  <2>3. CASE timer' = timer
    BY <2>1, <2>3 DEF TimeInv, RunEndsInTime
  <2>4. CASE timer = Never /\ timer' = elapsed
    <3>1. elapsed <= request.timeout + lag /\ request.timeout <= MaxTimeout
      BY <2>1, <2>4 DEF TimeInv, WaitInv
    <3>. QED
      BY <1>0, <2>1, <2>4, <3>1, NeverTyped DEF TimeInv, RunEndsInTime
  <2>. QED
    BY <2>2, <2>3, <2>4
<1>6. CASE TimePasses
  <2>1. /\ waiter \notin {"begin", "returned"} /\ elapsed' = elapsed + 1
        /\ lag' = IF busy THEN lag + 1 ELSE lag
        /\ UNCHANGED <<request, timer, waiter>>
    BY <1>6 DEF TimePasses
  <2>2. CASE busy
    BY <1>0, <2>1, <2>2, NeverTyped DEF TimeInv, RunEndsInTime
  <2>3. CASE ~busy /\ waiter = "wait"
    <3>1. child = "running"
      BY <2>3 DEF busy
    <3>2. watcher = "watching"
      BY <2>3, <3>1 DEF WaitInv, TypedInv
    <3>3. elapsed < request.timeout
      BY <1>0, <2>3, <3>2 DEF busy, contextDone
    <3>. QED
      BY <1>0, <2>1, <2>3, <3>3, NeverTyped DEF TimeInv, RunEndsInTime
  <2>4. CASE ~busy /\ waiter = "drain"
    <3>1. timer # Never /\ elapsed < timer + WaitDelay
      BY <1>0, <2>4, NeverTyped DEF busy, delayOver
    <3>2. timer <= request.timeout + lag
      BY <2>4, <3>1 DEF TimeInv
    <3>. QED
      BY <1>0, <2>1, <2>4, <3>1, <3>2, NeverTyped DEF TimeInv, RunEndsInTime
  <2>5. busy \/ waiter \in {"wait", "drain"}
    BY <2>1 DEF busy, TypedInv
  <2>. QED
    BY <2>2, <2>3, <2>4, <2>5
<1>. QED
  BY <1>1, <1>2, <1>3, <1>4, <1>5, <1>6
     DEF CommandNext, commandVars, outside, Writes, Copies, ReachesEnd, Forks, Exits,
         ParentEnds

\* Run is over when the timeout and the wait delay have passed, but for the time
\* its own steps took.
THEOREM EndsInTime == CommandSpec => []RunEndsInTime
<1>1. CommandInit => WaitInv /\ TimeInv
  BY DEF CommandInit, WaitInv, TimeInv, RunEndsInTime
<1>2. TimeInv => RunEndsInTime
  BY DEF TimeInv
<1>. QED
  BY <1>1, <1>2, CommandTyped, WaitStep, TimeStep, PTL DEF CommandSpec

----------------------------------------------------------------------------
(* What a finished command's output and verdict say *)

\* A stream that ended without its pipe being closed on it is whole for good.
EndInv ==
    /\ \A s \in Streams : stream[s].ended /\ failure = "none" =>
           stream[s].pending = 0 /\ ~running(s) /\ child # "unborn"
    /\ waiter \in {"drain", "readParent", "readRun", "returned"} /\ failure = "none"
             /\ child # "unborn" => child = "ok"
    /\ waiter \in {"readParent", "readRun"} /\ failure = "none" =>
           child # "unborn" /\ allCopied
    /\ verdict = "success" =>
           /\ failure = "none" /\ child # "unborn" /\ allCopied
           /\ \A s \in Streams : ~exceeded(s)

\* A killed child leaves a context that is done and nothing of its group behind.
KillInv ==
    child = "killed" =>
        /\ contextDone
        /\ ~(helper.state = "running" /\ helper.inside)
        /\ waiter \in {"drain", "readParent", "readRun"} => failure # "none"
        /\ waiter = "returned" => verdict \in {"timeout", "canceled"}

\* Nothing that happens to the processes or the streams changes a verdict.
LEMMA EndStreamStep ==
    ASSUME TypedInv, WaitInv, EndInv, NEW t \in Streams,
           Writes(t) \/ Copies(t) \/ ReachesEnd(t)
    PROVE  EndInv'
<1>0. \A s \in Streams : stream[s] \in StreamSet
  BY DEF TypedInv
<1>1. UNCHANGED <<child, helper, waiter, failure, verdict, request>>
  BY DEF Writes, Copies, ReachesEnd, outside
<1>2. \A s \in Streams : running(s)' = running(s)
  BY <1>1 DEF running
<1>3. \A s \in Streams : s # t => stream'[s] = stream[s]
  BY DEF Writes, Copies, ReachesEnd, TypedInv
<1>4. stream[t].ended = FALSE
  BY <1>0 DEF Writes, Copies, ReachesEnd, atEnd, StreamSet
<1>5. stream'[t].ended => ReachesEnd(t) /\ stream'[t].pending = 0
  <2>1. CASE Writes(t)
    BY <1>0, <1>4, <2>1 DEF Writes, TypedInv, StreamSet
  <2>2. CASE Copies(t)
    <3>1. stream'[t] = boundedWrite(stream[t])
      BY <2>2 DEF Copies, TypedInv
    <3>2. boundedWrite(stream[t]).ended = stream[t].ended
      BY <1>0 DEF boundedWrite, StreamSet
    <3>. QED
      BY <1>4, <3>1, <3>2
  <2>3. CASE ReachesEnd(t)
    <3>1. stream'[t].pending = stream[t].pending
      BY <1>0, <2>3 DEF ReachesEnd, TypedInv, StreamSet
    <3>2. stream[t].pending = 0
      BY <2>3 DEF ReachesEnd, atEnd
    <3>. QED
      BY <2>3, <3>1, <3>2
  <2>. QED
    BY <2>1, <2>2, <2>3
<1>6. ~allCopied
  BY <1>4 DEF allCopied
<1>7. ASSUME NEW s \in Streams, stream'[s].ended, failure' = "none"
      PROVE  stream'[s].pending = 0 /\ ~running(s)' /\ child' # "unborn"
  <2>1. CASE s = t
    BY <1>1, <1>2, <1>5, <1>7, <2>1 DEF ReachesEnd, atEnd
  <2>2. CASE s # t
    BY <1>1, <1>2, <1>3, <1>7, <2>2 DEF EndInv
  <2>. QED
    BY <2>1, <2>2
<1>. QED
  BY <1>1, <1>6, <1>7 DEF EndInv

LEMMA EndProcessStep ==
    ASSUME TypedInv, WaitInv, EndInv,
           Forks \/ Exits \/ ParentEnds \/ Interrupt \/ TimePasses
    PROVE  EndInv'
<1>1. UNCHANGED <<stream, waiter, failure, verdict, request>>
  BY DEF Forks, Exits, ParentEnds, Interrupt, TimePasses, outside
<1>2. child # "running" => child' = child
  BY DEF Forks, Exits, ParentEnds, Interrupt, TimePasses
<1>3. child' = "unborn" <=> child = "unborn"
  BY DEF Forks, Exits, ParentEnds, Interrupt, TimePasses
<1>4. ASSUME NEW s \in Streams, child # "unborn", ~running(s)
      PROVE  ~running(s)'
  BY <1>2, <1>4 DEF Forks, Exits, ParentEnds, Interrupt, TimePasses, running, TypedInv,
     HelperSet
<1>5. allCopied' = allCopied /\ \A s \in Streams : exceeded(s)' = exceeded(s)
  BY <1>1 DEF allCopied, exceeded
<1>6. waiter \in {"drain", "readParent", "readRun", "returned"} => child # "running"
  BY DEF WaitInv
<1>7. \A s \in Streams : stream'[s].ended /\ failure' = "none" =>
          stream'[s].pending = 0 /\ ~running(s)' /\ child' # "unborn"
  BY <1>1, <1>3, <1>4 DEF EndInv
<1>. QED
  BY <1>1, <1>2, <1>3, <1>5, <1>6, <1>7 DEF EndInv

LEMMA EndRunStep ==
    ASSUME TypedInv, WaitInv, EndInv,
           Begin \/ Reap \/ Collect \/ Drain \/ ReadParent \/ Classify
    PROVE  EndInv'
<1>0. waiter \in {"begin", "wait", "collect", "drain", "readParent", "readRun", "returned"}
  BY DEF TypedInv
<1>1. CASE Begin
  <2>1. waiter = "begin" /\ child = "unborn" /\ failure = "none"
    BY <1>1 DEF Begin, WaitInv
  <2>2. \A s \in Streams : ~stream[s].ended
    BY <2>1 DEF EndInv
  <2>3. stream' = stream /\ helper' = helper /\ request' = request
    BY <1>1 DEF Begin, outside
  <2>4. \/ child' = "unborn" /\ waiter' = "returned" /\ verdict' = "invalid"
        \/ child' = "unborn" /\ waiter' = "readParent" /\ failure' = "start"
             /\ verdict' = verdict
        \/ waiter' = "wait" /\ verdict' = verdict
    BY <1>1, <2>1 DEF Begin
  <2>5. verdict # "success"
    BY <2>1 DEF EndInv
  <2>. QED
    BY <2>2, <2>3, <2>4, <2>5 DEF EndInv
<1>2. CASE Reap \/ ReadParent
  <2>1. UNCHANGED <<child, helper, stream, failure, verdict, request>>
    BY <1>2 DEF Reap, ReadParent, outside
  <2>2. \/ waiter = "wait" /\ waiter' = "collect"
        \/ waiter = "readParent" /\ waiter' = "readRun"
    BY <1>2 DEF Reap, ReadParent
  <2>. QED
    BY <2>1, <2>2 DEF EndInv, running, allCopied, exceeded
<1>3. CASE Collect
  <2>1. /\ UNCHANGED <<child, helper, stream, verdict, request>>
        /\ waiter = "collect" /\ waiter' = "drain"
        /\ failure' = "none" => child = "ok"
    BY <1>3 DEF Collect, outside
  <2>2. failure = "none"
    BY <2>1 DEF WaitInv
  <2>3. verdict # "success"
    BY <2>1 DEF WaitInv
  <2>. QED
    BY <2>1, <2>2, <2>3 DEF EndInv, running, allCopied
<1>4. CASE Drain
  <2>1. /\ UNCHANGED <<child, helper, verdict, request>> /\ waiter = "drain"
        /\ child # "unborn" /\ verdict # "success"
    BY <1>4 DEF Drain, outside, WaitInv
  <2>2. CASE allCopied /\ waiter' = "readParent" /\ UNCHANGED <<stream, timer, failure>>
    BY <2>1, <2>2 DEF EndInv, running, allCopied
  <2>3. CASE UNCHANGED <<stream, waiter, failure>>
    BY <2>1, <2>3 DEF EndInv, running, allCopied
  <2>4. CASE failure' = (IF failure = "none" THEN "delay" ELSE failure)
    BY <2>1, <2>4 DEF EndInv
  <2>. QED
    BY <1>4, <2>2, <2>3, <2>4 DEF Drain
<1>5. CASE Classify
  <2>1. /\ UNCHANGED <<child, helper, stream, failure, request>>
        /\ waiter = "readRun" /\ waiter' = "returned"
        /\ verdict' = classified(processContextFailure(failure, parentSeen, contextDone))
    BY <1>5 DEF Classify, outside
  <2>2. ASSUME verdict' = "success"
        PROVE  failure = "none" /\ \A s \in Streams : ~exceeded(s)
    <3>1. processContextFailure(failure, parentSeen, contextDone)
              \in {"none", "timeout", "canceled"}
      BY DEF processContextFailure
    <3>2. processContextFailure(failure, parentSeen, contextDone) = "none"
      BY <2>1, <2>2, <3>1 DEF classified
    <3>3. ~exceeded("stdout") /\ ~exceeded("stderr")
      BY <2>1, <2>2, <3>2 DEF classified
    <3>. QED
      BY <2>1, <2>2, <3>2, <3>3 DEF classified, Streams
  <2>. QED
    BY <2>1, <2>2 DEF EndInv, running, allCopied, exceeded
<1>. QED
  BY <1>1, <1>2, <1>3, <1>4, <1>5

LEMMA EndStep ==
    ASSUME TypedInv, WaitInv, EndInv, [CommandNext]_commandVars
    PROVE  EndInv'
<1>1. CASE UNCHANGED commandVars
  BY <1>1 DEF commandVars, EndInv, running, allCopied, exceeded
<1>. QED
  BY <1>1, EndStreamStep, EndProcessStep, EndRunStep DEF CommandNext

LEMMA KillStep ==
    ASSUME TypedInv, WaitInv, KillInv, [CommandNext]_commandVars
    PROVE  KillInv'
<1>0. /\ elapsed \in Nat /\ request.timeout \in Nat
  BY DEF TypedInv
<1>1. contextDone => contextDone'
  <2>1. request' = request /\ (parent # "live" => parent' # "live")
        /\ (elapsed' = elapsed \/ elapsed' = elapsed + 1)
    BY DEF CommandNext, commandVars, outside, Writes, Copies, ReachesEnd, Forks, Exits,
       ParentEnds, Begin, Interrupt, Reap, Collect, Drain, ReadParent, Classify, TimePasses
  <2>. QED
    BY <1>0, <2>1 DEF contextDone
<1>2. CASE UNCHANGED <<child, helper, waiter, failure, verdict>>
  BY <1>1, <1>2 DEF KillInv
<1>3. CASE Forks \/ Exits
  BY <1>1, <1>3 DEF Forks, Exits, outside, KillInv, TypedInv, HelperSet
<1>4. CASE Begin
  BY <1>4 DEF Begin, WaitInv, KillInv
<1>5. CASE Interrupt
  <2>1. child = "running" => waiter = "wait"
    BY <1>5 DEF Interrupt, WaitInv
  <2>2. helper'.state = "running" => helper'.inside = FALSE
    BY <1>5 DEF Interrupt, TypedInv, HelperSet
  <2>. QED
    BY <1>1, <1>5, <2>1, <2>2 DEF Interrupt, KillInv
<1>6. CASE Reap \/ ReadParent
  BY <1>1, <1>6 DEF Reap, ReadParent, KillInv
<1>7. CASE Collect
  BY <1>1, <1>7 DEF Collect, KillInv
<1>8. CASE Drain
  BY <1>1, <1>8 DEF Drain, KillInv
<1>9. CASE Classify
  <2>1. ASSUME child = "killed"
        PROVE  processContextFailure(failure, parentSeen, contextDone)
                   \in {"timeout", "canceled"}
    BY <1>9, <2>1 DEF Classify, KillInv, processContextFailure, TypedInv
  <2>. QED
    BY <1>1, <1>9, <2>1 DEF Classify, KillInv, classified
<1>. QED
  BY <1>2, <1>3, <1>4, <1>5, <1>6, <1>7, <1>8, <1>9
     DEF CommandNext, commandVars, Writes, Copies, ReachesEnd, ParentEnds, TimePasses

\* Output that is used is all a child that ended with status 0 wrote.
THEOREM OutputWhole == CommandSpec => []OutputIsWhole
<1>1. CommandInit => WaitInv /\ EndInv
  BY DEF CommandInit, WaitInv, EndInv, Streams
<1>2. ASSUME TypedInv, WaitInv, EndInv, CommandTypeOK, verdict = "success", NEW s \in Streams
      PROVE  /\ child = "ok" /\ stream[s].taken = stream[s].written /\ ~running(s)
             /\ stream[s].taken <= request.limit[s]
  <2>1. waiter = "returned" /\ failure = "none" /\ child = "ok"
    BY <1>2 DEF WaitInv, EndInv
  <2>2. stream[s].ended /\ ~exceeded(s)
    BY <1>2 DEF EndInv, allCopied
  <2>3. stream[s].pending = 0 /\ ~running(s)
    BY <1>2, <2>1, <2>2 DEF EndInv
  <2>4. /\ stream[s].taken \in Nat /\ stream[s].written \in Nat
        /\ request.limit[s] \in Nat
    BY <1>2 DEF TypedInv, StreamSet
  <2>5. stream[s].taken + stream[s].pending = stream[s].written
    BY <1>2 DEF CommandTypeOK
  <2>. QED
    BY <2>1, <2>2, <2>3, <2>4, <2>5 DEF exceeded
<1>3. TypedInv /\ WaitInv /\ EndInv /\ CommandTypeOK => OutputIsWhole
  BY <1>2 DEF OutputIsWhole, Streams
<1>. QED
  BY <1>1, <1>3, CommandTyped, CommandTypeCorrect, WaitStep, EndStep, PTL DEF CommandSpec

\* A command that was killed is reported as timed out or cancelled.
THEOREM KillReported == CommandSpec => []KillIsReported
<1>1. CommandInit => WaitInv /\ KillInv
  BY DEF CommandInit, WaitInv, KillInv
<1>2. KillInv => KillIsReported
  BY DEF KillInv, KillIsReported
<1>. QED
  BY <1>1, <1>2, CommandTyped, WaitStep, KillStep, PTL DEF CommandSpec
=============================================================================
