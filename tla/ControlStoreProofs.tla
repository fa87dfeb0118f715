------------------------- MODULE ControlStoreProofs -------------------------
(***************************************************************************)
(* Proofs about the control bucket's objects, for any sessions, number of  *)
(* seeds and number of adverse events.                                     *)
(***************************************************************************)
EXTENDS ControlStore, TLAPS

versionSet == [generation : Nat, kind : kinds, by : Sessions \cup {Outsider}]

\* Every provider version is numbered, and number zero is absence.
Numbered ==
    \A o \in seeds : /\ object[o].generation <= generations
                     /\ object[o].generation = 0 => object[o] = noObject

\* The lock version a session is about to replace is a clean one.
PriorPinned ==
    \A s \in Sessions :
        pc[s] = "acquire" =>
            /\ call[s].prior.generation \in 1..generations
            /\ object[lock].generation = call[s].prior.generation =>
                   cleanLock(object[lock].kind)

\* The lock version a session took is its own held record, and it is the live
\* one unless an outsider interfered.
HeldPinned ==
    \A s \in Sessions :
        holding(s) =>
            /\ call[s].acquired \in 1..generations
            /\ object[lock].generation = call[s].acquired =>
                   object[lock].kind = "held" /\ object[lock].by = s
            /\ disturbed \/ object[lock].generation = call[s].acquired

LockInv == TypeOK /\ Numbered /\ PriorPinned /\ HeldPinned
-----------------------------------------------------------------------------
(* Types.                                                                  *)

EndTyped == /\ pc' \in [Sessions -> locations]
            /\ outcome' \in [Sessions -> outcomeSet]
            /\ \A t \in Sessions : ~(outcome'[t].failed /\ outcome'[t].verified)
            /\ completed' \subseteq {"k4", "k5"}

\* Going on, failing and verifying keep the types of pc and outcome.
LEMMA EndsTyped ==
    ASSUME TypeOK, NEW s \in Sessions
    PROVE  /\ \A next \in locations : Goto(s, next) => EndTyped
           /\ \A m \in BOOLEAN :
                  FailAs(s, m) /\ UNCHANGED completed => EndTyped
           /\ Fail(s) /\ UNCHANGED completed => EndTyped
           /\ \A m \in BOOLEAN : Verify(s, m) => EndTyped
<1>1. "idle" \in locations
  BY DEF locations
<1>2. stepOf(s) \in {"k4", "k5"}
  BY DEF stepOf
<1>3. mutationReported(s) \in BOOLEAN
  BY DEF mutationReported
<1>4. \A next \in locations : Goto(s, next) => EndTyped
  BY DEF Goto, EndTyped, TypeOK
<1>5. ASSUME NEW m \in BOOLEAN, FailAs(s, m), UNCHANGED completed
      PROVE  EndTyped
  <2>1. [step |-> stepOf(s), failed |-> TRUE, mutated |-> m,
         verified |-> FALSE] \in outcomeSet
    BY <1>2 DEF outcomeSet
  <2>. QED
    BY <1>1, <1>5, <2>1 DEF FailAs, EndTyped, TypeOK
<1>6. ASSUME NEW m \in BOOLEAN, Verify(s, m)
      PROVE  EndTyped
  <2>1. [step |-> stepOf(s), failed |-> FALSE, mutated |-> m,
         verified |-> TRUE] \in outcomeSet
    BY <1>2 DEF outcomeSet
  <2>. QED
    BY <1>1, <1>2, <1>6, <2>1 DEF Verify, EndTyped, TypeOK
<1>. QED
  BY <1>3, <1>4, <1>5, <1>6 DEF Fail

\* The bound on adverse events is on a number.
LEMMA AdverseTyped ==
    ASSUME TypeOK, UNCHANGED adversities \/ \E kind : Happens(kind)
    PROVE  adversities' \in Nat
<1>1. adversities \in Nat
  BY DEF TypeOK
<1>. QED
  BY <1>1 DEF Happens

\* A write by anybody keeps the types of the objects.
LEMMA WriteTyped ==
    ASSUME TypeOK, NEW s \in Sessions \cup {Outsider}, NEW o, NEW kind \in kinds,
           write(s, o, kind)
    PROVE  object' \in [seeds -> versionSet] /\ generations' \in Nat
<1>1. [generation |-> generations + 1, kind |-> kind, by |-> s] \in versionSet
  BY DEF versionSet, TypeOK
<1>. QED
  BY <1>1 DEF write, TypeOK, versionSet

\* What a loop finds out about a seed has the right type.
LEMMA SeedsTyped ==
    ASSUME TypeOK, NEW s \in Sessions, NEW preexisting \in BOOLEAN
    PROVE  /\ item(s) \in seeds
           /\ call[s].seed \in [seeds -> [generation : Nat,
                                          preexisting : BOOLEAN]]
           /\ withSeed(s, preexisting)
                  \in [seeds -> [generation : Nat, preexisting : BOOLEAN]]
<1>1. call[s] \in callSet
  BY DEF TypeOK
<1>2. /\ item(s) \in seeds
      /\ call[s].seed \in [seeds -> [generation : Nat, preexisting : BOOLEAN]]
  BY <1>1 DEF callSet, item
<1>3. object[item(s)].generation \in Nat
  BY <1>2 DEF TypeOK
<1>4. foundAt(item(s), preexisting) \in [generation : Nat,
                                         preexisting : BOOLEAN]
  BY <1>3 DEF foundAt
<1>. QED
  BY <1>2, <1>4 DEF withSeed

\* A turn of a loop keeps the types.
LEMMA TurnTyped ==
    ASSUME TypeOK, NEW s \in Sessions,
           NEW seed \in [seeds -> [generation : Nat, preexisting : BOOLEAN]],
           NEW location \in locations, NEW next \in locations,
           Turn(s, seed, location, next)
    PROVE  EndTyped /\ call' \in [Sessions -> callSet]
<1>. USE StoreAssumption DEF StoreAssumption
<1>1. EndTyped
  BY EndsTyped DEF Turn
<1>2. call[s] \in callSet
  BY DEF TypeOK
<1>3. /\ call[s].index \in seeds /\ 1 \in seeds
      /\ call[s].index < SeedCount => call[s].index + 1 \in seeds
  BY <1>2 DEF callSet, seeds
<1>4. \A i \in seeds : [call[s] EXCEPT !.seed = seed, !.index = i] \in callSet
  BY <1>2 DEF callSet
<1>. QED
  BY <1>1, <1>3, <1>4 DEF Turn, TypeOK

\* A new observation in a call keeps the call's type.
LEMMA CallFieldsTyped ==
    ASSUME NEW c \in callSet
    PROVE  /\ \A v \in [generation : Nat, kind : kinds] :
                  [c EXCEPT !.prior = v] \in callSet
           /\ \A g \in Nat : [c EXCEPT !.acquired = g] \in callSet
           /\ \A g \in Nat : [c EXCEPT !.released = g] \in callSet
           /\ c.prior \in [generation : Nat, kind : kinds]
<1>1. \A v \in [generation : Nat, kind : kinds] :
          [c EXCEPT !.prior = v] \in callSet
  BY DEF callSet
<1>2. \A g \in Nat : [c EXCEPT !.acquired = g] \in callSet
  BY DEF callSet
<1>3. \A g \in Nat : [c EXCEPT !.released = g] \in callSet
  BY DEF callSet
<1>4. c.prior \in [generation : Nat, kind : kinds]
  BY DEF callSet
<1>. QED
  BY <1>1, <1>2, <1>3, <1>4

\* What a call observes of the objects changes only its own record.
LEMMA ReadStepTyped ==
    ASSUME TypeOK, NEW s \in Sessions,
           \/ Preflight(s) \/ KeepSeed(s) \/ DescribeCreated(s) \/ Reread(s)
           \/ Observe(s) \/ ExplainCreate(s) \/ ReadLock(s)
           \/ DescribeAcquired(s) \/ ExplainProbe(s) \/ DescribeReleased(s)
           \/ Final(s)
    PROVE  TypeOK'
<1>1. /\ {"idle", "observe", "readLock", "acquire"} \subseteq locations
      /\ seeding \subseteq locations /\ locking \subseteq locations
  BY DEF locations
<1>2. /\ {"preflight", "create", "reread"} \subseteq seeding
      /\ {"probe", "release", "final"} \subseteq locking
  BY DEF seeding, locking
<1>3. call[s] \in callSet /\ lock \in seeds
  BY StoreAssumption DEF StoreAssumption, TypeOK, lock, seeds
<1>4. object[lock].generation \in Nat /\ object[lock].kind \in kinds
  BY <1>3 DEF TypeOK
<1>5. /\ call[s].seed \in [seeds -> [generation : Nat, preexisting : BOOLEAN]]
      /\ \A v \in BOOLEAN : withSeed(s, v)
             \in [seeds -> [generation : Nat, preexisting : BOOLEAN]]
  BY SeedsTyped
<1>6. UNCHANGED <<provider, valid, adversities, observers>>
  BY DEF Preflight, KeepSeed, DescribeCreated, Reread, Observe, ExplainCreate,
         ReadLock, DescribeAcquired, ExplainProbe, DescribeReleased, Final
<1>7. EndTyped /\ call' \in [Sessions -> callSet]
  <2>1. CASE \E seed \in [seeds -> [generation : Nat, preexisting : BOOLEAN]],
                location \in locations, next \in locations :
                 Turn(s, seed, location, next)
    BY <2>1, TurnTyped
  <2>2. CASE FailAs(s, FALSE) /\ UNCHANGED <<call, completed>>
    BY <2>2, EndsTyped DEF TypeOK
  <2>3. CASE Stop(s)
    BY <2>3, EndsTyped DEF Stop, TypeOK
  <2>4. CASE \E m \in BOOLEAN : Verify(s, m) /\ UNCHANGED call
    BY <2>4, EndsTyped DEF TypeOK
  <2>5. CASE (\E next \in locations : Goto(s, next)) /\ UNCHANGED call
    BY <2>5, EndsTyped DEF TypeOK
  <2>6. CASE Preflight(s) \/ KeepSeed(s) \/ DescribeCreated(s) \/ Reread(s)
    BY <1>1, <1>2, <1>5, <2>1, <2>2, <2>3, <2>6
       DEF Preflight, KeepSeed, DescribeCreated, Reread, TakeSeed
  <2>7. CASE Observe(s)
    <3>1. createdSome(s) \in BOOLEAN
      BY DEF createdSome
    <3>. QED
      BY <1>1, <1>5, <2>1, <2>3, <2>4, <2>7, <3>1 DEF Observe
  <2>8. CASE ExplainCreate(s) \/ ExplainProbe(s)
    BY <1>1, <1>2, <2>3, <2>5, <2>8 DEF ExplainCreate, ExplainProbe
  <2>9. CASE ReadLock(s)
    <3>1. CASE Goto(s, "acquire") /\ call' = [call EXCEPT ![s].prior =
                 [generation |-> object[lock].generation,
                  kind |-> object[lock].kind]]
      <4>1. [call[s] EXCEPT !.prior = [generation |-> object[lock].generation,
                                       kind |-> object[lock].kind]] \in callSet
        BY <1>3, <1>4, CallFieldsTyped
      <4>. QED
        BY <1>1, <3>1, <4>1, EndsTyped DEF TypeOK
    <3>. QED
      BY <2>3, <2>9, <3>1 DEF ReadLock
  <2>10. CASE DescribeAcquired(s)
    <3>1. CASE Goto(s, "probe") /\ call' = [call EXCEPT ![s].acquired =
                                                  object[lock].generation]
      <4>1. [call[s] EXCEPT !.acquired = object[lock].generation] \in callSet
        BY <1>3, <1>4, CallFieldsTyped
      <4>. QED
        BY <1>1, <1>2, <3>1, <4>1, EndsTyped DEF TypeOK
    <3>. QED
      BY <2>3, <2>10, <3>1 DEF DescribeAcquired
  <2>11. CASE DescribeReleased(s)
    <3>1. CASE Goto(s, "final") /\ call' = [call EXCEPT ![s].released =
                                                  object[lock].generation]
      <4>1. [call[s] EXCEPT !.released = object[lock].generation] \in callSet
        BY <1>3, <1>4, CallFieldsTyped
      <4>. QED
        BY <1>1, <1>2, <3>1, <4>1, EndsTyped DEF TypeOK
    <3>. QED
      BY <2>3, <2>11, <3>1 DEF DescribeReleased
  <2>12. CASE Final(s)
    BY <2>3, <2>4, <2>12 DEF Final
  <2>. QED
    BY <2>6, <2>7, <2>8, <2>9, <2>10, <2>11, <2>12
<1>. QED
  BY <1>6, <1>7 DEF TypeOK, EndTyped, provider, observers

\* A command, answered or not, keeps the types.
LEMMA CommandTyped ==
    ASSUME TypeOK, NEW s \in Sessions,
           \/ Create(s) \/ CreateError(s) \/ Acquire(s) \/ AcquireError(s)
           \/ Probe(s) \/ Release(s) \/ ReleaseError(s)
    PROVE  TypeOK'
<1>1. {"describeCreated", "explainCreate", "describeAcquired", "explainProbe",
       "describeReleased"} \subseteq locations
  BY DEF locations, seeding, locking
<1>2. EndTyped /\ UNCHANGED call
  <2>1. UNCHANGED call
    BY DEF Create, CreateError, Acquire, AcquireError, Probe,
           Release, ReleaseError
  <2>2. CASE \E next \in locations : Goto(s, next)
    BY <2>1, <2>2, EndsTyped
  <2>3. CASE UNCHANGED completed /\ (Fail(s) \/ FailAs(s, FALSE))
    BY <2>1, <2>3, EndsTyped
  <2>. QED
    BY <1>1, <2>1, <2>2, <2>3 DEF Create, CreateError, Acquire, AcquireError,
        Probe, Release, ReleaseError
<1>3. /\ object' \in [seeds -> versionSet] /\ generations' \in Nat
  <2>1. CASE \E o : \E kind \in kinds : write(s, o, kind)
    BY <2>1, WriteTyped
  <2>2. CASE UNCHANGED provider
    BY <2>2 DEF provider, TypeOK, versionSet
  <2>3. "seed" \in kinds /\ "held" \in kinds /\ call[s].prior.kind \in kinds
    BY CallFieldsTyped DEF kinds, TypeOK
  <2>. QED
    BY <2>1, <2>2, <2>3 DEF Create, CreateError, Acquire, AcquireError,
        Probe, Release, ReleaseError, Acquires, Releases
<1>4. took' \in [Sessions -> BOOLEAN]
  <2>1. \/ UNCHANGED took
        \/ took' = [took EXCEPT ![s] = TRUE]
    BY DEF Create, CreateError, Acquire, AcquireError, Probe,
           Release, ReleaseError, Acquires, observers
  <2>. QED
    BY <2>1 DEF TypeOK
<1>5. call' \in [Sessions -> callSet]
  BY <1>2 DEF TypeOK
<1>6. UNCHANGED <<valid, disturbed>>
  BY DEF Create, CreateError, Acquire, AcquireError, Probe,
         Release, ReleaseError, observers
<1>7. adversities' \in Nat
  <2>1. UNCHANGED adversities \/ \E kind : Happens(kind)
    BY DEF Create, CreateError, Acquire, AcquireError, Probe,
           Release, ReleaseError
  <2>. QED
    BY <2>1, AdverseTyped
<1>. QED
  BY <1>2, <1>3, <1>4, <1>5, <1>6, <1>7 DEF TypeOK, EndTyped, versionSet

\* The values a call starts and ends with are typed.
LEMMA StartsTyped ==
    /\ noCall \in callSet
    /\ noOutcome \in outcomeSet /\ ~noOutcome.verified
    /\ [noOutcome EXCEPT !.failed = TRUE] \in outcomeSet
    /\ ~[noOutcome EXCEPT !.failed = TRUE].verified
    /\ noObject \in versionSet
<1>1. noCall \in callSet
  <2>1. 1 \in seeds
    BY StoreAssumption DEF StoreAssumption, seeds
  <2>2. [o \in seeds |-> noSeed]
            \in [seeds -> [generation : Nat, preexisting : BOOLEAN]]
    BY DEF noSeed
  <2>3. [generation |-> 0, kind |-> "none"] \in [generation : Nat, kind : kinds]
    BY DEF kinds
  <2>. QED
    BY <2>1, <2>2, <2>3 DEF noCall, callSet
<1>2. /\ noOutcome \in outcomeSet /\ ~noOutcome.verified
      /\ [noOutcome EXCEPT !.failed = TRUE] \in outcomeSet
      /\ ~[noOutcome EXCEPT !.failed = TRUE].verified
  BY DEF noOutcome, outcomeSet
<1>3. noObject \in versionSet
  BY DEF noObject, versionSet, kinds
<1>. QED
  BY <1>1, <1>2, <1>3

\* Beginning a call keeps the types.
LEMMA OpenTyped ==
    ASSUME TypeOK, NEW s \in Sessions, SeedControl(s) \/ LockRoundTrip(s)
    PROVE  TypeOK'
<1>1. PICK location \in locations : \E admitted : open(s, admitted, location)
  BY DEF SeedControl, LockRoundTrip, locations, seeding
<1>2. /\ call' \in [Sessions -> callSet]
      /\ took' \in [Sessions -> BOOLEAN]
  BY <1>1, StartsTyped DEF open, TypeOK
<1>3. /\ outcome' \in [Sessions -> outcomeSet]
      /\ \A t \in Sessions : ~(outcome'[t].failed /\ outcome'[t].verified)
  <2>1. PICK v \in outcomeSet : ~v.verified
                                /\ outcome' = [outcome EXCEPT ![s] = v]
    BY <1>1, StartsTyped DEF open
  <2>. QED
    BY <2>1 DEF TypeOK
<1>4. pc' \in [Sessions -> locations]
  BY <1>1 DEF open, TypeOK
<1>. QED
  BY <1>1, <1>2, <1>3, <1>4 DEF open, TypeOK, provider

\* So do a crash and a failed request.
LEMMA StopTyped ==
    ASSUME TypeOK, NEW s \in Sessions, Crash(s) \/ RequestError(s)
    PROVE  TypeOK'
<1>1. EndTyped /\ UNCHANGED call
  <2>1. CASE Crash(s)
    <3>1. pc' \in [Sessions -> locations]
      BY <2>1 DEF Crash, TypeOK, locations
    <3>2. /\ outcome' \in [Sessions -> outcomeSet]
          /\ \A t \in Sessions : ~(outcome'[t].failed /\ outcome'[t].verified)
      BY <2>1, StartsTyped DEF Crash, TypeOK
    <3>. QED
      BY <2>1, <3>1, <3>2 DEF Crash, EndTyped, TypeOK
  <2>2. CASE RequestError(s)
    BY <2>2, EndsTyped DEF RequestError, Stop
  <2>. QED
    BY <2>1, <2>2
<1>2. UNCHANGED <<provider, valid, observers>>
  BY DEF Crash, RequestError
<1>3. adversities' \in Nat
  BY AdverseTyped DEF Crash, RequestError
<1>. QED
  BY <1>1, <1>2, <1>3 DEF TypeOK, EndTyped, provider, observers

\* And what others do to the objects.
LEMMA OthersTyped ==
    ASSUME TypeOK,
           Expire \/ \E o \in seeds : OthersWrite(o) \/ OthersDelete(o)
    PROVE  TypeOK'
<1>. adversities' \in Nat
  BY AdverseTyped DEF Expire, OthersWrite, OthersDelete
<1>1. CASE Expire
  BY <1>1 DEF Expire, TypeOK, provider, observers
<1>2. ASSUME NEW o \in seeds, OthersWrite(o)
      PROVE  TypeOK'
  <2>1. \E kind \in kinds : write(Outsider, o, kind)
    BY <1>2 DEF OthersWrite, kinds
  <2>2. object' \in [seeds -> versionSet] /\ generations' \in Nat
    BY <2>1, WriteTyped
  <2>3. disturbed' \in BOOLEAN
    BY <1>2 DEF OthersWrite
  <2>. QED
    BY <1>2, <2>2, <2>3 DEF OthersWrite, Aside, TypeOK, versionSet
<1>3. ASSUME NEW o \in seeds, OthersDelete(o)
      PROVE  TypeOK'
  <2>1. object' \in [seeds -> versionSet] /\ disturbed' \in BOOLEAN
    BY <1>3, StartsTyped DEF OthersDelete, TypeOK, versionSet
  <2>. QED
    BY <1>3, <2>1 DEF OthersDelete, Aside, TypeOK, versionSet
<1>. QED
  BY <1>1, <1>2, <1>3

\* Every step keeps the types.
LEMMA StoreTypeStep ==
    ASSUME TypeOK, [Next]_vars
    PROVE  TypeOK'
<1>1. CASE UNCHANGED vars
  BY <1>1 DEF vars, provider, observers, TypeOK
<1>. QED
  BY <1>1, ReadStepTyped, CommandTyped, OpenTyped, StopTyped, OthersTyped
     DEF Next, SessionStep, AdverseSession

\* The initial state is typed.
LEMMA StoreInitTyped == Init => TypeOK
<1>1. "idle" \in locations
  BY DEF locations
<1>2. ASSUME Init
      PROVE  /\ object \in [seeds -> versionSet]
             /\ call \in [Sessions -> callSet]
             /\ took \in [Sessions -> BOOLEAN]
  BY <1>2, StartsTyped DEF Init
<1>3. ASSUME Init
      PROVE  /\ outcome \in [Sessions -> outcomeSet]
             /\ \A s \in Sessions : ~(outcome[s].failed /\ outcome[s].verified)
  BY <1>3, StartsTyped DEF Init
<1>4. Init => /\ generations \in Nat /\ adversities \in Nat
              /\ completed \subseteq {"k4", "k5"}
              /\ pc \in [Sessions -> locations]
  BY <1>1 DEF Init
<1>5. Init => valid \in BOOLEAN /\ disturbed \in BOOLEAN
  BY DEF Init
<1>. QED
  BY <1>2, <1>3, <1>4, <1>5 DEF TypeOK, versionSet

\* Every variable keeps its type in every behaviour of K4 and K5.
THEOREM StoreTypeCorrect == Spec => []TypeOK
<1>. QED
  BY StoreInitTyped, StoreTypeStep, PTL DEF Spec
-----------------------------------------------------------------------------
(* The lock.                                                               *)

StepOf(s) == SeedControl(s) \/ LockRoundTrip(s) \/ SessionStep(s)
                \/ AdverseSession(s)

engaged == {"acquire", "probe", "explainProbe", "release"}

\* A session's step changes nobody else's call.
LEMMA OthersStay ==
    ASSUME TypeOK, NEW s \in Sessions, StepOf(s), NEW t \in Sessions, t # s
    PROVE  pc'[t] = pc[t] /\ call'[t] = call[t]
<1>1. \/ UNCHANGED pc
      \/ \E v : pc' = [pc EXCEPT ![s] = v]
  <2>1. CASE SeedControl(s) \/ LockRoundTrip(s)
    BY <2>1 DEF SeedControl, LockRoundTrip, open
  <2>2. CASE Preflight(s) \/ KeepSeed(s) \/ Create(s) \/ ExplainCreate(s)
             \/ DescribeCreated(s) \/ Reread(s) \/ Observe(s)
    BY <2>2 DEF Preflight, KeepSeed, Create, ExplainCreate, DescribeCreated,
                Reread, Observe, TakeSeed, Turn, Goto, FailAs, Fail, Stop, Verify
  <2>3. CASE ReadLock(s) \/ Acquire(s) \/ DescribeAcquired(s) \/ Probe(s)
             \/ ExplainProbe(s) \/ Release(s) \/ DescribeReleased(s) \/ Final(s)
    BY <2>3 DEF ReadLock, Acquire, DescribeAcquired, Probe, ExplainProbe,
                Release, DescribeReleased, Final, Goto, FailAs, Fail, Stop, Verify
  <2>4. CASE AdverseSession(s)
    BY <2>4 DEF AdverseSession, Crash, RequestError, CreateError,
                AcquireError, ReleaseError, Goto, FailAs, Fail, Stop
  <2>. QED
    BY <2>1, <2>2, <2>3, <2>4 DEF StepOf, SessionStep
<1>2. call'[t] = call[t]
  <2>1. CASE SeedControl(s) \/ LockRoundTrip(s)
    BY <2>1 DEF SeedControl, LockRoundTrip, open, TypeOK
  <2>2. CASE \E seed, location, next : Turn(s, seed, location, next)
    BY <2>2 DEF Turn, TypeOK
  <2>3. CASE Preflight(s) \/ KeepSeed(s) \/ Create(s) \/ ExplainCreate(s)
             \/ DescribeCreated(s) \/ Reread(s) \/ Observe(s)
    BY <2>2, <2>3 DEF Preflight, KeepSeed, Create, ExplainCreate,
                DescribeCreated, Reread, Observe, TakeSeed, Stop
  <2>4. CASE ReadLock(s) \/ Acquire(s) \/ DescribeAcquired(s) \/ Probe(s)
             \/ ExplainProbe(s) \/ Release(s) \/ DescribeReleased(s) \/ Final(s)
    BY <2>4 DEF ReadLock, Acquire, DescribeAcquired, Probe, ExplainProbe,
                Release, DescribeReleased, Final, Stop, TypeOK
  <2>5. CASE AdverseSession(s)
    BY <2>5 DEF AdverseSession, Crash, RequestError, CreateError,
                AcquireError, ReleaseError, Stop
  <2>. QED
    BY <2>1, <2>3, <2>4, <2>5 DEF StepOf, SessionStep
<1>. QED
  BY <1>1, <1>2 DEF TypeOK

\* The steps after which a session is about to acquire or holds the lock.
LEMMA Engages ==
    ASSUME TypeOK, NEW s \in Sessions, StepOf(s), pc'[s] \in engaged
    PROVE  \/ pc'[s] = "acquire" /\ ReadLock(s)
           \/ pc'[s] = "probe" /\ DescribeAcquired(s)
           \/ /\ pc[s] \in {"probe", "explainProbe"}
              /\ pc'[s] \in {"explainProbe", "release"}
              /\ UNCHANGED <<provider, call, disturbed>>
<1>1. CASE SeedControl(s) \/ LockRoundTrip(s)
  BY <1>1 DEF SeedControl, LockRoundTrip, open, engaged, TypeOK
<1>2. CASE Preflight(s) \/ KeepSeed(s) \/ Create(s) \/ ExplainCreate(s)
           \/ DescribeCreated(s) \/ Reread(s) \/ Observe(s) \/ CreateError(s)
  BY <1>2 DEF Preflight, KeepSeed, Create, ExplainCreate, DescribeCreated,
              Reread, Observe, TakeSeed, Turn, Goto, FailAs, Fail, Stop, Verify,
              CreateError, engaged, TypeOK
<1>3. CASE ReadLock(s) \/ DescribeAcquired(s)
  BY <1>3 DEF ReadLock, DescribeAcquired, Goto, FailAs, Fail, Stop, engaged,
              TypeOK
<1>4. CASE Acquire(s) \/ AcquireError(s) \/ Release(s) \/ ReleaseError(s)
           \/ DescribeReleased(s) \/ Final(s) \/ Crash(s) \/ RequestError(s)
  BY <1>4 DEF Acquire, AcquireError, Release, ReleaseError, DescribeReleased,
              Final, Crash, RequestError, Goto, FailAs, Fail, Stop, Verify,
              engaged, TypeOK
<1>5. CASE Probe(s) \/ ExplainProbe(s)
  BY <1>5 DEF Probe, ExplainProbe, Goto, FailAs, Fail, Stop,
              observers, engaged, TypeOK
<1>. QED
  BY <1>1, <1>2, <1>3, <1>4, <1>5 DEF StepOf, SessionStep, AdverseSession

\* What a session can do to the objects, and under which generation.
LEMMA SessionWrites ==
    ASSUME TypeOK, NEW s \in Sessions, StepOf(s)
    PROVE  /\ UNCHANGED disturbed
           /\ \/ UNCHANGED provider
              \/ /\ pc[s] = "create" /\ generationMatches(item(s), 0)
                 /\ write(s, item(s), "seed")
              \/ pc[s] = "acquire" /\ Acquires(s)
              \/ pc[s] = "release" /\ Releases(s)
<1>1. CASE SeedControl(s) \/ LockRoundTrip(s)
  BY <1>1 DEF SeedControl, LockRoundTrip, open
<1>2. CASE Preflight(s) \/ KeepSeed(s) \/ Create(s) \/ ExplainCreate(s)
           \/ DescribeCreated(s) \/ Reread(s) \/ Observe(s)
  BY <1>2 DEF Preflight, KeepSeed, Create, ExplainCreate, DescribeCreated,
              Reread, Observe, observers
<1>3. CASE ReadLock(s) \/ Acquire(s) \/ DescribeAcquired(s) \/ Probe(s)
           \/ ExplainProbe(s) \/ Release(s) \/ DescribeReleased(s) \/ Final(s)
  BY <1>3 DEF ReadLock, Acquire, DescribeAcquired, Probe, ExplainProbe, Release,
              DescribeReleased, Final, observers
<1>4. CASE AdverseSession(s)
  BY <1>4 DEF AdverseSession, Crash, RequestError, CreateError,
              AcquireError, ReleaseError, observers
<1>. QED
  BY <1>1, <1>2, <1>3, <1>4 DEF StepOf, SessionStep

\* What happens to the lock record between two states.
LockKept == object'[lock] = object[lock] /\ UNCHANGED disturbed
LockTaken(s) == /\ UNCHANGED disturbed
                /\ object'[lock].generation = generations + 1
                /\ \/ object[lock].generation = 0
                   \/ /\ pc[s] = "acquire"
                      /\ object[lock].generation = call[s].prior.generation
                   \/ /\ pc[s] = "release"
                      /\ object[lock].generation = call[s].acquired
LockDisturbed == /\ disturbed'
                 /\ object'[lock].generation \in {0, generations + 1}

\* A numbered provider stays numbered.  A new version of the lock has a
\* generation nobody has seen.
LEMMA VersionsNumbered ==
    ASSUME TypeOK, Numbered, NEW s \in Sessions \cup {Outsider},
           NEW o \in seeds, NEW kind, write(s, o, kind)
    PROVE  /\ Numbered' /\ generations' = generations + 1
           /\ object'[o].generation = generations'
           /\ lock # o => object'[lock] = object[lock]
<1>. lock \in seeds
  BY StoreAssumption DEF StoreAssumption, lock, seeds
<1>1. /\ generations \in Nat
      /\ \A i \in seeds : object[i].generation \in Nat
  BY DEF TypeOK
<1>. QED
  BY <1>1 DEF write, Numbered, TypeOK

\* The lock record survives, is replaced under a known generation, or is
\* disturbed.
LEMMA LockChanges ==
    ASSUME TypeOK, Numbered, [Next]_vars
    PROVE  /\ Numbered' /\ generations' \in {generations, generations + 1}
           /\ \/ LockKept \/ LockDisturbed
              \/ \E s \in Sessions : /\ LockTaken(s) /\ StepOf(s)
                                     /\ generations' = generations + 1
<1>. lock \in seeds
  BY StoreAssumption DEF StoreAssumption, lock, seeds
<1>1. ASSUME UNCHANGED <<provider, disturbed>>
      PROVE  Numbered' /\ UNCHANGED generations /\ LockKept
  BY <1>1 DEF provider, Numbered, LockKept
<1>2. ASSUME NEW s \in Sessions, StepOf(s)
      PROVE  /\ Numbered' /\ generations' \in {generations, generations + 1}
             /\ \/ LockKept
                \/ LockTaken(s) /\ StepOf(s) /\ generations' = generations + 1
  <2>1. CASE UNCHANGED provider
    BY <1>1, <1>2, <2>1, SessionWrites DEF provider
  <2>2. CASE /\ pc[s] = "create" /\ generationMatches(item(s), 0)
             /\ write(s, item(s), "seed")
    <3>1. item(s) \in seeds
      BY SeedsTyped
    <3>2. UNCHANGED disturbed
      BY <1>2, SessionWrites
    <3>. QED
      BY <1>2, <2>2, <3>1, <3>2, VersionsNumbered
         DEF generationMatches, LockKept, LockTaken
  <2>3. CASE pc[s] = "acquire" /\ Acquires(s)
    <3>1. UNCHANGED disturbed
      BY <1>2, SessionWrites
    <3>. QED
      BY <1>2, <2>3, <3>1, VersionsNumbered
         DEF Acquires, generationMatches, LockTaken
  <2>4. CASE pc[s] = "release" /\ Releases(s)
    <3>1. UNCHANGED disturbed
      BY <1>2, SessionWrites
    <3>. QED
      BY <1>2, <2>4, <3>1, VersionsNumbered
         DEF Releases, generationMatches, LockTaken
  <2>. QED
    BY <1>2, <2>1, <2>2, <2>3, <2>4, SessionWrites
<1>3. CASE Expire
  BY <1>1, <1>3 DEF Expire, observers
<1>4. ASSUME NEW o \in seeds, OthersWrite(o)
      PROVE  /\ Numbered' /\ generations' = generations + 1
             /\ LockKept \/ LockDisturbed
  <2>1. PICK kind : write(Outsider, o, kind)
    BY <1>4 DEF OthersWrite
  <2>2. CASE o = lock
    BY <1>4, <2>1, <2>2, VersionsNumbered DEF OthersWrite, LockDisturbed
  <2>3. CASE o # lock
    <3>1. disturbed' = disturbed
      BY <1>4, <2>3 DEF OthersWrite, TypeOK
    <3>. QED
      BY <2>1, <2>3, <3>1, VersionsNumbered DEF LockKept
  <2>. QED
    BY <2>2, <2>3
<1>5. ASSUME NEW o \in seeds, OthersDelete(o)
      PROVE  /\ Numbered' /\ generations' = generations
             /\ LockKept \/ LockDisturbed
  <2>1. /\ UNCHANGED generations
        /\ object' = [object EXCEPT ![o] = noObject]
    BY <1>5 DEF OthersDelete
  <2>2. noObject.generation = 0 /\ generations \in Nat
    BY DEF noObject, TypeOK
  <2>3. Numbered'
    BY <2>1, <2>2 DEF Numbered, TypeOK
  <2>4. CASE o = lock
    BY <1>5, <2>1, <2>2, <2>3, <2>4 DEF OthersDelete, LockDisturbed, TypeOK
  <2>5. CASE o # lock
    <3>1. disturbed' = disturbed
      BY <1>5, <2>5 DEF OthersDelete, TypeOK
    <3>. QED
      BY <2>1, <2>3, <2>5, <3>1 DEF LockKept, TypeOK
  <2>. QED
    BY <2>1, <2>3, <2>4, <2>5
<1>6. CASE UNCHANGED vars
  BY <1>1, <1>6 DEF vars, observers
<1>. QED
  BY <1>2, <1>3, <1>4, <1>5, <1>6 DEF Next, StepOf

\* A session stays where it is, or engages in the lock by reading it.
LEMMA Positions ==
    ASSUME TypeOK, [Next]_vars, NEW t \in Sessions, pc'[t] \in engaged
    PROVE  \/ pc'[t] = pc[t] /\ UNCHANGED <<call[t]>> /\ ~StepOf(t)
           \/ pc'[t] = "acquire" /\ ReadLock(t)
           \/ pc'[t] = "probe" /\ DescribeAcquired(t)
           \/ /\ pc[t] \in {"probe", "explainProbe"}
              /\ pc'[t] \in {"explainProbe", "release"}
              /\ UNCHANGED <<provider, call, disturbed>>
<1>1. CASE StepOf(t)
  BY <1>1, Engages
<1>2. CASE ~StepOf(t) /\ \E s \in Sessions : StepOf(s)
  BY <1>2, OthersStay
<1>3. CASE ~StepOf(t) /\ UNCHANGED <<pc, call>>
  BY <1>3
<1>. QED
  BY <1>1, <1>2, <1>3 DEF Next, StepOf, vars, Expire, OthersWrite,
                          OthersDelete, Aside

\* A version that a session is about to replace was read, and it was clean.
LEMMA PriorPinnedStep ==
    ASSUME LockInv, [Next]_vars
    PROVE  PriorPinned'
<1>. lock \in seeds
  BY StoreAssumption DEF StoreAssumption, lock, seeds
<1>0. TypeOK /\ Numbered /\ PriorPinned
  BY DEF LockInv
<1>. SUFFICES ASSUME NEW t \in Sessions, pc'[t] = "acquire"
              PROVE  /\ call'[t].prior.generation \in 1..generations'
                     /\ object'[lock].generation = call'[t].prior.generation =>
                            cleanLock(object'[lock].kind)
  BY DEF PriorPinned, cleanLock
<1>1. generations \in Nat /\ object[lock].generation \in Nat
  BY <1>0 DEF TypeOK
<1>2. CASE ReadLock(t)
  <2>. ~Stop(t)
    BY <1>0 DEF Stop, Fail, FailAs, TypeOK
  <2>1. UNCHANGED provider /\ cleanLock(object[lock].kind)
    BY <1>2 DEF ReadLock
  <2>2. call'[t].prior.generation = object[lock].generation
    BY <1>0, <1>2 DEF ReadLock, TypeOK, callSet
  <2>3. object[lock].generation # 0
    BY <1>0, <2>1 DEF cleanLock, Numbered, noObject
  <2>. QED
    BY <1>0, <1>1, <2>1, <2>2, <2>3 DEF provider, Numbered
<1>3. CASE pc[t] = "acquire" /\ call'[t] = call[t]
  <2>1. /\ call[t].prior.generation \in 1..generations
        /\ object[lock].generation = call[t].prior.generation =>
               cleanLock(object[lock].kind)
    BY <1>0, <1>3 DEF PriorPinned
  <2>2. /\ generations' \in {generations, generations + 1}
        /\ \/ object'[lock] = object[lock]
           \/ object'[lock].generation = generations + 1
           \/ object'[lock].generation = 0
    BY <1>0, LockChanges DEF LockKept, LockTaken, LockDisturbed
  <2>. QED
    BY <1>1, <1>3, <2>1, <2>2
<1>. QED
  BY <1>0, <1>2, <1>3, Positions DEF engaged

\* Nobody takes the lock version a session holds: it is not clean, and it is
\* no other session's.
LEMMA HolderKeepsLock ==
    ASSUME LockInv, NEW t \in Sessions, holding(t), ~disturbed,
           NEW s \in Sessions, s # t, LockTaken(s)
    PROVE  FALSE
<1>1. /\ object[lock].generation = call[t].acquired
      /\ call[t].acquired \in 1..generations
      /\ object[lock].kind = "held" /\ object[lock].by = t
  BY DEF LockInv, HeldPinned
<1>2. object[lock].generation # 0
  BY <1>1
<1>3. CASE pc[s] = "acquire"
           /\ object[lock].generation = call[s].prior.generation
  <2>1. cleanLock(object[lock].kind)
    BY <1>3 DEF LockInv, PriorPinned
  <2>. QED
    BY <1>1, <2>1 DEF cleanLock
<1>4. CASE pc[s] = "release" /\ object[lock].generation = call[s].acquired
  <2>1. object[lock].by = s
    BY <1>4 DEF LockInv, HeldPinned, holding
  <2>. QED
    BY <1>1, <2>1
<1>. QED
  BY <1>2, <1>3, <1>4 DEF LockTaken

\* The lock version a session took is live until it releases it.
LEMMA HeldPinnedStep ==
    ASSUME LockInv, [Next]_vars
    PROVE  HeldPinned'
<1>. lock \in seeds
  BY StoreAssumption DEF StoreAssumption, lock, seeds
<1>0. TypeOK /\ Numbered /\ HeldPinned
  BY DEF LockInv
<1>. SUFFICES
       ASSUME NEW t \in Sessions, pc'[t] \in {"probe", "explainProbe", "release"}
       PROVE  /\ call'[t].acquired \in 1..generations'
              /\ object'[lock].generation = call'[t].acquired =>
                     object'[lock].kind = "held" /\ object'[lock].by = t
              /\ disturbed' \/ object'[lock].generation = call'[t].acquired
  BY DEF HeldPinned, holding
<1>1. generations \in Nat /\ object[lock].generation \in Nat
  BY <1>0 DEF TypeOK
<1>2. CASE DescribeAcquired(t)
  <2>. ~Stop(t)
    BY <1>0 DEF Stop, Fail, FailAs, TypeOK
  <2>1. UNCHANGED provider /\ describesOwn(t, lock, "held")
    BY <1>2 DEF DescribeAcquired
  <2>2. call'[t].acquired = object[lock].generation
    BY <1>0, <1>2 DEF DescribeAcquired, TypeOK, callSet
  <2>3. object[lock].generation # 0
    BY <1>0, <2>1 DEF describesOwn, Numbered, noObject
  <2>. QED
    BY <1>0, <1>1, <2>1, <2>2, <2>3 DEF provider, Numbered, describesOwn
<1>3. ASSUME holding(t)
      PROVE  /\ call[t].acquired \in 1..generations
             /\ object[lock].generation = call[t].acquired =>
                    object[lock].kind = "held" /\ object[lock].by = t
             /\ disturbed \/ object[lock].generation = call[t].acquired
  BY <1>0, <1>3 DEF HeldPinned
<1>4. CASE pc[t] \in {"probe", "explainProbe"}
           /\ UNCHANGED <<provider, call, disturbed>>
  BY <1>3, <1>4 DEF holding, provider
<1>5. CASE pc'[t] = pc[t] /\ UNCHANGED <<call[t]>> /\ ~StepOf(t)
  <2>1. holding(t) /\ call'[t] = call[t]
    BY <1>5 DEF holding
  <2>2. generations' \in {generations, generations + 1}
    BY <1>0, LockChanges
  <2>3. CASE LockKept
    BY <1>1, <1>3, <2>1, <2>2, <2>3 DEF LockKept
  <2>4. CASE LockDisturbed
    BY <1>1, <1>3, <2>1, <2>2, <2>4 DEF LockDisturbed
  <2>5. ASSUME NEW s \in Sessions, LockTaken(s), StepOf(s)
        PROVE  disturbed' /\ object'[lock].generation = generations + 1
    BY <1>5, <2>1, <2>5, HolderKeepsLock DEF LockTaken
  <2>6. CASE \E s \in Sessions : LockTaken(s) /\ StepOf(s)
    BY <1>1, <1>3, <2>1, <2>2, <2>5, <2>6
  <2>. QED
    BY <1>0, <2>3, <2>4, <2>6, LockChanges
<1>. QED
  BY <1>0, <1>2, <1>4, <1>5, Positions DEF engaged

\* LockInv is inductive.
LEMMA LockInvStep ==
    ASSUME LockInv, [Next]_vars
    PROVE  LockInv'
BY StoreTypeStep, LockChanges, PriorPinnedStep, HeldPinnedStep DEF LockInv

\* And it holds initially.
LEMMA LockInvInit == Init => LockInv
<1>1. Init => Numbered
  BY DEF Init, Numbered, noObject
<1>2. Init => PriorPinned /\ HeldPinned
  BY DEF Init, PriorPinned, HeldPinned, holding
<1>. QED
  BY <1>1, <1>2, StoreInitTyped DEF LockInv

\* lockRoundTrip's lock is exclusive as long as only the protocol writes the
\* lock record: a held record is replaced by its holder alone, because every
\* other session's expected generation is that of a clean record.
THEOREM LocksAreExclusive == Spec => []LockExclusive
<1>1. ASSUME LockInv
      PROVE  LockExclusive
  <2>. SUFFICES ASSUME ~disturbed, NEW s \in Sessions, NEW t \in Sessions,
                       holding(s), holding(t)
                PROVE  s = t
    BY DEF LockExclusive
  <2>. QED
    BY <1>1 DEF LockInv, HeldPinned
<1>. QED
  BY <1>1, LockInvInit, LockInvStep, PTL DEF Spec

\* The conditional uploads of K4 and K5 replace only what their caller has
\* seen: a seed is created where there is none, an acquire replaces the clean
\* lock record that was read, a release the caller's own held record.
THEOREM NothingIsOverwritten == Spec => NeverOverwrites
<1>1. ASSUME LockInv, [Next]_vars
      PROVE  [\A o \in seeds : OverwritesNothing(o)]_vars
  <2>0. TypeOK /\ Numbered /\ PriorPinned /\ HeldPinned
    BY <1>1 DEF LockInv
  <2>. lock \in seeds
    BY StoreAssumption DEF StoreAssumption, lock, seeds
  <2>1. ASSUME NEW s \in Sessions, StepOf(s), NEW o \in seeds,
               object'[o] # object[o]
        PROVE  OverwritesNothing(o)
    <3>1. CASE UNCHANGED provider
      BY <2>1, <3>1 DEF provider
    <3>2. CASE /\ generationMatches(item(s), 0)
               /\ write(s, item(s), "seed")
      <4>1. item(s) = o
        BY <2>0, <2>1, <3>2 DEF write, TypeOK
      <4>2. object[o] = noObject
        BY <2>1, <2>0, <3>2, <4>1 DEF generationMatches, Numbered
      <4>3. object'[o].kind = "seed"
        BY <2>0, <3>2, <4>1 DEF write, TypeOK
      <4>. QED
        BY <4>2, <4>3 DEF OverwritesNothing
    <3>3. CASE pc[s] = "acquire" /\ Acquires(s)
      <4>1. o = lock /\ object'[o].kind = "held" /\ object'[o].by = s
        BY <2>0, <2>1, <3>3 DEF Acquires, write, TypeOK
      <4>2. /\ cleanLock(object[lock].kind)
            /\ object[lock].generation = call[s].prior.generation
        BY <2>0, <3>3 DEF Acquires, generationMatches, PriorPinned
      <4>. QED
        BY <4>1, <4>2 DEF OverwritesNothing
    <3>4. CASE pc[s] = "release" /\ Releases(s)
      <4>1. /\ o = lock /\ object'[o].kind = call[s].prior.kind
            /\ object'[o].by = s
        BY <2>0, <2>1, <3>4 DEF Releases, write, TypeOK
      <4>2. object[lock].kind = "held" /\ object[lock].by = s
        BY <2>0, <3>4 DEF Releases, generationMatches, HeldPinned, holding
      <4>. QED
        BY <4>1, <4>2 DEF OverwritesNothing
    <3>. QED
      BY <2>0, <2>1, <3>1, <3>2, <3>3, <3>4, SessionWrites
  <2>2. ASSUME NEW i \in seeds, OthersWrite(i) \/ OthersDelete(i),
               NEW o \in seeds
        PROVE  OverwritesNothing(o)
    <3>1. CASE OthersWrite(i)
      <4>1. PICK kind : write(Outsider, i, kind)
        BY <3>1 DEF OthersWrite
      <4>2. object'[o] # object[o] => object'[o].by = Outsider
        BY <2>0, <4>1 DEF write, TypeOK
      <4>. QED
        BY <4>2, StoreAssumption DEF OverwritesNothing, StoreAssumption
    <3>2. CASE OthersDelete(i)
      <4>1. object'[o] # object[o] => object'[o].by = Outsider
        BY <2>0, <3>2 DEF OthersDelete, noObject, TypeOK
      <4>. QED
        BY <4>1, StoreAssumption DEF OverwritesNothing, StoreAssumption
    <3>. QED
      BY <2>2, <3>1, <3>2
  <2>3. ASSUME UNCHANGED object
        PROVE  \A o \in seeds : OverwritesNothing(o)
    BY <2>3 DEF OverwritesNothing
  <2>4. \A o \in seeds : OverwritesNothing(o)
    <3>1. CASE UNCHANGED vars \/ Expire
      BY <2>3, <3>1 DEF vars, provider, Expire
    <3>2. CASE \E s \in Sessions : StepOf(s)
      BY <2>1, <3>2 DEF OverwritesNothing
    <3>. QED
      BY <1>1, <2>2, <3>1, <3>2 DEF Next, StepOf
  <2>. QED
    BY <2>4
<1>. QED
  BY <1>1, LockInvInit, LockInvStep, PTL DEF Spec, NeverOverwrites
-----------------------------------------------------------------------------
(* Reports.                                                                *)

\* A call that took the lock is still in the part that reports, or has
\* reported, or has crashed.
Reported(s) ==
    /\ pc[s] # "idle" => outcome[s].step = "none"
    /\ took[s] => \/ pc[s] \in locking
                          \/ /\ pc[s] = "idle"
                             /\ outcome[s].step = "none" \/ outcome[s].mutated

ReportInv == TypeOK /\ \A s \in Sessions : Reported(s)

\* Nobody else's report changes.
LEMMA ReportsStay ==
    ASSUME TypeOK, NEW s \in Sessions, StepOf(s), NEW t \in Sessions, t # s
    PROVE  outcome'[t] = outcome[t] /\ took'[t] = took[t]
<1>1. CASE SeedControl(s) \/ LockRoundTrip(s)
  BY <1>1 DEF SeedControl, LockRoundTrip, open, TypeOK
<1>2. CASE Preflight(s) \/ KeepSeed(s) \/ Create(s) \/ ExplainCreate(s)
           \/ DescribeCreated(s) \/ Reread(s) \/ Observe(s)
  <2>1. outcome'[t] = outcome[t]
    BY <1>2 DEF Preflight, KeepSeed, Create, ExplainCreate, DescribeCreated,
                Reread, Observe, TakeSeed, Turn, Goto, FailAs, Fail, Stop,
                Verify, TypeOK
  <2>2. took'[t] = took[t]
    BY <1>2 DEF Preflight, KeepSeed, Create, ExplainCreate, DescribeCreated,
                Reread, Observe, observers, TypeOK
  <2>. QED
    BY <2>1, <2>2
<1>3. CASE ReadLock(s) \/ Acquire(s) \/ DescribeAcquired(s) \/ Probe(s)
           \/ ExplainProbe(s) \/ Release(s) \/ DescribeReleased(s) \/ Final(s)
  <2>1. outcome'[t] = outcome[t]
    BY <1>3 DEF ReadLock, Acquire, DescribeAcquired, Probe, ExplainProbe,
                Release, DescribeReleased, Final, Goto, FailAs, Fail, Stop,
                Verify, TypeOK
  <2>2. took'[t] = took[t]
    BY <1>3 DEF ReadLock, Acquire, Acquires, DescribeAcquired, Probe,
                ExplainProbe, Release, DescribeReleased, Final, observers, TypeOK
  <2>. QED
    BY <2>1, <2>2
<1>4. CASE AdverseSession(s)
  <2>1. outcome'[t] = outcome[t]
    BY <1>4 DEF AdverseSession, Crash, RequestError, CreateError,
                AcquireError, ReleaseError, Goto, FailAs, Fail, Stop, TypeOK
  <2>2. took'[t] = took[t]
    BY <1>4 DEF AdverseSession, Crash, RequestError, CreateError,
                AcquireError, Acquires, ReleaseError, observers, TypeOK
  <2>. QED
    BY <2>1, <2>2
<1>. QED
  BY <1>1, <1>2, <1>3, <1>4 DEF StepOf, SessionStep

\* How a session's own step moves on or reports.
LEMMA Ends ==
    ASSUME TypeOK, NEW s \in Sessions
    PROVE  /\ \A next : Goto(s, next) =>
                  pc'[s] = next /\ outcome'[s] = outcome[s]
           /\ \A m \in BOOLEAN : FailAs(s, m) \/ Verify(s, m) =>
                  pc'[s] = "idle" /\ outcome'[s].mutated = m
           /\ Fail(s) => /\ pc'[s] = "idle"
                         /\ outcome'[s].mutated = mutationReported(s)
<1>1. \A next : Goto(s, next) => pc'[s] = next /\ outcome'[s] = outcome[s]
  BY DEF Goto, TypeOK
<1>2. ASSUME NEW m \in BOOLEAN, FailAs(s, m) \/ Verify(s, m)
      PROVE  pc'[s] = "idle" /\ outcome'[s].mutated = m
  BY <1>2 DEF FailAs, Verify, TypeOK
<1>3. mutationReported(s) \in BOOLEAN
  BY DEF mutationReported
<1>. QED
  BY <1>1, <1>2, <1>3 DEF Fail

\* Before the acquiring write there is nothing to report.
LEMMA EarlyReported ==
    ASSUME TypeOK, NEW s \in Sessions, Reported(s),
           pc[s] \notin locking \cup {"idle"}, took'[s] = took[s],
           \/ pc'[s] = "idle"
           \/ outcome'[s] = outcome[s]
    PROVE  Reported(s)'
BY DEF Reported

\* From the acquiring write on every end reports a mutation.
LEMMA LateReported ==
    ASSUME TypeOK, NEW s \in Sessions, Reported(s),
           pc[s] \in locking \cup {"acquire"},
           \/ pc'[s] \in locking /\ outcome'[s] = outcome[s]
           \/ pc'[s] = "idle" /\ outcome'[s].mutated
           \/ pc'[s] = "idle" /\ outcome'[s].step = "none"
    PROVE  Reported(s)'
<1>1. pc[s] # "idle"
  BY DEF locking
<1>. QED
  BY <1>1 DEF Reported

\* The session that moves keeps its report honest.
LEMMA MoverReported ==
    ASSUME ReportInv, NEW s \in Sessions, StepOf(s)
    PROVE  Reported(s)'
<1>. TypeOK /\ Reported(s)
  BY DEF ReportInv
<1>0. /\ "acquire" \notin locking /\ "readLock" \notin locking
      /\ "observe" \notin locking
      /\ seeding \cap (locking \cup {"idle"}) = {}
      /\ {"describeAcquired", "probe", "explainProbe", "release",
          "describeReleased", "final"} \subseteq locking
      /\ {"preflight", "create", "explainCreate", "describeCreated",
          "reread"} \subseteq seeding
  BY DEF seeding, locking
<1>1. CASE SeedControl(s) \/ LockRoundTrip(s)
  <2>1. ~took'[s]
    BY <1>1 DEF SeedControl, LockRoundTrip, open, TypeOK
  <2>2. pc'[s] = "idle" \/ outcome'[s] = noOutcome
    BY <1>1 DEF SeedControl, LockRoundTrip, open, TypeOK
  <2>. QED
    BY <2>1, <2>2 DEF Reported, noOutcome
<1>2. CASE Preflight(s) \/ KeepSeed(s) \/ ExplainCreate(s)
           \/ DescribeCreated(s) \/ Reread(s) \/ Observe(s)
  <2>1. UNCHANGED took /\ pc[s] \in seeding \cup {"observe"}
    BY <1>0, <1>2 DEF Preflight, KeepSeed, ExplainCreate, DescribeCreated,
                      Reread, Observe, observers
  <2>2. pc'[s] = "idle" \/ outcome'[s] = outcome[s]
    BY <1>2, Ends DEF Preflight, KeepSeed, ExplainCreate, DescribeCreated,
                      Reread, Observe, TakeSeed, Turn, Stop, createdSome
  <2>. QED
    BY <1>0, <2>1, <2>2, EarlyReported
<1>3. CASE Create(s) \/ CreateError(s)
  <2>1. took'[s] = took[s] /\ pc[s] = "create"
    BY <1>3 DEF Create, CreateError, observers
  <2>2. outcome'[s] = outcome[s]
    BY <1>3, Ends DEF Create, CreateError
  <2>. QED
    BY <1>0, <2>1, <2>2, EarlyReported
<1>4. CASE ReadLock(s)
  <2>1. UNCHANGED took /\ pc[s] = "readLock"
    BY <1>4 DEF ReadLock, observers
  <2>2. pc'[s] = "idle" \/ outcome'[s] = outcome[s]
    BY <1>4, Ends DEF ReadLock, Stop
  <2>. QED
    BY <1>0, <2>1, <2>2, EarlyReported
<1>5. CASE Acquire(s) \/ AcquireError(s)
  <2>1. pc[s] = "acquire"
    BY <1>5 DEF Acquire, AcquireError
  <2>2. CASE Goto(s, "describeAcquired")
    BY <1>0, <2>1, <2>2, Ends, LateReported
  <2>3. CASE Fail(s)
    <3>1. mutationReported(s)
      BY <2>1 DEF mutationReported
    <3>. QED
      BY <2>1, <2>3, <3>1, Ends, LateReported
  <2>4. CASE FailAs(s, FALSE) /\ UNCHANGED took
    <3>1. pc'[s] = "idle"
      BY <2>4, Ends
    <3>. QED
      BY <1>0, <2>1, <2>4, <3>1, EarlyReported
  <2>. QED
    BY <1>5, <2>2, <2>3, <2>4 DEF Acquire, AcquireError
<1>6. ASSUME Stop(s) \/ Fail(s), UNCHANGED took, pc[s] # "idle"
      PROVE  Reported(s)'
  <2>1. pc'[s] = "idle" /\ outcome'[s].mutated = mutationReported(s)
    BY <1>6, Ends DEF Stop
  <2>2. CASE pc[s] \in locking
    <3>1. mutationReported(s)
      BY <2>2 DEF mutationReported
    <3>. QED
      BY <2>1, <2>2, <3>1, LateReported
  <2>3. CASE pc[s] \notin locking /\ pc[s] # "idle"
    BY <1>6, <2>1, <2>3, EarlyReported
  <2>. QED
    BY <1>6, <2>2, <2>3
<1>7. CASE DescribeAcquired(s) \/ ExplainProbe(s) \/ Release(s)
           \/ DescribeReleased(s) \/ Final(s)
           \/ ReleaseError(s) \/ Probe(s)
  <2>1. pc[s] \in locking /\ pc[s] # "idle"
    BY <1>7 DEF DescribeAcquired, ExplainProbe, Release, DescribeReleased,
                Final, ReleaseError, Probe, locking
  <2>2. CASE \E next \in locking : Goto(s, next)
    BY <2>1, <2>2, Ends, LateReported
  <2>3. CASE Verify(s, TRUE)
    BY <2>1, <2>3, Ends, LateReported
  <2>4. CASE (Stop(s) \/ Fail(s)) /\ UNCHANGED took
    BY <1>6, <2>1, <2>4
  <2>. QED
    BY <1>0, <1>7, <2>2, <2>3, <2>4
       DEF DescribeAcquired, ExplainProbe, Release, DescribeReleased, Final,
           ReleaseError, Probe, observers
<1>8. CASE Crash(s)
  <2>1. pc'[s] = "idle" /\ outcome'[s].step = "none"
    BY <1>8 DEF Crash, noOutcome, TypeOK
  <2>. QED
    BY <2>1 DEF Reported
<1>9. CASE RequestError(s)
  BY <1>6, <1>9 DEF RequestError, observers
<1>. QED
  BY <1>1, <1>2, <1>3, <1>4, <1>5, <1>7, <1>8, <1>9
     DEF StepOf, SessionStep, AdverseSession

\* A K5 that took the lock, whether or not it knows, never reports that
\* nothing happened.
THEOREM AcquiresAreReported == Spec => []AcquireIsReported
<1>1. Init => ReportInv
  BY StoreInitTyped DEF Init, ReportInv, Reported, noOutcome
<1>2. ASSUME ReportInv, [Next]_vars
      PROVE  ReportInv'
  <2>. TypeOK /\ \A t \in Sessions : Reported(t)
    BY <1>2 DEF ReportInv
  <2>1. TypeOK'
    BY <1>2, StoreTypeStep
  <2>2. ASSUME NEW s \in Sessions, StepOf(s), NEW t \in Sessions
        PROVE  Reported(t)'
    <3>1. CASE t = s
      BY <1>2, <2>2, <3>1, MoverReported
    <3>2. CASE t # s
      <4>1. /\ pc'[t] = pc[t] /\ outcome'[t] = outcome[t]
            /\ took'[t] = took[t]
        BY <2>2, <3>2, OthersStay, ReportsStay
      <4>. QED
        BY <4>1 DEF Reported
    <3>. QED
      BY <3>1, <3>2
  <2>3. ASSUME UNCHANGED <<pc, outcome, took>>, NEW t \in Sessions
        PROVE  Reported(t)'
    BY <2>3 DEF Reported
  <2>. QED
    BY <1>2, <2>1, <2>2, <2>3
       DEF Next, StepOf, vars, observers, Expire, OthersWrite, OthersDelete,
           Aside, ReportInv
<1>3. ReportInv => AcquireIsReported
  <2>. SUFFICES ASSUME ReportInv, NEW s \in Sessions,
                       outcome[s].step = "k5", took[s]
                PROVE  outcome[s].mutated
    BY DEF AcquireIsReported
  <2>. Reported(s)
    BY DEF ReportInv
  <2>. QED
    BY DEF Reported, locking
<1>. QED
  BY <1>1, <1>2, <1>3, PTL DEF Spec
-----------------------------------------------------------------------------
(* What a verified step found.                                             *)

verifiedAs(s, step) == outcome[s].verified /\ outcome[s].step = step

\* The seed's own bytes are only ever written by a session.
SeedsOwned == \A o \in seeds : object[o].kind = "seed" => object[o].by \in Sessions

\* The version a session found or made of a seed, as long as it is the live one.
SeedPinned(s, o) ==
    LET seed == call[s].seed[o]
    IN  /\ seed.generation <= generations
        /\ seed.generation # 0 /\ object[o].generation = seed.generation =>
               /\ compatible(object[o].kind)
               /\ seed.preexisting \/ object[o].by \in Sessions

\* The loops over the seeds leave none out.
SeedsFound(s) ==
    /\ pc[s] \in seeding \ {"preflight"} =>
           \A o \in seeds : o < call[s].index => call[s].seed[o].generation # 0
    /\ pc[s] = "observe" \/ verifiedAs(s, "k4") =>
           \A o \in seeds : call[s].seed[o].generation # 0

\* The version a session released the lock with has the content it found.
ReleasePinned(s) ==
    /\ pc[s] \in locking \cup {"acquire"} \/ verifiedAs(s, "k5") =>
           cleanLock(call[s].prior.kind)
    /\ pc[s] = "final" \/ verifiedAs(s, "k5") =>
           /\ call[s].released \in 1..generations
           /\ object[lock].generation = call[s].released =>
                  object[lock].kind = call[s].prior.kind

FoundInv ==
    /\ TypeOK /\ Numbered /\ SeedsOwned
    /\ \A s \in Sessions :
           /\ pc[s] # "idle" => ~outcome[s].verified
           /\ \A o \in seeds : SeedPinned(s, o)
           /\ SeedsFound(s) /\ ReleasePinned(s)

\* A live version stays, goes, or gives way to one nobody has seen.
Renewed ==
    /\ generations' \in {generations, generations + 1}
    /\ \A o \in seeds : \/ object'[o] = object[o] \/ object'[o] = noObject
                        \/ object'[o].generation = generations + 1

\* Whatever happens to the objects, live versions are only renewed, and the
\* seed's own bytes are a session's.
LEMMA ObjectsRenewed ==
    ASSUME TypeOK, Numbered, SeedsOwned, [Next]_vars
    PROVE  Renewed /\ SeedsOwned'
<1>1. ASSUME UNCHANGED provider PROVE Renewed /\ SeedsOwned'
  BY <1>1 DEF provider, Renewed, SeedsOwned
<1>2. ASSUME NEW s \in Sessions \cup {Outsider}, NEW o \in seeds, NEW kind,
             write(s, o, kind), kind = "seed" => s \in Sessions
      PROVE  Renewed /\ SeedsOwned'
  <2>1. /\ object'[o] = [generation |-> generations + 1, kind |-> kind, by |-> s]
        /\ \A i \in seeds \ {o} : object'[i] = object[i]
        /\ generations' = generations + 1
    BY <1>2 DEF write, TypeOK
  <2>. QED
    BY <1>2, <2>1 DEF Renewed, SeedsOwned
<1>3. ASSUME NEW s \in Sessions, StepOf(s) PROVE Renewed /\ SeedsOwned'
  <2>1. item(s) \in seeds
    BY SeedsTyped
  <2>2. lock \in seeds
    BY StoreAssumption DEF StoreAssumption, lock, seeds
  <2>. QED
    BY <1>1, <1>2, <1>3, <2>1, <2>2, SessionWrites DEF Acquires, Releases
<1>4. ASSUME NEW o \in seeds, OthersWrite(o) PROVE Renewed /\ SeedsOwned'
  <2>1. PICK kind : write(Outsider, o, kind) /\ kind # "seed"
    BY <1>4 DEF OthersWrite
  <2>. QED
    BY <1>2, <2>1
<1>5. ASSUME NEW o \in seeds, OthersDelete(o) PROVE Renewed /\ SeedsOwned'
  <2>1. /\ object'[o] = noObject /\ \A i \in seeds \ {o} : object'[i] = object[i]
        /\ generations' = generations
    BY <1>5 DEF OthersDelete, TypeOK
  <2>. QED
    BY <2>1 DEF Renewed, SeedsOwned, noObject
<1>6. CASE Expire \/ UNCHANGED vars
  BY <1>1, <1>6 DEF Expire, vars
<1>. QED
  BY <1>3, <1>4, <1>5, <1>6 DEF Next, StepOf

\* What a session found of a seed stays true of the version it found.
LEMMA SeedKept ==
    ASSUME TypeOK, Renewed, NEW s \in Sessions, NEW o \in seeds, SeedPinned(s, o),
           call'[s].seed = call[s].seed
    PROVE  SeedPinned(s, o)'
<1>1. call[s].seed[o].generation \in Nat /\ generations \in Nat
  <2>1. call[s].seed \in [seeds -> [generation : Nat, preexisting : BOOLEAN]]
    BY SeedsTyped
  <2>. QED
    BY <2>1 DEF TypeOK
<1>2. noObject.generation = 0
  BY DEF noObject
<1>. QED
  BY <1>1, <1>2 DEF SeedPinned, Renewed, compatible

\* So does what a session released, as long as it is not about another lock.
LEMMA ReleaseKept ==
    ASSUME TypeOK, Renewed, NEW s \in Sessions, ReleasePinned(s),
           call'[s].prior = call[s].prior, call'[s].released = call[s].released,
           pc'[s] \in locking \cup {"acquire"} \/ verifiedAs(s, "k5")' =>
               pc[s] \in locking \cup {"acquire"} \/ verifiedAs(s, "k5"),
           pc'[s] = "final" \/ verifiedAs(s, "k5")' =>
               pc[s] = "final" \/ verifiedAs(s, "k5")
    PROVE  ReleasePinned(s)'
<1>1. lock \in seeds
  BY StoreAssumption DEF StoreAssumption, lock, seeds
<1>2. noObject.generation = 0 /\ generations \in Nat
  BY DEF noObject, TypeOK
<1>3. pc'[s] \in locking \cup {"acquire"} \/ verifiedAs(s, "k5")' =>
          cleanLock(call'[s].prior.kind)
  BY DEF ReleasePinned
<1>4. ASSUME pc'[s] = "final" \/ verifiedAs(s, "k5")'
      PROVE  /\ call'[s].released \in 1..generations'
             /\ object'[lock].generation = call'[s].released =>
                    object'[lock].kind = call'[s].prior.kind
  <2>1. /\ call[s].released \in 1..generations
        /\ object[lock].generation = call[s].released =>
               object[lock].kind = call[s].prior.kind
    BY <1>4 DEF ReleasePinned
  <2>. QED
    BY <1>1, <1>2, <2>1 DEF Renewed
<1>. QED
  BY <1>3, <1>4 DEF ReleasePinned

\* What a turn of a loop does to the session's call.
LEMMA TurnGoes ==
    ASSUME TypeOK, NEW s \in Sessions, NEW seed, NEW location, NEW next,
           Turn(s, seed, location, next)
    PROVE  /\ call'[s].seed = seed /\ outcome'[s] = outcome[s]
           /\ call'[s].prior = call[s].prior
           /\ call'[s].released = call[s].released
           /\ \/ /\ item(s) < SeedCount /\ call'[s].index = item(s) + 1
                 /\ pc'[s] = location
              \/ /\ item(s) = SeedCount /\ call'[s].index = 1 /\ pc'[s] = next
<1>1. call[s] \in callSet /\ item(s) \in 1..SeedCount
  BY SeedsTyped DEF TypeOK, seeds
<1>2. pc'[s] = (IF call[s].index < SeedCount THEN location ELSE next)
      /\ outcome'[s] = outcome[s]
  BY DEF Turn, Goto, TypeOK
<1>3. call'[s] = [call[s] EXCEPT !.seed = seed,
                  !.index = IF @ < SeedCount THEN @ + 1 ELSE 1]
  BY DEF Turn, TypeOK
<1>. QED
  BY <1>1, <1>2, <1>3, StoreAssumption DEF callSet, item, StoreAssumption

\* What the moving session keeps in a step.
Finds(s) == /\ pc'[s] # "idle" => ~outcome'[s].verified
            /\ \A o \in seeds : SeedPinned(s, o)'
            /\ SeedsFound(s)' /\ ReleasePinned(s)'

\* A call that begins has found nothing, and one that fails verifies nothing.
LEMMA EdgeFinds ==
    ASSUME FoundInv, Renewed, NEW s \in Sessions, ~outcome'[s].verified,
           \/ call'[s] = noCall /\ pc'[s] \in {"idle", "preflight", "readLock"}
           \/ call'[s] = call[s] /\ pc'[s] = "idle"
    PROVE  Finds(s)
<1>1. TypeOK /\ ReleasePinned(s) /\ \A o \in seeds : SeedPinned(s, o)
  BY DEF FoundInv
<1>2. /\ pc'[s] \notin (seeding \ {"preflight"}) \cup locking
                            \cup {"observe", "acquire", "final"}
      /\ ~verifiedAs(s, "k4")' /\ ~verifiedAs(s, "k5")'
  BY DEF seeding, locking, verifiedAs
<1>3. SeedsFound(s)' /\ ReleasePinned(s)'
  BY <1>2 DEF SeedsFound, ReleasePinned
<1>4. ASSUME NEW o \in seeds PROVE SeedPinned(s, o)'
  <2>1. CASE call'[s] = noCall
    <3>1. call'[s].seed[o].generation = 0
      BY <2>1 DEF noCall, noSeed
    <3>2. generations' \in Nat
      BY <1>1 DEF Renewed, TypeOK
    <3>. QED
      BY <3>1, <3>2 DEF SeedPinned
  <2>2. CASE call'[s] = call[s]
    BY <1>1, <2>2, SeedKept
  <2>. QED
    BY <2>1, <2>2
<1>. QED
  BY <1>3, <1>4 DEF Finds

\* A call that goes on without a new observation keeps what it has found.
LEMMA GoOnFinds ==
    ASSUME FoundInv, Renewed, NEW s \in Sessions, pc[s] # "idle",
           call'[s] = call[s], outcome'[s] = outcome[s],
           \/ {pc[s], pc'[s]} \subseteq seeding \ {"preflight"}
           \/ /\ {pc[s], pc'[s]} \subseteq locking \cup {"acquire"}
              /\ pc'[s] # "final"
    PROVE  Finds(s)
<1>1. /\ TypeOK /\ ReleasePinned(s) /\ SeedsFound(s)
      /\ \A o \in seeds : SeedPinned(s, o)
      /\ ~outcome[s].verified
  BY DEF FoundInv
<1>2. ~verifiedAs(s, "k4")' /\ ~verifiedAs(s, "k5")'
  BY <1>1 DEF verifiedAs
<1>3. /\ seeding \cap (locking \cup {"acquire", "final", "observe"}) = {}
      /\ "observe" \notin locking
  BY DEF seeding, locking
<1>4. SeedsFound(s)'
  BY <1>1, <1>2, <1>3 DEF SeedsFound
<1>5. ReleasePinned(s)'
  BY <1>1, <1>2, <1>3, ReleaseKept
<1>. QED
  BY <1>1, <1>4, <1>5, SeedKept DEF Finds

\* A turn of a loop over the seeds adds the seed it is about.
LEMMA TurnFinds ==
    ASSUME FoundInv, Renewed, NEW s \in Sessions, UNCHANGED provider,
           pc[s] \in seeding \cup {"observe"},
           NEW seed, NEW location, NEW next, Turn(s, seed, location, next),
           \/ seed = call[s].seed
           \/ /\ object[item(s)] # noObject /\ compatible(object[item(s)].kind)
              /\ \E pre \in BOOLEAN :
                     /\ seed = withSeed(s, pre)
                     /\ pre \/ object[item(s)].by \in Sessions,
           \/ location = "preflight" /\ next = "create"
           \/ /\ location = "create" /\ next = "observe" /\ pc[s] # "preflight"
              /\ pc[s] # "observe" /\ seed[item(s)].generation # 0
           \/ location = "observe" /\ next = "observe" /\ pc[s] = "observe"
              /\ seed = call[s].seed
    PROVE  Finds(s)
<1>1. /\ TypeOK /\ Numbered /\ ReleasePinned(s) /\ SeedsFound(s)
      /\ \A o \in seeds : SeedPinned(s, o)
      /\ (pc[s] # "idle" => ~outcome[s].verified)
  BY DEF FoundInv
<1>2. /\ call'[s].seed = seed /\ outcome'[s] = outcome[s]
      /\ call'[s].prior = call[s].prior
      /\ call'[s].released = call[s].released
      /\ \/ /\ item(s) < SeedCount /\ call'[s].index = item(s) + 1
            /\ pc'[s] = location
         \/ /\ item(s) = SeedCount /\ call'[s].index = 1 /\ pc'[s] = next
  BY <1>1, TurnGoes
<1>3. /\ item(s) \in seeds
      /\ call[s].seed \in [seeds -> [generation : Nat, preexisting : BOOLEAN]]
      /\ item(s) \in 1..SeedCount /\ SeedCount \in Nat
      /\ seeds = 1..SeedCount
  BY <1>1, SeedsTyped, StoreAssumption DEF seeds, StoreAssumption
<1>4. ~outcome'[s].verified
  <2>1. pc[s] # "idle"
    BY DEF seeding
  <2>. QED
    BY <1>1, <1>2, <2>1
<1>5. ~verifiedAs(s, "k4")' /\ ~verifiedAs(s, "k5")'
  BY <1>4 DEF verifiedAs
<1>6. ReleasePinned(s)'
  <2>1. pc'[s] \notin locking \cup {"acquire", "final"}
    BY <1>2 DEF locking
  <2>. QED
    BY <1>5, <2>1 DEF ReleasePinned
<1>7. \A o \in seeds \ {item(s)} : seed[o] = call[s].seed[o]
  BY <1>3 DEF withSeed
<1>8. ASSUME NEW o \in seeds PROVE SeedPinned(s, o)'
  <2>1. /\ object' = object /\ generations' = generations
        /\ SeedPinned(s, o)
    BY <1>1 DEF provider
  <2>2. CASE seed[o] = call[s].seed[o]
    BY <1>2, <2>1, <2>2 DEF SeedPinned, compatible
  <2>3. CASE seed[o] # call[s].seed[o]
    <3>1. o = item(s)
      BY <1>7, <2>3
    <3>2. PICK pre \in BOOLEAN :
              /\ seed = withSeed(s, pre)
              /\ pre \/ object[item(s)].by \in Sessions
      BY <2>3
    <3>3. compatible(object[item(s)].kind)
      BY <2>3
    <3>4. seed[o] = [generation |-> object[o].generation, preexisting |-> pre]
      BY <1>3, <3>1, <3>2 DEF withSeed, foundAt
    <3>5. object[o].generation <= generations
      BY <1>1 DEF Numbered
    <3>. QED
      BY <1>2, <2>1, <3>1, <3>2, <3>3, <3>4, <3>5 DEF SeedPinned, compatible
  <2>. QED
    BY <2>2, <2>3
<1>9. SeedsFound(s)'
  <2>1. CASE location = "preflight" /\ next = "create"
    <3>1. pc'[s] = "create" => call'[s].index = 1
      BY <1>2, <2>1
    <3>2. pc'[s] \in {"preflight", "create"}
      BY <1>2, <2>1
    <3>3. \A o \in seeds : ~(o < 1)
      BY <1>3
    <3>. QED
      BY <1>5, <3>1, <3>2, <3>3 DEF SeedsFound
  <2>2. CASE /\ location = "create" /\ next = "observe" /\ pc[s] # "preflight"
             /\ pc[s] # "observe" /\ seed[item(s)].generation # 0
    <3>1. pc[s] \in seeding \ {"preflight"}
      BY <2>2
    <3>2. \A o \in seeds : o < item(s) => call[s].seed[o].generation # 0
      BY <1>1, <3>1 DEF SeedsFound, item
    <3>3. \A o \in seeds : o <= item(s) => seed[o].generation # 0
      <4>. SUFFICES ASSUME NEW o \in seeds, o <= item(s)
                    PROVE  seed[o].generation # 0
        OBVIOUS
      <4>1. o = item(s) \/ o < item(s)
        BY <1>3
      <4>. QED
        BY <1>7, <2>2, <3>2, <4>1
    <3>4. CASE item(s) < SeedCount
      <4>1. \A o \in seeds : o < item(s) + 1 => o <= item(s)
        BY <1>3
      <4>2. pc'[s] = "create" /\ call'[s].index = item(s) + 1
        BY <1>2, <1>3, <2>2, <3>4
      <4>3. \A o \in seeds : o < call'[s].index => call'[s].seed[o].generation # 0
        BY <1>2, <3>3, <4>1, <4>2
      <4>. QED
        BY <1>5, <4>2, <4>3 DEF SeedsFound
    <3>5. CASE item(s) = SeedCount
      <4>1. pc'[s] = "observe"
        BY <1>2, <1>3, <2>2, <3>5
      <4>2. \A o \in seeds : call'[s].seed[o].generation # 0
        BY <1>2, <1>3, <3>3, <3>5
      <4>3. "observe" \notin seeding
        BY DEF seeding
      <4>. QED
        BY <1>5, <4>1, <4>2, <4>3 DEF SeedsFound
    <3>. QED
      BY <1>2, <3>4, <3>5
  <2>3. CASE location = "observe" /\ next = "observe" /\ pc[s] = "observe"
             /\ seed = call[s].seed
    <3>1. pc'[s] = "observe" /\ "observe" \notin seeding
      BY <1>2, <2>3 DEF seeding
    <3>2. \A o \in seeds : call'[s].seed[o].generation # 0
      BY <1>1, <1>2, <2>3 DEF SeedsFound
    <3>. QED
      BY <1>5, <3>1, <3>2 DEF SeedsFound
  <2>. QED
    BY <2>1, <2>2, <2>3
<1>. QED
  BY <1>4, <1>6, <1>8, <1>9 DEF Finds

\* A call that fails keeps what it knew and verifies nothing.
LEMMA FailFinds ==
    ASSUME FoundInv, Renewed, NEW s \in Sessions, UNCHANGED call,
           Fail(s) \/ FailAs(s, FALSE)
    PROVE  Finds(s)
<1>1. pc'[s] = "idle" /\ ~outcome'[s].verified
  BY DEF Fail, FailAs, FoundInv, TypeOK
<1>. QED
  BY <1>1, EdgeFinds

\* The steps of K4's loops.
LEMMA SeedingFinds ==
    ASSUME FoundInv, Renewed, NEW s \in Sessions,
           \/ Preflight(s) \/ KeepSeed(s) \/ Create(s) \/ CreateError(s)
           \/ ExplainCreate(s) \/ DescribeCreated(s) \/ Reread(s) \/ Observe(s)
    PROVE  Finds(s)
<1>1. /\ TypeOK /\ Numbered /\ SeedsOwned /\ SeedsFound(s)
      /\ ReleasePinned(s) /\ (pc[s] # "idle" => ~outcome[s].verified)
      /\ \A o \in seeds : SeedPinned(s, o)
  BY DEF FoundInv
<1>2. /\ item(s) \in seeds
      /\ call[s].seed \in [seeds -> [generation : Nat, preexisting : BOOLEAN]]
  BY <1>1, SeedsTyped
<1>3. {"create", "explainCreate", "describeCreated", "reread"}
          = seeding \ {"preflight"}
  BY DEF seeding
<1>4. ASSUME object[item(s)] # noObject, compatible(object[item(s)].kind),
             NEW pre \in BOOLEAN, pre \/ object[item(s)].by \in Sessions,
             UNCHANGED provider, TakeSeed(s, pre),
             pc[s] \in {"create", "describeCreated", "reread"}
      PROVE  Finds(s)
  <2>1. withSeed(s, pre)[item(s)].generation # 0
    BY <1>1, <1>2, <1>4 DEF withSeed, foundAt, Numbered
  <2>. QED
    BY <1>3, <1>4, <2>1, TurnFinds DEF TakeSeed
<1>5. CASE Preflight(s)
  BY <1>3, <1>5, FailFinds, TurnFinds DEF Preflight, seeding
<1>6. CASE KeepSeed(s)
  BY <1>3, <1>6, TurnFinds DEF KeepSeed, found
<1>7. CASE Create(s) \/ CreateError(s)
  <2>1. /\ pc[s] = "create" /\ UNCHANGED call /\ outcome' = outcome
        /\ pc'[s] \in {"describeCreated", "explainCreate"}
    BY <1>1, <1>7 DEF Create, CreateError, Goto, TypeOK
  <2>. QED
    BY <1>3, <2>1, GoOnFinds
<1>8. CASE ExplainCreate(s)
  <2>1. CASE Goto(s, "reread") /\ UNCHANGED call
    <3>1. /\ pc[s] = "explainCreate" /\ pc'[s] = "reread" /\ outcome' = outcome
      BY <1>1, <1>8, <2>1 DEF ExplainCreate, Goto, TypeOK
    <3>. QED
      BY <1>3, <2>1, <3>1, GoOnFinds
  <2>. QED
    BY <1>8, <2>1, FailFinds DEF ExplainCreate, Stop
<1>9. CASE DescribeCreated(s)
  <2>1. CASE describesOwn(s, item(s), "seed") /\ TakeSeed(s, FALSE)
    <3>1. /\ object[item(s)].kind = "seed" /\ object[item(s)].by \in Sessions
          /\ object[item(s)] # noObject
      BY <1>1, <1>2, <2>1 DEF describesOwn, SeedsOwned, noObject
    <3>. QED
      BY <1>4, <1>9, <2>1, <3>1 DEF DescribeCreated, compatible
  <2>. QED
    BY <1>9, <2>1, FailFinds DEF DescribeCreated, Stop
<1>10. CASE Reread(s)
  BY <1>4, <1>10, FailFinds DEF Reread, Stop
<1>11. CASE Observe(s)
  <2>1. CASE Verify(s, createdSome(s)) /\ UNCHANGED call
    <3>1. /\ pc[s] = "observe" /\ UNCHANGED call /\ pc'[s] = "idle"
          /\ outcome'[s].step = "k4"
      BY <1>1, <1>11, <2>1 DEF Observe, Verify, stepOf, TypeOK
    <3>2. SeedsFound(s)'
      BY <1>1, <3>1 DEF SeedsFound, seeding
    <3>3. ~verifiedAs(s, "k5")'
      BY <3>1 DEF verifiedAs
    <3>4. ReleasePinned(s)'
      BY <3>1, <3>3 DEF ReleasePinned, locking
    <3>. QED
      BY <1>1, <3>1, <3>2, <3>4, SeedKept DEF Finds
  <2>2. CASE Turn(s, call[s].seed, "observe", "observe")
    BY <1>11, <2>2, TurnFinds DEF Observe
  <2>. QED
    BY <1>11, <2>1, <2>2, FailFinds DEF Observe, Stop
<1>. QED
  BY <1>5, <1>6, <1>7, <1>8, <1>9, <1>10, <1>11

\* The steps of K5's round trip.
LEMMA LockingFinds ==
    ASSUME FoundInv, Renewed, NEW s \in Sessions,
           \/ ReadLock(s) \/ Acquire(s) \/ AcquireError(s) \/ DescribeAcquired(s)
           \/ Probe(s) \/ ExplainProbe(s) \/ Release(s) \/ ReleaseError(s)
           \/ DescribeReleased(s) \/ Final(s)
    PROVE  Finds(s)
<1>1. /\ TypeOK /\ Numbered /\ SeedsFound(s)
      /\ ReleasePinned(s) /\ (pc[s] # "idle" => ~outcome[s].verified)
      /\ \A o \in seeds : SeedPinned(s, o)
      /\ call[s] \in callSet
  BY DEF FoundInv, TypeOK
<1>2. /\ {"describeAcquired", "probe", "explainProbe", "release",
          "describeReleased", "final"} = locking
      /\ "idle" \notin locking \cup {"acquire"}
      /\ (seeding \cup {"observe"}) \cap (locking \cup {"acquire", "idle"}) = {}
  BY DEF locking, seeding
<1>3. lock \in seeds
  BY StoreAssumption DEF StoreAssumption, lock, seeds
<1>4. ASSUME NEW location \in locking \ {"final"}, Goto(s, location), UNCHANGED call,
             pc[s] \in locking \cup {"acquire"}
      PROVE  Finds(s)
  <2>1. pc'[s] = location /\ outcome' = outcome
    BY <1>1, <1>4 DEF Goto, TypeOK
  <2>. QED
    BY <1>2, <1>4, <2>1, GoOnFinds
<1>5. ASSUME pc'[s] \in locking \cup {"acquire"}, outcome' = outcome,
             pc[s] # "idle", call'[s].seed = call[s].seed, ReleasePinned(s)'
      PROVE  Finds(s)
  <2>1. ~outcome'[s].verified /\ ~verifiedAs(s, "k4")'
    BY <1>1, <1>5 DEF verifiedAs
  <2>2. SeedsFound(s)'
    BY <1>2, <1>5, <2>1 DEF SeedsFound
  <2>. QED
    BY <1>1, <1>5, <2>1, <2>2, SeedKept DEF Finds
<1>6. CASE ReadLock(s)
  <2>1. CASE Goto(s, "acquire")
    <3>1. /\ pc'[s] = "acquire" /\ pc[s] = "readLock" /\ outcome' = outcome
          /\ call'[s] = [call[s] EXCEPT !.prior =
                 [generation |-> object[lock].generation,
                  kind |-> object[lock].kind]]
          /\ cleanLock(object[lock].kind)
      BY <1>1, <1>6, <2>1 DEF ReadLock, Goto, Stop, Fail, FailAs, TypeOK
    <3>2. call'[s].prior.kind = object[lock].kind /\ call'[s].seed = call[s].seed
      BY <1>1, <3>1 DEF callSet
    <3>3. ~verifiedAs(s, "k5")'
      BY <1>1, <3>1 DEF verifiedAs
    <3>4. ReleasePinned(s)'
      BY <3>1, <3>2, <3>3 DEF ReleasePinned
    <3>. QED
      BY <1>5, <3>1, <3>2, <3>4
  <2>. QED
    BY <1>6, <2>1, FailFinds DEF ReadLock, Stop
<1>7. CASE Acquire(s) \/ AcquireError(s)
  BY <1>2, <1>4, <1>7, FailFinds DEF Acquire, AcquireError
<1>8. CASE DescribeAcquired(s)
  <2>1. CASE Goto(s, "probe") /\ call' = [call EXCEPT ![s].acquired =
                                                 object[lock].generation]
    <3>1. /\ pc'[s] = "probe" /\ pc[s] = "describeAcquired" /\ outcome' = outcome
          /\ call'[s].prior = call[s].prior /\ call'[s].seed = call[s].seed
          /\ call'[s].released = call[s].released
      BY <1>1, <1>8, <2>1 DEF DescribeAcquired, Goto, TypeOK, callSet
    <3>2. ~verifiedAs(s, "k5")'
      BY <1>1, <3>1 DEF verifiedAs
    <3>3. ReleasePinned(s)'
      BY <1>1, <1>2, <3>1, <3>2, ReleaseKept
    <3>. QED
      BY <1>2, <1>5, <3>1, <3>3
  <2>. QED
    BY <1>8, <2>1, FailFinds DEF DescribeAcquired, Stop
<1>9. CASE Probe(s) \/ ExplainProbe(s)
  BY <1>2, <1>4, <1>9, FailFinds DEF Probe, ExplainProbe, Stop
<1>10. CASE Release(s) \/ ReleaseError(s)
  BY <1>2, <1>4, <1>10, FailFinds DEF Release, ReleaseError
<1>11. CASE DescribeReleased(s)
  <2>1. CASE Goto(s, "final") /\ call' = [call EXCEPT ![s].released =
                                                 object[lock].generation]
    <3>1. /\ pc'[s] = "final" /\ pc[s] = "describeReleased" /\ outcome' = outcome
          /\ call'[s].prior = call[s].prior /\ call'[s].seed = call[s].seed
          /\ call'[s].released = object[lock].generation
          /\ UNCHANGED provider
      BY <1>1, <1>11, <2>1 DEF DescribeReleased, Goto, TypeOK, callSet
    <3>2. cleanLock(call[s].prior.kind)
      BY <1>1, <1>2, <3>1 DEF ReleasePinned
    <3>3. object[lock].kind = call[s].prior.kind
      BY <1>11, <2>1, <3>1
      DEF DescribeReleased, describesOwn, Stop, Fail, FailAs, Goto, FoundInv, TypeOK
    <3>4. object[lock] # noObject
      BY <3>2, <3>3 DEF cleanLock, noObject
    <3>5. object[lock].generation \in 1..generations
      BY <1>1, <1>3, <3>4 DEF Numbered, TypeOK
    <3>6. ReleasePinned(s)'
      BY <3>1, <3>2, <3>3, <3>5 DEF ReleasePinned, provider, cleanLock
    <3>. QED
      BY <1>2, <1>5, <3>1, <3>6
  <2>. QED
    BY <1>11, <2>1, FailFinds DEF DescribeReleased, Stop
<1>12. CASE Final(s)
  <2>1. CASE Verify(s, TRUE) /\ UNCHANGED call
    <3>1. /\ pc[s] = "final" /\ UNCHANGED call /\ pc'[s] = "idle"
          /\ outcome'[s].step = "k5"
      BY <1>1, <1>12, <2>1 DEF Final, Verify, stepOf, seeding, TypeOK
    <3>2. ~verifiedAs(s, "k4")'
      BY <3>1 DEF verifiedAs
    <3>3. SeedsFound(s)'
      BY <3>1, <3>2 DEF SeedsFound, seeding
    <3>4. ReleasePinned(s)'
      BY <1>1, <1>2, <3>1, ReleaseKept
    <3>. QED
      BY <1>1, <3>1, <3>3, <3>4, SeedKept DEF Finds
  <2>. QED
    BY <1>12, <2>1, FailFinds DEF Final, Stop
<1>. QED
  BY <1>6, <1>7, <1>8, <1>9, <1>10, <1>11, <1>12

\* Whatever a session does, what it has found and made stays pinned.
LEMMA MoverFinds ==
    ASSUME FoundInv, Renewed, NEW s \in Sessions, StepOf(s)
    PROVE  Finds(s)
<1>1. TypeOK
  BY DEF FoundInv
<1>2. CASE SeedControl(s) \/ LockRoundTrip(s)
  <2>1. /\ pc'[s] \in {"idle", "preflight", "readLock"} /\ call'[s] = noCall
        /\ ~outcome'[s].verified
    BY <1>1, <1>2, StartsTyped DEF SeedControl, LockRoundTrip, open, TypeOK
  <2>. QED
    BY <2>1, EdgeFinds
<1>3. CASE Crash(s)
  <2>1. pc'[s] = "idle" /\ call' = call /\ ~outcome'[s].verified
    BY <1>1, <1>3, StartsTyped DEF Crash, TypeOK
  <2>. QED
    BY <2>1, EdgeFinds
<1>4. CASE RequestError(s)
  BY <1>4, FailFinds DEF RequestError, Stop
<1>. QED
  BY <1>2, <1>3, <1>4, SeedingFinds, LockingFinds
  DEF StepOf, SessionStep, AdverseSession

\* A session that does not move keeps what it found.
LEMMA OthersFind ==
    ASSUME FoundInv, Renewed, NEW t \in Sessions,
           pc'[t] = pc[t], call'[t] = call[t], outcome'[t] = outcome[t]
    PROVE  Finds(t)
<1>1. /\ TypeOK /\ ReleasePinned(t) /\ SeedsFound(t)
      /\ \A o \in seeds : SeedPinned(t, o)
      /\ (pc[t] # "idle" => ~outcome[t].verified)
  BY DEF FoundInv
<1>2. /\ verifiedAs(t, "k4")' <=> verifiedAs(t, "k4")
      /\ verifiedAs(t, "k5")' <=> verifiedAs(t, "k5")
  BY DEF verifiedAs
<1>3. SeedsFound(t)'
  BY <1>1, <1>2 DEF SeedsFound
<1>. QED
  BY <1>1, <1>2, <1>3, SeedKept, ReleaseKept DEF Finds

\* FoundInv is inductive.
LEMMA FoundInvStep ==
    ASSUME FoundInv, [Next]_vars
    PROVE  FoundInv'
<1>1. TypeOK /\ Numbered /\ SeedsOwned
  BY DEF FoundInv
<1>2. TypeOK' /\ Numbered' /\ SeedsOwned' /\ Renewed
  BY <1>1, StoreTypeStep, LockChanges, ObjectsRenewed
<1>3. ASSUME NEW t \in Sessions PROVE Finds(t)
  <2>1. ASSUME NEW s \in Sessions, StepOf(s) PROVE Finds(t)
    <3>1. CASE t = s
      BY <1>2, <2>1, <3>1, MoverFinds
    <3>2. CASE t # s
      BY <1>1, <1>2, <2>1, <3>2, OthersStay, ReportsStay, OthersFind
    <3>. QED
      BY <3>1, <3>2
  <2>2. CASE UNCHANGED <<pc, call, outcome>>
    BY <1>2, <2>2, OthersFind
  <2>. QED
    BY <2>1, <2>2
    DEF Next, StepOf, vars, Expire, OthersWrite, OthersDelete, Aside
<1>. QED
  BY <1>2, <1>3 DEF Finds, FoundInv

\* And it holds initially.
LEMMA FoundInvInit == Init => FoundInv
<1>. SUFFICES ASSUME Init PROVE FoundInv
  OBVIOUS
<1>1. TypeOK
  BY StoreInitTyped
<1>2. Numbered /\ SeedsOwned
  BY DEF Init, Numbered, SeedsOwned, noObject
<1>3. ASSUME NEW s \in Sessions
      PROVE  /\ pc[s] = "idle" /\ ~outcome[s].verified
             /\ SeedsFound(s) /\ ReleasePinned(s)
  <2>1. pc[s] = "idle" /\ ~outcome[s].verified
    BY <1>3, StartsTyped DEF Init
  <2>. QED
    BY <2>1 DEF SeedsFound, ReleasePinned, verifiedAs, seeding, locking
<1>4. ASSUME NEW s \in Sessions, NEW o \in seeds PROVE SeedPinned(s, o)
  BY <1>4 DEF Init, SeedPinned, noCall, noSeed
<1>. QED
  BY <1>1, <1>2, <1>3, <1>4 DEF FoundInv

\* What K4 and K5 report as verified is so until somebody changes it: the seeds
\* are compatible, what is reported as created was written by a session, and
\* the lock was released as the clean record it was taken from
\* (SeedControlStore, lockRoundTrip).
THEOREM VerifiedStepsHold == Spec => []VerifiedHolds
<1>1. ASSUME FoundInv PROVE VerifiedHolds
  <2>1. ASSUME NEW s \in Sessions, outcome[s].verified, outcome[s].step = "k5",
               object[lock].generation = call[s].released
        PROVE  object[lock].kind = call[s].prior.kind /\ object[lock].kind # "held"
    BY <1>1, <2>1 DEF FoundInv, ReleasePinned, verifiedAs, cleanLock
  <2>2. ASSUME NEW s \in Sessions, outcome[s].verified, outcome[s].step = "k4",
               NEW o \in seeds, object[o].generation = call[s].seed[o].generation
        PROVE  /\ compatible(object[o].kind)
               /\ call[s].seed[o].preexisting \/ object[o].by \in Sessions
    <3>1. call[s].seed[o].generation # 0 /\ SeedPinned(s, o)
      BY <1>1, <2>2 DEF FoundInv, SeedsFound, verifiedAs
    <3>. QED
      BY <2>2, <3>1 DEF SeedPinned
  <2>. QED
    BY <2>1, <2>2 DEF VerifiedHolds
<1>. QED
  BY <1>1, FoundInvInit, FoundInvStep, PTL DEF Spec
-----------------------------------------------------------------------------
(* The lock record.                                                        *)

\* As long as only the protocol writes it, the lock record is the held one of
\* every running call that has taken the lock.
UsingPinned ==
    \A s \in Sessions :
        inUse(s) => \/ disturbed
                    \/ object[lock].kind = "held" /\ object[lock].by = s

\* A session's call takes the lock by the acquiring upload, and has it until it
\* stops or releases it.
LEMMA UsesLock ==
    ASSUME TypeOK, NEW s \in Sessions, StepOf(s), inUse(s)'
    PROVE  \/ pc[s] = "acquire" /\ Acquires(s)
           \/ inUse(s) /\ UNCHANGED <<provider, disturbed>>
<1>1. CASE pc'[s] = "describeAcquired"
  <2>1. CASE SeedControl(s) \/ LockRoundTrip(s)
    BY <1>1, <2>1 DEF SeedControl, LockRoundTrip, open, TypeOK, inUse
  <2>2. CASE Preflight(s) \/ KeepSeed(s) \/ Create(s) \/ ExplainCreate(s)
             \/ DescribeCreated(s) \/ Reread(s) \/ Observe(s) \/ CreateError(s)
    BY <1>1, <2>2 DEF Preflight, KeepSeed, Create, ExplainCreate, DescribeCreated,
                Reread, Observe, TakeSeed, Turn, Goto, FailAs, Fail, Stop, Verify,
                CreateError, TypeOK
  <2>3. CASE Acquire(s)
    BY <1>1, <2>3 DEF Acquire, FailAs, Fail, TypeOK
  <2>4. CASE ReadLock(s) \/ DescribeAcquired(s) \/ Probe(s)
             \/ ExplainProbe(s) \/ Release(s) \/ DescribeReleased(s) \/ Final(s)
    BY <1>1, <2>4 DEF ReadLock, DescribeAcquired, Probe, ExplainProbe,
                Release, DescribeReleased, Final, Goto, FailAs, Fail, Stop, Verify,
                TypeOK
  <2>5. CASE Crash(s) \/ RequestError(s) \/ AcquireError(s) \/ ReleaseError(s)
    BY <1>1, <2>5 DEF Crash, RequestError, AcquireError, ReleaseError,
                FailAs, Fail, Stop, TypeOK
  <2>. QED
    BY <2>1, <2>2, <2>3, <2>4, <2>5 DEF StepOf, SessionStep, AdverseSession
<1>2. CASE pc'[s] \in {"probe", "explainProbe", "release"}
  <2>1. CASE pc'[s] = "probe" /\ DescribeAcquired(s)
    BY <2>1 DEF DescribeAcquired, inUse, observers
  <2>2. CASE /\ pc[s] \in {"probe", "explainProbe"}
             /\ UNCHANGED <<provider, call, disturbed>>
    BY <2>2 DEF inUse, holding
  <2>. QED
    BY <1>2, <2>1, <2>2, Engages DEF engaged
<1>. QED
  BY <1>1, <1>2 DEF inUse, holding

\* Whoever is in the protocol leaves the record of a running call alone.
LEMMA UserKeepsLock ==
    ASSUME LockInv, UsingPinned, NEW t \in Sessions, inUse(t), ~disturbed,
           NEW s \in Sessions, s # t, LockTaken(s)
    PROVE  FALSE
<1>1. object[lock].kind = "held" /\ object[lock].by = t
  BY DEF UsingPinned
<1>2. object[lock].generation # 0
  <2>. lock \in seeds
    BY StoreAssumption DEF StoreAssumption, lock, seeds
  <2>. QED
    BY <1>1 DEF LockInv, Numbered, noObject
<1>3. CASE pc[s] = "acquire"
           /\ object[lock].generation = call[s].prior.generation
  BY <1>1, <1>3 DEF LockInv, PriorPinned, cleanLock
<1>4. CASE pc[s] = "release" /\ object[lock].generation = call[s].acquired
  BY <1>1, <1>4 DEF LockInv, HeldPinned, holding
<1>. QED
  BY <1>2, <1>3, <1>4 DEF LockTaken

\* What an acquire and a release make of the record.
LEMMA LockWritten ==
    ASSUME TypeOK, NEW s \in Sessions, NEW kind, write(s, lock, kind)
    PROVE  object'[lock].kind = kind /\ object'[lock].by = s
<1>. lock \in seeds
  BY StoreAssumption DEF StoreAssumption, lock, seeds
<1>. QED
  BY DEF write, TypeOK

\* UsingPinned is inductive.
LEMMA UsingPinnedStep ==
    ASSUME LockInv, UsingPinned, [Next]_vars
    PROVE  UsingPinned'
<1>0. TypeOK /\ Numbered
  BY DEF LockInv
<1>. SUFFICES ASSUME NEW t \in Sessions, inUse(t)', ~disturbed'
              PROVE  object'[lock].kind = "held" /\ object'[lock].by = t
  BY DEF UsingPinned
<1>1. CASE StepOf(t)
  <2>1. CASE Acquires(t)
    BY <1>0, <2>1, LockWritten DEF Acquires
  <2>2. CASE inUse(t) /\ UNCHANGED <<provider, disturbed>>
    BY <2>2 DEF UsingPinned, provider
  <2>. QED
    BY <1>0, <1>1, <2>1, <2>2, UsesLock
<1>2. CASE ~StepOf(t)
  <2>1. pc'[t] = pc[t]
    <3>1. CASE \E s \in Sessions : StepOf(s)
      BY <1>0, <1>2, <3>1, OthersStay
    <3>2. CASE UNCHANGED pc
      BY <3>2
    <3>. QED
      BY <3>1, <3>2 DEF Next, StepOf, vars, Expire, OthersWrite, OthersDelete, Aside
  <2>2. inUse(t)
    BY <2>1 DEF inUse, holding
  <2>3. CASE LockKept
    BY <2>2, <2>3 DEF LockKept, UsingPinned
  <2>4. CASE LockDisturbed
    BY <2>4 DEF LockDisturbed
  <2>5. ASSUME NEW s \in Sessions, LockTaken(s), StepOf(s)
        PROVE  FALSE
    BY <1>2, <2>2, <2>5, UserKeepsLock DEF LockTaken
  <2>. QED
    BY <1>0, <2>3, <2>4, <2>5, LockChanges
<1>. QED
  BY <1>1, <1>2

\* What the lock record needs: clean releases, pinned versions, users' records.
RecordInv == FoundInv /\ LockInv /\ UsingPinned

\* A session's step is one of the lock record's, or leaves it alone.
LEMMA RecordProtocol ==
    ASSUME RecordInv, ~disturbed, NEW s \in Sessions, StepOf(s)
    PROVE  [Record!Next]_(Record!recordVars)
<1>. DEFINE using == {t \in Sessions : inUse(t)}
<1>0. TypeOK /\ Numbered /\ PriorPinned /\ HeldPinned /\ UsingPinned
  BY DEF RecordInv, LockInv
<1>1. UNCHANGED disturbed
  BY <1>0, SessionWrites
<1>2. \A t \in Sessions \ {s} : inUse(t)' <=> inUse(t)
  BY <1>0, OthersStay DEF inUse, holding
<1>3. /\ ~inUse(s)' => using' = using \ {s}
      /\ inUse(s)' => using' = using \cup {s}
      /\ inUse(s)' /\ inUse(s) => using' = using
  BY <1>2
<1>4. CASE UNCHANGED object[lock] /\ ~Acquires(s)
  <2>1. inUse(s)' => inUse(s)
    BY <1>0, <1>4, UsesLock
  <2>2. CASE inUse(s)'
    BY <1>1, <1>3, <1>4, <2>1, <2>2 DEF Record!recordVars
  <2>3. CASE inUse(s) /\ ~inUse(s)'
    BY <1>1, <1>3, <1>4, <2>3 DEF Record!Next, Record!Protocol, Record!Leave
  <2>4. CASE ~inUse(s) /\ ~inUse(s)'
    BY <1>1, <1>3, <1>4, <2>4 DEF Record!recordVars
  <2>. QED
    BY <2>2, <2>3, <2>4
<1>5. CASE UNCHANGED provider
  <2>1. ~Acquires(s)
    BY <1>0, <1>5 DEF Acquires, write, TypeOK, provider
  <2>. QED
    BY <1>4, <1>5, <2>1 DEF provider
<1>6. CASE /\ pc[s] = "create" /\ generationMatches(item(s), 0)
           /\ write(s, item(s), "seed")
  <2>1. ~inUse(s) /\ ~inUse(s)'
    BY <1>0, <1>6, UsesLock DEF inUse, holding
  <2>2. using' = using
    BY <1>3, <2>1
  <2>3. item(s) \in seeds
    BY <1>0, SeedsTyped
  <2>4. CASE item(s) = lock
    <3>1. object[lock] = noObject
      BY <1>0, <1>6, <2>3, <2>4 DEF generationMatches, Numbered
    <3>2. object'[lock].kind = "seed"
      BY <1>0, <1>6, <2>4, LockWritten
    <3>. QED
      BY <1>0, <1>1, <2>2, <3>1, <3>2
         DEF Record!Next, Record!Protocol, Record!Seed, noObject, cleanLock
  <2>5. CASE item(s) # lock
    <3>1. object'[lock] = object[lock]
      BY <1>0, <1>6, <2>3, <2>5, VersionsNumbered
    <3>. QED
      BY <1>1, <2>2, <3>1 DEF Record!recordVars
  <2>. QED
    BY <2>4, <2>5
<1>7. CASE pc[s] = "acquire" /\ Acquires(s)
  <2>1. cleanLock(object[lock].kind)
    BY <1>0, <1>7 DEF Acquires, generationMatches, PriorPinned
  <2>2. object'[lock].kind = "held" /\ object'[lock].by = s
    BY <1>0, <1>7, LockWritten DEF Acquires
  <2>3. using' \in {using, using \cup {s}}
    BY <1>3, <1>7 DEF inUse, holding
  <2>. QED
    BY <1>0, <1>1, <2>1, <2>2, <2>3
       DEF Record!Next, Record!Protocol, Record!Take, cleanLock
<1>8. CASE pc[s] = "release" /\ Releases(s)
  <2>1. object[lock].kind = "held" /\ object[lock].by = s /\ inUse(s)
    BY <1>0, <1>8 DEF UsingPinned, inUse, holding
  <2>2. cleanLock(object'[lock].kind) /\ object'[lock].kind # "held"
    <3>1. cleanLock(call[s].prior.kind)
      BY <1>8 DEF RecordInv, FoundInv, ReleasePinned, locking
    <3>. QED
      BY <1>0, <1>8, <3>1, LockWritten DEF Releases, cleanLock
  <2>3. ~inUse(s)'
    <3>1. ~UNCHANGED provider
      BY <1>0, <1>8 DEF Releases, write, TypeOK, provider
    <3>. QED
      BY <1>0, <1>8, <3>1, UsesLock
  <2>. QED
    BY <1>0, <1>1, <1>3, <2>1, <2>2, <2>3
       DEF Record!Next, Record!Protocol, Record!Return, cleanLock
<1>. QED
  BY <1>0, <1>5, <1>6, <1>7, <1>8, SessionWrites

\* Every step is one of the lock record's, or leaves it alone.
LEMMA RecordStep ==
    ASSUME RecordInv, [Next]_vars
    PROVE  [Record!Next]_(Record!recordVars)
<1>. lock \in seeds
  BY StoreAssumption DEF StoreAssumption, lock, seeds
<1>0. TypeOK /\ Numbered
  BY DEF RecordInv, LockInv
<1>1. CASE \E s \in Sessions : StepOf(s)
  <2>1. UNCHANGED disturbed
    BY <1>0, <1>1, SessionWrites
  <2>2. CASE disturbed
    BY <2>1, <2>2 DEF Record!Next, Record!Afterwards
  <2>3. CASE ~disturbed
    BY <1>1, <2>3, RecordProtocol
  <2>. QED
    BY <2>2, <2>3
<1>2. CASE UNCHANGED <<object, pc, disturbed>>
  BY <1>2 DEF Record!recordVars, inUse, holding
<1>3. ASSUME NEW o \in seeds, OthersWrite(o) \/ OthersDelete(o)
      PROVE  [Record!Next]_(Record!recordVars)
  <2>1. UNCHANGED pc /\ disturbed' = (disturbed \/ o = lock)
    BY <1>3 DEF OthersWrite, OthersDelete, Aside
  <2>2. CASE disturbed
    BY <1>0, <2>1, <2>2 DEF Record!Next, Record!Afterwards, TypeOK
  <2>3. CASE ~disturbed /\ o = lock
    <3>1. disturbed' = TRUE
      BY <2>1, <2>3
    <3>. QED
      BY <2>1, <2>3, <3>1 DEF Record!Next, Record!Meddle, inUse, holding
  <2>4. CASE ~disturbed /\ o # lock
    <3>1. UNCHANGED disturbed
      BY <1>0, <2>1, <2>4 DEF TypeOK
    <3>2. object'[lock] = object[lock]
      BY <1>0, <1>3, <2>4 DEF OthersWrite, OthersDelete, write, TypeOK
    <3>. QED
      BY <2>1, <3>1, <3>2 DEF Record!recordVars, inUse, holding
  <2>. QED
    BY <2>2, <2>3, <2>4
<1>. QED
  BY <1>1, <1>2, <1>3 DEF Next, StepOf, vars, provider, observers, Expire

\* lockRoundTrip implements the lock record it relies on, for any number of
\* sessions, crashes, refused and lost answers: until an outsider meddles, the
\* record is taken only when it is free and given back only by its taker, and
\* one that a call leaves held stays held.
THEOREM ControlStoreImplementsLockRecord == Spec => LockIsReturnedByItsTaker
<1>1. Init => Record!Init /\ UsingPinned
  <2>. SUFFICES ASSUME Init PROVE Record!Init /\ UsingPinned
    OBVIOUS
  <2>1. object[lock].kind = "none"
    BY StoreAssumption DEF Init, StoreAssumption, noObject, lock, seeds
  <2>2. \A s \in Sessions : ~inUse(s)
    BY DEF Init, inUse, holding
  <2>. QED
    BY <2>1, <2>2 DEF Init, Record!Init, UsingPinned
<1>2. ASSUME RecordInv, [Next]_vars PROVE RecordInv'
  BY <1>2, FoundInvStep, LockInvStep, UsingPinnedStep DEF RecordInv
<1>3. RecordInv /\ [Next]_vars => [Record!Next]_(Record!recordVars)
  BY RecordStep
<1>4. Init => RecordInv
  BY <1>1, FoundInvInit, LockInvInit DEF RecordInv
<1>. QED
  BY <1>1, <1>2, <1>3, <1>4, PTL DEF Spec, LockIsReturnedByItsTaker, Record!Spec
=============================================================================
