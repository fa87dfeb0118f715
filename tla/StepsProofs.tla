------------------------------ MODULE StepsProofs ------------------------------
(***************************************************************************)
(* Proofs about the steps of a bootstrap: what the bucket steps K2 and K3  *)
(* and the network steps T1-T4 report is true, what they undo is their     *)
(* own, and what a successful step promised holds until others change it.  *)
(*                                                                         *)
(* Each part has an inductive invariant over its own variables; the model  *)
(* MCSteps, where one part moves while the others rest, inherits both.     *)
(***************************************************************************)
EXTENDS MCSteps, TLAPS, WellFoundedInduction

----------------------------------------------------------------------------
(* The first position of what is left to do *)

Below == {p \in Nat \X Nat : p[1] < p[2]}

\* A nonempty set of numbers has a least one.
LEMMA LeastElement ==
    ASSUME NEW S \in SUBSET Nat, S # {}
    PROVE  \E n \in S : \A m \in S : n <= m
<1>1. IsWellFoundedOn(Below, Nat)
  <2>1. Below = OpToRel(<, Nat)
    BY DEF Below, OpToRel
  <2>. QED
    BY <2>1, NatLessThanWellFounded
<1>2. PICK n \in S : \A m \in S : <<m, n>> \notin Below
  BY <1>1, WFMin
<1>3. ASSUME NEW m \in S
      PROVE  n <= m
  <2>1. <<m, n>> \notin Below /\ m \in Nat /\ n \in Nat
    BY <1>2
  <2>2. ~(m < n)
    BY <2>1 DEF Below
  <2>. QED
    BY <2>1, <2>2
<1>. QED
  BY <1>3

\* It is the one Min chooses.
LEMMA MinIsMember ==
    ASSUME NEW S \in SUBSET Nat, S # {}
    PROVE  Min(S) \in S
  BY LeastElement DEF Min

----------------------------------------------------------------------------
(* The bucket steps: their inductive invariant *)

K2Points == {"describe", "claim", "create", "look", "record", "redescribe", "version",
             "verify"}
K3Points == {"get", "add", "reobserve", "check"}
StepIds == {"none", "k2", "k3"}
BucketStates == [exists : BOOLEAN, ours : BOOLEAN, versioning : BOOLEAN, exact : BOOLEAN]
StepStates == [id : StepIds, pc : {"idle"} \cup K2Points \cup K3Points,
               left : SUBSET Buckets, seen : SUBSET Bindings, todo : SUBSET DOMAIN Rendered,
               added : SUBSET Bindings, mutated : BOOLEAN, effect : BOOLEAN]
Outcomes == [id : StepIds, verified : BOOLEAN, mutated : BOOLEAN, effect : BOOLEAN]

BucketTypeOK ==
    /\ bucket \in BucketStates
    /\ bindings \in [Bindings -> {Absent, Before} \cup Nat]
    /\ calls \in Nat
    /\ step \in StepStates
    /\ outcome \in Outcomes
    /\ reported \subseteq Bindings

\* Where a step stands says which step it is and what it has done so far.
StepInv ==
    /\ step.effect => step.mutated
    /\ step.pc \in K2Points => step.id = "k2"
    /\ step.pc \in K3Points => step.id = "k3"
    /\ step.pc \notin {"add", "reobserve", "check"} => step.added = {}
    /\ step.pc \in {"add", "reobserve"} => step.todo # {}
    /\ step # Idle => ~outcome.verified

\* A grant the steps made was reported, or is known to the call that made it,
\* or nobody can know of it.
GrantInv ==
    \A b \in Bindings : bindings[b] \notin {Absent, Before} =>
        \/ b \in reported \cup untold
        \/ /\ bindings[b] = calls
           /\ b \in step.added \/ (step.pc = "reobserve" /\ b = binding)

spared(b) == bindings[b] # Before \/ b \in raced

\* What a step has read and did not see, what it means to add, and what it
\* added was absent when it looked.
PreexistingInv ==
    /\ \A b \in reported \cup step.added : spared(b)
    /\ step.pc \in {"add", "reobserve"} => \A i \in step.todo : spared(Rendered[i])
    /\ step.pc = "get" => \A b \in Bindings :
                              BucketOf(b) \notin step.left /\ b \notin step.seen => spared(b)

ownBucket == (bucket.exists /\ bucket.ours) \/ "replaced" \in touched

\* The bucket whose creation was recorded is the operation's own, unless that
\* one was deleted.
OwnershipInv ==
    /\ "created" \in chain \/ step.pc = "record" => ownBucket
    /\ step.pc \in {"version", "redescribe", "verify"} => "created" \in chain

asRendered(name) == In(name) \cap Live = In(name) \cap Policy \/ name \in touched

\* The buckets a step has checked are as rendered.
CheckedInv ==
    /\ step.pc = "check" => \A name \in Buckets \ step.left : asRendered(name)
    /\ StorageOutcomesHold

BucketInv ==
    /\ BucketTypeOK /\ StepInv /\ GrantInv /\ PreexistingInv /\ OwnershipInv /\ CheckedInv
    /\ StorageReportsHonest

\* What others did to the control bucket is no name of a bucket.
LEMMA BucketNames ==
    ASSUME BucketAssumption
    PROVE  "replaced" \notin Buckets /\ "bucket" \notin Buckets /\ Buckets # {}
  BY DEF BucketAssumption

LEMMA BindingsHaveBuckets ==
    ASSUME BucketAssumption
    PROVE  \A b \in Bindings : BucketOf(b) \in Buckets
  BY DEF BucketAssumption, Bindings, Policy

----------------------------------------------------------------------------
(* How a bucket step goes on and ends *)

LEMMA Returns ==
    ASSUME NEW s \in StepStates, s.effect => s.mutated, NEW verified \in BOOLEAN,
           Return(s, verified)
    PROVE  /\ step' = Idle /\ reported' = reported \cup s.added
           /\ outcome' \in Outcomes /\ outcome'.id = s.id /\ outcome'.verified = verified
           /\ StorageReportsHonest'
  BY DEF Return, Outcomes, StepStates, StorageReportsHonest

LEMMA IdleIsAStep == Idle \in StepStates
  BY DEF Idle, StepStates, StepIds

k2Going(s) ==
    /\ s \in StepStates /\ s.pc \in K2Points /\ s.id = "k2" /\ s.added = {}
    /\ s.effect => s.mutated

LEMMA K2Forms ==
    ASSUME NEW s, k2Going(s), NEW p \in K2Points
    PROVE  /\ k2Going([s EXCEPT !.pc = p])
           /\ k2Going(marked(s)) /\ k2Going([marked(s) EXCEPT !.pc = p])
           /\ k2Going(effective(s)) /\ k2Going([effective(s) EXCEPT !.pc = p])
<1>1. ASSUME NEW r, k2Going(r)
      PROVE  /\ k2Going([r EXCEPT !.pc = p])
             /\ k2Going([r EXCEPT !.mutated = TRUE])
             /\ k2Going([[r EXCEPT !.mutated = TRUE] EXCEPT !.effect = TRUE])
  BY <1>1 DEF k2Going, StepStates
<1>. HIDE DEF k2Going
<1>. QED
  BY <1>1 DEF marked, effective

\* What the actions of K2 have in common.
K2Moves ==
    /\ step.pc \in K2Points /\ bucket' \in BucketStates /\ K2Unchanged
    /\ \E s : k2Going(s) /\ (GoOn(s) \/ \E verified \in BOOLEAN : Return(s, verified))

LEMMA K2Acts ==
    ASSUME BucketInv,
           \/ step.pc \in K2Points /\ (BucketReadFails \/ ApprovalLapses)
           \/ DescribeBucket \/ ClaimControlBucket \/ LookBeforeCreate \/ CreateControlBucket
           \/ RecordControlBucket \/ DescribeAgain \/ EnableVersioning
    PROVE  K2Moves
<1>1. bucket \in BucketStates /\ (step.pc \in K2Points => k2Going(step))
  BY DEF BucketInv, BucketTypeOK, StepInv, k2Going, K2Points
<1>2. \A s, p : k2Going(s) /\ p \in K2Points =>
          /\ k2Going([s EXCEPT !.pc = p])
          /\ k2Going(marked(s)) /\ k2Going([marked(s) EXCEPT !.pc = p])
          /\ k2Going(effective(s)) /\ k2Going([effective(s) EXCEPT !.pc = p])
  BY K2Forms
<1>. HIDE DEF k2Going, marked, effective
<1>. DEFINE ending(s) == Return(s, FALSE)
<1>. HIDE DEF ending
<1>3. \A s : k2Going(s) /\ Fail(s) => \E verified \in BOOLEAN : Return(s, verified)
  BY DEF Fail
<1>4. CASE step.pc \in K2Points /\ (BucketReadFails \/ ApprovalLapses)
  BY <1>1, <1>3, <1>4 DEF BucketReadFails, ApprovalLapses, K2Moves, K2Unchanged
<1>5. CASE DescribeBucket
  <2>1. step.pc = "describe" /\ K2Unchanged /\ bucket' = bucket
    BY <1>5 DEF DescribeBucket
  <2>2. \/ Fail(step) \/ Return(step, bucket.exact)
        \/ GoOn([step EXCEPT !.pc = "version"])
        \/ GoOn([step EXCEPT !.pc = "claim"]) \/ GoOn([step EXCEPT !.pc = "create"])
    BY <1>5 DEF DescribeBucket
  <2>3. bucket.exact \in BOOLEAN
    BY <1>1 DEF BucketStates
  <2>. HIDE DEF GoOn, Return, Fail
  <2>. QED
    BY <1>1, <1>2, <1>3, <2>1, <2>2, <2>3 DEF K2Moves, K2Points
<1>6. CASE ClaimControlBucket
  <2>1. step.pc = "claim" /\ K2Unchanged /\ bucket' = bucket
    BY <1>6 DEF ClaimControlBucket
  <2>2. Fail(step) \/ GoOn([step EXCEPT !.pc = "create"])
    BY <1>6 DEF ClaimControlBucket, AppendRecord
  <2>. HIDE DEF GoOn, Return, Fail
  <2>. QED
    BY <1>1, <1>2, <1>3, <2>1, <2>2 DEF K2Moves, K2Points
<1>7. CASE LookBeforeCreate
  <2>1. step.pc = "create" /\ K2Unchanged /\ bucket' = bucket
    BY <1>7 DEF LookBeforeCreate
  <2>2. Fail(marked(step)) \/ GoOn([marked(step) EXCEPT !.pc = "look"])
    BY <1>7 DEF LookBeforeCreate
  <2>. HIDE DEF GoOn, Return, Fail
  <2>. QED
    BY <1>1, <1>2, <1>3, <2>1, <2>2 DEF K2Moves, K2Points
<1>8. CASE CreateControlBucket
  <2>1. step.pc = "look" /\ K2Unchanged /\ bucket' \in {bucket, OurBucket}
    BY <1>8 DEF CreateControlBucket
  <2>3. OurBucket \in BucketStates
    BY DEF OurBucket, BucketStates
  <2>2. Fail(step) \/ Fail(effective(step)) \/ GoOn([effective(step) EXCEPT !.pc = "record"])
    BY <1>8 DEF CreateControlBucket
  <2>. HIDE DEF GoOn, Return, Fail
  <2>. QED
    BY <1>1, <1>2, <1>3, <2>1, <2>2, <2>3 DEF K2Moves, K2Points
<1>9. CASE RecordControlBucket
  <2>1. step.pc = "record" /\ K2Unchanged /\ bucket' = bucket
    BY <1>9 DEF RecordControlBucket
  <2>2. Fail(step) \/ GoOn([step EXCEPT !.pc = "redescribe"])
    BY <1>9 DEF RecordControlBucket, AppendRecord
  <2>. HIDE DEF GoOn, Return, Fail
  <2>. QED
    BY <1>1, <1>2, <1>3, <2>1, <2>2 DEF K2Moves, K2Points
<1>10. CASE DescribeAgain
  <2>1. step.pc \in {"redescribe", "verify"} /\ K2Unchanged /\ bucket' = bucket
    BY <1>10 DEF DescribeAgain
  <2>2. \/ Fail(step) \/ Return(step, bucket.versioning /\ bucket.exact)
        \/ GoOn([step EXCEPT !.pc = "version"])
    BY <1>10 DEF DescribeAgain
  <2>3. (bucket.versioning /\ bucket.exact) \in BOOLEAN
    BY <1>1 DEF BucketStates
  <2>. HIDE DEF GoOn, Return, Fail
  <2>. QED
    BY <1>1, <1>2, <1>3, <2>1, <2>2, <2>3 DEF K2Moves, K2Points
<1>11. CASE EnableVersioning
  <2>1. step.pc = "version" /\ K2Unchanged /\ bucket' \in BucketStates
    BY <1>1, <1>11 DEF EnableVersioning, BucketStates
  <2>2. \/ Fail(marked(step)) \/ Fail(effective(step))
        \/ GoOn([effective(step) EXCEPT !.pc = "verify"])
    BY <1>11 DEF EnableVersioning
  <2>. HIDE DEF GoOn, Return, Fail
  <2>. QED
    BY <1>1, <1>2, <1>3, <2>1, <2>2 DEF K2Moves, K2Points
<1>. QED
  BY <1>4, <1>5, <1>6, <1>7, <1>8, <1>9, <1>10, <1>11

\* A step of K2 grants nothing and answers for what it changed.
LEMMA K2Keeps ==
    ASSUME BucketInv, K2Moves
    PROVE  /\ BucketTypeOK' /\ StepInv' /\ GrantInv' /\ PreexistingInv'
           /\ StorageReportsHonest' /\ reported' = reported
           /\ step' = Idle \/ ~outcome'.verified
           /\ step'.pc \in K2Points \cup {"idle"}
<1>1. step.pc \in K2Points /\ step.added = {} /\ step \in StepStates
  BY DEF BucketInv, BucketTypeOK, StepInv, K2Moves, K2Points
<1>2. UNCHANGED <<bindings, calls, raced, untold>> /\ bucket' \in BucketStates
  BY DEF K2Moves, K2Unchanged
<1>3. PICK s : k2Going(s) /\ (GoOn(s) \/ \E verified \in BOOLEAN : Return(s, verified))
  BY DEF K2Moves
<1>4. ~outcome.verified /\ outcome \in Outcomes /\ StorageReportsHonest
  BY <1>1 DEF BucketInv, BucketTypeOK, StepInv, Idle, K2Points
<1>5. /\ step' \in StepStates /\ step'.added = {} /\ step'.pc \in K2Points \cup {"idle"}
      /\ step'.pc \in K2Points => step'.id = "k2"
      /\ step'.effect => step'.mutated
      /\ step' = Idle \/ ~outcome'.verified
      /\ reported' = reported /\ outcome' \in Outcomes /\ StorageReportsHonest'
  <2>1. CASE GoOn(s)
    BY <1>3, <1>4, <2>1 DEF GoOn, k2Going, StorageReportsHonest
  <2>2. CASE \E verified \in BOOLEAN : Return(s, verified)
    <3>1. PICK verified \in BOOLEAN : Return(s, verified)
      BY <2>2
    <3>2. s \in StepStates /\ s.added = {} /\ (s.effect => s.mutated)
      BY <1>3 DEF k2Going
    <3>. QED
      BY <3>1, <3>2, Returns, IdleIsAStep DEF Idle, K2Points
  <2>. QED
    BY <1>3, <2>1, <2>2
<1>6. BucketTypeOK'
  BY <1>2, <1>5 DEF BucketTypeOK, BucketInv
<1>7. StepInv'
  BY <1>5 DEF StepInv, K2Points, K3Points
<1>8. GrantInv'
  BY <1>1, <1>2, <1>5 DEF GrantInv, BucketInv, K2Points
<1>9. PreexistingInv'
  BY <1>1, <1>2, <1>5 DEF PreexistingInv, BucketInv, spared, K2Points
<1>. QED
  BY <1>5, <1>6, <1>7, <1>8, <1>9

----------------------------------------------------------------------------
(* K2 works on the operation's own bucket and reports what it found *)

LEMMA K2Owns ==
    ASSUME BucketInv, K2Moves,
           \/ step.pc \in K2Points /\ (BucketReadFails \/ ApprovalLapses)
           \/ DescribeBucket \/ ClaimControlBucket \/ LookBeforeCreate \/ CreateControlBucket
           \/ RecordControlBucket \/ DescribeAgain \/ EnableVersioning
    PROVE  OwnershipInv'
<1>. USE DEF OwnershipInv, ownBucket, GoOn, Return, Fail, Idle
<1>1. OwnershipInv /\ bucket \in BucketStates /\ step \in StepStates
  BY DEF BucketInv, BucketTypeOK
<1>2. CASE step.pc \in K2Points /\ (BucketReadFails \/ ApprovalLapses)
  BY <1>1, <1>2 DEF BucketReadFails, ApprovalLapses
<1>3. CASE DescribeBucket
  <2>1. UNCHANGED <<bucket, chain>> /\ ("replaced" \in touched => "replaced" \in touched')
    BY <1>3 DEF DescribeBucket
  <2>2. \/ step' = Idle \/ step'.pc \in {"claim", "create"}
        \/ (step'.pc = "version" /\ "created" \in chain)
    <3>1. CASE ~accepted(bucket.exists)
      BY <1>3, <3>1 DEF DescribeBucket
    <3>2. CASE accepted(bucket.exists) /\ bucket.exists
      BY <1>1, <1>3, <3>2 DEF DescribeBucket, accepted, StepStates
    <3>3. CASE accepted(bucket.exists) /\ ~bucket.exists
      BY <1>1, <1>3, <3>3 DEF DescribeBucket, StepStates
    <3>. QED
      BY <3>1, <3>2, <3>3
  <2>. QED
    BY <1>1, <2>1, <2>2
<1>4. CASE ClaimControlBucket
  BY <1>1, <1>4 DEF ClaimControlBucket, AppendRecord, StepStates
<1>5. CASE LookBeforeCreate
  <2>1. UNCHANGED <<bucket, chain, touched>> /\ (step' = Idle \/ step'.pc = "look")
    BY <1>1, <1>5 DEF LookBeforeCreate, StepStates, marked
  <2>. QED
    BY <1>1, <2>1
<1>6. CASE CreateControlBucket
  <2>1. /\ UNCHANGED <<chain, touched>>
        /\ bucket' = OurBucket \/ (UNCHANGED bucket /\ step' = Idle)
        /\ step' = Idle \/ step'.pc = "record"
    BY <1>1, <1>6 DEF CreateControlBucket, StepStates, effective, marked
  <2>. QED
    BY <1>1, <2>1 DEF OurBucket
<1>7. CASE RecordControlBucket
  BY <1>1, <1>7 DEF RecordControlBucket, AppendRecord, StepStates
<1>8. CASE DescribeAgain
  <2>1. UNCHANGED <<bucket, chain>> /\ ("replaced" \in touched => "replaced" \in touched')
    BY <1>8 DEF DescribeAgain
  <2>2. "created" \in chain /\ (step' = Idle \/ step'.pc = "version")
    BY <1>1, <1>8 DEF DescribeAgain, StepStates
  <2>. QED
    BY <1>1, <2>1, <2>2
<1>9. CASE EnableVersioning
  <2>1. /\ UNCHANGED <<chain, touched>> /\ "created" \in chain
        /\ bucket'.exists = bucket.exists /\ bucket'.ours = bucket.ours
        /\ step' = Idle \/ step'.pc = "verify"
    BY <1>1, <1>9 DEF EnableVersioning, BucketStates, StepStates, effective, marked
  <2>. QED
    BY <1>1, <2>1
<1>. QED
  BY <1>2, <1>3, <1>4, <1>5, <1>6, <1>7, <1>8, <1>9

LEMMA K2Promises ==
    ASSUME BucketInv, K2Moves,
           \/ step.pc \in K2Points /\ (BucketReadFails \/ ApprovalLapses)
           \/ DescribeBucket \/ ClaimControlBucket \/ LookBeforeCreate \/ CreateControlBucket
           \/ RecordControlBucket \/ DescribeAgain \/ EnableVersioning
    PROVE  CheckedInv'
<1>1. step' = Idle \/ ~outcome'.verified
  BY K2Keeps
<1>2. step'.pc # "check"
  BY K2Keeps DEF K2Points
<1>3. step.id = "k2" /\ bucket \in BucketStates
  BY DEF BucketInv, BucketTypeOK, StepInv, K2Moves
<1>4. outcome'.verified => outcome'.id = "k2" /\ bucket'.versioning /\ bucket'.exact
  <2>1. ASSUME step' = Idle
        PROVE  \/ outcome'.verified = FALSE
               \/ DescribeBucket /\ bucket.versioning /\ Return(step, bucket.exact)
               \/ DescribeAgain /\ Return(step, bucket.versioning /\ bucket.exact)
    <3>1. step.pc \in K2Points /\ step \in StepStates
      BY DEF K2Moves, BucketInv, BucketTypeOK
    <3>2. \A p \in K2Points : /\ [step EXCEPT !.pc = p] # Idle
                              /\ [marked(step) EXCEPT !.pc = p] # Idle
                              /\ [effective(step) EXCEPT !.pc = p] # Idle
      BY <3>1 DEF StepStates, marked, effective, Idle, K2Points
    <3>3. Fail(step) \/ Fail(marked(step)) \/ Fail(effective(step)) => outcome'.verified = FALSE
      BY DEF Fail, Return
    <3>4. \A s : GoOn(s) => s = Idle
      BY <2>1 DEF GoOn
    <3>. HIDE DEF GoOn, Fail, Return, marked, effective
    <3>. QED
      BY <3>2, <3>3, <3>4
         DEF BucketReadFails, ApprovalLapses, DescribeBucket, ClaimControlBucket, AppendRecord,
             LookBeforeCreate, CreateControlBucket, RecordControlBucket, DescribeAgain,
             EnableVersioning, K2Points
  <2>2. ASSUME DescribeBucket, bucket.versioning, Return(step, bucket.exact), outcome'.verified
        PROVE  outcome'.id = "k2" /\ bucket'.versioning /\ bucket'.exact
    BY <1>3, <2>2 DEF DescribeBucket, Return
  <2>3. ASSUME DescribeAgain, Return(step, bucket.versioning /\ bucket.exact), outcome'.verified
        PROVE  outcome'.id = "k2" /\ bucket'.versioning /\ bucket'.exact
    BY <1>3, <2>3 DEF DescribeAgain, Return
  <2>. QED
    BY <1>1, <2>1, <2>2, <2>3
<1>. QED
  BY <1>2, <1>4 DEF CheckedInv, StorageOutcomesHold

----------------------------------------------------------------------------
(* K3: the bindings *)

k3Going(s) ==
    /\ s \in StepStates /\ s.pc \in K3Points /\ s.id = "k3"
    /\ s.effect => s.mutated
    /\ s.pc = "get" => s.added = {}
    /\ s.pc \in {"add", "reobserve"} => s.todo # {}

LEMMA K3State ==
    ASSUME BucketInv, step.pc \in K3Points
    PROVE  k3Going(step) /\ ~outcome.verified /\ outcome \in Outcomes /\ StorageReportsHonest
  BY DEF BucketInv, BucketTypeOK, StepInv, k3Going, Idle, K3Points

\* The binding an add is about is one of the policy that is still to be added.
LEMMA BindingIsRendered ==
    ASSUME BucketAssumption, BucketTypeOK, step.todo # {}
    PROVE  /\ Min(step.todo) \in step.todo /\ binding = Rendered[Min(step.todo)]
           /\ binding \in Bindings /\ BucketOf(binding) \in Buckets
<1>1. DOMAIN Rendered \subseteq Nat
  BY DEF BucketAssumption
<1>2. step.todo \subseteq DOMAIN Rendered
  BY DEF BucketTypeOK, StepStates
<1>3. Min(step.todo) \in step.todo
  BY <1>1, <1>2, MinIsMember
<1>4. binding \in ToSet(Rendered)
  BY <1>2, <1>3 DEF binding, ToSet
<1>. QED
  BY <1>3, <1>4 DEF BucketAssumption, binding, Bindings, Policy

\* Of a K3 action that goes on as s or returns s.
LEMMA K3Goes ==
    ASSUME BucketAssumption, BucketInv, step.pc \in K3Points, K3Unchanged,
           NEW s, k3Going(s),
           bindings' \in [Bindings -> {Absent, Before} \cup Nat],
           \A name : name \notin Buckets /\ name \in touched => name \in touched',
           GoOn(s) \/ \E verified \in BOOLEAN : Return(s, verified)
    PROVE  /\ BucketTypeOK' /\ StepInv' /\ OwnershipInv' /\ StorageReportsHonest'
           /\ \/ step' = s /\ UNCHANGED <<outcome, reported>>
              \/ /\ step' = Idle /\ reported' = reported \cup s.added
                 /\ outcome'.id = "k3"
<1>1. CASE GoOn(s)
  <2>1. step' = s /\ UNCHANGED <<outcome, reported, done>>
    BY <1>1 DEF GoOn
  <2>2. BucketTypeOK'
    BY <2>1 DEF BucketTypeOK, BucketInv, K3Unchanged, k3Going
  <2>3. StepInv'
    BY <2>1, K3State DEF StepInv, K2Points, K3Points, k3Going, StepStates
  <2>. QED
    BY <1>1, <2>1, <2>2, <2>3, BucketNames
       DEF BucketInv, OwnershipInv, ownBucket, K3Unchanged, StorageReportsHonest, k3Going,
           K3Points
<1>2. CASE \E verified \in BOOLEAN : Return(s, verified)
  <2>1. PICK verified \in BOOLEAN : Return(s, verified)
    BY <1>2
  <2>2. /\ step' = Idle /\ reported' = reported \cup s.added /\ outcome' \in Outcomes
        /\ outcome'.id = "k3" /\ StorageReportsHonest'
    BY <2>1, Returns DEF k3Going
  <2>3. s.added \subseteq Bindings
    BY DEF k3Going, StepStates
  <2>4. BucketTypeOK'
    BY <2>2, <2>3, IdleIsAStep DEF BucketTypeOK, BucketInv, K3Unchanged
  <2>5. StepInv'
    BY <2>2 DEF StepInv, Idle, K2Points, K3Points
  <2>. QED
    BY <2>2, <2>4, <2>5, BucketNames DEF BucketInv, OwnershipInv, ownBucket, K3Unchanged, Idle
<1>. QED
  BY <1>1, <1>2

LEMMA K3Fails ==
    ASSUME BucketAssumption, BucketInv, BucketReadFails \/ ApprovalLapses, step.pc \in K3Points
    PROVE  BucketInv'
<1>1. /\ Fail(step) /\ UNCHANGED <<bucket, chain, bindings, expired, calls, touched, raced,
                                   untold, mishaps>>
  BY DEF BucketReadFails, ApprovalLapses
<1>2. /\ BucketTypeOK' /\ StepInv' /\ OwnershipInv' /\ StorageReportsHonest'
      /\ k3Going(step) /\ step \in StepStates
  BY <1>1, K3Goes, K3State DEF BucketInv, BucketTypeOK, K3Unchanged, Fail
<1>3. /\ step' = Idle /\ reported' = reported \cup step.added /\ outcome'.verified = FALSE
  BY <1>1 DEF Fail, Return
<1>4. step.pc # "reobserve"
  BY DEF BucketReadFails, ApprovalLapses
<1>. QED
  BY <1>1, <1>2, <1>3, <1>4
     DEF BucketInv, GrantInv, PreexistingInv, spared, CheckedInv, StorageOutcomesHold, Idle

LEMMA GetKeeps ==
    ASSUME BucketAssumption, BucketInv, NEW name \in Buckets, GetBindings(name)
    PROVE  BucketInv'
<1>. DEFINE seen == step.seen \cup (In(name) \cap Live)
            s == [step EXCEPT !.left = @ \ {name}, !.seen = seen]
            todo == CompensationBindings(seen)
            s2 == IF s.left # {} THEN s ELSE GoAdd([s EXCEPT !.todo = todo])
<1>1. /\ step.pc = "get" /\ touched' = touched \ {name} /\ UNCHANGED <<bindings, untold>>
      /\ GoOn(s2) /\ K3Unchanged
  BY DEF GetBindings
<1>2. k3Going(step) /\ ~outcome.verified /\ step \in StepStates
  BY <1>1, K3State DEF K3Points, k3Going
<1>3. seen \subseteq Bindings /\ todo \subseteq DOMAIN Rendered
  BY <1>2 DEF StepStates, In, CompensationBindings
<1>. HIDE DEF seen, todo
<1>4. /\ s2 \in StepStates /\ s2.id = "k3" /\ s2.added = {} /\ s2.effect = step.effect
      /\ s2.mutated = step.mutated
      /\ \/ s2.pc = "get" /\ s2.left = step.left \ {name} /\ s2.seen = seen
         \/ s2.pc = "check" /\ s2.left = Buckets
         \/ s2.pc = "add" /\ s2.todo = todo /\ todo # {} /\ step.left \subseteq {name}
  <2>1. s \in StepStates /\ s.pc = "get" /\ s.id = "k3" /\ s.added = {}
        /\ s.effect = step.effect /\ s.mutated = step.mutated /\ s.seen = seen
        /\ s.left = step.left \ {name}
    BY <1>1, <1>2, <1>3 DEF StepStates, k3Going
  <2>. HIDE DEF s
  <2>. QED
    BY <1>3, <2>1 DEF StepStates, GoAdd, K3Points
<1>. HIDE DEF s2
<1>5. k3Going(s2)
  BY <1>2, <1>4 DEF k3Going, K3Points
<1>6. BucketTypeOK' /\ StepInv' /\ OwnershipInv' /\ StorageReportsHonest'
  BY <1>1, <1>5, K3Goes DEF BucketInv, BucketTypeOK, K3Points
<1>7. step' = s2 /\ UNCHANGED <<outcome, reported>>
  BY <1>1 DEF GoOn
<1>8. UNCHANGED <<bindings, calls, raced, untold>> /\ step.added = {}
  BY <1>1, <1>2 DEF K3Unchanged, k3Going
<1>9. GrantInv'
  BY <1>1, <1>4, <1>7, <1>8 DEF BucketInv, GrantInv
<1>10. \A b \in Bindings : BucketOf(b) \notin step.left \ {name} /\ b \notin seen => spared(b)
  <2>1. \A b \in Bindings : BucketOf(b) = name /\ b \notin seen => bindings[b] = Absent
    BY DEF seen, In, Live
  <2>2. \A b \in Bindings : BucketOf(b) \notin step.left /\ b \notin seen => spared(b)
    BY <1>1 DEF BucketInv, PreexistingInv, seen
  <2>. QED
    BY <2>1, <2>2 DEF spared, BucketAssumption
<1>11. ASSUME step.left \subseteq {name}, NEW i \in todo
       PROVE  spared(Rendered[i])
  <2>1. Rendered[i] \in Bindings /\ Rendered[i] \notin seen
    BY <1>3, <1>11 DEF todo, CompensationBindings, Bindings, Policy, ToSet
  <2>. QED
    BY <1>10, <1>11, <2>1
<1>12. \A b : spared(b)' <=> spared(b)
  BY <1>8 DEF spared
<1>13. PreexistingInv'
  <2>1. \A b \in reported' \cup step'.added : spared(b)
    BY <1>1, <1>4, <1>7, <1>8 DEF BucketInv, PreexistingInv
  <2>2. step'.pc \in {"add", "reobserve"} => \A i \in step'.todo : spared(Rendered[i])
    BY <1>4, <1>7, <1>11
  <2>3. step'.pc = "get" => \A b \in Bindings :
            BucketOf(b) \notin step'.left /\ b \notin step'.seen => spared(b)
    BY <1>4, <1>7, <1>10
  <2>. QED
    BY <1>12, <2>1, <2>2, <2>3 DEF PreexistingInv
<1>14. CheckedInv'
  BY <1>2, <1>4, <1>7 DEF CheckedInv, StorageOutcomesHold
<1>. QED
  BY <1>6, <1>9, <1>13, <1>14 DEF BucketInv

LEMMA AddKeeps ==
    ASSUME BucketAssumption, BucketInv, AddBinding
    PROVE  BucketInv'
<1>. DEFINE rest == [added(effective(step)) EXCEPT !.todo = @ \ {Min(@)}]
            again == [effective(step) EXCEPT !.pc = "reobserve"]
            failed == [marked(step) EXCEPT !.pc = "reobserve"]
<1>1. /\ step.pc = "add" /\ UNCHANGED <<touched, untold>> /\ K3Unchanged
      /\ \/ observable(BucketOf(binding)) /\ add /\ (GoOn(GoAdd(rest)) \/ GoOn(again))
         \/ UNCHANGED bindings /\ GoOn(failed)
  BY DEF AddBinding
<1>2. k3Going(step) /\ ~outcome.verified /\ step \in StepStates /\ step.todo # {}
  BY <1>1, K3State DEF K3Points, k3Going
<1>3. /\ Min(step.todo) \in step.todo /\ binding = Rendered[Min(step.todo)]
      /\ binding \in Bindings /\ BucketTypeOK
  BY <1>2, BindingIsRendered DEF BucketInv
<1>4. k3Going(again) /\ again.pc = "reobserve" /\ again.todo = step.todo /\ again.added = step.added
  BY <1>2 DEF k3Going, StepStates, marked, effective, K3Points
<1>5. k3Going(failed) /\ failed.pc = "reobserve" /\ failed.todo = step.todo
      /\ failed.added = step.added
  BY <1>2 DEF k3Going, StepStates, marked, K3Points
<1>6. /\ k3Going(GoAdd(rest)) /\ GoAdd(rest).pc \in {"add", "check"}
      /\ GoAdd(rest).todo \subseteq step.todo
      /\ GoAdd(rest).added = step.added \cup {binding}
      /\ GoAdd(rest).pc = "check" => GoAdd(rest).left = Buckets
  <2>1. /\ rest \in StepStates /\ rest.todo = step.todo \ {Min(step.todo)} /\ rest.pc = "add"
        /\ rest.added = step.added \cup {binding} /\ rest.id = "k3" /\ rest.mutated
    BY <1>1, <1>2, <1>3 DEF added, marked, effective, StepStates, k3Going
  <2>. HIDE DEF rest
  <2>. QED
    BY <2>1 DEF GoAdd, k3Going, StepStates, K3Points
<1>. HIDE DEF rest, again, failed
<1>7. /\ bindings' \in [Bindings -> {Absent, Before} \cup Nat]
      /\ \A b \in Bindings \ {binding} : bindings'[b] = bindings[b]
      /\ bindings'[binding] = bindings[binding]
         \/ (bindings[binding] = Absent /\ bindings'[binding] = calls)
  BY <1>1, <1>3 DEF add, BucketTypeOK
<1>8. PICK s : /\ k3Going(s) /\ GoOn(s) /\ s.todo \subseteq step.todo
               /\ \/ s.pc = "reobserve" /\ s.todo = step.todo /\ s.added = step.added
                  \/ s.pc \in {"add", "check"} /\ s.added = step.added \cup {binding}
               /\ s.pc = "check" => s.left = Buckets
  BY <1>1, <1>4, <1>5, <1>6, Zenon
<1>9. BucketTypeOK' /\ StepInv' /\ OwnershipInv' /\ StorageReportsHonest'
  BY <1>1, <1>7, <1>8, K3Goes DEF K3Points
<1>10. step' = s /\ UNCHANGED <<outcome, reported, raced, calls, untold>>
  BY <1>1, <1>8 DEF GoOn, K3Unchanged
<1>11. GrantInv'
  <2>1. s.pc = "reobserve" => binding' = binding
    BY <1>8, <1>10 DEF binding
  <2>2. ASSUME NEW b \in Bindings, bindings'[b] \notin {Absent, Before}, b \notin reported \cup untold
        PROVE  bindings'[b] = calls /\ (b \in s.added \/ (s.pc = "reobserve" /\ b = binding))
    <3>1. CASE bindings'[b] = bindings[b]
      BY <1>1, <1>8, <2>2, <3>1 DEF BucketInv, GrantInv
    <3>2. CASE bindings'[b] # bindings[b]
      BY <1>7, <1>8, <3>2
    <3>. QED
      BY <3>1, <3>2
  <2>. QED
    BY <1>10, <2>1, <2>2 DEF GrantInv
<1>12. PreexistingInv'
  <2>1. \A b \in Bindings : spared(b) => spared(b)'
    BY <1>3, <1>7, <1>10 DEF spared, BucketAssumption, BucketTypeOK
  <2>2. spared(binding)
    BY <1>1, <1>3 DEF BucketInv, PreexistingInv
  <2>3. /\ \A b \in reported \cup step.added : spared(b)
        /\ \A i \in step.todo : spared(Rendered[i])
    BY <1>1 DEF BucketInv, PreexistingInv
  <2>4. /\ reported \cup step.added \subseteq Bindings
        /\ \A i \in step.todo : Rendered[i] \in Bindings
    BY <1>2 DEF BucketInv, BucketTypeOK, StepStates, Bindings, Policy, ToSet
  <2>5. s.added \subseteq step.added \cup {binding} /\ s.pc # "get"
    BY <1>8
  <2>. QED
    BY <1>3, <1>8, <1>10, <2>1, <2>2, <2>3, <2>4, <2>5 DEF PreexistingInv
<1>13. CheckedInv'
  BY <1>2, <1>8, <1>10 DEF CheckedInv, StorageOutcomesHold
<1>. QED
  BY <1>9, <1>11, <1>12, <1>13 DEF BucketInv

LEMMA ReobserveKeeps ==
    ASSUME BucketAssumption, BucketInv, ReobserveBinding
    PROVE  BucketInv'
<1>1. step.pc = "reobserve" /\ UNCHANGED <<bindings, touched>> /\ K3Unchanged
  BY DEF ReobserveBinding
<1>2. k3Going(step) /\ step \in StepStates /\ step.todo # {}
  BY <1>1, K3State DEF K3Points, k3Going
<1>3. Min(step.todo) \in step.todo /\ binding = Rendered[Min(step.todo)] /\ binding \in Bindings
  BY <1>2, BindingIsRendered DEF BucketInv
<1>4. k3Going(added(step)) /\ added(step).added = step.added \cup {binding}
  <2>. DEFINE more == step.added \cup {binding}
  <2>1. more \subseteq Bindings
    BY <1>2, <1>3 DEF StepStates
  <2>2. added(step) = [step EXCEPT !.added = more]
    BY <1>2 DEF added, StepStates
  <2>. HIDE DEF more
  <2>3. k3Going([step EXCEPT !.added = more]) /\ [step EXCEPT !.added = more].added = more
    BY <1>1, <1>2, <2>1 DEF k3Going, StepStates
  <2>. QED
    BY <2>2, <2>3 DEF more
<1>5. PICK s : /\ k3Going(s) /\ Fail(s)
               /\ \/ /\ s.added = step.added \/ s.added = step.added \cup {binding}
                     /\ bindings[binding] # Absent => binding \in s.added
                     /\ UNCHANGED untold
                  \/ s.added = step.added /\ untold' = untold \cup {binding}
  <2>1. binding \in Live <=> bindings[binding] # Absent
    BY <1>3 DEF Live
  <2>. HIDE DEF Fail
  <2>. QED
    BY <1>2, <1>4, <2>1 DEF ReobserveBinding, containsBinding
<1>6. Return(s, FALSE)
  BY <1>5 DEF Fail
<1>7. BucketTypeOK' /\ StepInv' /\ OwnershipInv' /\ StorageReportsHonest'
  BY <1>1, <1>5, <1>6, K3Goes DEF K3Points, BucketInv, BucketTypeOK
<1>8. /\ step' = Idle /\ reported' = reported \cup s.added /\ outcome'.verified = FALSE
      /\ UNCHANGED <<calls, raced>>
  BY <1>1, <1>6 DEF Return, K3Unchanged
<1>9. GrantInv'
  BY <1>1, <1>5, <1>8 DEF GrantInv, BucketInv
<1>10. PreexistingInv'
  <2>1. spared(binding) /\ \A b \in reported \cup step.added : spared(b)
    BY <1>1, <1>3 DEF BucketInv, PreexistingInv
  <2>. QED
    BY <1>1, <1>5, <1>8, <2>1 DEF PreexistingInv, spared, Idle
<1>11. CheckedInv'
  BY <1>8 DEF CheckedInv, StorageOutcomesHold, Idle
<1>. QED
  BY <1>7, <1>9, <1>10, <1>11 DEF BucketInv

LEMMA CheckKeeps ==
    ASSUME BucketAssumption, BucketInv, NEW name \in Buckets, CheckBindings(name)
    PROVE  BucketInv'
<1>. DEFINE next == [step EXCEPT !.left = @ \ {name}]
            same == In(name) \cap Live = In(name) \cap Policy
<1>1. /\ step.pc = "check" /\ name \in step.left /\ touched' = touched \ {name}
      /\ UNCHANGED <<bindings, untold>> /\ K3Unchanged
      /\ Fail(step) \/ (same /\ step.left = {name} /\ Return(step, TRUE)) \/ (same /\ GoOn(next))
  BY DEF CheckBindings, bindingsEqualPolicy
<1>2. k3Going(step) /\ ~outcome.verified /\ step \in StepStates
  BY <1>1, K3State DEF K3Points, k3Going
<1>3. k3Going(next) /\ next.pc = "check" /\ next.left = step.left \ {name}
      /\ next.added = step.added
  BY <1>1, <1>2 DEF k3Going, StepStates
<1>. HIDE DEF next, same
<1>4. PICK s : /\ k3Going(s) /\ s.added = step.added
               /\ GoOn(s) \/ \E verified \in BOOLEAN : Return(s, verified)
  <2>. HIDE DEF GoOn, Return
  <2>. QED
    BY <1>1, <1>2, <1>3 DEF Fail
<1>5. BucketTypeOK' /\ StepInv' /\ OwnershipInv' /\ StorageReportsHonest'
  BY <1>1, <1>4, K3Goes DEF K3Points, BucketInv, BucketTypeOK
<1>6. /\ UNCHANGED <<bindings, untold, calls, raced>>
      /\ \/ step' = next /\ same /\ UNCHANGED <<outcome, reported>>
         \/ /\ step' = Idle /\ reported' = reported \cup step.added
            /\ outcome'.verified => same /\ step.left = {name} /\ outcome'.id = "k3"
  BY <1>1, <1>2 DEF K3Unchanged, GoOn, Fail, Return, k3Going
<1>7. GrantInv'
  BY <1>1, <1>3, <1>6 DEF GrantInv, BucketInv
<1>8. PreexistingInv'
  BY <1>1, <1>3, <1>6 DEF PreexistingInv, BucketInv, spared, Idle
<1>9. same => \A other \in (Buckets \ step.left) \cup {name} : asRendered(other)'
  <2>1. \A other \in Buckets \ step.left : asRendered(other)
    BY <1>1 DEF BucketInv, CheckedInv
  <2>2. Live' = Live
    BY <1>1 DEF Live
  <2>3. ASSUME NEW other \in Buckets \ step.left
        PROVE  asRendered(other)'
    BY <1>1, <2>1, <2>2, <2>3 DEF asRendered
  <2>4. same => asRendered(name)'
    BY <2>2 DEF asRendered, same
  <2>. QED
    BY <2>3, <2>4
<1>10. CheckedInv'
  <2>1. step'.pc = "check" => \A other \in Buckets \ step'.left : asRendered(other)'
    BY <1>3, <1>6, <1>9 DEF Idle
  <2>2. outcome'.verified => outcome'.id = "k3" /\ \A other \in Buckets : asRendered(other)'
    BY <1>2, <1>6, <1>9
  <2>. QED
    BY <2>1, <2>2 DEF CheckedInv, StorageOutcomesHold, asRendered
<1>. QED
  BY <1>5, <1>7, <1>8, <1>10 DEF BucketInv

----------------------------------------------------------------------------
(* What happens between and around the steps *)

LEMMA StartKeeps ==
    ASSUME BucketAssumption, BucketInv, NEW id \in {"k2", "k3"}, StartStep(id)
    PROVE  BucketInv'
<1>1. /\ step = Idle /\ calls' = calls + 1 /\ outcome' = NoOutcome
      /\ step' = [Idle EXCEPT !.id = id, !.left = Buckets,
                              !.pc = IF id = "k2" THEN "describe" ELSE "get"]
      /\ UNCHANGED <<bucket, chain, bindings, expired, done, reported, touched, raced, untold,
                     mishaps>>
  BY DEF StartStep
<1>2. /\ step' \in StepStates /\ step'.added = {} /\ ~step'.effect
      /\ step'.left = Buckets
      /\ \/ step'.pc = "describe" /\ step'.id = "k2"
         \/ step'.pc = "get" /\ step'.id = "k3"
  BY <1>1, IdleIsAStep DEF Idle, StepStates, StepIds, K2Points, K3Points
<1>3. NoOutcome \in Outcomes /\ ~NoOutcome.verified /\ NoOutcome.mutated
  BY DEF NoOutcome, Outcomes, StepIds
<1>4. BucketTypeOK'
  BY <1>1, <1>2, <1>3 DEF BucketInv, BucketTypeOK
<1>5. StepInv' /\ StorageReportsHonest'
  BY <1>1, <1>2, <1>3 DEF StepInv, StorageReportsHonest, K2Points, K3Points
<1>6. GrantInv'
  BY <1>1 DEF BucketInv, GrantInv, Idle
<1>7. PreexistingInv'
  BY <1>1, <1>2, BindingsHaveBuckets DEF BucketInv, PreexistingInv, spared
<1>8. OwnershipInv' /\ CheckedInv'
  BY <1>1, <1>2, <1>3 DEF BucketInv, OwnershipInv, ownBucket, CheckedInv, StorageOutcomesHold
<1>. QED
  BY <1>4, <1>5, <1>6, <1>7, <1>8 DEF BucketInv

\* The step has not begun anew, and knows nothing more: what others do.
LEMMA OthersKeep ==
    ASSUME BucketAssumption, BucketInv,
           UNCHANGED <<chain, calls, step, outcome, reported, untold>>,
           bucket' \in BucketStates, bindings' \in [Bindings -> {Absent, Before} \cup Nat],
           touched \subseteq touched', raced \subseteq raced',
           \A b \in Bindings :
               \/ bindings'[b] = bindings[b]
               \/ bindings'[b] = Absent /\ BucketOf(b) \in touched'
               \/ /\ bindings'[b] = Before /\ BucketOf(b) \in touched'
                  /\ \/ b \in raced'
                     \/ /\ b \notin reported
                        /\ step.id = "k3" => step.pc = "get" /\ BucketOf(b) \in step.left,
           \/ UNCHANGED bucket
           \/ /\ "bucket" \in touched'
              /\ bucket.exists /\ bucket.ours =>
                     (bucket'.exists /\ bucket'.ours) \/ "replaced" \in touched'
    PROVE  BucketInv'
<1>1. /\ BucketTypeOK /\ StepInv /\ GrantInv /\ PreexistingInv /\ OwnershipInv /\ CheckedInv
      /\ StorageReportsHonest
  BY DEF BucketInv
<1>2. BucketTypeOK' /\ StepInv' /\ StorageReportsHonest'
  BY <1>1 DEF BucketTypeOK, StepInv, StorageReportsHonest
<1>3. binding' = binding
  BY DEF binding
<1>4. GrantInv'
  BY <1>1, <1>3 DEF GrantInv
<1>5. ASSUME NEW b \in Bindings, spared(b),
             \/ b \in raced' \/ b \in reported
             \/ (step.id = "k3" /\ (step.pc = "get" => BucketOf(b) \notin step.left))
      PROVE  spared(b)'
  BY <1>5 DEF spared, BucketAssumption
<1>6. PreexistingInv'
  <2>1. ASSUME NEW b \in reported \cup step.added
        PROVE  spared(b)'
    <3>1. spared(b) /\ b \in Bindings
      BY <1>1, <2>1 DEF PreexistingInv, BucketTypeOK, StepStates
    <3>2. b \in step.added => step.id = "k3" /\ step.pc # "get"
      BY <1>1 DEF StepInv, K3Points
    <3>. QED
      BY <1>5, <2>1, <3>1, <3>2
  <2>2. ASSUME step.pc \in {"add", "reobserve"}, NEW i \in step.todo
        PROVE  spared(Rendered[i])'
    <3>1. Rendered[i] \in Bindings
      BY <1>1, <2>2 DEF BucketTypeOK, StepStates, Bindings, Policy, ToSet
    <3>2. spared(Rendered[i]) /\ step.id = "k3" /\ step.pc # "get"
      BY <1>1, <2>2 DEF PreexistingInv, StepInv, K3Points
    <3>. QED
      BY <1>5, <3>1, <3>2
  <2>3. ASSUME step.pc = "get", NEW b \in Bindings, BucketOf(b) \notin step.left, b \notin step.seen
        PROVE  spared(b)'
    <3>1. spared(b) /\ step.id = "k3"
      BY <1>1, <2>3 DEF PreexistingInv, StepInv, K3Points
    <3>. QED
      BY <1>5, <2>3, <3>1
  <2>. QED
    BY <2>1, <2>2, <2>3 DEF PreexistingInv
<1>7. OwnershipInv'
  BY <1>1 DEF OwnershipInv, ownBucket
<1>8. ASSUME NEW name, asRendered(name)
      PROVE  asRendered(name)'
  <2>1. CASE name \in touched'
    BY <2>1 DEF asRendered
  <2>2. CASE name \notin touched'
    <3>1. \A b \in In(name) : b \in Bindings /\ bindings'[b] = bindings[b]
      BY <2>2 DEF In
    <3>2. In(name) \cap Live' = In(name) \cap Live
      BY <3>1 DEF Live
    <3>. QED
      BY <1>8, <2>2, <3>2 DEF asRendered
  <2>. QED
    BY <2>1, <2>2
<1>9. CheckedInv'
  <2>1. step.pc = "check" => \A name \in Buckets \ step.left : asRendered(name)'
    BY <1>1, <1>8 DEF CheckedInv
  <2>2. outcome.verified /\ outcome.id = "k2" =>
            (bucket'.versioning /\ bucket'.exact) \/ "bucket" \in touched'
    BY <1>1 DEF CheckedInv, StorageOutcomesHold
  <2>3. outcome.verified /\ outcome.id # "k2" => \A name \in Buckets : asRendered(name)'
    BY <1>1, <1>8 DEF CheckedInv, StorageOutcomesHold, asRendered
  <2>. QED
    BY <2>1, <2>2, <2>3 DEF CheckedInv, StorageOutcomesHold, asRendered
<1>. QED
  BY <1>2, <1>4, <1>6, <1>7, <1>9 DEF BucketInv

LEMMA RemoveKeeps ==
    ASSUME BucketAssumption, BucketInv, NEW b \in Bindings, RemoveBinding(b)
    PROVE  BucketInv'
<1>1. /\ step = Idle /\ reported' = reported \ {b} /\ touched' = touched \cup {BucketOf(b)}
      /\ bindings' = [bindings EXCEPT ![b] = Absent]
      /\ UNCHANGED <<bucket, chain, calls, step, outcome, raced, untold>>
  BY DEF RemoveBinding
<1>2. BucketTypeOK' /\ StepInv' /\ StorageReportsHonest' /\ OwnershipInv'
  BY <1>1 DEF BucketInv, BucketTypeOK, StepInv, StorageReportsHonest, OwnershipInv, ownBucket
<1>3. \A c \in Bindings \ {b} : bindings'[c] = bindings[c]
  BY <1>1 DEF BucketInv, BucketTypeOK
<1>4. bindings'[b] = Absent
  BY <1>1 DEF BucketInv, BucketTypeOK
<1>5. GrantInv'
  BY <1>1, <1>3, <1>4 DEF BucketInv, GrantInv, Idle
<1>6. PreexistingInv'
  BY <1>1, <1>3, <1>4 DEF BucketInv, BucketTypeOK, PreexistingInv, spared, Idle
<1>7. ASSUME NEW name, asRendered(name)
      PROVE  asRendered(name)'
  <2>1. CASE name = BucketOf(b)
    BY <1>1, <2>1 DEF asRendered
  <2>2. CASE name # BucketOf(b)
    <3>1. \A c \in In(name) : c \in Bindings \ {b}
      BY <2>2 DEF In
    <3>2. In(name) \cap Live' = In(name) \cap Live
      BY <1>3, <3>1 DEF Live
    <3>. QED
      BY <1>1, <1>7, <3>2 DEF asRendered
  <2>. QED
    BY <2>1, <2>2
<1>8. CheckedInv'
  <2>1. outcome.verified /\ outcome.id # "k2" => \A name \in Buckets : asRendered(name)'
    BY <1>7 DEF BucketInv, CheckedInv, StorageOutcomesHold, asRendered
  <2>. QED
    BY <1>1, <2>1 DEF BucketInv, CheckedInv, StorageOutcomesHold, asRendered, Idle
<1>. QED
  BY <1>2, <1>5, <1>6, <1>8 DEF BucketInv

LEMMA CrashKeeps ==
    ASSUME BucketAssumption, BucketInv, StepCrash
    PROVE  BucketInv'
<1>1. /\ step' = Idle /\ untold' = untold \cup {b \in Bindings : bindings[b] = calls}
      /\ UNCHANGED <<bucket, chain, bindings, calls, outcome, reported, touched, raced>>
  BY DEF StepCrash
<1>2. BucketTypeOK' /\ StepInv' /\ StorageReportsHonest' /\ OwnershipInv' /\ CheckedInv'
  BY <1>1, IdleIsAStep
     DEF BucketInv, BucketTypeOK, StepInv, StorageReportsHonest, OwnershipInv, ownBucket,
         CheckedInv, StorageOutcomesHold, asRendered, Live, Idle, K2Points, K3Points
<1>3. GrantInv'
  BY <1>1 DEF BucketInv, GrantInv
<1>4. PreexistingInv'
  BY <1>1 DEF BucketInv, PreexistingInv, spared, Idle
<1>. QED
  BY <1>2, <1>3, <1>4 DEF BucketInv

LEMMA BucketStarts ==
    ASSUME BucketAssumption, BucketInit
    PROVE  BucketInv
<1>1. /\ bucket = NoBucket /\ chain = {} /\ bindings \in [Bindings -> {Absent, Before}]
      /\ calls = 0 /\ step = Idle /\ outcome = NoOutcome /\ reported = {}
  BY DEF BucketInit
<1>2. NoBucket \in BucketStates /\ Idle \in StepStates /\ NoOutcome \in Outcomes
  BY DEF NoBucket, BucketStates, Idle, StepStates, StepIds, NoOutcome, Outcomes
<1>3. BucketTypeOK /\ StepInv
  BY <1>1, <1>2 DEF BucketTypeOK, StepInv, Idle, K2Points, K3Points
<1>. QED
  BY <1>1, <1>3
     DEF BucketInv, GrantInv, PreexistingInv, OwnershipInv, CheckedInv, StorageOutcomesHold,
         StorageReportsHonest, Idle, NoOutcome

LEMMA BucketStep ==
    ASSUME BucketAssumption, BucketInv, [BucketNext]_bucketVars
    PROVE  BucketInv'
<1>1. CASE UNCHANGED bucketVars
  BY <1>1 DEF bucketVars, BucketInv, BucketTypeOK, StepInv, GrantInv, binding, PreexistingInv,
              spared, OwnershipInv, ownBucket, CheckedInv, asRendered, StorageOutcomesHold, Live,
              StorageReportsHonest
<1>2. ASSUME \/ step.pc \in K2Points /\ (BucketReadFails \/ ApprovalLapses)
             \/ DescribeBucket \/ ClaimControlBucket \/ LookBeforeCreate \/ CreateControlBucket
             \/ RecordControlBucket \/ DescribeAgain \/ EnableVersioning
      PROVE  BucketInv'
  <2>1. K2Moves
    BY <1>2, K2Acts
  <2>2. OwnershipInv' /\ CheckedInv'
    BY <1>2, <2>1, K2Owns, K2Promises
  <2>. QED
    BY <2>1, <2>2, K2Keeps DEF BucketInv
<1>3. CASE BucketReadFails \/ ApprovalLapses
  <2>1. step.pc \in K2Points \cup K3Points
    BY <1>3 DEF BucketReadFails, ApprovalLapses, K2Points, K3Points
  <2>. QED
    BY <1>2, <1>3, <2>1, K3Fails
<1>5. bucket \in BucketStates /\ bindings \in [Bindings -> {Absent, Before} \cup Nat]
      /\ step \in StepStates
  BY DEF BucketInv, BucketTypeOK
<1>6. ASSUME NEW b \in Bindings, OthersAddBinding(b)
      PROVE  BucketInv'
  <2>1. /\ bindings' = [bindings EXCEPT ![b] = Before] /\ touched' = touched \cup {BucketOf(b)}
        /\ UNCHANGED <<bucket, chain, calls, step, outcome, reported, untold>>
        /\ raced' = IF \/ b \in reported
                       \/ step.id = "k3" /\ (step.pc # "get" \/ BucketOf(b) \notin step.left)
                       THEN raced \cup {b} ELSE raced
    BY <1>6 DEF OthersAddBinding, Others
  <2>2. /\ bindings' \in [Bindings -> {Absent, Before} \cup Nat] /\ bindings'[b] = Before
        /\ \A c \in Bindings \ {b} : bindings'[c] = bindings[c]
    BY <1>5, <2>1
  <2>. QED
    BY <1>5, <2>1, <2>2, OthersKeep
<1>7. ASSUME NEW b \in Bindings, OthersRemoveBinding(b)
      PROVE  BucketInv'
  <2>1. /\ bindings' = [bindings EXCEPT ![b] = Absent] /\ touched' = touched \cup {BucketOf(b)}
        /\ UNCHANGED <<bucket, chain, calls, step, outcome, reported, raced, untold>>
    BY <1>7 DEF OthersRemoveBinding, Others
  <2>2. /\ bindings' \in [Bindings -> {Absent, Before} \cup Nat] /\ bindings'[b] = Absent
        /\ \A c \in Bindings \ {b} : bindings'[c] = bindings[c]
    BY <1>5, <2>1
  <2>. QED
    BY <1>5, <2>1, <2>2, OthersKeep
<1>8. CASE OthersCreateBucket \/ OthersModifyBucket
  <2>1. /\ touched' = touched \cup {"bucket"}
        /\ UNCHANGED <<bindings, chain, calls, step, outcome, reported, raced, untold>>
    BY <1>8 DEF OthersCreateBucket, OthersModifyBucket, Others
  <2>2. bucket' \in BucketStates /\ (bucket.exists /\ bucket.ours => bucket'.exists /\ bucket'.ours)
    BY <1>5, <1>8 DEF OthersCreateBucket, OthersModifyBucket, BucketStates
  <2>. QED
    BY <1>5, <2>1, <2>2, OthersKeep
<1>9. CASE OthersDeleteBucket
  <2>1. /\ bindings' = [b \in Bindings |-> IF b \in In("control") THEN Absent ELSE bindings[b]]
        /\ touched' = touched \cup ({"bucket", "control"}
                                        \cup IF bucket.ours THEN {"replaced"} ELSE {})
        /\ bucket' = NoBucket
        /\ UNCHANGED <<chain, calls, step, outcome, reported, raced, untold>>
    BY <1>9 DEF OthersDeleteBucket, Others
  <2>2. NoBucket \in BucketStates
    BY DEF NoBucket, BucketStates
  <2>3. \A b \in Bindings : \/ bindings'[b] = bindings[b]
                            \/ bindings'[b] = Absent /\ BucketOf(b) \in touched'
    BY <2>1 DEF In
  <2>4. bindings' \in [Bindings -> {Absent, Before} \cup Nat]
    BY <1>5, <2>1
  <2>. QED
    BY <2>1, <2>2, <2>3, <2>4, OthersKeep
<1>10. CASE Expire
  BY <1>5, <1>10, OthersKeep DEF Expire
<1>. QED
  BY <1>1, <1>2, <1>3, <1>6, <1>7, <1>8, <1>9, <1>10, StartKeeps, GetKeeps, CheckKeeps, AddKeeps,
     ReobserveKeeps, CrashKeeps, RemoveKeeps DEF BucketNext

\* Of what may happen, only EnableVersioning changes a bucket that is there; what
\* others do is counted.
LEMMA BucketMoves ==
    ASSUME [BucketNext]_bucketVars
    PROVE  /\ mishaps' \in {mishaps, mishaps + 1}
           /\ \/ UNCHANGED bucket \/ EnableVersioning \/ mishaps' = mishaps + 1
              \/ ~bucket.exists
<1>. USE DEF K2Unchanged, K3Unchanged
<1>1. CASE UNCHANGED bucketVars
  BY <1>1 DEF bucketVars
<1>2. CASE BucketReadFails \/ ApprovalLapses \/ Expire \/ \E id \in {"k2", "k3"} : StartStep(id)
  BY <1>2 DEF BucketReadFails, ApprovalLapses, Expire, StartStep
<1>3. CASE DescribeBucket \/ ClaimControlBucket \/ LookBeforeCreate
  BY <1>3 DEF DescribeBucket, ClaimControlBucket, LookBeforeCreate
<1>4. CASE CreateControlBucket
  BY <1>4 DEF CreateControlBucket
<1>5. CASE RecordControlBucket \/ DescribeAgain
  BY <1>5 DEF RecordControlBucket, DescribeAgain
<1>6. CASE EnableVersioning
  BY <1>6 DEF EnableVersioning
<1>7. CASE \E name \in Buckets : GetBindings(name) \/ CheckBindings(name)
  BY <1>7 DEF GetBindings, CheckBindings
<1>8. CASE AddBinding \/ ReobserveBinding
  BY <1>8 DEF AddBinding, ReobserveBinding
<1>9. CASE StepCrash
  BY <1>9 DEF StepCrash
<1>10. CASE \E b \in Bindings : RemoveBinding(b)
  BY <1>10 DEF RemoveBinding
<1>11. CASE \/ \E b \in Bindings : OthersAddBinding(b) \/ OthersRemoveBinding(b)
            \/ OthersCreateBucket \/ OthersModifyBucket \/ OthersDeleteBucket
  BY <1>11 DEF OthersAddBinding, OthersRemoveBinding, OthersCreateBucket, OthersModifyBucket,
               OthersDeleteBucket, Others
<1>. QED
  BY <1>1, <1>2, <1>3, <1>4, <1>5, <1>6, <1>7, <1>8, <1>9, <1>10, <1>11 DEF BucketNext

\* K2 does not change a bucket that others made.
LEMMA ForeignBucketKept ==
    ASSUME BucketInv, mishaps \in Nat, [BucketNext]_bucketVars,
           bucket.exists, ~bucket.ours, bucket' # bucket, mishaps' = mishaps
    PROVE  "replaced" \in touched
<1>1. EnableVersioning
  BY BucketMoves
<1>. QED
  BY <1>1 DEF EnableVersioning, BucketInv, OwnershipInv, ownBucket

----------------------------------------------------------------------------
(* The network steps: the plan of a call *)

LEMMA PlanFacts ==
    ASSUME NetworkAssumption, intent \in Intents
    PROVE  /\ DOMAIN plan \subseteq {1, 2} /\ DOMAIN plan # {}
           /\ \A i \in DOMAIN plan : plan[i] \in Resources
           /\ \A i, j \in DOMAIN plan : plan[i] = plan[j] => i = j
           /\ \A r \in Resources : \E i \in DOMAIN plan : r = plan[i]
           /\ "ranges" \notin Resources
           /\ "router" \in Resources <=> "nat" \in Resources
<1>1. intent \in {"network", "subnet", "nat", "firewall"}
  BY DEF NetworkAssumption
<1>2. plan \in {<<"network">>, <<"subnet">>, <<"router", "nat">>, <<"iap", "internal">>}
  BY <1>1 DEF plan, networkIntentSteps
<1>3. Resources = {plan[i] : i \in DOMAIN plan}
  BY DEF Resources, ToSet
<1>4. CASE plan = <<"network">>
  BY <1>3, <1>4
<1>5. CASE plan = <<"subnet">>
  BY <1>3, <1>5
<1>6. CASE plan = <<"router", "nat">>
  BY <1>3, <1>6
<1>7. CASE plan = <<"iap", "internal">>
  BY <1>3, <1>7
<1>. QED
  BY <1>2, <1>4, <1>5, <1>6, <1>7

LEMMA MaxIsMember ==
    ASSUME NEW S \in SUBSET {1, 2}, S # {}
    PROVE  Max(S) \in S
<1>1. \E n \in S : \A m \in S : n >= m
  BY 2 \in S \/ S = {1}
<1>. QED
  BY <1>1 DEF Max

target(c) == plan[position(c)]

LEMMA PositionIsLeft ==
    ASSUME NetworkAssumption, intent \in Intents, NEW c,
           c.todo \subseteq DOMAIN plan, c.todo # {}
    PROVE  /\ position(c) \in c.todo /\ position(c) \in DOMAIN plan
           /\ target(c) \in Resources
<1>1. c.todo \in SUBSET {1, 2} /\ c.todo \in SUBSET Nat
  BY PlanFacts
<1>2. Min(c.todo) \in c.todo /\ Max(c.todo) \in c.todo
  BY <1>1, MinIsMember, MaxIsMember
<1>. QED
  BY <1>2, PlanFacts DEF position, target

----------------------------------------------------------------------------
(* The network steps: their inductive invariant *)

Modes == {"none", "apply", "verify", "compensate"}
Mutations == {"not-occurred", "occurred", "unknown"}
Points == {"idle", "observe", "owner", "status", "ranges", "nats", "again", "create", "delete"}
Things == [id : Nat, print : Nat, exact : BOOLEAN, by : Nat]
Calls == [mode : Modes, pc : Points, stage : {"before", "after"}, todo : SUBSET DOMAIN plan,
          from : Nat, created : SUBSET CreationRecords, chosen : SUBSET CreationRecords,
          mutated : BOOLEAN, inc : Incarnations, effect : BOOLEAN, sawNAT : BOOLEAN]
Results == [mode : Modes, ok : BOOLEAN, mutation : Mutations, effect : BOOLEAN,
            targets : SUBSET Resources]

NetworkTypeOK ==
    /\ now \in Nat /\ intent \in Intents /\ op \in Nat /\ attempt \in Nat
    /\ world \in [Resources -> Things] /\ born \in Nat
    /\ call \in Calls /\ records \in SUBSET CreationRecords /\ last \in Results

\* Ids are given out once, and the NAT does not outlive its router.
WorldInv ==
    /\ \A r \in Resources : world[r].id <= born /\ (present(r) => world[r].id # 0)
    /\ "nat" \in Resources /\ present("nat") => present("router")

\* No resource will come to have this incarnation, and the one that has it was
\* created by this operation.
traced(r, inc, operation) ==
    /\ inc[1] <= born /\ (inc[1] = 0 => inc[2] = 0)
    /\ r = "nat" /\ world["router"].id = inc[1] => inc[2] <= world["router"].print
    /\ present(r) /\ inc = incarnation(r) => world[r].by = operation \/ r \in swapped

tracedAll(recs) == \A rec \in recs : traced(rec.resource, rec.incarnation, rec.op)

\* Where a call may stand, and what it has changed.
shape(c) ==
    /\ c \in Calls /\ c.mode # "none" /\ c.pc # "idle" /\ c.todo # {}
    /\ c.pc \in {"owner", "status"} => target(c) = "nat"
    /\ c.pc \in {"ranges", "create"} => c.mode = "apply"
    /\ c.pc \in {"nats", "again"} => target(c) = "router"
    /\ c.pc \in {"nats", "again", "delete"} => c.mode = "compensate"
    /\ c.stage = "after" => c.pc \in {"observe", "owner", "status"} /\ c.mode # "verify"
    /\ c.pc = "status" => c.mode # "compensate"
    /\ c.effect => c.created # {} \/ c.mutated \/ c.stage = "after"
    /\ c.mode = "compensate" =>
           /\ c.chosen \subseteq records /\ \A rec \in c.chosen : rec.op = op
           /\ \A i \in c.todo : \E rec \in c.chosen : rec.resource = plan[i]

own(r) == present(r) => world[r].by = op \/ r \in swapped

\* What an apply has created and not yet recorded is this operation's.
ownCreation(c) ==
    c.mode = "apply" /\ c.stage = "after" =>
        /\ own(target(c))
        /\ c.pc = "status" => traced("nat", c.inc, op)

\* What a compensation is about to delete is this operation's.
ownDeletion(c) ==
    /\ c.pc = "delete" => own(target(c)) \/ target(c) \in moved
    /\ c.pc \in {"again", "delete"} /\ target(c) = "router" => ~present("nat") \/ "nat" \in moved

settled(mode, r) ==
    \/ r \in moved
    \/ IF mode = "compensate" THEN ~present(r) ELSE present(r) /\ world[r].exact

scope(c) == IF c.mode = "compensate" THEN {rec.resource : rec \in c.chosen} ELSE Resources
left(c) == {plan[i] : i \in c.todo}

\* What a call has gone through is as it should be.
passed(c) ==
    /\ \A r \in scope(c) \ left(c) : settled(c.mode, r)
    /\ c.pc \in {"owner", "status"} /\ c.mode # "compensate" => settled(c.mode, target(c))

\* A subnet is created where no range was in the way.
rangesClear(c) ==
    c.pc = "create" /\ target(c) = "subnet" => "overlapping" \notin ranges \/ "ranges" \in moved

goodCall(c) ==
    /\ shape(c) /\ tracedAll(c.created) /\ ownCreation(c) /\ ownDeletion(c) /\ passed(c)
    /\ rangesClear(c)

NetworkInv ==
    /\ NetworkTypeOK /\ WorldInv /\ tracedAll(records)
    /\ call # NoCall => goodCall(call) /\ last = NoResult
    /\ ReportsAreHonest /\ OutcomesHold

----------------------------------------------------------------------------
(* How the provider's state changes *)

LEMMA PlanStays ==
    ASSUME intent' = intent
    PROVE  /\ plan' = plan /\ Resources' = Resources /\ CreationRecords' = CreationRecords
           /\ Calls' = Calls /\ Results' = Results
  BY DEF plan, Resources, CreationRecords, Calls, Results

\* A resource stays, as it was.
steady(r) ==
    /\ world'[r] = Gone <=> world[r] = Gone
    /\ world'[r].exact = world[r].exact /\ world'[r].by = world[r].by

\* A resource goes, or stays the same incarnation, or is a new one; a NAT that is
\* there is the one its router's fingerprint stood for.
WorldChanges ==
    /\ world' \in [Resources -> Things] /\ born' \in Nat /\ born <= born'
    /\ \A r \in Resources :
           \/ world'[r] = Gone
           \/ /\ present(r) /\ world'[r].id = world[r].id /\ world'[r].by = world[r].by
              /\ world'[r].print >= world[r].print
           \/ world'[r].id = born + 1 /\ born' = born + 1
    /\ "nat" \in Resources /\ world'["nat"] # Gone =>
           /\ world'["router"] # Gone
           /\ world'["router"].id = world["router"].id
                  /\ world'["router"].print = world["router"].print =>
                  world'["nat"] = world["nat"]

LEMMA TracedStays ==
    ASSUME NetworkAssumption, NetworkTypeOK, WorldInv, WorldChanges, swapped \subseteq swapped',
           NEW r \in Resources, NEW inc \in Incarnations, NEW operation, traced(r, inc, operation)
    PROVE  traced(r, inc, operation)'
<1>1. inc[1] \in Nat /\ inc[2] \in Nat /\ inc = <<inc[1], inc[2]>>
  BY DEF Incarnations
<1>2. /\ born \in Nat /\ born' \in Nat /\ born <= born' /\ inc[1] <= born
      /\ (inc[1] = 0 => inc[2] = 0)
  BY DEF NetworkTypeOK, WorldChanges, traced
<1>3. "router" \in Resources <=> "nat" \in Resources
  BY PlanFacts DEF NetworkTypeOK
<1>4. \A q \in Resources : /\ world[q] \in Things /\ world'[q] \in Things
                           /\ world[q] # Gone => world[q].id # 0
  BY DEF NetworkTypeOK, WorldChanges, WorldInv, present
<1>5. CASE r # "nat"
  <2>1. \/ world'[r] = Gone
        \/ present(r) /\ world'[r].id = world[r].id /\ world'[r].by = world[r].by
        \/ world'[r].id = born + 1
    BY DEF WorldChanges
  <2>2. inc = <<world'[r].id, 0>> /\ world'[r] # Gone => world'[r].by = operation \/ r \in swapped'
    <3>1. CASE world'[r].id = born + 1
      BY <1>1, <1>2, <3>1
    <3>2. CASE present(r) /\ world'[r].id = world[r].id /\ world'[r].by = world[r].by
      BY <1>5, <3>2 DEF traced, incarnation
    <3>. QED
      BY <2>1, <3>1, <3>2
  <2>. QED
    BY <1>1, <1>2, <1>5, <2>2 DEF traced, present, incarnation
<1>6. CASE r = "nat"
  <2>1. \/ world'["router"] = Gone
        \/ /\ present("router") /\ world'["router"].id = world["router"].id
           /\ world'["router"].print >= world["router"].print
        \/ world'["router"].id = born + 1
    BY <1>3, <1>6 DEF WorldChanges
  <2>2. world["router"] \in Things /\ world'["router"] \in Things
    BY <1>3, <1>4, <1>6
  <2>3. world'["router"].id = inc[1] => inc[2] <= world'["router"].print
    <3>1. CASE world'["router"] = Gone
      BY <1>1, <1>2, <3>1 DEF Gone
    <3>2. CASE present("router") /\ world'["router"].id = world["router"].id
               /\ world'["router"].print >= world["router"].print
      BY <1>1, <1>6, <2>2, <3>2 DEF traced, Things
    <3>3. CASE world'["router"].id = born + 1
      BY <1>1, <1>2, <3>3
    <3>. QED
      BY <2>1, <3>1, <3>2, <3>3
  <2>4. ASSUME world'["nat"] # Gone, inc = <<world'["router"].id, world'["router"].print>>
        PROVE  world'["nat"].by = operation \/ "nat" \in swapped'
    <3>1. world'["router"] # Gone
      BY <1>6, <2>4 DEF WorldChanges
    <3>2. world'["router"].id = inc[1] /\ world'["router"].print = inc[2]
      BY <2>4
    <3>3. /\ world'["router"].id = world["router"].id
          /\ world'["router"].print >= world["router"].print
      BY <1>1, <1>2, <2>1, <3>1, <3>2
    <3>4. inc[2] <= world["router"].print
      BY <1>6, <3>2, <3>3 DEF traced
    <3>5. world'["router"].print = world["router"].print
      BY <1>1, <2>2, <3>2, <3>3, <3>4 DEF Things
    <3>6. world'["nat"] = world["nat"]
      BY <1>6, <2>4, <3>3, <3>5 DEF WorldChanges
    <3>. QED
      BY <1>6, <2>4, <3>3, <3>5, <3>6 DEF traced, present, incarnation
  <2>. QED
    BY <1>1, <1>2, <1>6, <2>3, <2>4 DEF traced, present, incarnation
<1>. QED
  BY <1>5, <1>6

\* What a change of resource r to thing leaves of resource q.
leaves(r, thing, q) ==
    IF r = "nat" /\ q = "router" THEN [world["router"] EXCEPT !.print = @ + 1]
    ELSE IF r = "router" /\ thing = Gone /\ q = "nat" THEN Gone
    ELSE world[q]

LEMMA PutForms ==
    ASSUME NetworkAssumption, NetworkTypeOK, NEW r \in Resources, NEW thing \in Things
    PROVE  /\ put(r, thing) \in [Resources -> Things]
           /\ put(r, thing)[r] = thing
           /\ \A q \in Resources \ {r} : put(r, thing)[q] = leaves(r, thing, q)
<1>1. world \in [Resources -> Things] /\ ("router" \in Resources <=> "nat" \in Resources)
  BY PlanFacts DEF NetworkTypeOK
<1>2. CASE r = "nat"
  BY <1>1, <1>2 DEF put, leaves, Things
<1>3. CASE r = "router" /\ thing = Gone
  BY <1>1, <1>3 DEF put, leaves, Things, Gone
<1>4. CASE r # "nat" /\ ~(r = "router" /\ thing = Gone)
  BY <1>1, <1>4 DEF put, leaves
<1>. QED
  BY <1>2, <1>3, <1>4

\* A change of one resource r to thing, with what hangs on it.
LEMMA Changes ==
    ASSUME NetworkAssumption, NetworkTypeOK, WorldInv, NEW r \in Resources, NEW thing \in Things,
           world' \in [Resources -> Things], world'[r] = thing, born' \in {born, born + 1},
           intent' = intent,
           \/ \A q \in Resources \ {r} : world'[q] = leaves(r, thing, q)
           \/ \A q \in Resources \ {r} : world'[q] = leaves(r, Gone, q),
           r = "nat" => present("router"),
           \/ thing = Gone
           \/ present(r) /\ thing.id = world[r].id /\ thing.by = world[r].by
              /\ thing.print >= world[r].print
           \/ thing.id = born + 1 /\ born' = born + 1
    PROVE  /\ WorldChanges /\ WorldInv'
           /\ \A q \in Resources \ {r} :
                  \/ steady(q)
                  \/ r = "router" /\ q = "nat" /\ world'[q] = Gone
<1>1. /\ world \in [Resources -> Things] /\ ("router" \in Resources <=> "nat" \in Resources)
      /\ born \in Nat /\ born' \in Nat /\ born <= born'
  BY PlanFacts DEF NetworkTypeOK
<1>2. \A q \in Resources : world[q].id <= born /\ (world[q] # Gone => world[q].id # 0)
  BY DEF WorldInv, present
<1>3. "nat" \in Resources /\ world["nat"] # Gone => world["router"] # Gone
  BY DEF WorldInv, present
<1>4. Gone \in Things /\ Gone.id = 0
  BY DEF Gone, Things
<1>5. thing.id \in Nat /\ thing.id <= born' /\ (thing # Gone => thing.id # 0)
  BY <1>1, <1>2, <1>4 DEF present, Things
<1>. DEFINE after(q) ==
            \/ world'[q] = world[q]
            \/ /\ r = "nat" /\ q = "router"
               /\ world'[q] = [world["router"] EXCEPT !.print = @ + 1]
            \/ r = "router" /\ q = "nat" /\ world'[q] = Gone
<1>6. \A q \in Resources \ {r} : after(q) /\ (r = "nat" /\ q = "router" => world'[q] # world[q])
  <2>1. ASSUME NEW q \in Resources \ {r}
        PROVE  after(q) /\ (r = "nat" /\ q = "router" => world'[q] # world[q])
    <3>1. world'[q] = leaves(r, thing, q) \/ world'[q] = leaves(r, Gone, q)
      OBVIOUS
    <3>2. after(q)
      BY <3>1 DEF leaves
    <3>3. r = "nat" /\ q = "router" => world'[q] = [world["router"] EXCEPT !.print = @ + 1]
      BY <3>1 DEF leaves
    <3>4. world[q] \in Things
      BY <1>1
    <3>. QED
      BY <3>2, <3>3, <3>4 DEF Things
  <2>. QED
    BY <2>1
<1>7. ASSUME NEW q \in Resources \ {r}
      PROVE  /\ steady(q) \/ (r = "router" /\ q = "nat" /\ world'[q] = Gone)
             /\ \/ world'[q] = Gone
                \/ /\ present(q) /\ world'[q].id = world[q].id /\ world'[q].by = world[q].by
                   /\ world'[q].print >= world[q].print
             /\ world'[q].id <= born' /\ (world'[q] # Gone => world'[q].id # 0)
  <2>0. after(q) /\ world[q] \in Things
    BY <1>1, <1>6
  <2>1. CASE world'[q] = world[q]
    BY <1>1, <1>2, <2>0, <2>1 DEF steady, present, Things
  <2>2. CASE /\ r = "nat" /\ q = "router"
             /\ world'[q] = [world["router"] EXCEPT !.print = @ + 1]
    <3>1. CASE world["router"] # Gone
      <4>1. world[q].id # 0 /\ world'[q].id = world[q].id /\ world'[q].by = world[q].by
            /\ world'[q].exact = world[q].exact /\ world'[q].print = world[q].print + 1
        BY <1>2, <2>0, <2>2, <3>1 DEF Things
      <4>2. world'[q] # Gone
        BY <1>4, <4>1
      <4>. QED
        BY <1>1, <1>2, <2>0, <2>2, <3>1, <4>1, <4>2 DEF steady, present, Things
    <3>2. CASE world["router"] = Gone
      BY <2>2, <3>2, <1>3 DEF present
    <3>. QED
      BY <3>1, <3>2
  <2>3. CASE r = "router" /\ q = "nat" /\ world'[q] = Gone
    BY <1>1, <1>4, <2>3
  <2>. QED
    BY <2>0, <2>1, <2>2, <2>3
<1>. HIDE DEF after
<1>8. "nat" \in Resources /\ world'["nat"] # Gone =>
          /\ world'["router"] # Gone
          /\ world'["router"].id = world["router"].id
                 /\ world'["router"].print = world["router"].print =>
                 world'["nat"] = world["nat"]
  <2>1. CASE r = "nat"
    <3>1. "router" \in Resources \ {r} /\ world["router"] # Gone /\ world["router"] \in Things
      BY <1>1, <2>1 DEF present
    <3>2. world'["router"] = [world["router"] EXCEPT !.print = @ + 1]
      BY <1>6, <2>1, <3>1 DEF after, Things
    <3>3. world'["router"].print = world["router"].print + 1 /\ world'["router"].id # 0
      BY <1>2, <3>1, <3>2 DEF Things
    <3>. QED
      BY <1>4, <3>1, <3>3 DEF Things
  <2>2. CASE r = "router"
    <3>1. thing = Gone => world'["nat"] = Gone
      BY <1>1, <2>2 DEF leaves
    <3>2. world'["nat"] = world["nat"] \/ world'["nat"] = Gone
      BY <1>1, <1>6, <2>2 DEF after
    <3>. QED
      BY <2>2, <3>1, <3>2
  <2>3. CASE r \notin {"nat", "router"} /\ "nat" \in Resources
    BY <1>1, <1>3, <1>6, <2>3 DEF after
  <2>. QED
    BY <2>1, <2>2, <2>3
<1>9. \A q \in Resources : world'[q].id <= born' /\ (world'[q] # Gone => world'[q].id # 0)
  BY <1>5, <1>7
<1>10. WorldInv'
  BY <1>8, <1>9, PlanStays DEF WorldInv, present
<1>. QED
  BY <1>1, <1>5, <1>7, <1>8, <1>10 DEF WorldChanges, present

fresh(exact, by) == [id |-> born + 1, print |-> 0, exact |-> exact, by |-> by]

\* The changes there are: a resource is deleted, modified, or created over nothing
\* or in the place of what was there.
LEMMA Deletes ==
    ASSUME NetworkAssumption, NetworkTypeOK, WorldInv, NEW r \in Resources, present(r),
           world' = put(r, Gone), born' = born, intent' = intent
    PROVE  /\ WorldChanges /\ WorldInv' /\ world'[r] = Gone
           /\ \A q \in Resources \ {r} : steady(q) \/ (r = "router" /\ q = "nat" /\ world'[q] = Gone)
<1>1. Gone \in Things
  BY DEF Gone, Things
<1>2. /\ world' \in [Resources -> Things] /\ world'[r] = Gone
      /\ \A q \in Resources \ {r} : world'[q] = leaves(r, Gone, q)
  BY <1>1, PutForms
<1>3. r = "nat" => present("router")
  BY DEF WorldInv
<1>. QED
  BY <1>1, <1>2, <1>3, Changes

LEMMA Modifies ==
    ASSUME NetworkAssumption, NetworkTypeOK, WorldInv, NEW r \in Resources, present(r),
           world' = put(r, [world[r] EXCEPT !.exact = ~@, !.print = @ + 1]), born' = born,
           intent' = intent
    PROVE  /\ WorldChanges /\ WorldInv' /\ world'[r] # Gone /\ world'[r].by = world[r].by
           /\ \A q \in Resources \ {r} : steady(q)
<1>. DEFINE thing == [world[r] EXCEPT !.exact = ~@, !.print = @ + 1]
<1>1. world[r] \in Things /\ world[r].id # 0
  BY DEF NetworkTypeOK, WorldInv
<1>2. /\ thing \in Things /\ thing.id = world[r].id /\ thing.by = world[r].by
      /\ thing.print = world[r].print + 1 /\ thing.print >= world[r].print
  <2>. DEFINE exact == ~world[r].exact
  <2>1. exact \in BOOLEAN
    OBVIOUS
  <2>2. thing = [world[r] EXCEPT !.exact = exact, !.print = world[r].print + 1]
    BY Zenon
  <2>. HIDE DEF thing, exact
  <2>3. ASSUME NEW was \in Things, NEW print \in Nat
        PROVE  LET new == [was EXCEPT !.exact = exact, !.print = print]
               IN  new \in Things /\ new.id = was.id /\ new.by = was.by /\ new.print = print
    BY <2>1 DEF Things
  <2>4. world[r].print \in Nat
    BY <1>1 DEF Things
  <2>5. world[r].print + 1 \in Nat /\ world[r].print + 1 >= world[r].print
    BY <2>4
  <2>6. /\ thing \in Things /\ thing.id = world[r].id /\ thing.by = world[r].by
        /\ thing.print = world[r].print + 1
    BY <1>1, <2>2, <2>3, <2>5, Zenon
  <2>. QED
    BY <2>5, <2>6
<1>3. thing # Gone
  BY <1>1, <1>2 DEF Gone
<1>. HIDE DEF thing
<1>4. /\ world' \in [Resources -> Things] /\ world'[r] = thing
      /\ \A q \in Resources \ {r} : world'[q] = leaves(r, thing, q)
  BY <1>2, PutForms DEF thing
<1>5. r = "nat" => present("router")
  BY DEF WorldInv
<1>6. /\ WorldChanges /\ WorldInv'
      /\ \A q \in Resources \ {r} : steady(q) \/ (r = "router" /\ q = "nat" /\ world'[q] = Gone)
  BY <1>2, <1>4, <1>5, Changes
<1>7. ASSUME r = "router", "nat" \in Resources
      PROVE  steady("nat")
  BY <1>3, <1>4, <1>7 DEF leaves, steady
<1>. QED
  BY <1>2, <1>3, <1>4, <1>6, <1>7

LEMMA Creates ==
    ASSUME NetworkAssumption, NetworkTypeOK, WorldInv, NEW r \in Resources,
           r = "nat" => present("router"), NEW exact \in BOOLEAN, NEW by \in Nat,
           \/ world' = put(r, fresh(exact, by)) \/ world' = [put(r, Gone) EXCEPT ![r] = fresh(exact, by)],
           born' = born + 1, intent' = intent
    PROVE  /\ WorldChanges /\ WorldInv' /\ world'[r] = fresh(exact, by) /\ world'[r] # Gone
           /\ \A q \in Resources \ {r} : steady(q) \/ (r = "router" /\ q = "nat" /\ world'[q] = Gone)
<1>1. born \in Nat /\ Gone \in Things
  BY DEF NetworkTypeOK, Gone, Things
<1>2. /\ fresh(exact, by) \in Things /\ fresh(exact, by).id = born + 1
  BY <1>1 DEF fresh, Things
<1>3. fresh(exact, by) # Gone
  BY <1>1, <1>2 DEF Gone
<1>. HIDE DEF fresh
<1>4. /\ world' \in [Resources -> Things] /\ world'[r] = fresh(exact, by)
      /\ \/ \A q \in Resources \ {r} : world'[q] = leaves(r, fresh(exact, by), q)
         \/ \A q \in Resources \ {r} : world'[q] = leaves(r, Gone, q)
  <2>1. CASE world' = put(r, fresh(exact, by))
    BY <1>2, <2>1, PutForms
  <2>2. CASE world' = [put(r, Gone) EXCEPT ![r] = fresh(exact, by)]
    <3>1. /\ put(r, Gone) \in [Resources -> Things]
          /\ \A q \in Resources \ {r} : put(r, Gone)[q] = leaves(r, Gone, q)
      BY <1>1, PutForms
    <3>. QED
      BY <1>2, <2>2, <3>1
  <2>. QED
    BY <2>1, <2>2
<1>. QED
  BY <1>2, <1>3, <1>4, <1>1, Changes

----------------------------------------------------------------------------
(* How a network call goes on and ends *)

LEMMA CallState ==
    ASSUME NetworkAssumption, NetworkInv, call # NoCall
    PROVE  /\ goodCall(call) /\ shape(call) /\ call \in Calls /\ last = NoResult
           /\ resource = target(call) /\ resource \in Resources /\ position(call) \in call.todo
           /\ resource \in left(call)
<1>1. goodCall(call) /\ shape(call) /\ call \in Calls /\ last = NoResult /\ intent \in Intents
  BY DEF NetworkInv, goodCall, shape, NetworkTypeOK
<1>2. call.todo \subseteq DOMAIN plan /\ call.todo # {}
  BY <1>1 DEF shape, Calls
<1>3. resource = target(call)
  BY DEF resource, target
<1>. QED
  BY <1>1, <1>2, <1>3, PositionIsLeft DEF left, target

LEMMA NoCallIsACall ==
    ASSUME NetworkTypeOK
    PROVE  NoCall \in Calls
  BY DEF NoCall, NoIncarnation, Calls, Modes, Points, Incarnations

\* Nothing was given out with this incarnation.
LEMMA NothingTraced ==
    ASSUME NetworkTypeOK, WorldInv, NEW r \in Resources, NEW operation,
           "router" \in Resources <=> "nat" \in Resources
    PROVE  traced(r, NoIncarnation, operation) /\ NoIncarnation \in Incarnations
<1>1. NoIncarnation = <<0, 0>> /\ born \in Nat
  BY DEF NoIncarnation, NetworkTypeOK
<1>2. present(r) => incarnation(r) # <<0, 0>>
  BY DEF incarnation, WorldInv
<1>3. r = "nat" => world["router"].print \in Nat
  BY DEF NetworkTypeOK, Things
<1>. QED
  BY <1>1, <1>2, <1>3 DEF traced, Incarnations

LEMMA Finishes ==
    ASSUME NetworkAssumption, NetworkInv, UNCHANGED operatorVars,
           world' \in [Resources -> Things], born' \in Nat, WorldInv',
           NEW c \in Calls, NEW ok \in BOOLEAN, NEW mutation \in Mutations,
           Finish(c, ok, mutation),
           \A rec \in records \cup c.created : traced(rec.resource, rec.incarnation, rec.op)',
           mutation = "not-occurred" /\ c.effect => c.created # {} \/ c.mutated,
           ok => \A r \in scope(c) : settled(c.mode, r)'
    PROVE  NetworkInv'
<1>1. /\ last' = [mode |-> c.mode, ok |-> ok, mutation |-> escalated(c, mutation),
                  effect |-> c.effect, targets |-> {rec.resource : rec \in c.chosen}]
      /\ records' = records \cup c.created /\ call' = NoCall
  BY DEF Finish
<1>2. intent' = intent /\ UNCHANGED <<now, op, attempt>>
  BY DEF operatorVars
<1>3. /\ plan' = plan /\ Resources' = Resources /\ CreationRecords' = CreationRecords
      /\ Calls' = Calls /\ Results' = Results
  BY <1>2, PlanStays
<1>4. escalated(c, mutation) \in Mutations
  BY DEF escalated, Mutations
<1>5. {rec.resource : rec \in c.chosen} \subseteq Resources /\ c.created \subseteq CreationRecords
  BY DEF Calls, CreationRecords
<1>6. last' \in Results
  BY <1>1, <1>4, <1>5 DEF Results, Calls
<1>7. NetworkTypeOK'
  BY <1>1, <1>2, <1>3, <1>5, <1>6, NoCallIsACall DEF NetworkInv, NetworkTypeOK
<1>8. tracedAll(records)'
  BY <1>1 DEF tracedAll
<1>9. ReportsAreHonest'
  <2>1. escalated(c, mutation) = "not-occurred" => ~c.effect
    BY DEF escalated
  <2>. QED
    BY <1>1, <2>1 DEF ReportsAreHonest
<1>10. OutcomesHold'
  BY <1>1, <1>3 DEF OutcomesHold, settled, scope
<1>. QED
  BY <1>1, <1>7, <1>8, <1>9, <1>10 DEF NetworkInv, NoCall

\* While the provider's state rests, what was traced stays so.
LEMMA AtRest ==
    ASSUME NetworkAssumption, NetworkInv, UNCHANGED <<operatorVars, providerVars>>
    PROVE  /\ plan' = plan /\ Resources' = Resources /\ CreationRecords' = CreationRecords
           /\ Calls' = Calls /\ Results' = Results /\ WorldInv'
           /\ world' \in [Resources -> Things] /\ born' \in Nat
           /\ \A recs : tracedAll(recs)' <=> tracedAll(recs)
           /\ \A r : own(r)' <=> own(r)
           /\ tracedAll(records) /\ ("router" \in Resources <=> "nat" \in Resources)
<1>1. UNCHANGED <<world, born, intent, op, swapped>>
  BY DEF operatorVars, providerVars
<1>2. \A r, inc, operation : traced(r, inc, operation)' <=> traced(r, inc, operation)
  BY <1>1 DEF traced, present, incarnation
<1>3. world \in [Resources -> Things] /\ born \in Nat /\ intent \in Intents
  BY DEF NetworkInv, NetworkTypeOK
<1>4. WorldInv' <=> WorldInv
  BY <1>1, PlanStays DEF WorldInv, present
<1>. QED
  BY <1>1, <1>2, <1>3, <1>4, PlanStays, PlanFacts DEF NetworkInv, tracedAll, own, present

LEMMA GoesOn ==
    ASSUME NetworkAssumption, NetworkInv, call # NoCall, UNCHANGED <<operatorVars, providerVars>>,
           NEW c, Goto(c), shape(c), tracedAll(c.created), ownCreation(c),
           ownDeletion(c)', passed(c)', rangesClear(c)'
    PROVE  NetworkInv'
<1>1. call' = c /\ UNCHANGED <<records, last>>
  BY DEF Goto
<1>2. UNCHANGED <<now, op, attempt, intent, swapped, world, born>>
  BY DEF operatorVars, providerVars
<1>3. /\ plan' = plan /\ Resources' = Resources /\ CreationRecords' = CreationRecords
      /\ Calls' = Calls /\ Results' = Results /\ WorldInv'
      /\ \A recs : tracedAll(recs)' <=> tracedAll(recs)
      /\ \A r : own(r)' <=> own(r)
  BY AtRest
<1>4. last = NoResult
  BY CallState
<1>5. c \in Calls
  BY DEF shape
<1>6. NetworkTypeOK'
  BY <1>1, <1>2, <1>3, <1>5 DEF NetworkInv, NetworkTypeOK
<1>7. shape(c)'
  BY <1>1, <1>2, <1>3 DEF shape, target, position
<1>8. ownCreation(c)'
  BY <1>2, <1>3 DEF ownCreation, target, position, traced, present, incarnation
<1>9. goodCall(c)'
  BY <1>3, <1>7, <1>8 DEF goodCall
<1>10. ReportsAreHonest' /\ OutcomesHold'
  BY <1>1, <1>4 DEF ReportsAreHonest, OutcomesHold, NoResult
<1>. QED
  BY <1>1, <1>3, <1>4, <1>6, <1>9, <1>10 DEF NetworkInv

\* The resource of the moment is settled: the next one, or the call is over.
LEMMA Advances ==
    ASSUME NetworkAssumption, NetworkInv, call # NoCall, UNCHANGED <<operatorVars, providerVars>>,
           NEW c \in Calls, Advance(c),
           c.mode = call.mode, c.todo = call.todo, c.chosen = call.chosen,
           tracedAll(c.created), c.effect => c.created # {} \/ c.mutated,
           \A r \in (scope(c) \ left(c)) \cup {target(c)} : settled(c.mode, r)'
    PROVE  NetworkInv'
<1>1. shape(call) /\ target(call) \in Resources /\ position(call) \in call.todo
  BY CallState
<1>2. position(c) = position(call) /\ target(c) = target(call)
  BY DEF position, target
<1>4. CASE c.todo = {position(c)}
  <2>1. Finish(c, TRUE, "not-occurred")
    BY <1>4 DEF Advance
  <2>2. left(c) \subseteq {target(c)}
    BY <1>4 DEF left, target
  <2>3. \A r \in scope(c) : settled(c.mode, r)'
    BY <2>2
  <2>4. \A recs : tracedAll(recs)' <=> tracedAll(recs)
    BY AtRest
  <2>5. tracedAll(records)
    BY DEF NetworkInv
  <2>. QED
    BY <1>1, <2>1, <2>3, <2>4, <2>5, AtRest, Finishes DEF Mutations, tracedAll
<1>5. CASE c.todo # {position(c)}
  <2>. DEFINE next == [c EXCEPT !.todo = @ \ {position(c)}, !.pc = "observe",
                                !.stage = "before", !.sawNAT = FALSE]
  <2>1. Goto(next)
    BY <1>5 DEF Advance
  <2>2. /\ next \in Calls /\ next.mode = c.mode /\ next.pc = "observe" /\ next.stage = "before"
        /\ next.todo = c.todo \ {position(c)} /\ next.chosen = c.chosen
        /\ next.created = c.created /\ next.effect = c.effect /\ next.mutated = c.mutated
    BY DEF Calls, Points
  <2>. HIDE DEF next
  <2>3. next.todo # {}
    BY <1>1, <1>2, <1>5, <2>2
  <2>4. shape(next)
    BY <1>1, <2>2, <2>3 DEF shape
  <2>5. scope(next) = scope(c) /\ left(c) \subseteq left(next) \cup {target(c)}
    BY <2>2 DEF scope, left, target
  <2>6. \A r \in scope(next) \ left(next) : settled(next.mode, r)'
    BY <2>2, <2>5
  <2>7. scope(next)' = scope(next) /\ left(next)' = left(next)
    BY AtRest DEF scope, left
  <2>8. passed(next)'
    BY <2>2, <2>6, <2>7 DEF passed
  <2>9. ownCreation(next) /\ ownDeletion(next)' /\ rangesClear(next)'
    BY <2>2 DEF ownCreation, ownDeletion, rangesClear
  <2>. QED
    BY <2>1, <2>2, <2>4, <2>8, <2>9, GoesOn
<1>. QED
  BY <1>4, <1>5

LEMMA Recorded ==
    ASSUME NetworkAssumption, NetworkInv, call # NoCall, NEW inc \in Incarnations,
           traced(resource, inc, op)
    PROVE  /\ creationRecord(inc) \in CreationRecords
           /\ tracedAll(call.created \cup {creationRecord(inc)})
<1>1. goodCall(call) /\ resource \in Resources
  BY CallState
<1>2. /\ creationRecord(inc) \in CreationRecords /\ creationRecord(inc).resource = resource
      /\ creationRecord(inc).incarnation = inc /\ creationRecord(inc).op = op
  BY <1>1 DEF creationRecord, CreationRecords, NetworkInv, NetworkTypeOK
<1>. QED
  BY <1>1, <1>2 DEF goodCall, tracedAll

\* A look that failed ends the call.
LEMMA FailedLook ==
    ASSUME NetworkAssumption, NetworkInv, call # NoCall, UNCHANGED <<operatorVars, providerVars>>,
           NEW inc \in Incarnations, ObserveFailed(inc),
           call.mode = "apply" /\ call.stage = "after" => traced(resource, inc, op)
    PROVE  NetworkInv'
<1>1. goodCall(call) /\ shape(call) /\ call \in Calls
  BY CallState
<1>2. /\ world' \in [Resources -> Things] /\ born' \in Nat /\ WorldInv' /\ tracedAll(records)
      /\ \A recs : tracedAll(recs)' <=> tracedAll(recs)
  BY AtRest
<1>3. ASSUME NEW c \in Calls, NEW mutation \in Mutations, Finish(c, FALSE, mutation),
             tracedAll(c.created),
             mutation = "not-occurred" /\ c.effect => c.created # {} \/ c.mutated
      PROVE  NetworkInv'
  <2>1. \A rec \in records \cup c.created : traced(rec.resource, rec.incarnation, rec.op)'
    BY <1>2, <1>3 DEF tracedAll
  <2>. QED
    BY <1>2, <1>3, <2>1, Finishes
<1>4. CASE call.stage = "before"
  <2>1. Finish(call, FALSE, "not-occurred")
    BY <1>4 DEF ObserveFailed
  <2>. QED
    BY <1>1, <1>3, <1>4, <2>1 DEF shape, goodCall, Mutations
<1>5. CASE call.stage # "before" /\ call.mode = "apply"
  <2>. DEFINE c == [call EXCEPT !.created = @ \cup {creationRecord(inc)}]
  <2>1. Finish(c, FALSE, "occurred")
    BY <1>5 DEF ObserveFailed
  <2>2. call.stage = "after"
    BY <1>1, <1>5 DEF Calls
  <2>3. creationRecord(inc) \in CreationRecords /\ tracedAll(call.created \cup {creationRecord(inc)})
    BY <1>5, <2>2, Recorded
  <2>4. c \in Calls /\ c.created = call.created \cup {creationRecord(inc)}
    BY <1>1, <2>3 DEF Calls
  <2>. QED
    BY <1>3, <2>1, <2>3, <2>4 DEF Mutations
<1>6. CASE call.stage # "before" /\ call.mode # "apply"
  <2>1. Finish(call, FALSE, "occurred")
    BY <1>6 DEF ObserveFailed
  <2>. QED
    BY <1>1, <1>3, <2>1 DEF goodCall, Mutations
<1>. QED
  BY <1>4, <1>5, <1>6

\* What a call has gone through stays settled while it looks at the next resource.
LEMMA PassedStays ==
    ASSUME NetworkAssumption, NetworkInv, call # NoCall, UNCHANGED <<operatorVars, providerVars>>,
           moved \ {resource} \subseteq moved'
    PROVE  /\ \A r \in scope(call) \ left(call) : settled(call.mode, r) /\ r # resource
           /\ \A mode, r : settled(mode, r) /\ r # resource => settled(mode, r)'
<1>1. UNCHANGED world
  BY DEF providerVars
<1>2. \A mode, r : settled(mode, r) /\ r # resource => settled(mode, r)'
  BY <1>1 DEF settled, present
<1>. QED
  BY <1>2, CallState DEF goodCall, passed

\* The same call at another point.
LEMMA Turns ==
    ASSUME NetworkAssumption, NetworkInv, call # NoCall, UNCHANGED <<operatorVars, providerVars>>,
           moved \ {resource} \subseteq moved',
           NEW c, Goto(c), shape(c), c.mode = call.mode, c.todo = call.todo,
           c.chosen = call.chosen, c.created = call.created, ownCreation(c), ownDeletion(c)',
           rangesClear(c)',
           c.pc \in {"owner", "status"} /\ c.mode # "compensate" =>
               \A r \in {resource} : settled(c.mode, r)'
    PROVE  NetworkInv'
<1>1. target(c) = resource /\ scope(c) = scope(call) /\ left(c) = left(call)
  BY CallState DEF target, position, scope, left
<1>2. \A r \in scope(c) \ left(c) : settled(c.mode, r)'
  BY <1>1, PassedStays
<1>3. target(c)' = target(c) /\ scope(c)' = scope(c) /\ left(c)' = left(c)
  BY AtRest DEF target, position, scope, left
<1>4. c.pc \in {"owner", "status"} /\ c.mode # "compensate" => settled(c.mode, target(c))'
  BY <1>1, <1>3 DEF settled, present
<1>5. passed(c)'
  BY <1>2, <1>3, <1>4 DEF passed
<1>6. tracedAll(c.created)
  BY CallState DEF goodCall
<1>. QED
  BY <1>5, <1>6, GoesOn

LEMMA SeenAbsent ==
    ASSUME NetworkAssumption, NetworkInv, call # NoCall, UNCHANGED <<operatorVars, providerVars>>,
           call.pc = "observe", moved' = moved \ {resource}, ~present(resource), ObservedAbsent
    PROVE  NetworkInv'
<1>1. goodCall(call) /\ shape(call) /\ call \in Calls /\ resource = target(call)
  BY CallState
<1>2. CASE call.mode = "compensate"
  <2>4. PICK c \in Calls : /\ Advance(c)
                           /\ c.mode = call.mode /\ c.todo = call.todo /\ c.chosen = call.chosen
                           /\ c.created = call.created
                           /\ c.effect => c.created # {} \/ c.mutated
    <3>. DEFINE mutated == call.mutated \/ call.stage = "after"
                c == [call EXCEPT !.mutated = mutated]
    <3>1. Advance(c)
      BY <1>2 DEF ObservedAbsent
    <3>2. mutated \in BOOLEAN
      OBVIOUS
    <3>3. call.effect => call.created # {} \/ mutated
      BY <1>1 DEF shape
    <3>. HIDE DEF mutated
    <3>4. /\ c \in Calls /\ c.mode = call.mode /\ c.todo = call.todo /\ c.chosen = call.chosen
          /\ c.created = call.created /\ (c.effect => c.created # {} \/ c.mutated)
      BY <1>1, <3>2, <3>3 DEF Calls
    <3>. QED
      BY <3>1, <3>4
  <2>5. scope(c) = scope(call) /\ left(c) = left(call) /\ target(c) = resource
    BY <1>1, <2>4 DEF scope, left, target, position
  <2>6. \A r \in {resource} : settled(c.mode, r)'
    BY <1>2, <2>4 DEF settled, present, providerVars
  <2>7. \A r \in (scope(c) \ left(c)) \cup {target(c)} : settled(c.mode, r)'
    BY <2>4, <2>5, <2>6, PassedStays
  <2>. QED
    BY <1>1, <2>4, <2>7, Advances DEF goodCall
<1>3. CASE ObserveFailed(NoIncarnation)
  BY <1>3, CallState, AtRest, NothingTraced, FailedLook DEF NetworkInv
<1>4. CASE /\ call.mode = "apply" /\ call.stage = "before"
           /\ Goto([call EXCEPT !.pc = IF resource = "subnet" THEN "ranges" ELSE "create"])
  <2>1. PICK c \in Calls :
            /\ Goto(c) /\ c.pc = IF resource = "subnet" THEN "ranges" ELSE "create"
            /\ c.mode = "apply" /\ c.stage = "before" /\ c.todo = call.todo
            /\ c.chosen = call.chosen /\ c.created = call.created /\ c.effect = call.effect
            /\ c.mutated = call.mutated
    BY <1>1, <1>4 DEF Calls, Points
  <2>3. target(c) = resource /\ target(c)' = target(c)
    BY <1>1, <1>4, <2>1, AtRest DEF target, position
  <2>4. shape(c)
    BY <1>1, <1>4, <2>1 DEF shape
  <2>5. ownCreation(c) /\ ownDeletion(c)' /\ rangesClear(c)'
    BY <2>1, <2>3 DEF ownCreation, ownDeletion, rangesClear
  <2>. QED
    BY <1>4, <2>1, <2>4, <2>5, Turns
<1>. QED
  BY <1>2, <1>3, <1>4 DEF ObservedAbsent

\* The resource whose incarnation was recorded is this operation's.
LEMMA RecordedIsOwn ==
    ASSUME NetworkAssumption, NetworkInv, call # NoCall, call.mode = "compensate",
           sameIncarnation(incarnation(resource))
    PROVE  own(resource)
<1>1. shape(call) /\ position(call) \in call.todo /\ resource = plan[position(call)]
  BY CallState DEF target
<1>2. \E rec \in call.chosen : rec.resource = resource
  BY <1>1 DEF shape
<1>3. recorded \in call.chosen /\ recorded.resource = resource
  BY <1>2 DEF recorded
<1>4. recorded \in records /\ recorded.op = op
  BY <1>1, <1>3 DEF shape
<1>5. traced(resource, recorded.incarnation, op)
  BY <1>3, <1>4 DEF NetworkInv, tracedAll
<1>. QED
  BY <1>5 DEF traced, sameIncarnation, own

LEMMA SeenPresent ==
    ASSUME NetworkAssumption, NetworkInv, call # NoCall, UNCHANGED <<operatorVars, providerVars>>,
           call.pc \in {"observe", "owner", "status"}, moved \ {resource} \subseteq moved',
           NEW inc \in Incarnations, ObservedPresent(inc),
           call.mode = "apply" /\ call.stage = "after" => traced(resource, inc, op),
           call.mode = "compensate" => inc = incarnation(resource),
           call.mode # "compensate" => \A r \in {resource} : settled("apply", r)'
    PROVE  NetworkInv'
<1>1. goodCall(call) /\ shape(call) /\ call \in Calls /\ resource = target(call)
  BY CallState
<1>2. CASE call.mode # "compensate"
  <2>1. PICK c \in Calls : /\ Advance(c)
                           /\ c.mode = call.mode /\ c.todo = call.todo /\ c.chosen = call.chosen
                           /\ tracedAll(c.created) /\ (c.effect => c.created # {} \/ c.mutated)
    <3>1. CASE call.mode = "apply" /\ newlyCreated(call)
      <4>. DEFINE c == [call EXCEPT !.created = @ \cup {creationRecord(inc)}]
      <4>1. Advance(c)
        BY <1>2, <3>1 DEF ObservedPresent
      <4>2. /\ creationRecord(inc) \in CreationRecords
            /\ tracedAll(call.created \cup {creationRecord(inc)})
        BY <3>1, Recorded DEF newlyCreated
      <4>3. /\ c \in Calls /\ c.mode = call.mode /\ c.todo = call.todo /\ c.chosen = call.chosen
            /\ c.created = call.created \cup {creationRecord(inc)}
        BY <1>1, <4>2 DEF Calls
      <4>. QED
        BY <4>1, <4>2, <4>3
    <3>2. CASE ~(call.mode = "apply" /\ newlyCreated(call))
      <4>1. Advance(call)
        BY <1>2, <3>2 DEF ObservedPresent
      <4>2. call.stage # "after"
        BY <1>1, <1>2, <3>2 DEF newlyCreated, shape, Calls, Modes
      <4>. QED
        BY <1>1, <4>1, <4>2 DEF goodCall, shape
    <3>. QED
      BY <3>1, <3>2
  <2>2. scope(c) = scope(call) /\ left(c) = left(call) /\ target(c) = resource
    BY <1>1, <2>1 DEF scope, left, target, position
  <2>3. \A r \in {resource} : settled(c.mode, r)'
    BY <1>2, <2>1 DEF settled
  <2>4. \A r \in (scope(c) \ left(c)) \cup {target(c)} : settled(c.mode, r)'
    BY <2>1, <2>2, <2>3, PassedStays
  <2>. QED
    BY <2>1, <2>4, Advances
<1>3. CASE call.mode = "compensate" /\ (call.stage = "after" \/ ~sameIncarnation(inc))
  <2>1. ObserveFailed(inc)
    BY <1>3 DEF ObservedPresent
  <2>. QED
    BY <1>3, <2>1, FailedLook
<1>4. CASE call.mode = "compensate" /\ call.stage # "after" /\ sameIncarnation(inc)
  <2>2. PICK c \in Calls :
            /\ Goto(c) /\ c.pc = IF resource = "router" THEN "nats" ELSE "delete"
            /\ c.mode = "compensate" /\ c.stage # "after" /\ c.todo = call.todo
            /\ c.chosen = call.chosen /\ c.created = call.created /\ c.effect = call.effect
            /\ c.mutated = call.mutated
    BY <1>1, <1>4 DEF ObservedPresent, Calls, Points
  <2>3. target(c) = resource /\ target(c)' = target(c)
    BY <1>1, <1>4, <2>2, AtRest DEF target, position
  <2>4. shape(c)
    BY <1>1, <1>4, <2>2, <2>3 DEF shape
  <2>5. own(resource)
    BY <1>4, RecordedIsOwn
  <2>6. \A r : own(r)' <=> own(r)
    BY AtRest
  <2>7. own(target(c))'
    <3>1. \A r \in {resource} : own(r)'
      BY <2>5, <2>6
    <3>. QED
      BY <2>3, <3>1 DEF own, present
  <2>8. ownCreation(c) /\ ownDeletion(c)' /\ rangesClear(c)'
    BY <2>2, <2>3, <2>7 DEF ownCreation, ownDeletion, rangesClear
  <2>. QED
    BY <1>4, <2>2, <2>4, <2>8, Turns
<1>. QED
  BY <1>2, <1>3, <1>4

----------------------------------------------------------------------------
(* The reads of a network call *)

LEMMA OnCall ==
    ASSUME NetworkInv, call.pc # "idle"
    PROVE  call # NoCall
  BY DEF NoCall

\* A call that gives up before it sent a command.
LEMMA GivesUp ==
    ASSUME NetworkAssumption, NetworkInv, call # NoCall, UNCHANGED <<operatorVars, providerVars>>,
           call.stage = "before", Finish(call, FALSE, "not-occurred")
    PROVE  NetworkInv'
<1>1. goodCall(call) /\ shape(call) /\ call \in Calls
  BY CallState
<1>2. PICK c \in Calls : /\ Finish(c, FALSE, "not-occurred") /\ tracedAll(c.created)
                         /\ c.effect => c.created # {} \/ c.mutated
  BY <1>1 DEF goodCall, shape
<1>3. \A rec \in records \cup c.created : traced(rec.resource, rec.incarnation, rec.op)'
  BY <1>2, AtRest DEF tracedAll
<1>. QED
  BY <1>2, <1>3, AtRest, Finishes DEF Mutations

LEMMA IncarnationIsTyped ==
    ASSUME NetworkAssumption, NetworkInv, NEW r \in Resources
    PROVE  incarnation(r) \in Incarnations
<1>1. world \in [Resources -> Things] /\ ("router" \in Resources <=> "nat" \in Resources)
  BY PlanFacts DEF NetworkInv, NetworkTypeOK
<1>. QED
  BY <1>1 DEF incarnation, Incarnations, Things

\* What is there now is traced to the operation that owns it.
LEMMA PresentIsTraced ==
    ASSUME NetworkAssumption, NetworkInv, NEW r \in Resources, present(r), own(r)
    PROVE  traced(r, incarnation(r), op)
<1>1. /\ world \in [Resources -> Things] /\ ("router" \in Resources <=> "nat" \in Resources)
      /\ WorldInv
  BY PlanFacts DEF NetworkInv, NetworkTypeOK
<1>2. CASE r = "nat"
  <2>1. /\ incarnation(r) = <<world["router"].id, world["router"].print>>
        /\ world["router"] \in Things /\ world["router"].id <= born /\ world["router"].id # 0
    BY <1>1, <1>2 DEF incarnation, WorldInv
  <2>. QED
    BY <1>2, <2>1 DEF traced, own, Things
<1>3. CASE r # "nat"
  <2>1. /\ incarnation(r) = <<world[r].id, 0>> /\ world[r].id <= born
    BY <1>1, <1>3 DEF incarnation, WorldInv
  <2>. QED
    BY <1>3, <2>1 DEF traced, own
<1>. QED
  BY <1>2, <1>3

\* So is the NAT, once its router shows the incarnation it would have.
LEMMA OwnerIsTraced ==
    ASSUME NetworkAssumption, NetworkInv, "nat" \in Resources, present("router"), own("nat")
    PROVE  traced("nat", incarnation("nat"), op)
<1>1. /\ world \in [Resources -> Things] /\ "router" \in Resources /\ WorldInv
  BY PlanFacts DEF NetworkInv, NetworkTypeOK
<1>2. /\ incarnation("nat") = <<world["router"].id, world["router"].print>>
      /\ world["router"] \in Things /\ world["router"].id <= born /\ world["router"].id # 0
  BY <1>1 DEF incarnation, WorldInv
<1>. QED
  BY <1>2 DEF traced, own, Things

LEMMA ReadFailsKeeps ==
    ASSUME NetworkAssumption, NetworkInv, ReadFails
    PROVE  NetworkInv'
<1>1. /\ call.pc \in {"observe", "owner", "status", "ranges", "nats", "again"} /\ call # NoCall
      /\ UNCHANGED <<operatorVars, providerVars>>
  BY OnCall DEF ReadFails, reading
<1>2. goodCall(call) /\ shape(call) /\ resource = target(call) /\ call \in Calls
  BY <1>1, CallState
<1>3. CASE call.pc = "status"
  <2>1. ObserveFailed(call.inc) /\ call.inc \in Incarnations /\ resource = "nat"
    BY <1>2, <1>3 DEF ReadFails, Calls, shape
  <2>2. call.mode = "apply" /\ call.stage = "after" => traced(resource, call.inc, op)
    BY <1>2, <1>3, <2>1 DEF goodCall, ownCreation
  <2>3. PICK inc \in Incarnations : /\ ObserveFailed(inc)
                                    /\ call.mode = "apply" /\ call.stage = "after" =>
                                           traced(resource, inc, op)
    BY <2>1, <2>2
  <2>. QED
    BY <1>1, <2>3, FailedLook
<1>4. CASE call.pc # "status"
  <2>1. ObserveFailed(NoIncarnation)
    BY <1>4 DEF ReadFails
  <2>. QED
    BY <1>1, <2>1, CallState, AtRest, NothingTraced, FailedLook DEF NetworkInv
<1>. QED
  BY <1>3, <1>4

LEMMA ObserveKeeps ==
    ASSUME NetworkAssumption, NetworkInv, Observe
    PROVE  NetworkInv'
<1>1. /\ call.pc = "observe" /\ call # NoCall /\ moved' = moved \ {resource}
      /\ UNCHANGED <<operatorVars, providerVars>>
  BY OnCall DEF Observe
<1>2. goodCall(call) /\ shape(call) /\ resource = target(call) /\ call \in Calls
      /\ resource \in Resources
  BY <1>1, CallState
<1>3. CASE ~present(resource) /\ ObservedAbsent
  BY <1>1, <1>3, SeenAbsent
<1>4. CASE ObserveFailed(NoIncarnation)
  BY <1>1, <1>4, CallState, AtRest, NothingTraced, FailedLook DEF NetworkInv
<1>5. ASSUME present(resource), exactState(resource)
      PROVE  \A r \in {resource} : settled("apply", r)'
  BY <1>1, <1>5 DEF settled, present, exactState, providerVars
<1>6. CASE present(resource) /\ exactState(resource) /\ resource = "nat"
  <2>1. PICK c \in Calls :
            /\ Goto(c) /\ c.pc = "owner" /\ c.mode = call.mode /\ c.stage = call.stage
            /\ c.todo = call.todo /\ c.chosen = call.chosen /\ c.created = call.created
            /\ c.effect = call.effect /\ c.mutated = call.mutated
    BY <1>2, <1>6 DEF Observe, Calls, Points
  <2>2. target(c) = resource
    BY <1>2, <2>1 DEF target, position
  <2>3. shape(c)
    BY <1>1, <1>2, <1>6, <2>1, <2>2 DEF shape
  <2>4. ownCreation(c) /\ ownDeletion(c)' /\ rangesClear(c)'
    BY <1>2, <2>1, <2>2 DEF goodCall, ownCreation, ownDeletion, rangesClear
  <2>5. c.mode # "compensate" => \A r \in {resource} : settled(c.mode, r)'
    BY <1>5, <1>6 DEF settled
  <2>. QED
    BY <1>1, <2>1, <2>3, <2>4, <2>5, Turns
<1>7. CASE present(resource) /\ exactState(resource) /\ resource # "nat"
  <2>1. ObservedPresent(incarnation(resource))
    BY <1>7 DEF Observe
  <2>2. call.mode = "apply" /\ call.stage = "after" => own(resource)
    BY <1>2 DEF goodCall, ownCreation
  <2>3. PICK inc \in Incarnations :
            /\ ObservedPresent(inc) /\ inc = incarnation(resource)
            /\ call.mode = "apply" /\ call.stage = "after" => traced(resource, inc, op)
    BY <1>2, <1>7, <2>1, <2>2, IncarnationIsTyped, PresentIsTraced
  <2>. QED
    BY <1>1, <1>5, <1>7, <2>3, SeenPresent
<1>. QED
  BY <1>3, <1>4, <1>6, <1>7 DEF Observe

LEMMA ObserveOwnerKeeps ==
    ASSUME NetworkAssumption, NetworkInv, ObserveOwner
    PROVE  NetworkInv'
<1>1. /\ call.pc = "owner" /\ call # NoCall /\ UNCHANGED <<operatorVars, providerVars>>
      /\ moved' = IF call.mode = "compensate" THEN moved \ {"nat"} ELSE moved
      /\ present("router")
  BY OnCall DEF ObserveOwner
<1>2. goodCall(call) /\ shape(call) /\ resource = target(call) /\ call \in Calls
      /\ resource = "nat" /\ "nat" \in Resources
  BY <1>1, CallState DEF shape
<1>3. moved \ {resource} \subseteq moved' /\ incarnation("nat") \in Incarnations
  BY <1>1, <1>2, IncarnationIsTyped
<1>4. CASE call.mode = "compensate"
  <2>1. PICK inc \in Incarnations : ObservedPresent(inc) /\ inc = incarnation(resource)
    BY <1>2, <1>3, <1>4 DEF ObserveOwner
  <2>. QED
    BY <1>1, <1>3, <1>4, <2>1, SeenPresent
<1>5. CASE call.mode # "compensate"
  <2>1. PICK c \in Calls :
            /\ Goto(c) /\ c.pc = "status" /\ c.inc = incarnation("nat") /\ c.mode = call.mode
            /\ c.stage = call.stage /\ c.todo = call.todo /\ c.chosen = call.chosen
            /\ c.created = call.created /\ c.effect = call.effect /\ c.mutated = call.mutated
    <3>1. PICK inc \in Incarnations : inc = incarnation("nat")
      BY <1>3
    <3>2. Goto([call EXCEPT !.pc = "status", !.inc = inc])
      BY <1>5, <3>1 DEF ObserveOwner
    <3>. DEFINE c == [call EXCEPT !.pc = "status", !.inc = inc]
    <3>3. /\ c \in Calls /\ c.pc = "status" /\ c.inc = inc /\ c.mode = call.mode
          /\ c.stage = call.stage /\ c.todo = call.todo /\ c.chosen = call.chosen
          /\ c.created = call.created /\ c.effect = call.effect /\ c.mutated = call.mutated
      BY <1>2 DEF Calls, Points
    <3>. HIDE DEF c
    <3>. QED
      BY <3>1, <3>2, <3>3 DEF c
  <2>2. target(c) = resource
    BY <1>2, <2>1 DEF target, position
  <2>3. shape(c)
    BY <1>1, <1>2, <1>5, <2>1, <2>2 DEF shape
  <2>4. call.mode = "apply" /\ call.stage = "after" =>
            own("nat") /\ traced("nat", incarnation("nat"), op)
    <3>1. own("nat") => traced("nat", incarnation("nat"), op)
      BY <1>1, <1>2, OwnerIsTraced
    <3>. QED
      BY <1>2, <3>1 DEF goodCall, ownCreation
  <2>5. ownCreation(c) /\ ownDeletion(c)' /\ rangesClear(c)'
    BY <1>2, <2>1, <2>2, <2>4 DEF ownCreation, ownDeletion, rangesClear
  <2>6. \A r \in {resource} : settled(call.mode, r)
    BY <1>1, <1>2, <1>5 DEF goodCall, passed
  <2>7. c.mode # "compensate" => \A r \in {resource} : settled(c.mode, r)'
    BY <1>1, <1>5, <2>1, <2>6 DEF settled, present, providerVars
  <2>. QED
    BY <1>1, <1>3, <2>1, <2>3, <2>5, <2>7, Turns
<1>. QED
  BY <1>4, <1>5

LEMMA ObserveStatusKeeps ==
    ASSUME NetworkAssumption, NetworkInv, ObserveStatus
    PROVE  NetworkInv'
<1>1. /\ call.pc = "status" /\ call # NoCall /\ UNCHANGED <<operatorVars, providerVars, moved>>
      /\ ObservedPresent(call.inc)
  BY OnCall DEF ObserveStatus
<1>2. goodCall(call) /\ shape(call) /\ resource = target(call) /\ call \in Calls
      /\ resource = "nat" /\ call.mode # "compensate"
  BY <1>1, CallState DEF shape
<1>3. PICK inc \in Incarnations :
          /\ ObservedPresent(inc)
          /\ call.mode = "apply" /\ call.stage = "after" => traced(resource, inc, op)
  BY <1>1, <1>2 DEF Calls, goodCall, ownCreation
<1>4. \A r \in {resource} : settled(call.mode, r)
  BY <1>1, <1>2 DEF goodCall, passed
<1>5. \A r \in {resource} : settled("apply", r)'
  BY <1>1, <1>2, <1>4 DEF settled, present, providerVars
<1>. QED
  BY <1>1, <1>2, <1>3, <1>5, SeenPresent


LEMMA RequireRangesKeeps ==
    ASSUME NetworkAssumption, NetworkInv, requireCurrentSubnetRanges
    PROVE  NetworkInv'
<1>1. /\ call.pc = "ranges" /\ call # NoCall /\ UNCHANGED <<operatorVars, providerVars>>
      /\ moved' = moved \ {"ranges"} /\ intent \in Intents
  BY OnCall DEF requireCurrentSubnetRanges, NetworkInv, NetworkTypeOK
<1>2. /\ goodCall(call) /\ shape(call) /\ resource = target(call) /\ call \in Calls
      /\ resource \in Resources /\ "ranges" \notin Resources
  BY <1>1, CallState, PlanFacts
<1>3. call.mode = "apply" /\ call.stage = "before"
  BY <1>1, <1>2 DEF shape, Calls
<1>4. CASE Finish(call, FALSE, "not-occurred")
  BY <1>1, <1>3, <1>4, GivesUp
<1>5. CASE /\ rangesUnchanged(allRanges, preflight.ranges)
           /\ ~rejectSubnetOverlap(preflight.ranges)
           /\ Goto([call EXCEPT !.pc = "create"])
  <2>1. PICK c \in Calls :
            /\ Goto(c) /\ c.pc = "create" /\ c.mode = "apply" /\ c.stage = "before"
            /\ c.todo = call.todo /\ c.chosen = call.chosen /\ c.created = call.created
            /\ c.effect = call.effect /\ c.mutated = call.mutated
    BY <1>2, <1>3, <1>5 DEF Calls, Points
  <2>2. shape(c)
    BY <1>2, <1>3, <2>1 DEF shape
  <2>3. "overlapping" \notin ranges /\ ranges' = ranges
    BY <1>1, <1>5 DEF rangesUnchanged, rejectSubnetOverlap, allRanges, operatorVars
  <2>4. ownCreation(c) /\ ownDeletion(c)' /\ rangesClear(c)'
    BY <2>1, <2>3 DEF ownCreation, ownDeletion, rangesClear
  <2>5. passed(c)'
    <3>1. scope(c) = Resources /\ left(c) = left(call) /\ scope(call) = Resources
      BY <1>3, <2>1 DEF scope, left
    <3>2. \A r \in Resources \ left(c) : settled("apply", r)
      BY <1>2, <1>3, <3>1 DEF goodCall, passed
    <3>3. \A r \in Resources \ left(c) : settled("apply", r)'
      BY <1>1, <1>2, <3>2 DEF settled, present, providerVars
    <3>4. scope(c)' = scope(c) /\ left(c)' = left(c)
      BY <1>1, AtRest DEF scope, left
    <3>. QED
      BY <2>1, <3>1, <3>3, <3>4 DEF passed
  <2>6. tracedAll(c.created)
    BY <1>2, <2>1 DEF goodCall
  <2>. QED
    BY <1>1, <2>1, <2>2, <2>4, <2>5, <2>6, GoesOn
<1>. QED
  BY <1>4, <1>5 DEF requireCurrentSubnetRanges

LEMMA RequireNoNATKeeps ==
    ASSUME NetworkAssumption, NetworkInv, requireNoNAT
    PROVE  NetworkInv'
<1>1. /\ call.pc = "nats" /\ call # NoCall /\ UNCHANGED <<operatorVars, providerVars>>
      /\ moved' = moved \ {"nat"} /\ intent \in Intents
  BY OnCall DEF requireNoNAT, NetworkInv, NetworkTypeOK
<1>2. /\ goodCall(call) /\ shape(call) /\ resource = target(call) /\ call \in Calls
      /\ resource = "router" /\ "nat" \in Resources
  BY <1>1, CallState, PlanFacts DEF shape
<1>3. call.mode = "compensate" /\ call.stage = "before"
  BY <1>1, <1>2 DEF shape, Calls
<1>4. CASE present("nat")
  BY <1>1, <1>3, <1>4, GivesUp DEF requireNoNAT
<1>5. CASE ~present("nat")
  <2>1. PICK c \in Calls :
            /\ Goto(c) /\ c.pc = "again" /\ c.mode = "compensate" /\ c.stage = "before"
            /\ c.todo = call.todo /\ c.chosen = call.chosen /\ c.created = call.created
            /\ c.effect = call.effect /\ c.mutated = call.mutated
    BY <1>2, <1>3, <1>5 DEF requireNoNAT, Calls, Points
  <2>2. target(c) = "router"
    BY <1>2, <1>3, <2>1 DEF target, position
  <2>3. shape(c)
    BY <1>2, <1>3, <2>1, <2>2 DEF shape
  <2>4. ~present("nat")'
    BY <1>1, <1>5 DEF present, providerVars
  <2>5. ownCreation(c) /\ ownDeletion(c)' /\ rangesClear(c)'
    BY <2>1, <2>4 DEF ownCreation, ownDeletion, rangesClear
  <2>6. UNCHANGED world
    BY <1>1 DEF providerVars
  <2>7. passed(c)'
    <3>1. scope(c) = scope(call) /\ left(c) = left(call)
      BY <1>3, <2>1 DEF scope, left
    <3>2. \A r \in scope(c) \ left(c) : settled("compensate", r)
      BY <1>2, <1>3, <3>1 DEF goodCall, passed
    <3>3. \A r \in scope(c) \ left(c) : settled("compensate", r)'
      BY <1>1, <2>4, <2>6, <3>2 DEF settled, present
    <3>4. scope(c)' = scope(c) /\ left(c)' = left(c)
      BY <1>1, AtRest DEF scope, left
    <3>. QED
      BY <2>1, <3>3, <3>4 DEF passed
  <2>8. tracedAll(c.created)
    BY <1>2, <2>1 DEF goodCall
  <2>. QED
    BY <1>1, <2>1, <2>3, <2>5, <2>7, <2>8, GoesOn
<1>. QED
  BY <1>4, <1>5

LEMMA ObserveAgainKeeps ==
    ASSUME NetworkAssumption, NetworkInv, ObserveAgain
    PROVE  NetworkInv'
<1>1. /\ call.pc = "again" /\ call # NoCall /\ UNCHANGED <<operatorVars, providerVars>>
      /\ moved' = moved \ {"router"} /\ intent \in Intents
  BY OnCall DEF ObserveAgain, NetworkInv, NetworkTypeOK
<1>2. /\ goodCall(call) /\ shape(call) /\ resource = target(call) /\ call \in Calls
      /\ resource = "router" /\ "nat" \in Resources
  BY <1>1, CallState, PlanFacts DEF shape
<1>3. call.mode = "compensate" /\ call.stage = "before"
  BY <1>1, <1>2 DEF shape, Calls
<1>4. CASE Finish(call, FALSE, "not-occurred")
  BY <1>1, <1>3, <1>4, GivesUp
<1>5. CASE /\ sameIncarnation(incarnation("router"))
           /\ Goto([call EXCEPT !.pc = "delete", !.sawNAT = present("nat")])
  <2>1. PICK saw \in BOOLEAN : Goto([call EXCEPT !.pc = "delete", !.sawNAT = saw])
    <3>1. present("nat") \in BOOLEAN
      BY DEF present
    <3>. QED
      BY <1>5, <3>1
  <2>2. PICK c \in Calls :
            /\ Goto(c) /\ c.pc = "delete" /\ c.mode = "compensate" /\ c.stage = "before"
            /\ c.todo = call.todo /\ c.chosen = call.chosen /\ c.created = call.created
            /\ c.effect = call.effect /\ c.mutated = call.mutated
    <3>. DEFINE c == [call EXCEPT !.pc = "delete", !.sawNAT = saw]
    <3>1. /\ c \in Calls /\ c.pc = "delete" /\ c.mode = "compensate" /\ c.stage = "before"
          /\ c.todo = call.todo /\ c.chosen = call.chosen /\ c.created = call.created
          /\ c.effect = call.effect /\ c.mutated = call.mutated
      BY <1>2, <1>3 DEF Calls, Points
    <3>. QED
      BY <2>1, <3>1
  <2>3. target(c) = "router" /\ target(c)' = target(c)
    BY <1>1, <1>2, <1>3, <2>2, AtRest DEF target, position
  <2>4. shape(c)
    BY <1>2, <1>3, <2>2, <2>3 DEF shape
  <2>5. own("router")
    BY <1>1, <1>2, <1>3, <1>5, RecordedIsOwn
  <2>6. own("router")'
    BY <1>1, <2>5, AtRest
  <2>7. ~present("nat")' \/ "nat" \in moved'
    BY <1>1, <1>2 DEF goodCall, ownDeletion, present, providerVars
  <2>8. ownCreation(c) /\ ownDeletion(c)' /\ rangesClear(c)'
    BY <2>2, <2>3, <2>6, <2>7 DEF ownCreation, ownDeletion, rangesClear
  <2>. QED
    BY <1>1, <1>2, <1>3, <2>2, <2>4, <2>8, Turns
<1>. QED
  BY <1>4, <1>5 DEF ObserveAgain

LEMMA AuthorizationLapsesKeeps ==
    ASSUME NetworkAssumption, NetworkInv, AuthorizationLapses
    PROVE  NetworkInv'
<1>1. /\ call.pc \in {"create", "delete"} /\ call # NoCall
      /\ UNCHANGED <<operatorVars, providerVars>> /\ Finish(call, FALSE, "not-occurred")
  BY OnCall DEF AuthorizationLapses
<1>2. shape(call) /\ call \in Calls
  BY <1>1, CallState
<1>3. call.stage = "before"
  BY <1>1, <1>2 DEF shape, Calls
<1>. QED
  BY <1>1, <1>3, GivesUp

----------------------------------------------------------------------------
(* The commands of a network call *)

\* Records stay traced whatever becomes of the resources.
LEMMA RecordsStay ==
    ASSUME NetworkAssumption, NetworkInv, WorldChanges, swapped \subseteq swapped',
           NEW recs \in SUBSET CreationRecords, tracedAll(recs)
    PROVE  \A rec \in recs : traced(rec.resource, rec.incarnation, rec.op)'
<1>1. ASSUME NEW rec \in recs
      PROVE  traced(rec.resource, rec.incarnation, rec.op)'
  <2>1. PICK r \in Resources, inc \in Incarnations, operation \in Nat :
            rec.resource = r /\ rec.incarnation = inc /\ rec.op = operation
    BY DEF CreationRecords
  <2>2. traced(r, inc, operation)
    BY <2>1 DEF tracedAll
  <2>3. traced(r, inc, operation)'
    BY <2>2, TracedStays DEF NetworkInv
  <2>. QED
    BY <2>1, <2>3
<1>. QED
  BY <1>1

\* What a call is about to create or delete, and what it leaves of the others.
LEMMA CreateForms ==
    ASSUME NetworkAssumption, NetworkInv, call # NoCall, intent' = intent, creatable, create
    PROVE  /\ WorldChanges /\ WorldInv' /\ call.mode = "apply"
           /\ \A r \in {resource} : world'[r].by = op
           /\ \A r \in Resources \ {resource} : steady(r)
<1>1. /\ call.pc = "create" /\ ~present(resource) /\ (resource = "nat" => present("router"))
      /\ world' = put(resource, fresh(TRUE, op)) /\ born' = born + 1
  BY DEF creatable, create, fresh
<1>2. shape(call) /\ resource \in Resources /\ op \in Nat /\ NetworkTypeOK /\ WorldInv
  BY CallState DEF NetworkInv, NetworkTypeOK
<1>3. call.mode = "apply"
  BY <1>1, <1>2 DEF shape
<1>4. /\ WorldChanges /\ WorldInv' /\ world'[resource] = fresh(TRUE, op)
      /\ \A q \in Resources \ {resource} :
             steady(q) \/ (resource = "router" /\ q = "nat" /\ world'[q] = Gone)
  BY <1>1, <1>2, Creates
<1>5. ASSUME resource = "router", "nat" \in Resources, world'["nat"] = Gone
      PROVE  steady("nat")
  BY <1>1, <1>2, <1>5 DEF steady, WorldInv, present
<1>6. \A r \in {resource} : world'[r].by = op
  BY <1>4 DEF fresh
<1>. QED
  BY <1>3, <1>4, <1>5, <1>6

LEMMA DeleteForms ==
    ASSUME NetworkAssumption, NetworkInv, call # NoCall, intent' = intent, deletable, delete
    PROVE  /\ WorldChanges /\ WorldInv' /\ call.mode = "compensate"
           /\ \A r \in Resources \ {resource} : steady(r) \/ world'[r] = Gone
<1>1. call.pc = "delete" /\ present(resource) /\ world' = put(resource, Gone) /\ born' = born
  BY DEF deletable, delete
<1>2. shape(call) /\ resource \in Resources /\ NetworkTypeOK /\ WorldInv
  BY CallState DEF NetworkInv
<1>3. call.mode = "compensate"
  BY <1>1, <1>2 DEF shape
<1>. QED
  BY <1>1, <1>2, <1>3, Deletes

\* A command took effect: the call looks at what it did.
LEMMA CommandKeeps ==
    ASSUME NetworkAssumption, NetworkInv, CreateResource \/ DeleteResource
    PROVE  NetworkInv'
<1>1. /\ call.pc \in {"create", "delete"} /\ call # NoCall
      /\ UNCHANGED <<operatorVars, moved>> /\ ((creatable /\ create) \/ (deletable /\ delete))
      /\ Goto([call EXCEPT !.pc = "observe", !.stage = "after", !.effect = TRUE])
  <2>1. CASE CreateResource
    <3>1. call.pc = "create"
      BY <2>1 DEF CreateResource, creatable
    <3>. QED
      BY <2>1, <3>1, OnCall DEF CreateResource
  <2>2. CASE DeleteResource
    <3>1. call.pc = "delete"
      BY <2>2 DEF DeleteResource, deletable
    <3>. QED
      BY <2>2, <3>1, OnCall DEF DeleteResource
  <2>. QED
    BY <2>1, <2>2
<1>2. UNCHANGED <<now, op, attempt, intent, swapped>>
  BY <1>1 DEF operatorVars
<1>3. goodCall(call) /\ shape(call) /\ call \in Calls /\ last = NoResult
      /\ resource = target(call) /\ resource \in left(call) /\ resource \in Resources
  BY <1>1, CallState
<1>4. /\ WorldChanges /\ WorldInv' /\ call.mode \in {"apply", "compensate"}
      /\ call.mode = "apply" => \A r \in {resource} : world'[r].by = op
      /\ \A r \in Resources \ {resource} :
             steady(r) \/ (call.mode = "compensate" /\ world'[r] = Gone)
  BY <1>1, <1>2, CreateForms, DeleteForms
<1>5. PICK c \in Calls :
          /\ call' = c /\ c.pc = "observe" /\ c.stage = "after" /\ c.mode = call.mode
          /\ c.todo = call.todo /\ c.chosen = call.chosen /\ c.created = call.created
          /\ c.mutated = call.mutated
  <2>. DEFINE c == [call EXCEPT !.pc = "observe", !.stage = "after", !.effect = TRUE]
  <2>1. call' = c
    BY <1>1 DEF Goto
  <2>2. /\ c \in Calls /\ c.pc = "observe" /\ c.stage = "after" /\ c.mode = call.mode
        /\ c.todo = call.todo /\ c.chosen = call.chosen /\ c.created = call.created
        /\ c.mutated = call.mutated
    BY <1>3 DEF Calls, Points
  <2>. QED
    BY <2>1, <2>2
<1>6. /\ plan' = plan /\ Resources' = Resources /\ CreationRecords' = CreationRecords
      /\ Calls' = Calls /\ Results' = Results
  BY <1>2, PlanStays
<1>7. UNCHANGED <<records, last>>
  BY <1>1 DEF Goto
<1>8. world' \in [Resources -> Things] /\ born' \in Nat
  BY <1>4 DEF WorldChanges
<1>9. NetworkTypeOK'
  BY <1>2, <1>5, <1>6, <1>7, <1>8 DEF NetworkInv, NetworkTypeOK
<1>10. tracedAll(records)' /\ tracedAll(c.created)'
  <2>1. records \in SUBSET CreationRecords /\ tracedAll(records)
    BY DEF NetworkInv, NetworkTypeOK
  <2>2. c.created \in SUBSET CreationRecords /\ tracedAll(c.created)
    BY <1>3, <1>5 DEF goodCall, Calls
  <2>3. /\ \A rec \in records : traced(rec.resource, rec.incarnation, rec.op)'
        /\ \A rec \in c.created : traced(rec.resource, rec.incarnation, rec.op)'
    BY <1>2, <1>4, <2>1, <2>2, RecordsStay
  <2>. QED
    BY <1>7, <2>3 DEF tracedAll
<1>11. shape(c)'
  <2>1. shape(c)
    BY <1>3, <1>4, <1>5 DEF shape
  <2>. QED
    BY <1>2, <1>6, <1>7, <2>1 DEF shape, target, position
<1>12. target(c) = resource /\ target(c)' = target(c) /\ scope(c)' = scope(c)
       /\ left(c)' = left(c) /\ scope(c) = scope(call) /\ left(c) = left(call)
  BY <1>3, <1>5, <1>6 DEF target, position, scope, left
<1>13. c.mode = "apply" => own(target(c))'
  <2>1. c.mode = "apply" => \A r \in {resource} : own(r)'
    BY <1>2, <1>4, <1>5 DEF own
  <2>2. \A r \in {resource} : own(r)' => own(target(c))'
    BY <1>12 DEF own, present
  <2>. QED
    BY <2>1, <2>2
<1>14. passed(c)'
  <2>1. scope(c) \ left(c) \subseteq Resources \ {resource}
    BY <1>3, <1>5, <1>12 DEF scope, Calls, CreationRecords
  <2>2. \A r \in scope(c) \ left(c) : settled(c.mode, r)
    BY <1>3, <1>5, <1>12 DEF goodCall, passed
  <2>3. moved' = moved
    BY <1>1
  <2>4. ASSUME NEW r \in Resources \ {resource}, settled(c.mode, r)
        PROVE  settled(c.mode, r)'
    <3>1. steady(r) \/ (c.mode = "compensate" /\ world'[r] = Gone)
      BY <1>4, <1>5
    <3>. QED
      BY <2>3, <2>4, <3>1 DEF settled, steady, present
  <2>5. \A r \in scope(c) \ left(c) : settled(c.mode, r)'
    BY <2>1, <2>2, <2>4
  <2>. QED
    BY <1>5, <1>12, <2>5 DEF passed
<1>15. goodCall(c)'
  BY <1>5, <1>10, <1>11, <1>13, <1>14 DEF goodCall, ownCreation, ownDeletion, rangesClear
<1>16. ReportsAreHonest' /\ OutcomesHold'
  BY <1>3, <1>7 DEF ReportsAreHonest, OutcomesHold, NoResult
<1>. QED
  BY <1>3, <1>4, <1>5, <1>7, <1>9, <1>10, <1>15, <1>16 DEF NetworkInv

LEMMA CommandFailsKeeps ==
    ASSUME NetworkAssumption, NetworkInv, CommandFails
    PROVE  NetworkInv'
<1>1. /\ call.pc \in {"create", "delete"} /\ call # NoCall /\ UNCHANGED operatorVars
      /\ intent' = intent /\ swapped' = swapped
  BY OnCall DEF CommandFails, operatorVars
<1>2. goodCall(call) /\ call \in Calls
  BY <1>1, CallState
<1>3. PICK c \in Calls : Finish(c, FALSE, "unknown") /\ c.created = call.created
  <2>. DEFINE c == [call EXCEPT !.effect = TRUE]
  <2>1. Finish(c, FALSE, "unknown") \/ Finish(call, FALSE, "unknown")
    BY DEF CommandFails
  <2>2. c \in Calls /\ c.created = call.created
    BY <1>2 DEF Calls
  <2>. HIDE DEF c
  <2>. QED
    BY <1>2, <2>1, <2>2
<1>4. records \in SUBSET CreationRecords /\ tracedAll(records)
  BY DEF NetworkInv, NetworkTypeOK
<1>5. c.created \in SUBSET CreationRecords /\ tracedAll(c.created)
  BY <1>2, <1>3 DEF goodCall, Calls
<1>6. /\ \A rec \in records \cup c.created : traced(rec.resource, rec.incarnation, rec.op)'
      /\ world' \in [Resources -> Things] /\ born' \in Nat /\ WorldInv'
  <2>1. CASE UNCHANGED providerVars
    BY <1>1, <1>4, <1>5, <2>1, AtRest DEF tracedAll
  <2>2. CASE (creatable /\ create) \/ (deletable /\ delete)
    <3>1. WorldChanges /\ WorldInv'
      BY <1>1, <2>2, CreateForms, DeleteForms
    <3>2. /\ \A rec \in records : traced(rec.resource, rec.incarnation, rec.op)'
          /\ \A rec \in c.created : traced(rec.resource, rec.incarnation, rec.op)'
      BY <1>1, <1>4, <1>5, <3>1, RecordsStay
    <3>. QED
      BY <3>1, <3>2 DEF WorldChanges
  <2>. QED
    BY <2>1, <2>2 DEF CommandFails
<1>. QED
  BY <1>1, <1>3, <1>6, Finishes DEF Mutations

----------------------------------------------------------------------------
(* The gateway, and what others do *)

\* Time, a new preflight, the next operation and a crash leave the provider and
\* the records as they are; a call goes on as it was or is lost.
LEMMA GatewayKeeps ==
    ASSUME NetworkAssumption, NetworkInv, now' \in Nat, op' \in Nat, attempt' \in Nat,
           UNCHANGED <<intent, world, ranges, born, records, last, moved, swapped>>,
           call' = NoCall \/ (call' = call /\ op' = op)
    PROVE  NetworkInv'
<1>1. /\ plan' = plan /\ Resources' = Resources /\ CreationRecords' = CreationRecords
      /\ Calls' = Calls /\ Results' = Results
  BY PlanStays
<1>2. NetworkTypeOK'
  BY <1>1, NoCallIsACall DEF NetworkInv, NetworkTypeOK
<1>3. WorldInv' /\ ReportsAreHonest' /\ OutcomesHold'
  BY <1>1 DEF NetworkInv, WorldInv, present, ReportsAreHonest, OutcomesHold
<1>4. \A r, inc, operation : traced(r, inc, operation)' <=> traced(r, inc, operation)
  BY DEF traced, present, incarnation
<1>5. tracedAll(records)'
  BY <1>4 DEF NetworkInv, tracedAll
<1>6. ASSUME call' # NoCall
      PROVE  goodCall(call)' /\ last' = NoResult
  <2>1. call' = call /\ op' = op /\ call # NoCall
    BY <1>6
  <2>2. goodCall(call) /\ last = NoResult
    BY <2>1, CallState
  <2>3. shape(call)'
    BY <1>1, <2>1, <2>2 DEF goodCall, shape, target, position
  <2>4. tracedAll(call.created)'
    BY <1>4, <2>1, <2>2 DEF goodCall, tracedAll
  <2>5. ownCreation(call)' /\ ownDeletion(call)' /\ rangesClear(call)'
    BY <1>1, <1>4, <2>1, <2>2
       DEF goodCall, ownCreation, ownDeletion, rangesClear, own, present, target, position
  <2>6. passed(call)'
    BY <1>1, <2>1, <2>2 DEF goodCall, passed, settled, scope, left, target, position, present
  <2>. QED
    BY <2>2, <2>3, <2>4, <2>5, <2>6 DEF goodCall
<1>. QED
  BY <1>2, <1>3, <1>5, <1>6 DEF NetworkInv

LEMMA StartCallKeeps ==
    ASSUME NetworkAssumption, NetworkInv,
           NEW mode \in {"apply", "verify", "compensate"}, NEW chosen \in SUBSET records,
           mode # "compensate" => chosen = {}, StartCall(mode, chosen)
    PROVE  NetworkInv'
<1>1. /\ attempt' = attempt + 1 /\ last' = NoResult
      /\ mode = "compensate" => chosen # {} /\ \A rec \in chosen : rec.op = op
      /\ UNCHANGED <<now, intent, ranges, op, swapped, world, born, moved, records>>
  BY DEF StartCall, admitCompensation, providerVars
<1>2. /\ plan' = plan /\ Resources' = Resources /\ CreationRecords' = CreationRecords
      /\ Calls' = Calls /\ Results' = Results
  BY <1>1, PlanStays
<1>3. /\ now \in Nat /\ intent \in Intents /\ op \in Nat /\ attempt \in Nat
      /\ records \in SUBSET CreationRecords
  BY DEF NetworkInv, NetworkTypeOK
<1>. DEFINE todo == IF mode = "compensate" THEN compensable(chosen) ELSE DOMAIN plan
<1>4. todo \subseteq DOMAIN plan /\ todo # {}
  <2>1. CASE mode = "compensate"
    <3>1. PICK rec \in chosen : rec.resource \in Resources
      BY <1>1, <1>3, <2>1 DEF CreationRecords
    <3>2. \E i \in DOMAIN plan : rec.resource = plan[i]
      BY <1>3, <3>1, PlanFacts
    <3>. QED
      BY <2>1, <3>2 DEF compensable
  <2>2. CASE mode # "compensate"
    BY <1>3, <2>2, PlanFacts
  <2>. QED
    BY <2>1, <2>2
<1>5. mode = "compensate" => \A i \in DOMAIN plan : (i \in todo <=> \E rec \in chosen : rec.resource = plan[i])
  BY DEF compensable
<1>6. /\ call' = [NoCall EXCEPT !.mode = mode, !.pc = "observe", !.from = now, !.chosen = chosen,
                                !.todo = todo]
      /\ NoCall \in Calls /\ chosen \in SUBSET CreationRecords
  BY <1>3, NoCallIsACall DEF StartCall, NetworkInv
<1>. HIDE DEF todo
<1>7. PICK c \in Calls :
          /\ call' = c /\ c.mode = mode /\ c.pc = "observe" /\ c.stage = "before"
          /\ c.todo = todo /\ c.chosen = chosen /\ c.created = {} /\ c.effect = FALSE
  <2>. DEFINE c == [NoCall EXCEPT !.mode = mode, !.pc = "observe", !.from = now,
                                  !.chosen = chosen, !.todo = todo]
  <2>1. /\ NoCall.stage = "before" /\ NoCall.created = {} /\ NoCall.effect = FALSE
    BY DEF NoCall
  <2>2. /\ c \in Calls /\ c.mode = mode /\ c.pc = "observe" /\ c.stage = NoCall.stage
        /\ c.todo = todo /\ c.chosen = chosen /\ c.created = NoCall.created
        /\ c.effect = NoCall.effect
    BY <1>3, <1>4, <1>6 DEF Calls, Points, Modes
  <2>. HIDE DEF c
  <2>. QED
    BY <1>6, <2>1, <2>2 DEF c
<1>8. shape(c)'
  BY <1>1, <1>2, <1>4, <1>5, <1>7 DEF shape
<1>9. passed(c)'
  <2>1. \A r \in scope(c) : r \in left(c)
    <3>1. CASE mode = "compensate"
      <4>1. \A rec \in chosen : rec.resource \in Resources
        BY <1>6 DEF CreationRecords
      <4>. QED
        BY <1>3, <1>5, <1>7, <3>1, <4>1, PlanFacts DEF scope, left
    <3>2. CASE mode # "compensate"
      <4>1. todo = DOMAIN plan
        BY <3>2 DEF todo
      <4>. QED
        BY <1>3, <1>7, <3>2, <4>1, PlanFacts DEF scope, left
    <3>. QED
      BY <3>1, <3>2
  <2>2. scope(c)' = scope(c) /\ left(c)' = left(c)
    BY <1>2 DEF scope, left
  <2>. QED
    BY <1>7, <2>1, <2>2 DEF passed
<1>10. goodCall(c)'
  BY <1>7, <1>8, <1>9 DEF goodCall, tracedAll, ownCreation, ownDeletion, rangesClear
<1>11. \A r, inc, operation : traced(r, inc, operation)' <=> traced(r, inc, operation)
  BY <1>1 DEF traced, present, incarnation
<1>12. tracedAll(records)' /\ WorldInv'
  BY <1>1, <1>2, <1>11 DEF NetworkInv, tracedAll, WorldInv, present
<1>13. NoResult \in Results
  BY DEF NoResult, Results, Modes, Mutations
<1>14. NetworkTypeOK'
  BY <1>1, <1>2, <1>3, <1>7, <1>13 DEF NetworkInv, NetworkTypeOK
<1>15. ReportsAreHonest' /\ OutcomesHold'
  BY <1>1 DEF ReportsAreHonest, OutcomesHold, NoResult
<1>. QED
  BY <1>1, <1>7, <1>10, <1>12, <1>14, <1>15 DEF NetworkInv

\* Others change the resources in things, or the address ranges.
LEMMA OthersTouch ==
    ASSUME NetworkAssumption, NetworkInv, NEW things, Touch(things), intent' = intent,
           WorldChanges, WorldInv', \A r \in Resources \ things : steady(r),
           "ranges" \in things \/ ranges' = ranges
    PROVE  NetworkInv'
<1>1. /\ moved' = moved \cup things
      /\ swapped' = IF call.mode = "apply" /\ call.stage = "after" /\ resource \in things
                    THEN swapped \cup {resource} ELSE swapped
      /\ UNCHANGED <<now, intent, op, attempt, call, records, last>>
      /\ swapped \subseteq swapped'
  BY DEF Touch
<1>2. /\ plan' = plan /\ Resources' = Resources /\ CreationRecords' = CreationRecords
      /\ Calls' = Calls /\ Results' = Results
  BY PlanStays
<1>3. world' \in [Resources -> Things] /\ born' \in Nat
  BY DEF WorldChanges
<1>4. NetworkTypeOK'
  BY <1>1, <1>2, <1>3 DEF NetworkInv, NetworkTypeOK
<1>5. ASSUME NEW mode, NEW r \in Resources, settled(mode, r)
      PROVE  settled(mode, r)'
  BY <1>1, <1>5 DEF settled, steady, present
<1>6. tracedAll(records)'
  <2>1. records \in SUBSET CreationRecords /\ tracedAll(records)
    BY DEF NetworkInv, NetworkTypeOK
  <2>2. \A rec \in records : traced(rec.resource, rec.incarnation, rec.op)'
    BY <1>1, <2>1, RecordsStay
  <2>. QED
    BY <1>1, <2>2 DEF tracedAll
<1>7. ReportsAreHonest'
  BY <1>1 DEF NetworkInv, ReportsAreHonest
<1>8. OutcomesHold'
  <2>1. last \in Results /\ OutcomesHold
    BY DEF NetworkInv, NetworkTypeOK
  <2>2. CASE last.ok /\ last.mode = "compensate"
    <3>1. \A r \in last.targets : r \in Resources /\ settled(last.mode, r)
      BY <2>1, <2>2 DEF OutcomesHold, settled, Results
    <3>2. \A r \in last.targets : settled(last.mode, r)'
      BY <1>1, <1>5, <3>1 DEF settled
    <3>. QED
      BY <1>1, <2>2, <3>2 DEF OutcomesHold, settled
  <2>3. CASE last.ok /\ last.mode # "compensate"
    <3>1. \A r \in Resources : settled(last.mode, r)
      BY <2>1, <2>3 DEF OutcomesHold, settled
    <3>2. \A r \in Resources : settled(last.mode, r)'
      BY <1>1, <1>5, <3>1 DEF settled
    <3>. QED
      BY <1>1, <1>2, <2>3, <3>2 DEF OutcomesHold, settled
  <2>. QED
    BY <1>1, <2>2, <2>3 DEF OutcomesHold
<1>9. ASSUME call # NoCall
      PROVE  goodCall(call)' /\ last' = NoResult
  <2>1. goodCall(call) /\ shape(call) /\ call \in Calls /\ last = NoResult
        /\ resource = target(call) /\ resource \in Resources
    BY <1>9, CallState
  <2>2. PICK c \in Calls : c = call
    BY <2>1
  <2>3. call' = c /\ resource = target(c) /\ goodCall(c)
    BY <1>1, <2>1, <2>2
  <2>4. target(c)' = target(c) /\ scope(c)' = scope(c) /\ left(c)' = left(c)
    BY <1>2 DEF target, position, scope, left
  <2>5. PICK r \in Resources : r = resource
    BY <2>1
  <2>6. shape(c)'
    BY <1>1, <1>2, <2>3 DEF goodCall, shape, target, position
  <2>7. tracedAll(c.created)'
    <3>1. c.created \in SUBSET CreationRecords /\ tracedAll(c.created)
      BY <2>3 DEF goodCall, Calls
    <3>2. \A rec \in c.created : traced(rec.resource, rec.incarnation, rec.op)'
      BY <1>1, <3>1, RecordsStay
    <3>. QED
      BY <3>2 DEF tracedAll
  <2>8. ownCreation(c)'
    <3>. SUFFICES ASSUME c.mode = "apply", c.stage = "after"
                  PROVE  own(r)' /\ (c.pc = "status" => traced("nat", c.inc, op)')
      BY <2>3, <2>4, <2>5 DEF ownCreation, own, present
    <3>1. own(r) /\ (c.pc = "status" => traced("nat", c.inc, op) /\ r = "nat")
      BY <2>3, <2>5 DEF goodCall, ownCreation, shape
    <3>2. own(r)'
      BY <1>1, <2>2, <2>5, <3>1 DEF own, steady, present
    <3>3. c.pc = "status" => traced("nat", c.inc, op)'
      <4>1. ASSUME c.pc = "status"
            PROVE  traced("nat", c.inc, op)'
        <5>1. PICK inc \in Incarnations, operation \in Nat : inc = c.inc /\ operation = op
          BY DEF Calls, NetworkInv, NetworkTypeOK
        <5>2. traced("nat", inc, operation) /\ "nat" \in Resources
          BY <3>1, <4>1, <5>1
        <5>3. traced("nat", inc, operation)'
          BY <1>1, <5>2, TracedStays DEF NetworkInv
        <5>. QED
          BY <1>1, <5>1, <5>3
      <4>. QED
        BY <4>1
    <3>. QED
      BY <3>2, <3>3
  <2>9. ownDeletion(c)'
    <3>1. c.pc = "delete" => own(r)' \/ r \in moved'
      BY <1>1, <2>3, <2>5 DEF goodCall, ownDeletion, own, steady, present
    <3>2. c.pc \in {"again", "delete"} /\ r = "router" => ~present("nat")' \/ "nat" \in moved'
      <4>1. "nat" \in Resources <=> "router" \in Resources
        BY PlanFacts DEF NetworkInv, NetworkTypeOK
      <4>. QED
        BY <1>1, <2>3, <2>5, <4>1 DEF goodCall, ownDeletion, steady, present
    <3>. QED
      BY <2>3, <2>4, <2>5, <3>1, <3>2 DEF ownDeletion, own, present
  <2>10. passed(c)'
    <3>1. scope(c) \subseteq Resources
      BY DEF scope, Calls, CreationRecords
    <3>2. \A q \in scope(c) \ left(c) : settled(c.mode, q)'
      BY <1>5, <2>3, <3>1 DEF goodCall, passed
    <3>3. c.pc \in {"owner", "status"} /\ c.mode # "compensate" => settled(c.mode, r)'
      BY <1>5, <2>3, <2>5 DEF goodCall, passed
    <3>. QED
      BY <2>3, <2>4, <2>5, <3>2, <3>3 DEF passed, settled, present
  <2>11. rangesClear(c)'
    BY <1>1, <2>3, <2>4 DEF goodCall, rangesClear
  <2>. QED
    BY <1>1, <2>1, <2>3, <2>6, <2>7, <2>8, <2>9, <2>10, <2>11 DEF goodCall
<1>. QED
  BY <1>1, <1>4, <1>6, <1>7, <1>8, <1>9 DEF NetworkInv

LEMMA OthersKeepNetwork ==
    ASSUME NetworkAssumption, NetworkInv,
           \/ \E r \in Resources :
                  \/ \E exact \in BOOLEAN : OthersCreate(r, exact)
                  \/ OthersModify(r) \/ OthersDelete(r)
           \/ \E range \in {"overlapping", "disjoint"} : OthersAddRange(range)
    PROVE  NetworkInv'
<1>1. NetworkTypeOK /\ WorldInv /\ ("router" \in Resources <=> "nat" \in Resources)
      /\ "ranges" \notin Resources
  BY PlanFacts DEF NetworkInv, NetworkTypeOK
<1>2. ASSUME NEW r \in Resources, NEW exact \in BOOLEAN, OthersCreate(r, exact)
      PROVE  NetworkInv'
  <2>1. /\ r = "nat" => present("router")
        /\ world' = [put(r, Gone) EXCEPT ![r] = fresh(exact, 0)] /\ born' = born + 1
        /\ ranges' = ranges
    BY <1>2 DEF OthersCreate, fresh
  <2>2. PICK things : /\ Touch(things)
                      /\ things = IF r = "router" THEN {"router", "nat"} ELSE {r}
    BY <1>2 DEF OthersCreate
  <2>3. intent' = intent
    BY <2>2 DEF Touch
  <2>4. /\ WorldChanges /\ WorldInv'
        /\ \A q \in Resources \ {r} : steady(q) \/ (r = "router" /\ q = "nat" /\ world'[q] = Gone)
    BY <1>1, <2>1, <2>3, Creates
  <2>5. \A q \in Resources \ things : steady(q)
    BY <2>2, <2>4
  <2>. QED
    BY <2>1, <2>2, <2>3, <2>4, <2>5, OthersTouch
<1>3. ASSUME NEW r \in Resources, OthersModify(r)
      PROVE  NetworkInv'
  <2>1. /\ present(r) /\ world' = put(r, [world[r] EXCEPT !.exact = ~@, !.print = @ + 1])
        /\ born' = born /\ ranges' = ranges
    BY <1>3 DEF OthersModify
  <2>2. PICK things : Touch(things) /\ things = {r}
    BY <1>3 DEF OthersModify
  <2>3. intent' = intent
    BY <2>2 DEF Touch
  <2>4. WorldChanges /\ WorldInv' /\ \A q \in Resources \ {r} : steady(q)
    BY <1>1, <2>1, <2>3, Modifies
  <2>. QED
    BY <2>1, <2>2, <2>3, <2>4, OthersTouch
<1>4. ASSUME NEW r \in Resources, OthersDelete(r)
      PROVE  NetworkInv'
  <2>1. present(r) /\ world' = put(r, Gone) /\ born' = born /\ ranges' = ranges
    BY <1>4 DEF OthersDelete
  <2>2. PICK things : /\ Touch(things)
                      /\ things = IF r = "router" THEN {"router", "nat"} ELSE {r}
    BY <1>4 DEF OthersDelete
  <2>3. intent' = intent
    BY <2>2 DEF Touch
  <2>4. /\ WorldChanges /\ WorldInv'
        /\ \A q \in Resources \ {r} : steady(q) \/ (r = "router" /\ q = "nat" /\ world'[q] = Gone)
    BY <1>1, <2>1, <2>3, Deletes
  <2>5. \A q \in Resources \ things : steady(q)
    BY <2>2, <2>4
  <2>. QED
    BY <2>1, <2>2, <2>3, <2>4, <2>5, OthersTouch
<1>5. ASSUME NEW range, OthersAddRange(range)
      PROVE  NetworkInv'
  <2>1. Touch({"ranges"}) /\ UNCHANGED <<world, born>>
    BY <1>5 DEF OthersAddRange, providerVars
  <2>2. intent' = intent
    BY <2>1 DEF Touch
  <2>3. \A q \in Resources : world[q] \in Things /\ steady(q)
    BY <1>1, <2>1 DEF steady, NetworkTypeOK
  <2>4. WorldInv'
    BY <1>1, <2>1, <2>2, PlanStays DEF WorldInv, present
  <2>5. WorldChanges
    BY <1>1, <2>1, <2>3 DEF WorldChanges, WorldInv, NetworkTypeOK, present, Things
  <2>. QED
    BY <2>1, <2>2, <2>3, <2>4, <2>5, OthersTouch
<1>. QED
  BY <1>2, <1>3, <1>4, <1>5

LEMMA NetworkStarts ==
    ASSUME NetworkAssumption, NetworkInit
    PROVE  NetworkInv
<1>1. /\ now = 1 /\ intent \in Intents /\ world = [r \in Resources |-> Gone] /\ born = 0
      /\ op = 1 /\ attempt = 0 /\ call = NoCall /\ records = {} /\ last = NoResult
  BY DEF NetworkInit, ClockInit
<1>2. Gone \in Things /\ Gone.id = 0 /\ NoResult \in Results
  BY DEF Gone, Things, NoResult, Results, Modes, Mutations
<1>3. NoCall \in Calls
  BY DEF NoCall, NoIncarnation, Calls, Modes, Points, Incarnations
<1>4. NetworkTypeOK
  BY <1>1, <1>2, <1>3 DEF NetworkTypeOK
<1>5. WorldInv
  BY <1>1, <1>2 DEF WorldInv, present
<1>. QED
  BY <1>1, <1>4, <1>5 DEF NetworkInv, tracedAll, ReportsAreHonest, OutcomesHold, NoResult

LEMMA NetworkStep ==
    ASSUME NetworkAssumption, ClockAssumption, NetworkInv, [NetworkNext]_networkVars
    PROVE  NetworkInv'
<1>1. now \in Nat /\ now + 1 \in Nat /\ op \in Nat /\ op + 1 \in Nat /\ attempt \in Nat
  BY DEF NetworkInv, NetworkTypeOK
<1>2. CASE UNCHANGED networkVars
  BY <1>1, <1>2, GatewayKeeps DEF networkVars
<1>3. CASE NetworkTick
  BY <1>1, <1>3, GatewayKeeps DEF NetworkTick, Tick, providerVars
<1>4. CASE TakePreflight
  BY <1>1, <1>4, GatewayKeeps DEF TakePreflight, providerVars
<1>5. CASE NextOperation
  BY <1>1, <1>5, GatewayKeeps DEF NextOperation, providerVars
<1>6. CASE NetworkCrash
  BY <1>1, <1>6, GatewayKeeps DEF NetworkCrash, providerVars
<1>7. CASE \E mode \in {"apply", "verify"} : StartCall(mode, {})
  BY <1>7, StartCallKeeps
<1>8. CASE \E chosen \in SUBSET records : StartCall("compensate", chosen)
  BY <1>8, StartCallKeeps
<1>9. CASE ReadFails \/ Observe \/ ObserveOwner \/ ObserveStatus
  BY <1>9, ReadFailsKeeps, ObserveKeeps, ObserveOwnerKeeps, ObserveStatusKeeps
<1>10. CASE requireCurrentSubnetRanges \/ requireNoNAT \/ ObserveAgain
  BY <1>10, RequireRangesKeeps, RequireNoNATKeeps, ObserveAgainKeeps
<1>11. CASE AuthorizationLapses \/ CreateResource \/ DeleteResource \/ CommandFails
  BY <1>11, AuthorizationLapsesKeeps, CommandKeeps, CommandFailsKeeps
<1>12. CASE \/ \E r \in Resources :
                   \/ \E exact \in BOOLEAN : OthersCreate(r, exact)
                   \/ OthersModify(r) \/ OthersDelete(r)
            \/ \E range \in {"overlapping", "disjoint"} : OthersAddRange(range)
  BY <1>12, OthersKeepNetwork
<1>. QED
  BY <1>2, <1>3, <1>4, <1>5, <1>6, <1>7, <1>8, <1>9, <1>10, <1>11, <1>12 DEF NetworkNext

----------------------------------------------------------------------------
(* What the network steps promise *)

\* An incarnation that was recorded belongs to the operation that recorded it.
LEMMA RecordsTraced ==
    ASSUME tracedAll(records)
    PROVE  RecordsAreOwn
  BY DEF tracedAll, traced, RecordsAreOwn

\* Only the two provider commands change a resource unless others do, and what
\* others do is counted.
LEMMA NetworkMoves ==
    ASSUME [NetworkNext]_networkVars
    PROVE  /\ events' \in {events, events + 1}
           /\ \/ UNCHANGED world \/ events' = events + 1
              \/ call.pc \in {"create", "delete"} /\ intent' = intent
                 /\ ((creatable /\ create) \/ (deletable /\ delete))
<1>1. CASE UNCHANGED networkVars
  BY <1>1 DEF networkVars
<1>2. CASE NetworkTick \/ TakePreflight \/ NextOperation \/ NetworkCrash
  BY <1>2 DEF NetworkTick, TakePreflight, NextOperation, NetworkCrash, providerVars
<1>3. CASE \/ \E mode \in {"apply", "verify"} : StartCall(mode, {})
           \/ \E chosen \in SUBSET records : StartCall("compensate", chosen)
  BY <1>3 DEF StartCall, providerVars
<1>4. CASE ReadFails \/ Observe \/ ObserveOwner \/ ObserveStatus
  BY <1>4 DEF ReadFails, Observe, ObserveOwner, ObserveStatus, operatorVars, providerVars
<1>5. CASE \/ requireCurrentSubnetRanges \/ requireNoNAT \/ ObserveAgain \/ AuthorizationLapses
  BY <1>5 DEF requireCurrentSubnetRanges, requireNoNAT, ObserveAgain, AuthorizationLapses,
              operatorVars, providerVars
<1>6. CASE CreateResource
  <2>1. call.pc = "create" /\ UNCHANGED operatorVars
    BY <1>6 DEF CreateResource, creatable
  <2>. QED
    BY <1>6, <2>1 DEF CreateResource, operatorVars
<1>7. CASE DeleteResource
  <2>1. call.pc = "delete" /\ UNCHANGED operatorVars
    BY <1>7 DEF DeleteResource, deletable
  <2>. QED
    BY <1>7, <2>1 DEF DeleteResource, operatorVars
<1>8. CASE CommandFails
  BY <1>8 DEF CommandFails, operatorVars, providerVars
<1>9. CASE \/ \E r \in Resources :
                  \/ \E exact \in BOOLEAN : OthersCreate(r, exact)
                  \/ OthersModify(r) \/ OthersDelete(r)
           \/ \E range \in {"overlapping", "disjoint"} : OthersAddRange(range)
  BY <1>9 DEF OthersCreate, OthersModify, OthersDelete, OthersAddRange, Touch
<1>. QED
  BY <1>1, <1>2, <1>3, <1>4, <1>5, <1>6, <1>7, <1>8, <1>9 DEF NetworkNext

LEMMA OthersResourceSpared ==
    ASSUME NetworkAssumption, NetworkInv, events \in Nat, [NetworkNext]_networkVars,
           NEW r \in Resources, present(r), world[r].by # op, world'[r] = Gone, events' = events
    PROVE  r \in moved \cup swapped
<1>1. /\ call.pc \in {"create", "delete"} /\ intent' = intent
      /\ ((creatable /\ create) \/ (deletable /\ delete))
  BY NetworkMoves DEF present
<1>2. call # NoCall
  BY <1>1, OnCall
<1>3. goodCall(call) /\ shape(call) /\ resource = target(call)
  BY <1>2, CallState
<1>4. ~(creatable /\ create)
  <2>1. ASSUME creatable, create
        PROVE  FALSE
    <3>1. /\ WorldChanges /\ \A q \in Resources \ {resource} : steady(q)
      BY <1>1, <1>2, <2>1, CreateForms
    <3>2. ~present(resource)
      BY <2>1 DEF creatable
    <3>. QED
      BY <3>1, <3>2 DEF steady, present
  <2>. QED
    BY <2>1
<1>5. deletable /\ delete
  BY <1>1, <1>4
<1>6. /\ call.pc = "delete"
      /\ \A q \in Resources \ {resource} :
             steady(q) \/ (resource = "router" /\ q = "nat" /\ world'[q] = Gone)
  <2>1. call.pc = "delete" /\ present(resource) /\ world' = put(resource, Gone) /\ born' = born
    BY <1>5 DEF deletable, delete
  <2>. QED
    BY <1>1, <1>2, <2>1, CallState, Deletes DEF NetworkInv
<1>7. CASE r = resource
  BY <1>3, <1>6, <1>7 DEF goodCall, ownDeletion, own
<1>8. CASE r # resource
  BY <1>3, <1>6, <1>8 DEF goodCall, ownDeletion, steady, present
<1>. QED
  BY <1>7, <1>8

LEMMA SubnetTakesNoRange ==
    ASSUME NetworkAssumption, NetworkInv, events \in Nat, [NetworkNext]_networkVars,
           "subnet" \in Resources, ~present("subnet"), world'["subnet"] # Gone, events' = events
    PROVE  "overlapping" \notin ranges \/ "ranges" \in moved
<1>1. /\ call.pc \in {"create", "delete"} /\ intent' = intent
      /\ ((creatable /\ create) \/ (deletable /\ delete))
  BY NetworkMoves DEF present
<1>2. call # NoCall
  BY <1>1, OnCall
<1>3. goodCall(call) /\ resource = target(call)
  BY <1>2, CallState
<1>4. CASE creatable /\ create
  <2>1. /\ \A q \in Resources \ {resource} : steady(q)
    BY <1>1, <1>2, <1>4, CreateForms
  <2>2. resource = "subnet" /\ call.pc = "create"
    BY <1>4, <2>1 DEF creatable, steady, present
  <2>. QED
    BY <1>3, <2>2 DEF goodCall, rangesClear
<1>5. CASE deletable /\ delete
  <2>1. /\ \A q \in Resources \ {resource} : steady(q) \/ world'[q] = Gone
    BY <1>1, <1>2, <1>5, DeleteForms
  <2>2. present(resource)
    BY <1>5 DEF deletable
  <2>. QED
    BY <2>1, <2>2 DEF steady, present
<1>. QED
  BY <1>1, <1>4, <1>5

----------------------------------------------------------------------------
(* The theorems *)

\* The network steps by themselves, without the bounds of a run: reports are
\* honest, records are the operation's own, outcomes hold, others are spared.
THEOREM NetworkStepsAreSafe ==
    NetworkSpec => /\ [](ReportsAreHonest /\ RecordsAreOwn /\ OutcomesHold)
                   /\ CompensationSparesOthers /\ SubnetIsDisjoint
<1>. USE NetworkAssumption, ClockAssumption
<1>. DEFINE Inv == NetworkInv /\ events \in Nat
<1>1. NetworkInit => Inv
  <2>1. NetworkInit => events = 0
    BY DEF NetworkInit
  <2>. QED
    BY <2>1, NetworkStarts
<1>2. Inv /\ [NetworkNext]_networkVars => Inv'
  BY NetworkStep, NetworkMoves
<1>3. Inv => ReportsAreHonest /\ RecordsAreOwn /\ OutcomesHold
  BY RecordsTraced DEF NetworkInv
<1>4. Inv /\ [NetworkNext]_networkVars =>
          [\A r \in Resources :
              present(r) /\ world[r].by # op /\ world'[r] = Gone /\ events' = events =>
                  r \in moved \cup swapped]_networkVars
  BY OthersResourceSpared
<1>5. Inv /\ [NetworkNext]_networkVars =>
          [\A r \in Resources \cap {"subnet"} :
              ~present(r) /\ world'[r] # Gone /\ events' = events =>
                  "overlapping" \notin ranges \/ "ranges" \in moved]_networkVars
  BY SubnetTakesNoRange
<1>. HIDE DEF Inv
<1>. QED
  BY <1>1, <1>2, <1>3, <1>4, <1>5, PTL
     DEF NetworkSpec, CompensationSparesOthers, SubnetIsDisjoint

\* The bucket steps by themselves: reports are honest and whole, a grant that was
\* there is never reported as added, outcomes hold, a foreign bucket is spared.
THEOREM BucketStepsAreSafe ==
    BucketSpec => /\ [](StorageReportsHonest /\ GrantsReported)
                  /\ [](PreexistingGrantsKept /\ StorageOutcomesHold)
                  /\ ForeignControlBucketKept
<1>. USE BucketAssumption
<1>. DEFINE Inv == BucketInv /\ mishaps \in Nat
<1>1. BucketInit => Inv
  <2>1. BucketInit => mishaps = 0
    BY DEF BucketInit
  <2>. QED
    BY <2>1, BucketStarts
<1>2. Inv /\ [BucketNext]_bucketVars => Inv'
  BY BucketStep, BucketMoves
<1>3. Inv => StorageReportsHonest /\ GrantsReported
  BY DEF BucketInv, GrantInv, GrantsReported
<1>4. Inv => PreexistingGrantsKept /\ StorageOutcomesHold
  BY DEF BucketInv, PreexistingInv, spared, PreexistingGrantsKept, CheckedInv
<1>5. Inv /\ [BucketNext]_bucketVars =>
          [bucket.exists /\ ~bucket.ours /\ bucket' # bucket /\ mishaps' = mishaps =>
              "replaced" \in touched]_bucketVars
  BY ForeignBucketKept
<1>. HIDE DEF Inv
<1>. QED
  BY <1>1, <1>2, <1>3, <1>4, <1>5, PTL DEF BucketSpec, ForeignControlBucketKept

StepsInv == NetworkInv /\ BucketInv /\ events \in Nat /\ mishaps \in Nat

\* One part of the steps moves at a time.
LEMMA PartsMove ==
    ASSUME [MCNext]_stepsVars
    PROVE  [NetworkNext]_networkVars /\ [BucketNext]_bucketVars
  BY DEF MCNext, stepsVars, NetworkPart, BucketPart, CommandPart

\* The network steps and the bucket steps keep their invariants together: where
\* a call stands says what it has changed, what it recorded is traced to one
\* incarnation, and what it has gone through is settled.
THEOREM StepsInvariant == MCSpec => []StepsInv
<1>. USE NetworkAssumption, ClockAssumption, BucketAssumption
<1>1. MCInit => StepsInv
  <2>1. NetworkInit => events = 0
    BY DEF NetworkInit
  <2>2. BucketInit => mishaps = 0
    BY DEF BucketInit
  <2>. QED
    BY <2>1, <2>2, NetworkStarts, BucketStarts DEF MCInit, StepsInv
<1>2. StepsInv /\ [MCNext]_stepsVars => StepsInv'
  <2>. SUFFICES ASSUME StepsInv, [MCNext]_stepsVars
                PROVE  StepsInv'
    OBVIOUS
  <2>1. [NetworkNext]_networkVars /\ [BucketNext]_bucketVars
    BY PartsMove
  <2>2. NetworkInv' /\ BucketInv'
    BY <2>1, NetworkStep, BucketStep DEF StepsInv
  <2>3. events' \in Nat /\ mishaps' \in Nat
    BY <2>1, NetworkMoves, BucketMoves DEF StepsInv
  <2>. QED
    BY <2>2, <2>3 DEF StepsInv
<1>. QED
  BY <1>1, <1>2, PTL DEF MCSpec

\* A step that reports no mutation has changed nothing, and every grant a step
\* made is reported, is known to the call, or was lost with the process.
THEOREM ReportsAlwaysHold == MCSpec => []ReportsHold
<1>1. StepsInv => ReportsHold
  BY DEF StepsInv, ReportsHold, NetworkInv, BucketInv, GrantInv, GrantsReported
<1>. QED
  BY <1>1, StepsInvariant, PTL

\* Nothing that was there before the operation is recorded as its own: a recorded
\* incarnation is one the operation created, a reported grant was absent.
THEOREM UndoesOnlyItsOwn == MCSpec => []UndoesOnlyOwn
<1>1. StepsInv => UndoesOnlyOwn
  BY RecordsTraced DEF StepsInv, UndoesOnlyOwn, NetworkInv, BucketInv, PreexistingInv, spared,
                       PreexistingGrantsKept
<1>. QED
  BY <1>1, StepsInvariant, PTL

\* What a successful step promised (the resources as desired, or gone, the
\* bindings as rendered) holds until others change it.
THEOREM StepOutcomesAlwaysHold == MCSpec => []StepOutcomesHold
<1>1. StepsInv => StepOutcomesHold
  BY DEF StepsInv, StepOutcomesHold, NetworkInv, BucketInv, CheckedInv
<1>. QED
  BY <1>1, StepsInvariant, PTL

\* Compensation deletes only what this operation created, a subnet takes no range
\* that was seen, and a bucket of others is not configured, whatever crashes,
\* fails or is changed by others between two commands.
THEOREM OthersAreSpared == MCSpec => OthersSpared
<1>. USE NetworkAssumption, ClockAssumption, BucketAssumption
<1>1. StepsInv /\ [MCNext]_stepsVars =>
          [\A r \in Resources :
              present(r) /\ world[r].by # op /\ world'[r] = Gone /\ events' = events =>
                  r \in moved \cup swapped]_networkVars
  BY PartsMove, OthersResourceSpared DEF StepsInv
<1>2. StepsInv /\ [MCNext]_stepsVars =>
          [\A r \in Resources \cap {"subnet"} :
              ~present(r) /\ world'[r] # Gone /\ events' = events =>
                  "overlapping" \notin ranges \/ "ranges" \in moved]_networkVars
  BY PartsMove, SubnetTakesNoRange DEF StepsInv
<1>3. StepsInv /\ [MCNext]_stepsVars =>
          [bucket.exists /\ ~bucket.ours /\ bucket' # bucket /\ mishaps' = mishaps =>
              "replaced" \in touched]_bucketVars
  BY PartsMove, ForeignBucketKept DEF StepsInv
<1>. QED
  BY <1>1, <1>2, <1>3, StepsInvariant, PTL
     DEF MCSpec, OthersSpared, CompensationSparesOthers, SubnetIsDisjoint, ForeignControlBucketKept
=============================================================================
