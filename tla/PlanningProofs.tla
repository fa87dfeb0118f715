--------------------------- MODULE PlanningProofs ---------------------------
(***************************************************************************)
(* Proofs about what happens before a workflow runs: the execution gate,   *)
(* the handoff of the bootstrap plan, and the pauses between the attempts  *)
(* of a step.  For any plans, contracts, inventories, policies, clock      *)
(* bounds and widths of an address.                                        *)
(***************************************************************************)
EXTENDS ExecutionGate, PlanHandoff, RetrySchedule, FiniteSetTheorems, WellFoundedInduction, TLAPS

----------------------------------------------------------------------------
(* Induction over the naturals, from the library's well-founded relations *)

Below == {p \in Nat \X Nat : p[1] < p[2]}

LEMMA AllNaturals ==
    ASSUME NEW S \in SUBSET Nat, 0 \in S, \A n \in S : n + 1 \in S
    PROVE  S = Nat
<1>. SUFFICES ASSUME Nat \ S # {}
              PROVE  FALSE
  OBVIOUS
<1>1. IsWellFoundedOn(Below, Nat)
  <2>1. Below = OpToRel(<, Nat)
    BY DEF Below, OpToRel
  <2>. QED
    BY <2>1, NatLessThanWellFounded
<1>2. PICK n \in Nat \ S : \A m \in Nat \ S : <<m, n>> \notin Below
  BY <1>1, WFMin
<1>3. n # 0 /\ n - 1 \in Nat /\ n - 1 < n
  BY <1>2
<1>4. n - 1 \in S
  BY <1>2, <1>3 DEF Below
<1>5. (n - 1) + 1 \in S
  BY <1>4
<1>. QED
  BY <1>2, <1>3, <1>5


----------------------------------------------------------------------------
(* Quotients, and the powers of two *)

LEMMA DivMod ==
    ASSUME NEW a \in Nat, NEW b \in Nat \ {0}
    PROVE  \E d \in Nat, r \in 0..(b - 1) : d = a \div b /\ r = a % b /\ a = b * d + r
<1>1. PICK d \in Nat : d = a \div b
  OBVIOUS
<1>2. PICK r \in 0..(b - 1) : r = a % b
  OBVIOUS
<1>3. a % b = a - b * (a \div b)
  BY SMTT(60)
<1>4. PICK m \in Nat : m = b * d
  OBVIOUS
<1>5. r = a - m
  BY <1>1, <1>2, <1>3, <1>4
<1>6. a = m + r
  BY <1>5
<1>. QED
  BY <1>1, <1>2, <1>4, <1>6

\* What is a number of whole parts ahead differs by the parts.
LEMMA PartsAhead ==
    ASSUME NEW b \in Nat \ {0}, NEW d \in Nat, NEW q \in Nat, d < q
    PROVE  b * d + b <= b * q
<1>1. PICK k \in Nat : q = d + k + 1
  <2>1. q - d - 1 \in Nat /\ q = d + (q - d - 1) + 1
    OBVIOUS
  <2>. QED
    BY <2>1
<1>2. b * q = b * d + b * k + b
  BY <1>1
<1>3. b * k \in Nat /\ b * d \in Nat
  OBVIOUS
<1>. QED
  BY <1>2, <1>3

LEMMA Quotient ==
    ASSUME NEW a \in Nat, NEW b \in Nat \ {0}, NEW q \in Nat, b * q <= a, a < b * q + b
    PROVE  a \div b = q
<1>1. PICK d \in Nat, r \in 0..(b - 1) : d = a \div b /\ a = b * d + r
  BY DivMod
<1>2. b * d <= a /\ a < b * d + b /\ b * d \in Nat /\ b * q \in Nat
  BY <1>1
<1>3. ~(d < q)
  BY <1>2, PartsAhead
<1>4. ~(q < d)
  BY <1>2, PartsAhead
<1>. QED
  BY <1>1, <1>3, <1>4

\* The whole parts of a multiple are whole parts of the parts.
LEMMA NestedQuotient ==
    ASSUME NEW a \in Nat, NEW b \in Nat \ {0}, NEW k \in Nat \ {0}
    PROVE  a \div (b * k) = (a \div b) \div k
<1>1. PICK d \in Nat, r \in 0..(b - 1) : d = a \div b /\ a = b * d + r
  BY DivMod
<1>2. PICK e \in Nat, s \in 0..(k - 1) : e = d \div k /\ d = k * e + s
  BY DivMod
<1>3. b * k \in Nat \ {0}
  OBVIOUS
<1>4. a = (b * k) * e + (b * s + r)
  <2>1. b * d = b * (k * e) + b * s
    BY <1>2
  <2>2. b * (k * e) = (b * k) * e
    OBVIOUS
  <2>3. b * s \in Nat /\ b * (k * e) \in Nat
    OBVIOUS
  <2>. QED
    BY <1>1, <2>1, <2>2, <2>3
<1>5. b * s + r \in Nat /\ b * s + r < b * k
  <2>1. b * s + b <= b * k /\ b * s \in Nat
    BY PartsAhead
  <2>. QED
    BY <1>3, <2>1
<1>6. (b * k) * e <= a /\ a < (b * k) * e + b * k
  <2>1. (b * k) * e \in Nat
    BY <1>3
  <2>. QED
    BY <1>3, <1>4, <1>5, <2>1
<1>7. a \div (b * k) = e
  BY <1>3, <1>6, Quotient
<1>. QED
  BY <1>1, <1>2, <1>7

Powers(f, n) == f = [k \in 0..n |-> IF k = 0 THEN 1 ELSE 2 * f[k - 1]]

\* There is a table of the powers up to each number.
LEMMA PowersExist == \A n \in Nat : \E f : Powers(f, n)
<1>. DEFINE S == {n \in Nat : \E f : Powers(f, n)}
<1>1. 0 \in S
  <2>. DEFINE f == [k \in 0..0 |-> 1]
  <2>1. f = [k \in 0..0 |-> IF k = 0 THEN 1 ELSE 2 * f[k - 1]]
    OBVIOUS
  <2>2. Powers(f, 0)
    BY <2>1 DEF Powers
  <2>. QED
    BY <2>2
<1>2. ASSUME NEW n \in S
      PROVE  n + 1 \in S
  <2>1. n \in Nat /\ n + 1 \in Nat
    OBVIOUS
  <2>2. PICK f : Powers(f, n)
    OBVIOUS
  <2>. DEFINE g == [k \in 0..(n + 1) |-> IF k <= n THEN f[k] ELSE 2 * f[n]]
  <2>3. \A k \in 0..(n + 1) : g[k] = IF k = 0 THEN 1 ELSE 2 * g[k - 1]
    <3>1. ASSUME NEW k \in 0..(n + 1)
          PROVE  g[k] = IF k = 0 THEN 1 ELSE 2 * g[k - 1]
      <4>1. k # 0 => k - 1 \in 0..n /\ k - 1 \in 0..(n + 1) /\ k - 1 <= n
        BY <2>1
      <4>2. k # 0 => g[k - 1] = f[k - 1]
        BY <4>1
      <4>3. CASE k <= n
        <5>1. k \in 0..n
          BY <2>1, <4>3
        <5>2. f[k] = IF k = 0 THEN 1 ELSE 2 * f[k - 1]
          BY <2>2, <5>1 DEF Powers
        <5>. QED
          BY <4>2, <4>3, <5>2
      <4>4. CASE ~(k <= n)
        <5>1. k # 0 /\ k - 1 = n
          BY <2>1, <4>4
        <5>. QED
          BY <4>2, <4>4, <5>1
      <4>. QED
        BY <4>3, <4>4
    <3>. QED
      BY <3>1
  <2>4. g = [k \in 0..(n + 1) |-> IF k = 0 THEN 1 ELSE 2 * g[k - 1]]
    BY <2>3
  <2>5. Powers(g, n + 1)
    BY <2>4 DEF Powers
  <2>. QED
    BY <2>1, <2>5
<1>3. S \in SUBSET Nat
  OBVIOUS
<1>. HIDE DEF S
<1>4. S = Nat
  BY <1>1, <1>2, <1>3, AllNaturals
<1>. QED
  BY <1>4 DEF S

LEMMA PowersAgree ==
    ASSUME NEW n \in Nat, NEW m \in Nat, n <= m, NEW f, Powers(f, n), NEW g, Powers(g, m)
    PROVE  \A k \in 0..n : f[k] = g[k]
<1>. DEFINE S == {k \in Nat : k \in 0..n => f[k] = g[k]}
<1>1. 0 \in S
  BY DEF Powers
<1>2. ASSUME NEW k \in S
      PROVE  k + 1 \in S
  <2>1. k \in Nat /\ k + 1 \in Nat /\ (k \in 0..n => f[k] = g[k])
    OBVIOUS
  <2>2. ASSUME k + 1 \in 0..n
        PROVE  f[k + 1] = g[k + 1]
    <3>1. k + 1 \in 0..m /\ (k + 1) - 1 = k /\ k + 1 # 0 /\ k \in 0..n
      BY <2>1, <2>2
    <3>2. f[k + 1] = 2 * f[k] /\ g[k + 1] = 2 * g[k]
      BY <2>2, <3>1 DEF Powers
    <3>. QED
      BY <2>1, <3>1, <3>2
  <2>. QED
    BY <2>1, <2>2
<1>3. S \in SUBSET Nat
  OBVIOUS
<1>. HIDE DEF S
<1>4. S = Nat
  BY <1>1, <1>2, <1>3, AllNaturals
<1>. QED
  BY <1>4 DEF S

\* The recursion of TwoTo has a solution: each power from its own table.
LEMMA TwoToUnfolds ==
    TwoTo = [n \in Nat |-> IF n = 0 THEN 1 ELSE 2 * TwoTo[n - 1]]
<1>. DEFINE P(n) == CHOOSE f : Powers(f, n)
            F == [n \in Nat |-> P(n)[n]]
<1>1. ASSUME NEW n \in Nat
      PROVE  Powers(P(n), n)
  BY PowersExist
<1>. HIDE DEF P
<1>2. ASSUME NEW n \in Nat
      PROVE  F[n] = IF n = 0 THEN 1 ELSE 2 * F[n - 1]
  <2>1. n \in 0..n /\ P(n)[n] = IF n = 0 THEN 1 ELSE 2 * P(n)[n - 1]
    BY <1>1 DEF Powers
  <2>2. ASSUME n # 0
        PROVE  P(n)[n - 1] = P(n - 1)[n - 1]
    <3>1. n - 1 \in Nat /\ n - 1 <= n /\ n - 1 \in 0..(n - 1)
      BY <2>2
    <3>2. Powers(P(n), n) /\ Powers(P(n - 1), n - 1)
      BY <1>1, <3>1
    <3>. QED
      BY <3>1, <3>2, PowersAgree
  <2>3. n # 0 => n - 1 \in Nat
    OBVIOUS
  <2>. QED
    BY <2>1, <2>2, <2>3
<1>3. F = [n \in Nat |-> IF n = 0 THEN 1 ELSE 2 * F[n - 1]]
  BY <1>2
<1>. HIDE DEF F
<1>4. \E f : f = [n \in Nat |-> IF n = 0 THEN 1 ELSE 2 * f[n - 1]]
  BY <1>3
<1>. QED
  BY <1>4 DEF TwoTo

LEMMA TwoToPositive ==
    /\ TwoTo[0] = 1
    /\ \A n \in Nat : TwoTo[n] \in Nat \ {0} /\ TwoTo[n + 1] = 2 * TwoTo[n]
<1>1. \A n \in Nat : TwoTo[n] = IF n = 0 THEN 1 ELSE 2 * TwoTo[n - 1]
  BY TwoToUnfolds
<1>2. TwoTo[0] = 1 /\ \A n \in Nat : TwoTo[n + 1] = 2 * TwoTo[n]
  <2>1. \A n \in Nat : n + 1 \in Nat /\ n + 1 # 0 /\ (n + 1) - 1 = n
    OBVIOUS
  <2>. QED
    BY <1>1, <2>1
<1>. DEFINE S == {n \in Nat : TwoTo[n] \in Nat \ {0}}
<1>3. 0 \in S
  BY <1>2
<1>4. ASSUME NEW n \in S
      PROVE  n + 1 \in S
  BY <1>2
<1>5. S \in SUBSET Nat
  OBVIOUS
<1>. HIDE DEF S
<1>6. S = Nat
  BY <1>3, <1>4, <1>5, AllNaturals
<1>. QED
  BY <1>2, <1>6 DEF S

\* A smaller power divides a larger one.
LEMMA TwoToDivides ==
    ASSUME NEW m \in Nat, NEW n \in Nat, m <= n
    PROVE  \E k \in Nat \ {0} : TwoTo[n] = TwoTo[m] * k
<1>. DEFINE S == {j \in Nat : \E k \in Nat \ {0} : TwoTo[m + j] = TwoTo[m] * k}
<1>0. TwoTo[m] \in Nat \ {0}
  BY TwoToPositive
<1>1. 0 \in S
  <2>1. m + 0 = m /\ TwoTo[m] = TwoTo[m] * 1 /\ 1 \in Nat \ {0}
    BY <1>0
  <2>. QED
    BY <2>1
<1>2. ASSUME NEW j \in S
      PROVE  j + 1 \in S
  <2>1. PICK k \in Nat \ {0} : TwoTo[m + j] = TwoTo[m] * k
    OBVIOUS
  <2>2. m + j \in Nat /\ m + (j + 1) = (m + j) + 1
    OBVIOUS
  <2>3. TwoTo[m + (j + 1)] = 2 * TwoTo[m + j]
    BY <2>2, TwoToPositive
  <2>4. PICK t \in Nat \ {0} : t = TwoTo[m]
    BY <1>0
  <2>5. 2 * (t * k) = t * (2 * k) /\ 2 * k \in Nat \ {0}
    OBVIOUS
  <2>6. TwoTo[m + (j + 1)] = TwoTo[m] * (2 * k)
    BY <2>1, <2>3, <2>4, <2>5
  <2>. QED
    BY <2>5, <2>6
<1>3. S \in SUBSET Nat
  OBVIOUS
<1>. HIDE DEF S
<1>4. S = Nat
  BY <1>1, <1>2, <1>3, AllNaturals
<1>5. n - m \in Nat /\ m + (n - m) = n
  OBVIOUS
<1>6. n - m \in S
  BY <1>4, <1>5
<1>7. \E k \in Nat \ {0} : TwoTo[m + (n - m)] = TwoTo[m] * k
  BY <1>6 DEF S
<1>. QED
  BY <1>5, <1>7

----------------------------------------------------------------------------
(* Address prefixes *)

LEMMA SizeOf ==
    ASSUME AddressAssumption, NEW p \in AddressPrefixes
    PROVE  /\ PrefixSize(p) \in Nat \ {0} /\ p.address \in Nat
           /\ p.bits \in Nat /\ AddressWidth - p.bits \in Nat
<1>1. AddressWidth \in Nat /\ p.bits \in 0..AddressWidth /\ p.address \in Nat
  BY TwoToPositive DEF AddressAssumption, AddressPrefixes
<1>2. AddressWidth - p.bits \in Nat
  BY <1>1
<1>. QED
  BY <1>1, <1>2, TwoToPositive DEF PrefixSize

\* Addresses that agree on the bits of a long prefix agree on those of a short one.
LEMMA WiderPrefix ==
    ASSUME AddressAssumption, NEW p \in AddressPrefixes, NEW q \in AddressPrefixes,
           p.bits <= q.bits, NEW a \in Nat, NEW b \in Nat,
           a \div PrefixSize(q) = b \div PrefixSize(q)
    PROVE  a \div PrefixSize(p) = b \div PrefixSize(p)
<1>1. AddressWidth - q.bits \in Nat /\ AddressWidth - p.bits \in Nat
      /\ AddressWidth - q.bits <= AddressWidth - p.bits
  BY SizeOf DEF AddressAssumption
<1>2. PICK k \in Nat \ {0} : PrefixSize(p) = PrefixSize(q) * k
  BY <1>1, TwoToDivides DEF PrefixSize
<1>3. PrefixSize(q) \in Nat \ {0}
  BY SizeOf
<1>4. PICK s \in Nat \ {0} : s = PrefixSize(q)
  BY <1>3
<1>5. a \div (s * k) = (a \div s) \div k /\ b \div (s * k) = (b \div s) \div k
  BY NestedQuotient
<1>. QED
  BY <1>2, <1>4, <1>5

\* A prefix contains the addresses that agree with it, and if it has no other
\* bits it contains all of them.
LEMMA ContainsAgrees ==
    ASSUME AddressAssumption, NEW p \in AddressPrefixes, NEW b \in Nat
    PROVE  /\ PrefixContains(p, b) => b \div PrefixSize(p) = p.address \div PrefixSize(p)
           /\ Masked(p) /\ b \div PrefixSize(p) = p.address \div PrefixSize(p)
                => PrefixContains(p, b)
<1>1. PICK s \in Nat \ {0} : s = PrefixSize(p)
  BY SizeOf
<1>2. PICK x \in Nat : x = p.address
  BY SizeOf
<1>3. PICK d \in Nat, r \in 0..(s - 1) : d = b \div s /\ r = b % s /\ b = s * d + r
  BY DivMod
<1>4. PICK e \in Nat, t \in 0..(s - 1) : e = x \div s /\ t = x % s /\ x = s * e + t
  BY DivMod
<1>5. s * d \in Nat /\ s * e \in Nat
  OBVIOUS
<1>6. ASSUME PrefixContains(p, b)
      PROVE  d = e
  <2>1. b - r = x
    BY <1>1, <1>2, <1>3, <1>6 DEF PrefixContains
  <2>2. x = s * d
    BY <1>3, <1>5, <2>1
  <2>3. s * d <= x /\ x < s * d + s
    BY <1>5, <2>2
  <2>. QED
    BY <1>4, <2>3, Quotient
<1>7. ASSUME Masked(p), d = e
      PROVE  PrefixContains(p, b)
  <2>1. t = 0
    BY <1>1, <1>2, <1>4, <1>7 DEF Masked
  <2>2. b - r = x
    BY <1>3, <1>4, <1>5, <1>7, <2>1
  <2>. QED
    BY <1>1, <1>2, <1>3, <2>2 DEF PrefixContains
<1>. QED
  BY <1>1, <1>2, <1>3, <1>4, <1>6, <1>7

\* Two ranges with an address in common overlap.
LEMMA OverlapFound ==
    ASSUME AddressAssumption, NEW p \in AddressPrefixes, NEW q \in AddressPrefixes,
           Masked(p), Masked(q), NEW a \in Nat,
           a \div PrefixSize(p) = p.address \div PrefixSize(p),
           a \div PrefixSize(q) = q.address \div PrefixSize(q)
    PROVE  PrefixOverlaps(p, q)
<1>1. /\ p.address \in Nat /\ q.address \in Nat /\ p.bits \in Nat /\ q.bits \in Nat
  BY SizeOf
<1>2. CASE p.bits <= q.bits
  <2>1. q.address \div PrefixSize(p) = p.address \div PrefixSize(p)
    BY <1>1, <1>2, WiderPrefix
  <2>. QED
    BY <1>1, <1>2, <2>1, ContainsAgrees DEF PrefixOverlaps
<1>3. CASE ~(p.bits <= q.bits)
  <2>1. q.bits <= p.bits
    BY <1>1, <1>3
  <2>2. p.address \div PrefixSize(q) = q.address \div PrefixSize(q)
    BY <1>1, <2>1, WiderPrefix
  <2>. QED
    BY <1>1, <1>3, <2>2, ContainsAgrees DEF PrefixOverlaps
<1>. QED
  BY <1>2, <1>3

\* The addresses that agree with a prefix are no more than its size.
LEMMA BlockIsBounded ==
    ASSUME AddressAssumption, NEW p \in AddressPrefixes, NEW S \in SUBSET Nat,
           \A a \in S : a \div PrefixSize(p) = p.address \div PrefixSize(p)
    PROVE  Cardinality(S) \in Nat /\ Cardinality(S) <= PrefixSize(p)
<1>1. PICK s \in Nat \ {0} : s = PrefixSize(p)
  BY SizeOf
<1>2. PICK d \in Nat : d = p.address \div s
  <2>1. PICK x \in Nat : x = p.address
    BY SizeOf
  <2>. QED
    BY <2>1
<1>3. PICK low \in Nat : low = s * d
  OBVIOUS
<1>. DEFINE I == low..(low + s - 1)
<1>4. S \subseteq I
  <2>1. ASSUME NEW a \in S
        PROVE  a \in I
    <3>1. PICK e \in Nat, t \in 0..(s - 1) : e = a \div s /\ a = s * e + t
      BY DivMod
    <3>2. e = d
      BY <1>1, <1>2, <3>1
    <3>3. a = low + t
      BY <1>3, <3>1, <3>2
    <3>. QED
      BY <3>3
  <2>. QED
    BY <2>1
<1>5. IsFiniteSet(I) /\ Cardinality(I) = s
  <2>1. low \in Int /\ low + s - 1 \in Int /\ ~(low > low + s - 1)
        /\ (low + s - 1) - low + 1 = s
    OBVIOUS
  <2>. QED
    BY <2>1, FS_Interval
<1>. HIDE DEF I
<1>6. IsFiniteSet(S) /\ Cardinality(S) <= Cardinality(I)
  BY <1>4, <1>5, FS_Subset
<1>7. Cardinality(S) \in Nat
  BY <1>6, FS_CardinalityType
<1>. QED
  BY <1>1, <1>5, <1>6, <1>7

\* A longer prefix has fewer addresses.
LEMMA NarrowIsSmall ==
    ASSUME AddressAssumption, NEW p \in AddressPrefixes, p.bits >= NarrowBits
    PROVE  PrefixSize(p) <= TwoTo[AddressWidth - NarrowBits]
           /\ TwoTo[AddressWidth - NarrowBits] \in Nat
<1>1. /\ AddressWidth - p.bits \in Nat /\ AddressWidth - NarrowBits \in Nat
      /\ AddressWidth - p.bits <= AddressWidth - NarrowBits
  BY SizeOf DEF AddressAssumption
<1>2. PICK k \in Nat \ {0} : TwoTo[AddressWidth - NarrowBits] = PrefixSize(p) * k
  BY <1>1, TwoToDivides DEF PrefixSize
<1>3. PICK s \in Nat \ {0} : s = PrefixSize(p)
  BY SizeOf
<1>4. s * k \in Nat /\ s <= s * k
  <2>1. PICK j \in Nat : k = j + 1
    <3>1. k - 1 \in Nat /\ k = (k - 1) + 1
      OBVIOUS
    <3>. QED
      BY <3>1
  <2>2. s * k = s * j + s /\ s * j \in Nat
    BY <2>1
  <2>. QED
    BY <2>2
<1>. QED
  BY <1>2, <1>3, <1>4

----------------------------------------------------------------------------
(* Approval classes *)

\* The strongest of some approval classes is one of them, and no weaker than any.
LEMMA StrongestClass ==
    ASSUME NEW S \in SUBSET ApprovalClasses, NEW x \in S
    PROVE  Max(S) \in ApprovalClasses /\ Max(S) >= x
<1>1. \E m \in S : \A y \in S : m >= y
  <2>1. \A y \in S : y \in 0..5
    BY DEF ApprovalClasses
  <2>2. CASE 5 \in S
    BY <2>1, <2>2
  <2>3. CASE 5 \notin S /\ 4 \in S
    <3>1. \A y \in S : 4 >= y
      BY <2>1, <2>3
    <3>. QED
      BY <2>3, <3>1
  <2>4. CASE {4, 5} \cap S = {} /\ 3 \in S
    <3>1. \A y \in S : 3 >= y
      BY <2>1, <2>4
    <3>. QED
      BY <2>4, <3>1
  <2>5. CASE {3, 4, 5} \cap S = {} /\ 2 \in S
    <3>1. \A y \in S : 2 >= y
      BY <2>1, <2>5
    <3>. QED
      BY <2>5, <3>1
  <2>6. CASE {2, 3, 4, 5} \cap S = {} /\ 1 \in S
    <3>1. \A y \in S : 1 >= y
      BY <2>1, <2>6
    <3>. QED
      BY <2>6, <3>1
  <2>7. CASE {1, 2, 3, 4, 5} \cap S = {}
    <3>1. \A y \in S : y = 0
      BY <2>1, <2>7
    <3>2. x >= x
      BY <3>1
    <3>. QED
      BY <3>1
  <2>. QED
    BY <2>2, <2>3, <2>4, <2>5, <2>6, <2>7
<1>. QED
  BY <1>1 DEF Max, ApprovalClasses

----------------------------------------------------------------------------
(* The execution gate: its inductive invariant *)

Touched == {f \in Facts : touches(thePlan, f)}
Records == [plan : {plan, Stranger}, created : 1..now]
Looks == [at : 1..now, facts : SUBSET Touched]

\* A look that saw no drift was taken at an intact time.
GateInv ==
    /\ plan \in Plans /\ now \in 1..MaxTime
    /\ drifted \subseteq Touched /\ faults \in 0..MaxFaults[plan]
    /\ intact \subseteq 1..now
    /\ drifted = {} => now \in intact
    /\ approval = None \/ approval \in Records
    /\ login = None \/ login \in Records
    /\ look = None \/ look \in Looks
    /\ look # None /\ look.facts = {} => look.at \in intact
    /\ authorised = None \/ authorised = now

LEMMA GateStep ==
    ASSUME GateInv, [GateNext]_gateVars
    PROVE  GateInv'
<1>0. MaxFaults[plan] \in Nat /\ MaxTime \in Nat /\ now \in Nat
  BY GateAssumption, ClockAssumption DEF GateAssumption, ClockAssumption, GateInv
<1>1. CASE UNCHANGED gateVars
  BY <1>1 DEF gateVars, GateInv, Touched, Records, Looks, touches, thePlan
<1>2. ASSUME NEW f \in Facts, Drift(f)
      PROVE  GateInv'
  <2>1. UNCHANGED <<now, plan, approval, intent, look, login, authorised>>
    BY <1>2 DEF Drift
  <2>2. Touched' = Touched /\ Records' = Records /\ Looks' = Looks
    BY <2>1 DEF Touched, Records, Looks, touches, thePlan
  <2>3. drifted' \subseteq Touched
    BY <1>2 DEF Drift, GateInv, Touched
  <2>4. faults' \in 0..MaxFaults[plan]
    BY <1>0, <1>2 DEF Drift, GateInv
  <2>5. intact \subseteq intact' /\ intact' \subseteq 1..now
        /\ (drifted' = {} => now \in intact')
    BY <1>0, <1>2 DEF Drift, GateInv
  <2>. QED
    BY <2>1, <2>2, <2>3, <2>4, <2>5 DEF GateInv
<1>3. ASSUME NEW other \in {plan, Stranger}, CreateApproval(other) \/ LogIn(other)
      PROVE  GateInv'
  <2>1. UNCHANGED <<now, plan, drifted, look, authorised, intact>>
    BY <1>3 DEF CreateApproval, LogIn
  <2>2. Touched' = Touched /\ Records' = Records /\ Looks' = Looks
    BY <2>1 DEF Touched, Records, Looks, touches, thePlan
  <2>3. faults' \in 0..MaxFaults[plan]
    BY <1>0, <1>3 DEF CreateApproval, LogIn, Strange, GateInv
  <2>4. [plan |-> other, created |-> now] \in Records
    BY <1>0 DEF Records, GateInv
  <2>5. approval' = None \/ approval' \in Records
    BY <1>3, <2>4 DEF CreateApproval, LogIn, GateInv
  <2>6. login' = None \/ login' \in Records
    BY <1>3, <2>4 DEF CreateApproval, LogIn, GateInv
  <2>. QED
    BY <2>1, <2>2, <2>3, <2>5, <2>6 DEF GateInv
<1>4. ASSUME NEW field \in {"active", "sole"}, Reschedule(field)
      PROVE  GateInv'
  <2>1. UNCHANGED <<now, plan, drifted, approval, look, login, authorised, intact>>
    BY <1>4 DEF Reschedule
  <2>2. Touched' = Touched /\ Records' = Records /\ Looks' = Looks
    BY <2>1 DEF Touched, Records, Looks, touches, thePlan
  <2>3. faults' \in 0..MaxFaults[plan]
    BY <1>0, <1>4 DEF Reschedule, GateInv
  <2>. QED
    BY <2>1, <2>2, <2>3 DEF GateInv
<1>5. CASE Revalidate
  <2>1. /\ UNCHANGED <<now, plan, drifted, faults, approval, login, authorised, intact>>
        /\ look' = [at |-> now, facts |-> drifted]
    BY <1>5 DEF Revalidate
  <2>2. Touched' = Touched /\ Records' = Records /\ Looks' = Looks
    BY <2>1 DEF Touched, Records, Looks, touches, thePlan
  <2>3. look' \in Looks
    BY <1>0, <2>1 DEF Looks, GateInv
  <2>. QED
    BY <2>1, <2>2, <2>3 DEF GateInv
<1>6. CASE Check
  <2>1. /\ UNCHANGED <<now, plan, drifted, faults, approval, look, login, intact>>
        /\ authorised' = now
    BY <1>6 DEF Check
  <2>. QED
    BY <2>1 DEF GateInv, Touched, Records, Looks, touches, thePlan
<1>7. CASE GateTick
  <2>1. /\ UNCHANGED <<plan, drifted, faults, approval, look, login, authorised>>
        /\ authorised = None /\ now < MaxTime /\ now' = now + 1
    BY <1>7 DEF GateTick, Tick
  <2>2. Touched' = Touched /\ Records \subseteq Records' /\ Looks \subseteq Looks'
    BY <1>0, <2>1 DEF Touched, Records, Looks, touches, thePlan
  <2>3. intact \subseteq intact' /\ intact' \subseteq 1..now'
        /\ (drifted' = {} => now' \in intact')
    BY <1>0, <1>7, <2>1 DEF GateTick, GateInv
  <2>4. now' \in 1..MaxTime
    BY <1>0, <2>1 DEF GateInv
  <2>. QED
    BY <2>1, <2>2, <2>3, <2>4 DEF GateInv
<1>. QED
  BY <1>1, <1>2, <1>3, <1>4, <1>5, <1>6, <1>7 DEF GateNext

THEOREM GateInvariant == GateSpec => []GateInv
<1>1. ASSUME GateInit
      PROVE  GateInv
  <2>1. MaxTime \in Nat \ {0} /\ MaxFaults[plan] \in Nat /\ plan \in Plans
    BY <1>1, GateAssumption, ClockAssumption DEF GateInit, GateAssumption, ClockAssumption
  <2>. QED
    BY <1>1, <2>1 DEF GateInit, ClockInit, GateInv
<1>. QED
  BY <1>1, GateStep, PTL DEF GateSpec

\* The gate's state is well formed, and nothing it holds is from the future.
THEOREM GateTypeCorrect == GateSpec => []GateTypeOK
<1>1. ASSUME GateInv
      PROVE  GateTypeOK
  <2>1. now \in Nat
    BY <1>1, ClockAssumption DEF GateInv, ClockAssumption
  <2>2. look # None => look.at <= now /\ look.facts \subseteq Facts
    BY <1>1, <2>1 DEF GateInv, Looks, Touched
  <2>3. \A r \in {approval, login} \ {None} : r.plan \in {plan, Stranger} /\ r.created <= now
    BY <1>1, <2>1 DEF GateInv, Records
  <2>. QED
    BY <1>1, <2>2, <2>3 DEF GateInv, GateTypeOK, Touched
<1>. QED
  BY <1>1, GateInvariant, PTL

----------------------------------------------------------------------------
(* What a check that lets the plan through has seen *)

\* The gate lets the plan through at this moment.
Passes == look # None
          /\ ValidatePlanForExecution(thePlan, Evidence(look, approval, login, intent, now),
                                      theContract)

\* The evidence is the look's reading and the records as they are.
LEMMA EvidenceFields ==
    ASSUME NEW l, NEW a, NEW g, NEW i, NEW t
    PROVE  LET e == Evidence(l, a, g, i, t)
           IN  /\ e.checked = t /\ e.approval = Held(a) /\ e.login = Held(g) /\ e.intent = i
               /\ e.look.plan = thePlan /\ e.look.at = l.at
               /\ e.look.resources = readResources(thePlan, l.facts)
               /\ e.look.permissions = PermissionChecks(thePlan, l.facts)
               /\ e.look.preconditions =
                      {changed(c, "ok", c.ok /\ "precondition" \notin l.facts) :
                           c \in thePlan.preconditions}
               /\ e.look.policy = IF "policy" \in l.facts
                                  THEN changed(thePlan.policy, "approved", None)
                                  ELSE thePlan.policy
               /\ e.look.assets = IF "asset" \in l.facts THEN {} ELSE thePlan.assets
BY DEF Evidence, Reading

LEMMA NoBlocker ==
    ASSUME NEW kind, NEW holds \in BOOLEAN, Block(kind, holds) = {}
    PROVE  ~holds
BY DEF Block

\* Each part of ValidatePlanForExecution blocks nothing.
LEMMA PassesParts ==
    ASSUME NEW p, NEW e, NEW c, ValidatePlanForExecution(p, e, c)
    PROVE  /\ e.checked < p.expires /\ validatePlanStructure(p)
           /\ TimeBlockers(p, e) = {} /\ validateExecutionContract(p, c) = {}
           /\ validateExposureExecutionTime(p, e.checked) = {}
           /\ approvalBlockers(p, e, c) = {} /\ validateIntentEvidence(p, e) = {}
           /\ validatePolicyEvidence(p, e) = {} /\ validatePreconditionEvidence(p, e) = {}
           /\ validateResourceEvidence(p, e) = {} /\ validateRecoveryEvidence(p, e) = {}
           /\ validateGrantEvidence(p, e) = {}
           /\ Block("step-up", p.stepUp # wantStepUp(p, c)) = {}
           /\ validateStepUpEvidence(p, e) = {}
<1>. DEFINE x1 == TimeBlockers(p, e)
            x2 == Block("plan-binding", e.look.plan # p)
            x3 == validateExecutionContract(p, c)
            x4 == validateExposureExecutionTime(p, e.checked)
            x5 == approvalBlockers(p, e, c)
            x6 == validateIntentEvidence(p, e)
            x7 == validatePolicyEvidence(p, e)
            x8 == validatePreconditionEvidence(p, e)
            x9 == validateResourceEvidence(p, e)
            y1 == validateRecoveryEvidence(p, e)
            y2 == validateGrantEvidence(p, e)
            y3 == Block("step-up", p.stepUp # wantStepUp(p, c))
            y4 == validateStepUpEvidence(p, e)
<1>1. x1 \cup x2 \cup x3 \cup x4 \cup x5 \cup x6 \cup x7 \cup x8 \cup x9
          \cup y1 \cup y2 \cup y3 \cup y4 = {}
  BY DEF ValidatePlanForExecution, ExecutionBlockers
<1>2. e.checked < p.expires /\ validatePlanStructure(p)
  BY DEF ValidatePlanForExecution
<1>. HIDE DEF x1, x2, x3, x4, x5, x6, x7, x8, x9, y1, y2, y3, y4
<1>3. /\ x1 = {} /\ x3 = {} /\ x4 = {} /\ x5 = {} /\ x6 = {} /\ x7 = {} /\ x8 = {} /\ x9 = {}
      /\ y1 = {} /\ y2 = {} /\ y3 = {} /\ y4 = {}
  BY <1>1
<1>. QED
  BY <1>2, <1>3 DEF x1, x3, x4, x5, x6, x7, x8, x9, y1, y2, y3, y4

\* A look that the gate accepts saw nothing that had drifted.
LEMMA LookWasIntact ==
    ASSUME GateInv, Passes
    PROVE  look.facts = {}
<1>. DEFINE p == thePlan
            F == look.facts
            e == Evidence(look, approval, login, intent, now)
            c == theContract
<1>1. PlanTyped(p) /\ F \subseteq Facts /\ \A f \in F : touches(p, f)
  BY GateAssumption DEF GateAssumption, GateInv, Passes, Looks, Touched, thePlan
<1>2. ValidatePlanForExecution(p, e, c)
  BY DEF Passes
<1>3. /\ validatePolicyEvidence(p, e) = {} /\ validatePreconditionEvidence(p, e) = {}
      /\ validateResourceEvidence(p, e) = {} /\ validateRecoveryEvidence(p, e) = {}
      /\ validateGrantEvidence(p, e) = {}
      /\ validatePlanStructure(p)
  BY <1>2, PassesParts
<1>4. /\ e.look.resources = p.resources /\ e.look.assets = p.assets
      /\ e.look.permissions = p.permissions /\ \A g \in p.permissions : g.granted
      /\ e.look.preconditions = p.preconditions /\ \A x \in p.preconditions : x.ok
      /\ e.look.policy = p.policy /\ p.policy.match
  BY <1>3, Zenon DEF validatePolicyEvidence, validatePreconditionEvidence,
     validateResourceEvidence, validateRecoveryEvidence, validateGrantEvidence, Block
<1>11. readResources(p, F) = p.resources
  BY <1>4, EvidenceFields
<1>5. "resource" \notin F
  <2>1. SUFFICES ASSUME "resource" \in F PROVE FALSE
    OBVIOUS
  <2>2. PICK r \in p.resources : TRUE
    BY <1>1, <2>1 DEF touches
  <2>3. changed(r, "print", None) \in p.resources
    <3>1. {changed(x, "print", None) : x \in p.resources} = p.resources
      BY <1>11, <2>1 DEF readResources
    <3>. HIDE DEF p
    <3>. QED
      BY <2>2, <3>1
  <2>4. changed(r, "print", None)["print"] = None
    BY <1>1 DEF changed, PlanTyped
  <2>. QED
    BY <1>1, <2>3, <2>4 DEF PlanTyped
<1>6. "unread" \notin F
  <2>1. SUFFICES ASSUME "unread" \in F PROVE FALSE
    OBVIOUS
  <2>2. p.resources # {}
    BY <1>1, <2>1 DEF touches
  <2>3. p.resources \ {CHOOSE r \in p.resources : TRUE} = p.resources
    BY <1>11, <1>5, <2>1 DEF readResources
  <2>. HIDE DEF p
  <2>4. (CHOOSE r \in p.resources : TRUE) \in p.resources
    BY <2>2
  <2>. QED
    BY <2>3, <2>4
<1>7. "permission" \notin F
  <2>1. SUFFICES ASSUME "permission" \in F PROVE FALSE
    OBVIOUS
  <2>2. PICK g \in p.permissions : TRUE
    BY <1>1, <2>1 DEF touches
  <2>. DEFINE h == changed(g, "granted", g.granted /\ "permission" \notin F)
  <2>3. h \in p.permissions
    BY <1>4, <2>1, EvidenceFields DEF PermissionChecks
  <2>4. h.granted = FALSE
    <3>1. (g.granted /\ "permission" \notin F) = FALSE
      BY <2>1
    <3>2. "granted" \in DOMAIN g
      BY <1>1 DEF PlanTyped
    <3>. QED
      BY <3>1, <3>2 DEF changed
  <2>. QED
    BY <1>4, <2>3, <2>4
<1>8. "precondition" \notin F
  <2>1. SUFFICES ASSUME "precondition" \in F PROVE FALSE
    OBVIOUS
  <2>2. PICK x \in p.preconditions : TRUE
    BY <1>1, <2>1 DEF touches
  <2>. DEFINE h == changed(x, "ok", x.ok /\ "precondition" \notin F)
  <2>3. h \in p.preconditions
    BY <1>4, <2>1, EvidenceFields
  <2>4. h.ok = FALSE
    <3>1. (x.ok /\ "precondition" \notin F) = FALSE
      BY <2>1
    <3>2. "ok" \in DOMAIN x
      BY <1>1 DEF PlanTyped
    <3>. QED
      BY <3>1, <3>2 DEF changed
  <2>. QED
    BY <1>4, <2>3, <2>4
<1>9. "policy" \notin F
  <2>1. SUFFICES ASSUME "policy" \in F PROVE FALSE
    OBVIOUS
  <2>2. changed(p.policy, "approved", None) = p.policy
    BY <1>4, <2>1, EvidenceFields
  <2>3. p.policy.approved = None
    BY <1>1, <2>2 DEF changed, PlanTyped
  <2>4. p.policy.local # None /\ p.policy.local = p.policy.approved
    BY <1>3, <1>4 DEF validatePlanStructure, validatePolicyHash
  <2>. QED
    BY <2>3, <2>4
<1>10. "asset" \notin F
  BY <1>1, <1>4, EvidenceFields DEF touches
<1>. QED
  BY <1>1, <1>5, <1>6, <1>7, <1>8, <1>9, <1>10 DEF Facts

\* Times of the look: not before the plan, not in the future, not long ago.
LEMMA LookInTime ==
    ASSUME GateInv, Passes
    PROVE  /\ now \in Nat /\ thePlan.created \in Nat /\ thePlan.cooling \in Nat
           /\ look.at \in intact /\ look.at \in Nat
           /\ thePlan.created <= look.at /\ look.at <= now
           /\ now - look.at <= Freshness
<1>1. now \in Nat /\ PlanTyped(thePlan)
  BY GateAssumption, ClockAssumption
     DEF GateAssumption, ClockAssumption, GateInv, thePlan
<1>2. look \in Looks /\ look # None
  BY DEF Passes, GateInv
<1>3. look.at \in 1..now
  BY <1>2 DEF Looks
<1>4. look.at \in intact
  BY <1>2, LookWasIntact DEF GateInv
<1>5. TimeBlockers(thePlan, Evidence(look, approval, login, intent, now)) = {}
  BY PassesParts DEF Passes
<1>6. /\ ~(look.at > now) /\ ~(look.at < thePlan.created)
      /\ ~(now - look.at > Freshness)
  BY <1>5, EvidenceFields DEF TimeBlockers, Block
<1>. QED
  BY <1>1, <1>3, <1>4, <1>6, GateAssumption DEF PlanTyped, GateAssumption

\* A record that is there is not taken for an absent one.
LEMMA HeldRecord ==
    ASSUME GateInv, NEW r \in Records, r # None
    PROVE  /\ Held(r) # None
           /\ Held(r).plan = PlanOf[r.plan] /\ Held(r).created = r.created
           /\ r.created \in Nat /\ r.created <= now
           /\ PlanOf[r.plan] = thePlan => r.plan = plan
<1>1. /\ r.plan \in {plan, Stranger} /\ r.created \in 1..now
      /\ plan \in Plans /\ now \in 1..MaxTime /\ MaxTime \in Nat
  BY ClockAssumption DEF Records, GateInv, ClockAssumption
<1>2. r.created \in 1..MaxTime /\ r.created \in Nat /\ r.created <= now
  BY <1>1
<1>3. [plan |-> PlanOf[r.plan], created |-> r.created] # None
  BY <1>1, <1>2, GateAssumption DEF GateAssumption
<1>4. PlanOf[r.plan] = thePlan => r.plan = plan
  BY <1>1, GateAssumption DEF GateAssumption, thePlan
<1>. QED
  BY <1>2, <1>3, <1>4 DEF Held

\* An approval that is there is this plan's, and cooled off before the look.
LEMMA ApprovalSeen ==
    ASSUME GateInv, Passes, approval # None
    PROVE  /\ approval.plan = plan /\ approval.created \in Nat
           /\ approval.created + thePlan.cooling <= look.at
           /\ thePlan.intent # None => ~(approval.created < thePlan.intent.start)
<1>. DEFINE e == Evidence(look, approval, login, intent, now)
<1>1. approval \in Records
  BY DEF GateInv
<1>2. /\ Held(approval) # None /\ Held(approval).plan = PlanOf[approval.plan]
      /\ Held(approval).created = approval.created /\ approval.created \in Nat
      /\ PlanOf[approval.plan] = thePlan => approval.plan = plan
  BY <1>1, HeldRecord
<1>3. approvalBlockers(thePlan, e, theContract) = {}
  BY PassesParts DEF Passes
<1>4. e.approval = Held(approval) /\ e.look.at = look.at
  BY EvidenceFields
<1>. HIDE DEF e
<1>5. validateApprovalEvidence(thePlan, e) = {}
  BY <1>2, <1>3, <1>4 DEF approvalBlockers, Block
<1>6. /\ e.approval.plan = thePlan
      /\ ~(e.look.at < e.approval.created + thePlan.cooling)
      /\ thePlan.intent # None => ~(e.approval.created < thePlan.intent.start)
  BY <1>2, <1>4, <1>5 DEF validateApprovalEvidence, Block
<1>. QED
  BY <1>2, <1>4, <1>6, LookInTime

\* What mutates or is scheduled has an approval.
LEMMA ApprovalNeeded ==
    ASSUME GateInv, Passes, mutationCapable(theContract) \/ thePlan.intent # None
    PROVE  approval # None
<1>. DEFINE e == Evidence(look, approval, login, intent, now)
<1>1. approvalBlockers(thePlan, e, theContract) = {}
  BY PassesParts DEF Passes
<1>2. e.approval = Held(approval)
  BY EvidenceFields
<1>. HIDE DEF e
<1>3. validateApprovalEvidence(thePlan, e) = {}
  BY <1>1 DEF approvalBlockers
<1>4. e.approval # None
  BY <1>3 DEF validateApprovalEvidence
<1>. QED
  BY <1>2, <1>4 DEF Held

LEMMA ReadyBeforeLook ==
    ASSUME GateInv, Passes
    PROVE  readyAt <= look.at
BY LookInTime, ApprovalSeen DEF readyAt

\* The plan is its contract's: same steps, and the permissions it asks for.
LEMMA ContractSeen ==
    ASSUME GateInv, Passes
    PROVE  /\ SameShape(thePlan, theContract)
           /\ \A i \in DOMAIN thePlan.steps :
                  StepMatches(thePlan, thePlan.steps[i], theContract.steps[i])
           /\ planMatchesExposureRequirement(thePlan, theContract)
           /\ ~(thePlan.approval < minimumApproval(theContract))
           /\ Image(thePlan.permissions, permissionKey)
                  = requiredPermissions(thePlan, theContract)
           /\ \A g \in thePlan.permissions : g.granted
           /\ \A x \in thePlan.preconditions : x.ok
<1>. DEFINE p == thePlan
            c == theContract
            e == Evidence(look, approval, login, intent, now)
<1>1. /\ validateExecutionContract(p, c) = {}
      /\ validatePreconditionEvidence(p, e) = {} /\ validateGrantEvidence(p, e) = {}
  BY PassesParts DEF Passes
<1>2. SameShape(p, c)
  BY <1>1 DEF validateExecutionContract
<1>3. /\ Block("execution-contract",
               \/ ~planMatchesExposureRequirement(p, c)
               \/ \E i \in DOMAIN p.steps : ~StepMatches(p, p.steps[i], c.steps[i])
               \/ p.approval < minimumApproval(c)
               \/ mutationCapable(c) /\ p.approval = Read) = {}
      /\ Block("permission", Image(p.permissions, permissionKey) # requiredPermissions(p, c))
             = {}
  BY <1>1, <1>2, Zenon DEF validateExecutionContract
<1>4. \A i \in DOMAIN p.steps : StepMatches(p, p.steps[i], c.steps[i])
  BY <1>3, Zenon DEF Block
<1>5. Image(p.permissions, permissionKey) = requiredPermissions(p, c)
  BY <1>3, Zenon DEF Block
<1>6. (\A g \in p.permissions : g.granted) /\ (\A x \in p.preconditions : x.ok)
  BY <1>1, Zenon DEF validatePreconditionEvidence, validateGrantEvidence, Block
<1>7. planMatchesExposureRequirement(p, c) /\ ~(p.approval < minimumApproval(c))
  BY <1>3, Zenon DEF Block
<1>. QED
  BY <1>2, <1>4, <1>5, <1>6, <1>7

----------------------------------------------------------------------------
(* What the runs check *)

\* The step that authorises is a check that passes; the others leave alone what
\* is authorised, or nothing is.
LEMMA AuthorisingStep ==
    ASSUME GateInv, [GateNext]_gateVars
    PROVE  \/ /\ Passes /\ authorised' = now
              /\ UNCHANGED <<now, plan, approval, intent, look, login, intact>>
           \/ UNCHANGED gateVars
           \/ authorised' = None
BY DEF GateNext, gateVars, Drift, CreateApproval, LogIn, Reschedule, Revalidate, Check,
   GateTick, Passes

\* A plan runs only on a world that was seen intact after its cooling-off and
\* not long ago, with every permission of its contract granted.
THEOREM RunsOnIntactWorld == GateSpec => []AuthorizedOnIntactWorld
<1>1. ASSUME GateInv, Passes
      PROVE  /\ \E m \in intact : readyAt <= m /\ m <= now /\ now - m <= Freshness
             /\ \A x \in thePlan.preconditions : x.ok
             /\ \A i \in DOMAIN theContract.steps :
                    /\ \A perm \in theContract.steps[i].permissions,
                          t \in thePlan.steps[i].targets :
                           \E g \in thePlan.permissions :
                               /\ g.step = thePlan.steps[i].id /\ g.permission = perm
                               /\ g.resource = t /\ g.granted
                    /\ theContract.steps[i].effect = "mutation" => approval # None
             /\ approval # None => approval.plan = plan
  <2>. DEFINE p == thePlan
              c == theContract
  <2>1. look.at \in intact /\ readyAt <= look.at /\ look.at <= now
        /\ now - look.at <= Freshness
    BY <1>1, LookInTime, ReadyBeforeLook
  <2>2. DOMAIN p.steps = DOMAIN c.steps
    BY <1>1, ContractSeen, GateAssumption
       DEF GateAssumption, GateInv, PlanTyped, IsList, SameShape, thePlan, theContract
  <2>3. ASSUME NEW i \in DOMAIN c.steps, NEW perm \in c.steps[i].permissions,
               NEW t \in p.steps[i].targets
        PROVE  \E g \in p.permissions :
                   /\ g.step = p.steps[i].id /\ g.permission = perm
                   /\ g.resource = t /\ g.granted
    <3>. DEFINE key == <<p.steps[i].id, p.steps[i].terms.identity, perm, t>>
    <3>1. key \in requiredPermissions(p, c)
      BY <2>2, <2>3 DEF requiredPermissions
    <3>2. key \in Image(p.permissions, permissionKey)
      BY <1>1, <3>1, ContractSeen
    <3>3. PICK g \in p.permissions : permissionKey(g) = key
      BY <3>2 DEF Image
    <3>. QED
      BY <1>1, <3>3, ContractSeen DEF permissionKey
  <2>4. ASSUME NEW i \in DOMAIN c.steps, c.steps[i].effect = "mutation"
        PROVE  approval # None
    BY <1>1, <2>4, ApprovalNeeded DEF mutationCapable, Range
  <2>. QED
    BY <1>1, <2>1, <2>3, <2>4, ContractSeen, ApprovalSeen
<1>2. ASSUME GateInv, AuthorizedOnIntactWorld, [GateNext]_gateVars
      PROVE  AuthorizedOnIntactWorld'
  <2>1. CASE UNCHANGED gateVars
    BY <1>2, <2>1 DEF gateVars, AuthorizedOnIntactWorld, readyAt, thePlan, theContract
  <2>2. CASE authorised' = None
    BY <2>2 DEF AuthorizedOnIntactWorld
  <2>3. CASE /\ Passes /\ authorised' = now
             /\ UNCHANGED <<now, plan, approval, intent, look, login, intact>>
    BY <1>1, <1>2, <2>3 DEF AuthorizedOnIntactWorld, readyAt, thePlan, theContract
  <2>. QED
    BY <1>2, <2>1, <2>2, <2>3, AuthorisingStep
<1>3. GateInit => AuthorizedOnIntactWorld
  BY DEF GateInit, AuthorizedOnIntactWorld
<1>. QED
  BY <1>2, <1>3, GateInvariant, PTL DEF GateSpec

\* In production a step that asks for a fresh login runs only after one for this
\* plan, made after the cooling-off and after a look at an intact world.
THEOREM LoginInProduction == GateSpec => []ProductionLogin
<1>1. ASSUME GateInv, Passes, thePlan.class = "production",
             \E s \in Range(theContract.steps) : s.stepUp
      PROVE  /\ login # None /\ login.plan = plan
             /\ now < login.created + LoginFreshness
             /\ \E m \in intact : readyAt <= m /\ m <= login.created
  <2>. DEFINE e == Evidence(look, approval, login, intent, now)
              p == thePlan
              c == theContract
  <2>1. /\ Block("step-up", p.stepUp # wantStepUp(p, c)) = {}
        /\ validateStepUpEvidence(p, e) = {}
    BY <1>1, PassesParts DEF Passes
  <2>2. wantStepUp(p, c) = TRUE
    BY <1>1, ContractSeen, Zenon DEF wantStepUp, requiresStepUp
  <2>3. p.stepUp = wantStepUp(p, c)
    BY <2>1, Zenon DEF Block
  <2>4. p.stepUp
    BY <2>2, <2>3
  <2>5. /\ e.login = Held(login) /\ e.look.at = look.at /\ e.checked = now
    BY EvidenceFields
  <2>. HIDE DEF e
  <2>6. e.login # None
    <3>1. SUFFICES ASSUME e.login = None PROVE FALSE
      OBVIOUS
    <3>2. Block("step-up", p.stepUp # (e.login # None)) = {}
      BY <2>1, <3>1 DEF validateStepUpEvidence
    <3>3. p.stepUp = (e.login # None)
      BY <3>2, Zenon DEF Block
    <3>. QED
      BY <2>4, <3>1, <3>3
  <2>7. login # None /\ login \in Records
    BY <1>1, <2>5, <2>6 DEF Held, GateInv
  <2>8. /\ Held(login).plan = PlanOf[login.plan] /\ Held(login).created = login.created
        /\ login.created \in Nat
        /\ PlanOf[login.plan] = thePlan => login.plan = plan
    BY <1>1, <2>7, HeldRecord
  <2>9. /\ e.login.plan = p /\ ~(e.login.created < e.look.at)
        /\ ~(e.checked - e.login.created >= LoginFreshness)
    BY <2>1, <2>4, <2>6, Zenon DEF validateStepUpEvidence, Block
  <2>10. now \in Nat /\ look.at \in Nat /\ look.at \in intact /\ readyAt <= look.at
         /\ LoginFreshness \in Nat
    BY <1>1, LookInTime, ReadyBeforeLook, GateAssumption DEF GateAssumption
  <2>11. readyAt \in Nat
    BY <1>1, LookInTime, ApprovalSeen DEF readyAt
  <2>12. now < login.created + LoginFreshness /\ look.at <= login.created
    BY <2>5, <2>8, <2>9, <2>10
  <2>13. readyAt <= login.created
    BY <2>8, <2>10, <2>11, <2>12
  <2>. QED
    BY <2>5, <2>7, <2>8, <2>9, <2>10, <2>12, <2>13
<1>2. ASSUME GateInv, ProductionLogin, [GateNext]_gateVars
      PROVE  ProductionLogin'
  <2>1. CASE UNCHANGED gateVars
    BY <1>2, <2>1 DEF gateVars, ProductionLogin, readyAt, thePlan, theContract
  <2>2. CASE authorised' = None
    BY <2>2 DEF ProductionLogin
  <2>3. CASE /\ Passes /\ authorised' = now
             /\ UNCHANGED <<now, plan, approval, intent, look, login, intact>>
    BY <1>1, <1>2, <2>3 DEF ProductionLogin, readyAt, thePlan, theContract
  <2>. QED
    BY <1>2, <2>1, <2>2, <2>3, AuthorisingStep
<1>3. GateInit => ProductionLogin
  BY DEF GateInit, ProductionLogin
<1>. QED
  BY <1>2, <1>3, GateInvariant, PTL DEF GateSpec

\* A scheduled plan is approved, cooled off, looked at and let through inside its
\* one window, on a live and unambiguous intent.
THEOREM ScheduledInOneWindow == GateSpec => []ScheduledRunInOneWindow
<1>1. ASSUME GateInv, Passes, thePlan.intent # None
      PROVE  /\ {approval.created, look.at, now}
                    \subseteq thePlan.intent.start..thePlan.intent.until
             /\ approval.created + thePlan.cooling \in thePlan.intent.start..look.at
             /\ intent.active /\ intent.sole
  <2>. DEFINE e == Evidence(look, approval, login, intent, now)
              p == thePlan
  <2>1. /\ now \in Nat /\ look.at \in Nat /\ look.at <= now
        /\ p.intent.start \in Nat /\ p.intent.until \in Nat /\ p.cooling \in Nat
    BY <1>1, LookInTime, GateAssumption DEF GateAssumption, GateInv, PlanTyped, thePlan
  <2>2. /\ approval.created \in Nat /\ approval.created + p.cooling <= look.at
        /\ ~(approval.created < p.intent.start)
    BY <1>1, ApprovalNeeded, ApprovalSeen
  <2>3. validateIntentEvidence(p, e) = {}
    BY <1>1, PassesParts DEF Passes
  <2>4. e.intent = intent /\ e.look.at = look.at /\ e.checked = now
    BY EvidenceFields
  <2>. HIDE DEF e
  <2>5. e.intent # None
    <3>1. SUFFICES ASSUME e.intent = None PROVE FALSE
      OBVIOUS
    <3>2. Block("intent", p.intent # e.intent) = {}
      BY <2>3, <3>1 DEF validateIntentEvidence
    <3>. QED
      BY <1>1, <3>1, <3>2, Zenon DEF Block
  <2>6. /\ e.intent.active /\ e.intent.sole
        /\ ~(e.checked < p.intent.start) /\ ~(e.checked > p.intent.until)
        /\ ~(e.look.at < p.intent.start) /\ ~(e.look.at > p.intent.until)
    BY <1>1, <2>3, <2>5, Zenon DEF validateIntentEvidence, Block
  <2>. QED
    BY <2>1, <2>2, <2>4, <2>6
<1>2. ASSUME GateInv, ScheduledRunInOneWindow, [GateNext]_gateVars
      PROVE  ScheduledRunInOneWindow'
  <2>1. CASE UNCHANGED gateVars
    BY <1>2, <2>1 DEF gateVars, ScheduledRunInOneWindow, thePlan
  <2>2. CASE authorised' = None
    BY <2>2 DEF ScheduledRunInOneWindow
  <2>3. CASE /\ Passes /\ authorised' = now
             /\ UNCHANGED <<now, plan, approval, intent, look, login, intact>>
    BY <1>1, <1>2, <2>3 DEF ScheduledRunInOneWindow, thePlan
  <2>. QED
    BY <1>2, <2>1, <2>2, <2>3, AuthorisingStep
<1>3. GateInit => ScheduledRunInOneWindow
  BY DEF GateInit, ScheduledRunInOneWindow
<1>. QED
  BY <1>2, <1>3, GateInvariant, PTL DEF GateSpec

----------------------------------------------------------------------------
(* What a plan that is let through destroys and opens *)

LEMMA PlanAndContract ==
    ASSUME GateInv
    PROVE  /\ PlanTyped(thePlan) /\ IsList(theContract.steps)
           /\ \A s \in Range(theContract.steps) : s.minimum \in ApprovalClasses
  BY GateAssumption DEF GateAssumption, GateInv, thePlan, theContract

LEMMA SameSteps ==
    ASSUME GateInv, Passes
    PROVE  DOMAIN thePlan.steps = DOMAIN theContract.steps
  BY ContractSeen, PlanAndContract DEF PlanTyped, IsList, SameShape

\* A recoverable step is approved as strongly as it asks, and its assets hold.
LEMMA ProtectedWhenLetThrough ==
    ASSUME GateInv, Passes, NEW i \in DOMAIN theContract.steps, theContract.steps[i].recovery
    PROVE  /\ thePlan.approval >= theContract.steps[i].minimum
           /\ \A t \in thePlan.steps[i].targets : \E a \in thePlan.assets :
                  /\ t \in a.protects
                  /\ \A s \in Range(thePlan.steps) : a.resource \notin s.targets
                  /\ a.kind = "snapshot" =>
                         now < a.verified + SnapshotAge + (thePlan.expires - thePlan.created)
                  /\ "asset" \notin look.facts
<1>. DEFINE p == thePlan
            c == theContract
            e == Evidence(look, approval, login, intent, now)
<1>1. PlanTyped(p)
  BY PlanAndContract
<1>2. now < p.expires /\ validatePlanStructure(p)
  <2>1. e.checked < p.expires /\ validatePlanStructure(p) /\ e.checked = now
    BY PassesParts, EvidenceFields DEF Passes
  <2>. QED
    BY <2>1
<1>3. p.approval >= c.steps[i].minimum
  <2>. DEFINE S == {s.minimum : s \in Range(c.steps)}
  <2>1. c.steps[i] \in Range(c.steps)
    BY DEF Range
  <2>2. S \in SUBSET ApprovalClasses /\ c.steps[i].minimum \in S
    BY <2>1, PlanAndContract
  <2>3. ~(p.approval < Max(S))
    BY ContractSeen DEF minimumApproval
  <2>. HIDE DEF S
  <2>4. Max(S) \in ApprovalClasses /\ Max(S) >= c.steps[i].minimum
    BY <2>2, StrongestClass
  <2>5. p.approval \in ApprovalClasses /\ c.steps[i].minimum \in ApprovalClasses
    BY <1>1, <2>2 DEF PlanTyped
  <2>. QED
    BY <2>3, <2>4, <2>5 DEF ApprovalClasses
<1>4. ASSUME NEW t \in p.steps[i].targets
      PROVE  \E a \in p.assets :
                 /\ t \in a.protects
                 /\ \A s \in Range(p.steps) : a.resource \notin s.targets
                 /\ a.kind = "snapshot" =>
                        now < a.verified + SnapshotAge + (p.expires - p.created)
                 /\ "asset" \notin look.facts
  <2>1. StepMatches(p, p.steps[i], c.steps[i])
    BY ContractSeen, SameSteps
  <2>2. PICK a \in p.assets : t \in a.protects
    BY <1>4, <2>1 DEF StepMatches
  <2>3. RecoveryAssetValid(p, a)
    BY <1>2 DEF validatePlanStructure, validateRecoveryAssets
  <2>4. ASSUME NEW s \in Range(p.steps), a.resource \in s.targets
        PROVE  FALSE
    <3>1. a.resource \in Targets(p)
      BY <2>4 DEF Targets
    <3>. QED
      BY <2>3, <3>1 DEF RecoveryAssetValid
  <2>5. ASSUME a.kind = "snapshot"
        PROVE  now < a.verified + SnapshotAge + (p.expires - p.created)
    <3>1. p.created - a.verified <= SnapshotAge
      BY <2>3, <2>5 DEF RecoveryAssetValid
    <3>2. /\ p.created \in Nat /\ p.expires \in Nat /\ a.verified \in Nat /\ SnapshotAge \in Nat
          /\ now \in Nat
      BY <1>1, LookInTime, AddressAssumption DEF PlanTyped, AddressAssumption
    <3>. QED
      BY <1>2, <3>1, <3>2
  <2>. QED
    BY <2>2, <2>4, <2>5, LookWasIntact
<1>. QED
  BY <1>3, <1>4

\* The addresses a prefix covers.
LEMMA CoveredBlock ==
    ASSUME NEW r \in AddressPrefixes
    PROVE  /\ Covered(r) \in SUBSET Nat
           /\ \A a \in Nat : a \in Covered(r) <=>
                  a \in Addresses /\ a \div PrefixSize(r) = r.address \div PrefixSize(r)
<1>1. TwoTo[AddressWidth] \in Nat
  BY AddressAssumption, TwoToPositive DEF AddressAssumption
<1>. QED
  BY <1>1 DEF Covered, Addresses

LEMMA PrivateIsPrivate ==
    ASSUME NEW r \in AddressPrefixes, whollyWithinRFC1918(r)
    PROVE  Covered(r) \subseteq UNION {Covered(n) : n \in PrivateNetworks}
<1>1. PICK n \in PrivateNetworks : r.bits >= n.bits /\ PrefixContains(n, r.address)
  BY DEF whollyWithinRFC1918
<1>2. n \in AddressPrefixes
  BY AddressAssumption DEF AddressAssumption
<1>3. r.address \in Nat /\ r.bits \in Nat /\ n.bits \in Nat /\ n.bits <= r.bits
  BY <1>1, <1>2, SizeOf, AddressAssumption
<1>4. r.address \div PrefixSize(n) = n.address \div PrefixSize(n)
  BY <1>1, <1>2, <1>3, ContainsAgrees, AddressAssumption
<1>5. ASSUME NEW a \in Covered(r)
      PROVE  a \in Covered(n)
  <2>1. a \in Nat /\ a \in Addresses /\ a \div PrefixSize(r) = r.address \div PrefixSize(r)
    BY CoveredBlock
  <2>2. a \div PrefixSize(n) = r.address \div PrefixSize(n)
    BY <1>2, <1>3, <2>1, WiderPrefix, AddressAssumption
  <2>. QED
    BY <1>2, <1>4, <2>1, <2>2, CoveredBlock
<1>. QED
  BY <1>1, <1>5

LEMMA NarrowIsBounded ==
    ASSUME NEW r \in AddressPrefixes, r.bits >= NarrowBits
    PROVE  Cardinality(Covered(r)) <= TwoTo[AddressWidth - NarrowBits]
<1>1. Covered(r) \in SUBSET Nat
      /\ \A a \in Covered(r) : a \div PrefixSize(r) = r.address \div PrefixSize(r)
  BY CoveredBlock
<1>2. Cardinality(Covered(r)) \in Nat /\ Cardinality(Covered(r)) <= PrefixSize(r)
  BY <1>1, BlockIsBounded, AddressAssumption
<1>3. /\ PrefixSize(r) <= TwoTo[AddressWidth - NarrowBits]
      /\ TwoTo[AddressWidth - NarrowBits] \in Nat /\ PrefixSize(r) \in Nat
  BY NarrowIsSmall, SizeOf, AddressAssumption
<1>. QED
  BY <1>2, <1>3

\* What a source of a plan that is let through reaches.
LEMMA SourceBounded ==
    ASSUME GateInv, Passes, thePlan.exposure # "none", NEW s \in thePlan.controls.sources
    PROVE  LET reach == IF s.range = None THEN {} ELSE Covered(s.range)
           IN  /\ thePlan.exposure = "private" =>
                      reach \subseteq UNION {Covered(n) : n \in PrivateNetworks}
               /\ thePlan.exposure = "tunnel" => reach \subseteq Covered(IAPSource)
               /\ thePlan.exposure = "external" =>
                      \/ Cardinality(reach) <= TwoTo[AddressWidth - NarrowBits]
                      \/ thePlan.controls.wide /\ thePlan.approval = DataDestructive
<1>. DEFINE p == thePlan
            c == thePlan.controls
            reach == IF s.range = None THEN {} ELSE Covered(s.range)
<1>1. validateExposureControls(p)
  BY PassesParts DEF Passes, validatePlanStructure
<1>2. /\ c # None /\ validExposureSource(s) /\ sourceAllowedForExposure(p.exposure, s.kind)
      /\ (c.wide <=> [kind |-> "cidr", range |-> Everywhere] \in c.sources)
      /\ validateExposureLifetime(p, c)
  BY <1>1 DEF validateExposureControls
<1>3. ControlsTyped(c)
  BY <1>2, PlanAndContract DEF PlanTyped
<1>4. s \in [kind : SourceKinds, range : AddressPrefixes \cup {None}]
  BY <1>3 DEF ControlsTyped
<1>5. s.range # None => s.range \in AddressPrefixes
  BY <1>4
<1>6. ASSUME p.exposure = "private"
      PROVE  reach \subseteq UNION {Covered(n) : n \in PrivateNetworks}
  <2>1. s.kind \in {"private-range", "tag", "service-account"}
    BY <1>2, <1>6 DEF sourceAllowedForExposure
  <2>2. CASE s.kind = "private-range"
    <3>1. whollyWithinRFC1918(s.range)
      BY <1>2, <2>2 DEF validExposureSource
    <3>. QED
      BY <1>5, <3>1, PrivateIsPrivate
  <2>3. CASE s.kind # "private-range"
    <3>1. s.range = None
      BY <1>2, <2>1, <2>3 DEF validExposureSource
    <3>. QED
      BY <3>1
  <2>. QED
    BY <2>2, <2>3
<1>7. ASSUME p.exposure = "tunnel"
      PROVE  reach \subseteq Covered(IAPSource)
  <2>1. s.kind \in {"iap", "tunnel"}
    BY <1>2, <1>7 DEF sourceAllowedForExposure
  <2>2. s.range = IAPSource \/ s.range = None
    BY <1>2, <2>1 DEF validExposureSource
  <2>. QED
    BY <2>2
<1>8. ASSUME p.exposure = "external"
      PROVE  \/ Cardinality(reach) <= TwoTo[AddressWidth - NarrowBits]
             \/ c.wide /\ p.approval = DataDestructive
  <2>1. s.kind = "cidr"
    BY <1>2, <1>8 DEF sourceAllowedForExposure
  <2>2. s.range.bits >= NarrowBits \/ s.range = Everywhere
    BY <1>2, <2>1 DEF validExposureSource
  <2>3. CASE s.range = None
    <3>1. Cardinality({}) = 0 /\ TwoTo[AddressWidth - NarrowBits] \in Nat
      <4>1. AddressWidth - NarrowBits \in Nat
        BY AddressAssumption DEF AddressAssumption
      <4>. QED
        BY <4>1, TwoToPositive, FS_EmptySet
    <3>. QED
      BY <2>3, <3>1
  <2>4. CASE s.range # None /\ s.range.bits >= NarrowBits
    BY <1>5, <2>4, NarrowIsBounded
  <2>5. CASE s.range = Everywhere
    <3>1. s = [kind |-> "cidr", range |-> Everywhere]
      BY <1>4, <2>1, <2>5
    <3>2. c.wide
      BY <1>2, <3>1
    <3>. QED
      BY <1>2, <3>2 DEF validateExposureLifetime
  <2>. QED
    BY <2>2, <2>3, <2>4, <2>5
<1>. QED
  BY <1>6, <1>7, <1>8

LEMMA BoundedWhenLetThrough ==
    ASSUME GateInv, Passes, thePlan.exposure # "none"
    PROVE  LET c == thePlan.controls
               declared == {i \in DOMAIN theContract.steps :
                               theContract.steps[i].exposure # None}
           IN  /\ c.targets = UNION {thePlan.steps[i].targets : i \in declared}
               /\ c.wide => \E i \in declared : theContract.steps[i].exposure.wide
               /\ \/ c.permanent /\ c.wide
                  \/ c.expires # None /\ now < c.expires
                  \/ c.review # None /\ now \div Day <= c.review \div Day
<1>. DEFINE p == thePlan
            c == thePlan.controls
            declared == {i \in DOMAIN theContract.steps : theContract.steps[i].exposure # None}
            e == Evidence(look, approval, login, intent, now)
<1>1. validateExposureControls(p) /\ validateExposureExecutionTime(p, now) = {}
  <2>1. validatePlanStructure(p) /\ validateExposureExecutionTime(p, e.checked) = {}
        /\ e.checked = now
    BY PassesParts, EvidenceFields DEF Passes
  <2>. QED
    BY <2>1 DEF validatePlanStructure
<1>2. c # None /\ validateExposureLifetime(p, c)
  BY <1>1 DEF validateExposureControls
<1>3. ControlsTyped(c)
  BY <1>2, PlanAndContract DEF PlanTyped
<1>4. planMatchesExposureRequirement(p, theContract)
  BY ContractSeen
<1>5. ContractExposures(theContract) # {}
  BY <1>4 DEF planMatchesExposureRequirement
<1>6. PICK r \in ContractExposures(theContract) :
          /\ c.wide = r.wide
          /\ c.targets = UNION {p.steps[i].targets :
                                   i \in {j \in DOMAIN p.steps :
                                             theContract.steps[j].exposure # None}}
  BY <1>4, <1>5 DEF planMatchesExposureRequirement
<1>7. c.targets = UNION {p.steps[i].targets : i \in declared}
  BY <1>6, SameSteps
<1>8. ASSUME c.wide
      PROVE  \E i \in declared : theContract.steps[i].exposure.wide
  <2>1. r.wide = TRUE /\ r # None
    BY <1>3, <1>6, <1>8 DEF ControlsTyped, ContractExposures
  <2>2. PICK i \in DOMAIN theContract.steps : theContract.steps[i].exposure = r
    BY DEF ContractExposures, Range
  <2>. QED
    BY <2>1, <2>2
<1>9. \/ c.permanent /\ c.wide
      \/ c.expires # None /\ now < c.expires
      \/ c.review # None /\ now \div Day <= c.review \div Day
  <2>1. CASE c.permanent
    BY <1>2, <2>1 DEF validateExposureLifetime
  <2>2. CASE ~c.permanent
    <3>1. /\ ~(c.expires # None /\ c.expires <= now)
          /\ ~(c.review # None /\ now \div Day > c.review \div Day)
      BY <1>1, <1>2, <2>2 DEF validateExposureExecutionTime, Block
    <3>2. c.expires # None \/ c.review # None
      BY <1>2, <2>2 DEF validateExposureLifetime
    <3>3. now \in Nat /\ Day \in Nat \ {0}
      BY LookInTime, GateAssumption DEF GateAssumption
    <3>4. CASE c.expires # None
      <4>1. c.expires \in Nat
        BY <1>3, <3>4 DEF ControlsTyped
      <4>. QED
        BY <3>1, <3>3, <3>4, <4>1
    <3>5. CASE c.review # None
      <4>1. c.review \in Nat
        BY <1>3, <3>5 DEF ControlsTyped
      <4>2. PICK x \in Nat, y \in Nat : x = now \div Day /\ y = c.review \div Day
        BY <3>3, <4>1
      <4>. QED
        BY <3>1, <3>5, <4>2
    <3>. QED
      BY <3>2, <3>4, <3>5
  <2>. QED
    BY <2>1, <2>2
<1>. QED
  BY <1>7, <1>8, <1>9

\* What the gate lets through destroys nothing it could not restore, and opens
\* no more addresses than were declared and approved, nor for longer: for any
\* plan and contract, and any width of an address.
THEOREM SafePlansOnly == GateSpec => []PlansAreSafe
<1>1. ASSUME GateInv, PlansAreSafe, [GateNext]_gateVars
      PROVE  PlansAreSafe'
  <2>1. CASE UNCHANGED gateVars
    BY <1>1, <2>1
       DEF gateVars, PlansAreSafe, DestructionIsProtected, ExposureIsBounded, thePlan, theContract
  <2>2. CASE authorised' = None
    BY <2>2 DEF PlansAreSafe, DestructionIsProtected, ExposureIsBounded
  <2>3. CASE /\ Passes /\ authorised' = now
             /\ UNCHANGED <<now, plan, approval, intent, look, login, intact>>
    <3>1. thePlan' = thePlan /\ theContract' = theContract /\ look' = look
      BY <2>3 DEF thePlan, theContract
    <3>2. DestructionIsProtected'
      BY <1>1, <2>3, <3>1, ProtectedWhenLetThrough DEF DestructionIsProtected
    <3>3. ExposureIsBounded'
      BY <1>1, <2>3, <3>1, SourceBounded, BoundedWhenLetThrough DEF ExposureIsBounded
    <3>. QED
      BY <3>2, <3>3 DEF PlansAreSafe
  <2>. QED
    BY <1>1, <2>1, <2>2, <2>3, AuthorisingStep
<1>2. GateInit => PlansAreSafe
  BY DEF GateInit, PlansAreSafe, DestructionIsProtected, ExposureIsBounded
<1>. QED
  BY <1>1, <1>2, GateInvariant, PTL DEF GateSpec

----------------------------------------------------------------------------
(* A plan that follows its contract to the letter *)

\* A typed plan that follows, to the letter, a contract the registry accepts.
Follower(p, c) ==
    /\ PlanTyped(p) /\ IsList(c.steps)
    /\ \A s \in Range(c.steps) : s.minimum \in ApprovalClasses
    /\ ContractValid(c) /\ FollowsToTheLetter(p, c)

LEMMA InDomain ==
    ASSUME NEW f
    PROVE  \A s \in Range(f) : \E i \in DOMAIN f : s = f[i]
  BY DEF Range

\* It has the steps of its contract, at least one, and is approved for each.
LEMMA FollowerSteps ==
    ASSUME NEW p, NEW c, Follower(p, c)
    PROVE  /\ DOMAIN p.steps = DOMAIN c.steps /\ DOMAIN p.steps # {}
           /\ \A s \in Range(p.steps) : \E i \in DOMAIN c.steps : s = p.steps[i]
           /\ \A s \in Range(c.steps) : \E i \in DOMAIN c.steps : s = c.steps[i]
           /\ \A i \in DOMAIN c.steps : p.steps[i] \in Range(p.steps) /\ c.steps[i] \in Range(c.steps)
           /\ p.approval \in ApprovalClasses
           /\ \A i \in DOMAIN c.steps :
                  /\ ContractStepValid(c.steps[i]) /\ p.approval >= c.steps[i].minimum
                  /\ c.steps[i].minimum \in ApprovalClasses
                  /\ p.steps[i].id = c.steps[i].id /\ p.steps[i].terms = c.steps[i].terms
                  /\ p.steps[i].targets # {} /\ p.steps[i].targets \subseteq p.resources
<1>1. /\ p.steps \in Seq(Range(p.steps)) /\ c.steps \in Seq(Range(c.steps))
      /\ Len(p.steps) = Len(c.steps) /\ c.steps # <<>>
  BY DEF Follower, PlanTyped, IsList, FollowsToTheLetter, TakesFromContract, SameShape,
         ContractValid
<1>2. /\ DOMAIN p.steps = 1..Len(p.steps) /\ DOMAIN c.steps = 1..Len(c.steps)
      /\ Len(c.steps) \in Nat /\ Len(c.steps) # 0
  BY <1>1
<1>3. DOMAIN p.steps = DOMAIN c.steps /\ DOMAIN p.steps # {}
  <2>1. 1 \in 1..Len(c.steps)
    BY <1>2
  <2>. QED
    BY <1>1, <1>2, <2>1
<1>4. /\ \A s \in Range(p.steps) : \E i \in DOMAIN c.steps : s = p.steps[i]
      /\ \A s \in Range(c.steps) : \E i \in DOMAIN c.steps : s = c.steps[i]
      /\ \A i \in DOMAIN c.steps : p.steps[i] \in Range(p.steps) /\ c.steps[i] \in Range(c.steps)
  BY <1>3 DEF Range
<1>5. p.approval \in ApprovalClasses
  BY DEF Follower, PlanTyped
<1>6. ASSUME NEW i \in DOMAIN c.steps
      PROVE  /\ ContractStepValid(c.steps[i]) /\ p.approval >= c.steps[i].minimum
             /\ c.steps[i].minimum \in ApprovalClasses
             /\ p.steps[i].id = c.steps[i].id /\ p.steps[i].terms = c.steps[i].terms
             /\ p.steps[i].targets # {} /\ p.steps[i].targets \subseteq p.resources
  <2>. DEFINE S == {s.minimum : s \in Range(c.steps)}
  <2>1. S \in SUBSET ApprovalClasses /\ c.steps[i].minimum \in S
    BY <1>4 DEF Follower
  <2>2. p.approval = Max(S)
    BY DEF Follower, FollowsToTheLetter, TakesFromContract, minimumApproval
  <2>. HIDE DEF S
  <2>3. p.approval >= c.steps[i].minimum /\ c.steps[i].minimum \in ApprovalClasses
    BY <2>1, <2>2, StrongestClass
  <2>4. /\ p.steps[i].id = c.steps[i].id /\ p.steps[i].terms = c.steps[i].terms
        /\ p.steps[i].targets # {}
    BY DEF Follower, FollowsToTheLetter, TakesFromContract
  <2>5. p.steps[i].targets \subseteq p.resources
    BY <1>4 DEF Follower, FollowsToTheLetter, ChosenWell, Targets
  <2>6. ContractStepValid(c.steps[i])
    BY DEF Follower, ContractValid
  <2>. QED
    BY <2>3, <2>4, <2>5, <2>6
<1>. QED
  BY <1>3, <1>4, <1>5, <1>6

\* Its steps seal.
LEMMA FollowerStepsValid ==
    ASSUME NEW p, NEW c, Follower(p, c)
    PROVE  validateSteps(p) /\ p.resources # {}
<1>1. {s.id : s \in Range(p.steps)} = {s.id : s \in Range(c.steps)}
  <2>1. ASSUME NEW s \in Range(p.steps)
        PROVE  \E t \in Range(c.steps) : t.id = s.id
    BY FollowerSteps
  <2>2. ASSUME NEW s \in Range(c.steps)
        PROVE  \E t \in Range(p.steps) : t.id = s.id
    BY FollowerSteps
  <2>. QED
    BY <2>1, <2>2
<1>2. Cardinality({s.id : s \in Range(p.steps)}) = Len(p.steps)
  BY <1>1 DEF Follower, ContractValid, FollowsToTheLetter, TakesFromContract, SameShape
<1>3. p.steps # <<>>
  BY FollowerSteps
<1>4. ASSUME NEW s \in Range(p.steps)
      PROVE  TermsValid(s.terms) /\ s.targets # {} /\ s.targets \subseteq p.resources
  <2>1. PICK i \in DOMAIN c.steps : s = p.steps[i]
    BY FollowerSteps
  <2>. QED
    BY <2>1, FollowerSteps DEF ContractStepValid
<1>5. /\ p.point # None => \E s \in Range(p.steps) : s.id = p.point
      /\ p.point = None <=> p.trigger = None
  <2>1. p.point = c.point /\ p.trigger = c.trigger
    BY DEF Follower, FollowsToTheLetter, TakesFromContract, SameShape
  <2>2. /\ c.point # None => \E s \in Range(c.steps) : s.id = c.point
        /\ c.point = None <=> c.trigger = None
    BY DEF Follower, ContractValid
  <2>3. ASSUME c.point # None
        PROVE  \E s \in Range(p.steps) : s.id = c.point
    <3>1. c.point \in {s.id : s \in Range(c.steps)}
      BY <2>2, <2>3
    <3>. QED
      BY <1>1, <3>1
  <2>. QED
    BY <2>1, <2>2, <2>3
<1>6. Targets(p) = p.resources
  BY DEF Follower, FollowsToTheLetter, ChosenWell
<1>7. p.resources # {}
  <2>1. PICK i \in DOMAIN c.steps : TRUE
    BY FollowerSteps
  <2>2. p.steps[i].targets # {} /\ p.steps[i].targets \subseteq p.resources
    BY FollowerSteps
  <2>. QED
    BY <2>2
<1>. QED
  BY <1>2, <1>3, <1>4, <1>5, <1>6, <1>7 DEF validateSteps

\* Its permissions name its steps and resources, and leave none out.
LEMMA FollowerPermissions ==
    ASSUME NEW p, NEW c, Follower(p, c)
    PROVE  validatePermissions(p)
<1>1. Image(p.permissions, permissionKey) = requiredPermissions(p, c)
  BY DEF Follower, FollowsToTheLetter, TakesFromContract
<1>2. ASSUME NEW g \in p.permissions
      PROVE  /\ \E s \in Range(p.steps) : s.id = g.step /\ s.terms.identity = g.identity
             /\ g.resource \in p.resources
  <2>1. permissionKey(g) \in requiredPermissions(p, c)
    BY <1>1 DEF Image
  <2>2. PICK i \in DOMAIN p.steps :
            permissionKey(g) \in {<<p.steps[i].id, p.steps[i].terms.identity, perm, t>> :
                                     perm \in c.steps[i].permissions, t \in p.steps[i].targets}
    BY <2>1 DEF requiredPermissions
  <2>3. PICK perm \in c.steps[i].permissions, t \in p.steps[i].targets :
            permissionKey(g) = <<p.steps[i].id, p.steps[i].terms.identity, perm, t>>
    BY <2>2
  <2>4. g.step = p.steps[i].id /\ g.identity = p.steps[i].terms.identity /\ g.resource = t
    BY <2>3 DEF permissionKey
  <2>5. i \in DOMAIN c.steps /\ p.steps[i] \in Range(p.steps) /\ t \in p.resources
    BY FollowerSteps
  <2>. QED
    BY <2>4, <2>5
<1>3. ASSUME NEW i \in DOMAIN c.steps, NEW t \in p.steps[i].targets
      PROVE  \E g \in p.permissions : g.step = p.steps[i].id /\ g.resource = t
  <2>1. PICK perm \in c.steps[i].permissions : TRUE
    BY FollowerSteps DEF ContractStepValid
  <2>2. <<p.steps[i].id, p.steps[i].terms.identity, perm, t>> \in requiredPermissions(p, c)
    BY FollowerSteps DEF requiredPermissions
  <2>3. PICK g \in p.permissions :
            permissionKey(g) = <<p.steps[i].id, p.steps[i].terms.identity, perm, t>>
    BY <1>1, <2>2 DEF Image
  <2>. QED
    BY <2>3 DEF permissionKey
<1>4. {s.id : s \in Range(p.steps)} \subseteq {g.step : g \in p.permissions}
  <2>1. ASSUME NEW i \in DOMAIN c.steps
        PROVE  \E g \in p.permissions : g.step = p.steps[i].id
    <3>1. PICK t \in p.steps[i].targets : TRUE
      BY FollowerSteps
    <3>. QED
      BY <1>3, <3>1
  <2>2. ASSUME NEW s \in Range(p.steps)
        PROVE  s.id \in {g.step : g \in p.permissions}
    <3>1. PICK i \in DOMAIN c.steps : s = p.steps[i]
      BY FollowerSteps
    <3>. QED
      BY <2>1, <3>1
  <2>. QED
    BY <2>2
<1>5. p.resources \subseteq {g.resource : g \in p.permissions}
  <2>1. ASSUME NEW t \in p.resources
        PROVE  \E g \in p.permissions : g.resource = t
    <3>1. t \in UNION {s.targets : s \in Range(p.steps)}
      BY DEF Follower, FollowsToTheLetter, ChosenWell, Targets
    <3>2. PICK s \in Range(p.steps) : t \in s.targets
      BY <3>1
    <3>3. PICK i \in DOMAIN c.steps : s = p.steps[i]
      BY FollowerSteps
    <3>. QED
      BY <1>3, <3>2, <3>3
  <2>. QED
    BY <2>1
<1>. QED
  BY <1>2, <1>4, <1>5 DEF validatePermissions

\* What it opens, if it opens anything, is approved as strongly as its contract asks.
LEMMA FollowerExposure ==
    ASSUME NEW p, NEW c, Follower(p, c)
    PROVE  validateExposureControls(p)
<1>. DEFINE o == p.controls
            exposed == {j \in DOMAIN p.steps : c.steps[j].exposure # None}
<1>0. \A s \in Range(c.steps) : \E i \in DOMAIN c.steps : s = c.steps[i]
  BY InDomain DEF Follower
<1>1. planMatchesExposureRequirement(p, c)
  BY DEF Follower, FollowsToTheLetter, TakesFromContract
<1>2. CASE ContractExposures(c) = {}
  <2>1. p.exposure = "none" /\ p.controls = None
    BY <1>1, <1>2 DEF planMatchesExposureRequirement
  <2>. QED
    BY <2>1 DEF validateExposureControls
<1>3. CASE ContractExposures(c) # {}
  <2>1. PICK r \in ContractExposures(c) :
            /\ p.exposure = r.delta /\ o # None /\ o.profile = r.profile /\ o.wide = r.wide
            /\ o.targets = UNION {p.steps[i].targets : i \in exposed}
    BY <1>1, <1>3 DEF planMatchesExposureRequirement
  <2>2. PICK k \in DOMAIN c.steps : c.steps[k].exposure = r /\ r # None
    <3>1. PICK s \in Range(c.steps) : s.exposure = r /\ r # None
      BY DEF ContractExposures
    <3>2. PICK i \in DOMAIN c.steps : s = c.steps[i]
      BY <1>0, <3>1
    <3>. QED
      BY <3>1, <3>2
  <2>3. k \in exposed /\ exposed \subseteq DOMAIN c.steps
    BY <2>2, FollowerSteps
  <2>4. o.targets # {} /\ o.targets \subseteq p.resources
    BY <2>1, <2>3, FollowerSteps
  <2>5. /\ c.steps[k].minimum >= SecuritySensitive /\ r.delta # "none"
        /\ r.wide => /\ r.delta = "external" /\ r.profile = "ACC-08"
                     /\ c.steps[k].minimum = DataDestructive
        /\ ~r.wide => r.profile # "ACC-08"
    BY <2>2, FollowerSteps DEF ContractStepValid, validateExecutionExposureRequirement
  <2>6. p.approval >= SecuritySensitive /\ (o.wide => p.approval = DataDestructive)
    <3>1. /\ p.approval \in 0..5 /\ c.steps[k].minimum \in 0..5
          /\ p.approval >= c.steps[k].minimum
      BY FollowerSteps DEF ApprovalClasses
    <3>. QED
      BY <2>1, <2>5, <3>1 DEF SecuritySensitive, DataDestructive
  <2>7. ControlsTyped(o)
    BY <2>1 DEF Follower, PlanTyped
  <2>8. /\ o.sources # {}
        /\ \A s \in o.sources :
               validExposureSource(s) /\ sourceAllowedForExposure(p.exposure, s.kind)
        /\ validExposureAuthentication(p.exposure, o.authentication)
        /\ validExposureTLS(p.exposure, o.trust)
        /\ [id |-> o.simulation, ok |-> TRUE] \in p.preconditions
        /\ o.wide <=> [kind |-> "cidr", range |-> Everywhere] \in o.sources
    BY <2>1 DEF Follower, FollowsToTheLetter, ChosenWell
  <2>9. /\ o.wide => o.review = None /\ (o.permanent <=> o.expires = None)
        /\ ~o.wide => ~o.permanent /\ (o.expires = None <=> o.review # None)
    BY <2>1, <2>7 DEF Follower, FollowsToTheLetter, ChosenWell
  <2>10. (o.expires # None => o.expires > p.created) /\ (o.review # None => o.review > p.created)
    <3>1. /\ p.created \in Nat /\ p.cooling \in Nat
          /\ p.intent # None => p.intent.start \in Nat
      BY DEF Follower, PlanTyped
    <3>2. earliest(p) \in Nat /\ p.created <= earliest(p)
      BY <3>1 DEF earliest
    <3>3. o.expires # None => o.expires \in Nat /\ earliest(p) + p.cooling < o.expires
      BY <2>1, <2>7 DEF ControlsTyped, Follower, FollowsToTheLetter, HasTime
    <3>4. o.review # None => o.review \in Nat /\ p.created < o.review
      BY <2>1, <2>7 DEF ControlsTyped, Follower, FollowsToTheLetter, HasTime
    <3>. QED
      BY <3>1, <3>2, <3>3, <3>4
  <2>11. validateExposureLifetime(p, o)
    <3>1. /\ o.wide => /\ o.profile = "ACC-08" /\ p.approval = DataDestructive
                       /\ o.permanent => o.expires = None /\ o.review = None
                       /\ ~o.permanent => o.expires # None /\ o.review = None
      BY <2>1, <2>5, <2>6, <2>7, <2>9 DEF ControlsTyped
    <3>2. ~o.wide => ~o.permanent /\ (o.expires # None) # (o.review # None)
      BY <2>9
    <3>. QED
      BY <2>10, <3>1, <3>2 DEF validateExposureLifetime
  <2>12. o.wide \/ o.profile # "ACC-08"
    BY <2>1, <2>5
  <2>13. p.exposure # "none"
    BY <2>1, <2>5
  <2>. QED
    BY <2>1, <2>4, <2>6, <2>8, <2>11, <2>12, <2>13 DEF validateExposureControls
<1>. QED
  BY <1>2, <1>3

\* The plan seals.
LEMMA FollowerSeals ==
    ASSUME NEW p, NEW c, Follower(p, c)
    PROVE  validatePlanStructure(p)
<1>0. \A s \in Range(c.steps) : \E i \in DOMAIN c.steps : s = c.steps[i]
  BY InDomain DEF Follower
<1>1. /\ p.created \in Nat /\ p.expires \in Nat /\ p.cooling \in Nat
      /\ p.intent # None => p.intent.start \in Nat /\ p.intent.until \in Nat
  BY DEF Follower, PlanTyped
<1>2. PlanWindowValid(p) /\ validateIntent(p)
  <2>1. earliest(p) \in Nat /\ p.created <= earliest(p)
    BY <1>1 DEF earliest
  <2>2. earliest(p) + p.cooling < p.expires /\ (p.intent # None => p.intent.start < p.intent.until)
    BY DEF Follower, FollowsToTheLetter, HasTime
  <2>. QED
    BY <1>1, <2>1, <2>2 DEF PlanWindowValid, validateIntent
<1>3. PlanStepUpValid(p)
  <2>. SUFFICES ASSUME p.stepUp
                PROVE  p.class = "production" /\ p.approval >= Destructive
    BY DEF PlanStepUpValid
  <2>1. wantStepUp(p, c) /\ SameShape(p, c)
    BY DEF Follower, FollowsToTheLetter, TakesFromContract
  <2>2. p.class = "production" /\ requiresStepUp(c)
    BY <2>1 DEF wantStepUp
  <2>3. PICK i \in DOMAIN c.steps : c.steps[i].stepUp
    <3>1. PICK s \in Range(c.steps) : s.stepUp
      BY <2>2 DEF requiresStepUp
    <3>2. PICK i \in DOMAIN c.steps : s = c.steps[i]
      BY <1>0, <3>1
    <3>3. c.steps[i].stepUp
      BY <3>1, <3>2
    <3>. QED
      BY <3>3
  <2>4. c.steps[i].minimum >= Destructive
    BY <2>3, FollowerSteps DEF ContractStepValid
  <2>5. p.approval \in 0..5 /\ c.steps[i].minimum \in 0..5 /\ p.approval >= c.steps[i].minimum
    BY FollowerSteps DEF ApprovalClasses
  <2>. QED
    BY <2>2, <2>4, <2>5 DEF Destructive
<1>4. /\ validatePolicyHash(p.policy) /\ validateResources(p.resources, p.project)
      /\ Unique(p.preconditions, LAMBDA x : x.id) /\ p.protection /\ validateRecoveryAssets(p)
  BY DEF Follower, FollowsToTheLetter, ChosenWell
<1>. QED
  BY <1>2, <1>3, <1>4, FollowerStepsValid, FollowerPermissions, FollowerExposure
     DEF validatePlanStructure

\* The gate finds the contract in the plan.
LEMMA FollowerMatches ==
    ASSUME NEW p, NEW c, Follower(p, c)
    PROVE  /\ validateExecutionContract(p, c) = {}
           /\ Block("step-up", p.stepUp # wantStepUp(p, c)) = {}
           /\ mutationCapable(c) => p.approval # Read
           /\ p.stepUp => mutationCapable(c)
<1>0. \A s \in Range(c.steps) : \E i \in DOMAIN c.steps : s = c.steps[i]
  BY InDomain DEF Follower
<1>1. /\ SameShape(p, c) /\ planMatchesExposureRequirement(p, c) /\ p.stepUp = wantStepUp(p, c)
      /\ Image(p.permissions, permissionKey) = requiredPermissions(p, c)
      /\ p.approval = minimumApproval(c)
  BY DEF Follower, FollowsToTheLetter, TakesFromContract
<1>2. ASSUME NEW i \in DOMAIN p.steps
      PROVE  StepMatches(p, p.steps[i], c.steps[i])
  <2>1. i \in DOMAIN c.steps
    BY FollowerSteps
  <2>2. /\ \A t \in p.steps[i].targets : t.kind \in c.steps[i].kinds
        /\ c.steps[i].recovery => \A t \in p.steps[i].targets : \E a \in p.assets : t \in a.protects
    BY <2>1 DEF Follower, FollowsToTheLetter, TakesFromContract, ChosenWell
  <2>. QED
    BY <2>1, <2>2, FollowerSteps DEF StepMatches
<1>3. ~(p.approval < minimumApproval(c))
  BY <1>1, FollowerSteps DEF ApprovalClasses
<1>4. mutationCapable(c) => p.approval # Read
  <2>. SUFFICES ASSUME mutationCapable(c)
                PROVE  p.approval # Read
    OBVIOUS
  <2>1. PICK i \in DOMAIN c.steps : c.steps[i].effect = "mutation"
    <3>1. PICK s \in Range(c.steps) : s.effect = "mutation"
      BY DEF mutationCapable
    <3>2. PICK i \in DOMAIN c.steps : s = c.steps[i]
      BY <1>0, <3>1
    <3>3. c.steps[i].effect = "mutation"
      BY <3>1, <3>2
    <3>. QED
      BY <3>3
  <2>2. c.steps[i].minimum # Read
    BY <2>1, FollowerSteps DEF ContractStepValid
  <2>3. p.approval \in 0..5 /\ c.steps[i].minimum \in 0..5 /\ p.approval >= c.steps[i].minimum
    BY FollowerSteps DEF ApprovalClasses
  <2>. QED
    BY <2>2, <2>3 DEF Read
<1>5. requiresRecovery(c) => p.assets # {}
  <2>. SUFFICES ASSUME requiresRecovery(c)
                PROVE  p.assets # {}
    OBVIOUS
  <2>1. PICK i \in DOMAIN c.steps : c.steps[i].recovery
    <3>1. PICK s \in Range(c.steps) : s.recovery
      BY DEF requiresRecovery
    <3>2. PICK i \in DOMAIN c.steps : s = c.steps[i]
      BY <1>0, <3>1
    <3>3. c.steps[i].recovery
      BY <3>1, <3>2
    <3>. QED
      BY <3>3
  <2>2. PICK t \in p.steps[i].targets : TRUE
    BY FollowerSteps
  <2>3. \E a \in p.assets : t \in a.protects
    BY <2>1 DEF Follower, FollowsToTheLetter, ChosenWell
  <2>. QED
    BY <2>3
<1>6. p.stepUp => mutationCapable(c)
  <2>. SUFFICES ASSUME p.stepUp
                PROVE  mutationCapable(c)
    OBVIOUS
  <2>1. requiresStepUp(c)
    BY <1>1 DEF wantStepUp
  <2>2. PICK i \in DOMAIN c.steps : c.steps[i].stepUp
    <3>1. PICK s \in Range(c.steps) : s.stepUp
      BY <2>1 DEF requiresStepUp
    <3>2. PICK i \in DOMAIN c.steps : s = c.steps[i]
      BY <1>0, <3>1
    <3>3. c.steps[i].stepUp
      BY <3>1, <3>2
    <3>. QED
      BY <3>3
  <2>3. c.steps[i].effect = "mutation" /\ c.steps[i] \in Range(c.steps)
    BY <2>2, FollowerSteps DEF ContractStepValid
  <2>. QED
    BY <2>3 DEF mutationCapable
<1>7. validateExecutionContract(p, c) = {}
  <2>1. Block("execution-contract",
               \/ ~planMatchesExposureRequirement(p, c)
               \/ \E i \in DOMAIN p.steps : ~StepMatches(p, p.steps[i], c.steps[i])
               \/ p.approval < minimumApproval(c)
               \/ mutationCapable(c) /\ p.approval = Read) = {}
    BY <1>1, <1>2, <1>3, <1>4, Zenon DEF Block
  <2>2. Block("recovery-asset", requiresRecovery(c) /\ p.assets = {}) = {}
    BY <1>5, Zenon DEF Block
  <2>3. Block("permission", Image(p.permissions, permissionKey) # requiredPermissions(p, c)) = {}
    BY <1>1, Zenon DEF Block
  <2>. QED
    BY <1>1, <2>1, <2>2, <2>3 DEF validateExecutionContract
<1>8. Block("step-up", p.stepUp # wantStepUp(p, c)) = {}
  BY <1>1, Zenon DEF Block
<1>. QED
  BY <1>4, <1>6, <1>7, <1>8

\* The times at which it can run: approved as soon as it may be, then looked at,
\* logged in for and checked at once when it has cooled off.
LEMMA FollowerTimes ==
    ASSUME NEW p, NEW c, Follower(p, c)
    PROVE  /\ p.created \in Nat /\ p.expires \in Nat /\ p.cooling \in Nat
           /\ earliest(p) \in p.created..p.expires
           /\ earliest(p) + p.cooling \in p.created..p.expires
           /\ earliest(p) + p.cooling < p.expires
           /\ p.intent # None =>
                  /\ p.intent.start \in Nat /\ p.intent.until \in Nat
                  /\ p.intent.start <= earliest(p)
                  /\ earliest(p) + p.cooling <= p.intent.until
<1>1. /\ p.created \in Nat /\ p.expires \in Nat /\ p.cooling \in Nat
      /\ p.intent # None => p.intent.start \in Nat /\ p.intent.until \in Nat
  BY DEF Follower, PlanTyped
<1>2. /\ earliest(p) \in Nat /\ p.created <= earliest(p)
      /\ p.intent # None => p.intent.start <= earliest(p)
  BY <1>1 DEF earliest
<1>3. /\ earliest(p) + p.cooling < p.expires
      /\ p.intent # None => earliest(p) + p.cooling <= p.intent.until
  BY DEF Follower, FollowsToTheLetter, HasTime
<1>. QED
  BY <1>1, <1>2, <1>3

\* What is read of it when nothing has drifted is what it was reviewed against.
LEMMA NothingDrifted ==
    ASSUME NEW p, NEW c, Follower(p, c)
    PROVE  /\ readResources(p, {}) = p.resources
           /\ PermissionChecks(p, {}) = p.permissions
           /\ {changed(x, "ok", x.ok /\ "precondition" \notin {}) : x \in p.preconditions}
                  = p.preconditions
<1>1. ASSUME NEW r, NEW field, IsRecord(r), field \in DOMAIN r, r[field] \in BOOLEAN, r[field],
             NEW holds, holds
      PROVE  changed(r, field, r[field] /\ holds) = r
  <2>1. r = [d \in DOMAIN r |-> r[d]]
    BY <1>1 DEF IsRecord
  <2>2. (r[field] /\ holds) = r[field]
    BY <1>1
  <2>. QED
    BY <2>1, <2>2 DEF changed
<1>2. ASSUME NEW g \in p.permissions
      PROVE  changed(g, "granted", g.granted /\ "permission" \notin {}) = g
  <2>1. IsRecord(g) /\ "granted" \in DOMAIN g /\ g.granted \in BOOLEAN /\ g.granted
    BY DEF Follower, PlanTyped, FollowsToTheLetter, ChosenWell
  <2>. QED
    BY <1>1, <2>1
<1>3. ASSUME NEW x \in p.preconditions
      PROVE  changed(x, "ok", x.ok /\ "precondition" \notin {}) = x
  <2>1. IsRecord(x) /\ "ok" \in DOMAIN x /\ x.ok \in BOOLEAN /\ x.ok
    BY DEF Follower, PlanTyped, FollowsToTheLetter, ChosenWell
  <2>. QED
    BY <1>1, <2>1
<1>4. PermissionChecks(p, {}) = p.permissions
  BY <1>2 DEF PermissionChecks
<1>5. {changed(x, "ok", x.ok /\ "precondition" \notin {}) : x \in p.preconditions} = p.preconditions
  BY <1>3
<1>6. readResources(p, {}) = p.resources
  BY DEF readResources
<1>. QED
  BY <1>4, <1>5, <1>6

\* With evidence of those times the gate blocks nothing.
LEMMA FollowerPasses ==
    ASSUME GateAssumption, NEW p, NEW c, Follower(p, c), NEW e,
           e.checked = earliest(p) + p.cooling, e.look.plan = p, e.look.at = e.checked,
           e.look.resources = p.resources, e.look.permissions = p.permissions,
           e.look.preconditions = p.preconditions, e.look.policy = p.policy,
           e.look.assets = p.assets,
           LET needs == minimumApproval(c) # Read \/ mutationCapable(c) \/ p.approval # Read
                        \/ p.intent # None
           IN  /\ needs => /\ e.approval # None /\ e.approval.plan = p
                           /\ e.approval.created = earliest(p)
               /\ ~needs => e.approval = None,
           p.stepUp => /\ e.login # None /\ e.login.plan = p /\ e.login.created = e.checked,
           ~p.stepUp => e.login = None,
           p.intent = None => e.intent = None,
           p.intent # None => /\ e.intent # None /\ e.intent.window = p.intent
                              /\ e.intent.active /\ e.intent.sole
    PROVE  ValidatePlanForExecution(p, e, c)
<1>. DEFINE start == earliest(p)
            ready == earliest(p) + p.cooling
<1>1. /\ p.created \in Nat /\ start \in Nat /\ ready \in Nat /\ p.cooling \in Nat
      /\ p.created <= start /\ start <= ready /\ ready < p.expires
      /\ p.intent # None => /\ p.intent.start \in Nat /\ p.intent.until \in Nat
                            /\ p.intent.start <= start /\ ready <= p.intent.until
  BY FollowerTimes
<1>2. ready = start + p.cooling /\ Freshness \in Nat /\ LoginFreshness \in Nat /\ LoginFreshness > 0
  BY DEF GateAssumption
<1>. HIDE DEF start, ready
<1>3. e.checked = ready /\ e.look.at = ready
  BY DEF ready
<1>4. TimeBlockers(p, e) = {}
  <2>1. ~(\/ e.look.at > e.checked \/ e.look.at < p.created \/ e.checked - e.look.at > Freshness
          \/ e.checked < p.created)
    BY <1>1, <1>2, <1>3
  <2>. QED
    BY <2>1 DEF TimeBlockers, Block
<1>5. /\ validateExecutionContract(p, c) = {}
      /\ Block("step-up", p.stepUp # wantStepUp(p, c)) = {}
  BY FollowerMatches
<1>6. validateExposureExecutionTime(p, e.checked) = {}
  <2>. DEFINE o == p.controls
  <2>1. ASSUME o # None
        PROVE  ~(\/ o.expires # None /\ o.expires <= ready
                 \/ o.review # None /\ ready \div Day > o.review \div Day)
    <3>1. /\ o.expires # None => o.expires \in Nat /\ ready < o.expires
          /\ o.review # None => o.review \in Nat /\ ready \div Day <= o.review \div Day
      BY <2>1 DEF Follower, PlanTyped, ControlsTyped, FollowsToTheLetter, HasTime, ready
    <3>2. Day \in Nat \ {0}
      BY DEF GateAssumption
    <3>3. ready \div Day \in Nat
      BY <1>1, <3>2
    <3>4. o.review # None => o.review \div Day \in Nat
      BY <3>1, <3>2
    <3>. QED
      BY <1>1, <3>1, <3>3, <3>4
  <2>. QED
    BY <1>3, <2>1, Zenon DEF validateExposureExecutionTime, Block
<1>7. ASSUME e.approval # None, e.approval.plan = p, e.approval.created = start
      PROVE  validateApprovalEvidence(p, e) = {}
  <2>1. ~(\/ e.approval.plan # p \/ e.approval.created < p.created
          \/ e.approval.created > e.checked
          \/ p.intent # None /\ e.approval.created < p.intent.start)
    BY <1>1, <1>3, <1>7
  <2>2. ~(e.checked < e.approval.created + p.cooling \/ e.look.at < e.approval.created + p.cooling)
    BY <1>1, <1>2, <1>3, <1>7
  <2>. QED
    BY <1>7, <2>1, <2>2 DEF validateApprovalEvidence, Block
<1>8. approvalBlockers(p, e, c) = {}
  <2>1. SameShape(p, c)
    BY DEF Follower, FollowsToTheLetter, TakesFromContract
  <2>2. CASE minimumApproval(c) # Read \/ mutationCapable(c) \/ p.approval # Read \/ p.intent # None
    <3>1. e.approval # None /\ e.approval.plan = p /\ e.approval.created = start
      BY <2>2 DEF start
    <3>2. approvalBlockers(p, e, c) = validateApprovalEvidence(p, e)
      BY <2>2 DEF approvalBlockers
    <3>. QED
      BY <1>7, <3>1, <3>2
  <2>3. CASE ~(minimumApproval(c) # Read \/ mutationCapable(c) \/ p.approval # Read
               \/ p.intent # None)
    <3>1. approvalBlockers(p, e, c) = Block("approval", e.approval # None)
      BY <2>1, <2>3 DEF approvalBlockers
    <3>. QED
      BY <2>3, <3>1 DEF Block
  <2>. QED
    BY <2>2, <2>3
<1>9. validateIntentEvidence(p, e) = {}
  <2>1. CASE p.intent = None
    BY <2>1 DEF validateIntentEvidence, Block
  <2>2. CASE p.intent # None
    <3>1. ~(\/ e.intent.window # p.intent \/ ~e.intent.active \/ ~e.intent.sole
            \/ e.checked < p.intent.start \/ e.checked > p.intent.until
            \/ e.look.at < p.intent.start \/ e.look.at > p.intent.until)
      BY <1>1, <1>3, <2>2
    <3>. QED
      BY <2>2, <3>1 DEF validateIntentEvidence, Block
  <2>. QED
    BY <2>1, <2>2
<1>10. /\ validatePolicyEvidence(p, e) = {} /\ validatePreconditionEvidence(p, e) = {}
       /\ validateResourceEvidence(p, e) = {} /\ validateRecoveryEvidence(p, e) = {}
       /\ validateGrantEvidence(p, e) = {} /\ Block("plan-binding", e.look.plan # p) = {}
  <2>1. /\ p.policy.match /\ \A x \in p.preconditions : x.ok
        /\ \A g \in p.permissions : g.granted
    BY DEF Follower, FollowsToTheLetter, ChosenWell
  <2>. QED
    BY <2>1, Zenon DEF validatePolicyEvidence, validatePreconditionEvidence, validateResourceEvidence,
           validateRecoveryEvidence, validateGrantEvidence, Block
<1>11. validateStepUpEvidence(p, e) = {}
  <2>0. p.stepUp \in BOOLEAN
    BY DEF Follower, FollowsToTheLetter, TakesFromContract, wantStepUp
  <2>1. CASE ~p.stepUp
    <3>1. p.stepUp = FALSE /\ (e.login # None) = FALSE
      BY <2>0, <2>1
    <3>2. ~(p.stepUp # (e.login # None))
      BY <3>1
    <3>. QED
      BY <2>1, <3>2, Zenon DEF validateStepUpEvidence, Block
  <2>2. CASE p.stepUp
    <3>1. /\ e.approval # None /\ e.approval.created = start
      BY <2>2, FollowerMatches DEF start
    <3>2. ~(\/ e.login.plan # p
            \/ e.login.created < e.look.at \/ e.login.created > e.checked
            \/ e.checked - e.login.created >= LoginFreshness
            \/ e.approval = None \/ e.login.created < e.approval.created + p.cooling)
      BY <1>1, <1>2, <1>3, <2>2, <3>1
    <3>. QED
      BY <2>2, <3>2 DEF validateStepUpEvidence, Block
  <2>. QED
    BY <2>1, <2>2
<1>12. ExecutionBlockers(p, e, c) = {}
  BY <1>4, <1>5, <1>6, <1>8, <1>9, <1>10, <1>11 DEF ExecutionBlockers
<1>. QED
  BY <1>1, <1>3, <1>12, FollowerSeals DEF ValidatePlanForExecution

\* For any plans and contracts: whatever contract the registry accepts, the plan
\* that follows it to the letter can run, whatever it opens or destroys, with a
\* window or without.
THEOREM DerivedPlansRun == GateSpec => []DerivedPlansCanRun
<1>. DEFINE Inv == GateInv /\ ContractValid(theContract)
<1>1. GateInit => ContractValid(theContract)
  BY DEF GateInit
<1>2. ContractValid(theContract) /\ [GateNext]_gateVars => ContractValid(theContract)'
  <2>. SUFFICES ASSUME ContractValid(theContract), [GateNext]_gateVars
                PROVE  ContractValid(theContract)'
    OBVIOUS
  <2>1. UNCHANGED plan
    BY DEF GateNext, gateVars, Drift, CreateApproval, LogIn, Reschedule, Revalidate, Check, GateTick
  <2>2. UNCHANGED theContract
    BY <2>1 DEF theContract
  <2>. QED
    BY <2>2 DEF ContractValid, ContractExposures, ContractStepValid, TermsValid, RetryPolicyValid,
                validateExecutionExposureRequirement
<1>3. GateInv /\ ContractValid(theContract) => DerivedPlansCanRun
  <2>. SUFFICES ASSUME GateInv, ContractValid(theContract),
                       FollowsToTheLetter(thePlan, theContract)
                PROVE  \E at \in [{"approval", "look", "login", "check"} ->
                                      thePlan.created..thePlan.expires],
                         a, g \in BOOLEAN :
                           /\ at["look"] <= at["check"]
                           /\ ValidatePlanForExecution(thePlan,
                                  Evidence([at |-> at["look"], facts |-> {}],
                                     IF a THEN [plan |-> plan, created |-> at["approval"]] ELSE None,
                                     IF g THEN [plan |-> plan, created |-> at["login"]] ELSE None,
                                     LiveIntent, at["check"]),
                                  theContract)
    BY DEF DerivedPlansCanRun
  <2>. DEFINE p == thePlan
              c == theContract
              start == earliest(p)
              ready == earliest(p) + p.cooling
              at == [x \in {"approval", "look", "login", "check"} |->
                         IF x = "approval" THEN start ELSE ready]
              needs == minimumApproval(c) # Read \/ mutationCapable(c) \/ p.approval # Read
                       \/ p.intent # None
              a == needs
              g == IF p.stepUp THEN TRUE ELSE FALSE
              l == [at |-> at["look"], facts |-> {}]
              ra == IF a THEN [plan |-> plan, created |-> at["approval"]] ELSE None
              rg == IF g THEN [plan |-> plan, created |-> at["login"]] ELSE None
              e == Evidence(l, ra, rg, LiveIntent, at["check"])
  <2>1. Follower(p, c)
    BY PlanAndContract DEF Follower
  <2>2. start \in p.created..p.expires /\ ready \in p.created..p.expires
    BY <2>1, FollowerTimes
  <2>3. at \in [{"approval", "look", "login", "check"} -> p.created..p.expires]
    BY <2>2
  <2>4. /\ at["approval"] = start /\ at["look"] = ready /\ at["login"] = ready
        /\ at["check"] = ready
    OBVIOUS
  <2>5. plan \in Plans /\ p = PlanOf[plan]
    BY DEF GateInv, thePlan
  <2>6. \A t \in p.created..p.expires :
            [plan |-> plan, created |-> t] # None /\ [plan |-> p, created |-> t] # None
    BY <2>5, GateAssumption DEF GateAssumption
  <2>7. /\ a => Held(ra) = [plan |-> p, created |-> start] /\ Held(ra) # None
        /\ ~a => Held(ra) = None
    BY <2>2, <2>4, <2>5, <2>6 DEF Held
  <2>8. /\ g => Held(rg) = [plan |-> p, created |-> ready] /\ Held(rg) # None
        /\ ~g => Held(rg) = None
    BY <2>2, <2>4, <2>5, <2>6 DEF Held
  <2>9. /\ p.intent = None => LiveIntent = None
        /\ p.intent # None => /\ LiveIntent # None /\ LiveIntent.window = p.intent
                              /\ LiveIntent.active /\ LiveIntent.sole
    BY <2>5, GateAssumption DEF GateAssumption, LiveIntent
  <2>10. /\ e.checked = at["check"] /\ e.approval = Held(ra) /\ e.login = Held(rg)
         /\ e.intent = LiveIntent /\ e.look.plan = p /\ e.look.at = at["look"]
         /\ e.look.resources = readResources(p, {})
         /\ e.look.permissions = PermissionChecks(p, {})
         /\ e.look.preconditions =
                {changed(x, "ok", x.ok /\ "precondition" \notin {}) : x \in p.preconditions}
         /\ e.look.policy = p.policy /\ e.look.assets = p.assets
    <3>1. l.at = at["look"] /\ l.facts = {}
      OBVIOUS
    <3>. HIDE DEF l, ra, rg, at
    <3>2. /\ e.checked = at["check"] /\ e.approval = Held(ra) /\ e.login = Held(rg)
          /\ e.intent = LiveIntent /\ e.look.plan = p /\ e.look.at = l.at
          /\ e.look.resources = readResources(p, l.facts)
          /\ e.look.permissions = PermissionChecks(p, l.facts)
          /\ e.look.preconditions =
                 {changed(x, "ok", x.ok /\ "precondition" \notin l.facts) : x \in p.preconditions}
          /\ e.look.policy = IF "policy" \in l.facts THEN changed(p.policy, "approved", None)
                             ELSE p.policy
          /\ e.look.assets = IF "asset" \in l.facts THEN {} ELSE p.assets
      BY DEF Evidence, Reading
    <3>. QED
      BY <3>1, <3>2
  <2>11. /\ e.look.resources = p.resources /\ e.look.permissions = p.permissions
         /\ e.look.preconditions = p.preconditions
    BY <2>1, <2>10, NothingDrifted
  <2>12. ValidatePlanForExecution(p, e, c)
    <3>. HIDE DEF p, c, at, e, ra, rg, l
    <3>1. e.checked = ready /\ e.look.at = e.checked
      BY <2>4, <2>10
    <3>2. p.stepUp => e.login # None /\ e.login.plan = p /\ e.login.created = e.checked
      BY <2>8, <2>10, <3>1
    <3>3. ~p.stepUp => e.login = None
      BY <2>8, <2>10
    <3>4. /\ needs => e.approval # None /\ e.approval.plan = p /\ e.approval.created = earliest(p)
          /\ ~needs => e.approval = None
      BY <2>7, <2>10
    <3>. HIDE DEF needs
    <3>. QED
      BY <2>1, <2>9, <2>10, <2>11, <3>1, <3>2, <3>3, <3>4, FollowerPasses, GateAssumption
         DEF needs
  <2>13. at["look"] <= at["check"] /\ a \in BOOLEAN /\ g \in BOOLEAN
    BY <2>1, <2>4, FollowerTimes
  <2>. QED
    BY <2>3, <2>12, <2>13
<1>. QED
  BY <1>1, <1>2, <1>3, GateInvariant, PTL DEF GateSpec

----------------------------------------------------------------------------
(* A plan for every contract *)

\* What every contract has, whatever it asks for.
ContractTyped(c) ==
    /\ IsList(c.steps)
    /\ \A s \in Range(c.steps) : s.minimum \in ApprovalClasses
    /\ \A r \in ContractExposures(c) :
           r.delta \in {"none", "private", "tunnel", "external"} /\ r.wide \in BOOLEAN

\* The plan of an author who wants nothing of his own: one resource for each
\* step, one snapshot of them all, and the one source each exposure allows.
resourceOf(kind) == [kind |-> kind, name |-> "target", project |-> "project", print |-> 0]

stepOf(s) ==
    [id |-> s.id, terms |-> s.terms, targets |-> {resourceOf(CHOOSE k \in s.kinds : TRUE)}]
stepsOf(c) == [i \in DOMAIN c.steps |-> stepOf(c.steps[i])]
resourcesOf(c) == {resourceOf(CHOOSE k \in c.steps[i].kinds : TRUE) : i \in DOMAIN c.steps}

grantOf(key) ==
    [step |-> key[1], identity |-> key[2], permission |-> key[3], resource |-> key[4],
     granted |-> TRUE]

snapshotOf(c, created) ==
    [kind |-> "snapshot", protects |-> resourcesOf(c), verified |-> created, restoreTo |-> None,
     resource |-> [kind |-> "snapshot", name |-> "backup", project |-> "project", print |-> 0]]

exposureOf(c) == CHOOSE r \in ContractExposures(c) : TRUE
sourceOf(r) ==
    CASE r.delta = "private" -> [kind |-> "tag", range |-> None]
      [] r.delta = "tunnel" -> [kind |-> "tunnel", range |-> None]
      [] OTHER -> [kind |-> "cidr",
                   range |-> IF r.wide THEN Everywhere ELSE [address |-> 0, bits |-> AddressWidth]]
controlsOf(c, end) ==
    LET r == exposureOf(c)
    IN  [profile |-> r.profile, wide |-> r.wide, simulation |-> r.simulation,
         targets |-> UNION {stepsOf(c)[i].targets :
                               i \in {j \in DOMAIN c.steps : c.steps[j].exposure # None}},
         sources |-> {sourceOf(r)}, trust |-> "public",
         authentication |-> IF r.delta = "tunnel" THEN "iap" ELSE "scram",
         permanent |-> r.wide, expires |-> IF r.wide THEN None ELSE end, review |-> None]

planOf(c, class, created, cooling) ==
    LET exposed == ContractExposures(c) # {}
        end == created + cooling + 1
    IN  [workflow |-> c.workflow, class |-> class, project |-> "project",
         created |-> created, expires |-> end, cooling |-> cooling, intent |-> None,
         approval |-> minimumApproval(c),
         stepUp |-> class = "production" /\ requiresStepUp(c),
         policy |-> [match |-> TRUE, local |-> 0, approved |-> 0], protection |-> TRUE,
         boundary |-> c.boundary, point |-> c.point, trigger |-> c.trigger,
         steps |-> stepsOf(c), resources |-> resourcesOf(c),
         permissions |-> {grantOf(key) : key \in requiredPermissions([steps |-> stepsOf(c)], c)},
         preconditions |-> IF exposed THEN {[id |-> exposureOf(c).simulation, ok |-> TRUE]} ELSE {},
         exposure |-> IF exposed THEN exposureOf(c).delta ELSE "none",
         controls |-> IF exposed THEN controlsOf(c, end) ELSE None,
         assets |-> {snapshotOf(c, created)}]

\* Neither a number nor a record is the absent value.
NoneIsNothing == None \notin Nat /\ ~IsRecord(None)

\* Resources of one name are told apart by their kinds.
LEMMA ResourcesDistinguished ==
    ASSUME NEW S, IsFiniteSet(S), \A t \in S : t = resourceOf(t.kind)
    PROVE  Unique(S, stableKey)
<1>. DEFINE T == Image(S, stableKey)
            f == [t \in S |-> stableKey(t)]
<1>1. ASSUME NEW t \in S, NEW u \in S, stableKey(t) = stableKey(u)
      PROVE  t = u
  <2>1. t.kind = u.kind
    BY <1>1 DEF stableKey
  <2>. QED
    BY <2>1
<1>2. f \in Bijection(S, T)
  BY <1>1 DEF Bijection, Injection, Surjection, Image, IsInjective
<1>3. Cardinality(T) = Cardinality(S)
  BY <1>2, FS_Bijection DEF ExistsBijection
<1>. QED
  BY <1>3 DEF Unique

\* One resource for each step, of a kind the step allows.
LEMMA PlannedSteps ==
    ASSUME NEW c, ContractTyped(c), ContractValid(c)
    PROVE  /\ DOMAIN c.steps = 1..Len(c.steps) /\ Len(c.steps) \in Nat \ {0}
           /\ IsList(stepsOf(c)) /\ Len(stepsOf(c)) = Len(c.steps)
           /\ DOMAIN stepsOf(c) = DOMAIN c.steps
           /\ IsFiniteSet(resourcesOf(c)) /\ resourcesOf(c) # {}
           /\ resourcesOf(c) = UNION {s.targets : s \in Range(stepsOf(c))}
           /\ \A i \in DOMAIN c.steps :
                  /\ c.steps[i] \in Range(c.steps) /\ ContractStepValid(c.steps[i])
                  /\ stepsOf(c)[i].id = c.steps[i].id /\ stepsOf(c)[i].terms = c.steps[i].terms
                  /\ stepsOf(c)[i].targets # {} /\ stepsOf(c)[i].targets \subseteq resourcesOf(c)
                  /\ \A t \in stepsOf(c)[i].targets : t.kind \in c.steps[i].kinds
           /\ \A t \in resourcesOf(c) :
                  /\ t = resourceOf(t.kind) /\ t.name = "target" /\ t.project = "project"
                  /\ "print" \in DOMAIN t /\ t["print"] = 0
<1>1. DOMAIN c.steps = 1..Len(c.steps) /\ Len(c.steps) \in Nat \ {0}
  <2>1. c.steps \in Seq(Range(c.steps)) /\ c.steps # <<>>
    BY DEF ContractTyped, IsList, ContractValid
  <2>. QED
    BY <2>1
<1>2. /\ DOMAIN stepsOf(c) = DOMAIN c.steps
      /\ \A i \in DOMAIN c.steps : stepsOf(c)[i] = stepOf(c.steps[i])
  BY DEF stepsOf
<1>3. IsList(stepsOf(c)) /\ Len(stepsOf(c)) = Len(c.steps)
  <2>1. stepsOf(c) \in [1..Len(c.steps) -> Range(stepsOf(c))]
    BY <1>1 DEF stepsOf, Range
  <2>. QED
    BY <1>1, <2>1 DEF IsList
<1>4. IsFiniteSet(resourcesOf(c)) /\ resourcesOf(c) # {}
  <2>1. IsFiniteSet(DOMAIN c.steps) /\ 1 \in DOMAIN c.steps
    BY <1>1, FS_Interval
  <2>. DEFINE f == [i \in DOMAIN c.steps |-> resourceOf(CHOOSE k \in c.steps[i].kinds : TRUE)]
  <2>2. f \in Surjection(DOMAIN c.steps, resourcesOf(c))
    BY DEF Surjection, resourcesOf
  <2>3. f[1] \in resourcesOf(c)
    BY <2>1 DEF resourcesOf
  <2>. QED
    BY <2>1, <2>2, <2>3, FS_Surjection
<1>5. ASSUME NEW i \in DOMAIN c.steps
      PROVE  /\ c.steps[i] \in Range(c.steps) /\ ContractStepValid(c.steps[i])
             /\ stepsOf(c)[i].id = c.steps[i].id /\ stepsOf(c)[i].terms = c.steps[i].terms
             /\ stepsOf(c)[i].targets # {} /\ stepsOf(c)[i].targets \subseteq resourcesOf(c)
             /\ \A t \in stepsOf(c)[i].targets : t.kind \in c.steps[i].kinds
  <2>1. c.steps[i] \in Range(c.steps) /\ ContractStepValid(c.steps[i])
    BY DEF ContractValid, Range
  <2>2. (CHOOSE k \in c.steps[i].kinds : TRUE) \in c.steps[i].kinds
    BY <2>1 DEF ContractStepValid
  <2>3. stepsOf(c)[i] = stepOf(c.steps[i])
    BY <1>2
  <2>4. /\ stepsOf(c)[i].id = c.steps[i].id /\ stepsOf(c)[i].terms = c.steps[i].terms
        /\ stepsOf(c)[i].targets = {resourceOf(CHOOSE k \in c.steps[i].kinds : TRUE)}
    BY <2>3 DEF stepOf
  <2>5. stepsOf(c)[i].targets \subseteq resourcesOf(c)
    BY <2>4 DEF resourcesOf
  <2>. QED
    BY <2>1, <2>2, <2>4, <2>5 DEF resourceOf
<1>6. resourcesOf(c) = UNION {s.targets : s \in Range(stepsOf(c))}
  <2>1. ASSUME NEW s \in Range(stepsOf(c))
        PROVE  s.targets \subseteq resourcesOf(c)
    BY <1>2, <1>5 DEF Range
  <2>2. ASSUME NEW t \in resourcesOf(c)
        PROVE  \E s \in Range(stepsOf(c)) : t \in s.targets
    <3>1. PICK i \in DOMAIN c.steps : t = resourceOf(CHOOSE k \in c.steps[i].kinds : TRUE)
      BY DEF resourcesOf
    <3>2. t \in stepsOf(c)[i].targets
      <4>1. stepsOf(c)[i] = stepOf(c.steps[i])
        BY <1>2
      <4>2. stepsOf(c)[i].targets = {resourceOf(CHOOSE k \in c.steps[i].kinds : TRUE)}
        BY <4>1 DEF stepOf
      <4>. QED
        BY <3>1, <4>2
    <3>3. stepsOf(c)[i] \in Range(stepsOf(c))
      BY <1>2 DEF Range
    <3>. QED
      BY <3>2, <3>3
  <2>. QED
    BY <2>1, <2>2
<1>7. ASSUME NEW t \in resourcesOf(c)
      PROVE  /\ t = resourceOf(t.kind) /\ t.name = "target" /\ t.project = "project"
             /\ "print" \in DOMAIN t /\ t["print"] = 0
  <2>1. PICK k : t = resourceOf(k)
    BY DEF resourcesOf
  <2>. QED
    BY <2>1 DEF resourceOf
<1>. QED
  BY <1>1, <1>2, <1>3, <1>4, <1>5, <1>6, <1>7

\* A grant for each permission that each step asks for on its resource, all given.
LEMMA PlannedPermissions ==
    ASSUME NEW keys, \A key \in keys : key = <<key[1], key[2], key[3], key[4]>>
    PROVE  LET permissions == {grantOf(key) : key \in keys}
           IN  /\ Image(permissions, permissionKey) = keys
               /\ \A g \in permissions :
                      /\ IsRecord(g) /\ "granted" \in DOMAIN g /\ g.granted \in BOOLEAN
                      /\ g.granted
<1>. DEFINE permissions == {grantOf(key) : key \in keys}
<1>1. ASSUME NEW key \in keys
      PROVE  permissionKey(grantOf(key)) = key
  BY DEF permissionKey, grantOf
<1>2. ASSUME NEW g \in permissions
      PROVE  /\ IsRecord(g) /\ "granted" \in DOMAIN g /\ g.granted \in BOOLEAN /\ g.granted
  <2>1. PICK key \in keys : g = grantOf(key)
    OBVIOUS
  <2>. QED
    BY <2>1 DEF grantOf, IsRecord
<1>3. Image(permissions, permissionKey) = keys
  BY <1>1 DEF Image
<1>. QED
  BY <1>2, <1>3

\* The one exposure a contract may ask for, and the step that asks for it.
LEMMA AskedExposure ==
    ASSUME NEW c, ContractTyped(c), ContractValid(c), ContractExposures(c) # {}
    PROVE  LET r == exposureOf(c)
           IN  /\ r \in ContractExposures(c) /\ r.wide \in BOOLEAN
               /\ r.delta \in {"private", "tunnel", "external"}
               /\ r.wide => r.delta = "external"
               /\ \E i \in DOMAIN c.steps : c.steps[i].exposure # None
<1>. DEFINE r == exposureOf(c)
<1>1. r \in ContractExposures(c)
  BY DEF exposureOf
<1>. HIDE DEF r
<1>2. PICK s \in Range(c.steps) : s.exposure = r /\ r # None
  BY <1>1 DEF ContractExposures
<1>3. PICK i \in DOMAIN c.steps : s = c.steps[i]
  BY InDomain
<1>4. ContractStepValid(c.steps[i]) /\ c.steps[i].exposure = r /\ c.steps[i].exposure # None
  BY <1>2, <1>3 DEF ContractValid
<1>5. r.delta # "none" /\ (r.wide => r.delta = "external")
  BY <1>4 DEF ContractStepValid, validateExecutionExposureRequirement
<1>6. r.delta \in {"none", "private", "tunnel", "external"} /\ r.wide \in BOOLEAN
  BY <1>1 DEF ContractTyped
<1>. QED
  BY <1>1, <1>4, <1>5, <1>6 DEF r

\* Its one source is one the exposure allows: everywhere, if and only if it is wide.
LEMMA PlannedSource ==
    ASSUME AddressWidth > 0, NEW r, r.wide \in BOOLEAN,
           r.delta \in {"private", "tunnel", "external"}, r.wide => r.delta = "external"
    PROVE  LET s == sourceOf(r)
           IN  /\ s \in [kind : SourceKinds, range : AddressPrefixes \cup {None}]
               /\ validExposureSource(s) /\ sourceAllowedForExposure(r.delta, s.kind)
               /\ r.wide <=> [kind |-> "cidr", range |-> Everywhere] = s
<1>. DEFINE one == [address |-> 0, bits |-> AddressWidth]
<1>1. /\ AddressWidth \in Nat \ {0} /\ AddressWidth - AddressWidth = 0 /\ AddressWidth - 0 = AddressWidth
      /\ NarrowBits \in 0..AddressWidth /\ TwoTo[0] = 1
      /\ TwoTo[AddressWidth] \in Nat \ {0}
  BY AddressAssumption, TwoToPositive DEF AddressAssumption
<1>2. one \in AddressPrefixes /\ Everywhere \in AddressPrefixes /\ one # Everywhere
  <2>1. 0 \in 0..(TwoTo[AddressWidth] - 1)
    BY <1>1
  <2>. QED
    BY <1>1, <2>1 DEF AddressPrefixes, Everywhere
<1>3. Masked(one) /\ Masked(Everywhere) /\ one.bits >= NarrowBits
  <2>1. \A n \in Nat \ {0} : 0 % n = 0
    BY SMTT(60)
  <2>. QED
    BY <1>1, <2>1 DEF Masked, PrefixSize, Everywhere
<1>4. CASE r.delta = "private"
  BY <1>4 DEF sourceOf, validExposureSource, sourceAllowedForExposure, SourceKinds
<1>5. CASE r.delta = "tunnel"
  BY <1>5 DEF sourceOf, validExposureSource, sourceAllowedForExposure, SourceKinds
<1>6. CASE r.delta = "external" /\ r.wide
  <2>1. sourceOf(r) = [kind |-> "cidr", range |-> Everywhere]
    BY <1>6 DEF sourceOf
  <2>. QED
    BY <1>2, <1>3, <1>6, <2>1 DEF validExposureSource, sourceAllowedForExposure, SourceKinds
<1>7. CASE r.delta = "external" /\ ~r.wide
  <2>1. sourceOf(r) = [kind |-> "cidr", range |-> one]
    BY <1>7 DEF sourceOf
  <2>2. sourceOf(r) # [kind |-> "cidr", range |-> Everywhere]
    BY <1>2, <2>1
  <2>. QED
    BY <1>2, <1>3, <1>7, <2>1, <2>2 DEF validExposureSource, sourceAllowedForExposure, SourceKinds
<1>. QED
  BY <1>4, <1>5, <1>6, <1>7

\* The plan of a valid contract, field by field, follows it to the letter.
LEMMA PlanFollows ==
    ASSUME NoneIsNothing, AddressWidth > 0,
           NEW c, ContractTyped(c), ContractValid(c),
           NEW class, NEW created \in Nat, NEW cooling \in Nat
    PROVE  Follower(planOf(c, class, created, cooling), c)
<1>. DEFINE p == planOf(c, class, created, cooling)
            r == exposureOf(c)
            exposed == ContractExposures(c) # {}
            end == created + cooling + 1
            shell == [steps |-> stepsOf(c)]
            backup == snapshotOf(c, created)
            simulated == [id |-> r.simulation, ok |-> TRUE]
            o == controlsOf(c, end)
<1>1. /\ p.workflow = c.workflow /\ p.class = class /\ p.project = "project"
      /\ p.created = created /\ p.expires = end /\ p.cooling = cooling /\ p.intent = None
      /\ p.approval = minimumApproval(c)
      /\ p.policy = [match |-> TRUE, local |-> 0, approved |-> 0] /\ p.protection
      /\ p.boundary = c.boundary /\ p.point = c.point /\ p.trigger = c.trigger
      /\ p.steps = stepsOf(c) /\ p.resources = resourcesOf(c)
      /\ p.permissions = {grantOf(key) : key \in requiredPermissions(shell, c)}
      /\ p.preconditions = IF exposed THEN {simulated} ELSE {}
      /\ p.exposure = IF exposed THEN r.delta ELSE "none"
      /\ p.controls = IF exposed THEN o ELSE None
      /\ p.assets = {backup}
  BY DEF planOf
<1>2. p.stepUp = (class = "production" /\ requiresStepUp(c))
  BY DEF planOf
<1>. HIDE DEF p
<1>3. /\ created <= end /\ created + cooling < end /\ end \in Nat /\ None \notin Nat
      /\ ~IsRecord(None)
  BY DEF NoneIsNothing
<1>. HIDE DEF end
<1>4. requiredPermissions(p, c) = requiredPermissions(shell, c)
  BY <1>1 DEF requiredPermissions
<1>5. /\ Image(p.permissions, permissionKey) = requiredPermissions(p, c)
      /\ \A g \in p.permissions :
             IsRecord(g) /\ "granted" \in DOMAIN g /\ g.granted \in BOOLEAN /\ g.granted
  <2>1. \A key \in requiredPermissions(shell, c) : key = <<key[1], key[2], key[3], key[4]>>
    BY DEF requiredPermissions
  <2>. QED
    BY <1>1, <1>4, <2>1, PlannedPermissions
<1>6. p.approval \in ApprovalClasses
  <2>. DEFINE S == {s.minimum : s \in Range(c.steps)}
  <2>1. S \in SUBSET ApprovalClasses /\ c.steps[1].minimum \in S
    BY PlannedSteps DEF ContractTyped
  <2>2. p.approval = Max(S)
    BY <1>1 DEF minimumApproval
  <2>. HIDE DEF S
  <2>. QED
    BY <2>1, <2>2, StrongestClass
<1>7. ASSUME exposed
      PROVE  /\ r \in ContractExposures(c) /\ r.wide \in BOOLEAN
             /\ r.delta \in {"private", "tunnel", "external"} /\ (r.wide => r.delta = "external")
             /\ p.controls # None
             /\ p.controls.profile = r.profile /\ p.controls.wide = r.wide
             /\ p.controls.simulation = r.simulation
             /\ p.controls.targets = UNION {p.steps[i].targets :
                                               i \in {j \in DOMAIN p.steps : c.steps[j].exposure # None}}
             /\ p.controls.sources = {sourceOf(r)} /\ p.controls.trust = "public"
             /\ p.controls.authentication = IF r.delta = "tunnel" THEN "iap" ELSE "scram"
             /\ p.controls.permanent = r.wide
             /\ p.controls.expires = IF r.wide THEN None ELSE end
             /\ p.controls.review = None
  <2>1. p.controls = o /\ DOMAIN p.steps = DOMAIN c.steps /\ p.steps = stepsOf(c)
    BY <1>1, <1>7, PlannedSteps
  <2>2. IsRecord(o)
    BY DEF controlsOf, IsRecord
  <2>3. /\ o.profile = r.profile /\ o.wide = r.wide /\ o.simulation = r.simulation
        /\ o.targets = UNION {stepsOf(c)[i].targets :
                                 i \in {j \in DOMAIN c.steps : c.steps[j].exposure # None}}
        /\ o.sources = {sourceOf(r)} /\ o.trust = "public"
        /\ o.authentication = IF r.delta = "tunnel" THEN "iap" ELSE "scram"
        /\ o.permanent = r.wide /\ o.expires = (IF r.wide THEN None ELSE end) /\ o.review = None
    BY DEF controlsOf
  <2>. HIDE DEF o, r
  <2>4. p.controls # None
    BY <1>3, <2>1, <2>2
  <2>. QED
    BY <1>7, <2>1, <2>3, <2>4, AskedExposure DEF r
<1>8. IsRecord(simulated) /\ "ok" \in DOMAIN simulated /\ simulated.ok = TRUE
  BY DEF IsRecord
<1>9. \A x \in p.preconditions : IsRecord(x) /\ "ok" \in DOMAIN x /\ x.ok = TRUE
  <2>. HIDE DEF simulated
  <2>. QED
    BY <1>1, <1>8
<1>10. /\ backup.kind = "snapshot" /\ backup.protects = p.resources /\ backup.verified = created
       /\ backup.restoreTo = None /\ backup.resource.kind = "snapshot"
       /\ backup.resource.name = "backup" /\ backup.resource.project = "project"
  BY <1>1 DEF snapshotOf
<1>. HIDE DEF backup, o, simulated, shell, r, exposed
<1>11. PlanTyped(p)
  <2>1. ASSUME exposed
        PROVE  ControlsTyped(p.controls)
    <3>1. sourceOf(r) \in [kind : SourceKinds, range : AddressPrefixes \cup {None}]
      BY <1>7, <2>1, PlannedSource
    <3>. QED
      BY <1>3, <1>7, <2>1, <3>1 DEF ControlsTyped
  <2>2. p.controls # None => ControlsTyped(p.controls)
    BY <1>1, <2>1
  <2>3. \A a \in p.assets : a.verified \in Nat
    BY <1>1, <1>10
  <2>4. \A t \in p.resources : "print" \in DOMAIN t /\ t["print"] # None
    BY <1>1, <1>3, PlannedSteps
  <2>5. "approved" \in DOMAIN p.policy /\ IsList(p.steps)
    BY <1>1, PlannedSteps
  <2>. QED
    BY <1>1, <1>3, <1>5, <1>6, <1>9, <2>2, <2>3, <2>4, <2>5 DEF PlanTyped
<1>12. SameShape(p, c)
  BY <1>1, PlannedSteps DEF SameShape
<1>13. p.stepUp = wantStepUp(p, c)
  <2>1. wantStepUp(p, c) = (class = "production" /\ requiresStepUp(c))
    BY <1>1, <1>12 DEF wantStepUp
  <2>. QED
    BY <1>2, <2>1
<1>14. planMatchesExposureRequirement(p, c)
  <2>1. CASE ~exposed
    BY <1>1, <2>1 DEF planMatchesExposureRequirement, exposed
  <2>2. CASE exposed
    <3>1. p.exposure = r.delta /\ ContractExposures(c) # {}
      BY <1>1, <2>2 DEF exposed
    <3>. QED
      BY <1>7, <2>2, <3>1 DEF planMatchesExposureRequirement, r, exposureOf
  <2>. QED
    BY <2>1, <2>2
<1>15. TakesFromContract(p, c)
  <2>1. \A i \in DOMAIN c.steps :
           /\ p.steps[i].id = c.steps[i].id /\ p.steps[i].terms = c.steps[i].terms
           /\ p.steps[i].targets # {}
           /\ \A t \in p.steps[i].targets : t.kind \in c.steps[i].kinds
    BY <1>1, PlannedSteps
  <2>. QED
    BY <1>1, <1>5, <1>12, <1>13, <1>14, <2>1 DEF TakesFromContract
<1>16. p.resources = Targets(p) /\ validateResources(p.resources, p.project)
  <2>1. p.resources = Targets(p)
    BY <1>1, PlannedSteps DEF Targets
  <2>2. Unique(p.resources, stableKey)
    BY <1>1, PlannedSteps, ResourcesDistinguished
  <2>3. \A t \in p.resources : t.project = p.project
    BY <1>1, PlannedSteps
  <2>4. validateResources(p.resources, p.project)
    BY <2>2, <2>3, Zenon DEF validateResources
  <2>. QED
    BY <2>1, <2>4
<1>17. validateRecoveryAssets(p)
  <2>1. \A t \in p.resources : stableKey(t) # stableKey(backup.resource)
    BY <1>1, <1>10, PlannedSteps DEF stableKey
  <2>2. RecoveryAssetValid(p, backup)
    <3>1. p.resources # {} /\ Targets(p) = p.resources
      BY <1>1, <1>16, PlannedSteps
    <3>2. /\ backup.verified <= p.created /\ p.created - backup.verified <= p.expires - p.created
          /\ p.created - backup.verified <= SnapshotAge
      BY <1>1, <1>3, <1>10, AddressAssumption DEF AddressAssumption
    <3>. QED
      BY <1>10, <2>1, <3>1, <3>2 DEF RecoveryAssetValid
  <2>3. {a.resource : a \in p.assets} = {backup.resource}
    BY <1>1
  <2>4. ASSUME NEW x
        PROVE  Unique({x}, stableKey)
    <3>1. {stableKey(y) : y \in {x}} = {stableKey(x)}
      OBVIOUS
    <3>2. Cardinality({x}) = 1 /\ Cardinality({stableKey(x)}) = 1
      BY FS_Singleton
    <3>. QED
      BY <3>1, <3>2, Zenon DEF Unique, Image
  <2>5. validateResources({a.resource : a \in p.assets}, p.project)
    <3>1. \A t \in {backup.resource} : t.project = p.project
      BY <1>1, <1>10
    <3>. QED
      BY <2>3, <2>4, <3>1, Zenon DEF validateResources
  <2>6. Unique(p.assets, LAMBDA a : stableKey(a.resource))
    <3>1. {stableKey(a.resource) : a \in p.assets} = {stableKey(backup.resource)}
      BY <1>1
    <3>2. Cardinality({backup}) = 1 /\ Cardinality({stableKey(backup.resource)}) = 1
      BY FS_Singleton
    <3>3. p.assets = {backup}
      BY <1>1
    <3>. QED
      BY <3>1, <3>2, <3>3, Zenon DEF Unique, Image
  <2>. QED
    BY <1>1, <2>2, <2>5, <2>6 DEF validateRecoveryAssets
<1>18. Unique(p.preconditions, LAMBDA x : x.id)
  <2>1. CASE exposed
    <3>1. p.preconditions = {simulated}
      BY <1>1, <2>1
    <3>2. {x.id : x \in p.preconditions} = {simulated.id}
      BY <3>1
    <3>. QED
      BY <3>1, <3>2, FS_Singleton DEF Unique, Image
  <2>2. CASE ~exposed
    BY <1>1, <2>2, FS_EmptySet DEF Unique, Image
  <2>. QED
    BY <2>1, <2>2
<1>19. p.controls # None =>
           LET q == p.controls
           IN  /\ q.sources # {}
               /\ \A s \in q.sources :
                      validExposureSource(s) /\ sourceAllowedForExposure(p.exposure, s.kind)
               /\ validExposureAuthentication(p.exposure, q.authentication)
               /\ validExposureTLS(p.exposure, q.trust)
               /\ [id |-> q.simulation, ok |-> TRUE] \in p.preconditions
               /\ q.wide <=> [kind |-> "cidr", range |-> Everywhere] \in q.sources
               /\ IF q.wide THEN q.review = None /\ (q.permanent <=> q.expires = None)
                  ELSE ~q.permanent /\ (q.expires = None <=> q.review # None)
  <2>. SUFFICES ASSUME exposed
                PROVE  LET q == p.controls
                       IN  /\ q.sources # {}
                           /\ \A s \in q.sources :
                                  /\ validExposureSource(s)
                                  /\ sourceAllowedForExposure(p.exposure, s.kind)
                           /\ validExposureAuthentication(p.exposure, q.authentication)
                           /\ validExposureTLS(p.exposure, q.trust)
                           /\ [id |-> q.simulation, ok |-> TRUE] \in p.preconditions
                           /\ q.wide <=> [kind |-> "cidr", range |-> Everywhere] \in q.sources
                           /\ IF q.wide THEN q.review = None /\ (q.permanent <=> q.expires = None)
                              ELSE ~q.permanent /\ (q.expires = None <=> q.review # None)
    BY <1>1
  <2>1. p.exposure = r.delta /\ p.preconditions = {[id |-> r.simulation, ok |-> TRUE]}
    BY <1>1 DEF simulated
  <2>2. /\ validExposureSource(sourceOf(r)) /\ sourceAllowedForExposure(r.delta, sourceOf(r).kind)
        /\ r.wide <=> [kind |-> "cidr", range |-> Everywhere] = sourceOf(r)
    BY <1>7, PlannedSource
  <2>3. /\ validExposureAuthentication(r.delta, IF r.delta = "tunnel" THEN "iap" ELSE "scram")
        /\ validExposureTLS(r.delta, "public")
    BY <1>7 DEF validExposureAuthentication, validExposureTLS
  <2>4. /\ p.controls.sources # {}
        /\ \A s \in p.controls.sources :
               validExposureSource(s) /\ sourceAllowedForExposure(p.exposure, s.kind)
        /\ p.controls.wide <=> [kind |-> "cidr", range |-> Everywhere] \in p.controls.sources
    BY <1>7, <2>1, <2>2
  <2>5. /\ validExposureAuthentication(p.exposure, p.controls.authentication)
        /\ validExposureTLS(p.exposure, p.controls.trust)
        /\ [id |-> p.controls.simulation, ok |-> TRUE] \in p.preconditions
    BY <1>7, <2>1, <2>3
  <2>6. IF p.controls.wide
        THEN p.controls.review = None /\ (p.controls.permanent <=> p.controls.expires = None)
        ELSE ~p.controls.permanent /\ (p.controls.expires = None <=> p.controls.review # None)
    BY <1>3, <1>7
  <2>. QED
    BY <2>4, <2>5, <2>6
<1>20. ChosenWell(p, c)
  <2>1. validatePolicyHash(p.policy) /\ p.policy.match
    BY <1>1, <1>3 DEF validatePolicyHash
  <2>2. \A i \in DOMAIN c.steps : \A t \in p.steps[i].targets : \E a \in p.assets : t \in a.protects
    BY <1>1, <1>10, PlannedSteps
  <2>. QED
    BY <1>1, <1>5, <1>9, <1>16, <1>17, <1>18, <1>19, <2>1, <2>2 DEF ChosenWell
<1>21. HasTime(p)
  <2>1. earliest(p) = created
    BY <1>1 DEF earliest
  <2>2. p.controls # None =>
            /\ p.controls.expires # None => created + cooling < p.controls.expires
            /\ p.controls.review = None
    BY <1>1, <1>3, <1>7
  <2>. QED
    BY <1>1, <1>3, <2>1, <2>2 DEF HasTime
<1>22. Follower(p, c)
  BY <1>11, <1>15, <1>20, <1>21 DEF Follower, FollowsToTheLetter, ContractTyped
<1>. QED
  BY <1>22 DEF p

\* The rules of the registry, of a plan and of the gate never shut a contract out:
\* whatever a contract the registry accepts asks for, in any environment and with
\* any cooling-off, there are a plan and evidence that the gate lets through.
THEOREM EveryContractHasPlan ==
    ASSUME GateAssumption, NoneIsNothing, AddressWidth > 0,
           NEW c, ContractTyped(c), ContractValid(c),
           NEW class, NEW created \in Nat, NEW cooling \in Nat
    PROVE  \E p, e : /\ p.class = class /\ p.created = created /\ p.cooling = cooling
                     /\ PlanTyped(p) /\ ValidatePlanForExecution(p, e, c)
<1>. DEFINE p == planOf(c, class, created, cooling)
            ready == created + cooling
            needs == minimumApproval(c) # Read \/ mutationCapable(c) \/ p.approval # Read
            e == [checked |-> ready,
                  look |-> [plan |-> p, at |-> ready, resources |-> p.resources,
                            permissions |-> p.permissions, preconditions |-> p.preconditions,
                            policy |-> p.policy, assets |-> p.assets],
                  approval |-> IF needs THEN [plan |-> p, created |-> created] ELSE None,
                  login |-> IF p.stepUp THEN [plan |-> p, created |-> ready] ELSE None,
                  intent |-> None]
<1>1. Follower(p, c)
  BY PlanFollows
<1>2. p.class = class /\ p.created = created /\ p.cooling = cooling /\ p.intent = None
  BY DEF planOf
<1>. HIDE DEF p
<1>3. earliest(p) = created /\ earliest(p) + p.cooling = ready
  BY <1>2 DEF earliest
<1>4. \A t : IsRecord([plan |-> p, created |-> t])
  BY DEF IsRecord
<1>5. \A t : [plan |-> p, created |-> t] # None
  BY <1>4 DEF NoneIsNothing
<1>. HIDE DEF needs, ready
<1>6. /\ e.checked = ready /\ e.look.plan = p /\ e.look.at = ready
      /\ e.look.resources = p.resources /\ e.look.permissions = p.permissions
      /\ e.look.preconditions = p.preconditions /\ e.look.policy = p.policy
      /\ e.look.assets = p.assets /\ e.intent = None
      /\ e.approval = IF needs THEN [plan |-> p, created |-> created] ELSE None
      /\ e.login = IF p.stepUp THEN [plan |-> p, created |-> ready] ELSE None
  OBVIOUS
<1>. HIDE DEF e
<1>7. /\ needs => e.approval # None /\ e.approval.plan = p /\ e.approval.created = earliest(p)
      /\ ~needs => e.approval = None
  BY <1>3, <1>5, <1>6
<1>8. /\ p.stepUp => e.login # None /\ e.login.plan = p /\ e.login.created = e.checked
      /\ ~p.stepUp => e.login = None
  BY <1>5, <1>6
<1>9. ValidatePlanForExecution(p, e, c)
  <2>1. e.checked = earliest(p) + p.cooling /\ e.look.at = e.checked
    BY <1>3, <1>6
  <2>. QED
    BY <1>1, <1>2, <1>6, <1>7, <1>8, <2>1, FollowerPasses DEF needs
<1>. QED
  BY <1>1, <1>2, <1>9 DEF Follower

----------------------------------------------------------------------------
(* The handoff of the bootstrap plan: what an edited document can hold *)

\* The second step of the fourteen is the retention lock.
LEMMA SecondStep ==
    /\ 1 \in DOMAIN Definitions /\ 2 \in DOMAIN Definitions
    /\ Definitions[2].id = "k1-retention-lock" /\ Definitions[2].retry = Retry(3, 2, 10)
    /\ "buckets.get" \in Definitions[2].permissions
<1>. DEFINE r == buildDesiredResources(Config.region)
<1>1. /\ DOMAIN stepRegistry(r) = 1..14
      /\ stepRegistry(r)[2] = Step("k1-retention-lock", {"audit-bucket"}, Retry(3, 2, 10), "pause",
                                   {"buckets.get", "buckets.update"})
  BY DEF stepRegistry
<1>. HIDE DEF r
<1>. QED
  BY <1>1 DEF Definitions, Step, r

RequestFields == {"id", "created", "price", "preflight", "evidence", "policy"}

\* A request that was compiled, at some time.
Compilable(q) == DOMAIN q = RequestFields /\ q.created \in Nat

\* What ParseCompiledPlan reads of the compiled document of a request.
LEMMA CompiledFields ==
    ASSUME NEW q
    PROVE  LET x == CompiledPayload(q)
               limits == buildRunLimits(q.price)
               plan0 == buildPlanValues(q.id, q.preflight.account, q.created,
                                        q.created + Config.validity, q.policy, limits, Definitions)
               binding == buildEnvelopeBinding(plan0, q.preflight, q.evidence)
           IN  /\ x = [plan |-> plan0, binding |-> binding,
                       desired |-> desiredState(q.preflight.account),
                       resources |-> buildDesiredResources(Config.region), limits |-> limits,
                       price |-> q.price, evidence |-> q.evidence,
                       intents |-> buildIntents(Definitions, binding)]
  BY DEF CompiledPayload

LEMMA PlanFields ==
    ASSUME NEW id, NEW account, NEW created, NEW expires, NEW reviewed, NEW limits
    PROVE  LET p == buildPlanValues(id, account, created, expires, reviewed, limits, Definitions)
           IN  /\ p.created = created /\ p.expires = expires /\ p.principal = account
               /\ \A d \in p.steps[2].targets : d = PlanResource(Definitions[2], limits)
               /\ p.steps[2].targets # {}
<1>. DEFINE p == buildPlanValues(id, account, created, expires, reviewed, limits, Definitions)
<1>1. /\ p.created = created /\ p.expires = expires /\ p.principal = account
  BY DEF buildPlanValues
<1>2. p.steps[2].targets = {PlanResource(Definitions[2], limits)}
  BY SecondStep DEF buildPlanValues
<1>. QED
  BY <1>1, <1>2

\* Whichever region the resources are in, the steps are the same fourteen.
LEMMA RegistryIgnoresRegion ==
    ASSUME NEW region
    PROVE  stepRegistry(buildDesiredResources(region)) = Definitions
<1>. DEFINE IDs == {"audit-bucket", "control-bucket", "test-network", "test-subnet",
                    "test-router", "test-nat", "test-iap-firewall", "test-internal-firewall",
                    "test-operator-sa", "test-destructive-sa", "test-vm-sa", "test-wipe-sa",
                    "test-operator-role", "test-destructive-role", "test-wipe-job",
                    "test-wipe-scheduler"}
<1>1. ASSUME NEW at PROVE {r.id : r \in buildDesiredResources(at)} = IDs
  BY <1>1 DEF buildDesiredResources, Desired
<1>2. {r.id : r \in buildDesiredResources(region)}
          = {r.id : r \in buildDesiredResources(Config.region)}
  BY <1>1
<1>. QED
  BY <1>2 DEF stepRegistry, Definitions

\* The intents of a registry differ between two bindings in the binding alone.
LEMMA IntentsButBinding ==
    ASSUME NEW x, NEW binding, x.intents = buildIntents(Definitions, binding)
    PROVE  Work(x) = buildIntents(Definitions, None)
<1>. DEFINE entry(i, b) ==
                [step |-> Definitions[i].id, binding |-> b, resources |-> Definitions[i].resources,
                 dependencies |-> IF i = 1 THEN {} ELSE {Definitions[i - 1].id},
                 retry |-> Definitions[i].retry, ponr |-> Definitions[i].ponr]
<1>1. /\ x.intents = [i \in DOMAIN Definitions |-> entry(i, binding)]
      /\ buildIntents(Definitions, None) = [i \in DOMAIN Definitions |-> entry(i, None)]
  BY DEF buildIntents
<1>2. ASSUME NEW i PROVE [entry(i, binding) EXCEPT !.binding = None] = entry(i, None)
  <2>1. PICK before : before = IF i = 1 THEN {} ELSE {Definitions[i - 1].id}
    OBVIOUS
  <2>2. ASSUME NEW b
        PROVE  entry(i, b) = [step |-> Definitions[i].id, binding |-> b,
                              resources |-> Definitions[i].resources, dependencies |-> before,
                              retry |-> Definitions[i].retry, ponr |-> Definitions[i].ponr]
    BY <2>1
  <2>. HIDE DEF entry
  <2>. QED
    BY <2>2
<1>. HIDE DEF entry
<1>3. DOMAIN x.intents = DOMAIN Definitions
      /\ \A i \in DOMAIN Definitions : x.intents[i] = entry(i, binding)
  BY <1>1
<1>4. Work(x) = [i \in DOMAIN Definitions |-> [entry(i, binding) EXCEPT !.binding = None]]
  BY <1>3 DEF Work
<1>. QED
  BY <1>1, <1>2, <1>4

\* The permissions of a plan are those of the definitions it is built from.
LEMMA RightsOfPlan ==
    ASSUME NEW x, NEW id, NEW account, NEW created, NEW expires, NEW reviewed, NEW limits,
           x.plan = buildPlanValues(id, account, created, expires, reviewed, limits, Definitions)
    PROVE  Rights(x) = UNION {{<<d.id, perm>> : perm \in d.permissions} : d \in Range(Definitions)}
<1>. DEFINE grants(d) == {[step |-> d.id, identity |-> "human", permission |-> perm,
                           resource |-> PlanResource(d, limits), granted |-> TRUE] :
                              perm \in d.permissions}
            keys(d) == {<<d.id, perm>> : perm \in d.permissions}
<1>1. x.plan.permissions = UNION {grants(d) : d \in Range(Definitions)}
  BY DEF buildPlanValues
<1>2. ASSUME NEW d, NEW g \in grants(d) PROVE <<g.step, g.permission>> \in keys(d)
  BY <1>2
<1>3. ASSUME NEW d, NEW k \in keys(d)
      PROVE  \E g \in grants(d) : k = <<g.step, g.permission>>
  <2>1. PICK perm \in d.permissions : k = <<d.id, perm>>
    BY <1>3
  <2>2. PICK g : g = [step |-> d.id, identity |-> "human", permission |-> perm,
                      resource |-> PlanResource(d, limits), granted |-> TRUE]
    OBVIOUS
  <2>3. g \in grants(d) /\ g.step = d.id /\ g.permission = perm
    BY <2>1, <2>2
  <2>. QED
    BY <2>1, <2>3
<1>. HIDE DEF grants
<1>4. Rights(x) \subseteq UNION {keys(d) : d \in Range(Definitions)}
  <2>. HIDE DEF keys
  <2>. QED
    BY <1>1, <1>2 DEF Rights
<1>5. UNION {keys(d) : d \in Range(Definitions)} \subseteq Rights(x)
  <2>. HIDE DEF keys
  <2>. QED
    BY <1>1, <1>3 DEF Rights
<1>. QED
  BY <1>4, <1>5

\* Whatever a document holds: if ParseCompiledPlan accepts it, its steps and
\* permissions are those the compiler gives every request, and its limits are
\* those of any compiled document it shares the plan with.
LEMMA AcceptedKeepsTheWork ==
    ASSUME NEW x, NEW q, validateCompiledPayload(x)
    PROVE  LET compiled == CompiledPayload(q)
           IN  /\ Work(x) = Work(compiled) /\ Rights(x) = Rights(compiled)
               /\ x.plan = compiled.plan => x.limits = compiled.limits
<1>1. PICK y : y = CompiledPayload(q)
  OBVIOUS
<1>2. PICK L : L = buildRunLimits(q.price)
  OBVIOUS
<1>3. /\ y.plan = buildPlanValues(q.id, q.preflight.account, q.created,
                                  q.created + Config.validity, q.policy, L, Definitions)
      /\ y.limits = L /\ \E b : y.intents = buildIntents(Definitions, b)
  BY <1>1, <1>2, CompiledFields
<1>4. stepRegistry(x.resources) = Definitions
  BY RegistryIgnoresRegion DEF validateCompiledPayload
<1>5. /\ x.plan = buildPlanValues(x.plan.id, x.desired.account, x.plan.created, x.plan.expires,
                                  x.plan.policy, x.limits, Definitions)
      /\ x.intents = buildIntents(Definitions, x.binding)
  BY <1>4 DEF validateCompiledPayload
<1>6. Work(x) = Work(y)
  BY <1>3, <1>5, IntentsButBinding
<1>7. Rights(x) = Rights(y)
  <2>1. Rights(x) = UNION {{<<d.id, perm>> : perm \in d.permissions} : d \in Range(Definitions)}
    BY <1>5, RightsOfPlan
  <2>2. Rights(y) = UNION {{<<d.id, perm>> : perm \in d.permissions} : d \in Range(Definitions)}
    BY <1>3, RightsOfPlan
  <2>. QED
    BY <2>1, <2>2
<1>8. ASSUME x.plan = y.plan PROVE x.limits = y.limits
  <2>1. /\ \A d \in x.plan.steps[2].targets : d = PlanResource(Definitions[2], x.limits)
        /\ x.plan.steps[2].targets # {}
    BY <1>5, PlanFields
  <2>2. \A d \in y.plan.steps[2].targets : d = PlanResource(Definitions[2], L)
    BY <1>3, PlanFields
  <2>3. PlanResource(Definitions[2], x.limits) = PlanResource(Definitions[2], L)
    BY <1>8, <2>1, <2>2
  <2>. QED
    BY <1>3, <2>3 DEF PlanResource
<1>. QED
  BY <1>1, <1>6, <1>7, <1>8

----------------------------------------------------------------------------
(* The handoff: its inductive invariant *)

ApprovalFields == {"document", "by", "at", "until"}
Windowed(a) == DOMAIN a = ApprovalFields /\ a.at \in Times /\ a.until \in Times

\* An envelope holds a compiled document, edited or not, and an approval.
Sealed(v) ==
    /\ DOMAIN v = {"document", "approval", "sealed", "entry"}
    /\ Windowed(v.approval)
    /\ DOMAIN v.document = {"request", "edit"} /\ Compilable(v.document.request)

Sessions == [step : StorageSteps, now : Nat, observed : Nat, until : Nat, begun : Nat \cup {None}]

\* A session is no older than the skew lets it be, and began inside the approval.
SessionInv ==
    /\ session \in Sessions /\ session.now <= now + Skew
    /\ session.begun # None =>
           /\ session.begun \in Nat /\ session.now <= session.begun + Skew
           /\ session.begun \in loaded.approval.at..(loaded.approval.until - 1)

\* What is read back keeps the work of a compiled plan.
LoadedWork == loaded # None => KeepsTheWork(loaded.document)

HandoffInv ==
    /\ now \in Times
    /\ request # None => Compilable(request)
    /\ approvalProof # None => Windowed(approvalProof) /\ approvalProof.document.edit = "none"
    /\ envelope # None => approvalProof # None /\ Sealed(envelope)
    /\ loaded # None => approvalProof # None /\ Windowed(loaded.approval)
    /\ ApprovedDocumentRuns /\ LoadedWork
    /\ session # None => loaded # None /\ SessionInv
    /\ sent # None => session # None /\ session.begun # None /\ MutationInsideWindows

\* What is read back with the approval as it was made is what was approved.
LEMMA AcceptedIsApproved ==
    ASSUME ConfigAssumption, NEW v, Sealed(v), ParseBootstrapEnvelope(v),
           v.approval.document.edit = "none"
    PROVE  LET created == v.document.request.created
           IN  /\ v.document.edit = "none"
               /\ v.document = v.approval.document
               /\ v.approval.by = v.document.request.preflight.account
               /\ created <= v.approval.at /\ v.approval.at <= v.sealed
               /\ v.sealed < v.approval.until
               /\ v.approval.until <= created + Config.validity
<1>1. v.document = v.approval.document
  BY DEF ParseBootstrapEnvelope, EnvelopeValid, validateApprovalProof
<1>2. PICK q : q = Full(v.document.request)
  OBVIOUS
<1>3. q.created = v.document.request.created /\ q.preflight = v.document.request.preflight
  BY <1>2 DEF Full, Sealed, Compilable, RequestFields
<1>4. Payload(v.document) = CompiledPayload(q)
  BY <1>1, <1>2 DEF Payload
<1>5. PICK plan0 : plan0 = Payload(v.document).plan
  OBVIOUS
<1>6. /\ plan0.created = q.created /\ plan0.expires = q.created + Config.validity
      /\ plan0.principal = q.preflight.account
  <2>1. plan0 = buildPlanValues(q.id, q.preflight.account, q.created,
                                q.created + Config.validity, q.policy, buildRunLimits(q.price),
                                Definitions)
    BY <1>4, <1>5, CompiledFields
  <2>. QED
    BY <2>1, PlanFields
<1>7. EnvelopeValid(v, plan0)
  BY <1>5 DEF ParseBootstrapEnvelope
<1>. QED
  BY <1>1, <1>3, <1>6, <1>7 DEF EnvelopeValid, validateApprovalProof

LEMMA HandoffStep ==
    ASSUME ConfigAssumption, EnvelopeAssumption, ClockAssumption, HandoffInv,
           [HandoffNext]_handoffVars
    PROVE  HandoffInv'
<1>. USE DEF HandoffInv
<1>0. Times \subseteq Nat /\ now \in Nat /\ Skew \in Nat
  BY DEF Times, EnvelopeAssumption, ClockAssumption
<1>1. CASE UNCHANGED handoffVars
  BY <1>1 DEF handoffVars, ApprovedDocumentRuns, LoadedWork, SessionInv, MutationInsideWindows
<1>2. ASSUME NEW found \in Inventories, NEW life, Preflight(found, life)
      PROVE  HandoffInv'
  <2>1. preflight' = Observation(found, now, now + life)
        /\ UNCHANGED <<now, proof, request, approvalProof, envelope, loaded, session, sent>>
    BY <1>2 DEF Preflight
  <2>. QED
    BY <2>1 DEF ApprovedDocumentRuns, LoadedWork, SessionInv, MutationInsideWindows
<1>3. ASSUME NEW withheld, ProvePermissions(withheld)
      PROVE  HandoffInv'
  BY <1>3 DEF ProvePermissions, ApprovedDocumentRuns, LoadedWork, SessionInv, MutationInsideWindows
<1>4. ASSUME NEW created \in Times, NEW price, NEW approved, Compile(created, price, approved)
      PROVE  HandoffInv'
  <2>1. /\ preflight # None
        /\ request' = [id |-> "plan", created |-> created, price |-> price,
                       preflight |-> preflight, evidence |-> proof,
                       policy |-> [local |-> "policy", approved |-> approved, match |-> TRUE]]
        /\ UNCHANGED <<now, preflight, proof, approvalProof, envelope, loaded, session, sent>>
    BY <1>4 DEF Compile
  <2>2. Compilable(request')
    BY <1>0, <2>1 DEF Compilable, RequestFields
  <2>. QED
    BY <2>1, <2>2 DEF ApprovedDocumentRuns, LoadedWork, SessionInv, MutationInsideWindows
<1>5. CASE Approve
  <2>1. /\ \E by \in {"operator", "other"}, at, until \in Times :
               approvalProof' = [document |-> Compiled(request), by |-> by, at |-> at,
                                 until |-> until]
        /\ UNCHANGED <<now, preflight, proof, request, envelope, loaded, session, sent>>
    BY <1>5 DEF Approve
  <2>2. Windowed(approvalProof') /\ approvalProof'.document.edit = "none"
    BY <2>1 DEF Windowed, ApprovalFields, Compiled
  <2>3. approvalProof = None /\ envelope = None /\ loaded = None
    BY <1>5 DEF Approve
  <2>4. loaded' = None /\ envelope' = None
    BY <2>1, <2>3
  <2>. QED
    BY <2>1, <2>2, <2>4 DEF ApprovedDocumentRuns, LoadedWork, SessionInv, MutationInsideWindows
<1>6. CASE SealBootstrapEnvelope
  <2>1. /\ request # None /\ approvalProof # None
        /\ \E sealed, entry \in Times :
               envelope' = [document |-> Compiled(request), approval |-> approvalProof,
                            sealed |-> sealed, entry |-> entry]
        /\ UNCHANGED <<now, preflight, proof, request, approvalProof, loaded, session, sent>>
    BY <1>6 DEF SealBootstrapEnvelope
  <2>2. /\ DOMAIN Compiled(request) = {"request", "edit"}
        /\ Compiled(request).request = request
    BY DEF Compiled
  <2>3. Sealed(envelope')
    BY <2>1, <2>2 DEF Sealed
  <2>. QED
    BY <2>1, <2>3 DEF ApprovedDocumentRuns, LoadedWork, SessionInv, MutationInsideWindows
<1>7. ASSUME NEW e \in Edits, NEW reapproved, Edit(e, reapproved)
      PROVE  HandoffInv'
  <2>1. /\ envelope # None /\ Sealed(envelope)
        /\ envelope' = [envelope EXCEPT !.document.edit = e,
                                        !.approval.document.edit = IF reapproved THEN e ELSE @]
        /\ UNCHANGED <<now, preflight, proof, request, approvalProof, loaded, session, sent>>
    BY <1>7 DEF Edit
  <2>2. PICK f : envelope' = [envelope EXCEPT !.document.edit = e, !.approval.document.edit = f]
    BY <2>1
  <2>3. PICK v : v = envelope /\ Sealed(v)
    BY <2>1
  <2>4. PICK w : /\ w = [v EXCEPT !.document.edit = e, !.approval.document.edit = f]
                 /\ envelope' = w
    BY <2>2, <2>3
  <2>5. Sealed(w)
    BY <2>3, <2>4 DEF Sealed, Windowed, ApprovalFields
  <2>. QED
    BY <2>1, <2>4, <2>5 DEF ApprovedDocumentRuns, LoadedWork, SessionInv, MutationInsideWindows
<1>8. CASE Load
  <2>1. /\ envelope # None /\ loaded = None /\ ParseBootstrapEnvelope(envelope)
        /\ loaded' = envelope
        /\ UNCHANGED <<now, preflight, proof, request, approvalProof, envelope, session, sent>>
    BY <1>8 DEF Load
  <2>2. PICK v : v = envelope /\ Sealed(v) /\ ParseBootstrapEnvelope(v) /\ loaded' = v
    BY <2>1
  <2>3. Windowed(loaded'.approval)
    BY <2>2 DEF Sealed
  <2>4. approvalProof # None /\ approvalProof.document.edit = "none"
    BY <2>1
  <2>5. ApprovedDocumentRuns'
    BY <2>1, <2>2, <2>4, AcceptedIsApproved DEF ApprovedDocumentRuns
  <2>6. validateCompiledPayload(Payload(v.document))
    BY <2>2 DEF ParseBootstrapEnvelope
  <2>7. LoadedWork'
    BY <2>2, <2>6, AcceptedKeepsTheWork DEF LoadedWork, KeepsTheWork
  <2>. QED
    BY <2>1, <2>3, <2>4, <2>5, <2>7 DEF SessionInv, MutationInsideWindows
<1>9. CASE Authorize
  <2>1. PICK i \in IntentsOf(loaded), made \in 1..(MaxStepAttempts + 1), claimed \in Times,
             observed \in Times, until \in 2..(MaxTime + 1) :
             LET a == [binding |-> i.binding, step |-> i.step, attempt |-> made,
                       now |-> claimed, observed |-> observed, until |-> until]
             IN  /\ fresh(a)
                 /\ session' = [step |-> i.step, now |-> claimed, observed |-> observed,
                                until |-> until, begun |-> None]
    BY <1>9 DEF Authorize
  <2>2. /\ loaded # None /\ session = None
        /\ UNCHANGED <<now, preflight, proof, request, approvalProof, envelope, loaded, sent>>
    BY <1>9 DEF Authorize
  <2>3. i.step \in StorageSteps /\ claimed <= now + Skew
    BY <2>1 DEF IntentsOf, EnvelopeAssumption, fresh
  <2>4. claimed \in Nat /\ observed \in Nat /\ until \in Nat
    BY <1>0
  <2>5. session' \in Sessions /\ session'.now <= now' + Skew /\ session'.begun = None
    BY <2>1, <2>2, <2>3, <2>4 DEF Sessions
  <2>6. SessionInv'
    BY <2>5 DEF SessionInv
  <2>7. sent' = None
    BY <2>2
  <2>. QED
    BY <2>2, <2>6, <2>7 DEF ApprovedDocumentRuns, LoadedWork
<1>10. CASE Begin
  <2>1. /\ session # None /\ session.begun = None /\ validAt(loaded, now)
        /\ session' = [session EXCEPT !.begun = now]
        /\ UNCHANGED <<now, preflight, proof, request, approvalProof, envelope, loaded, sent>>
    BY <1>10 DEF Begin
  <2>2. PICK s \in Sessions : s = session /\ s.now <= now + Skew
    BY <2>1 DEF SessionInv
  <2>3. PICK w : w = [s EXCEPT !.begun = now] /\ session' = w
    BY <2>1, <2>2
  <2>4. w \in Sessions /\ w.now = s.now /\ w.begun = now
    BY <1>0, <2>2, <2>3 DEF Sessions
  <2>5. loaded # None /\ Windowed(loaded.approval)
    BY <2>1
  <2>6. now \in loaded.approval.at..(loaded.approval.until - 1)
    <3>1. loaded.approval.at <= now /\ now < loaded.approval.until
      BY <2>1 DEF validAt
    <3>. QED
      BY <1>0, <2>5, <3>1 DEF Windowed
  <2>7. SessionInv'
    BY <1>0, <2>1, <2>2, <2>3, <2>4, <2>6 DEF SessionInv
  <2>8. sent' = None
    BY <2>1
  <2>. QED
    BY <2>1, <2>5, <2>7, <2>8 DEF ApprovedDocumentRuns, LoadedWork
<1>11. ASSUME NEW operation, Mutate(operation)
       PROVE  HandoffInv'
  <2>1. /\ session # None /\ session.begun # None
        /\ operation \in mutatingOperations(session.step)
        /\ fresh(session) /\ sent' = [operation |-> operation, at |-> now]
        /\ UNCHANGED <<now, preflight, proof, request, approvalProof, envelope, loaded, session>>
    BY <1>11 DEF Mutate
  <2>2. PICK s \in Sessions : s = session
    BY <2>1 DEF SessionInv
  <2>3. /\ s.begun \in Nat /\ s.now \in Nat /\ s.now <= s.begun + Skew
        /\ s.begun \in loaded.approval.at..(loaded.approval.until - 1)
    BY <2>1, <2>2 DEF SessionInv, Sessions
  <2>4. s.observed <= now /\ now < s.until /\ now <= s.now + Skew
    BY <2>1, <2>2 DEF fresh
  <2>5. now < s.begun + 2 * Skew + 1
    BY <1>0, <2>3, <2>4
  <2>6. operation \in {"retention", "lock-retention"} => s.step = "k1-retention-lock"
    BY <2>1, <2>2 DEF mutatingOperations, Sessions, StorageSteps
  <2>7. sent'.at = now /\ sent'.operation = operation
    BY <2>1
  <2>8. MutationInsideWindows'
    BY <2>1, <2>2, <2>3, <2>4, <2>5, <2>6, <2>7 DEF MutationInsideWindows
  <2>9. SessionInv' /\ ApprovedDocumentRuns' /\ LoadedWork'
    BY <2>1 DEF SessionInv, ApprovedDocumentRuns, LoadedWork
  <2>. QED
    BY <2>1, <2>8, <2>9
<1>12. CASE HandoffTick
  <2>1. /\ now' = now + 1 /\ now' \in Times
        /\ UNCHANGED <<preflight, proof, request, approvalProof, envelope, loaded, session, sent>>
    BY <1>0, <1>12 DEF HandoffTick, Tick, Times, ClockAssumption
  <2>2. ASSUME session # None PROVE SessionInv'
    <3>1. PICK s \in Sessions : s = session /\ s.now <= now + Skew
      BY <2>2 DEF SessionInv
    <3>2. s.now <= now' + Skew
      BY <1>0, <2>1, <3>1 DEF Sessions
    <3>. QED
      BY <2>1, <2>2, <3>1, <3>2 DEF SessionInv
  <2>. QED
    BY <2>1, <2>2 DEF ApprovedDocumentRuns, LoadedWork, MutationInsideWindows
<1>. QED
  BY <1>1, <1>2, <1>3, <1>4, <1>5, <1>6, <1>7, <1>8, <1>9, <1>10, <1>11, <1>12 DEF HandoffNext

\* Whatever is looked at, compiled, approved, edited, read back and opened, and
\* whenever: under an approval as it was made only what was approved is read
\* back, an edited document that is accepted holds the steps and permissions of
\* every compiled plan, and a changing call is sent inside the windows of its
\* session, its step and its approval.
THEOREM ApprovedPlanIsSent == HandoffSpec => []SentAsApproved
<1>1. HandoffInit => HandoffInv
  BY ClockAssumption
     DEF HandoffInit, HandoffInv, ClockInit, Times, ClockAssumption, ApprovedDocumentRuns, LoadedWork,
         MutationInsideWindows
<1>2. HandoffInv /\ [HandoffNext]_handoffVars => HandoffInv'
  BY HandoffStep, ConfigAssumption, EnvelopeAssumption, ClockAssumption
<1>3. HandoffInv => SentAsApproved
  BY DEF HandoffInv, SentAsApproved, ApprovedDocumentRuns, LoadedWork, EditsKeepTheWork,
         MutationInsideWindows
<1>. QED
  BY <1>1, <1>2, <1>3, PTL DEF HandoffSpec

----------------------------------------------------------------------------
(* A plan is compiled for an empty project *)

\* A look at the project that was taken at some time and is well formed.
Seen(o) ==
    /\ PreflightValid(o) /\ o.observed \in Nat /\ o.until \in Nat
    /\ o.ranges \subseteq AddressPrefixes
    /\ \A f \in o.firewalls : \A a \in f.allowed : a.ports \subseteq Nat \X Nat

LEMMA ObservationSeen ==
    ASSUME EnvelopeAssumption, NEW found \in Inventories, NEW at \in Nat, NEW until \in Nat,
           PreflightValid(Observation(found, at, until))
    PROVE  Seen(Observation(found, at, until))
<1>. DEFINE o == Observation(found, at, until)
<1>1. InventoryTyped(found)
  BY DEF EnvelopeAssumption
<1>2. /\ o.observed = at /\ o.until = until
      /\ o.ranges = found.ranges /\ o.firewalls = found.firewalls
  BY <1>1 DEF Observation, InventoryTyped
<1>. HIDE DEF o
<1>. QED
  BY <1>1, <1>2 DEF Seen, InventoryTyped, o

\* What a compiled request asks of the look, which the property sees otherwise:
\* identities for names and places, addresses for prefixes.
LEMMA FitProject ==
    ASSUME ConfigAssumption, AddressAssumption, NEW q, q.created \in Nat, Seen(q.preflight),
           validateCompileRequest(q), Masked(Config.cidr),
           rejectTargetCollisions(q.preflight, buildDesiredResources(Config.region))
    PROVE  LET o == q.preflight
           IN  /\ q.created - o.observed \in 0..(MaxEvidenceLifetime - 1)
               /\ \A r \in o.resources, d \in buildDesiredResources(Config.region) :
                      /\ ProviderID(r) # ProviderID(d)
                      /\ r.kind = "bucket" /\ d.kind = "bucket" => r.id # d.id
               /\ \A p \in o.ranges : ~SharesAddress(p, Config.cidr)
               /\ ~\E f \in o.firewalls : \E a \in f.allowed :
                      /\ ~f.disabled /\ f.direction = "ingress" /\ Everywhere \in f.sources
                      /\ a.protocol \in {"tcp", "6", "all"}
                      /\ a.ports = {} \/ \E p \in a.ports : 27017 \in p[1]..p[2]
<1>1. PICK o : o = q.preflight
  OBVIOUS
<1>2. Seen(o)
  BY <1>1
<1>3. /\ o.project = Config.project /\ FreshAt(o, q.created)
      /\ ~CIDROverlaps(o, Config.cidr) /\ \A f \in o.firewalls : ~exposesMongoDB(f)
  BY <1>1 DEF validateCompileRequest
<1>4. q.created - o.observed \in 0..(MaxEvidenceLifetime - 1)
  <2>1. /\ o.observed \in Nat /\ o.until \in Nat /\ MaxEvidenceLifetime \in Nat
        /\ o.until - o.observed <= MaxEvidenceLifetime
    BY <1>2 DEF Seen, PreflightValid, ConfigAssumption
  <2>2. o.observed <= q.created /\ q.created < o.until
    BY <1>3 DEF FreshAt
  <2>. QED
    BY <2>1, <2>2
<1>5. ASSUME NEW r \in o.resources, NEW d \in buildDesiredResources(Config.region)
      PROVE  /\ ProviderID(r) # ProviderID(d)
             /\ r.kind = "bucket" /\ d.kind = "bucket" => r.id # d.id
  <2>1. r.project = Config.project
    BY <1>2, <1>3 DEF Seen, PreflightValid
  <2>2. r.kind = d.kind /\ r.id = d.id =>
            d.kind # "bucket" /\ (r.location # d.location \/ ProviderID(r) # ProviderID(d))
    BY <1>1, <2>1 DEF rejectTargetCollisions
  <2>3. ProviderID(r) = ProviderID(d) =>
            r.kind = d.kind /\ r.id = d.id /\ r.location = d.location
    BY DEF ProviderID
  <2>. QED
    BY <2>2, <2>3
<1>6. ASSUME NEW p \in o.ranges, SharesAddress(p, Config.cidr)
      PROVE  FALSE
  <2>1. p \in AddressPrefixes /\ Masked(p) /\ Config.cidr \in AddressPrefixes
    BY <1>2 DEF Seen, PreflightValid, ConfigAssumption
  <2>2. PICK a \in 0..(TwoTo[AddressWidth] - 1) :
            /\ a \div PrefixSize(p) = p.address \div PrefixSize(p)
            /\ a \div PrefixSize(Config.cidr) = Config.cidr.address \div PrefixSize(Config.cidr)
    BY <1>6 DEF SharesAddress
  <2>3. a \in Nat
    BY TwoToPositive DEF AddressAssumption
  <2>4. PrefixOverlaps(Config.cidr, p)
    BY <2>1, <2>2, <2>3, OverlapFound
  <2>. QED
    BY <1>3, <1>6, <2>4 DEF CIDROverlaps
<1>7. ASSUME NEW f \in o.firewalls, NEW a \in f.allowed,
             ~f.disabled, f.direction = "ingress", Everywhere \in f.sources,
             a.protocol \in {"tcp", "6", "all"},
             a.ports = {} \/ \E p \in a.ports : 27017 \in p[1]..p[2]
      PROVE  FALSE
  <2>1. a.ports \subseteq Nat \X Nat /\ ~exposesMongoDB(f)
    BY <1>2, <1>3 DEF Seen
  <2>2. ASSUME NEW p \in a.ports, 27017 \in p[1]..p[2]
        PROVE  p[1] <= 27017 /\ 27017 <= p[2]
    BY <2>1, <2>2
  <2>. QED
    BY <1>7, <2>1, <2>2 DEF exposesMongoDB
<1>. QED
  BY <1>1, <1>4, <1>5, <1>6, <1>7

\* What was compiled is the fields it was asked with and the desired state.
LEMMA CompiledRequest ==
    ASSUME NEW q, DOMAIN q = RequestFields
    PROVE  /\ Full(q).created = q.created /\ Full(q).preflight = q.preflight
           /\ Payload(Compiled(q)).desired.cidr = Config.cidr
<1>1. PICK f : f = Full(q)
  OBVIOUS
<1>2. f.created = q.created /\ f.preflight = q.preflight
  BY <1>1 DEF Full, RequestFields
<1>3. Payload(Compiled(q)) = CompiledPayload(f)
  BY <1>1 DEF Payload, Compiled
<1>4. CompiledPayload(f).desired = desiredState(f.preflight.account)
  BY CompiledFields
<1>. QED
  BY <1>1, <1>2, <1>3, <1>4 DEF desiredState

\* Wherever buckets, networks, ranges and rules were found, a plan is compiled
\* only for a project that at one recent look had none of what it would create.
THEOREM PlansNeedEmptyProject == HandoffSpec => []PlansStartFromEmptyProject
<1>. DEFINE Looked == now \in Nat /\ (preflight # None => Seen(preflight))
                      /\ PlansStartFromEmptyProject
<1>0. Times \subseteq Nat /\ MaxTime \in Nat
  BY ClockAssumption DEF Times, ClockAssumption
<1>1. HandoffInit => Looked
  BY DEF HandoffInit, ClockInit, PlansStartFromEmptyProject
<1>2. ASSUME Looked, [HandoffNext]_handoffVars
      PROVE  Looked'
  <2>1. CASE UNCHANGED <<request, preflight, now>>
    BY <1>2, <2>1 DEF PlansStartFromEmptyProject
  <2>2. CASE HandoffTick
    <3>1. now' \in Nat /\ UNCHANGED <<request, preflight>>
      BY <1>2, <2>2 DEF HandoffTick, Tick
    <3>. QED
      BY <1>2, <3>1 DEF PlansStartFromEmptyProject
  <2>3. ASSUME NEW found \in Inventories, NEW life \in 1..(MaxEvidenceLifetime + 1),
               Preflight(found, life)
        PROVE  Looked'
    <3>1. /\ preflight' = Observation(found, now, now + life) /\ UNCHANGED <<now, request>>
          /\ PreflightValid(Observation(found, now, now + life))
      BY <2>3 DEF Preflight
    <3>2. now + life \in Nat
      BY <1>2, ConfigAssumption DEF ConfigAssumption
    <3>3. Seen(preflight')
      BY <1>2, <3>1, <3>2, ObservationSeen, EnvelopeAssumption
    <3>. QED
      BY <1>2, <3>1, <3>3 DEF PlansStartFromEmptyProject
  <2>4. ASSUME NEW created \in Times, NEW price, NEW approved, Compile(created, price, approved)
        PROVE  Looked'
    <3>1. PICK q : /\ q = [id |-> "plan", created |-> created, price |-> price,
                           preflight |-> preflight, evidence |-> proof,
                           policy |-> [local |-> "policy", approved |-> approved, match |-> TRUE]]
                   /\ CompileAdmits(Full(q)) /\ validateCompiledPayload(Payload(Compiled(q)))
                   /\ request' = q
      BY <2>4 DEF Compile
    <3>2. preflight # None /\ UNCHANGED <<now, preflight>>
      BY <2>4 DEF Compile
    <3>3. DOMAIN q = RequestFields /\ q.created \in Nat /\ q.preflight = preflight
      BY <1>0, <3>1 DEF RequestFields
    <3>4. PICK f : f = Full(q) /\ f.created = q.created /\ f.preflight = preflight
      BY <3>3, CompiledRequest
    <3>5. Masked(Config.cidr)
      BY <3>1, <3>3, CompiledRequest DEF validateCompiledPayload, validateDesiredState
    <3>6. /\ f.created \in Nat /\ Seen(f.preflight) /\ validateCompileRequest(f)
          /\ rejectTargetCollisions(f.preflight, buildDesiredResources(Config.region))
      BY <1>2, <3>1, <3>2, <3>3, <3>4 DEF CompileAdmits
    <3>7. request'.created = f.created /\ request'.preflight = f.preflight
      BY <3>1, <3>3, <3>4
    <3>8. PlansStartFromEmptyProject'
      BY <3>5, <3>6, <3>7, FitProject, ConfigAssumption, AddressAssumption
         DEF PlansStartFromEmptyProject
    <3>. QED
      BY <1>2, <3>2, <3>8
  <2>. QED
    BY <1>2, <2>1, <2>2, <2>3, <2>4
       DEF HandoffNext, handoffVars, ProvePermissions, Approve, SealBootstrapEnvelope, Edit, Load,
           Authorize, Begin, Mutate
<1>. QED
  BY <1>1, <1>2, PTL DEF HandoffSpec

----------------------------------------------------------------------------
(* The pauses of a retry policy *)

Retrying(p) == p.initial \in Nat \ {0} /\ p.max \in Nat /\ p.initial <= p.max

\* One doubling: no smaller, within the maximum, and exact below half of it.
LEMMA Doubling ==
    ASSUME NEW p, Retrying(p), NEW d \in Nat, p.initial <= d, d <= p.max
    PROVE  /\ nextDelay(p, d) \in Nat /\ d <= nextDelay(p, d) /\ nextDelay(p, d) <= p.max
           /\ \/ nextDelay(p, d) = 2 * d
              \/ nextDelay(p, d) = p.max /\ 2 * d + 1 >= p.max
<1>1. PICK m \in Nat : m = p.max
  BY DEF Retrying
<1>2. PICK h \in Nat : h = m \div 2 /\ 2 * h <= m /\ m <= 2 * h + 1
  BY <1>1
<1>3. nextDelay(p, d) = IF d >= h THEN m ELSE 2 * d
  BY <1>1, <1>2 DEF nextDelay
<1>. QED
  BY <1>1, <1>2, <1>3

Pauses(f, p, n) == f = [k \in 1..n |-> IF k = 1 THEN p.initial ELSE nextDelay(p, f[k - 1])]

\* There is one function of the pauses before the attempts up to n.
LEMMA PausesExist ==
    ASSUME NEW p
    PROVE  \A n \in Nat : \E f : Pauses(f, p, n)
<1>. DEFINE S == {n \in Nat : \E f : Pauses(f, p, n)}
<1>1. 0 \in S
  <2>. DEFINE f == [k \in 1..0 |-> 0]
  <2>1. 1..0 = {}
    OBVIOUS
  <2>2. Pauses(f, p, 0)
    BY <2>1 DEF Pauses
  <2>. QED
    BY <2>2
<1>2. ASSUME NEW n \in S
      PROVE  n + 1 \in S
  <2>1. n \in Nat /\ n + 1 \in Nat
    OBVIOUS
  <2>2. PICK f : Pauses(f, p, n)
    OBVIOUS
  <2>. DEFINE g == [k \in 1..(n + 1) |->
                       IF k <= n THEN f[k]
                       ELSE IF k = 1 THEN p.initial ELSE nextDelay(p, f[k - 1])]
  <2>3. \A k \in 1..(n + 1) : g[k] = IF k = 1 THEN p.initial ELSE nextDelay(p, g[k - 1])
    <3>1. ASSUME NEW k \in 1..(n + 1)
          PROVE  g[k] = IF k = 1 THEN p.initial ELSE nextDelay(p, g[k - 1])
      <4>1. k # 1 => k - 1 \in 1..n /\ k - 1 \in 1..(n + 1) /\ k - 1 <= n
        BY <2>1
      <4>2. k # 1 => g[k - 1] = f[k - 1]
        BY <4>1
      <4>3. CASE k <= n
        <5>1. k \in 1..n
          BY <2>1, <4>3
        <5>2. f[k] = IF k = 1 THEN p.initial ELSE nextDelay(p, f[k - 1])
          BY <2>2, <5>1 DEF Pauses
        <5>. QED
          BY <4>2, <4>3, <5>2
      <4>4. CASE ~(k <= n)
        BY <4>2, <4>4
      <4>. QED
        BY <4>3, <4>4
    <3>. QED
      BY <3>1
  <2>4. g = [k \in 1..(n + 1) |-> IF k = 1 THEN p.initial ELSE nextDelay(p, g[k - 1])]
    BY <2>3
  <2>5. Pauses(g, p, n + 1)
    BY <2>4 DEF Pauses
  <2>. QED
    BY <2>1, <2>5
<1>3. S \in SUBSET Nat
  OBVIOUS
<1>. HIDE DEF S
<1>4. S = Nat
  BY <1>1, <1>2, <1>3, AllNaturals
<1>. QED
  BY <1>4 DEF S

\* The pauses do not depend on how many are computed, and stay in the policy.
LEMMA PausesAgree ==
    ASSUME NEW p, Retrying(p), NEW n \in Nat, NEW m \in Nat, n <= m,
           NEW f, Pauses(f, p, n), NEW g, Pauses(g, p, m)
    PROVE  \A k \in 1..n : f[k] = g[k] /\ f[k] \in Nat /\ p.initial <= f[k] /\ f[k] <= p.max
<1>. DEFINE good(k) == k \in 1..n => /\ f[k] = g[k] /\ f[k] \in Nat
                                     /\ p.initial <= f[k] /\ f[k] <= p.max
            S == {k \in Nat : good(k)}
<1>1. 0 \in S
  OBVIOUS
<1>2. ASSUME NEW k \in S
      PROVE  k + 1 \in S
  <2>1. k \in Nat /\ k + 1 \in Nat /\ good(k)
    OBVIOUS
  <2>. SUFFICES ASSUME k + 1 \in 1..n
                PROVE  /\ f[k + 1] = g[k + 1] /\ f[k + 1] \in Nat
                       /\ p.initial <= f[k + 1] /\ f[k + 1] <= p.max
    BY <2>1
  <2>2. k + 1 \in 1..m /\ (k + 1) - 1 = k
    BY <2>1
  <2>3. /\ f[k + 1] = IF k + 1 = 1 THEN p.initial ELSE nextDelay(p, f[k])
        /\ g[k + 1] = IF k + 1 = 1 THEN p.initial ELSE nextDelay(p, g[k])
    BY <2>2 DEF Pauses
  <2>4. CASE k = 0
    BY <2>3, <2>4 DEF Retrying
  <2>5. CASE k # 0
    <3>1. f[k] = g[k] /\ f[k] \in Nat /\ p.initial <= f[k] /\ f[k] <= p.max
      BY <2>1, <2>5
    <3>2. f[k + 1] = nextDelay(p, f[k]) /\ g[k + 1] = nextDelay(p, f[k])
      BY <2>1, <2>3, <2>5, <3>1
    <3>3. PICK d \in Nat : d = f[k]
      BY <3>1
    <3>4. /\ nextDelay(p, d) \in Nat /\ d <= nextDelay(p, d) /\ nextDelay(p, d) <= p.max
      BY <3>1, <3>3, Doubling
    <3>. QED
      BY <3>1, <3>2, <3>3, <3>4 DEF Retrying
  <2>. QED
    BY <2>4, <2>5
<1>3. S \in SUBSET Nat
  OBVIOUS
<1>. HIDE DEF S
<1>4. S = Nat
  BY <1>1, <1>2, <1>3, AllNaturals
<1>. QED
  BY <1>4 DEF S

\* What backoffSeconds computes is the last of them.
LEMMA BackoffIsPause ==
    ASSUME NEW p, NEW n \in Nat
    PROVE  \E f : Pauses(f, p, n) /\ backoffSeconds(p, n) = f[n]
<1>. DEFINE after == CHOOSE f : Pauses(f, p, n)
<1>1. Pauses(after, p, n)
  BY PausesExist
<1>2. backoffSeconds(p, n) = after[n]
  BY DEF backoffSeconds, Pauses
<1>. QED
  BY <1>1, <1>2

----------------------------------------------------------------------------
(* The attempts of a step *)

\* Every pause is the one the policy computes; what is not idempotent has mutated
\* nothing as long as it may be tried again.
RetryInv ==
    /\ policy \in Policies /\ idempotent \in BOOLEAN /\ stopped \in BOOLEAN
    /\ attempt \in Nat \ {0} /\ mutations \in Nat
    /\ delays \in Seq(Nat) /\ attempt = Len(delays) + 1
    /\ attempt > 1 => RetryPolicyValid(policy) /\ attempt <= policy.attempts
    /\ \A i \in DOMAIN delays : delays[i] = backoffSeconds(policy, i)
    /\ ~idempotent => mutations <= 1 /\ (~stopped => mutations = 0)

\* A policy that is valid and allows a second attempt has proper pauses.
LEMMA ValidRetries ==
    ASSUME PoliciesAssumption, policy \in Policies, RetryPolicyValid(policy), policy.attempts > 1
    PROVE  Retrying(policy)
  BY DEF PoliciesAssumption, RetryPolicyValid, Retrying

LEMMA PauseForms ==
    ASSUME NEW p, Retrying(p), NEW n \in Nat \ {0}
    PROVE  LET d == backoffSeconds(p, n)
           IN  /\ d \in Nat /\ p.initial <= d /\ d <= p.max
               /\ n = 1 => d = p.initial
               /\ n > 1 => LET c == backoffSeconds(p, n - 1)
                           IN  \/ d = 2 * c
                               \/ d = p.max /\ 2 * c + 1 >= p.max
<1>1. PICK f : Pauses(f, p, n) /\ backoffSeconds(p, n) = f[n]
  BY BackoffIsPause
<1>2. f[n] \in Nat /\ p.initial <= f[n] /\ f[n] <= p.max
  BY <1>1, PausesAgree
<1>3. f[n] = IF n = 1 THEN p.initial ELSE nextDelay(p, f[n - 1])
  BY <1>1 DEF Pauses
<1>4. ASSUME n > 1
      PROVE  LET c == backoffSeconds(p, n - 1)
             IN  \/ f[n] = 2 * c
                 \/ f[n] = p.max /\ 2 * c + 1 >= p.max
  <2>1. n - 1 \in Nat /\ n - 1 <= n /\ n - 1 \in 1..(n - 1) /\ n # 1
    BY <1>4
  <2>2. PICK g : Pauses(g, p, n - 1) /\ backoffSeconds(p, n - 1) = g[n - 1]
    BY <2>1, BackoffIsPause
  <2>3. g[n - 1] = f[n - 1] /\ g[n - 1] \in Nat /\ p.initial <= g[n - 1] /\ g[n - 1] <= p.max
    BY <1>1, <2>1, <2>2, PausesAgree
  <2>4. PICK c \in Nat : c = g[n - 1] /\ p.initial <= c /\ c <= p.max
    BY <2>3
  <2>5. f[n] = nextDelay(p, c) /\ backoffSeconds(p, n - 1) = c
    BY <1>3, <2>1, <2>2, <2>3, <2>4
  <2>6. nextDelay(p, c) = 2 * c \/ (nextDelay(p, c) = p.max /\ 2 * c + 1 >= p.max)
    BY <2>4, Doubling
  <2>. QED
    BY <2>5, <2>6
<1>. QED
  BY <1>1, <1>2, <1>3, <1>4

LEMMA RetryStep ==
    ASSUME PoliciesAssumption, RetryInv, [RetryNext]_retryVars
    PROVE  RetryInv'
<1>1. CASE UNCHANGED retryVars
  BY <1>1 DEF retryVars, RetryInv
<1>2. ASSUME NEW failure \in FailureClasses, NEW mutated \in BOOLEAN,
             NEW reported \in {"unknown", IF mutated THEN "occurred" ELSE "not-occurred"},
             Fail(failure, mutated, reported)
      PROVE  RetryInv'
  <2>1. /\ ~stopped /\ policy' = policy /\ idempotent' = idempotent
        /\ mutations' = IF mutated THEN mutations + 1 ELSE mutations
    BY <1>2 DEF Fail
  <2>2. /\ policy \in Policies /\ idempotent \in BOOLEAN /\ attempt \in Nat \ {0}
        /\ mutations \in Nat /\ mutations' \in Nat /\ delays \in Seq(Nat)
        /\ attempt = Len(delays) + 1 /\ attempt + 1 \in Nat \ {0}
        /\ ~idempotent => mutations = 0
    BY <2>1 DEF RetryInv
  <2>3. CASE mayRetry(policy, idempotent, attempt, failure, reported)
    <3>1. /\ attempt' = attempt + 1 /\ stopped' = FALSE
          /\ delays' = Append(delays, backoffSeconds(policy, attempt))
      BY <1>2, <2>3 DEF Fail
    <3>2. /\ RetryPolicyValid(policy) /\ attempt < policy.attempts
          /\ reported # "unknown" /\ (idempotent \/ reported # "occurred")
      BY <2>3 DEF mayRetry
    <3>3. policy.attempts \in Int
      BY <2>2 DEF PoliciesAssumption
    <3>4. Retrying(policy)
      BY <2>2, <3>2, <3>3, ValidRetries
    <3>5. backoffSeconds(policy, attempt) \in Nat
      BY <2>2, <3>4, PauseForms
    <3>6. PICK d \in Nat : d = backoffSeconds(policy, attempt)
      BY <3>5
    <3>7. /\ delays' \in Seq(Nat) /\ Len(delays') = Len(delays) + 1
          /\ \A i \in DOMAIN delays' : \/ i \in DOMAIN delays /\ delays'[i] = delays[i]
                                       \/ i = attempt /\ delays'[i] = d
      BY <2>2, <3>1, <3>6
    <3>8. \A i \in DOMAIN delays' : delays'[i] = backoffSeconds(policy, i)
      BY <3>6, <3>7 DEF RetryInv
    <3>9. \A i \in DOMAIN delays' : delays'[i] = backoffSeconds(policy', i)
      BY <2>1, <3>8
    <3>10. ~idempotent => ~mutated
      BY <3>2
    <3>11. RetryPolicyValid(policy')
      BY <2>1, <3>2
    <3>12. attempt' <= policy'.attempts /\ attempt' = Len(delays') + 1
      BY <2>1, <2>2, <3>1, <3>2, <3>3, <3>7
    <3>13. ~idempotent => mutations' = 0
      BY <2>1, <2>2, <3>10
    <3>14. /\ policy' \in Policies /\ idempotent' \in BOOLEAN /\ stopped' \in BOOLEAN
           /\ attempt' \in Nat \ {0} /\ mutations' \in Nat
      BY <2>1, <2>2, <3>1
    <3>15. ~idempotent' => mutations' = 0
      BY <2>1, <3>13, Zenon
    <3>. QED
      BY <3>7, <3>9, <3>11, <3>12, <3>14, <3>15 DEF RetryInv
  <2>4. CASE ~mayRetry(policy, idempotent, attempt, failure, reported)
    <3>1. stopped' = TRUE /\ UNCHANGED <<attempt, delays>>
      BY <1>2, <2>4 DEF Fail
    <3>2. ~idempotent => mutations' <= 1
      BY <2>1, <2>2
    <3>. QED
      BY <2>1, <2>2, <3>1, <3>2 DEF RetryInv
  <2>. QED
    BY <2>3, <2>4
<1>. QED
  BY <1>1, <1>2 DEF RetryNext

\* Whatever the policy and however often a step is retried, its pauses are those
\* of the policy (DecideRetry doubles from the first backoff up to the maximum,
\* for every number of attempts), and what is not idempotent mutates once.
THEOREM RetriesStaySafe == RetrySpec => []RetriesAreSafe
<1>1. RetryInit => RetryInv
  <2>1. <<>> \in Seq(Nat) /\ Len(<<>>) = 0 /\ DOMAIN <<>> = {}
    OBVIOUS
  <2>2. RetryInit => /\ policy \in Policies /\ idempotent \in BOOLEAN /\ stopped \in BOOLEAN
                     /\ attempt = 1 /\ mutations = 0 /\ delays = <<>>
    BY DEF RetryInit
  <2>. QED
    BY <2>1, <2>2 DEF RetryInv
<1>2. RetryInv => RetriesAreSafe
  <2>. SUFFICES ASSUME RetryInv
                PROVE  RetriesAreSafe
    OBVIOUS
  <2>1. MutatesOnce
    BY DEF RetryInv, MutatesOnce
  <2>2. attempt > 1 => attempt <= policy.attempts /\ policy.attempts <= MaxStepAttempts
    BY DEF RetryInv, RetryPolicyValid
  <2>3. ASSUME NEW i \in DOMAIN delays
        PROVE  /\ policy.initial <= delays[i] /\ delays[i] <= policy.max
               /\ i = 1 => delays[i] = policy.initial
               /\ i > 1 => \/ delays[i] = 2 * delays[i - 1]
                           \/ delays[i] = policy.max /\ 2 * delays[i - 1] + 1 >= policy.max
    <3>1. i \in Nat \ {0} /\ attempt > 1
      BY DEF RetryInv
    <3>2. policy.attempts \in Int /\ policy.attempts > 1 /\ attempt \in Nat
      BY <3>1, PoliciesAssumption DEF RetryInv, PoliciesAssumption
    <3>3. Retrying(policy)
      BY <3>1, <3>2, PoliciesAssumption, ValidRetries DEF RetryInv
    <3>4. i > 1 => i - 1 \in DOMAIN delays
      BY <3>1 DEF RetryInv
    <3>5. /\ delays[i] = backoffSeconds(policy, i)
          /\ i > 1 => delays[i - 1] = backoffSeconds(policy, i - 1)
      BY <3>4 DEF RetryInv
    <3>6. PICK p : p = policy /\ Retrying(p)
      BY <3>3
    <3>. QED
      BY <3>1, <3>5, <3>6, PauseForms
  <2>. QED
    BY <2>1, <2>2, <2>3 DEF RetriesAreSafe, RetriesBounded, RetryInv
<1>3. RetryInv /\ [RetryNext]_retryVars => RetryInv'
  BY PoliciesAssumption, RetryStep
<1>. QED
  BY <1>1, <1>2, <1>3, PTL DEF RetrySpec
=============================================================================
