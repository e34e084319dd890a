------------------------ MODULE PrefixArbiter_proofs ------------------------
(***************************************************************************)
(* The prefix network computes the rotating-priority grant for every width.*)
(* The levels of the network are a recursive function, so what they hold   *)
(* is proved by induction, in the form that needs no operator parameter:   *)
(* a set of naturals with 0 and with the successor of each of its members  *)
(* is all of them.                                                         *)
(***************************************************************************)
EXTENDS PrefixArbiter, WellFoundedInduction, FiniteSetTheorems, TLAPS

LEMMA Least ==
  ASSUME NEW T \in SUBSET Nat, T # {}
  PROVE  \E k \in T : \A j \in T : k <= j
<1>1. PICK k \in T : \A j \in T : ~(<<j, k>> \in OpToRel(<, Nat))
  BY NatLessThanWellFounded, WFMin
<1>2. \A j \in T : j \in Nat /\ (j < k => <<j, k>> \in OpToRel(<, Nat))
  BY DEF OpToRel
<1>3. ASSUME NEW j \in T PROVE k <= j
  <2>1. j \in Nat /\ k \in Nat
    OBVIOUS
  <2>2. ~(j < k)
    BY <1>1, <1>2
  <2>3. QED
    BY <2>1, <2>2
<1>4. QED
  BY <1>3

LEMMA Induction ==
  ASSUME NEW T, 0 \in T, \A k \in Nat : k \in T => k + 1 \in T
  PROVE  \A k \in Nat : k \in T
<1>1. SUFFICES ASSUME Nat \ T # {} PROVE FALSE
  OBVIOUS
<1>2. PICK k \in Nat \ T : \A j \in Nat \ T : k <= j
  BY <1>1, Least
<1>3. k # 0 /\ k - 1 \in Nat
  BY <1>2
<1>4. k - 1 \in T
  BY <1>2, <1>3
<1>5. QED
  BY <1>2, <1>3, <1>4

-----------------------------------------------------------------------------
(* Powers of two, as numbers of subsets.                                   *)
LEMMA PowerCounts ==
  ASSUME NEW k \in Nat
  PROVE  /\ IsFiniteSet(SUBSET (1 .. k))
         /\ Cardinality(SUBSET (1 .. k)) = 2^k
         /\ 2^k \in Nat
<1>1. IsFiniteSet(1 .. k) /\ Cardinality(1 .. k) = k
  BY FS_Interval
<1>2. IsFiniteSet(SUBSET (1 .. k)) /\ Cardinality(SUBSET (1 .. k)) = 2^k
  BY <1>1, FS_SUBSET
<1>3. QED
  BY <1>2, FS_CardinalityType

LEMMA PowerZero == 2^0 = 1
<1>1. SUBSET (1 .. 0) = {{}}
  OBVIOUS
<1>2. Cardinality({{}}) = 1
  BY FS_Singleton
<1>3. QED
  BY <1>1, <1>2, PowerCounts

LEMMA PowerNext ==
  ASSUME NEW k \in Nat
  PROVE  2^(k + 1) = 2^k + 2^k
<1> DEFINE A == SUBSET (1 .. k)
           B == {T \cup {k + 1} : T \in A}
           f == [T \in A |-> T \cup {k + 1}]
<1>1. IsFiniteSet(A) /\ Cardinality(A) = 2^k /\ 2^k \in Nat
  BY PowerCounts
<1>2. Cardinality(SUBSET (1 .. k + 1)) = 2^(k + 1)
  <2>1. k + 1 \in Nat
    OBVIOUS
  <2>2. QED
    BY <2>1, PowerCounts, Zenon
<1>3. \A T \in A : k + 1 \notin T
  OBVIOUS
<1>4. f \in Bijection(A, B)
  <2>1. f \in [A -> B]
    OBVIOUS
  <2>2. \A T, U \in A : f[T] = f[U] => T = U
    BY <1>3
  <2>3. \A V \in B : \E T \in A : f[T] = V
    OBVIOUS
  <2>4. QED
    BY <2>1, <2>2, <2>3 DEF Bijection, Injection, Surjection, IsInjective
<1>5. IsFiniteSet(B) /\ Cardinality(B) = 2^k
  BY <1>1, <1>4, FS_Bijection DEF ExistsBijection
<1>6. A \cap B = {}
  BY <1>3
<1>7. A \cup B = SUBSET (1 .. k + 1)
  <2>1. 1 .. k + 1 = (1 .. k) \cup {k + 1}
    OBVIOUS
  <2>2. ASSUME NEW U \in SUBSET (1 .. k + 1), k + 1 \in U PROVE U \in B
    <3>1. U \ {k + 1} \in A /\ U = (U \ {k + 1}) \cup {k + 1}
      BY <2>1, <2>2
    <3>2. QED
      BY <3>1
  <2>3. \A U \in SUBSET (1 .. k + 1) : k + 1 \notin U => U \in A
    BY <2>1
  <2>4. \A U \in A \cup B : U \in SUBSET (1 .. k + 1)
    BY <2>1
  <2>5. QED
    BY <2>2, <2>3, <2>4
<1> HIDE DEF A, B
<1>8. Cardinality(A \cup B) = Cardinality(A) + Cardinality(B) - Cardinality(A \cap B)
  BY <1>1, <1>5, FS_Union
<1>9. Cardinality(A \cap B) = 0
  BY <1>6, FS_EmptySet
<1>10. 2^(k + 1) = 2^k + 2^k - 0
  BY <1>1, <1>2, <1>5, <1>7, <1>8, <1>9
<1>11. QED
  BY <1>1, <1>10

LEMMA PowerPositive ==
  \A k \in Nat : 2^k \in Nat /\ k < 2^k
<1> DEFINE T == {k \in Nat : k < 2^k}
<1>1. 0 \in T
  BY PowerZero
<1>2. ASSUME NEW k \in Nat, k \in T PROVE k + 1 \in T
  <2>1. 2^(k + 1) = 2^k + 2^k /\ 2^k \in Nat
    BY PowerNext, PowerCounts
  <2>2. k < 2^k
    BY <1>2
  <2>3. k + 1 < 2^k + 2^k
    BY <2>1, <2>2
  <2>4. QED
    BY <2>1, <2>3
<1> HIDE DEF T
<1>3. \A k \in Nat : k \in T
  BY <1>1, <1>2, Induction
<1>4. QED
  BY <1>3, PowerCounts DEF T

(* The number of levels is the least that spans the width.                 *)
LEMMA Levels ==
  ASSUME n \in Nat \ {0, 1}
  PROVE  /\ S \in Nat \ {0}
         /\ 2^S >= n
         /\ \A t \in 0 .. S - 1 : 2^t \in Nat /\ 2^t < n
<1> DEFINE T == {s \in 0 .. n : 2^s >= n}
<1>1. n \in T
  BY PowerPositive
<1>2. PICK s \in T : \A t \in T : s <= t
  <2>1. T \in SUBSET Nat
    OBVIOUS
  <2> HIDE DEF T
  <2>2. QED
    BY <1>1, <2>1, Least
<1>3. s \in 0 .. n /\ 2^s >= n /\ \A t \in 0 .. s - 1 : 2^t < n
  <2>1. s \in 0 .. n /\ 2^s >= n
    OBVIOUS
  <2>2. ASSUME NEW t \in 0 .. s - 1 PROVE 2^t < n
    <3>1. t \in 0 .. n /\ t < s /\ t \in Nat /\ s \in Nat
      BY <2>1
    <3>2. t \notin T
      BY <1>2, <3>1
    <3>3. ~(2^t >= n) /\ 2^t \in Nat
      BY <3>1, <3>2, PowerPositive
    <3>4. QED
      BY <3>3
  <2>3. QED
    BY <2>1, <2>2
<1>4. S \in 0 .. n /\ 2^S >= n /\ \A t \in 0 .. S - 1 : 2^t < n
  <2> HIDE DEF T
  <2>1. QED
    BY <1>3, Zenon DEF S
<1>5. S # 0
  <2>1. S = 0 => 2^S = 1
    BY PowerZero, Zenon
  <2>2. QED
    BY <1>4, <2>1
<1>6. QED
  BY <1>4, <1>5, PowerPositive

-----------------------------------------------------------------------------
(* A recursion over levels has a solution up to any level.                 *)
Solves(f, k, base, step) ==
  \A i \in 0 .. k : f[i] = IF i = 0 THEN base ELSE step[i - 1][f[i - 1]]

LEMMA Recursion ==
  ASSUME NEW D, NEW base \in D, NEW step \in [Nat -> [D -> D]]
  PROVE  \A k \in Nat : \E f \in [0 .. k -> D] : Solves(f, k, base, step)
<1> DEFINE T == {k \in Nat : \E f \in [0 .. k -> D] : Solves(f, k, base, step)}
<1>1. 0 \in T
  <2> DEFINE f == [i \in 0 .. 0 |-> base]
  <2>1. f \in [0 .. 0 -> D] /\ Solves(f, 0, base, step)
    BY DEF Solves
  <2>2. QED
    BY <2>1
<1>2. ASSUME NEW k \in Nat, k \in T PROVE k + 1 \in T
  <2>1. PICK f \in [0 .. k -> D] : Solves(f, k, base, step)
    BY <1>2
  <2> DEFINE g == [i \in 0 .. k + 1 |-> IF i = k + 1 THEN step[k][f[k]] ELSE f[i]]
  <2>2. k \in 0 .. k /\ f[k] \in D
    OBVIOUS
  <2>3. \A i \in 0 .. k + 1 : i = k + 1 \/ (i \in 0 .. k /\ i # k + 1)
    OBVIOUS
  <2>4. g \in [0 .. k + 1 -> D]
    <3>1. step[k] \in [D -> D]
      OBVIOUS
    <3>2. step[k][f[k]] \in D
      BY <2>2, <3>1
    <3>3. QED
      BY <2>3, <3>2
  <2>5. ASSUME NEW i \in 0 .. k + 1
        PROVE  g[i] = IF i = 0 THEN base ELSE step[i - 1][g[i - 1]]
    <3>1. CASE i = k + 1
      <4>1. i # 0 /\ i - 1 = k /\ k \in 0 .. k + 1 /\ k # k + 1
        BY <3>1
      <4>2. g[i] = step[k][f[k]] /\ g[i - 1] = f[k]
        BY <3>1, <4>1
      <4> HIDE DEF g
      <4>3. QED
        BY <4>1, <4>2
    <3>2. CASE i \in 0 .. k
      <4>1. i # k + 1
        BY <3>2
      <4>2. g[i] = f[i]
        BY <4>1
      <4>3. i # 0 => g[i - 1] = f[i - 1]
        <5>1. i # 0 => i - 1 \in 0 .. k + 1 /\ i - 1 # k + 1
          BY <3>2
        <5>2. QED
          BY <5>1
      <4>4. f[i] = IF i = 0 THEN base ELSE step[i - 1][f[i - 1]]
        BY <2>1, <3>2 DEF Solves
      <4> HIDE DEF g
      <4>5. QED
        BY <4>2, <4>3, <4>4
    <3>3. QED
      BY <2>3, <3>1, <3>2
  <2> HIDE DEF g
  <2>6. Solves(g, k + 1, base, step)
    BY <2>5 DEF Solves
  <2>7. QED
    BY <2>4, <2>6
<1> HIDE DEF T
<1>3. \A k \in Nat : k \in T
  BY <1>1, <1>2, Induction
<1>4. QED
  BY <1>3 DEF T

(* The levels of the network are such solutions.                           *)
Quiet == {j \in Bits : Below(j, 1) \notin req}
Doubled(i, v) == {j \in v : Below(j, 2^i) \in v}
Reached(i, v) == v \cup {j \in Propagate[i] : Below(j, 2^i) \in v}

PropagateTo(p) ==
  p = [i \in 0 .. S - 1 |->
        IF i = 0 THEN {j \in Bits : Below(j, 1) \notin req}
        ELSE {j \in p[i - 1] : Below(j, 2^(i - 1)) \in p[i - 1]}]

LEMMA PropagateLevels ==
  ASSUME S \in Nat \ {0}
  PROVE  \A i \in 0 .. S - 1 :
           Propagate[i] = IF i = 0 THEN Quiet ELSE Doubled(i - 1, Propagate[i - 1])
<1> DEFINE D == SUBSET Bits
           step == [i \in Nat |-> [v \in D |-> Doubled(i, v)]]
<1>1. Quiet \in D /\ step \in [Nat -> [D -> D]] /\ S - 1 \in Nat
  BY DEF Quiet, Doubled
<1>2. PICK f \in [0 .. S - 1 -> D] : Solves(f, S - 1, Quiet, step)
  <2> HIDE DEF D, step
  <2>1. QED
    BY <1>1, Recursion
<1>3. ASSUME NEW i \in 0 .. S - 1
      PROVE  f[i] = IF i = 0 THEN Quiet ELSE Doubled(i - 1, f[i - 1])
  <2>1. i # 0 => i - 1 \in Nat /\ f[i - 1] \in D
    OBVIOUS
  <2>2. i # 0 => step[i - 1][f[i - 1]] = Doubled(i - 1, f[i - 1])
    BY <2>1
  <2> HIDE DEF step
  <2>3. QED
    BY <1>2, <2>2 DEF Solves
<1>4. \E p : PropagateTo(p)
  <2>1. PropagateTo(f)
    BY <1>3 DEF Quiet, Doubled, PropagateTo
  <2>2. QED
    BY <2>1
<1>5. PropagateTo(Propagate)
  BY <1>4, Zenon DEF Propagate, PropagateTo
<1>6. QED
  BY <1>5, Zenon DEF Quiet, Doubled, PropagateTo

GenerateTo(g) ==
  g = [i \in 0 .. S |->
        IF i = 0 THEN prio
        ELSE g[i - 1]
               \cup {j \in Propagate[i - 1] : Below(j, 2^(i - 1)) \in g[i - 1]}]

LEMMA GenerateLevels ==
  ASSUME S \in Nat \ {0}, prio \subseteq Bits,
         \A i \in 0 .. S - 1 : Propagate[i] \subseteq Bits
  PROVE  \A i \in 0 .. S :
           Generate[i] = IF i = 0 THEN prio ELSE Reached(i - 1, Generate[i - 1])
<1> DEFINE D == SUBSET Bits
           step == [i \in Nat |-> [v \in D |-> Reached(i, v) \cap Bits]]
<1>1. prio \in D /\ step \in [Nat -> [D -> D]] /\ S \in Nat
  OBVIOUS
<1>2. PICK f \in [0 .. S -> D] : Solves(f, S, prio, step)
  <2> HIDE DEF D, step
  <2>1. QED
    BY <1>1, Recursion
<1>3. ASSUME NEW i \in 0 .. S
      PROVE  f[i] = IF i = 0 THEN prio ELSE Reached(i - 1, f[i - 1])
  <2>1. i # 0 => i - 1 \in Nat /\ i - 1 \in 0 .. S - 1 /\ f[i - 1] \in D
    OBVIOUS
  <2>2. i # 0 => step[i - 1][f[i - 1]] = Reached(i - 1, f[i - 1]) \cap Bits
    BY <2>1
  <2>3. i # 0 => Reached(i - 1, f[i - 1]) \subseteq Bits
    BY <2>1 DEF Reached
  <2>4. i # 0 => step[i - 1][f[i - 1]] = Reached(i - 1, f[i - 1])
    BY <2>2, <2>3
  <2> HIDE DEF step
  <2>5. QED
    BY <1>2, <2>4 DEF Solves
<1>4. \E g : GenerateTo(g)
  <2>1. GenerateTo(f)
    BY <1>3 DEF Reached, GenerateTo
  <2>2. QED
    BY <2>1
<1>5. GenerateTo(Generate)
  BY <1>4, Zenon DEF Generate, GenerateTo
<1>6. QED
  BY <1>5, Zenon DEF Reached, GenerateTo

-----------------------------------------------------------------------------
(* The position k places below j, for up to two rounds.                    *)
Around(j, k) ==
  IF k <= j THEN j - k ELSE IF k <= n + j THEN n + j - k ELSE n + n + j - k

LEMMA BelowIsAround ==
  ASSUME n \in Nat \ {0, 1}, NEW j \in Bits, NEW k \in 0 .. n - 1
  PROVE  Below(j, k) = Around(j, k) /\ Below(j, k) \in Bits
BY DEF Below, Around, Bits

LEMMA AroundAdds ==
  ASSUME n \in Nat \ {0, 1}, NEW j \in Bits, NEW a \in 0 .. n - 1,
         NEW k \in 0 .. n
  PROVE  Around(Below(j, a), k) = Around(j, a + k)
BY DEF Below, Around, Bits

(* No request in the k positions below j.                                  *)
Silent(j, k) == \A m \in 1 .. k : Around(j, m) \notin req

LEMMA SilentAdds ==
  ASSUME n \in Nat \ {0, 1}, NEW j \in Bits, NEW a \in 0 .. n - 1,
         NEW k \in 0 .. n
  PROVE  Silent(j, a + k) <=> Silent(j, a) /\ Silent(Below(j, a), k)
<1>1. ASSUME Silent(j, a), Silent(Below(j, a), k), NEW m \in 1 .. a + k
      PROVE  Around(j, m) \notin req
  <2>1. CASE m <= a
    BY <1>1, <2>1 DEF Silent
  <2>2. CASE m > a
    <3>1. m - a \in 1 .. k /\ m - a \in 0 .. n /\ a + (m - a) = m
      BY <2>2
    <3>2. Around(Below(j, a), m - a) = Around(j, m)
      BY <3>1, AroundAdds
    <3>3. QED
      BY <1>1, <3>1, <3>2 DEF Silent
  <2>3. QED
    BY <2>1, <2>2
<1>2. ASSUME Silent(j, a + k)
      PROVE  Silent(j, a) /\ Silent(Below(j, a), k)
  <2>1. \A m \in 1 .. a : m \in 1 .. a + k
    OBVIOUS
  <2>2. ASSUME NEW m \in 1 .. k
        PROVE  Around(Below(j, a), m) \notin req
    <3>1. a + m \in 1 .. a + k /\ m \in 0 .. n
      OBVIOUS
    <3>2. QED
      BY <1>2, <3>1, AroundAdds DEF Silent
  <2>3. QED
    BY <1>2, <2>1, <2>2 DEF Silent
<1>3. QED
  BY <1>1, <1>2 DEF Silent

(* p[i] is up where nothing requests in the 2^i positions below.           *)
LEMMA PropagateIs ==
  ASSUME n \in Nat \ {0, 1}
  PROVE  \A i \in 0 .. S - 1 : Propagate[i] = {j \in Bits : Silent(j, 2^i)}
<1> DEFINE Good(i) == Propagate[i] = {j \in Bits : Silent(j, 2^i)}
           T == {i \in Nat : i <= S - 1 => Good(i)}
<1>1. S \in Nat \ {0} /\ \A t \in 0 .. S - 1 : 2^t \in Nat /\ 2^t < n
  BY Levels
<1>2. Good(0)
  <2>1. Propagate[0] = Quiet
    <3>1. 0 \in 0 .. S - 1
      BY <1>1
    <3>2. QED
      BY <1>1, <3>1, PropagateLevels
  <2>2. \A j \in Bits : Below(j, 1) = Around(j, 1)
    BY BelowIsAround
  <2>3. \A j \in Bits : Silent(j, 1) <=> Around(j, 1) \notin req
    BY DEF Silent
  <2>4. QED
    BY <2>1, <2>2, <2>3, PowerZero DEF Quiet
<1>3. ASSUME NEW i \in Nat, i + 1 <= S - 1, Good(i)
      PROVE  Good(i + 1)
  <2>1. i \in 0 .. S - 1 /\ i + 1 \in 0 .. S - 1 /\ i + 1 # 0 /\ (i + 1) - 1 = i
    BY <1>1, <1>3
  <2>2. Propagate[i + 1] = Doubled(i, Propagate[i])
    BY <1>1, <2>1, PropagateLevels
  <2>3. 2^i \in 0 .. n - 1 /\ 2^(i + 1) = 2^i + 2^i
    BY <1>1, <2>1, PowerNext
  <2>4. ASSUME NEW j \in Bits
        PROVE  /\ Below(j, 2^i) \in Bits
               /\ Silent(j, 2^(i + 1)) <=> Silent(j, 2^i) /\ Silent(Below(j, 2^i), 2^i)
    <3> DEFINE w == 2^i
    <3>1. w \in 0 .. n - 1 /\ w \in 0 .. n /\ 2^(i + 1) = w + w
      BY <2>3
    <3> HIDE DEF w
    <3>2. Below(j, w) \in Bits
      BY <3>1, BelowIsAround
    <3>3. Silent(j, w + w) <=> Silent(j, w) /\ Silent(Below(j, w), w)
      BY <3>1, SilentAdds
    <3>4. QED
      BY <3>1, <3>2, <3>3 DEF w
  <2>5. QED
    BY <1>3, <2>2, <2>4 DEF Doubled
<1> HIDE DEF Good
<1>4. 0 \in T
  BY <1>2
<1>5. ASSUME NEW i \in Nat, i \in T PROVE i + 1 \in T
  <2>1. i + 1 <= S - 1 => i <= S - 1
    BY <1>1
  <2>2. QED
    BY <1>3, <1>5, <2>1
<1> HIDE DEF T
<1>6. \A i \in Nat : i \in T
  BY <1>4, <1>5, Induction
<1>7. QED
  BY <1>1, <1>6 DEF T, Good

(* g[i] is up where the priority starts less than 2^i positions below and  *)
(* nothing requests in between.                                            *)
Reach(j, w) == \E k \in 0 .. w - 1 : Around(j, k) \in prio /\ Silent(j, k)

LEMMA ReachDoubles ==
  ASSUME n \in Nat \ {0, 1}, NEW j \in Bits, NEW w \in 0 .. n - 1
  PROVE  Reach(j, w + w) <=> Reach(j, w) \/ (Silent(j, w) /\ Reach(Below(j, w), w))
<1>1. ASSUME Reach(j, w)
      PROVE  Reach(j, w + w)
  <2>1. \A k \in 0 .. w - 1 : k \in 0 .. w + w - 1
    OBVIOUS
  <2>2. QED
    BY <1>1, <2>1 DEF Reach
<1>2. ASSUME Silent(j, w), NEW k \in 0 .. w - 1,
             Around(Below(j, w), k) \in prio, Silent(Below(j, w), k)
      PROVE  Reach(j, w + w)
  <2>1. w + k \in 0 .. w + w - 1 /\ k \in 0 .. n
    OBVIOUS
  <2>2. Around(j, w + k) \in prio /\ Silent(j, w + k)
    BY <1>2, <2>1, AroundAdds, SilentAdds
  <2>3. QED
    BY <2>1, <2>2 DEF Reach
<1>3. ASSUME NEW k \in 0 .. w + w - 1, Around(j, k) \in prio, Silent(j, k), ~(k < w)
      PROVE  Silent(j, w) /\ Reach(Below(j, w), w)
  <2>1. k - w \in 0 .. w - 1 /\ k - w \in 0 .. n /\ w + (k - w) = k
    BY <1>3
  <2>2. Around(Below(j, w), k - w) = Around(j, k)
    BY <2>1, AroundAdds
  <2>3. Silent(j, w) /\ Silent(Below(j, w), k - w)
    BY <1>3, <2>1, SilentAdds
  <2>4. QED
    BY <1>3, <2>1, <2>2, <2>3 DEF Reach
<1>4. ASSUME NEW k \in 0 .. w + w - 1, Around(j, k) \in prio, Silent(j, k), k < w
      PROVE  Reach(j, w)
  <2>1. k \in 0 .. w - 1
    BY <1>4
  <2>2. QED
    BY <1>4, <2>1 DEF Reach
<1>5. QED
  BY <1>1, <1>2, <1>3, <1>4 DEF Reach

LEMMA GenerateIs ==
  ASSUME n \in Nat \ {0, 1}, prio \subseteq Bits
  PROVE  Generate[S] = {j \in Bits : Reach(j, 2^S)}
<1> DEFINE Good(i) == Generate[i] = {j \in Bits : Reach(j, 2^i)}
           T == {i \in Nat : i <= S => Good(i)}
<1>1. S \in Nat \ {0} /\ \A t \in 0 .. S - 1 : 2^t \in Nat /\ 2^t < n
  BY Levels
<1>2. \A i \in 0 .. S : Generate[i] = IF i = 0 THEN prio ELSE Reached(i - 1, Generate[i - 1])
  BY <1>1, PropagateIs, GenerateLevels
<1>3. Good(0)
  <2>1. Generate[0] = prio
    BY <1>1, <1>2
  <2>2. \A j \in Bits : Around(j, 0) = j /\ Silent(j, 0)
    BY DEF Around, Silent, Bits
  <2>3. \A j \in Bits : Reach(j, 1) <=> j \in prio
    BY <2>2 DEF Reach
  <2>4. QED
    BY <2>1, <2>3, PowerZero
<1>4. ASSUME NEW i \in Nat, i + 1 <= S, Good(i)
      PROVE  Good(i + 1)
  <2>1. i \in 0 .. S - 1 /\ i + 1 \in 0 .. S /\ i + 1 # 0 /\ (i + 1) - 1 = i
    BY <1>1, <1>4
  <2>2. Generate[i + 1] = Reached(i, Generate[i])
    BY <1>2, <2>1
  <2>3. Propagate[i] = {j \in Bits : Silent(j, 2^i)}
    BY <2>1, PropagateIs
  <2>4. 2^i \in 0 .. n - 1 /\ 2^(i + 1) = 2^i + 2^i
    BY <1>1, <2>1, PowerNext
  <2>5. ASSUME NEW j \in Bits
        PROVE  /\ Below(j, 2^i) \in Bits
               /\ Reach(j, 2^(i + 1))
                    <=> Reach(j, 2^i) \/ (Silent(j, 2^i) /\ Reach(Below(j, 2^i), 2^i))
    <3> DEFINE w == 2^i
    <3>1. w \in 0 .. n - 1 /\ 2^(i + 1) = w + w
      BY <2>4
    <3> HIDE DEF w
    <3>2. Below(j, w) \in Bits
      BY <3>1, BelowIsAround
    <3>3. Reach(j, w + w) <=> Reach(j, w) \/ (Silent(j, w) /\ Reach(Below(j, w), w))
      BY <3>1, ReachDoubles
    <3>4. QED
      BY <3>1, <3>2, <3>3 DEF w
  <2>6. QED
    BY <1>4, <2>2, <2>3, <2>5 DEF Reached
<1> HIDE DEF Good
<1>5. 0 \in T
  BY <1>3
<1>6. ASSUME NEW i \in Nat, i \in T PROVE i + 1 \in T
  <2>1. i + 1 <= S => i <= S
    BY <1>1
  <2>2. QED
    BY <1>4, <1>6, <2>1
<1> HIDE DEF T
<1>7. \A i \in Nat : i \in T
  BY <1>5, <1>6, Induction
<1>8. S \in T /\ S <= S
  BY <1>1, <1>7
<1>9. QED
  BY <1>8 DEF T, Good

-----------------------------------------------------------------------------
(* The distance to the priority is the one place at which it is found.     *)
LEMMA DistanceIs ==
  ASSUME n \in Nat \ {0, 1}, NEW p \in Bits, NEW e \in Bits
  PROVE  /\ Distance(n, p, e) \in 0 .. n - 1
         /\ Around(e, Distance(n, p, e)) = p
         /\ \A k \in 0 .. n - 1 : Around(e, k) = p => k = Distance(n, p, e)
         /\ \A m \in 1 .. Distance(n, p, e) :
              /\ Around(e, m) \in Bits
              /\ Distance(n, p, Around(e, m)) = Distance(n, p, e) - m
         /\ \A f \in Bits :
              Distance(n, p, f) < Distance(n, p, e)
                => Around(e, Distance(n, p, e) - Distance(n, p, f)) = f
BY DEF Distance, Around, Bits

(* Silence up to the priority means being the first requester.             *)
LEMMA SilentIsFirst ==
  ASSUME n \in Nat \ {0, 1}, req \subseteq Bits, NEW p \in Bits, NEW e \in Bits
  PROVE  Silent(e, Distance(n, p, e))
           <=> \A f \in req : Distance(n, p, e) <= Distance(n, p, f)
<1> DEFINE d == Distance(n, p, e)
<1>1. \A f \in req : f \in Bits /\ Distance(n, p, f) \in 0 .. n - 1
  BY DistanceIs
<1>2. d \in 0 .. n - 1
  BY DistanceIs
<1>3. ASSUME Silent(e, d), NEW f \in req
      PROVE  d <= Distance(n, p, f)
  <2>1. SUFFICES ASSUME Distance(n, p, f) < d PROVE FALSE
    BY <1>1, <1>2
  <2>2. d - Distance(n, p, f) \in 1 .. d
    BY <1>1, <1>2, <2>1
  <2>3. Around(e, d - Distance(n, p, f)) = f
    BY <1>1, <2>1, DistanceIs
  <2>4. QED
    BY <1>3, <2>2, <2>3 DEF Silent
<1>4. ASSUME \A f \in req : d <= Distance(n, p, f), NEW m \in 1 .. d
      PROVE  Around(e, m) \notin req
  <2>1. Distance(n, p, Around(e, m)) = d - m
    BY DistanceIs
  <2>2. ~(d <= d - m)
    BY <1>2
  <2>3. QED
    BY <1>4, <2>1, <2>2
<1>5. QED
  BY <1>3, <1>4 DEF Silent

LEMMA ReachIsSilent ==
  ASSUME n \in Nat \ {0, 1}, req \subseteq Bits, NEW p \in Bits, prio = {p},
         NEW e \in req
  PROVE  Reach(e, 2^S) <=> Silent(e, Distance(n, p, e))
<1> DEFINE d == Distance(n, p, e)
<1>1. e \in Bits /\ d \in 0 .. n - 1 /\ Around(e, d) = p
  BY DistanceIs
<1>2. 2^S \in Nat /\ 2^S >= n
  BY Levels, PowerPositive
<1>3. ASSUME Silent(e, d) PROVE Reach(e, 2^S)
  <2>1. d \in 0 .. 2^S - 1
    BY <1>1, <1>2
  <2>2. QED
    BY <1>1, <1>3, <2>1 DEF Reach
<1>4. ASSUME NEW k \in 0 .. 2^S - 1, Around(e, k) = p, Silent(e, k)
      PROVE  Silent(e, d)
  <2>1. CASE k < n
    <3>1. k \in 0 .. n - 1
      BY <1>2, <2>1
    <3>2. k = d
      BY <1>1, <1>4, <3>1, DistanceIs
    <3>3. QED
      BY <1>4, <3>2
  <2>2. CASE k >= n
    <3>1. n \in 1 .. k /\ Around(e, n) = e
      BY <1>1, <1>2, <2>2 DEF Around, Bits
    <3>2. QED
      BY <1>4, <3>1 DEF Silent
  <2>3. QED
    BY <1>2, <2>1, <2>2
<1>5. QED
  BY <1>3, <1>4 DEF Reach

LEMMA GrantIs ==
  ASSUME n \in Nat \ {0, 1}, req \subseteq Bits, NEW p \in Bits, prio = {p}
  PROVE  Grant = FirstFrom(n, p, req)
<1>1. Grant = {e \in req : Reach(e, 2^S)}
  BY GenerateIs DEF Grant
<1>2. \A e \in req : Reach(e, 2^S) <=> \A f \in req : Distance(n, p, e) <= Distance(n, p, f)
  BY ReachIsSilent, SilentIsFirst
<1>3. QED
  BY <1>1, <1>2 DEF FirstFrom

(* Among requests there is one first.                                      *)
LEMMA OneFirst ==
  ASSUME n \in Nat \ {0, 1}, req \subseteq Bits, NEW p \in Bits, req # {}
  PROVE  \E e \in Bits : FirstFrom(n, p, req) = {e}
<1> DEFINE T == {Distance(n, p, f) : f \in req}
<1>1. T \in SUBSET Nat /\ T # {}
  BY DistanceIs
<1>2. PICK d \in T : \A k \in T : d <= k
  BY <1>1, Least
<1>3. PICK e \in req : d = Distance(n, p, e)
  OBVIOUS
<1>4. e \in FirstFrom(n, p, req)
  BY <1>2, <1>3 DEF FirstFrom
<1>5. ASSUME NEW f \in FirstFrom(n, p, req) PROVE f = e
  <2>1. /\ f \in Bits /\ e \in Bits /\ Distance(n, p, f) \in Nat
        /\ Distance(n, p, e) \in Nat
        /\ Distance(n, p, f) <= Distance(n, p, e)
        /\ Distance(n, p, e) <= Distance(n, p, f)
    BY <1>4, DistanceIs DEF FirstFrom
  <2>2. Distance(n, p, f) = Distance(n, p, e)
    BY <2>1
  <2>3. Around(f, Distance(n, p, f)) = Around(e, Distance(n, p, f))
    BY <2>1, <2>2, DistanceIs
  <2>4. QED
    BY <2>1, <2>2 DEF Distance, Bits
<1>6. QED
  BY <1>4, <1>5

(* The last level before the end, looked at in two places, sees every      *)
(* position.                                                               *)
LEMMA AnyGrantIs ==
  ASSUME n \in Nat \ {0, 1}, req \subseteq Bits
  PROVE  AnyGrant <=> req # {}
<1> DEFINE w == 2^(S - 1)
           h == (n \div 2) - 1
<1>1. S \in Nat \ {0} /\ S - 1 \in Nat /\ S - 1 \in 0 .. S - 1
  BY Levels
<1>2. Propagate[S - 1] = {j \in Bits : Silent(j, w)}
  BY <1>1, PropagateIs
<1>3. w \in Nat /\ w < n /\ w + w >= n
  <2>1. 2^(S - 1) \in Nat /\ 2^(S - 1) < n /\ 2^S >= n
    BY <1>1, Levels
  <2>2. 2^((S - 1) + 1) = 2^(S - 1) + 2^(S - 1) /\ (S - 1) + 1 = S
    BY <1>1, PowerNext
  <2>3. QED
    BY <2>1, <2>2
<1> HIDE DEF w
<1>4. h \in Nat /\ h + 1 <= w /\ n <= h + h + 3 /\ h < n /\ h + h + 2 <= n
  BY <1>3
<1> HIDE DEF h
<1>5. n - 1 \in Bits /\ h \in Bits
  BY <1>4 DEF Bits
<1>6. AnyGrant <=> ~(Silent(n - 1, w) /\ Silent(h, w))
  BY <1>2, <1>5 DEF AnyGrant, h
<1>7. ASSUME NEW f \in req, Silent(n - 1, w), Silent(h, w)
      PROVE  FALSE
  <2>1. f \in 0 .. n - 1
    BY DEF Bits
  <2>2. CASE f # n - 1 /\ n - 1 - w <= f
    <3>1. n - 1 - f \in 1 .. w /\ Around(n - 1, n - 1 - f) = f
      BY <1>3, <2>1, <2>2 DEF Around
    <3>2. QED
      BY <1>7, <3>1 DEF Silent
  <2>3. CASE f = n - 1
    <3>1. h + 1 \in 1 .. w /\ Around(h, h + 1) = f
      BY <1>3, <1>4, <2>3 DEF Around
    <3>2. QED
      BY <1>7, <3>1 DEF Silent
  <2>4. CASE f < n - 1 - w
    <3>1. h - f \in 1 .. w /\ Around(h, h - f) = f
      BY <1>3, <1>4, <2>1, <2>4 DEF Around
    <3>2. QED
      BY <1>7, <3>1 DEF Silent
  <2>5. QED
    BY <1>3, <2>1, <2>2, <2>3, <2>4
<1>8. req = {} => Silent(n - 1, w) /\ Silent(h, w)
  BY DEF Silent
<1>9. QED
  BY <1>6, <1>7, <1>8

-----------------------------------------------------------------------------
ArbiterInv ==
  /\ n \in Widths /\ req \subseteq Bits
  /\ PriorityOneHot

LEMMA WidthIs == ArbiterInv => n \in Nat \ {0, 1}
BY WidthsAssumption DEF ArbiterInv

LEMMA InitArbiter == Init => ArbiterInv
<1> SUFFICES ASSUME Init PROVE ArbiterInv
  OBVIOUS
<1>1. n \in Nat \ {0, 1} /\ prio = {0}
  BY WidthsAssumption DEF Init
<1>2. 0 \in Bits
  BY <1>1 DEF Bits
<1>3. QED
  BY <1>1, <1>2 DEF Init, ArbiterInv, PriorityOneHot

LEMMA NextArbiter == ArbiterInv /\ [Next]_vars => ArbiterInv'
<1> SUFFICES ASSUME ArbiterInv, [Next]_vars PROVE ArbiterInv'
  OBVIOUS
<1>1. CASE UNCHANGED vars
  BY <1>1 DEF vars, ArbiterInv, PriorityOneHot, Bits
<1>2. ASSUME NEW ack \in BOOLEAN, Clock(ack), req' \in SUBSET Bits
      PROVE  ArbiterInv'
  <2>1. n \in Nat \ {0, 1} /\ req \subseteq Bits
    BY WidthIs DEF ArbiterInv
  <2>2. PICK p \in Bits : prio = {p}
    BY DEF ArbiterInv, PriorityOneHot
  <2>3. n' = n /\ Bits' = Bits
    BY <1>2 DEF Clock, Bits
  <2>4. PriorityOneHot'
    <3>1. CASE AnyGrant /\ ack
      <4>1. PICK e \in Bits : Grant = {e}
        BY <2>1, <2>2, <3>1, AnyGrantIs, GrantIs, OneFirst
      <4>2. prio' = {Successor(n, e)}
        BY <1>2, <3>1, <4>1 DEF Clock
      <4>3. Successor(n, e) \in Bits
        BY <2>1 DEF Successor, Bits
      <4>4. QED
        BY <2>3, <4>2, <4>3 DEF PriorityOneHot
    <3>2. CASE ~(AnyGrant /\ ack)
      <4>1. prio' = prio
        BY <1>2, <3>2 DEF Clock
      <4>2. QED
        BY <2>2, <2>3, <4>1 DEF PriorityOneHot
    <3>3. QED
      BY <3>1, <3>2
  <2>5. QED
    BY <1>2, <2>3, <2>4 DEF ArbiterInv
<1>3. QED
  BY <1>1, <1>2 DEF Next

(* For every width: the acknowledged grant moves the one-hot priority of   *)
(* soc_event_arbiter.sv, and never sets a second bit or leaves none.       *)
THEOREM OneHotPriority == Spec => []PriorityOneHot
<1>1. ArbiterInv => PriorityOneHot
  BY DEF ArbiterInv
<1>2. QED
  BY <1>1, InitArbiter, NextArbiter, PTL DEF Spec

(* For every width, a power of two or not, the prefix network of           *)
(* soc_event_arbiter.sv grants the first requester from the priority on.   *)
THEOREM NetworkGrantsFirst == Spec => []GrantIsFirstRequester
<1>1. ArbiterInv => GrantIsFirstRequester
  <2> SUFFICES ASSUME ArbiterInv, NEW p \in prio PROVE Grant = FirstFrom(n, p, req)
    BY DEF GrantIsFirstRequester
  <2>1. p \in Bits /\ prio = {p}
    BY DEF ArbiterInv, PriorityOneHot
  <2>2. QED
    BY <2>1, WidthIs, GrantIs DEF ArbiterInv
<1>2. QED
  BY <1>1, InitArbiter, NextArbiter, PTL DEF Spec

(* For every width, anyGrant_o of soc_event_arbiter.sv is up exactly when  *)
(* some input requests, though it looks at two half-length prefixes only.  *)
THEOREM NetworkSeesRequests == Spec => []AnyGrantIffRequest
<1>1. ArbiterInv => AnyGrantIffRequest
  BY WidthIs, AnyGrantIs DEF ArbiterInv, AnyGrantIffRequest
<1>2. QED
  BY <1>1, InitArbiter, NextArbiter, PTL DEF Spec
=============================================================================
