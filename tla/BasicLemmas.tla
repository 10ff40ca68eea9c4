---------------------------- MODULE BasicLemmas -----------------------------
(***************************************************************************)
(* Facts about natural numbers, ranges and sequences that the proofs of      *)
(* several components share.  A set of numbers that is not empty has a least  *)
(* element; arguments by induction are made on the least counterexample.     *)
(***************************************************************************)
EXTENDS Integers, Sequences, FiniteSetTheorems, SequenceTheorems,
        WellFoundedInduction, TLAPS

\* Every set of natural numbers that is not empty has a least element.
LEMMA LeastNatural ==
  ASSUME NEW T \in SUBSET Nat, T # {}
  PROVE  \E x \in T : \A y \in T : x <= y
  <1> DEFINE R == OpToRel(<, Nat)
  <1>1. R = {ss \in Nat \X Nat : ss[1] < ss[2]}
    BY DEF OpToRel
  <1>2. IsWellFoundedOn(R, Nat)
    BY NatLessThanWellFounded
  <1> HIDE DEF R
  <1>3. PICK x \in T : \A y \in T : ~ (<<y, x>> \in R)
    BY <1>2, WFMin
  <1>4. \A y \in T : ~ (y < x)
    BY <1>1, <1>3
  <1> QED
    BY <1>3, <1>4

\* A set of numbers up to a bound has a greatest element.
LEMMA GreatestBounded ==
  ASSUME NEW n \in Nat, NEW T \in SUBSET (0..n), T # {}
  PROVE  \E x \in T : \A y \in T : y <= x
  <1> DEFINE U == {d \in 0..n : n - d \in T}
  <1>0. \A x \in T : x \in 0..n
    OBVIOUS
  <1>1. \A x \in T : n - x \in U
    BY <1>0
  <1>2. U \in SUBSET Nat /\ U # {} /\ \A d \in U : d \in 0..n /\ n - d \in T
    <2>1. \A d \in U : d \in 0..n /\ n - d \in T
      OBVIOUS
    <2>2. U \subseteq 0..n
      BY <2>1
    <2>3. U \in SUBSET Nat
      BY <2>2
    <2> QED
      BY <1>1, <2>1, <2>3
  <1> HIDE DEF U
  <1>3. PICK d \in U : \A e \in U : d <= e
    BY <1>2, LeastNatural
  <1>4. n - d \in T /\ \A y \in T : d <= n - y
    BY <1>1, <1>2, <1>3
  <1> QED
    BY <1>2, <1>4

\* An increasing map of a range into itself moves nothing: what is left of a list
\* from which nothing was removed is the list.
LEMMA IncreasingIsIdentity ==
  ASSUME NEW n \in Nat, NEW f \in [1..n -> 1..n],
         \A j, k \in 1..n : j < k => f[j] < f[k]
  PROVE  \A k \in 1..n : f[k] = k
  <1>1. \A k \in 1..n : f[k] >= k
    <2> DEFINE Low == {k \in 1..n : f[k] < k}
    <2> SUFFICES ASSUME Low # {} PROVE FALSE
      OBVIOUS
    <2>b. \A k \in Low : k \in 1..n /\ f[k] < k
      OBVIOUS
    <2>0. Low \in SUBSET (0..n) /\ Low \in SUBSET Nat /\ \A k \in Low : k \in 1..n /\ f[k] < k
      BY <2>b
    <2>a. \A k \in 1..n : f[k] < k => k \in Low
      OBVIOUS
    <2> HIDE DEF Low
    <2>1. PICK k \in Low : \A j \in Low : k <= j
      BY <2>0, LeastNatural
    <2>2. k \in 1..n /\ f[k] < k /\ f[k] \in 1..n
      BY <2>0
    <2>4. k - 1 \in 1..n /\ ~ (k - 1 \in Low)
      BY <2>1, <2>2
    <2>3. f[k - 1] >= k - 1 /\ f[k - 1] < f[k]
      BY <2>a, <2>2, <2>4
    <2> QED
      BY <2>2, <2>3
  <1>2. \A k \in 1..n : f[k] <= k
    <2> DEFINE High == {k \in 1..n : f[k] > k}
    <2> SUFFICES ASSUME High # {} PROVE FALSE
      OBVIOUS
    <2>b. \A k \in High : k \in 1..n /\ f[k] > k
      OBVIOUS
    <2>0. High \in SUBSET (0..n) /\ High \in SUBSET Nat /\ \A k \in High : k \in 1..n /\ f[k] > k
      BY <2>b
    <2>a. \A k \in 1..n : f[k] > k => k \in High
      OBVIOUS
    <2> HIDE DEF High
    <2>1. PICK k \in High : \A j \in High : j <= k
      BY <2>0, GreatestBounded
    <2>2. k \in 1..n /\ f[k] > k /\ f[k] \in 1..n
      BY <2>0
    <2>4. k + 1 \in 1..n /\ ~ (k + 1 \in High)
      BY <2>1, <2>2
    <2>3. f[k + 1] <= k + 1 /\ f[k] < f[k + 1]
      BY <2>a, <2>2, <2>4
    <2> QED
      BY <2>2, <2>3
  <1> QED
    BY <1>1, <1>2

\* A finite set of numbers has an upper bound, and if it is not empty a greatest one.
LEMMA FiniteHasMax ==
  ASSUME NEW S \in SUBSET Nat, IsFiniteSet(S), S # {}
  PROVE  \E x \in S : \A y \in S : y <= x
  <1> DEFINE Bounded(T) == \E b \in Nat : \A y \in T : y <= b
             Bad == {n \in Nat : \E T \in SUBSET Nat :
                       IsFiniteSet(T) /\ Cardinality(T) = n /\ ~ Bounded(T)}
  <1>1. \A n \in Bad : n \in Nat /\ \E T \in SUBSET Nat :
                       IsFiniteSet(T) /\ Cardinality(T) = n /\ ~ Bounded(T)
    OBVIOUS
  <1>2. \A T \in SUBSET Nat : IsFiniteSet(T) /\ ~ Bounded(T) => Cardinality(T) \in Bad
    BY FS_CardinalityType
  <1>3. Bad \in SUBSET Nat
    OBVIOUS
  <1> HIDE DEF Bad
  <1>4. Bad = {}
    <2> SUFFICES ASSUME Bad # {} PROVE FALSE
      OBVIOUS
    <2>1. PICK n \in Bad : \A m \in Bad : n <= m
      BY <1>3, LeastNatural
    <2>2. PICK T \in SUBSET Nat : IsFiniteSet(T) /\ Cardinality(T) = n /\ ~ Bounded(T)
      BY <1>1
    <2>3. PICK x \in T : TRUE
      BY <2>2
    <2>4. /\ IsFiniteSet(T \ {x}) /\ Cardinality(T \ {x}) = n - 1
          /\ T \ {x} \in SUBSET Nat /\ n \in Nat /\ x \in Nat
      BY <1>1, <2>2, <2>3, FS_RemoveElement
    <2>5. Bounded(T \ {x})
      <3>1. ~ (n - 1 \in Bad)
        BY <2>1, <2>4
      <3> HIDE DEF Bounded
      <3> QED
        BY <1>2, <2>4, <3>1
    <2>6. PICK b \in Nat : \A y \in T \ {x} : y <= b
      BY <2>5
    <2>7. \A y \in T : y <= (IF b >= x THEN b ELSE x)
      BY <2>2, <2>4, <2>6
    <2> QED
      BY <2>2, <2>4, <2>7
  <1>5. PICK b \in Nat : \A y \in S : y <= b
    <2> HIDE DEF Bounded
    <2>1. Bounded(S)
      BY <1>2, <1>4
    <2> QED
      BY <2>1 DEF Bounded
  <1>6. S \in SUBSET (0..b)
    BY <1>5
  <1> QED
    BY <1>6, GreatestBounded

\* The positions of a list can be put in any order B that is total and transitive.
LEMMA SortedOrder ==
  ASSUME NEW n \in Nat, NEW B,
         \A a, b \in 1..n : a # b => <<a, b>> \in B \/ <<b, a>> \in B,
         \A a, b, c \in 1..n : <<a, b>> \in B /\ <<b, c>> \in B => <<a, c>> \in B
  PROVE  \E f \in [1..n -> 1..n] :
           /\ \A x \in 1..n : \E k \in 1..n : f[k] = x
           /\ \A j, k \in 1..n : j < k => <<f[j], f[k]>> \in B
  <1> DEFINE Sorts(f, m) ==
               /\ f \in [1..m -> 1..m]
               /\ \A x \in 1..m : \E k \in 1..m : f[k] = x
               /\ \A j, k \in 1..m : j < k => <<f[j], f[k]>> \in B
             Bad == {m \in 0..n : \A f \in [1..m -> 1..m] : ~ Sorts(f, m)}
  <1>1. \A m \in Bad : m \in 0..n /\ \A f \in [1..m -> 1..m] : ~ Sorts(f, m)
    OBVIOUS
  <1>2. \A m \in 0..n : ~ (m \in Bad) => \E f \in [1..m -> 1..m] : Sorts(f, m)
    OBVIOUS
  <1>3. Bad \in SUBSET Nat
    OBVIOUS
  <1> HIDE DEF Bad
  <1>4. Bad = {}
    <2> SUFFICES ASSUME Bad # {} PROVE FALSE
      OBVIOUS
    <2>1. PICK m \in Bad : \A l \in Bad : m <= l
      BY <1>3, LeastNatural
    <2>2. m \in 0..n
      BY <1>1
    <2>3. m # 0
      <3>1. Sorts([k \in 1..0 |-> k], 0)
        OBVIOUS
      <3> QED
        BY <1>1, <3>1
    <2>4. m - 1 \in 0..n /\ m - 1 \in Nat /\ ~ (m - 1 \in Bad)
      BY <2>1, <2>2, <2>3
    <2>5. PICK f \in [1..(m - 1) -> 1..(m - 1)] : Sorts(f, m - 1)
      BY <1>2, <2>4
    <2> DEFINE Low == {k \in 0..(m - 1) : k = 0 \/ <<f[k], m>> \in B}
    <2>6. /\ \A k \in Low : k \in 0..(m - 1) /\ (k = 0 \/ <<f[k], m>> \in B)
          /\ \A k \in 0..(m - 1) : <<f[k], m>> \in B => k \in Low
          /\ 0 \in Low /\ Low \in SUBSET (0..(m - 1))
      BY <2>2, <2>3
    <2> HIDE DEF Low
    <2>7. PICK p \in Low : \A k \in Low : k <= p
      <3>1. Low \in SUBSET (0..(m - 1)) /\ Low # {} /\ m - 1 \in Nat
        BY <2>4, <2>6
      <3> QED
        BY <3>1, GreatestBounded
    <2>8. p \in 0..(m - 1)
      BY <2>6
    <2>9. \A k \in 1..(m - 1) : f[k] \in 1..(m - 1) /\ f[k] \in 1..n /\ m \in 1..n
      <3>1. \A k \in 1..(m - 1) : f[k] \in 1..(m - 1)
        OBVIOUS
      <3>2. m \in 1..n /\ \A a \in 1..(m - 1) : a \in 1..n
        BY <2>2, <2>3
      <3> QED
        BY <3>1, <3>2
    <2>10. \A k \in 1..p : <<f[k], m>> \in B
      <3> TAKE k \in 1..p
      <3>1. p # 0 /\ <<f[p], m>> \in B /\ p \in 1..(m - 1) /\ k \in 1..(m - 1)
        <4>1. p # 0 /\ p \in 1..(m - 1) /\ k \in 1..(m - 1)
          BY <2>4, <2>8
        <4> QED
          BY <2>6, <4>1
      <3>2. k # p => <<f[k], f[p]>> \in B
        BY <2>5, <3>1
      <3> QED
        BY <2>9, <3>1, <3>2
    <2>11. \A k \in (p + 1)..(m - 1) : <<m, f[k]>> \in B
      <3> TAKE k \in (p + 1)..(m - 1)
      <3>1. k \in 1..(m - 1) /\ k \in 0..(m - 1) /\ ~ (k <= p)
        BY <2>8
      <3>2. ~ (<<f[k], m>> \in B)
        BY <2>6, <2>7, <3>1
      <3>3. f[k] # m /\ f[k] \in 1..n /\ m \in 1..n
        BY <2>2, <2>9, <3>1
      <3> QED
        BY <3>2, <3>3
    <2> DEFINE g == [k \in 1..m |-> IF k <= p THEN f[k] ELSE IF k = p + 1 THEN m ELSE f[k - 1]]
    <2>12. \A k \in 1..m :
             /\ k <= p => k \in 1..(m - 1) /\ g[k] = f[k]
             /\ k = p + 1 => g[k] = m
             /\ k > p + 1 => k - 1 \in (p + 1)..(m - 1) /\ k - 1 \in 1..(m - 1) /\ g[k] = f[k - 1]
      BY <2>2, <2>3, <2>8
    <2>13. g \in [1..m -> 1..m]
      <3>1. \A k \in 1..m : (IF k <= p THEN f[k] ELSE IF k = p + 1 THEN m ELSE f[k - 1]) \in 1..m
        <4> TAKE k \in 1..m
        <4>1. \A i \in 1..(m - 1) : f[i] \in 1..m
          BY <2>2, <2>9
        <4>2. (k <= p => k \in 1..(m - 1)) /\ (k > p + 1 => k - 1 \in 1..(m - 1)) /\ m \in 1..m
          BY <2>2, <2>3, <2>4, <2>8
        <4>3. k <= p \/ k = p + 1 \/ k > p + 1
          BY <2>8
        <4> QED
          BY <4>1, <4>2, <4>3
      <3> QED
        BY <3>1
    <2> HIDE DEF g
    <2>14. \A x \in 1..m : \E k \in 1..m : g[k] = x
      <3> TAKE x \in 1..m
      <3>1. CASE x = m
        <4>1. p + 1 \in 1..m
          BY <2>2, <2>3, <2>8
        <4> QED
          BY <3>1, <4>1, <2>12
      <3>2. CASE x # m
        <4>1. x \in 1..(m - 1)
          BY <2>2, <3>2
        <4>2. PICK k \in 1..(m - 1) : f[k] = x
          BY <4>1, <2>5
        <4>3. CASE k <= p
          <5>1. k \in 1..m
            BY <2>2, <2>4
          <5> QED
            BY <5>1, <2>12, <4>2, <4>3
        <4>4. CASE ~ (k <= p)
          <5>1. k + 1 \in 1..m /\ k + 1 > p + 1 /\ (k + 1) - 1 = k
            BY <2>2, <2>8, <4>4
          <5> QED
            BY <5>1, <2>12, <4>2
        <4> QED
          BY <4>3, <4>4
      <3> QED
        BY <3>1, <3>2
    <2>15. \A j, k \in 1..m : j < k => <<g[j], g[k]>> \in B
      <3> SUFFICES ASSUME NEW j \in 1..m, NEW k \in 1..m, j < k PROVE <<g[j], g[k]>> \in B
        OBVIOUS
      <3>0. \A a, b \in 1..(m - 1) : a < b => <<f[a], f[b]>> \in B
        BY <2>5
      <3>1. CASE k <= p
        <4>1. j <= p
          BY <3>1, <2>8
        <4> QED
          BY <2>12, <3>0, <3>1, <4>1
      <3>2. CASE k = p + 1
        <4>1. j <= p /\ j \in 1..p
          BY <3>2, <2>8
        <4> QED
          BY <2>12, <2>10, <3>2, <4>1
      <3>3. CASE k > p + 1 /\ j <= p
        <4>1. j < k - 1
          BY <3>3, <2>8
        <4> QED
          BY <2>12, <3>0, <3>3, <4>1
      <3>4. CASE k > p + 1 /\ j = p + 1
        BY <2>12, <2>11, <3>4
      <3>5. CASE k > p + 1 /\ j > p + 1
        <4>1. j - 1 < k - 1
          OBVIOUS
        <4> QED
          BY <2>12, <3>0, <3>5, <4>1
      <3> QED
        BY <2>8, <3>1, <3>2, <3>3, <3>4, <3>5
    <2> QED
      BY <1>1, <2>13, <2>14, <2>15
  <1> QED
    <2> HIDE DEF Sorts
    <2>1. n \in 0..n /\ ~ (n \in Bad)
      BY <1>4
    <2>2. PICK f \in [1..n -> 1..n] : Sorts(f, n)
      BY <1>2, <2>1
    <2> QED
      BY <2>2 DEF Sorts

---------------------------------------------------------------------------
\* Sequences: the last element, the front, the rest, one element replaced.
LEMMA SeqLast ==
  ASSUME NEW S, NEW s \in Seq(S), s # << >>
  PROVE  Len(s) \in Nat \ {0} /\ s[Len(s)] \in S
  OBVIOUS

\* A sequence without its last element: how _emit drops its frame.
LEMMA SeqFront ==
  ASSUME NEW S, NEW s \in Seq(S), s # << >>
  PROVE  /\ SubSeq(s, 1, Len(s) - 1) \in Seq(S)
         /\ Len(SubSeq(s, 1, Len(s) - 1)) = Len(s) - 1
  <1> DEFINE n == Len(s) - 1
  <1>1. n \in Nat /\ \A i \in 1..n : s[i] \in S
    OBVIOUS
  <1> HIDE DEF n
  <1>2. SubSeq(s, 1, n) \in Seq(S) /\ Len(SubSeq(s, 1, n)) = IF 1 <= n THEN n - 1 + 1 ELSE 0
    BY <1>1, SubSeqProperties
  <1>3. Len(SubSeq(s, 1, n)) = n
    BY <1>1, <1>2
  <1>4. QED
    BY <1>2, <1>3 DEF n

\* A sequence with one element replaced.
LEMMA SeqUpdate ==
  ASSUME NEW S, NEW s \in Seq(S), NEW k \in 1..Len(s), NEW x \in S
  PROVE  [s EXCEPT ![k] = x] \in Seq(S) /\ Len([s EXCEPT ![k] = x]) = Len(s)
  OBVIOUS

\* A function on 1..n is a sequence of length n: how lists are rebuilt.
LEMMA SeqFromFunction ==
  ASSUME NEW S, NEW n \in Nat, NEW g \in [1..n -> S]
  PROVE  g \in Seq(S) /\ Len(g) = n
  OBVIOUS

\* The rest of a list from a position on: what a loop has still to visit.
LEMMA SeqRest ==
  ASSUME NEW S, NEW s \in Seq(S), NEW n \in Nat \ {0}
  PROVE  /\ 1..Len(SubSeq(s, n, Len(s))) = 1..(1 + Len(s) - n)
         /\ \A k \in 1..Len(SubSeq(s, n, Len(s))) : SubSeq(s, n, Len(s))[k] = s[k + n - 1]
  OBVIOUS

\* A sequence with one more element.
LEMMA SeqPush ==
  ASSUME NEW S, NEW s \in Seq(S), NEW x
  PROVE  /\ Len(s) \in Nat /\ Len(Append(s, x)) = Len(s) + 1
         /\ Append(s, x)[Len(s) + 1] = x
         /\ \A k \in 1..Len(s) : Append(s, x)[k] = s[k]
         /\ Append(s, x) # << >>
  OBVIOUS
=============================================================================
