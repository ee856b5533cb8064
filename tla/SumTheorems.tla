----------------------------- MODULE SumTheorems -----------------------------
(***************************************************************************)
(* Sums over a finite set (SumFunctionOnSet of module Functions), as the   *)
(* quotas of quota_service.py and the totals of metering_service.py take   *)
(* them.  The fold behind a sum is a recursive function: that it exists,   *)
(* that it does not depend on the order in which the elements are taken,   *)
(* and what a sum is worth are proved here from the well-ordering of Nat,  *)
(* by taking the least counterexample.                                     *)
(***************************************************************************)
EXTENDS Integers, FiniteSets, Functions, FiniteSetTheorems, WellFoundedInduction, TLAPS

\* The element a fold takes first.
First(s) == CHOOSE x \in s : TRUE

\* g gives the sum of f over every set of D.
IsSum(f, g, D) ==
    g = [s \in D |-> IF s = {} THEN 0 ELSE f[First(s)] + g[s \ {First(s)}]]

SumsSubsets(f, g, S) == IsSum(f, g, SUBSET S)

\* The two ways a count is seen to be within another without arithmetic.
LEMMA AtMost == \A m, n \in Nat : m = 0 \/ m = n => m <= n
OBVIOUS

\* A nonempty set of natural numbers has a least element, and its predecessor is not
\* in the set: what an induction over Nat needs.
LEMMA LeastNatural ==
  ASSUME NEW T \in SUBSET Nat, T # {}
  PROVE  \E n \in T : /\ \A k \in T : n <= k
                      /\ n # 0 => n - 1 \in Nat /\ n - 1 \notin T
<1>1. IsWellFoundedOn(OpToRel(<, Nat), Nat)
  BY Zenon, NatLessThanWellFounded
<1>2. PICK n \in T : \A k \in T : ~(<<k, n>> \in OpToRel(<, Nat))
  BY Zenon, <1>1, WFMin
<1>3. \A k \in T : ~(k < n)
  BY Zenon, <1>2 DEF OpToRel
<1>4. n # 0 => n - 1 \in Nat /\ n - 1 \notin T
  BY <1>3
<1>5. QED
  BY <1>3, <1>4

LEMMA FirstIn ==
  ASSUME NEW s, s # {}
  PROVE  First(s) \in s
  BY DEF First

LEMMA SubsetsFinite ==
  ASSUME NEW S, IsFiniteSet(S), NEW s \in SUBSET S
  PROVE  /\ IsFiniteSet(s)
         /\ Cardinality(s) \in Nat
         /\ Cardinality(s) <= Cardinality(S)
         /\ s = {} <=> Cardinality(s) = 0
         /\ \A x \in s : Cardinality(s \ {x}) = Cardinality(s) - 1
<1>1. IsFiniteSet(s) /\ Cardinality(s) <= Cardinality(S)
  BY FS_Subset
<1>2. QED
  BY Zenon, <1>1, FS_CardinalityType, FS_EmptySet, FS_RemoveElement

\* Among the subsets of a finite set that have some property, one is smallest: no
\* proper subset of it has the property.
LEMMA SmallestSubset ==
  ASSUME NEW S, IsFiniteSet(S), NEW Bad \in SUBSET (SUBSET S), Bad # {}
  PROVE  \E m \in Bad : \A x \in m : m \ {x} \notin Bad
<1> DEFINE Sizes == {Cardinality(s) : s \in Bad}
<1>1. Sizes \in SUBSET Nat /\ Sizes # {}
  BY SubsetsFinite
<1>2. PICK n \in Sizes : \A k \in Sizes : n <= k
  BY Zenon, <1>1, LeastNatural
<1>3. PICK m \in Bad : Cardinality(m) = n
  BY <1>2
<1>4. ASSUME NEW x \in m, m \ {x} \in Bad
      PROVE  FALSE
  <2>1. Cardinality(m \ {x}) = n - 1 /\ n \in Nat
    BY <1>1, <1>3, SubsetsFinite
  <2>2. n <= Cardinality(m \ {x})
    BY <1>2, <1>4
  <2>3. QED
    BY <2>1, <2>2
<1>5. QED
  BY <1>4

-----------------------------------------------------------------------------
(* The fold exists and is unique. *)

LEMMA SumExists ==
  ASSUME NEW S, IsFiniteSet(S), NEW f
  PROVE  \E g : SumsSubsets(f, g, S)
<1> DEFINE Upto(n) == {s \in SUBSET S : Cardinality(s) <= n}
           Bad == {n \in Nat : ~\E g : IsSum(f, g, Upto(n))}
<1>1. Bad = {}
  <2> SUFFICES ASSUME Bad # {} PROVE FALSE
    OBVIOUS
  <2>1. PICK n \in Bad : n # 0 => n - 1 \in Nat /\ n - 1 \notin Bad
    BY Zenon, LeastNatural
  <2>2. CASE n = 0
    <3> DEFINE g == [s \in Upto(0) |-> 0]
    <3>1. \A s \in Upto(0) : s = {}
      BY SubsetsFinite
    <3>2. g = [s \in Upto(0) |-> IF s = {} THEN 0 ELSE f[First(s)] + g[s \ {First(s)}]]
      BY <3>1
    <3>3. IsSum(f, g, Upto(n))
      BY Zenon, <2>2, <3>2 DEF IsSum
    <3>4. QED
      BY Zenon, <2>1, <3>3
  <2>3. CASE n # 0
    <3>1. n - 1 \in Nat /\ n - 1 \notin Bad
      BY Zenon, <2>1, <2>3
    <3>2. PICK g : IsSum(f, g, Upto(n - 1))
      BY Zenon, <3>1
    <3> DEFINE h == [s \in Upto(n) |->
                        IF s = {} THEN 0 ELSE f[First(s)] + g[s \ {First(s)}]]
    <3>3. ASSUME NEW s \in Upto(n), s # {}
          PROVE  h[s \ {First(s)}] = g[s \ {First(s)}]
      <4>1. s \ {First(s)} \in Upto(n - 1) /\ s \ {First(s)} \in Upto(n)
        BY <3>1, <3>3, FirstIn, SubsetsFinite
      <4>2. g[s \ {First(s)}] =
              IF s \ {First(s)} = {} THEN 0
              ELSE f[First(s \ {First(s)})] + g[(s \ {First(s)}) \ {First(s \ {First(s)})}]
        BY Zenon, <3>2, <4>1 DEF IsSum
      <4>3. QED
        BY <4>1, <4>2
    <3>4. h = [s \in Upto(n) |-> IF s = {} THEN 0 ELSE f[First(s)] + h[s \ {First(s)}]]
      BY Zenon, <3>3
    <3>5. IsSum(f, h, Upto(n))
      BY Zenon, <3>4 DEF IsSum
    <3>6. QED
      BY Zenon, <2>1, <3>5
  <2>4. QED
    BY <2>2, <2>3
<1>2. Cardinality(S) \in Nat /\ Upto(Cardinality(S)) = SUBSET S
  BY SubsetsFinite
<1>3. QED
  BY Zenon, <1>1, <1>2 DEF SumsSubsets

LEMMA SumUnique ==
  ASSUME NEW S, IsFiniteSet(S), NEW T \in SUBSET S, NEW f, NEW g, NEW h,
         SumsSubsets(f, g, S), SumsSubsets(f, h, T)
  PROVE  \A s \in SUBSET T : g[s] = h[s]
<1> DEFINE Bad == {s \in SUBSET T : g[s] # h[s]}
<1> SUFFICES ASSUME Bad # {} PROVE FALSE
  OBVIOUS
<1>1. PICK m \in Bad : \A x \in m : m \ {x} \notin Bad
  BY Zenon, SmallestSubset
<1>2. /\ g[m] = IF m = {} THEN 0 ELSE f[First(m)] + g[m \ {First(m)}]
      /\ h[m] = IF m = {} THEN 0 ELSE f[First(m)] + h[m \ {First(m)}]
  BY Zenon DEF SumsSubsets, IsSum
<1>3. m # {} => g[m \ {First(m)}] = h[m \ {First(m)}]
  BY <1>1, FirstIn
<1>4. QED
  BY <1>1, <1>2, <1>3

LEMMA SumIsFold ==
  ASSUME NEW S, IsFiniteSet(S), NEW f
  PROVE  \E g : SumsSubsets(f, g, S) /\ SumFunctionOnSet(f, S) = g[S]
<1> DEFINE g == CHOOSE iter : SumsSubsets(f, iter, S)
<1>1. SumsSubsets(f, g, S)
  BY SumExists
<1>2. SumFunctionOnSet(f, S) = g[S]
  BY DEF SumFunctionOnSet, FoldFunctionOnSet, MapThenFoldSet, SumsSubsets, IsSum, First
<1>3. QED
  BY Zenon, <1>1, <1>2

\* A sum takes one element and leaves the sum of the others.
LEMMA SumFirst ==
  ASSUME NEW S, IsFiniteSet(S), S # {}, NEW f
  PROVE  SumFunctionOnSet(f, S)
           = f[First(S)] + SumFunctionOnSet(f, S \ {First(S)})
<1> DEFINE T == S \ {First(S)}
<1>1. IsFiniteSet(T)
  BY SubsetsFinite
<1>2. PICK g : SumsSubsets(f, g, S) /\ SumFunctionOnSet(f, S) = g[S]
  BY SumIsFold
<1>3. PICK h : SumsSubsets(f, h, T) /\ SumFunctionOnSet(f, T) = h[T]
  BY <1>1, SumIsFold
<1>4. g[S] = f[First(S)] + g[T]
  BY Zenon, <1>2 DEF SumsSubsets, IsSum
<1>5. g[T] = h[T]
  <2>1. T \in SUBSET S
    OBVIOUS
  <2> HIDE DEF T
  <2>2. \A s \in SUBSET T : g[s] = h[s]
    BY <1>2, <1>3, <2>1, SumUnique
  <2>3. QED
    BY <2>2
<1>6. QED
  BY <1>2, <1>3, <1>4, <1>5

-----------------------------------------------------------------------------
(* What the models need to know of a sum. *)

\* An account without active agents uses nothing of its quota.
THEOREM SumEmpty ==
  ASSUME NEW f
  PROVE  SumFunctionOnSet(f, {}) = 0
<1>1. PICK g : SumsSubsets(f, g, {}) /\ SumFunctionOnSet(f, {}) = g[{}]
  BY FS_EmptySet, SumIsFold
<1>2. QED
  BY <1>1 DEF SumsSubsets, IsSum

\* A total of replicas or of amounts is again a number of them.
THEOREM SumType ==
  ASSUME NEW S, IsFiniteSet(S), NEW f, \A x \in S : f[x] \in Nat
  PROVE  SumFunctionOnSet(f, S) \in Nat
<1> DEFINE Bad == {s \in SUBSET S : SumFunctionOnSet(f, s) \notin Nat}
<1>1. Bad = {}
  <2> SUFFICES ASSUME Bad # {} PROVE FALSE
    OBVIOUS
  <2>1. PICK m \in Bad : \A x \in m : m \ {x} \notin Bad
    BY Zenon, SmallestSubset
  <2>2. m # {}
    BY SumEmpty
  <2>3. First(m) \in m /\ SumFunctionOnSet(f, m \ {First(m)}) \in Nat
    BY <2>1, <2>2, FirstIn
  <2>4. SumFunctionOnSet(f, m) = f[First(m)] + SumFunctionOnSet(f, m \ {First(m)})
    BY Zenon, <2>2, SubsetsFinite, SumFirst
  <2>5. QED
    BY <2>3, <2>4
<1>2. QED
  BY <1>1

\* Any element may be taken first: addition is associative and commutative.
THEOREM SumRemove ==
  ASSUME NEW S, IsFiniteSet(S), NEW f, \A x \in S : f[x] \in Nat, NEW y \in S
  PROVE  SumFunctionOnSet(f, S) = f[y] + SumFunctionOnSet(f, S \ {y})
<1> DEFINE Sum(s) == SumFunctionOnSet(f, s)
           Bad == {s \in SUBSET S : \E x \in s : Sum(s) # f[x] + Sum(s \ {x})}
<1>1. Bad = {}
  <2> SUFFICES ASSUME Bad # {} PROVE FALSE
    OBVIOUS
  <2>1. PICK m \in Bad : \A x \in m : m \ {x} \notin Bad
    BY Zenon, SmallestSubset
  <2>2. PICK x \in m : Sum(m) # f[x] + Sum(m \ {x})
    BY <2>1
  <2> DEFINE p == First(m)
  <2>3. p \in m /\ Sum(m) = f[p] + Sum(m \ {p})
    BY Zenon, SubsetsFinite, FirstIn, SumFirst
  <2> HIDE DEF p
  <2>4. x # p
    BY <2>2, <2>3
  <2>5. Sum(m \ {p}) = f[x] + Sum((m \ {p}) \ {x})
    BY Zenon, <2>1, <2>3, <2>4
  <2>6. Sum(m \ {x}) = f[p] + Sum((m \ {x}) \ {p})
    BY Zenon, <2>1, <2>3, <2>4
  <2>7. (m \ {x}) \ {p} = (m \ {p}) \ {x}
    OBVIOUS
  <2>8. f[x] \in Nat /\ f[p] \in Nat /\ Sum((m \ {p}) \ {x}) \in Nat
    <3>1. (m \ {p}) \ {x} \in SUBSET S
      OBVIOUS
    <3>2. QED
      BY Zenon, <2>3, <3>1, SubsetsFinite, SumType
  <2>9. QED
    BY <2>2, <2>3, <2>5, <2>6, <2>7, <2>8
<1>2. QED
  BY <1>1

\* Sums of functions that agree on the set agree.
THEOREM SumEqual ==
  ASSUME NEW S, IsFiniteSet(S), NEW f, NEW g, \A x \in S : f[x] = g[x]
  PROVE  SumFunctionOnSet(f, S) = SumFunctionOnSet(g, S)
<1> DEFINE Bad == {s \in SUBSET S : SumFunctionOnSet(f, s) # SumFunctionOnSet(g, s)}
<1>1. Bad = {}
  <2> SUFFICES ASSUME Bad # {} PROVE FALSE
    OBVIOUS
  <2>1. PICK m \in Bad : \A x \in m : m \ {x} \notin Bad
    BY Zenon, SmallestSubset
  <2>2. m # {}
    BY SumEmpty
  <2>3. First(m) \in m
    BY <2>2, FirstIn
  <2>4. /\ SumFunctionOnSet(f, m) = f[First(m)] + SumFunctionOnSet(f, m \ {First(m)})
        /\ SumFunctionOnSet(g, m) = g[First(m)] + SumFunctionOnSet(g, m \ {First(m)})
    BY Zenon, <2>2, SubsetsFinite, SumFirst
  <2>5. QED
    BY <2>1, <2>3, <2>4
<1>2. QED
  BY <1>1

\* A sum grows with its summands.
THEOREM SumMonotone ==
  ASSUME NEW S, IsFiniteSet(S), NEW f, NEW g,
         \A x \in S : f[x] \in Nat /\ g[x] \in Nat /\ f[x] <= g[x]
  PROVE  SumFunctionOnSet(f, S) <= SumFunctionOnSet(g, S)
<1> DEFINE Bad == {s \in SUBSET S : ~(SumFunctionOnSet(f, s) <= SumFunctionOnSet(g, s))}
<1>1. Bad = {}
  <2> SUFFICES ASSUME Bad # {} PROVE FALSE
    OBVIOUS
  <2>1. PICK m \in Bad : \A x \in m : m \ {x} \notin Bad
    BY Zenon, SmallestSubset
  <2>2. m # {}
    BY SumEmpty
  <2>3. First(m) \in m
    BY <2>2, FirstIn
  <2>4. /\ SumFunctionOnSet(f, m) = f[First(m)] + SumFunctionOnSet(f, m \ {First(m)})
        /\ SumFunctionOnSet(g, m) = g[First(m)] + SumFunctionOnSet(g, m \ {First(m)})
    BY Zenon, <2>2, SubsetsFinite, SumFirst
  <2>5. /\ SumFunctionOnSet(f, m \ {First(m)}) \in Nat
        /\ SumFunctionOnSet(g, m \ {First(m)}) \in Nat
    <3>1. m \ {First(m)} \in SUBSET S
      OBVIOUS
    <3>2. QED
      BY <3>1, SubsetsFinite, SumType
  <2>6. SumFunctionOnSet(f, m \ {First(m)}) <= SumFunctionOnSet(g, m \ {First(m)})
    BY <2>1, <2>3
  <2>7. QED
    BY <2>1, <2>3, <2>4, <2>5, <2>6
<1>2. QED
  BY <1>1

\* A sum of nothing but zeros: the period an account has booked nothing in.
THEOREM SumZero ==
  ASSUME NEW S, IsFiniteSet(S), NEW f, \A x \in S : f[x] = 0
  PROVE  SumFunctionOnSet(f, S) = 0
<1> DEFINE Bad == {s \in SUBSET S : SumFunctionOnSet(f, s) # 0}
<1>1. Bad = {}
  <2> SUFFICES ASSUME Bad # {} PROVE FALSE
    OBVIOUS
  <2>1. PICK m \in Bad : \A x \in m : m \ {x} \notin Bad
    BY Zenon, SmallestSubset
  <2>2. m # {}
    BY SumEmpty
  <2>3. IsFiniteSet(m) /\ First(m) \in m
    BY <2>2, SubsetsFinite, FirstIn
  <2>4. SumFunctionOnSet(f, m) = f[First(m)] + SumFunctionOnSet(f, m \ {First(m)})
    BY <2>2, <2>3, SumFirst
  <2>5. SumFunctionOnSet(f, m \ {First(m)}) = 0 /\ f[First(m)] = 0
    BY <2>1, <2>3
  <2>6. QED
    BY <2>1, <2>4, <2>5
<1>2. QED
  BY <1>1

\* A row that grows makes the total grow by as much.
THEOREM SumPlus ==
  ASSUME NEW S, IsFiniteSet(S), NEW f, NEW g, NEW y \in S, NEW d \in Nat,
         \A x \in S : f[x] \in Nat /\ g[x] = IF x = y THEN f[x] + d ELSE f[x]
  PROVE  SumFunctionOnSet(g, S) = SumFunctionOnSet(f, S) + d
<1>1. IsFiniteSet(S \ {y})
  BY SubsetsFinite
<1>2. SumFunctionOnSet(f, S) = f[y] + SumFunctionOnSet(f, S \ {y})
  BY SumRemove
<1>3. \A x \in S : g[x] \in Nat
  OBVIOUS
<1>4. SumFunctionOnSet(g, S) = g[y] + SumFunctionOnSet(g, S \ {y})
  BY <1>3, SumRemove
<1>5. SumFunctionOnSet(g, S \ {y}) = SumFunctionOnSet(f, S \ {y})
  BY <1>1, SumEqual
<1>6. SumFunctionOnSet(f, S \ {y}) \in Nat
  BY <1>1, SumType
<1>7. QED
  BY <1>2, <1>4, <1>5, <1>6
=============================================================================
