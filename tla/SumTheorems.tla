----------------------------- MODULE SumTheorems ----------------------------
(***************************************************************************)
(* Sums of a function over a finite set, as SumFunctionOnSet of the        *)
(* community modules computes them: one element after the other, picked by *)
(* CHOOSE.  The lemmas say that the order does not matter.  They are what  *)
(* the proofs about ledgers need: how a sum changes when one summand does  *)
(* or when an element is added, and how two sums compare.                  *)
(*                                                                         *)
(* The last part is about folds over a sequence.                           *)
(*                                                                         *)
(* Induction is by sets: the good subsets are all subsets if the empty set *)
(* is good and a set is good as soon as it is good without any one of its  *)
(* elements.                                                               *)
(***************************************************************************)
EXTENDS SequencesExt, FiniteSetsExt, FiniteSetTheorems, TLAPS

\* Every set of natural numbers has a least element, unless it is empty.
LEMMA LeastNatural ==
    ASSUME NEW T \in SUBSET Nat, T # {}
    PROVE  \E n \in T : \A m \in T : n <= m
<1>1. IsWellFoundedOn(OpToRel(<, Nat), Nat)
  BY NatLessThanWellFounded
<1>2. PICK n \in T : \A m \in T : ~(<<m, n>> \in OpToRel(<, Nat))
  BY <1>1, WFMin
<1>3. \A m \in T : ~(m < n)
  BY <1>2 DEF OpToRel
<1> QED
  BY <1>3, n \in Nat

\* Induction over the subsets of a finite set.
LEMMA SubsetInduction ==
    ASSUME NEW S, IsFiniteSet(S), NEW Good, {} \in Good,
           \A s \in SUBSET S : s # {} /\ (\A x \in s : s \ {x} \in Good) => s \in Good
    PROVE  SUBSET S \subseteq Good
<1>1. \A s \in SUBSET S : IsFiniteSet(s) /\ Cardinality(s) \in Nat
  BY FS_Subset, FS_CardinalityType
<1> DEFINE Bad == {n \in Nat : \E s \in SUBSET S : Cardinality(s) = n /\ s \notin Good}
<1> SUFFICES ASSUME Bad # {} PROVE FALSE
  BY <1>1
<1>2. PICK n \in Bad : \A m \in Bad : n <= m
  BY LeastNatural
<1>3. PICK s \in SUBSET S : Cardinality(s) = n /\ s \notin Good
  BY <1>2
<1>4. ASSUME NEW x \in s PROVE s \ {x} \in Good
  <2>1. Cardinality(s \ {x}) = n - 1
    BY <1>1, <1>3, FS_RemoveElement
  <2>2. Cardinality(s \ {x}) \in Nat /\ s \ {x} \in SUBSET S
    BY <1>1
  <2> QED
    BY <1>2, <2>1, <2>2
<1> QED
  BY <1>3, <1>4

-----------------------------------------------------------------------------
Pick(s) == CHOOSE x \in s : TRUE

\* g adds up f over every subset of S.
Adds(g, f, S) == g = [s \in SUBSET S |-> IF s = {} THEN 0 ELSE f[Pick(s)] + g[s \ {Pick(s)}]]

LEMMA PickIn ==
    ASSUME NEW s, s # {}
    PROVE  Pick(s) \in s
BY DEF Pick

\* The recursion behind a sum has a solution.
LEMMA AddsExists ==
    ASSUME NEW S, IsFiniteSet(S), NEW f
    PROVE  \E g : Adds(g, f, S)
<1> DEFINE Up(n) == {s \in SUBSET S : Cardinality(s) <= n}
           Rhs(g, s) == IF s = {} THEN 0 ELSE f[Pick(s)] + g[s \ {Pick(s)}]
           Good(n) == \E g : g = [s \in Up(n) |-> Rhs(g, s)]
           Bad == {n \in Nat : ~Good(n)}
<1>1. \A s \in SUBSET S : IsFiniteSet(s) /\ Cardinality(s) \in Nat
  BY FS_Subset, FS_CardinalityType
<1>2. \A n \in Nat : \A s \in Up(n + 1) : s # {} => s \ {Pick(s)} \in Up(n)
  <2> SUFFICES ASSUME NEW n \in Nat, NEW s \in Up(n + 1), s # {}
               PROVE  s \ {Pick(s)} \in Up(n)
    OBVIOUS
  <2>1. IsFiniteSet(s) /\ Cardinality(s) \in Nat /\ Pick(s) \in s
    BY <1>1, PickIn
  <2>2. Cardinality(s \ {Pick(s)}) = Cardinality(s) - 1
    BY <2>1, FS_RemoveElement
  <2> QED
    BY <2>1, <2>2
<1>3. Good(0)
  <2>1. \A s \in Up(0) : s = {}
    BY <1>1, FS_EmptySet
  <2>2. [s \in Up(0) |-> 0] = [s \in Up(0) |-> Rhs([t \in Up(0) |-> 0], s)]
    BY <2>1
  <2> QED
    BY <2>2
<1>4. ASSUME NEW n \in Nat, Good(n) PROVE Good(n + 1)
  <2>1. PICK g : g = [s \in Up(n) |-> Rhs(g, s)]
    BY <1>4
  <2> DEFINE h == [s \in Up(n + 1) |-> Rhs(g, s)]
  <2>2. \A s \in Up(n) : s \in Up(n + 1) /\ h[s] = g[s]
    <3>1. \A s \in Up(n) : s \in Up(n + 1)
      BY <1>1
    <3>2. \A s \in Up(n) : g[s] = Rhs(g, s)
      BY <2>1, Zenon
    <3> QED
      BY <3>1, <3>2
  <2>3. \A s \in Up(n + 1) : Rhs(g, s) = Rhs(h, s)
    BY <1>2, <2>2
  <2>4. h = [s \in Up(n + 1) |-> Rhs(h, s)]
    <3> HIDE DEF Rhs, Up
    <3> QED
      BY <2>3
  <2> QED
    BY <2>4
<1>5. Bad = {}
  <2> SUFFICES ASSUME Bad # {} PROVE FALSE
    OBVIOUS
  <2> HIDE DEF Good
  <2>1. PICK n \in Bad : \A m \in Bad : n <= m
    BY LeastNatural
  <2>2. n \in Nat /\ n # 0 /\ n - 1 \in Nat /\ n - 1 \notin Bad
    BY <2>1, <1>3
  <2> QED
    BY <2>1, <2>2, <1>4
<1>6. Good(Cardinality(S))
  BY <1>5, <1>1
<1>7. Up(Cardinality(S)) = SUBSET S
  BY <1>1, FS_Subset
<1> QED
  BY <1>6, <1>7, Zenon DEF Adds

\* The sum over S is the value of that solution.
LEMMA SumByAdding ==
    ASSUME NEW S, IsFiniteSet(S), NEW f
    PROVE  \E g : Adds(g, f, S) /\ SumFunctionOnSet(f, S) = g[S]
<1>1. \E g : Adds(g, f, S)
  BY AddsExists
<1>2. SumFunctionOnSet(f, S) = (CHOOSE g : Adds(g, f, S))[S]
  BY Zenon DEF SumFunctionOnSet, FoldFunctionOnSet, MapThenFoldSet, Adds, Pick
<1>3. Adds(CHOOSE g : Adds(g, f, S), f, S)
  BY <1>1, Zenon
<1> QED
  BY <1>2, <1>3, Zenon

\* Solutions for two sets agree on what both are defined for.
LEMMA AddsAgree ==
    ASSUME NEW S, IsFiniteSet(S), NEW T \in SUBSET S, NEW f,
           NEW g, Adds(g, f, S), NEW h, Adds(h, f, T)
    PROVE  \A s \in SUBSET T : g[s] = h[s]
<1> DEFINE Good == {s \in SUBSET T : g[s] = h[s]}
<1>1. \A s \in SUBSET S : g[s] = IF s = {} THEN 0 ELSE f[Pick(s)] + g[s \ {Pick(s)}]
  BY Zenon DEF Adds
<1>2. \A s \in SUBSET T : h[s] = IF s = {} THEN 0 ELSE f[Pick(s)] + h[s \ {Pick(s)}]
  BY Zenon DEF Adds
<1>3. {} \in Good
  BY <1>1, <1>2
<1>4. ASSUME NEW s \in SUBSET T, s # {}, \A x \in s : s \ {x} \in Good
      PROVE  s \in Good
  <2>1. s \in SUBSET S /\ s \ {Pick(s)} \in Good
    BY <1>4, PickIn
  <2>2. g[s] = f[Pick(s)] + g[s \ {Pick(s)}] /\ h[s] = f[Pick(s)] + h[s \ {Pick(s)}]
    BY <1>1, <1>2, <1>4, <2>1
  <2>3. g[s \ {Pick(s)}] = h[s \ {Pick(s)}]
    BY <2>1
  <2> QED
    BY <2>2, <2>3
<1>5. IsFiniteSet(T)
  BY FS_Subset
<1> HIDE DEF Good
<1>6. SUBSET T \subseteq Good
  BY <1>3, <1>4, <1>5, SubsetInduction
<1> QED
  BY <1>6 DEF Good

\* The sum over nothing.
THEOREM SumEmpty == \A f : SumFunctionOnSet(f, {}) = 0
<1> SUFFICES ASSUME NEW f PROVE SumFunctionOnSet(f, {}) = 0
  OBVIOUS
<1>1. PICK g : Adds(g, f, {}) /\ SumFunctionOnSet(f, {}) = g[{}]
  BY SumByAdding, FS_EmptySet
<1>2. g[{}] = 0
  BY <1>1 DEF Adds
<1> QED
  BY <1>1, <1>2

\* The sum takes out the element it picks.
LEMMA SumPick ==
    ASSUME NEW S, IsFiniteSet(S), S # {}, NEW f
    PROVE  SumFunctionOnSet(f, S) = f[Pick(S)] + SumFunctionOnSet(f, S \ {Pick(S)})
<1> DEFINE T == S \ {Pick(S)}
<1>0. T \in SUBSET S /\ IsFiniteSet(T)
  BY FS_Subset
<1>1. PICK g : Adds(g, f, S) /\ SumFunctionOnSet(f, S) = g[S]
  BY SumByAdding
<1>2. PICK h : Adds(h, f, T) /\ SumFunctionOnSet(f, T) = h[T]
  BY <1>0, SumByAdding
<1>3. g[T] = h[T]
  BY <1>0, <1>1, <1>2, AddsAgree
<1>4. g[S] = f[Pick(S)] + g[S \ {Pick(S)}]
  BY <1>1 DEF Adds
<1> QED
  BY <1>1, <1>2, <1>3, <1>4

\* A sum of integers is an integer, one of natural numbers is natural.
THEOREM SumType ==
    ASSUME NEW S, IsFiniteSet(S), NEW f,
           NEW N \in {Nat, Int}, \A x \in S : f[x] \in N
    PROVE  SumFunctionOnSet(f, S) \in N
<1> DEFINE Good == {s \in SUBSET S : SumFunctionOnSet(f, s) \in N}
<1>1. {} \in Good
  BY SumEmpty
<1>2. ASSUME NEW s \in SUBSET S, s # {}, \A x \in s : s \ {x} \in Good
      PROVE  s \in Good
  <2>1. IsFiniteSet(s) /\ Pick(s) \in s
    BY <1>2, FS_Subset, PickIn
  <2>2. SumFunctionOnSet(f, s) = f[Pick(s)] + SumFunctionOnSet(f, s \ {Pick(s)})
    BY <1>2, <2>1, SumPick
  <2>3. f[Pick(s)] \in N /\ SumFunctionOnSet(f, s \ {Pick(s)}) \in N
    BY <1>2, <2>1
  <2> QED
    BY <2>2, <2>3
<1> HIDE DEF Good
<1>3. SUBSET S \subseteq Good
  BY <1>1, <1>2, SubsetInduction
<1> QED
  BY <1>3 DEF Good

\* Any element can be taken out of a sum first.
THEOREM SumRemove ==
    ASSUME NEW S, IsFiniteSet(S), NEW f, \A y \in S : f[y] \in Int, NEW x \in S
    PROVE  SumFunctionOnSet(f, S) = f[x] + SumFunctionOnSet(f, S \ {x})
<1> DEFINE Sum(s) == SumFunctionOnSet(f, s)
           Good == {s \in SUBSET S : \A z \in s : Sum(s) = f[z] + Sum(s \ {z})}
<1>1. {} \in Good
  OBVIOUS
<1>2. \A s \in SUBSET S : Sum(s) \in Int
  BY FS_Subset, SumType
<1>3. ASSUME NEW s \in SUBSET S, s # {}, \A z \in s : s \ {z} \in Good, NEW y \in s
      PROVE  Sum(s) = f[y] + Sum(s \ {y})
  <2> DEFINE p == Pick(s)
  <2>1. IsFiniteSet(s) /\ p \in s
    BY <1>3, FS_Subset, PickIn
  <2>2. Sum(s) = f[p] + Sum(s \ {p})
    BY <1>3, <2>1, SumPick
  <2>3. CASE y = p
    BY <2>2, <2>3
  <2>4. CASE y # p
    <3> DEFINE r == (s \ {p}) \ {y}
    <3>1. Sum(s \ {p}) = f[y] + Sum(r)
      BY <1>3, <2>1, <2>4
    <3>2. (s \ {y}) \ {p} = r
      OBVIOUS
    <3>3. Sum(s \ {y}) = f[p] + Sum((s \ {y}) \ {p})
      BY <1>3, <2>1, <2>4
    <3>4. Sum(s \ {y}) = f[p] + Sum(r)
      BY <3>2, <3>3
    <3>5. f[p] \in Int /\ f[y] \in Int /\ Sum(r) \in Int
      BY <1>2, <2>1
    <3> HIDE DEF Sum, p, r
    <3> QED
      BY <2>2, <3>1, <3>4, <3>5
  <2> QED
    BY <2>3, <2>4
<1>4. \A s \in SUBSET S : s # {} /\ (\A z \in s : s \ {z} \in Good) => s \in Good
  BY <1>3
<1> HIDE DEF Good
<1>5. SUBSET S \subseteq Good
  BY <1>1, <1>4, SubsetInduction
<1> QED
  BY <1>5 DEF Good

\* An element that is added adds its value.
THEOREM SumAdd ==
    ASSUME NEW S, IsFiniteSet(S), NEW x, x \notin S, NEW f,
           \A y \in S \cup {x} : f[y] \in Int
    PROVE  SumFunctionOnSet(f, S \cup {x}) = f[x] + SumFunctionOnSet(f, S)
<1>1. IsFiniteSet(S \cup {x}) /\ (S \cup {x}) \ {x} = S
  BY FS_AddElement
<1> QED
  BY <1>1, SumRemove

\* Sums of smaller values are smaller.
THEOREM SumMonotone ==
    ASSUME NEW S, IsFiniteSet(S), NEW f, NEW g,
           \A x \in S : f[x] \in Int /\ g[x] \in Int /\ f[x] <= g[x]
    PROVE  SumFunctionOnSet(f, S) <= SumFunctionOnSet(g, S)
<1> DEFINE Good == {s \in SUBSET S : SumFunctionOnSet(f, s) <= SumFunctionOnSet(g, s)}
<1>1. {} \in Good
  BY SumEmpty
<1>2. ASSUME NEW s \in SUBSET S, s # {}, \A x \in s : s \ {x} \in Good
      PROVE  s \in Good
  <2> DEFINE p == Pick(s)
             r == s \ {p}
  <2>1. IsFiniteSet(s) /\ p \in s /\ IsFiniteSet(r)
    BY <1>2, FS_Subset, PickIn
  <2>2. /\ SumFunctionOnSet(f, s) = f[p] + SumFunctionOnSet(f, r)
        /\ SumFunctionOnSet(g, s) = g[p] + SumFunctionOnSet(g, r)
    BY <1>2, <2>1, SumPick
  <2>3. SumFunctionOnSet(f, r) \in Int /\ SumFunctionOnSet(g, r) \in Int
    BY <2>1, SumType
  <2>4. r \in Good
    BY <1>2, <2>1
  <2>5. f[p] \in Int /\ g[p] \in Int /\ f[p] <= g[p]
    BY <2>1
  <2> HIDE DEF p, r
  <2> QED
    BY <2>2, <2>3, <2>4, <2>5
<1> HIDE DEF Good
<1>3. SUBSET S \subseteq Good
  BY <1>1, <1>2, SubsetInduction
<1> QED
  BY <1>3 DEF Good

\* A sum depends only on the values it adds up.
THEOREM SumSame ==
    ASSUME NEW S, IsFiniteSet(S), NEW f, NEW g,
           \A x \in S : f[x] \in Int /\ g[x] = f[x]
    PROVE  SumFunctionOnSet(g, S) = SumFunctionOnSet(f, S)
<1>1. SumFunctionOnSet(f, S) \in Int /\ SumFunctionOnSet(g, S) \in Int
  BY SumType
<1>2. SumFunctionOnSet(f, S) <= SumFunctionOnSet(g, S)
  BY SumMonotone
<1>3. SumFunctionOnSet(g, S) <= SumFunctionOnSet(f, S)
  BY SumMonotone
<1> QED
  BY <1>1, <1>2, <1>3

\* When one value changes the sum changes by as much.
THEOREM SumUpdate ==
    ASSUME NEW S, IsFiniteSet(S), NEW f, NEW g, NEW x \in S,
           \A y \in S : f[y] \in Int /\ g[y] \in Int,
           \A y \in S \ {x} : g[y] = f[y]
    PROVE  SumFunctionOnSet(g, S) = SumFunctionOnSet(f, S) + (g[x] - f[x])
<1>1. IsFiniteSet(S \ {x})
  BY FS_RemoveElement
<1>2. SumFunctionOnSet(g, S \ {x}) = SumFunctionOnSet(f, S \ {x})
  BY <1>1, SumSame
<1>3. SumFunctionOnSet(f, S) = f[x] + SumFunctionOnSet(f, S \ {x})
  BY SumRemove
<1>4. SumFunctionOnSet(g, S) = g[x] + SumFunctionOnSet(g, S \ {x})
  BY SumRemove
<1>5. SumFunctionOnSet(f, S \ {x}) \in Int
  BY <1>1, SumType
<1> QED
  BY <1>2, <1>3, <1>4, <1>5
\* The sum over two sets that share nothing.
THEOREM SumUnion ==
    ASSUME NEW S, NEW T, IsFiniteSet(S), IsFiniteSet(T), S \cap T = {}, NEW f,
           \A x \in S \cup T : f[x] \in Int
    PROVE  SumFunctionOnSet(f, S \cup T) = SumFunctionOnSet(f, S) + SumFunctionOnSet(f, T)
<1> DEFINE Sum(s) == SumFunctionOnSet(f, s)
           Good == {r \in SUBSET T : Sum(S \cup r) = Sum(S) + Sum(r)}
<1>0. Sum(S) \in Int
  BY SumType
<1>1. {} \in Good
  <2>1. Sum({}) = 0 /\ S \cup {} = S
    BY SumEmpty
  <2> HIDE DEF Sum
  <2> QED
    BY <1>0, <2>1
<1>2. ASSUME NEW r \in SUBSET T, r # {}, \A x \in r : r \ {x} \in Good PROVE r \in Good
  <2>1. PICK x \in r : TRUE
    BY <1>2
  <2> DEFINE q == r \ {x}
  <2>2. IsFiniteSet(q) /\ IsFiniteSet(S \cup q)
    <3>1. IsFiniteSet(q)
      BY FS_Subset
    <3> QED
      BY <3>1, FS_Union
  <2>3. x \notin q /\ x \notin S \cup q /\ q \cup {x} = r /\ (S \cup q) \cup {x} = S \cup r
    OBVIOUS
  <2>4. /\ \A y \in q \cup {x} : f[y] \in Int
        /\ \A y \in (S \cup q) \cup {x} : f[y] \in Int
    OBVIOUS
  <2>5. Sum(S \cup q) = Sum(S) + Sum(q)
    BY <1>2, <2>1
  <2>6. Sum(q) \in Int /\ f[x] \in Int
    BY <2>2, <2>4, SumType
  <2> HIDE DEF q
  <2>7. Sum(q \cup {x}) = f[x] + Sum(q)
    BY <2>2, <2>3, <2>4, SumAdd
  <2>8. Sum((S \cup q) \cup {x}) = f[x] + Sum(S \cup q)
    BY <2>2, <2>3, <2>4, SumAdd
  <2> HIDE DEF Sum
  <2>10. Sum(S \cup r) = Sum((S \cup q) \cup {x}) /\ Sum(r) = Sum(q \cup {x})
    BY <2>3, Zenon
  <2> DEFINE a == Sum(S \cup r)
             b == Sum((S \cup q) \cup {x})
             c == Sum(r)
             d == Sum(q \cup {x})
             e == Sum(S \cup q)
  <2>11. a = b /\ c = d /\ d = f[x] + Sum(q) /\ b = f[x] + e /\ e = Sum(S) + Sum(q)
    BY <2>5, <2>7, <2>8, <2>10
  <2> HIDE DEF a, b, c, d, e
  <2>12. a = Sum(S) + c
    BY <1>0, <2>6, <2>11
  <2>9. Sum(S \cup r) = Sum(S) + Sum(r)
    BY <2>12 DEF a, c
  <2> QED
    BY <2>9
<1> HIDE DEF Good
<1>3. SUBSET T \subseteq Good
  BY <1>1, <1>2, SubsetInduction
<1> QED
  BY <1>3 DEF Good

\* A sum of naturals over fewer elements is no larger.
THEOREM SumSubset ==
    ASSUME NEW T, IsFiniteSet(T), NEW S \in SUBSET T, NEW f, \A x \in T : f[x] \in Nat
    PROVE  SumFunctionOnSet(f, S) <= SumFunctionOnSet(f, T)
<1> DEFINE R == T \ S
<1>1. IsFiniteSet(S) /\ IsFiniteSet(R) /\ S \cap R = {} /\ S \cup R = T
  BY FS_Subset
<1>2. /\ \A x \in S \cup R : f[x] \in Int
      /\ \A x \in S : f[x] \in Nat
      /\ \A x \in R : f[x] \in Nat
  OBVIOUS
<1> HIDE DEF R
<1>3. SumFunctionOnSet(f, S) \in Nat /\ SumFunctionOnSet(f, R) \in Nat
  BY <1>1, <1>2, SumType
<1>4. SumFunctionOnSet(f, S \cup R) = SumFunctionOnSet(f, S) + SumFunctionOnSet(f, R)
  BY <1>1, <1>2, SumUnion
<1>5. SumFunctionOnSet(f, S \cup R) = SumFunctionOnSet(f, T)
  BY <1>1, Zenon
<1> DEFINE a == SumFunctionOnSet(f, S)
           b == SumFunctionOnSet(f, R)
           c == SumFunctionOnSet(f, T)
<1>6. a \in Nat /\ b \in Nat /\ c = a + b
  BY <1>3, <1>4, <1>5
<1> HIDE DEF a, b, c
<1>7. a <= c
  BY <1>6
<1> QED
  BY <1>7 DEF a, c

\* Nothing but zeros.
THEOREM SumZero ==
    ASSUME NEW S, IsFiniteSet(S), NEW f, \A x \in S : f[x] = 0
    PROVE  SumFunctionOnSet(f, S) = 0
<1> DEFINE Good == {s \in SUBSET S : SumFunctionOnSet(f, s) = 0}
<1>1. {} \in Good
  BY SumEmpty
<1>2. ASSUME NEW s \in SUBSET S, s # {}, \A x \in s : s \ {x} \in Good PROVE s \in Good
  <2>1. PICK x \in s : TRUE
    BY <1>2
  <2>2. IsFiniteSet(s) /\ \A y \in s : f[y] \in Int
    BY FS_Subset
  <2>3. SumFunctionOnSet(f, s) = f[x] + SumFunctionOnSet(f, s \ {x})
    BY <2>2, SumRemove
  <2> QED
    BY <1>2, <2>3
<1> HIDE DEF Good
<1>3. SUBSET S \subseteq Good
  BY <1>1, <1>2, SubsetInduction
<1> QED
  BY <1>3 DEF Good

-----------------------------------------------------------------------------
(* Folds over a sequence, as FoldLeft of the community modules computes    *)
(* them: over sets of positions, the last one first.  A step of the fold   *)
(* is given as a function on pairs, for an operator could not be passed.   *)

\* The last of some positions.
LEMMA LastPosition ==
    ASSUME NEW n \in Nat, NEW s \in SUBSET (1..n), s # {}
    PROVE  Max(s) \in s /\ \A y \in s : Max(s) >= y
<1> DEFINE T == {n - x : x \in s}
<1>1. T \in SUBSET Nat /\ T # {}
  OBVIOUS
<1>2. PICK d \in T : \A m \in T : d <= m
  BY <1>1, LeastNatural
<1>3. PICK x \in s : d = n - x
  BY <1>2
<1>4. \A y \in s : x >= y
  <2> SUFFICES ASSUME NEW y \in s PROVE x >= y
    OBVIOUS
  <2>1. n - y \in T /\ y \in Nat /\ x \in Nat
    OBVIOUS
  <2> QED
    BY <1>2, <1>3, <2>1
<1> HIDE DEF T
<1>5. \E z \in s : \A y \in s : z >= y
  BY <1>4
<1> QED
  BY <1>5, Zenon DEF Max

\* The last of all positions.
LEMMA LastOfAll ==
    ASSUME NEW n \in Nat, n # 0
    PROVE  Max(1..n) = n /\ (1..n) \ {n} = 1..(n - 1)
<1>1. n \in 1..n /\ 1..n \in SUBSET (1..n) /\ 1..n # {}
  OBVIOUS
<1>2. Max(1..n) \in 1..n /\ Max(1..n) >= n
  BY <1>1, LastPosition
<1> QED
  BY <1>2

\* g folds st from base over q, with values in A.
Folded(g, A, st, base, q) ==
    /\ g \in [SUBSET (1..Len(q)) -> A]
    /\ \A s \in SUBSET (1..Len(q)) :
          g[s] = IF s = {} THEN base ELSE st[<<g[s \ {Max(s)}], q[Max(s)]>>]

\* The recursion behind a fold has a solution.
LEMMA FoldExists ==
    ASSUME NEW A, NEW E, NEW base \in A, NEW q \in Seq(E), NEW st \in [A \X E -> A]
    PROVE  \E g : Folded(g, A, st, base, q)
<1> DEFINE S == 1..Len(q)
           Up(n) == {s \in SUBSET S : Cardinality(s) <= n}
           Rhs(g, s) == IF s = {} THEN base ELSE st[<<g[s \ {Max(s)}], q[Max(s)]>>]
           Good(n) == \E g \in [Up(n) -> A] : \A s \in Up(n) : g[s] = Rhs(g, s)
           Bad == {n \in Nat : ~Good(n)}
<1>0. Len(q) \in Nat /\ IsFiniteSet(S)
  BY FS_Interval
<1>1. \A s \in SUBSET S : IsFiniteSet(s) /\ Cardinality(s) \in Nat
  BY <1>0, FS_Subset, FS_CardinalityType
<1>2. \A n \in Nat : \A s \in Up(n + 1) : s # {} => Max(s) \in S /\ s \ {Max(s)} \in Up(n)
  <2> SUFFICES ASSUME NEW n \in Nat, NEW s \in Up(n + 1), s # {}
               PROVE  Max(s) \in S /\ s \ {Max(s)} \in Up(n)
    OBVIOUS
  <2>1. IsFiniteSet(s) /\ Cardinality(s) \in Nat /\ Max(s) \in s
    BY <1>0, <1>1, LastPosition
  <2>2. Cardinality(s \ {Max(s)}) = Cardinality(s) - 1
    BY <2>1, FS_RemoveElement
  <2>3. Cardinality(s) <= n + 1 /\ s \in SUBSET S
    OBVIOUS
  <2>4. Cardinality(s \ {Max(s)}) <= n
    BY <2>1, <2>2, <2>3
  <2> HIDE DEF S
  <2> QED
    BY <2>1, <2>3, <2>4
<1>3. Good(0)
  <2>1. \A s \in Up(0) : s = {}
    BY <1>1, FS_EmptySet
  <2> DEFINE g == [s \in Up(0) |-> base]
  <2>2. g \in [Up(0) -> A] /\ \A s \in Up(0) : g[s] = Rhs(g, s)
    BY <2>1
  <2> HIDE DEF g, Rhs, Up
  <2> QED
    BY <2>2
<1>4. ASSUME NEW n \in Nat, Good(n) PROVE Good(n + 1)
  <2>1. PICK g \in [Up(n) -> A] : \A s \in Up(n) : g[s] = Rhs(g, s)
    BY <1>4, Zenon
  <2> DEFINE h == [s \in Up(n + 1) |-> Rhs(g, s)]
  <2>2. \A s \in Up(n + 1) : Rhs(g, s) \in A
    <3> SUFFICES ASSUME NEW s \in Up(n + 1), s # {} PROVE st[<<g[s \ {Max(s)}], q[Max(s)]>>] \in A
      OBVIOUS
    <3>1. g[s \ {Max(s)}] \in A /\ q[Max(s)] \in E
      <4>1. s \ {Max(s)} \in Up(n) /\ Max(s) \in S
        BY <1>2
      <4> HIDE DEF Up
      <4> QED
        BY <1>0, <4>1
    <3> HIDE DEF Up
    <3> QED
      BY <3>1
  <2>3. \A s \in Up(n) : s \in Up(n + 1) /\ h[s] = g[s]
    <3>1. \A s \in Up(n) : s \in Up(n + 1)
      BY <1>1
    <3> HIDE DEF Up, Rhs
    <3> QED
      BY <2>1, <3>1
  <2>4. \A s \in Up(n + 1) : Rhs(g, s) = Rhs(h, s)
    <3> HIDE DEF Up, h
    <3> QED
      BY <1>2, <2>3
  <2>5. h \in [Up(n + 1) -> A] /\ \A s \in Up(n + 1) : h[s] = Rhs(h, s)
    <3> HIDE DEF Rhs, Up
    <3> QED
      BY <2>2, <2>4
  <2> HIDE DEF h, Rhs, Up
  <2> QED
    BY <2>5
<1>5. Bad = {}
  <2> SUFFICES ASSUME Bad # {} PROVE FALSE
    OBVIOUS
  <2> HIDE DEF Good
  <2>1. PICK n \in Bad : \A m \in Bad : n <= m
    BY LeastNatural
  <2>2. n \in Nat /\ n # 0 /\ n - 1 \in Nat /\ n - 1 \notin Bad
    BY <2>1, <1>3
  <2> QED
    BY <2>1, <2>2, <1>4
<1>6. Good(Cardinality(S))
  <2> HIDE DEF Good
  <2> QED
    BY <1>5, <1>0, FS_CardinalityType
<1>7. Up(Cardinality(S)) = SUBSET S
  BY <1>0, <1>1, FS_Subset
<1> QED
  BY <1>6, <1>7, Zenon DEF Folded

\* Induction up to a bound: the good numbers include 0 and, with a number, the next.
LEMMA UpTo ==
    ASSUME NEW n \in Nat, NEW Good, 0 \in Good, \A i \in 1..n : i - 1 \in Good => i \in Good
    PROVE  \A i \in 0..n : i \in Good
<1> DEFINE Bad == {i \in 0..n : i \notin Good}
<1> SUFFICES ASSUME Bad # {} PROVE FALSE
  OBVIOUS
<1>1. PICK i \in Bad : \A j \in Bad : i <= j
  <2>1. Bad \in SUBSET Nat
    OBVIOUS
  <2> HIDE DEF Bad
  <2> QED
    BY <2>1, LeastNatural
<1>2. i \in 1..n /\ i - 1 \in 0..n /\ i - 1 \notin Bad
  BY <1>1
<1> QED
  BY <1>1, <1>2

\* What g takes to the first positions of q, one step after the other.
Steps(g, A, st, base, q) ==
    /\ g[1..0] = base
    /\ \A i \in 0..Len(q) : g[1..i] \in A
    /\ \A i \in 1..Len(q) : g[1..i] = st[<<g[1..(i - 1)], q[i]>>]

\* On the first positions of a sequence a fold takes one step after the other.
LEMMA FoldSteps ==
    ASSUME NEW A, NEW E, NEW base \in A, NEW q \in Seq(E), NEW st \in [A \X E -> A],
           NEW g, Folded(g, A, st, base, q)
    PROVE  Steps(g, A, st, base, q)
<1> DEFINE S == 1..Len(q)
<1>1. /\ g \in [SUBSET S -> A]
      /\ \A s \in SUBSET S : g[s] = IF s = {} THEN base ELSE st[<<g[s \ {Max(s)}], q[Max(s)]>>]
  BY Zenon DEF Folded
<1>2. 1..0 = {} /\ Len(q) \in Nat
  OBVIOUS
<1>3. \A i \in 0..Len(q) : 1..i \in SUBSET S
  BY <1>2
<1>4. \A i \in 1..Len(q) : 1..i # {} /\ Max(1..i) = i /\ (1..i) \ {i} = 1..(i - 1)
  BY <1>2, LastOfAll
<1>5. \A i \in 1..Len(q) : i \in 0..Len(q)
  BY <1>2
<1> HIDE DEF S
<1>6. g[1..0] = base
  <2>1. {} \in SUBSET S
    OBVIOUS
  <2> QED
    BY <1>1, <1>2, <2>1
<1>7. \A i \in 0..Len(q) : g[1..i] \in A
  BY <1>1, <1>3
<1>8. ASSUME NEW i \in 1..Len(q) PROVE g[1..i] = st[<<g[1..(i - 1)], q[i]>>]
  <2> DEFINE s == 1..i
  <2>1. s \in SUBSET S /\ s # {} /\ Max(s) = i /\ s \ {i} = 1..(i - 1)
    BY <1>3, <1>4, <1>5
  <2> HIDE DEF s
  <2>2. g[s] = st[<<g[s \ {Max(s)}], q[Max(s)]>>]
    BY <1>1, <2>1
  <2>3. g[s] = st[<<g[1..(i - 1)], q[i]>>]
    BY <2>1, <2>2
  <2> QED
    BY <2>3 DEF s
<1> QED
  BY <1>6, <1>7, <1>8 DEF Steps
=============================================================================
