------------------------------ MODULE SumLemmas ------------------------------
(***************************************************************************)
(* What a sum over a finite set does when one of its values changes, when  *)
(* an element joins it and when nothing in it changes: facts about the     *)
(* fold SumFunctionOnSet of the community modules, of which a proof cannot *)
(* unfold the recursion.  They are shown by taking the smallest subset at  *)
(* which one of them would fail.                                           *)
(***************************************************************************)
EXTENDS Integers, FiniteSets, Functions, FiniteSetTheorems, WellFoundedInduction, TLAPS

Pick(S) == CHOOSE x \in S : TRUE

\* h adds f up over the subsets of S, one picked element at a time.
AddsUp(f, S, h) == h = [s \in SUBSET S |-> IF s = {} THEN 0 ELSE f[Pick(s)] + h[s \ {Pick(s)}]]

\* The community modules define a sum by CHOOSEing the function that adds up every subset.
LEMMA Unfolds ==
  ASSUME NEW f, NEW S
  PROVE  SumFunctionOnSet(f, S) = (CHOOSE iter : AddsUp(f, S, iter))[S]
BY DEF SumFunctionOnSet, FoldFunctionOnSet, MapThenFoldSet, Pick, AddsUp

\* What is picked of a set that is not empty is one of its elements.
LEMMA PickIn == ASSUME NEW S, S # {} PROVE Pick(S) \in S
BY DEF Pick

\* A set of subsets of a finite set has one none of the others lies inside of.
LEMMA Smallest ==
  ASSUME NEW S, IsFiniteSet(S), NEW T, T \subseteq SUBSET S, T # {}
  PROVE  \E x \in T : \A y \in T : ~(y \subseteq x /\ y # x)
<1>1. IsWellFoundedOn(StrictSubsetOrdering(S), SUBSET S)
  BY FS_StrictSubsetOrderingWellFounded, FS_FiniteSubsetsOfFinite
<1>2. \E x \in T : \A y \in T : ~ (<<y, x>> \in StrictSubsetOrdering(S))
  BY <1>1, WFMin
<1> QED BY <1>2 DEF StrictSubsetOrdering

\* What such a function says of one subset.
LEMMA AddsUpAt ==
  ASSUME NEW f, NEW S, NEW h, AddsUp(f, S, h), NEW s, s \subseteq S
  PROVE  /\ s = {} => h[s] = 0
         /\ s # {} => h[s] = f[Pick(s)] + h[s \ {Pick(s)}]
BY DEF AddsUp

\* Two such functions, over whatever sets, agree on the subsets they share.
LEMMA AddsUpOnce ==
  ASSUME NEW f, NEW A, NEW B, NEW h, NEW k, AddsUp(f, A, h), AddsUp(f, B, k),
         NEW S, IsFiniteSet(S), S \subseteq A, S \subseteq B
  PROVE  h[S] = k[S]
<1> DEFINE T == {s \in SUBSET S : h[s] # k[s]}
<1>0. T \subseteq SUBSET S
  OBVIOUS
<1>1. SUFFICES ASSUME T # {} PROVE FALSE
  OBVIOUS
<1> HIDE DEF T
<1>2. PICK m \in T : \A y \in T : ~(y \subseteq m /\ y # m)
  BY <1>1, <1>0, Smallest
<1> USE DEF T
<1>3. m # {}
  BY <1>2, AddsUpAt
<1>4. m \ {Pick(m)} \subseteq S /\ m \ {Pick(m)} # m
  BY <1>2, <1>3, PickIn
<1>5. h[m \ {Pick(m)}] = k[m \ {Pick(m)}]
  BY <1>2, <1>4
<1>6. h[m] = f[Pick(m)] + h[m \ {Pick(m)}] /\ k[m] = f[Pick(m)] + k[m \ {Pick(m)}]
  BY <1>2, <1>3, AddsUpAt
<1> QED BY <1>2, <1>5, <1>6

\* Over a finite set there is such a function.
LEMMA AddsUpExists ==
  ASSUME NEW f, NEW S, IsFiniteSet(S)
  PROVE  \E h : AddsUp(f, S, h)
<1> DEFINE T == {s \in SUBSET S : ~ \E h : AddsUp(f, s, h)}
           H(s) == CHOOSE h : AddsUp(f, s, h)
<1>0. T \subseteq SUBSET S
  OBVIOUS
<1>1. SUFFICES ASSUME T # {} PROVE FALSE
  OBVIOUS
<1> HIDE DEF T
<1>2. PICK m \in T : \A y \in T : ~(y \subseteq m /\ y # m)
  BY <1>1, <1>0, Smallest
<1> USE DEF T
<1>3. ASSUME NEW s, s \subseteq m, s # m PROVE AddsUp(f, s, H(s))
  BY <1>2, <1>3
<1> DEFINE p == Pick(m)
           below == IF m = {} THEN 0 ELSE f[p] + H(m \ {p})[m \ {p}]
           g == [s \in SUBSET m |-> IF s = m THEN below ELSE H(s)[s]]
<1>4. ASSUME NEW s \in SUBSET m
      PROVE g[s] = IF s = {} THEN 0 ELSE f[Pick(s)] + g[s \ {Pick(s)}]
  <2>1. CASE s = {} /\ m = {}
    BY <2>1
  <2>2. CASE s = {} /\ m # {}
    BY <2>2, <1>3, AddsUpAt
  <2>3. CASE s # {} /\ s = m
    <3>1. m \ {p} # m /\ m \ {p} \in SUBSET m
      BY <2>3, PickIn
    <3> QED BY <2>3, <3>1
  <2>4. CASE s # {} /\ s # m
    <3> DEFINE r == s \ {Pick(s)}
    <3>1. r # s /\ r \subseteq s /\ r # m /\ r \subseteq m
      BY <2>4, PickIn
    <3>2. AddsUp(f, s, H(s)) /\ AddsUp(f, r, H(r))
      BY <1>3, <2>4, <3>1
    <3>3. IsFiniteSet(r)
      BY <3>1, <1>2, FS_Subset
    <3>4. H(s)[r] = H(r)[r]
      BY <3>1, <3>2, <3>3, AddsUpOnce
    <3>5. H(s)[s] = f[Pick(s)] + H(s)[r]
      BY <2>4, <3>2, AddsUpAt
    <3>6. g[s] = H(s)[s] /\ g[r] = H(r)[r]
      BY <2>4, <3>1
    <3> QED BY <2>4, <3>4, <3>5, <3>6
  <2> QED BY <2>1, <2>2, <2>3, <2>4
<1>5. g = [s \in SUBSET m |-> IF s = {} THEN 0 ELSE f[Pick(s)] + g[s \ {Pick(s)}]]
  <2> DEFINE e(s) == IF s = {} THEN 0 ELSE f[Pick(s)] + g[s \ {Pick(s)}]
  <2>1. \A s \in SUBSET m : g[s] = e(s)
    BY <1>4
  <2>2. g = [s \in SUBSET m |-> g[s]]
    OBVIOUS
  <2> HIDE DEF g, e
  <2>3. [s \in SUBSET m |-> g[s]] = [s \in SUBSET m |-> e(s)]
    BY <2>1
  <2> QED BY <2>2, <2>3 DEF e
<1>6. AddsUp(f, m, g)
  BY <1>5 DEF AddsUp
<1> QED BY <1>2, <1>6

\* Nothing adds up to zero.
LEMMA SumEmpty == ASSUME NEW f PROVE SumFunctionOnSet(f, {}) = 0
<1>1. AddsUp(f, {}, CHOOSE h : AddsUp(f, {}, h))
  BY AddsUpExists, FS_EmptySet
<1> QED BY <1>1, Unfolds, AddsUpAt

\* A sum is the picked element and the sum of the others.
LEMMA SumPick ==
  ASSUME NEW f, NEW S, IsFiniteSet(S), S # {}
  PROVE  SumFunctionOnSet(f, S) = f[Pick(S)] + SumFunctionOnSet(f, S \ {Pick(S)})
<1> DEFINE H(s) == CHOOSE h : AddsUp(f, s, h)
           R == S \ {Pick(S)}
<1>1. IsFiniteSet(R)
  BY FS_Subset
<1>2. AddsUp(f, S, H(S)) /\ AddsUp(f, R, H(R))
  BY <1>1, AddsUpExists
<1>3. H(S)[R] = H(R)[R]
  BY <1>1, <1>2, AddsUpOnce
<1>4. H(S)[S] = f[Pick(S)] + H(S)[R]
  BY <1>2, AddsUpAt
<1> QED BY <1>3, <1>4, Unfolds

\* A sum of integers is an integer.
LEMMA SumInt ==
  ASSUME NEW f, NEW S, IsFiniteSet(S), \A x \in S : f[x] \in Int
  PROVE  SumFunctionOnSet(f, S) \in Int
<1> DEFINE T == {s \in SUBSET S : SumFunctionOnSet(f, s) \notin Int}
<1>0. T \subseteq SUBSET S
  OBVIOUS
<1>1. SUFFICES ASSUME T # {} PROVE FALSE
  OBVIOUS
<1> HIDE DEF T
<1>2. PICK m \in T : \A y \in T : ~(y \subseteq m /\ y # m)
  BY <1>1, <1>0, Smallest
<1> USE DEF T
<1>3. m # {}
  <2>1. SumFunctionOnSet(f, {}) \in Int
    BY SumEmpty
  <2> QED BY <1>2, <2>1
<1>4. Pick(m) \in S /\ m \ {Pick(m)} \in SUBSET S /\ m \ {Pick(m)} # m /\ IsFiniteSet(m)
  BY <1>2, <1>3, PickIn, FS_Subset
<1>5. SumFunctionOnSet(f, m \ {Pick(m)}) \in Int
  BY <1>2, <1>4
<1>6. SumFunctionOnSet(f, m) = f[Pick(m)] + SumFunctionOnSet(f, m \ {Pick(m)})
  BY <1>3, <1>4, SumPick
<1> QED BY <1>2, <1>4, <1>5, <1>6

\* Any element can be taken out first.
LEMMA SumRemove ==
  ASSUME NEW f, NEW S, IsFiniteSet(S), \A x \in S : f[x] \in Int, NEW d \in S
  PROVE  SumFunctionOnSet(f, S) = f[d] + SumFunctionOnSet(f, S \ {d})
<1> DEFINE T == {s \in SUBSET S : \E x \in s : SumFunctionOnSet(f, s) # f[x] + SumFunctionOnSet(f, s \ {x})}
<1>0. T \subseteq SUBSET S
  OBVIOUS
<1>1. SUFFICES ASSUME T # {} PROVE FALSE
  OBVIOUS
<1> HIDE DEF T
<1>2. PICK m \in T : \A y \in T : ~(y \subseteq m /\ y # m)
  BY <1>1, <1>0, Smallest
<1> USE DEF T
<1>3. PICK x \in m : SumFunctionOnSet(f, m) # f[x] + SumFunctionOnSet(f, m \ {x})
  BY <1>2
<1> DEFINE p == Pick(m)
<1>4. p \in m /\ IsFiniteSet(m) /\ IsFiniteSet(m \ {p}) /\ IsFiniteSet(m \ {x}) /\ IsFiniteSet((m \ {p}) \ {x})
  BY <1>2, <1>3, PickIn, FS_Subset
<1>5. SumFunctionOnSet(f, m) = f[p] + SumFunctionOnSet(f, m \ {p})
  BY <1>4, SumPick
<1>6. x # p
  BY <1>3, <1>5
<1>7. m \ {p} \notin T /\ m \ {x} \notin T
  BY <1>2, <1>3, <1>4
<1>8. SumFunctionOnSet(f, m \ {p}) = f[x] + SumFunctionOnSet(f, (m \ {p}) \ {x})
  BY <1>2, <1>3, <1>6, <1>7
<1>9. SumFunctionOnSet(f, m \ {x}) = f[p] + SumFunctionOnSet(f, (m \ {x}) \ {p})
  BY <1>2, <1>4, <1>6, <1>7
<1>10. (m \ {x}) \ {p} = (m \ {p}) \ {x}
  OBVIOUS
<1>11. f[p] \in Int /\ f[x] \in Int /\ SumFunctionOnSet(f, (m \ {p}) \ {x}) \in Int
  <2>1. \A y \in (m \ {p}) \ {x} : f[y] \in Int
    BY <1>2
  <2> QED BY <1>2, <1>3, <1>4, <2>1, SumInt
<1> QED BY <1>3, <1>5, <1>8, <1>9, <1>10, <1>11

\* A sum of naturals is a natural.
LEMMA SumNat ==
  ASSUME NEW f, NEW S, IsFiniteSet(S), \A x \in S : f[x] \in Nat
  PROVE  SumFunctionOnSet(f, S) \in Nat
<1> DEFINE T == {s \in SUBSET S : SumFunctionOnSet(f, s) \notin Nat}
<1>0. T \subseteq SUBSET S
  OBVIOUS
<1>1. SUFFICES ASSUME T # {} PROVE FALSE
  OBVIOUS
<1> HIDE DEF T
<1>2. PICK m \in T : \A y \in T : ~(y \subseteq m /\ y # m)
  BY <1>0, <1>1, Smallest
<1> USE DEF T
<1>3. m # {}
  <2>1. SumFunctionOnSet(f, {}) \in Nat
    BY SumEmpty
  <2> QED BY <1>2, <2>1
<1>4. Pick(m) \in S /\ m \ {Pick(m)} \in SUBSET S /\ m \ {Pick(m)} # m /\ IsFiniteSet(m)
  BY <1>2, <1>3, PickIn, FS_Subset
<1>5. SumFunctionOnSet(f, m \ {Pick(m)}) \in Nat
  BY <1>2, <1>4
<1>6. SumFunctionOnSet(f, m) = f[Pick(m)] + SumFunctionOnSet(f, m \ {Pick(m)})
  BY <1>3, <1>4, SumPick
<1> QED BY <1>2, <1>4, <1>5, <1>6

\* A sum depends on the values over its set and on nothing else.
LEMMA SumAgree ==
  ASSUME NEW f, NEW g, NEW S, IsFiniteSet(S), \A x \in S : f[x] = g[x]
  PROVE  SumFunctionOnSet(f, S) = SumFunctionOnSet(g, S)
<1> DEFINE T == {s \in SUBSET S : SumFunctionOnSet(f, s) # SumFunctionOnSet(g, s)}
<1>0. T \subseteq SUBSET S
  OBVIOUS
<1>1. SUFFICES ASSUME T # {} PROVE FALSE
  OBVIOUS
<1> HIDE DEF T
<1>2. PICK m \in T : \A y \in T : ~(y \subseteq m /\ y # m)
  BY <1>0, <1>1, Smallest
<1> USE DEF T
<1>3. m # {}
  BY <1>2, SumEmpty
<1>4. Pick(m) \in S /\ m \ {Pick(m)} \in SUBSET S /\ m \ {Pick(m)} # m /\ IsFiniteSet(m)
  BY <1>2, <1>3, PickIn, FS_Subset
<1>5. SumFunctionOnSet(f, m \ {Pick(m)}) = SumFunctionOnSet(g, m \ {Pick(m)})
  BY <1>2, <1>4
<1>6. /\ SumFunctionOnSet(f, m) = f[Pick(m)] + SumFunctionOnSet(f, m \ {Pick(m)})
      /\ SumFunctionOnSet(g, m) = g[Pick(m)] + SumFunctionOnSet(g, m \ {Pick(m)})
  BY <1>3, <1>4, SumPick
<1> QED BY <1>2, <1>4, <1>5, <1>6

\* When one value changes the sum changes by as much.
LEMMA SumChange ==
  ASSUME NEW f, NEW g, NEW S, IsFiniteSet(S), NEW d \in S,
         \A x \in S : f[x] \in Int /\ g[x] \in Int, \A x \in S : x # d => g[x] = f[x]
  PROVE  SumFunctionOnSet(g, S) = SumFunctionOnSet(f, S) + (g[d] - f[d])
<1>1. IsFiniteSet(S \ {d})
  BY FS_Subset
<1>2. SumFunctionOnSet(g, S \ {d}) = SumFunctionOnSet(f, S \ {d}) /\ SumFunctionOnSet(f, S \ {d}) \in Int
  BY <1>1, SumAgree, SumInt
<1>3. /\ SumFunctionOnSet(f, S) = f[d] + SumFunctionOnSet(f, S \ {d})
      /\ SumFunctionOnSet(g, S) = g[d] + SumFunctionOnSet(g, S \ {d})
  BY SumRemove
<1> QED BY <1>2, <1>3

\* An element more adds its value.
LEMMA SumExtend ==
  ASSUME NEW f, NEW S, IsFiniteSet(S), NEW d, d \notin S, \A x \in S \cup {d} : f[x] \in Int
  PROVE  SumFunctionOnSet(f, S \cup {d}) = f[d] + SumFunctionOnSet(f, S)
<1>1. IsFiniteSet(S \cup {d})
  BY FS_AddElement
<1>2. (S \cup {d}) \ {d} = S
  OBVIOUS
<1> QED BY <1>1, <1>2, SumRemove

\* Zeros add up to zero.
LEMMA SumZero ==
  ASSUME NEW f, NEW S, IsFiniteSet(S), \A x \in S : f[x] = 0
  PROVE  SumFunctionOnSet(f, S) = 0
<1> DEFINE T == {s \in SUBSET S : SumFunctionOnSet(f, s) # 0}
<1>0. T \subseteq SUBSET S
  OBVIOUS
<1>1. SUFFICES ASSUME T # {} PROVE FALSE
  OBVIOUS
<1> HIDE DEF T
<1>2. PICK m \in T : \A y \in T : ~(y \subseteq m /\ y # m)
  BY <1>0, <1>1, Smallest
<1> USE DEF T
<1>3. m # {}
  BY <1>2, SumEmpty
<1>4. Pick(m) \in S /\ m \ {Pick(m)} \in SUBSET S /\ m \ {Pick(m)} # m /\ IsFiniteSet(m)
  BY <1>2, <1>3, PickIn, FS_Subset
<1>5. SumFunctionOnSet(f, m \ {Pick(m)}) = 0
  BY <1>2, <1>4
<1>6. SumFunctionOnSet(f, m) = f[Pick(m)] + SumFunctionOnSet(f, m \ {Pick(m)})
  BY <1>3, <1>4, SumPick
<1> QED BY <1>2, <1>4, <1>5, <1>6

\* A value among naturals is at most their sum.
LEMMA SumOneOfNat ==
  ASSUME NEW f, NEW S, IsFiniteSet(S), \A x \in S : f[x] \in Nat, NEW d \in S
  PROVE  f[d] <= SumFunctionOnSet(f, S)
<1>1. IsFiniteSet(S \ {d})
  BY FS_Subset
<1>2. SumFunctionOnSet(f, S \ {d}) \in Nat
  BY <1>1, SumNat
<1>3. SumFunctionOnSet(f, S) = f[d] + SumFunctionOnSet(f, S \ {d})
  BY SumRemove
<1> QED BY <1>2, <1>3

\* A row that may or may not be one of S.
LEMMA SumStep ==
  ASSUME NEW f, NEW g, NEW S, IsFiniteSet(S), NEW d,
         \A x \in S : f[x] \in Int /\ g[x] \in Int, \A x \in S : x # d => g[x] = f[x]
  PROVE  /\ SumFunctionOnSet(f, S) \in Int /\ SumFunctionOnSet(g, S) \in Int
         /\ d \in S => SumFunctionOnSet(g, S) = SumFunctionOnSet(f, S) + (g[d] - f[d])
         /\ d \notin S => SumFunctionOnSet(g, S) = SumFunctionOnSet(f, S)
<1>1. SumFunctionOnSet(f, S) \in Int /\ SumFunctionOnSet(g, S) \in Int
  BY SumInt
<1>2. CASE d \in S
  <2>1. SumFunctionOnSet(g, S) = SumFunctionOnSet(f, S) + (g[d] - f[d])
    BY <1>2, SumChange
  <2> QED BY <1>1, <1>2, <2>1
<1>3. CASE d \notin S
  <2>1. \A x \in S : g[x] = f[x]
    BY <1>3
  <2>2. SumFunctionOnSet(g, S) = SumFunctionOnSet(f, S)
    BY <2>1, SumAgree
  <2> QED BY <1>1, <1>3, <2>2
<1> QED BY <1>2, <1>3

\* When one value goes down the sum does not go up.
LEMMA SumLower ==
  ASSUME NEW f, NEW g, NEW S, IsFiniteSet(S), NEW d,
         \A x \in S : f[x] \in Int /\ g[x] \in Int /\ g[x] <= f[x], \A x \in S : x # d => g[x] = f[x]
  PROVE  SumFunctionOnSet(g, S) <= SumFunctionOnSet(f, S)
<1>1. /\ SumFunctionOnSet(f, S) \in Int /\ SumFunctionOnSet(g, S) \in Int
      /\ d \in S => SumFunctionOnSet(g, S) = SumFunctionOnSet(f, S) + (g[d] - f[d])
      /\ d \notin S => SumFunctionOnSet(g, S) = SumFunctionOnSet(f, S)
  BY SumStep
<1> QED BY <1>1
=============================================================================
