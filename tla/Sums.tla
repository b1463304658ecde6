-------------------------------- MODULE Sums --------------------------------
(***************************************************************************)
(* What SumFunctionOnSet of module Functions computes, for every finite    *)
(* set.  It folds over the set in an order that CHOOSE picks; the lemmas   *)
(* here say that the recursion has a solution, that the order makes no     *)
(* difference, and how the sum changes with the function.                  *)
(*                                                                         *)
(* They are proved by a smallest counterexample: a nonempty set of subsets *)
(* of a finite set has a minimal element.                                  *)
(***************************************************************************)
EXTENDS Functions, FiniteSetTheorems, TLAPS

\* The element that the fold takes out of a set first.
Pick(s) == CHOOSE x \in s : TRUE

\* g is the table of the partial sums of f over the subsets of S.
IsSum(g, f, S) ==
  g = [s \in SUBSET S |-> IF s = {} THEN 0
                          ELSE f[Pick(s)] + g[s \ {Pick(s)}]]

SumOf(f, S) == (CHOOSE g : IsSum(g, f, S))[S]

LEMMA SumIs ==
  ASSUME NEW f, NEW S
  PROVE  SumFunctionOnSet(f, S) = SumOf(f, S)
BY DEF SumFunctionOnSet, FoldFunctionOnSet, MapThenFoldSet, Pick, IsSum, SumOf

LEMMA PickIsIn ==
  ASSUME NEW s, s # {}
  PROVE  Pick(s) \in s
BY DEF Pick

LEMMA IsSumAt ==
  ASSUME NEW g, NEW f, NEW S, IsSum(g, f, S), NEW s \in SUBSET S
  PROVE  g[s] = IF s = {} THEN 0 ELSE f[Pick(s)] + g[s \ {Pick(s)}]
BY DEF IsSum

\* A nonempty set of subsets of a finite set has a minimal element.
LEMMA SubsetMin ==
  ASSUME NEW S, IsFiniteSet(S), NEW B, B \subseteq SUBSET S, B # {}
  PROVE  \E m \in B : \A u \in B : u \subseteq m => u = m
<1>1. IsWellFoundedOn(StrictSubsetOrdering(S), SUBSET S)
  BY FS_StrictSubsetOrderingWellFounded, FS_FiniteSubsetsOfFinite
<1>2. PICK m \in B : \A u \in B : ~ (<<u, m>> \in StrictSubsetOrdering(S))
  BY <1>1, WFMin
<1>3. ASSUME NEW u \in B, u \subseteq m, u # m
      PROVE  FALSE
  <2>1. <<u, m>> \in (SUBSET S) \X (SUBSET S)
    BY <1>3
  <2>2. <<u, m>> \in StrictSubsetOrdering(S)
    BY <1>3, <2>1 DEF StrictSubsetOrdering
  <2>3. QED
    BY <1>2, <2>2
<1>4. QED
  BY <1>3

\* Two tables agree where both are defined.
LEMMA SumUnique ==
  ASSUME NEW f, NEW S, IsFiniteSet(S), NEW g, IsSum(g, f, S),
         NEW T, NEW h, IsSum(h, f, T), NEW u, u \subseteq S, u \subseteq T
  PROVE  g[u] = h[u]
<1> DEFINE B == {s \in SUBSET u : g[s] # h[s]}
<1> SUFFICES ASSUME B # {} PROVE FALSE
  OBVIOUS
<1>1. IsFiniteSet(u)
  BY FS_Subset
<1>2. B \subseteq SUBSET u
  OBVIOUS
<1>3. PICK m \in B : \A s \in B : s \subseteq m => s = m
  <2> HIDE DEF B
  <2>1. QED
    BY <1>1, <1>2, SubsetMin
<1>4. m \in SUBSET S /\ m \in SUBSET T /\ g[m] # h[m] /\ m \subseteq u
  BY <1>3
<1>5. m # {}
  <2>1. m # {} \/ (g[m] = 0 /\ h[m] = 0)
    BY <1>4, IsSumAt
  <2>2. QED
    BY <1>4, <2>1
<1> DEFINE x == Pick(m)
<1>6. x \in m
  BY <1>5, PickIsIn
<1>7. g[m] = f[x] + g[m \ {x}] /\ h[m] = f[x] + h[m \ {x}]
  BY <1>4, <1>5, IsSumAt
<1> HIDE DEF x
<1>8. g[m \ {x}] = h[m \ {x}]
  <2>1. m \ {x} \subseteq m /\ m \ {x} # m /\ m \ {x} \in SUBSET u
    BY <1>4, <1>6
  <2>2. m \ {x} \notin B
    BY <1>3, <2>1
  <2>3. QED
    BY <2>1, <2>2
<1>9. QED
  BY <1>4, <1>7, <1>8

\* The recursion has a solution.
LEMMA SumExists ==
  ASSUME NEW f, NEW S, IsFiniteSet(S)
  PROVE  IsSum(CHOOSE g : IsSum(g, f, S), f, S)
<1> SUFFICES \E g : IsSum(g, f, S)
  OBVIOUS
<1> DEFINE B == {T \in SUBSET S : ~ \E g : IsSum(g, f, T)}
<1> SUFFICES ASSUME B # {} PROVE FALSE
  OBVIOUS
<1>1. B \subseteq SUBSET S
  OBVIOUS
<1>2. PICK m \in B : \A s \in B : s \subseteq m => s = m
  <2> HIDE DEF B
  <2>1. QED
    BY <1>1, SubsetMin
<1>3. m \in SUBSET S /\ ~ \E g : IsSum(g, f, m)
  BY <1>2
<1> DEFINE G(t) == CHOOSE g : IsSum(g, f, t)
<1>4. ASSUME NEW t, t \subseteq m, t # m
      PROVE  IsSum(G(t), f, t) /\ IsFiniteSet(t)
  <2>1. t \in SUBSET S /\ t \notin B
    BY <1>2, <1>3, <1>4
  <2>2. IsFiniteSet(t)
    BY <2>1, FS_Subset
  <2>3. \E g : IsSum(g, f, t)
    BY <2>1
  <2>4. QED
    BY <2>2, <2>3
<1> HIDE DEF G
<1> DEFINE k == [s \in SUBSET m |-> IF s = {} THEN 0 ELSE
                   f[Pick(s)] + G(s \ {Pick(s)})[s \ {Pick(s)}]]
<1>5. ASSUME NEW t, t \subseteq m, t # m
      PROVE  k[t] = G(t)[t]
  <2>1. IsSum(G(t), f, t) /\ IsFiniteSet(t) /\ t \in SUBSET t
    BY <1>4, <1>5
  <2>2. G(t)[t] = IF t = {} THEN 0 ELSE f[Pick(t)] + G(t)[t \ {Pick(t)}]
    BY <2>1, IsSumAt
  <2>3. CASE t = {}
    BY <1>5, <2>2, <2>3
  <2>4. CASE t # {}
    <3> DEFINE v == t \ {Pick(t)}
    <3>1. v \subseteq t /\ v \subseteq m /\ v # m
      BY <1>5
    <3>2. IsSum(G(v), f, v) /\ v \subseteq v
      BY <1>4, <3>1
    <3>3. k[t] = f[Pick(t)] + G(v)[v] /\ G(t)[t] = f[Pick(t)] + G(t)[v]
      BY <1>5, <2>2, <2>4
    <3> HIDE DEF v, k
    <3>4. G(t)[v] = G(v)[v]
      BY <2>1, <3>1, <3>2, SumUnique
    <3>5. QED
      BY <3>3, <3>4
  <2>5. QED
    BY <2>3, <2>4
<1>6. ASSUME NEW s \in SUBSET m, s # {}
      PROVE  k[s] = f[Pick(s)] + k[s \ {Pick(s)}]
  <2>1. Pick(s) \in s
    BY <1>6, PickIsIn
  <2>2. s \ {Pick(s)} \subseteq m /\ s \ {Pick(s)} # m
    BY <2>1
  <2>3. k[s \ {Pick(s)}] = G(s \ {Pick(s)})[s \ {Pick(s)}]
    <3> HIDE DEF k
    <3>1. QED
      BY <1>5, <2>2
  <2>4. k[s] = f[Pick(s)] + G(s \ {Pick(s)})[s \ {Pick(s)}]
    BY <1>6
  <2>5. QED
    BY <2>3, <2>4
<1>7. \A s \in SUBSET m : s = {} => k[s] = 0
  OBVIOUS
<1>8. k = [s \in SUBSET m |-> k[s]]
  OBVIOUS
<1> HIDE DEF k
<1>9. IsSum(k, f, m)
  <2>1. \A s \in SUBSET m :
          k[s] = IF s = {} THEN 0 ELSE f[Pick(s)] + k[s \ {Pick(s)}]
    BY <1>6, <1>7
  <2>2. QED
    BY <1>8, <2>1 DEF IsSum
<1>10. QED
  BY <1>3, <1>9

-----------------------------------------------------------------------------
(* The sum *)

LEMMA SumEmpty ==
  ASSUME NEW f
  PROVE  SumFunctionOnSet(f, {}) = 0
<1>1. IsFiniteSet({})
  BY FS_EmptySet
<1>2. IsSum(CHOOSE g : IsSum(g, f, {}), f, {})
  BY <1>1, SumExists
<1>3. SumOf(f, {}) = 0
  BY <1>2, IsSumAt DEF SumOf
<1>4. QED
  BY <1>3, SumIs

\* One round of the fold.
LEMMA SumPick ==
  ASSUME NEW f, NEW S, IsFiniteSet(S), S # {}
  PROVE  SumFunctionOnSet(f, S)
           = f[Pick(S)] + SumFunctionOnSet(f, S \ {Pick(S)})
<1> DEFINE g == CHOOSE h : IsSum(h, f, S)
           R == S \ {Pick(S)}
           k == CHOOSE h : IsSum(h, f, R)
<1>1. IsFiniteSet(R)
  BY FS_Subset
<1>2. IsSum(g, f, S) /\ IsSum(k, f, R)
  BY <1>1, SumExists
<1>3. SumFunctionOnSet(f, S) = g[S] /\ SumFunctionOnSet(f, R) = k[R]
  BY SumIs DEF SumOf
<1>4. R \subseteq S /\ R \subseteq R
  OBVIOUS
<1> HIDE DEF g, k
<1>5. g[S] = f[Pick(S)] + g[R]
  <2>1. g[S] = IF S = {} THEN 0 ELSE f[Pick(S)] + g[S \ {Pick(S)}]
    BY <1>2, IsSumAt
  <2>2. QED
    BY <2>1
<1> HIDE DEF R
<1>6. g[R] = k[R]
  BY <1>2, <1>4, SumUnique
<1>7. QED
  BY <1>3, <1>5, <1>6 DEF R

\* The sum of integers is an integer.
LEMMA SumType ==
  ASSUME NEW f, NEW S, IsFiniteSet(S), \A x \in S : f[x] \in Int
  PROVE  SumFunctionOnSet(f, S) \in Int
<1> DEFINE B == {s \in SUBSET S : SumFunctionOnSet(f, s) \notin Int}
<1> SUFFICES ASSUME B # {} PROVE FALSE
  OBVIOUS
<1>1. B \subseteq SUBSET S
  OBVIOUS
<1>2. PICK m \in B : \A s \in B : s \subseteq m => s = m
  <2> HIDE DEF B
  <2>1. QED
    BY <1>1, SubsetMin
<1>3. m \in SUBSET S /\ SumFunctionOnSet(f, m) \notin Int
  BY <1>2
<1>4. m # {} /\ IsFiniteSet(m)
  <2>1. 0 \in Int
    OBVIOUS
  <2>2. m # {}
    BY <1>3, <2>1, SumEmpty
  <2>3. QED
    BY <1>3, <2>2, FS_Subset
<1>5. Pick(m) \in m
  BY <1>4, PickIsIn
<1>6. m \ {Pick(m)} \in SUBSET S /\ m \ {Pick(m)} \subseteq m
      /\ m \ {Pick(m)} # m
  BY <1>3, <1>5
<1>7. SumFunctionOnSet(f, m \ {Pick(m)}) \in Int
  BY <1>2, <1>6
<1>8. f[Pick(m)] \in Int
  BY <1>3, <1>5
<1>9. QED
  BY <1>3, <1>4, <1>7, <1>8, SumPick

\* The order of the fold makes no difference: any element may go first.
LEMMA SumRemove ==
  ASSUME NEW f, NEW S, IsFiniteSet(S), \A x \in S : f[x] \in Int, NEW e \in S
  PROVE  SumFunctionOnSet(f, S) = f[e] + SumFunctionOnSet(f, S \ {e})
<1> DEFINE Sum(s) == SumFunctionOnSet(f, s)
           B == {s \in SUBSET S : \E x \in s : Sum(s) # f[x] + Sum(s \ {x})}
<1> SUFFICES ASSUME B # {} PROVE FALSE
  OBVIOUS
<1>1. B \subseteq SUBSET S
  OBVIOUS
<1>2. PICK m \in B : \A s \in B : s \subseteq m => s = m
  <2> HIDE DEF B
  <2>1. QED
    BY <1>1, SubsetMin
<1>3. m \in SUBSET S
  BY <1>2
<1>4. PICK x \in m : Sum(m) # f[x] + Sum(m \ {x})
  BY <1>2
<1>5. ASSUME NEW s, s \subseteq m, s # m, NEW y \in s
      PROVE  Sum(s) = f[y] + Sum(s \ {y})
  <2>1. s \in SUBSET S /\ s \notin B
    BY <1>2, <1>3, <1>5
  <2>2. QED
    BY <1>5, <2>1
<1> DEFINE z == Pick(m)
<1>6. IsFiniteSet(m) /\ m # {}
  BY <1>3, <1>4, FS_Subset
<1>7. z \in m /\ Sum(m) = f[z] + Sum(m \ {z})
  BY <1>6, PickIsIn, SumPick
<1>8. \A s \in SUBSET m : Sum(s) \in Int
  <2>1. SUFFICES ASSUME NEW s \in SUBSET m PROVE Sum(s) \in Int
    OBVIOUS
  <2>2. IsFiniteSet(s) /\ \A y \in s : f[y] \in Int
    BY <1>3, <1>6, <2>1, FS_Subset
  <2>3. QED
    BY <2>2, SumType
<1> HIDE DEF Sum, z, B
<1>9. x # z
  BY <1>4, <1>7
<1>10. Sum(m \ {z}) = f[x] + Sum((m \ {z}) \ {x})
  <2>1. m \ {z} \subseteq m /\ m \ {z} # m /\ x \in m \ {z}
    BY <1>4, <1>7, <1>9
  <2>2. QED
    BY <1>5, <2>1
<1>11. Sum(m \ {x}) = f[z] + Sum((m \ {x}) \ {z})
  <2>1. m \ {x} \subseteq m /\ m \ {x} # m /\ z \in m \ {x}
    BY <1>4, <1>7, <1>9
  <2>2. QED
    BY <1>5, <2>1
<1>12. (m \ {x}) \ {z} = (m \ {z}) \ {x}
  OBVIOUS
<1>13. f[x] \in Int /\ f[z] \in Int /\ Sum((m \ {z}) \ {x}) \in Int
  BY <1>3, <1>4, <1>7, <1>8
<1>14. Sum(m \ {x}) = f[z] + Sum((m \ {z}) \ {x})
  BY <1>11, <1>12
<1>15. f[z] + (f[x] + Sum((m \ {z}) \ {x}))
         = f[x] + (f[z] + Sum((m \ {z}) \ {x}))
  BY <1>13
<1>16. QED
  BY <1>4, <1>7, <1>10, <1>14, <1>15, Zenon

\* Only the values at the elements matter.
LEMMA SumAgree ==
  ASSUME NEW f, NEW g, NEW S, IsFiniteSet(S), \A x \in S : f[x] = g[x]
  PROVE  SumFunctionOnSet(f, S) = SumFunctionOnSet(g, S)
<1> DEFINE B == {s \in SUBSET S :
                   SumFunctionOnSet(f, s) # SumFunctionOnSet(g, s)}
<1> SUFFICES ASSUME B # {} PROVE FALSE
  OBVIOUS
<1>1. B \subseteq SUBSET S
  OBVIOUS
<1>2. PICK m \in B : \A s \in B : s \subseteq m => s = m
  <2> HIDE DEF B
  <2>1. QED
    BY <1>1, SubsetMin
<1>3. /\ m \in SUBSET S
      /\ SumFunctionOnSet(f, m) # SumFunctionOnSet(g, m)
  BY <1>2
<1>4. m # {} /\ IsFiniteSet(m)
  BY <1>3, SumEmpty, FS_Subset
<1>5. Pick(m) \in m
  BY <1>4, PickIsIn
<1>6. m \ {Pick(m)} \in SUBSET S /\ m \ {Pick(m)} \subseteq m
      /\ m \ {Pick(m)} # m
  BY <1>3, <1>5
<1>7. SumFunctionOnSet(f, m \ {Pick(m)}) = SumFunctionOnSet(g, m \ {Pick(m)})
  BY <1>2, <1>6
<1>8. f[Pick(m)] = g[Pick(m)]
  BY <1>3, <1>5
<1>9. QED
  BY <1>3, <1>4, <1>7, <1>8, SumPick

\* What is added to the elements of a part is added to the sum.
LEMMA SumAdd ==
  ASSUME NEW f, NEW g, NEW h, NEW S, IsFiniteSet(S), NEW E \in SUBSET S,
         \A x \in S : f[x] \in Int,
         \A x \in E : h[x] \in Int /\ g[x] = f[x] + h[x],
         \A x \in S \ E : g[x] = f[x]
  PROVE  SumFunctionOnSet(g, S)
           = SumFunctionOnSet(f, S) + SumFunctionOnSet(h, E)
<1> DEFINE Adds(s) == SumFunctionOnSet(g, s)
                        = SumFunctionOnSet(f, s)
                          + SumFunctionOnSet(h, s \cap E)
           B == {s \in SUBSET S : ~ Adds(s)}
<1> SUFFICES ASSUME B # {} PROVE FALSE
  <2>1. S \cap E = E
    OBVIOUS
  <2>2. S \in SUBSET S /\ S \notin B
    OBVIOUS
  <2>3. Adds(S)
    BY <2>2
  <2>4. QED
    BY <2>1, <2>3
<1>1. B \subseteq SUBSET S
  OBVIOUS
<1>2. PICK m \in B : \A s \in B : s \subseteq m => s = m
  <2> HIDE DEF B
  <2>1. QED
    BY <1>1, SubsetMin
<1>3. m \in SUBSET S /\ ~ Adds(m)
  BY <1>2
<1>4. IsFiniteSet(m) /\ IsFiniteSet(m \cap E)
  BY <1>3, FS_Subset
<1>5. m # {}
  <2>1. Adds({})
    BY SumEmpty
  <2>2. QED
    BY <1>3, <2>1
<1> DEFINE x == Pick(m)
           r == m \ {x}
<1>6. x \in m /\ x \in S
  BY <1>3, <1>5, PickIsIn
<1> HIDE DEF x
<1>7. Adds(r)
  <2>1. r \in SUBSET S /\ r \subseteq m /\ r # m
    BY <1>3, <1>6
  <2>2. QED
    BY <1>2, <2>1
<1>8. /\ \A y \in m : f[y] \in Int
      /\ \A y \in m : g[y] \in Int
      /\ \A y \in m \cap E : h[y] \in Int
  BY <1>3
<1>9. /\ SumFunctionOnSet(f, m) = f[x] + SumFunctionOnSet(f, r)
      /\ SumFunctionOnSet(g, m) = g[x] + SumFunctionOnSet(g, r)
  BY <1>4, <1>6, <1>8, SumRemove
<1>10. /\ SumFunctionOnSet(f, r) \in Int
       /\ SumFunctionOnSet(h, r \cap E) \in Int
  <2>1. IsFiniteSet(r) /\ IsFiniteSet(r \cap E)
    BY <1>4, FS_Subset
  <2>2. (\A y \in r : f[y] \in Int) /\ \A y \in r \cap E : h[y] \in Int
    BY <1>8
  <2>3. QED
    BY <2>1, <2>2, SumType
<1>11. CASE x \in E
  <2>1. SumFunctionOnSet(h, m \cap E)
          = h[x] + SumFunctionOnSet(h, (m \cap E) \ {x})
    BY <1>4, <1>6, <1>8, <1>11, SumRemove
  <2>2. (m \cap E) \ {x} = r \cap E
    OBVIOUS
  <2>3. f[x] \in Int /\ h[x] \in Int /\ g[x] = f[x] + h[x]
    BY <1>6, <1>11
  <2> HIDE DEF r
  <2>4. SumFunctionOnSet(h, m \cap E)
          = h[x] + SumFunctionOnSet(h, r \cap E)
    BY <2>1, <2>2, Zenon
  <2>5. (f[x] + h[x]) + (SumFunctionOnSet(f, r)
                          + SumFunctionOnSet(h, r \cap E))
          = (f[x] + SumFunctionOnSet(f, r))
            + (h[x] + SumFunctionOnSet(h, r \cap E))
    BY <1>10, <2>3
  <2>6. QED
    BY <1>3, <1>7, <1>9, <2>3, <2>4, <2>5, Zenon
<1>12. CASE x \notin E
  <2>1. m \cap E = r \cap E
    BY <1>12
  <2>2. f[x] \in Int /\ g[x] = f[x]
    BY <1>6, <1>12
  <2> HIDE DEF r
  <2>3. f[x] + (SumFunctionOnSet(f, r) + SumFunctionOnSet(h, r \cap E))
          = (f[x] + SumFunctionOnSet(f, r)) + SumFunctionOnSet(h, r \cap E)
    BY <1>10, <2>2
  <2>4. QED
    BY <1>3, <1>7, <1>9, <2>1, <2>2, <2>3, Zenon
<1>13. QED
  BY <1>11, <1>12

\* What is taken from one element is taken from the sum.
LEMMA SumTake ==
  ASSUME NEW f, NEW g, NEW S, IsFiniteSet(S), NEW e \in S, NEW t \in Int,
         \A x \in S : f[x] \in Int,
         \A x \in S \ {e} : g[x] = f[x],
         g[e] = f[e] - t
  PROVE  SumFunctionOnSet(g, S) = SumFunctionOnSet(f, S) - t
<1>1. \A x \in S : g[x] \in Int
  OBVIOUS
<1>2. IsFiniteSet(S \ {e})
  BY FS_Subset
<1>3. /\ SumFunctionOnSet(f, S) = f[e] + SumFunctionOnSet(f, S \ {e})
      /\ SumFunctionOnSet(g, S) = g[e] + SumFunctionOnSet(g, S \ {e})
  BY <1>1, SumRemove
<1>4. SumFunctionOnSet(g, S \ {e}) = SumFunctionOnSet(f, S \ {e})
  BY <1>2, SumAgree
<1>5. SumFunctionOnSet(f, S \ {e}) \in Int
  <2>1. \A x \in S \ {e} : f[x] \in Int
    OBVIOUS
  <2>2. QED
    BY <1>2, <2>1, SumType
<1>6. QED
  BY <1>3, <1>4, <1>5

\* A sum of zeros.
LEMMA SumOfZeros ==
  ASSUME NEW f, NEW S, IsFiniteSet(S), \A x \in S : f[x] = 0
  PROVE  SumFunctionOnSet(f, S) = 0
<1> DEFINE B == {s \in SUBSET S : SumFunctionOnSet(f, s) # 0}
<1> SUFFICES ASSUME B # {} PROVE FALSE
  OBVIOUS
<1>1. B \subseteq SUBSET S
  OBVIOUS
<1>2. PICK m \in B : \A s \in B : s \subseteq m => s = m
  <2> HIDE DEF B
  <2>1. QED
    BY <1>1, SubsetMin
<1>3. m \in SUBSET S /\ SumFunctionOnSet(f, m) # 0
  BY <1>2
<1>4. m # {} /\ IsFiniteSet(m)
  BY <1>3, SumEmpty, FS_Subset
<1>5. Pick(m) \in m
  BY <1>4, PickIsIn
<1>6. m \ {Pick(m)} \in SUBSET S /\ m \ {Pick(m)} \subseteq m
      /\ m \ {Pick(m)} # m
  BY <1>3, <1>5
<1>7. SumFunctionOnSet(f, m \ {Pick(m)}) = 0
  BY <1>2, <1>6
<1>8. f[Pick(m)] = 0
  BY <1>3, <1>5
<1>9. QED
  BY <1>3, <1>4, <1>7, <1>8, SumPick
=============================================================================
