----------------------------- MODULE SumLemmas -----------------------------
(***************************************************************************)
(* What a sum over a finite set is: the models add up money and work with  *)
(* MapThenSumSet, whose value on a set is that of a recursive function.    *)
(* The lemmas are proved by the least counterexample: strict inclusion of  *)
(* the subsets of a finite set is well founded.                            *)
(***************************************************************************)
EXTENDS Integers, FiniteSetsExt, FiniteSetTheorems, WellFoundedInduction, TLAPS

Total(f, S) == MapThenSumSet(LAMBDA x : f[x], S)

Some(S) == CHOOSE x \in S : TRUE

\* g is the recursive function behind the sum of f over a subset of D.
Adds(g, f, D) ==
  g = [s \in SUBSET D |-> IF s = {} THEN 0 ELSE f[Some(s)] + g[s \ {Some(s)}]]

Iter(f, D) == CHOOSE g : Adds(g, f, D)

\* f has integers on S.
Counts(f, S) == \A x \in S : f[x] \in Int

-----------------------------------------------------------------------------

\* A family of subsets of a finite set has a member without a smaller member.
LEMMA MinimalSet ==
  ASSUME NEW D, IsFiniteSet(D), NEW F, F \subseteq SUBSET D, F # {}
  PROVE  \E m \in F : \A s \in F : s \subseteq m => s = m
PROOF
  <1>1. IsWellFoundedOn(StrictSubsetOrdering(D), SUBSET D)
    BY FS_StrictSubsetOrderingWellFounded, FS_FiniteSubsetsOfFinite
  <1>2. PICK m \in F : \A s \in F : ~ (<<s, m>> \in StrictSubsetOrdering(D))
    BY <1>1, WFMin
  <1>3. \A s \in F : s \subseteq m => s = m
    BY <1>2 DEF StrictSubsetOrdering
  <1> QED
    BY <1>3

\* A finite set of integers that is not empty has a greatest element.
LEMMA GreatestExists ==
  ASSUME NEW S, IsFiniteSet(S), S \subseteq Int, S # {}
  PROVE  \E x \in S : \A y \in S : x >= y
PROOF
  <1> DEFINE Bad == {s \in SUBSET S : s # {} /\ ~ \E x \in s : \A y \in s : x >= y}
  <1> SUFFICES ASSUME Bad # {} PROVE FALSE
    OBVIOUS
  <1>0. Bad \subseteq SUBSET S
    OBVIOUS
  <1>9. Bad # {} /\ IsFiniteSet(S)
    OBVIOUS
  <1> HIDE DEF Bad
  <1>1. PICK m \in Bad : \A s \in Bad : s \subseteq m => s = m
    BY ONLY <1>0, <1>9, MinimalSet
  <1> USE DEF Bad
  <1>2. PICK x \in m : TRUE
    BY <1>1
  <1>3. m \subseteq Int /\ m \ {x} \in SUBSET S
    BY <1>1
  <1>4. CASE m \ {x} = {}
    BY <1>1, <1>2, <1>3, <1>4
  <1>5. CASE m \ {x} # {}
    <2>1. m \ {x} \notin Bad
      BY <1>1, <1>2
    <2>2. PICK z \in m \ {x} : \A y \in m \ {x} : z >= y
      BY <1>3, <1>5, <2>1
    <2>3. x \in Int /\ z \in Int /\ \A y \in m : y \in Int /\ (y = x \/ z >= y)
      BY <1>2, <1>3, <2>2
    <2>4. CASE x >= z
      <3>1. \A y \in m : x >= y
        BY <2>3, <2>4
      <3> QED
        BY <1>1, <1>2, <3>1
    <2>5. CASE ~(x >= z)
      <3>1. \A y \in m : z >= y
        BY <2>3, <2>5
      <3> QED
        BY <1>1, <2>2, <3>1
    <2> QED
      BY <2>4, <2>5
  <1> QED
    BY <1>4, <1>5

LEMMA MaxOf ==
  ASSUME NEW S, IsFiniteSet(S), S \subseteq Int, S # {}
  PROVE  Max(S) \in S /\ \A y \in S : Max(S) >= y
BY GreatestExists DEF Max

LEMMA SomeOf == ASSUME NEW S, S # {} PROVE Some(S) \in S
BY DEF Some

LEMMA TotalIsIter == ASSUME NEW f, NEW S PROVE Total(f, S) = Iter(f, S)[S]
BY DEF Total, Iter, Adds, Some, MapThenSumSet, MapThenFoldSet

LEMMA AddsStep ==
  ASSUME NEW g, NEW f, NEW D, Adds(g, f, D), NEW s \in SUBSET D
  PROVE  g[s] = IF s = {} THEN 0 ELSE f[Some(s)] + g[s \ {Some(s)}]
BY DEF Adds

\* Two such functions agree where both are defined.
LEMMA AddsAgree ==
  ASSUME NEW f, NEW D, NEW E, IsFiniteSet(D), NEW g, NEW h, Adds(g, f, D), Adds(h, f, E),
         NEW t, t \subseteq D, t \subseteq E
  PROVE  g[t] = h[t]
PROOF
  <1> DEFINE Bad == {s \in SUBSET t : g[s] # h[s]}
  <1> SUFFICES ASSUME Bad # {} PROVE FALSE
    OBVIOUS
  <1>0. Bad \subseteq SUBSET t
    OBVIOUS
  <1> HIDE DEF Bad
  <1>1. IsFiniteSet(t)
    BY FS_Subset
  <1>2. PICK m \in Bad : \A s \in Bad : s \subseteq m => s = m
    BY <1>0, <1>1, MinimalSet
  <1> USE DEF Bad
  <1>3. m \in SUBSET D /\ m \in SUBSET E
    OBVIOUS
  <1>4. /\ g[m] = IF m = {} THEN 0 ELSE f[Some(m)] + g[m \ {Some(m)}]
        /\ h[m] = IF m = {} THEN 0 ELSE f[Some(m)] + h[m \ {Some(m)}]
    BY SMTT(60), <1>3, AddsStep
  <1>5. m # {}
    BY <1>2, <1>4
  <1>6. m \ {Some(m)} \notin Bad
    BY <1>2, <1>5, SomeOf
  <1> QED
    BY <1>2, <1>4, <1>5, <1>6

\* The recursive function exists on a finite set.
LEMMA IterAdds ==
  ASSUME NEW f, NEW D, IsFiniteSet(D) PROVE Adds(Iter(f, D), f, D)
PROOF
  <1> DEFINE Bad == {s \in SUBSET D : ~ Adds(Iter(f, s), f, s)}
  <1> SUFFICES ASSUME Bad # {} PROVE FALSE
    OBVIOUS
  <1>0. Bad \subseteq SUBSET D
    OBVIOUS
  <1> HIDE DEF Bad
  <1>1. PICK m \in Bad : \A s \in Bad : s \subseteq m => s = m
    BY <1>0, MinimalSet
  <1> USE DEF Bad
  <1> DEFINE At(s) == Iter(f, s \ {Some(s)})[s \ {Some(s)}]
             G == [s \in SUBSET m |-> IF s = {} THEN 0 ELSE f[Some(s)] + At(s)]
  <1>2. ASSUME NEW s \in SUBSET m, s # {}
        PROVE  G[s \ {Some(s)}] = At(s)
    <2>1. PICK e : e = s \ {Some(s)}
      OBVIOUS
    <2>2. e \in SUBSET m /\ e # m /\ e \in SUBSET D
      BY <1>2, <2>1, SomeOf
    <2>3. PICK d : d = e \ {Some(e)}
      OBVIOUS
    <2>4. d \in SUBSET e /\ d \in SUBSET d /\ d # m /\ d \in SUBSET D
      BY <2>2, <2>3
    <2>5. Adds(Iter(f, e), f, e) /\ Adds(Iter(f, d), f, d) /\ IsFiniteSet(e)
      BY <1>1, <2>2, <2>4, FS_Subset
    <2>6. Iter(f, e)[d] = Iter(f, d)[d]
      BY <2>4, <2>5, AddsAgree
    <2>7. Iter(f, e)[e] = IF e = {} THEN 0 ELSE f[Some(e)] + Iter(f, e)[d]
      BY ZenonT(60), <2>3, <2>5, AddsStep
    <2> QED
      BY <2>1, <2>2, <2>3, <2>6, <2>7
  <1>3. Adds(G, f, m)
    BY <1>2 DEF Adds
  <1>4. Adds(Iter(f, m), f, m)
    BY <1>3 DEF Iter
  <1> QED
    BY <1>1, <1>4

-----------------------------------------------------------------------------
(* Sums *)

LEMMA TotalEmpty == ASSUME NEW f PROVE Total(f, {}) = 0
BY TotalIsIter, IterAdds, AddsStep, FS_EmptySet

\* The sum takes the elements in the order of Some.
LEMMA TotalStep ==
  ASSUME NEW f, NEW S, IsFiniteSet(S), S # {}
  PROVE  Total(f, S) = f[Some(S)] + Total(f, S \ {Some(S)})
PROOF
  <1> DEFINE e == S \ {Some(S)}
  <1>1. IsFiniteSet(e)
    BY FS_Subset
  <1>2. Adds(Iter(f, S), f, S) /\ Adds(Iter(f, e), f, e)
    BY <1>1, IterAdds
  <1>3. Iter(f, S)[S] = f[Some(S)] + Iter(f, S)[e]
    BY <1>2, AddsStep
  <1>4. Iter(f, S)[e] = Iter(f, e)[e]
    BY <1>2, AddsAgree
  <1> QED
    BY <1>3, <1>4, TotalIsIter

LEMMA TotalInt ==
  ASSUME NEW f, NEW S, IsFiniteSet(S), Counts(f, S) PROVE Total(f, S) \in Int
PROOF
  <1> DEFINE Bad == {s \in SUBSET S : Total(f, s) \notin Int}
  <1> SUFFICES ASSUME Bad # {} PROVE FALSE
    OBVIOUS
  <1>0. Bad \subseteq SUBSET S
    OBVIOUS
  <1> HIDE DEF Bad
  <1>1. PICK m \in Bad : \A s \in Bad : s \subseteq m => s = m
    BY <1>0, MinimalSet
  <1> USE DEF Bad
  <1>2. m # {}
    BY TotalEmpty
  <1>3. Some(m) \in m /\ IsFiniteSet(m)
    BY <1>2, SomeOf, FS_Subset
  <1>4. Total(f, m \ {Some(m)}) \in Int
    BY <1>1, <1>3
  <1> QED
    BY <1>2, <1>3, <1>4, TotalStep DEF Counts

\* Naturals add up to a natural.
LEMMA TotalNat ==
  ASSUME NEW f, NEW S, IsFiniteSet(S), \A x \in S : f[x] \in Nat PROVE Total(f, S) \in Nat
PROOF
  <1> DEFINE Bad == {s \in SUBSET S : Total(f, s) \notin Nat}
  <1> SUFFICES ASSUME Bad # {} PROVE FALSE
    OBVIOUS
  <1>0. Bad \subseteq SUBSET S
    OBVIOUS
  <1> HIDE DEF Bad
  <1>1. PICK m \in Bad : \A s \in Bad : s \subseteq m => s = m
    BY <1>0, MinimalSet
  <1> USE DEF Bad
  <1>2. m # {}
    BY TotalEmpty
  <1>3. Some(m) \in m /\ IsFiniteSet(m)
    BY <1>2, SomeOf, FS_Subset
  <1>4. Total(f, m \ {Some(m)}) \in Nat
    BY <1>1, <1>3
  <1> QED
    BY <1>2, <1>3, <1>4, TotalStep

\* Functions that agree on a set have one sum.
LEMMA TotalAgrees ==
  ASSUME NEW f, NEW g, NEW S, IsFiniteSet(S), \A x \in S : f[x] = g[x]
  PROVE  Total(f, S) = Total(g, S)
PROOF
  <1> DEFINE Bad == {s \in SUBSET S : Total(f, s) # Total(g, s)}
  <1> SUFFICES ASSUME Bad # {} PROVE FALSE
    OBVIOUS
  <1>0. Bad \subseteq SUBSET S
    OBVIOUS
  <1> HIDE DEF Bad
  <1>1. PICK m \in Bad : \A s \in Bad : s \subseteq m => s = m
    BY <1>0, MinimalSet
  <1> USE DEF Bad
  <1>2. m # {}
    BY TotalEmpty
  <1>3. Some(m) \in m /\ IsFiniteSet(m)
    BY <1>2, SomeOf, FS_Subset
  <1>4. Total(f, m \ {Some(m)}) = Total(g, m \ {Some(m)})
    BY <1>1, <1>3
  <1> QED
    BY <1>1, <1>2, <1>3, <1>4, TotalStep

\* Any element may be added last: the order of Some does not matter.
LEMMA TotalRemove ==
  ASSUME NEW f, NEW S, IsFiniteSet(S), Counts(f, S), NEW y \in S
  PROVE  Total(f, S) = f[y] + Total(f, S \ {y})
PROOF
  <1> DEFINE Splits(s, z) == Total(f, s) = f[z] + Total(f, s \ {z})
             Bad == {s \in SUBSET S : \E z \in s : ~ Splits(s, z)}
  <1> SUFFICES ASSUME Bad # {} PROVE FALSE
    OBVIOUS
  <1>0. Bad \subseteq SUBSET S
    OBVIOUS
  <1> HIDE DEF Bad
  <1>1. PICK m \in Bad : \A s \in Bad : s \subseteq m => s = m
    BY <1>0, MinimalSet
  <1>2. PICK z \in m : ~ Splits(m, z)
    BY DEF Bad
  <1>3. PICK x : x = Some(m)
    OBVIOUS
  <1>4. x \in m /\ m \subseteq S /\ IsFiniteSet(m)
    BY <1>0, <1>3, SomeOf, FS_Subset
  <1>5. Splits(m, x)
    BY <1>3, <1>4, TotalStep
  <1>6. x # z
    BY <1>2, <1>5
  <1>7. PICK r : r = (m \ {x}) \ {z}
    OBVIOUS
  <1>8. ASSUME NEW s \in SUBSET m, s # m, NEW u \in s PROVE Splits(s, u)
    BY <1>1, <1>4, <1>8 DEF Bad
  <1>9. Splits(m \ {x}, z) /\ Splits(m \ {z}, x)
    BY <1>4, <1>6, <1>8
  <1>10. /\ Total(f, m) = f[x] + Total(f, m \ {x})
         /\ Total(f, m \ {x}) = f[z] + Total(f, r)
         /\ Total(f, m \ {z}) = f[x] + Total(f, r)
    <2>1. (m \ {x}) \ {z} = r /\ (m \ {z}) \ {x} = r
      BY <1>7
    <2> QED
      BY <1>5, <1>9, <2>1
  <1>11. f[x] \in Int /\ f[z] \in Int /\ Total(f, r) \in Int
    BY <1>4, <1>7, TotalInt, FS_Subset DEF Counts
  <1>12. Total(f, m) = f[z] + Total(f, m \ {z})
    <2> HIDE DEF Splits
    <2> QED
      BY <1>10, <1>11
  <1> QED
    BY <1>2, <1>12

\* What one more element adds.
LEMMA TotalAdd ==
  ASSUME NEW f, NEW S, IsFiniteSet(S), Counts(f, S), NEW y, y \notin S, f[y] \in Int
  PROVE  Total(f, S \cup {y}) = f[y] + Total(f, S)
PROOF
  <1>1. IsFiniteSet(S \cup {y})
    BY FS_AddElement
  <1>2. Counts(f, S \cup {y}) /\ (S \cup {y}) \ {y} = S
    BY DEF Counts
  <1> QED
    BY <1>1, <1>2, TotalRemove

\* Changing one summand changes the sum by the difference.
LEMMA TotalChange ==
  ASSUME NEW f, NEW g, NEW S, IsFiniteSet(S), Counts(f, S), NEW y \in S, g[y] \in Int,
         \A x \in S \ {y} : g[x] = f[x]
  PROVE  Total(g, S) = Total(f, S) + g[y] - f[y]
PROOF
  <1>1. Counts(g, S) /\ Counts(f, S \ {y}) /\ f[y] \in Int
    BY DEF Counts
  <1>2. IsFiniteSet(S \ {y})
    BY FS_Subset
  <1>3. Total(f, S \ {y}) = Total(g, S \ {y})
    BY <1>2, TotalAgrees
  <1>4. Total(g, S) = g[y] + Total(g, S \ {y}) /\ Total(f, S) = f[y] + Total(f, S \ {y})
    BY <1>1, TotalRemove
  <1>5. Total(f, S \ {y}) \in Int
    BY <1>1, <1>2, TotalInt
  <1> QED
    BY <1>1, <1>3, <1>4, <1>5

\* The sum over two disjoint sets.
LEMMA TotalUnion ==
  ASSUME NEW f, NEW S, NEW T, IsFiniteSet(S), IsFiniteSet(T), S \cap T = {},
         Counts(f, S), Counts(f, T)
  PROVE  Total(f, S \cup T) = Total(f, S) + Total(f, T)
PROOF
  <1> DEFINE Bad == {s \in SUBSET T : Total(f, S \cup s) # Total(f, S) + Total(f, s)}
  <1> SUFFICES ASSUME Bad # {} PROVE FALSE
    OBVIOUS
  <1>0. Bad \subseteq SUBSET T
    OBVIOUS
  <1> HIDE DEF Bad
  <1>1. PICK m \in Bad : \A s \in Bad : s \subseteq m => s = m
    BY <1>0, MinimalSet
  <1>2. Total(f, S \cup m) # Total(f, S) + Total(f, m) /\ m \subseteq T /\ IsFiniteSet(m)
    BY <1>0, FS_Subset DEF Bad
  <1>3. Total(f, S) \in Int
    BY TotalInt
  <1>4. m # {}
    BY <1>2, <1>3, TotalEmpty
  <1>5. PICK y : y \in m
    BY <1>4
  <1>6. PICK r : r = m \ {y}
    OBVIOUS
  <1>7. r \subseteq m /\ r # m /\ r \in SUBSET T /\ IsFiniteSet(r) /\ IsFiniteSet(S \cup r)
    BY <1>2, <1>5, <1>6, FS_Subset, FS_Union
  <1>8. Total(f, S \cup r) = Total(f, S) + Total(f, r)
    BY <1>1, <1>7 DEF Bad
  <1>9. m = r \cup {y} /\ S \cup m = (S \cup r) \cup {y} /\ y \notin r /\ y \notin S \cup r
    BY <1>2, <1>5, <1>6
  <1>10. Counts(f, r) /\ Counts(f, S \cup r) /\ f[y] \in Int
    BY <1>2, <1>5, <1>7 DEF Counts
  <1>11. /\ Total(f, m) = f[y] + Total(f, r)
         /\ Total(f, S \cup m) = f[y] + Total(f, S \cup r)
    BY <1>7, <1>9, <1>10, TotalAdd
  <1>12. Total(f, r) \in Int
    BY <1>7, <1>10, TotalInt
  <1> QED
    BY <1>2, <1>3, <1>8, <1>10, <1>11, <1>12

\* Naturals: a part of the set adds up to no more than the whole.
LEMMA TotalSubset ==
  ASSUME NEW f, NEW T, IsFiniteSet(T), NEW S \in SUBSET T, \A x \in T : f[x] \in Nat
  PROVE  Total(f, S) <= Total(f, T)
PROOF
  <1>1. IsFiniteSet(S) /\ IsFiniteSet(T \ S)
    BY FS_Subset
  <1>2. S \cup (T \ S) = T /\ S \cap (T \ S) = {} /\ Counts(f, S) /\ Counts(f, T \ S)
    BY DEF Counts
  <1>3. Total(f, T) = Total(f, S) + Total(f, T \ S)
    BY <1>1, <1>2, TotalUnion
  <1>4. Total(f, S) \in Nat /\ Total(f, T \ S) \in Nat
    BY <1>1, TotalNat
  <1> QED
    BY <1>3, <1>4

LEMMA TotalZero ==
  ASSUME NEW f, NEW S, IsFiniteSet(S), \A x \in S : f[x] = 0 PROVE Total(f, S) = 0
PROOF
  <1> DEFINE Bad == {s \in SUBSET S : Total(f, s) # 0}
  <1> SUFFICES ASSUME Bad # {} PROVE FALSE
    OBVIOUS
  <1>0. Bad \subseteq SUBSET S
    OBVIOUS
  <1> HIDE DEF Bad
  <1>1. PICK m \in Bad : \A s \in Bad : s \subseteq m => s = m
    BY <1>0, MinimalSet
  <1> USE DEF Bad
  <1>2. m # {}
    BY TotalEmpty
  <1>3. Some(m) \in m /\ IsFiniteSet(m)
    BY <1>2, SomeOf, FS_Subset
  <1>4. Total(f, m \ {Some(m)}) = 0
    BY <1>1, <1>3
  <1> QED
    BY <1>2, <1>3, <1>4, TotalStep

\* Summand by summand no more, so the sum is no more.
LEMMA TotalPointwise ==
  ASSUME NEW f, NEW g, NEW S, IsFiniteSet(S), Counts(f, S), Counts(g, S),
         \A x \in S : f[x] <= g[x]
  PROVE  Total(f, S) <= Total(g, S)
PROOF
  <1> DEFINE Bad == {s \in SUBSET S : ~ (Total(f, s) <= Total(g, s))}
  <1> SUFFICES ASSUME Bad # {} PROVE FALSE
    OBVIOUS
  <1>0. Bad \subseteq SUBSET S
    OBVIOUS
  <1> HIDE DEF Bad
  <1>1. PICK m \in Bad : \A s \in Bad : s \subseteq m => s = m
    BY <1>0, MinimalSet
  <1> USE DEF Bad
  <1>2. m # {}
    BY TotalEmpty
  <1>3. PICK x : x = Some(m)
    OBVIOUS
  <1>4. x \in m /\ m \subseteq S /\ IsFiniteSet(m) /\ IsFiniteSet(m \ {x})
    BY <1>2, <1>3, SomeOf, FS_Subset
  <1>5. Total(f, m \ {x}) <= Total(g, m \ {x})
    BY <1>1, <1>4
  <1>6. /\ f[x] \in Int /\ g[x] \in Int /\ f[x] <= g[x]
        /\ Total(f, m \ {x}) \in Int /\ Total(g, m \ {x}) \in Int
    BY <1>4, TotalInt DEF Counts
  <1>7. Total(f, m) = f[x] + Total(f, m \ {x}) /\ Total(g, m) = g[x] + Total(g, m \ {x})
    BY <1>2, <1>3, <1>4, TotalStep
  <1>8. Total(f, m) <= Total(g, m)
    BY <1>5, <1>6, <1>7
  <1> QED
    BY <1>8

\* A sum over a set that p divides into parts is the sum of the parts' sums.
PartOf(S, p, t) == {x \in S : p[x] = t}

LEMMA TotalParts ==
  ASSUME NEW f, NEW S, IsFiniteSet(S), Counts(f, S), NEW T, IsFiniteSet(T),
         NEW p, \A x \in S : p[x] \in T,
         NEW g, \A t \in T : g[t] = Total(f, PartOf(S, p, t))
  PROVE  Total(f, S) = Total(g, T)
PROOF
  <1> USE DEF PartOf
  <1> DEFINE Within(U) == {x \in S : p[x] \in U}
             Bad == {U \in SUBSET T : Total(f, Within(U)) # Total(g, U)}
  <1>0. Within(T) = S
    OBVIOUS
  <1> SUFFICES ASSUME Bad # {} PROVE FALSE
    BY <1>0
  <1>1. Bad \subseteq SUBSET T
    OBVIOUS
  <1> HIDE DEF Bad
  <1>2. PICK m \in Bad : \A s \in Bad : s \subseteq m => s = m
    BY <1>1, MinimalSet
  <1>3. Total(f, Within(m)) # Total(g, m) /\ m \subseteq T /\ IsFiniteSet(m)
    BY <1>1, FS_Subset DEF Bad
  <1>4. m # {}
    <2>1. Within({}) = {}
      OBVIOUS
    <2> QED
      BY <1>3, <2>1, TotalEmpty
  <1>5. PICK t : t \in m
    BY <1>4
  <1>6. PICK r : r = m \ {t}
    OBVIOUS
  <1>7. r \subseteq m /\ r # m /\ r \in SUBSET T /\ t \in T
    BY <1>3, <1>5, <1>6
  <1>8. Total(f, Within(r)) = Total(g, r)
    BY <1>2, <1>7 DEF Bad
  <1> DEFINE Part == PartOf(S, p, t)
  <1>9. Within(m) = Within(r) \cup Part /\ Within(r) \cap Part = {}
    BY <1>5, <1>6
  <1>10. Within(r) \subseteq S /\ Part \subseteq S
    OBVIOUS
  <1>11. g[t] = Total(f, Part)
    BY <1>7
  <1>12. \A u \in T : g[u] \in Int
    <2> TAKE u \in T
    <2>1. PartOf(S, p, u) \subseteq S
      OBVIOUS
    <2> DEFINE V == PartOf(S, p, u)
    <2>2. IsFiniteSet(V) /\ Counts(f, V)
      BY <2>1, FS_Subset DEF Counts
    <2> HIDE DEF V
    <2>3. Total(f, V) \in Int
      BY <2>2, TotalInt
    <2> QED
      BY <2>3 DEF V
  <1> HIDE DEF Within, Part
  <1>13. Total(f, Within(m)) = Total(f, Within(r)) + Total(f, Part)
    <2>1. IsFiniteSet(Within(r)) /\ IsFiniteSet(Part) /\ Counts(f, Within(r)) /\ Counts(f, Part)
      BY <1>10, FS_Subset DEF Counts
    <2> QED
      BY <1>9, <2>1, TotalUnion
  <1>14. Total(g, m) = g[t] + Total(g, r)
    <2>1. Counts(g, m)
      BY <1>3, <1>12 DEF Counts
    <2> QED
      BY <1>3, <1>5, <1>6, <2>1, TotalRemove
  <1>15. Total(g, r) \in Int
    <2>1. IsFiniteSet(r) /\ Counts(g, r)
      BY <1>3, <1>7, <1>12, FS_Subset DEF Counts
    <2> QED
      BY <2>1, TotalInt
  <1> QED
    BY <1>3, <1>7, <1>8, <1>11, <1>12, <1>13, <1>14, <1>15

=============================================================================
