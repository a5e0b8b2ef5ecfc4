----------------------------- MODULE SumTheorems -----------------------------
(***************************************************************************)
(* Sums over finite sets, as MapThenSumSet computes them.  The properties  *)
(* about money sum over orders or payouts and those of a limiter over      *)
(* ticks; their proofs need to know what a sum does when one term changes, *)
(* wherever the fold happens to meet it.                                   *)
(***************************************************************************)
EXTENDS Integers, FiniteSets, FiniteSetsExt, FiniteSetTheorems, WellFoundedInduction, TLAPS

\* The sum of f over S; MapThenSumSet takes an element at a time.
Total(f, S) == MapThenSumSet(LAMBDA x : f[x], S)
Pick(s) == CHOOSE x \in s : TRUE
\* g is the sum of f over each subset of S.
IsSum(g, f, S) ==
  g = [s \in SUBSET S |-> IF s = {} THEN 0 ELSE f[Pick(s)] + g[s \ {Pick(s)}]]
Sums(f, S) == CHOOSE g : IsSum(g, f, S)
Ints(f, S) == \A x \in S : f[x] \in Int

\* Induction over a finite set: a family of its subsets has a member none of whose
\* elements can be left out.
LEMMA SmallestSubset ==
  ASSUME NEW S, IsFiniteSet(S), NEW T, T \subseteq SUBSET S, T # {}
  PROVE  \E s \in T : IsFiniteSet(s) /\ \A x \in s : s \ {x} \notin T
<1>1. IsWellFoundedOn(StrictSubsetOrdering(S), SUBSET S)
  BY FS_StrictSubsetOrderingWellFounded, FS_FiniteSubsetsOfFinite
<1>2. PICK s \in T : \A u \in T : <<u, s>> \notin StrictSubsetOrdering(S)
  BY <1>1, WFMin
<1>3. IsFiniteSet(s)
  BY FS_Subset
<1>4. ASSUME NEW x \in s PROVE s \ {x} \notin T
  <2>1. <<s \ {x}, s>> \in StrictSubsetOrdering(S)
    BY DEF StrictSubsetOrdering
  <2> QED
    BY <1>2, <2>1
<1> QED
  BY <1>2, <1>3, <1>4

\* The fold unfolded.
LEMMA TotalIs == ASSUME NEW f, NEW S PROVE Total(f, S) = Sums(f, S)[S]
BY DEF Total, MapThenSumSet, MapThenFoldSet, Sums, IsSum, Pick

LEMMA PickIn == ASSUME NEW s, s # {} PROVE Pick(s) \in s
BY DEF Pick

\* Two sums agree on what both cover.
LEMMA SumsAgree ==
  ASSUME NEW f, NEW R, NEW S, NEW g, NEW h, IsSum(g, f, R), IsSum(h, f, S),
         NEW s, IsFiniteSet(s), s \subseteq R, s \subseteq S
  PROVE  g[s] = h[s]
<1> DEFINE T == {u \in SUBSET s : g[u] # h[u]}
<1> SUFFICES ASSUME T # {} PROVE FALSE
  BY DEF T
<1>1. PICK u \in T : \A x \in u : u \ {x} \notin T
  <2>1. T \subseteq SUBSET s
    OBVIOUS
  <2> QED
    BY <2>1, SmallestSubset
<1>2. /\ g[u] = IF u = {} THEN 0 ELSE f[Pick(u)] + g[u \ {Pick(u)}]
      /\ h[u] = IF u = {} THEN 0 ELSE f[Pick(u)] + h[u \ {Pick(u)}]
  BY DEF IsSum
<1>3. u # {} => g[u \ {Pick(u)}] = h[u \ {Pick(u)}]
  BY <1>1, PickIn
<1> QED
  BY <1>1, <1>2, <1>3

\* There is a sum.
LEMMA SumsExist ==
  ASSUME NEW f, NEW S, IsFiniteSet(S)
  PROVE  IsSum(Sums(f, S), f, S)
<1> DEFINE T == {s \in SUBSET S : ~IsSum(Sums(f, s), f, s)}
<1> SUFFICES ASSUME T # {} PROVE FALSE
  BY DEF T
<1>1. PICK s \in T : IsFiniteSet(s) /\ \A x \in s : s \ {x} \notin T
  <2>1. T \subseteq SUBSET S
    OBVIOUS
  <2> QED
    BY <2>1, SmallestSubset
<1> DEFINE Rest(u) == Sums(f, s \ {Pick(u)})
           G == [u \in SUBSET s |->
                   IF u = {} THEN 0 ELSE f[Pick(u)] + Rest(u)[u \ {Pick(u)}]]
<1>2. ASSUME NEW u \in SUBSET s, u # {}
      PROVE  IsSum(Rest(u), f, s \ {Pick(u)}) /\ u \ {Pick(u)} \in SUBSET (s \ {Pick(u)})
  BY <1>1, <1>2, PickIn
<1>3. ASSUME NEW u \in SUBSET s, u # {} PROVE Rest(u)[u \ {Pick(u)}] = G[u \ {Pick(u)}]
  <2> DEFINE v == u \ {Pick(u)}
  <2>1. Rest(u)[v] = IF v = {} THEN 0 ELSE f[Pick(v)] + Rest(u)[v \ {Pick(v)}]
    BY <1>2, <1>3 DEF IsSum
  <2>2. G[v] = IF v = {} THEN 0 ELSE f[Pick(v)] + Rest(v)[v \ {Pick(v)}]
    OBVIOUS
  <2>3. ASSUME v # {} PROVE Rest(u)[v \ {Pick(v)}] = Rest(v)[v \ {Pick(v)}]
    <3>1. v \in SUBSET s
      OBVIOUS
    <3>2. IsSum(Rest(u), f, s \ {Pick(u)}) /\ IsSum(Rest(v), f, s \ {Pick(v)})
      BY <1>2, <1>3, <2>3, <3>1
    <3>3. IsFiniteSet(v \ {Pick(v)})
      BY <1>1, <3>1, FS_Subset
    <3>4. v \ {Pick(v)} \subseteq s \ {Pick(u)} /\ v \ {Pick(v)} \subseteq s \ {Pick(v)}
      OBVIOUS
    <3> DEFINE w == v \ {Pick(v)}
               R == s \ {Pick(u)}
               Q == s \ {Pick(v)}
               a == Rest(u)
               b == Rest(v)
    <3>5. IsSum(a, f, R) /\ IsSum(b, f, Q) /\ IsFiniteSet(w) /\ w \subseteq R /\ w \subseteq Q
      BY <3>2, <3>3, <3>4
    <3> HIDE DEF w, R, Q, a, b
    <3>6. a[w] = b[w]
      BY <3>5, SumsAgree
    <3> QED
      BY <3>6 DEF a, b, w
  <2> QED
    BY <2>1, <2>2, <2>3
<1>4. IsSum(G, f, s)
  BY <1>3 DEF IsSum
<1> HIDE DEF G
<1>5. IsSum(Sums(f, s), f, s)
  BY <1>4 DEF Sums
<1> QED
  BY <1>1, <1>5

\* The sum over the empty set, and over any other by the element it starts with.
LEMMA TotalOfNone == ASSUME NEW f PROVE Total(f, {}) = 0
<1>1. IsSum(Sums(f, {}), f, {})
  BY SumsExist, FS_EmptySet
<1> QED
  BY <1>1, TotalIs DEF IsSum
LEMMA TotalPicks ==
  ASSUME NEW f, NEW S, IsFiniteSet(S), S # {}
  PROVE  Total(f, S) = f[Pick(S)] + Total(f, S \ {Pick(S)})
<1> DEFINE R == S \ {Pick(S)}
<1>1. IsFiniteSet(R)
  BY FS_Subset
<1>2. IsSum(Sums(f, S), f, S) /\ IsSum(Sums(f, R), f, R)
  BY <1>1, SumsExist
<1>3. Sums(f, S)[S] = f[Pick(S)] + Sums(f, S)[R]
  BY <1>2 DEF IsSum
<1>4. Sums(f, S)[R] = Sums(f, R)[R]
  BY <1>1, <1>2, SumsAgree
<1> QED
  BY <1>3, <1>4, TotalIs

(***************************************************************************)
(* Sums of integers.                                                       *)
(***************************************************************************)
LEMMA TotalType ==
  ASSUME NEW f, NEW S, IsFiniteSet(S), Ints(f, S)
  PROVE  Total(f, S) \in Int
<1> DEFINE T == {s \in SUBSET S : Total(f, s) \notin Int}
<1> SUFFICES ASSUME T # {} PROVE FALSE
  BY DEF T
<1>1. PICK s \in T : IsFiniteSet(s) /\ \A x \in s : s \ {x} \notin T
  BY SmallestSubset
<1>2. s # {}
  BY <1>1, TotalOfNone
<1>3. Total(f, s) = f[Pick(s)] + Total(f, s \ {Pick(s)}) /\ Pick(s) \in s
  BY <1>1, <1>2, TotalPicks, PickIn
<1>4. f[Pick(s)] \in Int /\ Total(f, s \ {Pick(s)}) \in Int
  BY <1>1, <1>3 DEF Ints
<1> QED
  BY <1>1, <1>3, <1>4

\* Any element may be taken out.
LEMMA TotalWithout ==
  ASSUME NEW f, NEW S, IsFiniteSet(S), Ints(f, S), NEW x \in S
  PROVE  Total(f, S) = f[x] + Total(f, S \ {x}) /\ Total(f, S \ {x}) \in Int
<1> DEFINE T == {s \in SUBSET S : \E y \in s : Total(f, s) # f[y] + Total(f, s \ {y})}
<1>1. ASSUME T # {} PROVE FALSE
  <2>1. PICK s \in T : IsFiniteSet(s) /\ \A y \in s : s \ {y} \notin T
    <3>1. T \subseteq SUBSET S
      OBVIOUS
    <3> QED
      BY <1>1, <3>1, SmallestSubset
  <2>2. PICK y \in s : Total(f, s) # f[y] + Total(f, s \ {y})
    BY <2>1
  <2> DEFINE p == Pick(s)
  <2>3. p \in s /\ Total(f, s) = f[p] + Total(f, s \ {p})
    BY <2>1, <2>2, PickIn, TotalPicks
  <2>4. p # y
    BY <2>2, <2>3
  <2> HIDE DEF p
  <2>5. Total(f, s \ {p}) = f[y] + Total(f, (s \ {p}) \ {y})
    BY <2>1, <2>3, <2>4
  <2>6. Total(f, s \ {y}) = f[p] + Total(f, (s \ {y}) \ {p})
    BY <2>1, <2>3, <2>4
  <2>7. (s \ {p}) \ {y} = (s \ {y}) \ {p}
    OBVIOUS
  <2>8. Total(f, (s \ {y}) \ {p}) \in Int
    <3>1. IsFiniteSet((s \ {y}) \ {p})
      BY <2>1, FS_Subset
    <3> QED
      BY <3>1, TotalType DEF Ints
  <2>9. f[p] \in Int /\ f[y] \in Int
    BY <2>3 DEF Ints
  <2>10. Total(f, s \ {y}) = f[p] + Total(f, (s \ {p}) \ {y})
    BY <2>6, <2>7
  <2> DEFINE w == Total(f, (s \ {p}) \ {y})
  <2>11. f[p] + (f[y] + w) = f[y] + (f[p] + w)
    <3>1. w \in Int
      BY <2>7, <2>8
    <3> HIDE DEF w
    <3> QED
      BY <2>9, <3>1
  <2> QED
    BY <2>2, <2>3, <2>5, <2>10, <2>11
<1>2. Total(f, S \ {x}) \in Int
  <2>1. IsFiniteSet(S \ {x})
    BY FS_Subset
  <2> QED
    BY <2>1, TotalType DEF Ints
<1> QED
  BY <1>1, <1>2

\* A sum depends on its terms only, and on how they compare.
LEMMA TotalAtMost ==
  ASSUME NEW f, NEW g, NEW S, IsFiniteSet(S), Ints(f, S), Ints(g, S),
         \A x \in S : f[x] =< g[x]
  PROVE  Total(f, S) =< Total(g, S)
<1> DEFINE T == {s \in SUBSET S : ~(Total(f, s) =< Total(g, s))}
<1> SUFFICES ASSUME T # {} PROVE FALSE
  BY DEF T
<1>1. PICK s \in T : IsFiniteSet(s) /\ \A x \in s : s \ {x} \notin T
  BY SmallestSubset
<1>2. s # {}
  BY <1>1, TotalOfNone
<1>3. PICK p \in s : TRUE
  BY <1>2
<1>4. Ints(f, s) /\ Ints(g, s)
  BY DEF Ints
<1>5. /\ Total(f, s) = f[p] + Total(f, s \ {p}) /\ Total(f, s \ {p}) \in Int
      /\ Total(g, s) = g[p] + Total(g, s \ {p}) /\ Total(g, s \ {p}) \in Int
  BY <1>1, <1>4, TotalWithout
<1>6. Total(f, s \ {p}) =< Total(g, s \ {p})
  BY <1>1
<1>7. f[p] \in Int /\ g[p] \in Int /\ f[p] =< g[p]
  BY DEF Ints
<1> QED
  BY <1>1, <1>5, <1>6, <1>7
LEMMA TotalSame ==
  ASSUME NEW f, NEW g, NEW S, IsFiniteSet(S), Ints(f, S), \A x \in S : f[x] = g[x]
  PROVE  Total(f, S) = Total(g, S)
<1>1. Ints(g, S) /\ \A x \in S : f[x] =< g[x] /\ g[x] =< f[x]
  BY DEF Ints
<1>2. Total(f, S) =< Total(g, S) /\ Total(g, S) =< Total(f, S)
  BY <1>1, TotalAtMost
<1>3. Total(f, S) \in Int /\ Total(g, S) \in Int
  BY <1>1, TotalType
<1> QED
  BY <1>2, <1>3

\* One term changes.
LEMMA TotalChanges ==
  ASSUME NEW f, NEW g, NEW S, IsFiniteSet(S), Ints(f, S), Ints(g, S),
         NEW x \in S, \A y \in S \ {x} : g[y] = f[y]
  PROVE  Total(g, S) = Total(f, S) - f[x] + g[x]
<1>1. /\ Total(f, S) = f[x] + Total(f, S \ {x}) /\ Total(f, S \ {x}) \in Int
      /\ Total(g, S) = g[x] + Total(g, S \ {x})
  BY TotalWithout
<1>2. Total(f, S \ {x}) = Total(g, S \ {x})
  <2>1. IsFiniteSet(S \ {x}) /\ Ints(f, S \ {x})
    BY FS_Subset DEF Ints
  <2> QED
    BY <2>1, TotalSame
<1> QED
  BY <1>1, <1>2 DEF Ints

\* Sums of terms none of which is negative: a part is at most the whole.
LEMMA TotalNat ==
  ASSUME NEW f, NEW S, IsFiniteSet(S), Ints(f, S), \A y \in S : f[y] >= 0
  PROVE  Total(f, S) >= 0
<1> DEFINE T == {s \in SUBSET S : ~(Total(f, s) >= 0)}
<1> SUFFICES ASSUME T # {} PROVE FALSE
  BY DEF T
<1>1. PICK s \in T : IsFiniteSet(s) /\ \A x \in s : s \ {x} \notin T
  <2>1. T \subseteq SUBSET S
    OBVIOUS
  <2> QED
    BY <2>1, SmallestSubset
<1>2. s # {}
  BY <1>1, TotalOfNone
<1>3. PICK p \in s : TRUE
  BY <1>2
<1>4. Ints(f, s)
  BY DEF Ints
<1>5. Total(f, s) = f[p] + Total(f, s \ {p}) /\ Total(f, s \ {p}) \in Int
  BY <1>1, <1>4, TotalWithout
<1>6. Total(f, s \ {p}) >= 0 /\ f[p] >= 0 /\ f[p] \in Int
  BY <1>1 DEF Ints
<1> QED
  BY <1>5, <1>6
LEMMA TotalCovers ==
  ASSUME NEW f, NEW S, IsFiniteSet(S), Ints(f, S), \A y \in S : f[y] >= 0, NEW x \in S
  PROVE  f[x] =< Total(f, S)
<1>1. IsFiniteSet(S \ {x}) /\ Ints(f, S \ {x})
  BY FS_Subset DEF Ints
<1>2. Total(f, S) = f[x] + Total(f, S \ {x}) /\ Total(f, S \ {x}) \in Int
  BY TotalWithout
<1>3. Total(f, S \ {x}) >= 0
  BY <1>1, TotalNat
<1> QED
  BY <1>2, <1>3 DEF Ints

\* The sum over a part is a sum over the whole whose other terms are 0.
LEMMA TotalWhere ==
  ASSUME NEW f, NEW g, NEW S, IsFiniteSet(S), NEW R, R \subseteq S, Ints(f, R),
         \A x \in S : g[x] = IF x \in R THEN f[x] ELSE 0
  PROVE  Total(f, R) = Total(g, S)
<1> DEFINE T == {s \in SUBSET S : Total(f, s \cap R) # Total(g, s)}
<1>1. ASSUME T # {} PROVE FALSE
  <2>1. PICK s \in T : IsFiniteSet(s) /\ \A x \in s : s \ {x} \notin T
    <3>1. T \subseteq SUBSET S
      OBVIOUS
    <3> QED
      BY <1>1, <3>1, SmallestSubset
  <2>2. s # {}
    <3>1. {} \cap R = {}
      OBVIOUS
    <3> QED
      BY <2>1, <3>1, TotalOfNone
  <2>3. PICK p \in s : TRUE
    BY <2>2
  <2>4. Ints(g, s) /\ Ints(f, s \cap R) /\ IsFiniteSet(s \cap R)
    BY <2>1, FS_Subset DEF Ints
  <2>5. Total(g, s) = g[p] + Total(g, s \ {p}) /\ Total(g, s \ {p}) \in Int
    BY <2>1, <2>4, TotalWithout
  <2>6. Total(f, (s \ {p}) \cap R) = Total(g, s \ {p})
    BY <2>1
  <2>7. CASE p \in R
    <3>1. (s \ {p}) \cap R = (s \cap R) \ {p} /\ p \in s \cap R
      BY <2>7
    <3>2. Total(f, s \cap R) = f[p] + Total(f, (s \cap R) \ {p})
      BY <2>4, <3>1, TotalWithout
    <3> QED
      BY <2>1, <2>5, <2>6, <2>7, <3>1, <3>2
  <2>8. CASE p \notin R
    <3>1. (s \ {p}) \cap R = s \cap R
      BY <2>8
    <3>2. Total(g, s) = Total(g, s \ {p})
      BY <2>1, <2>5, <2>8
    <3> QED
      BY <2>1, <2>6, <3>1, <3>2
  <2> QED
    BY <2>7, <2>8
<1>2. S \cap R = R
  OBVIOUS
<1> QED
  BY <1>1, <1>2

\* The sum of the sums is the sum of the terms' sums.
LEMMA TotalPlus ==
  ASSUME NEW f, NEW g, NEW h, NEW S, IsFiniteSet(S), Ints(f, S), Ints(g, S),
         \A x \in S : h[x] = f[x] + g[x]
  PROVE  Total(h, S) = Total(f, S) + Total(g, S)
<1> DEFINE T == {s \in SUBSET S : Total(h, s) # Total(f, s) + Total(g, s)}
<1>1. ASSUME T # {} PROVE FALSE
  <2>1. PICK s \in T : IsFiniteSet(s) /\ \A x \in s : s \ {x} \notin T
    <3>1. T \subseteq SUBSET S
      OBVIOUS
    <3> QED
      BY <1>1, <3>1, SmallestSubset
  <2>2. s # {}
    BY <2>1, TotalOfNone
  <2>3. PICK p \in s : TRUE
    BY <2>2
  <2>4. Ints(f, s) /\ Ints(g, s) /\ Ints(h, s)
    BY DEF Ints
  <2>5. /\ Total(f, s) = f[p] + Total(f, s \ {p}) /\ Total(f, s \ {p}) \in Int
        /\ Total(g, s) = g[p] + Total(g, s \ {p}) /\ Total(g, s \ {p}) \in Int
        /\ Total(h, s) = h[p] + Total(h, s \ {p})
    BY <2>1, <2>4, TotalWithout
  <2>6. Total(h, s \ {p}) = Total(f, s \ {p}) + Total(g, s \ {p})
    BY <2>1
  <2>7. f[p] \in Int /\ g[p] \in Int /\ h[p] = f[p] + g[p]
    BY DEF Ints
  <2> QED
    BY <2>1, <2>5, <2>6, <2>7
<1> QED
  BY <1>1

\* The sum over two sets that share nothing, and over a part of a set.
LEMMA TotalUnion ==
  ASSUME NEW f, NEW R, NEW S, IsFiniteSet(R), IsFiniteSet(S), R \cap S = {}, Ints(f, R),
         Ints(f, S)
  PROVE  Total(f, R \cup S) = Total(f, R) + Total(f, S)
<1> DEFINE V == R \cup S
           g == [x \in V |-> IF x \in R THEN f[x] ELSE 0]
           h == [x \in V |-> IF x \in S THEN f[x] ELSE 0]
<1>1. IsFiniteSet(V)
  BY FS_Union
<1>2. Total(f, R) = Total(g, V) /\ Total(f, S) = Total(h, V)
  <2>1. R \subseteq V /\ S \subseteq V
    OBVIOUS
  <2>2. \A x \in V : g[x] = (IF x \in R THEN f[x] ELSE 0) /\ h[x] = (IF x \in S THEN f[x] ELSE 0)
    OBVIOUS
  <2> HIDE DEF V, g, h
  <2> QED
    BY <1>1, <2>1, <2>2, TotalWhere
<1>3. Ints(g, V) /\ Ints(h, V) /\ \A x \in V : f[x] = g[x] + h[x]
  BY DEF Ints
<1> HIDE DEF g, h, V
<1>4. Total(f, V) = Total(g, V) + Total(h, V)
  BY <1>1, <1>3, TotalPlus
<1> QED
  BY <1>2, <1>4 DEF V
LEMMA TotalPart ==
  ASSUME NEW f, NEW S, IsFiniteSet(S), NEW R, R \subseteq S, Ints(f, S),
         \A x \in S : f[x] >= 0
  PROVE  Total(f, R) =< Total(f, S)
<1>1. IsFiniteSet(R) /\ IsFiniteSet(S \ R) /\ Ints(f, R) /\ Ints(f, S \ R)
  BY FS_Subset, FS_Difference DEF Ints
<1>2. Total(f, R \cup (S \ R)) = Total(f, R) + Total(f, S \ R)
  BY <1>1, TotalUnion
<1>3. R \cup (S \ R) = S
  OBVIOUS
<1>4. Total(f, S \ R) >= 0
  BY <1>1, TotalNat
<1>5. Total(f, R) \in Int /\ Total(f, S \ R) \in Int
  BY <1>1, TotalType
<1>6. Total(f, S) = Total(f, R) + Total(f, S \ R)
  BY <1>2, <1>3
<1> QED
  BY <1>4, <1>5, <1>6
=============================================================================
