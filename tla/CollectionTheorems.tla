-------------------------- MODULE CollectionTheorems --------------------------
(***************************************************************************)
(* Theorems about sums, and about lists one value is filtered out of.  The *)
(* induction over finite sets takes a smallest counterexample              *)
(* (SmallestSubset), so no theorem with an operator as parameter is needed.*)
(***************************************************************************)
EXTENDS Collections, FiniteSetTheorems, SequenceTheorems, WellFoundedInduction, TLAPS

\* The element the fold behind MapThenSumSet takes first.
Pick(s) == CHOOSE x \in s : TRUE

\* g gives the sum of f over every subset of S.
Adds(g, f, S) ==
  g = [s \in SUBSET S |-> IF s = {} THEN 0 ELSE f[Pick(s)] + g[s \ {Pick(s)}]]

\* SumOver is the value at S of some g with Adds(g, f, S), if there is one.
LEMMA SumChosen ==
  ASSUME NEW f, NEW S
  PROVE  SumOver(f, S) = (CHOOSE g : Adds(g, f, S))[S]
  BY DEF SumOver, MapThenSumSet, MapThenFoldSet, Adds, Pick

\* Pick takes an element of the set.
LEMMA PickInside ==
  ASSUME NEW s, s # {}
  PROVE  Pick(s) \in s
  BY DEF Pick

\* Among subsets of a finite set there is one with no other of them inside.
LEMMA SmallestSubset ==
  ASSUME NEW S, IsFiniteSet(S), NEW Bad \in SUBSET (SUBSET S), Bad # {}
  PROVE  \E U \in Bad : \A V \in SUBSET U : V # U => V \notin Bad
  <1>1. IsWellFoundedOn(StrictSubsetOrdering(S), FiniteSubsetsOf(S))
    BY FS_StrictSubsetOrderingWellFounded
  <1>2. FiniteSubsetsOf(S) = SUBSET S
    BY FS_FiniteSubsetsOfFinite
  <1>3. PICK U \in Bad : \A V \in Bad : <<V, U>> \notin StrictSubsetOrdering(S)
    BY <1>1, <1>2, WFMin
  <1>4. ASSUME NEW V \in SUBSET U, V # U, V \in Bad
        PROVE  FALSE
    BY <1>3, <1>4 DEF StrictSubsetOrdering
  <1> QED  BY <1>4

\* Two such g agree wherever both are defined.
LEMMA AddsUnique ==
  ASSUME NEW f, NEW S, IsFiniteSet(S), NEW A, NEW B, NEW g, NEW h,
         Adds(g, f, A), Adds(h, f, B), S \subseteq A, S \subseteq B
  PROVE  g[S] = h[S]
  <1> DEFINE Bad == {s \in SUBSET S : g[s] # h[s]}
  <1>1. CASE Bad = {}
    BY <1>1
  <1>2. CASE Bad # {}
    <2>0. Bad \in SUBSET (SUBSET S)
      OBVIOUS
    <2>1. PICK s \in Bad : \A V \in SUBSET s : V # s => V \notin Bad
      <3> HIDE DEF Bad
      <3> QED  BY <1>2, <2>0, SmallestSubset
    <2>2. s \in SUBSET A /\ s \in SUBSET B /\ s \in SUBSET S
      OBVIOUS
    <2>3. s # {}
      BY <2>2 DEF Adds
    <2>4. g[s \ {Pick(s)}] = h[s \ {Pick(s)}]
      BY <2>1, <2>3, PickInside
    <2>5. g[s] = f[Pick(s)] + g[s \ {Pick(s)}]
      BY <2>2, <2>3 DEF Adds
    <2>6. h[s] = f[Pick(s)] + h[s \ {Pick(s)}]
      BY <2>2, <2>3 DEF Adds
    <2> QED  BY <2>4, <2>5, <2>6
  <1> QED  BY <1>1, <1>2

\* There is one: a smallest set without would get one from its proper subsets.
LEMMA AddsExists ==
  ASSUME NEW f, NEW S, IsFiniteSet(S)
  PROVE  \E g : Adds(g, f, S)
  <1> DEFINE Bad == {U \in SUBSET S : ~ \E g : Adds(g, f, U)}
  <1>1. CASE Bad = {}
    BY <1>1
  <1>2. CASE Bad # {}
    <2>0. Bad \in SUBSET (SUBSET S)
      OBVIOUS
    <2>1. PICK U \in Bad : \A V \in SUBSET U : V # U => V \notin Bad
      <3> HIDE DEF Bad
      <3> QED  BY <1>2, <2>0, SmallestSubset
    <2>2. \A V \in SUBSET U : V # U => \E g : Adds(g, f, V)
      BY <2>1
    <2> DEFINE G(V) == CHOOSE g : Adds(g, f, V)
    <2>3. \A V \in SUBSET U : V # U => Adds(G(V), f, V)
      BY <2>2
    <2> DEFINE h == [s \in SUBSET U |->
                       IF s = {} THEN 0
                       ELSE f[Pick(s)] + G(s \ {Pick(s)})[s \ {Pick(s)}]]
    <2> HIDE DEF G
    <2>4. ASSUME NEW V \in SUBSET U, V # U
          PROVE  h[V] = G(V)[V]
      <3>1. Adds(G(V), f, V)
        BY <2>3, <2>4
      <3>2. CASE V = {}
        BY <3>1, <3>2 DEF Adds
      <3>3. CASE V # {}
        <4> DEFINE W == V \ {Pick(V)}
        <4>1. W \in SUBSET U /\ W # U /\ W \subseteq V
          BY <3>3, PickInside
        <4>2. Adds(G(W), f, W)
          BY <4>1, <2>3
        <4>3. IsFiniteSet(W)
          BY <4>1, FS_Subset
        <4>4. G(V)[W] = G(W)[W]
          BY <3>1, <4>1, <4>2, <4>3, AddsUnique
        <4>5. G(V)[V] = f[Pick(V)] + G(V)[W]
          BY <3>1, <3>3 DEF Adds
        <4>6. h[V] = f[Pick(V)] + G(W)[W]
          BY <3>3
        <4> QED  BY <4>4, <4>5, <4>6
      <3> QED  BY <3>2, <3>3
    <2>5. ASSUME NEW s \in SUBSET U, s # {}
          PROVE  h[s] = f[Pick(s)] + h[s \ {Pick(s)}]
      <3>1. s \ {Pick(s)} \in SUBSET U /\ s \ {Pick(s)} # U
        BY <2>5, PickInside
      <3>2. h[s \ {Pick(s)}] = G(s \ {Pick(s)})[s \ {Pick(s)}]
        BY <3>1, <2>4
      <3> QED  BY <3>2, <2>5
    <2>6. h = [s \in SUBSET U |-> h[s]] /\ h[{}] = 0
      OBVIOUS
    <2> HIDE DEF h
    <2>7. Adds(h, f, U)
      BY <2>5, <2>6, Zenon DEF Adds
    <2> QED  BY <2>7
  <1> QED  BY <1>1, <1>2

\* The sum over no elements, and the sum with the picked element taken out.
LEMMA SumUnfolds ==
  ASSUME NEW f, NEW S, IsFiniteSet(S)
  PROVE  /\ SumOver(f, {}) = 0
         /\ S # {} => /\ Pick(S) \in S
                      /\ SumOver(f, S) = f[Pick(S)] + SumOver(f, S \ {Pick(S)})
  <1>1. \A T : IsFiniteSet(T) => Adds(CHOOSE g : Adds(g, f, T), f, T)
    BY AddsExists
  <1>2. SumOver(f, {}) = 0
    BY <1>1, SumChosen, FS_EmptySet DEF Adds
  <1>3. ASSUME S # {}
        PROVE SumOver(f, S) = f[Pick(S)] + SumOver(f, S \ {Pick(S)})
    <2> DEFINE T == S \ {Pick(S)}
               g == CHOOSE g : Adds(g, f, S)
               h == CHOOSE h : Adds(h, f, T)
    <2>1. IsFiniteSet(T)
      BY FS_RemoveElement
    <2>2. Adds(g, f, S) /\ Adds(h, f, T)
      BY <1>1, <2>1
    <2> HIDE DEF g, h
    <2>3. g[T] = h[T]
      BY <2>1, <2>2, AddsUnique
    <2>4. g[S] = f[Pick(S)] + g[T]
      BY <2>2, <1>3 DEF Adds
    <2> QED  BY <2>3, <2>4, SumChosen DEF g, h
  <1> QED  BY <1>2, <1>3, PickInside

\* A sum over nothing is 0.
LEMMA SumEmpty == \A f : SumOver(f, {}) = 0
  BY SumUnfolds, FS_EmptySet

\* A sum of members of T is in T, when T has 0 and is closed under addition.
LEMMA SumClosed ==
  ASSUME NEW f, NEW S, IsFiniteSet(S), NEW T, 0 \in T,
         \A a, b \in T : a + b \in T,
         \A x \in S : f[x] \in T
  PROVE  SumOver(f, S) \in T
  <1> DEFINE Bad == {s \in SUBSET S : SumOver(f, s) \notin T}
  <1>1. CASE Bad = {}
    BY <1>1
  <1>2. CASE Bad # {}
    <2>0. Bad \in SUBSET (SUBSET S)
      OBVIOUS
    <2>1. PICK s \in Bad : \A V \in SUBSET s : V # s => V \notin Bad
      <3> HIDE DEF Bad
      <3> QED  BY <1>2, <2>0, SmallestSubset
    <2>2. s \in SUBSET S /\ IsFiniteSet(s)
      BY FS_Subset
    <2>3. s # {}
      BY SumEmpty
    <2>4. Pick(s) \in s /\ SumOver(f, s) = f[Pick(s)] + SumOver(f, s \ {Pick(s)})
      BY <2>2, <2>3, SumUnfolds
    <2>5. SumOver(f, s \ {Pick(s)}) \in T
      BY <2>1, <2>2, <2>4
    <2> QED  BY <2>2, <2>4, <2>5
  <1> QED  BY <1>1, <1>2

\* Sums of integers are integers.
LEMMA SumInt ==
  ASSUME NEW f, NEW S, IsFiniteSet(S), \A x \in S : f[x] \in Int
  PROVE  SumOver(f, S) \in Int
  <1>1. \A a, b \in Int : a + b \in Int
    OBVIOUS
  <1> QED  BY <1>1, SumClosed

\* Sums of naturals are naturals.
LEMMA SumNat ==
  ASSUME NEW f, NEW S, IsFiniteSet(S), \A x \in S : f[x] \in Nat
  PROVE  SumOver(f, S) \in Nat
  <1>1. \A a, b \in Nat : a + b \in Nat
    OBVIOUS
  <1> QED  BY <1>1, SumClosed

\* A sum of zeros is 0.
LEMMA SumZero ==
  ASSUME NEW f, NEW S, IsFiniteSet(S), \A x \in S : f[x] = 0
  PROVE  SumOver(f, S) = 0
  <1>1. \A a, b \in {0} : a + b \in {0}
    OBVIOUS
  <1>2. \A x \in S : f[x] \in {0}
    OBVIOUS
  <1>3. SumOver(f, S) \in {0}
    BY <1>1, <1>2, SumClosed
  <1> QED  BY <1>3

\* Any element can be taken out of the sum, not only the picked one.
LEMMA SumRemove ==
  ASSUME NEW f, NEW S, IsFiniteSet(S), \A y \in S : f[y] \in Int, NEW x \in S
  PROVE  SumOver(f, S) = f[x] + SumOver(f, S \ {x})
  <1> DEFINE Bad == {s \in SUBSET S : \E y \in s : SumOver(f, s) # f[y] + SumOver(f, s \ {y})}
  <1>1. CASE Bad = {}
    BY <1>1
  <1>2. CASE Bad # {}
    <2>0. Bad \in SUBSET (SUBSET S)
      OBVIOUS
    <2>1. PICK s \in Bad : \A V \in SUBSET s : V # s => V \notin Bad
      <3> HIDE DEF Bad
      <3> QED  BY <1>2, <2>0, SmallestSubset
    <2>2. PICK y \in s : SumOver(f, s) # f[y] + SumOver(f, s \ {y})
      OBVIOUS
    <2>3. s \in SUBSET S /\ IsFiniteSet(s)
      BY FS_Subset
    <2> DEFINE p == Pick(s)
    <2>4. p \in s /\ SumOver(f, s) = f[p] + SumOver(f, s \ {p})
      BY <2>2, <2>3, SumUnfolds
    <2> HIDE DEF p
    <2>5. p # y
      BY <2>2, <2>4
    <2>6. SumOver(f, s \ {p}) = f[y] + SumOver(f, (s \ {p}) \ {y})
      <3>1. s \ {p} \in SUBSET s /\ s \ {p} # s /\ y \in s \ {p}
        BY <2>4, <2>5
      <3> QED  BY <3>1, <2>1, <2>3
    <2>7. SumOver(f, s \ {y}) = f[p] + SumOver(f, (s \ {y}) \ {p})
      <3>1. s \ {y} \in SUBSET s /\ s \ {y} # s /\ p \in s \ {y}
        BY <2>4, <2>5
      <3> QED  BY <3>1, <2>1, <2>3
    <2>8. (s \ {p}) \ {y} = (s \ {y}) \ {p}
      OBVIOUS
    <2>9. f[p] \in Int /\ f[y] \in Int /\ SumOver(f, (s \ {y}) \ {p}) \in Int
      <3>1. (s \ {y}) \ {p} \in SUBSET s
        OBVIOUS
      <3>2. IsFiniteSet((s \ {y}) \ {p})
        BY <3>1, <2>3, FS_Subset
      <3>3. \A z \in (s \ {y}) \ {p} : f[z] \in Int
        BY <2>3
      <3>4. SumOver(f, (s \ {y}) \ {p}) \in Int
        BY <3>2, <3>3, SumInt
      <3> QED  BY <3>4, <2>3, <2>4
    <2> DEFINE rest == SumOver(f, (s \ {y}) \ {p})
    <2>10. /\ SumOver(f, s) = f[p] + (f[y] + rest)
           /\ SumOver(f, s \ {y}) = f[p] + rest
      BY <2>4, <2>6, <2>7, <2>8
    <2> HIDE DEF rest
    <2>11. f[p] + (f[y] + rest) = f[y] + (f[p] + rest)
      BY <2>9 DEF rest
    <2> QED  BY <2>2, <2>10, <2>11
  <1> QED  BY <1>1, <1>2

\* Functions that agree on the set have the same sum.
LEMMA SumSame ==
  ASSUME NEW f, NEW g, NEW S, IsFiniteSet(S), \A x \in S : f[x] = g[x]
  PROVE  SumOver(f, S) = SumOver(g, S)
  <1> DEFINE Bad == {s \in SUBSET S : SumOver(f, s) # SumOver(g, s)}
  <1>1. CASE Bad = {}
    BY <1>1
  <1>2. CASE Bad # {}
    <2>0. Bad \in SUBSET (SUBSET S)
      OBVIOUS
    <2>1. PICK s \in Bad : \A V \in SUBSET s : V # s => V \notin Bad
      <3> HIDE DEF Bad
      <3> QED  BY <1>2, <2>0, SmallestSubset
    <2>2. s \in SUBSET S /\ IsFiniteSet(s)
      BY FS_Subset
    <2>3. s # {}
      BY <2>2, SumUnfolds
    <2>4. /\ Pick(s) \in s
          /\ SumOver(f, s) = f[Pick(s)] + SumOver(f, s \ {Pick(s)})
          /\ SumOver(g, s) = g[Pick(s)] + SumOver(g, s \ {Pick(s)})
      BY <2>2, <2>3, SumUnfolds
    <2>5. SumOver(f, s \ {Pick(s)}) = SumOver(g, s \ {Pick(s)})
      BY <2>1, <2>2, <2>4
    <2> QED  BY <2>2, <2>4, <2>5
  <1> QED  BY <1>1, <1>2

\* When one summand changes, the sum changes by the difference.
LEMMA SumChange ==
  ASSUME NEW f, NEW g, NEW S, IsFiniteSet(S), NEW x \in S,
         \A y \in S : f[y] \in Int, g[x] \in Int,
         \A y \in S \ {x} : g[y] = f[y]
  PROVE  SumOver(g, S) = SumOver(f, S) - f[x] + g[x]
  <1>1. IsFiniteSet(S \ {x})
    BY FS_RemoveElement
  <1>2. SumOver(g, S \ {x}) = SumOver(f, S \ {x})
    BY <1>1, SumSame
  <1>3. SumOver(f, S) = f[x] + SumOver(f, S \ {x})
    BY SumRemove
  <1>4. SumOver(g, S) = g[x] + SumOver(g, S \ {x})
    <2>1. \A y \in S : g[y] \in Int
      OBVIOUS
    <2> QED  BY <2>1, SumRemove
  <1>5. SumOver(f, S \ {x}) \in Int
    <2>1. \A y \in S \ {x} : f[y] \in Int
      OBVIOUS
    <2> QED  BY <1>1, <2>1, SumInt
  <1> QED  BY <1>2, <1>3, <1>4, <1>5

\* A change of two summands, as a transfer makes.
LEMMA SumChangeTwo ==
  ASSUME NEW f, NEW g, NEW S, IsFiniteSet(S), NEW x \in S, NEW y \in S, x # y,
         \A z \in S : f[z] \in Int /\ g[z] \in Int,
         \A z \in S \ {x, y} : g[z] = f[z]
  PROVE  SumOver(g, S) = SumOver(f, S) - f[x] + g[x] - f[y] + g[y]
  <1> DEFINE m == [z \in S |-> IF z = x THEN g[x] ELSE f[z]]
  <1>1. /\ \A z \in S : m[z] \in Int
        /\ m[x] = g[x] /\ m[y] = f[y]
        /\ \A z \in S \ {x} : m[z] = f[z]
        /\ \A z \in S \ {y} : g[z] = m[z]
    OBVIOUS
  <1> HIDE DEF m
  <1>2. SumOver(m, S) = SumOver(f, S) - f[x] + m[x]
    BY <1>1, SumChange
  <1>3. SumOver(g, S) = SumOver(m, S) - m[y] + g[y]
    BY <1>1, SumChange
  <1>4. SumOver(f, S) \in Int /\ SumOver(m, S) \in Int
    BY <1>1, SumInt
  <1> QED  BY <1>1, <1>2, <1>3, <1>4

\* A sum of naturals is at least each of its summands.
LEMMA SumAtLeast ==
  ASSUME NEW f, NEW S, IsFiniteSet(S), \A y \in S : f[y] \in Nat, NEW x \in S
  PROVE  f[x] <= SumOver(f, S)
  <1>1. SumOver(f, S) = f[x] + SumOver(f, S \ {x})
    BY SumRemove
  <1>2. SumOver(f, S \ {x}) \in Nat
    <2>1. \A y \in S \ {x} : f[y] \in Nat
      OBVIOUS
    <2> QED  BY <2>1, FS_RemoveElement, SumNat
  <1> QED  BY <1>1, <1>2

\* The sum of sums of two functions is the sum of their sums.
LEMMA SumPlus ==
  ASSUME NEW f, NEW g, NEW h, NEW S, IsFiniteSet(S),
         \A x \in S : f[x] \in Int /\ g[x] \in Int /\ h[x] = f[x] + g[x]
  PROVE  SumOver(h, S) = SumOver(f, S) + SumOver(g, S)
  <1> DEFINE Bad == {s \in SUBSET S : SumOver(h, s) # SumOver(f, s) + SumOver(g, s)}
  <1>1. CASE Bad = {}
    BY <1>1
  <1>2. CASE Bad # {}
    <2>0. Bad \in SUBSET (SUBSET S)
      OBVIOUS
    <2>1. PICK s \in Bad : \A V \in SUBSET s : V # s => V \notin Bad
      <3> HIDE DEF Bad
      <3> QED  BY <1>2, <2>0, SmallestSubset
    <2>2. s \in SUBSET S /\ IsFiniteSet(s)
      BY FS_Subset
    <2>3. s # {}
      <3>1. SumOver(f, {}) = 0 /\ SumOver(g, {}) = 0 /\ SumOver(h, {}) = 0
        BY SumEmpty
      <3>2. SumOver(h, {}) = SumOver(f, {}) + SumOver(g, {})
        BY <3>1
      <3>3. SumOver(h, s) # SumOver(f, s) + SumOver(g, s)
        OBVIOUS
      <3> QED  BY <3>2, <3>3
    <2> DEFINE p == Pick(s)
               t == s \ {p}
    <2>4. /\ p \in s
          /\ SumOver(f, s) = f[p] + SumOver(f, t)
          /\ SumOver(g, s) = g[p] + SumOver(g, t)
          /\ SumOver(h, s) = h[p] + SumOver(h, t)
      BY <2>2, <2>3, SumUnfolds
    <2>5. SumOver(h, t) = SumOver(f, t) + SumOver(g, t)
      BY <2>1, <2>2, <2>4
    <2>6. IsFiniteSet(t) /\ (\A x \in t : f[x] \in Int) /\ (\A x \in t : g[x] \in Int)
      BY <2>2, FS_RemoveElement
    <2>7. SumOver(f, t) \in Int /\ SumOver(g, t) \in Int
      <3> HIDE DEF t
      <3> QED  BY <2>6, SumInt
    <2>8. f[p] \in Int /\ g[p] \in Int /\ h[p] = f[p] + g[p]
      BY <2>2, <2>4
    <2> HIDE DEF p, t
    <2>9. SumOver(h, s) = SumOver(f, s) + SumOver(g, s)
      BY <2>4, <2>5, <2>7, <2>8
    <2> QED  BY <2>9
  <1> QED  BY <1>1, <1>2

\* A sum over 1 .. n + 1 is the sum over 1 .. n and the last summand.
LEMMA SumNext ==
  ASSUME NEW f, NEW g, NEW n \in Nat, \A k \in 1 .. n + 1 : g[k] \in Int,
         \A k \in 1 .. n : g[k] = f[k]
  PROVE  SumOver(g, 1 .. n + 1) = SumOver(f, 1 .. n) + g[n + 1]
  <1>1. IsFiniteSet(1 .. n + 1) /\ IsFiniteSet(1 .. n) /\ n + 1 \in 1 .. n + 1
    BY FS_Interval
  <1>2. (1 .. n + 1) \ {n + 1} = 1 .. n
    OBVIOUS
  <1>3. SumOver(g, 1 .. n + 1) = g[n + 1] + SumOver(g, 1 .. n)
    BY <1>1, <1>2, SumRemove
  <1>4. SumOver(g, 1 .. n) = SumOver(f, 1 .. n)
    BY <1>1, SumSame
  <1>5. SumOver(g, 1 .. n) \in Int /\ g[n + 1] \in Int
    <2>1. \A k \in 1 .. n : g[k] \in Int
      OBVIOUS
    <2> QED  BY <1>1, <2>1, SumInt
  <1> QED  BY <1>3, <1>4, <1>5

\* A sum of smaller summands is smaller.
LEMMA SumDominated ==
  ASSUME NEW f, NEW g, NEW S, IsFiniteSet(S),
         \A x \in S : f[x] \in Int /\ g[x] \in Int /\ f[x] <= g[x]
  PROVE  SumOver(f, S) <= SumOver(g, S)
  <1> DEFINE d == [x \in S |-> g[x] - f[x]]
  <1>1. /\ \A x \in S : d[x] \in Nat
        /\ \A x \in S : f[x] \in Int /\ d[x] \in Int /\ g[x] = f[x] + d[x]
    OBVIOUS
  <1> HIDE DEF d
  <1>2. SumOver(g, S) = SumOver(f, S) + SumOver(d, S)
    BY <1>1, SumPlus
  <1>3. SumOver(d, S) \in Nat
    BY <1>1, SumNat
  <1>4. SumOver(f, S) \in Int
    BY <1>1, SumInt
  <1> QED  BY <1>2, <1>3, <1>4

\* A common factor can be taken out of a sum.
LEMMA SumScaled ==
  ASSUME NEW f, NEW h, NEW k \in Int, NEW S, IsFiniteSet(S),
         \A x \in S : f[x] \in Int /\ h[x] = f[x] * k
  PROVE  SumOver(h, S) = SumOver(f, S) * k
  <1> DEFINE Bad == {s \in SUBSET S : SumOver(h, s) # SumOver(f, s) * k}
  <1>1. CASE Bad = {}
    BY <1>1
  <1>2. CASE Bad # {}
    <2>0. Bad \in SUBSET (SUBSET S)
      OBVIOUS
    <2>1. PICK s \in Bad : \A V \in SUBSET s : V # s => V \notin Bad
      <3> HIDE DEF Bad
      <3> QED  BY <1>2, <2>0, SmallestSubset
    <2>2. s \in SUBSET S /\ IsFiniteSet(s)
      BY FS_Subset
    <2>3. s # {}
      <3>1. SumOver(f, {}) = 0 /\ SumOver(h, {}) = 0
        BY SumEmpty
      <3>2. SumOver(h, {}) = SumOver(f, {}) * k
        BY <3>1
      <3>3. SumOver(h, s) # SumOver(f, s) * k
        OBVIOUS
      <3> QED  BY <3>2, <3>3
    <2> DEFINE p == Pick(s)
               t == s \ {p}
    <2>4. /\ p \in s
          /\ SumOver(f, s) = f[p] + SumOver(f, t)
          /\ SumOver(h, s) = h[p] + SumOver(h, t)
      BY <2>2, <2>3, SumUnfolds
    <2>5. SumOver(h, t) = SumOver(f, t) * k
      BY <2>1, <2>2, <2>4
    <2>6. IsFiniteSet(t) /\ (\A x \in t : f[x] \in Int)
      BY <2>2, FS_RemoveElement
    <2>7. SumOver(f, t) \in Int
      <3> HIDE DEF t
      <3> QED  BY <2>6, SumInt
    <2>8. f[p] \in Int /\ h[p] = f[p] * k
      BY <2>2, <2>4
    <2>9. \A a, b \in Int : a * k + b * k = (a + b) * k
      OBVIOUS
    <2> HIDE DEF p, t
    <2>10. SumOver(h, s) = SumOver(f, s) * k
      BY <2>4, <2>5, <2>7, <2>8, <2>9
    <2> QED  BY <2>10
  <1> QED  BY <1>1, <1>2

\* A set can be summed over in two parts.
LEMMA SumSplit ==
  ASSUME NEW f, NEW S, IsFiniteSet(S), \A x \in S : f[x] \in Int, NEW A \in SUBSET S
  PROVE  SumOver(f, S) = SumOver(f, A) + SumOver(f, S \ A)
  <1> DEFINE Bad == {s \in SUBSET S : SumOver(f, s) # SumOver(f, s \cap A) + SumOver(f, s \ A)}
  <1>0. S \cap A = A
    OBVIOUS
  <1>1. CASE Bad = {}
    BY <1>0, <1>1
  <1>2. CASE Bad # {}
    <2>0. Bad \in SUBSET (SUBSET S)
      OBVIOUS
    <2>1. PICK s \in Bad : \A V \in SUBSET s : V # s => V \notin Bad
      <3> HIDE DEF Bad
      <3> QED  BY <1>2, <2>0, SmallestSubset
    <2>2. s \in SUBSET S /\ IsFiniteSet(s) /\ \A x \in s : f[x] \in Int
      BY FS_Subset
    <2>3. SumOver(f, s) # SumOver(f, s \cap A) + SumOver(f, s \ A)
      OBVIOUS
    <2>4. s # {}
      <3>1. SumOver(f, {}) = SumOver(f, {}) + SumOver(f, {})
        BY SumEmpty
      <3>2. {} \cap A = {} /\ {} \ A = {}
        OBVIOUS
      <3> QED  BY <2>3, <3>1, <3>2
    <2>5. PICK p \in s : TRUE
      BY <2>4
    <2>6. SumOver(f, s) = f[p] + SumOver(f, s \ {p}) /\ f[p] \in Int
      BY <2>2, <2>5, SumRemove
    <2>7. SumOver(f, s \ {p}) = SumOver(f, (s \ {p}) \cap A) + SumOver(f, (s \ {p}) \ A)
      <3>1. s \ {p} \in SUBSET s /\ s \ {p} # s /\ s \ {p} \in SUBSET S
        BY <2>2, <2>5
      <3> QED  BY <3>1, <2>1
    <2> HIDE DEF Bad
    <2>8. /\ IsFiniteSet(s \cap A) /\ IsFiniteSet(s \ A)
          /\ IsFiniteSet((s \ {p}) \cap A) /\ IsFiniteSet((s \ {p}) \ A)
      <3>1. s \cap A \subseteq s /\ s \ A \subseteq s
            /\ (s \ {p}) \cap A \subseteq s /\ (s \ {p}) \ A \subseteq s
        OBVIOUS
      <3> QED  BY <3>1, <2>2, FS_Subset
    <2>9. /\ SumOver(f, s \cap A) \in Int /\ SumOver(f, s \ A) \in Int
          /\ SumOver(f, (s \ {p}) \cap A) \in Int /\ SumOver(f, (s \ {p}) \ A) \in Int
      <3>1. /\ \A x \in s \cap A : f[x] \in Int
            /\ \A x \in s \ A : f[x] \in Int
            /\ \A x \in (s \ {p}) \cap A : f[x] \in Int
            /\ \A x \in (s \ {p}) \ A : f[x] \in Int
        BY <2>2
      <3> QED  BY <3>1, <2>8, SumInt
    <2>10. CASE p \in A
      <3>1. (s \ {p}) \cap A = (s \cap A) \ {p} /\ (s \ {p}) \ A = s \ A /\ p \in s \cap A
        BY <2>5, <2>10
      <3>2. SumOver(f, s \cap A) = f[p] + SumOver(f, (s \cap A) \ {p})
        <4>1. \A x \in s \cap A : f[x] \in Int
          BY <2>2
        <4> QED  BY <4>1, <3>1, <2>8, SumRemove
      <3>3. /\ SumOver(f, s \ {p}) = SumOver(f, (s \cap A) \ {p}) + SumOver(f, s \ A)
            /\ SumOver(f, (s \cap A) \ {p}) \in Int
        BY <3>1, <2>7, <2>9, Zenon
      <3> QED  BY <3>2, <3>3, <2>3, <2>6, <2>9
    <2>11. CASE p \notin A
      <3>1. (s \ {p}) \ A = (s \ A) \ {p} /\ (s \ {p}) \cap A = s \cap A /\ p \in s \ A
        BY <2>5, <2>11
      <3>2. SumOver(f, s \ A) = f[p] + SumOver(f, (s \ A) \ {p})
        <4>1. \A x \in s \ A : f[x] \in Int
          BY <2>2
        <4> QED  BY <4>1, <3>1, <2>8, SumRemove
      <3>3. /\ SumOver(f, s \ {p}) = SumOver(f, s \cap A) + SumOver(f, (s \ A) \ {p})
            /\ SumOver(f, (s \ A) \ {p}) \in Int
        BY <3>1, <2>7, <2>9, Zenon
      <3> QED  BY <3>2, <3>3, <2>3, <2>6, <2>9
    <2> QED  BY <2>10, <2>11
  <1> QED  BY <1>1, <1>2

\* Naturals sum to no less over a larger set.
LEMMA SumSubset ==
  ASSUME NEW f, NEW S, IsFiniteSet(S), \A x \in S : f[x] \in Nat, NEW T \in SUBSET S
  PROVE  SumOver(f, T) <= SumOver(f, S)
  <1>1. IsFiniteSet(T) /\ IsFiniteSet(S \ T)
    <2>1. T \subseteq S /\ S \ T \subseteq S
      OBVIOUS
    <2> QED  BY <2>1, FS_Subset
  <1>2. (\A x \in S : f[x] \in Int) /\ (\A x \in T : f[x] \in Nat) /\ (\A x \in S \ T : f[x] \in Nat)
    OBVIOUS
  <1>3. SumOver(f, S) = SumOver(f, T) + SumOver(f, S \ T)
    BY <1>2, SumSplit
  <1>4. SumOver(f, T) \in Nat
    BY <1>1, <1>2, SumNat
  <1>5. SumOver(f, S \ T) \in Nat
    BY <1>1, <1>2, SumNat
  <1> QED  BY <1>3, <1>4, <1>5

\* A sum with one summand that is not 0.
LEMMA SumSingle ==
  ASSUME NEW f, NEW S, IsFiniteSet(S), NEW x \in S, f[x] \in Int, \A y \in S \ {x} : f[y] = 0
  PROVE  SumOver(f, S) = f[x]
  <1>1. \A y \in S : f[y] \in Int
    OBVIOUS
  <1>2. SumOver(f, S) = f[x] + SumOver(f, S \ {x})
    BY <1>1, SumRemove
  <1>3. SumOver(f, S \ {x}) = 0
    BY FS_RemoveElement, SumZero
  <1> QED  BY <1>2, <1>3

\* A sum of ones counts the set.
LEMMA SumOnes ==
  ASSUME NEW f, NEW S, IsFiniteSet(S), \A x \in S : f[x] = 1
  PROVE  SumOver(f, S) = Cardinality(S)
  <1> DEFINE Bad == {s \in SUBSET S : SumOver(f, s) # Cardinality(s)}
  <1>1. CASE Bad = {}
    BY <1>1
  <1>2. CASE Bad # {}
    <2>0. Bad \in SUBSET (SUBSET S)
      OBVIOUS
    <2>1. PICK s \in Bad : \A V \in SUBSET s : V # s => V \notin Bad
      <3> HIDE DEF Bad
      <3> QED  BY <1>2, <2>0, SmallestSubset
    <2>2. s \in SUBSET S /\ IsFiniteSet(s) /\ \A x \in s : f[x] \in Int
      BY FS_Subset
    <2>3. s # {}
      BY SumEmpty, FS_EmptySet
    <2>4. PICK p \in s : TRUE
      BY <2>3
    <2>5. SumOver(f, s) = f[p] + SumOver(f, s \ {p})
      BY <2>2, <2>4, SumRemove
    <2>6. SumOver(f, s \ {p}) = Cardinality(s \ {p})
      BY <2>1, <2>2, <2>4
    <2>7. Cardinality(s \ {p}) = Cardinality(s) - 1 /\ Cardinality(s) \in Nat
      BY <2>2, <2>4, FS_RemoveElement, FS_CardinalityType
    <2>8. f[p] = 1
      BY <2>2, <2>4
    <2>9. SumOver(f, s) = Cardinality(s)
      BY <2>5, <2>6, <2>7, <2>8
    <2> QED  BY <2>9
  <1> QED  BY <1>1, <1>2

\* The same summands under other names: a sum does not depend on the names.
LEMMA SumReindex ==
  ASSUME NEW f, NEW g, NEW h, NEW T, IsFiniteSet(T),
         \A x \in T : g[x] \in Int /\ g[x] = f[h[x]],
         \A x, y \in T : h[x] = h[y] => x = y
  PROVE  SumOver(g, T) = SumOver(f, {h[x] : x \in T})
  <1> DEFINE img(s) == {h[x] : x \in s}
             Bad == {s \in SUBSET T : SumOver(g, s) # SumOver(f, img(s))}
  <1>1. CASE Bad = {}
    BY <1>1
  <1>2. CASE Bad # {}
    <2>0. Bad \in SUBSET (SUBSET T)
      OBVIOUS
    <2>1. PICK s \in Bad : \A V \in SUBSET s : V # s => V \notin Bad
      <3> HIDE DEF Bad
      <3> QED  BY <1>2, <2>0, SmallestSubset
    <2>2. s \in SUBSET T /\ IsFiniteSet(s) /\ \A x \in s : g[x] \in Int
      BY FS_Subset
    <2>3. s # {}
      <3>1. img({}) = {}
        OBVIOUS
      <3>2. SumOver(g, {}) = SumOver(f, {})
        BY SumEmpty
      <3> QED  BY <3>1, <3>2
    <2>4. PICK p \in s : TRUE
      BY <2>3
    <2>5. SumOver(g, s) = g[p] + SumOver(g, s \ {p})
      BY <2>2, <2>4, SumRemove
    <2>6. SumOver(g, s \ {p}) = SumOver(f, img(s \ {p}))
      BY <2>1, <2>2, <2>4
    <2>7. img(s \ {p}) = img(s) \ {h[p]} /\ h[p] \in img(s)
      BY <2>2, <2>4
    <2>8. IsFiniteSet(img(s))
      <3> DEFINE k == [x \in s |-> h[x]]
      <3>1. k \in Surjection(s, img(s))
        BY DEF Surjection
      <3> QED  BY <3>1, <2>2, FS_Surjection
    <2>9. \A y \in img(s) : f[y] \in Int
      BY <2>2
    <2> HIDE DEF img
    <2>10. SumOver(f, img(s)) = f[h[p]] + SumOver(f, img(s) \ {h[p]})
      BY <2>7, <2>8, <2>9, SumRemove
    <2>11. g[p] = f[h[p]]
      BY <2>2, <2>4
    <2>12. SumOver(g, s) = SumOver(f, img(s))
      BY <2>5, <2>6, <2>7, <2>10, <2>11
    <2> QED  BY <2>12
  <1> QED  BY <1>1, <1>2

\* A table over S and T, its columns col, and what its rows and its columns add up to.
Table(F, col, S, T, row, across) ==
  /\ \A x \in S : \A y \in T : F[x][y] \in Int /\ col[y][x] = F[x][y]
  /\ \A x \in S : row[x] = SumOver(F[x], T)
  /\ \A y \in T : across[y] = SumOver(col[y], S)

\* A table summed by rows or by columns gives the same.
LEMMA SumSwap ==
  ASSUME NEW F, NEW col, NEW S, IsFiniteSet(S), NEW T, IsFiniteSet(T),
         NEW row, NEW across, Table(F, col, S, T, row, across)
  PROVE  SumOver(row, S) = SumOver(across, T)
  <1> USE DEF Table
  <1> DEFINE cols(s) == [y \in T |-> SumOver(col[y], s)]
             Bad == {s \in SUBSET S : SumOver(row, s) # SumOver(cols(s), T)}
  <1>0. \A x \in S : row[x] \in Int
    BY SumInt
  <1>1. CASE Bad = {}
    <2>1. SumOver(row, S) = SumOver(cols(S), T)
      BY <1>1
    <2>2. \A y \in T : cols(S)[y] = across[y]
      OBVIOUS
    <2> DEFINE whole == cols(S)
    <2>3. \A y \in T : whole[y] = across[y]
      BY <2>2
    <2> HIDE DEF whole
    <2>4. SumOver(whole, T) = SumOver(across, T)
      BY <2>3, SumSame
    <2> QED  BY <2>1, <2>4 DEF whole
  <1>2. CASE Bad # {}
    <2>0. Bad \in SUBSET (SUBSET S)
      OBVIOUS
    <2>1. PICK s \in Bad : \A V \in SUBSET s : V # s => V \notin Bad
      <3> HIDE DEF Bad
      <3> QED  BY <1>2, <2>0, SmallestSubset
    <2>2. s \in SUBSET S /\ IsFiniteSet(s) /\ \A x \in s : row[x] \in Int
      BY <1>0, FS_Subset
    <2>3. s # {}
      <3>1. \A y \in T : cols({})[y] = 0
        BY SumEmpty
      <3>2. SumOver(cols({}), T) = 0
        <4> HIDE DEF cols
        <4> QED  BY <3>1, SumZero
      <3>3. SumOver(row, {}) = 0
        BY SumEmpty
      <3> QED  BY <3>2, <3>3
    <2>4. PICK p \in s : TRUE
      BY <2>3
    <2>5. SumOver(row, s) = row[p] + SumOver(row, s \ {p})
      BY <2>2, <2>4, SumRemove
    <2>6. SumOver(row, s \ {p}) = SumOver(cols(s \ {p}), T)
      BY <2>1, <2>2, <2>4
    <2>7. ASSUME NEW y \in T
          PROVE  /\ F[p][y] \in Int /\ cols(s \ {p})[y] \in Int
                 /\ cols(s)[y] = F[p][y] + cols(s \ {p})[y]
      <3>1. /\ \A x \in s : col[y][x] \in Int
            /\ \A x \in s \ {p} : col[y][x] \in Int
            /\ col[y][p] = F[p][y]
        BY <2>2
      <3>2. IsFiniteSet(s \ {p})
        BY <2>2, FS_RemoveElement
      <3>3. cols(s)[y] = SumOver(col[y], s) /\ cols(s \ {p})[y] = SumOver(col[y], s \ {p})
        OBVIOUS
      <3> HIDE DEF cols
      <3>4. SumOver(col[y], s) = col[y][p] + SumOver(col[y], s \ {p})
        BY <2>2, <2>4, <3>1, SumRemove
      <3>5. SumOver(col[y], s \ {p}) \in Int
        BY <3>1, <3>2, SumInt
      <3>6. F[p][y] \in Int
        BY <2>2, <2>4
      <3> QED  BY <3>1, <3>3, <3>4, <3>5, <3>6
    <2>8. SumOver(cols(s), T) = SumOver(F[p], T) + SumOver(cols(s \ {p}), T)
      <3> DEFINE after == cols(s)
                 before == cols(s \ {p})
                 added == F[p]
      <3>1. \A y \in T : added[y] \in Int /\ before[y] \in Int /\ after[y] = added[y] + before[y]
        BY <2>7
      <3> HIDE DEF after, before, added
      <3>2. SumOver(after, T) = SumOver(added, T) + SumOver(before, T)
        BY <3>1, SumPlus
      <3> QED  BY <3>2 DEF after, before, added
    <2>9. row[p] = SumOver(F[p], T)
      BY <2>2
    <2>10. SumOver(row, s) = SumOver(cols(s), T)
      BY <2>5, <2>6, <2>8, <2>9
    <2> QED  BY <2>10
  <1> QED  BY <1>1, <1>2

-----------------------------------------------------------------------------
(* Division, as the contracts round it. *)

\* A value rounded down, scaled back up, is not above what was divided, and
\* less than one divisor below it.
LEMMA RoundedDown ==
  ASSUME NEW a \in Nat, NEW d \in Nat \ {0}
  PROVE  a \div d \in Nat /\ (a \div d) * d <= a /\ a < (a \div d + 1) * d
  OBVIOUS

\* A factor common to both sides of a comparison can be dropped.
LEMMA FactorDropped ==
  ASSUME NEW a \in Nat, NEW b \in Nat, NEW d \in Nat \ {0}
  PROVE  /\ a * d <= b * d => a <= b
         /\ a * d < b * d => a < b
  <1>1. ASSUME b < a  PROVE b * d < a * d
    <2>1. PICK e \in Nat \ {0} : a = b + e
      <3>1. a - b \in Nat \ {0} /\ a = b + (a - b)
        BY <1>1
      <3> QED  BY <3>1
    <2>2. a * d = b * d + e * d /\ e * d > 0 /\ b * d \in Nat
      BY <2>1
    <2> QED  BY <2>2
  <1>2. a * d \in Nat /\ b * d \in Nat
    OBVIOUS
  <1>3. a = b => a * d = b * d
    OBVIOUS
  <1> QED  BY <1>1, <1>2, <1>3

-----------------------------------------------------------------------------
(* Lists. *)
\* The how-manieth of the kept positions k is.
RankIn(kept, k) == Cardinality({i \in kept : i <= k})

\* The j-th kept position exists and is the only one of rank j.
LEMMA Ranked ==
  ASSUME NEW n \in Nat, NEW kept \in SUBSET (1 .. n)
  PROVE  /\ IsFiniteSet(kept) /\ Cardinality(kept) \in Nat
         /\ \A k \in kept : RankIn(kept, k) \in 1 .. Cardinality(kept)
         /\ \A j \in 1 .. Cardinality(kept) : \E k \in kept : RankIn(kept, k) = j
         /\ \A k, l \in kept :
               RankIn(kept, k) = RankIn(kept, l) => k = l
  <1> DEFINE upto(k) == {i \in kept : i <= k}
             rank == [k \in kept |-> Cardinality(upto(k))]
             N == Cardinality(kept)
  <1>1. IsFiniteSet(kept) /\ N \in Nat
    <2>1. IsFiniteSet(1 .. n)
      BY FS_Interval
    <2> QED  BY <2>1, FS_Subset, FS_CardinalityType
  <1>2. ASSUME NEW k \in kept
        PROVE  IsFiniteSet(upto(k)) /\ rank[k] \in 1 .. N
    <2>1. upto(k) \in SUBSET kept /\ k \in upto(k)
      OBVIOUS
    <2>2. IsFiniteSet(upto(k)) /\ Cardinality(upto(k)) <= N /\ Cardinality(upto(k)) \in Nat
      BY <1>1, <2>1, FS_Subset, FS_CardinalityType
    <2>3. Cardinality(upto(k)) # 0
      BY <2>1, <2>2, FS_EmptySet
    <2> QED  BY <1>1, <2>2, <2>3
  <1>3. ASSUME NEW k \in kept, NEW l \in kept, k < l  PROVE rank[k] # rank[l]
    <2>0. \A i \in kept : i \in Int
      OBVIOUS
    <2>1. upto(k) \in SUBSET upto(l) /\ l \in upto(l) /\ l \notin upto(k)
      <3>1. \A i \in kept : i <= k => i <= l
        BY <1>3, <2>0
      <3>2. l <= l /\ ~ (l <= k)
        BY <1>3, <2>0
      <3> QED  BY <3>1, <3>2, Zenon
    <2>2. Cardinality(upto(k)) # Cardinality(upto(l))
      BY <1>2, <2>1, FS_Subset
    <2> QED  BY <2>2
  <1>4. \A k, l \in kept : rank[k] = rank[l] => k = l
    <2> SUFFICES ASSUME NEW k \in kept, NEW l \in kept, k # l  PROVE rank[k] # rank[l]
      OBVIOUS
    <2>1. k < l \/ l < k
      OBVIOUS
    <2> QED  BY <1>3, <2>1
  <1>5. rank \in Injection(kept, 1 .. N)
    BY <1>2, <1>4 DEF Injection, IsInjective
  <1>6. IsFiniteSet(1 .. N) /\ Cardinality(1 .. N) = N
    BY <1>1, FS_Interval
  <1>7. rank \in Surjection(kept, 1 .. N)
    BY <1>5, <1>6, FS_Injection
  <1>8. \A j \in 1 .. N : \E k \in kept : rank[k] = j
    BY <1>7 DEF Surjection
  <1> QED  BY <1>1, <1>2, <1>4, <1>8 DEF RankIn

\* What Without keeps, and that it repeats nothing the sequence did not.
LEMMA WithoutFacts ==
  ASSUME NEW S, NEW seq \in Seq(S), NEW e
  PROVE  /\ Without(seq, e) \in Seq(S)
         /\ Range(Without(seq, e)) = Range(seq) \ {e}
         /\ IsInjective(seq) => IsInjective(Without(seq, e))
  <1> DEFINE kept == {k \in DOMAIN seq : seq[k] # e}
             rank(k) == RankIn(kept, k)
             nth(j) == CHOOSE k \in kept : rank(k) = j
             N == Cardinality(kept)
             W == [j \in 1 .. N |-> seq[nth(j)]]
  <1>1. DOMAIN seq = 1 .. Len(seq) /\ Len(seq) \in Nat /\ kept \in SUBSET (1 .. Len(seq))
    OBVIOUS
  <1>2. Without(seq, e) = W
    BY DEF Without, Picked, RankIn
  <1>3. /\ N \in Nat
        /\ \A k \in kept : rank(k) \in 1 .. N
        /\ \A j \in 1 .. N : \E k \in kept : rank(k) = j
        /\ \A k, l \in kept : rank(k) = rank(l) => k = l
    <2>1. kept \in SUBSET (1 .. Len(seq)) /\ Len(seq) \in Nat
      BY <1>1
    <2> HIDE DEF kept
    <2> QED  BY <2>1, Ranked
  <1>4. \A j \in 1 .. N : nth(j) \in kept /\ rank(nth(j)) = j
    BY <1>3
  <1> HIDE DEF rank, N, nth
  <1>5. \A k \in kept : rank(k) \in 1 .. N /\ nth(rank(k)) = k
    BY <1>3, <1>4
  <1>6. W \in Seq(S)
    <2>1. \A j \in 1 .. N : W[j] \in S
      BY <1>1, <1>4
    <2>2. W \in [1 .. N -> S]
      BY <2>1
    <2> QED  BY <1>3, <2>2, SeqDef
  <1>7. Range(W) = Range(seq) \ {e}
    <2>1. \A x \in Range(W) : x \in Range(seq) \ {e}
      BY <1>4 DEF Range
    <2>2. ASSUME NEW x \in Range(seq) \ {e}  PROVE x \in Range(W)
      <3>1. PICK k \in kept : seq[k] = x
        BY DEF Range
      <3>2. W[rank(k)] = x /\ rank(k) \in DOMAIN W
        BY <1>5, <3>1
      <3> QED  BY <3>2 DEF Range
    <2> QED  BY <2>1, <2>2
  <1>8. IsInjective(seq) => IsInjective(W)
    <2> SUFFICES ASSUME IsInjective(seq), NEW j \in 1 .. N, NEW l \in 1 .. N, W[j] = W[l]  PROVE j = l
      BY DEF IsInjective
    <2>1. seq[nth(j)] = seq[nth(l)] /\ nth(j) \in DOMAIN seq /\ nth(l) \in DOMAIN seq
      BY <1>4
    <2>2. nth(j) = nth(l)
      BY <2>1 DEF IsInjective
    <2> QED  BY <1>4, <2>2
  <1> QED  BY <1>2, <1>6, <1>7, <1>8
===============================================================================
