-------------------------------- MODULE Sums --------------------------------
(***************************************************************************)
(* What the sums of the models (SumFunctionOnSet, SumFunction) are, for    *)
(* any function and any finite set.  The library defines a sum as a fold,  *)
(* a CHOOSE of a function over the subsets that takes one element at a     *)
(* time; here the function is shown to exist, the sum to follow from the   *)
(* sum of a smaller set, and the arithmetic of sums from that.             *)
(*                                                                         *)
(* The greatest of finitely many numbers (Max) is likewise shown to exist. *)
(*                                                                         *)
(* Induction is on the subsets of a finite set: among those for which a    *)
(* claim fails one would be minimal, and the claim holds below it.         *)
(***************************************************************************)
EXTENDS FiniteSetsExt, FiniteSetTheorems, TLAPS

\* The element of a set that the fold takes first.
Pick(s) == CHOOSE x \in s : TRUE

\* g gives, of every subset of S, the sum of f.
Adds(g, f, S) ==
  g = [s \in SUBSET S |-> IF s = {} THEN 0 ELSE f[Pick(s)] + g[s \ {Pick(s)}]]

\* The sum is read off the function the fold chooses.
LEMMA SumIsFold ==
  ASSUME NEW f, NEW S
  PROVE  SumFunctionOnSet(f, S) = (CHOOSE g : Adds(g, f, S))[S]
BY DEF SumFunctionOnSet, FoldFunctionOnSet, MapThenFoldSet, Adds, Pick

\* Induction: among subsets of a finite set one is minimal.
LEMMA SmallestPart ==
  ASSUME NEW S, IsFiniteSet(S), NEW F \in SUBSET SUBSET S, F # {}
  PROVE  \E T \in F : \A U \in F : U \subseteq T => U = T
<1>1. IsWellFoundedOn(StrictSubsetOrdering(S), SUBSET S)
  BY FS_StrictSubsetOrderingWellFounded, FS_FiniteSubsetsOfFinite
<1>2. PICK T \in F : \A U \in F : <<U, T>> \notin StrictSubsetOrdering(S)
  BY <1>1, WFMin
<1> QED
  BY <1>2 DEF StrictSubsetOrdering

\* What is taken is an element.
LEMMA PickPicks == ASSUME NEW s, s # {} PROVE Pick(s) \in s
BY DEF Pick

\* Whatever sets they are defined over, two such functions agree.
LEMMA AddsAgree ==
  ASSUME NEW f, NEW S, NEW T, IsFiniteSet(S), NEW g, NEW h, Adds(g, f, S), Adds(h, f, T),
         NEW u, u \subseteq S, u \subseteq T
  PROVE  g[u] = h[u]
<1> DEFINE F == {s \in SUBSET (S \cap T) : g[s] # h[s]}
<1>1. SUFFICES ASSUME F # {} PROVE FALSE
  OBVIOUS
<1>2. F \in SUBSET SUBSET S
  OBVIOUS
<1>3. PICK s \in F : \A v \in F : v \subseteq s => v = s
  <2> HIDE DEF F
  <2> QED BY <1>1, <1>2, SmallestPart
<1>4. g[s] = (IF s = {} THEN 0 ELSE f[Pick(s)] + g[s \ {Pick(s)}])
  BY DEF Adds
<1>5. h[s] = (IF s = {} THEN 0 ELSE f[Pick(s)] + h[s \ {Pick(s)}])
  BY DEF Adds
<1>6. s # {}
  BY <1>4, <1>5
<1>7. g[s \ {Pick(s)}] = h[s \ {Pick(s)}]
  BY <1>3, <1>6, PickPicks
<1> QED
  BY <1>4, <1>5, <1>6, <1>7

\* There is such a function: it is built from those of the smaller sets.
LEMMA AddsExists ==
  ASSUME NEW f, NEW S, IsFiniteSet(S)
  PROVE  \E g : Adds(g, f, S)
<1> DEFINE F == {s \in SUBSET S : ~\E g : Adds(g, f, s)}
           H(u) == CHOOSE g : Adds(g, f, u)
<1>1. SUFFICES ASSUME F # {} PROVE FALSE
  OBVIOUS
<1>2. F \in SUBSET SUBSET S
  OBVIOUS
<1>3. PICK T \in F : \A u \in F : u \subseteq T => u = T
  <2> HIDE DEF F
  <2> QED BY <1>1, <1>2, SmallestPart
<1>4. \A u \in SUBSET T : u # T => Adds(H(u), f, u)
  <2> SUFFICES ASSUME NEW u \in SUBSET T, u # T PROVE Adds(H(u), f, u)
    OBVIOUS
  <2>1. \E g : Adds(g, f, u)
    BY <1>3
  <2> QED
    BY <2>1
<1>5. \A u \in SUBSET T : IsFiniteSet(u)
  BY FS_Subset
<1> DEFINE Value(s) == IF s = {} THEN 0
                       ELSE f[Pick(s)] + H(s \ {Pick(s)})[s \ {Pick(s)}]
           G == [s \in SUBSET T |-> Value(s)]
<1>6. \A u \in SUBSET T : u # T => G[u] = H(u)[u]
  <2> SUFFICES ASSUME NEW u \in SUBSET T, u # T PROVE Value(u) = H(u)[u]
    OBVIOUS
  <2> DEFINE r == u \ {Pick(u)}
  <2>1. Adds(H(u), f, u) /\ IsFiniteSet(u)
    BY <1>4, <1>5
  <2> HIDE DEF H
  <2>2. H(u)[u] = IF u = {} THEN 0 ELSE f[Pick(u)] + H(u)[r]
    BY <2>1 DEF Adds
  <2>3. CASE u = {}
    BY <2>2, <2>3
  <2>4. CASE u # {}
    <3>1. r # T /\ r \in SUBSET T
      BY <2>4, PickPicks
    <3>2. Adds(H(r), f, r) /\ IsFiniteSet(r)
      BY <1>4, <1>5, <3>1
    <3> HIDE DEF r
    <3>3. r \subseteq u
      BY DEF r
    <3>4. H(r)[r] = H(u)[r]
      BY <2>1, <3>2, <3>3, AddsAgree
    <3> QED
      BY <2>2, <2>4, <3>4 DEF r
  <2> QED
    BY <2>3, <2>4
<1>7. ASSUME NEW s \in SUBSET T
      PROVE  Value(s) = IF s = {} THEN 0 ELSE f[Pick(s)] + G[s \ {Pick(s)}]
  <2>1. CASE s # {}
    <3>1. s \ {Pick(s)} \in SUBSET T /\ s \ {Pick(s)} # T
      BY <2>1, PickPicks
    <3> HIDE DEF G, H
    <3> QED
      BY <1>6, <2>1, <3>1
  <2> QED
    BY <2>1
<1>8. Adds(G, f, T)
  <2> HIDE DEF Value
  <2> SUFFICES G = [s \in SUBSET T |-> IF s = {} THEN 0 ELSE f[Pick(s)] + G[s \ {Pick(s)}]]
    BY DEF Adds
  <2>1. ASSUME NEW s \in SUBSET T
        PROVE  G[s] = IF s = {} THEN 0 ELSE f[Pick(s)] + G[s \ {Pick(s)}]
    BY <1>7
  <2> QED
    BY <2>1
<1> QED
  BY <1>3, <1>8

\* Nothing adds up to zero.
LEMMA SumEmpty == ASSUME NEW f PROVE SumFunctionOnSet(f, {}) = 0
<1>1. PICK g : Adds(g, f, {})
  BY AddsExists, FS_EmptySet
<1> DEFINE h == CHOOSE x : Adds(x, f, {})
<1>2. Adds(h, f, {})
  BY <1>1
<1>3. h[{}] = 0
  <2> HIDE DEF h
  <2> QED BY <1>2 DEF Adds
<1> QED
  BY <1>3, SumIsFold

\* A sum is what is taken first and the sum of the rest.
LEMMA SumPick ==
  ASSUME NEW f, NEW S, IsFiniteSet(S), S # {}
  PROVE  SumFunctionOnSet(f, S) = f[Pick(S)] + SumFunctionOnSet(f, S \ {Pick(S)})
<1> DEFINE r == S \ {Pick(S)}
           g == CHOOSE x : Adds(x, f, S)
           h == CHOOSE x : Adds(x, f, r)
<1>1. IsFiniteSet(r)
  BY FS_Subset
<1>2. Adds(g, f, S) /\ Adds(h, f, r)
  BY <1>1, AddsExists
<1>3. SumFunctionOnSet(f, S) = g[S] /\ SumFunctionOnSet(f, r) = h[r]
  BY SumIsFold
<1> HIDE DEF g, h
<1>4. g[r] = h[r]
  BY <1>2, AddsAgree
<1>5. g[S] = f[Pick(S)] + g[r]
  BY <1>2 DEF Adds
<1> QED
  BY <1>3, <1>4, <1>5

-----------------------------------------------------------------------------

\* Integers add up to an integer, and what is not negative to no less than zero.
LEMMA SumType ==
  ASSUME NEW S, IsFiniteSet(S), NEW f, \A x \in S : f[x] \in Int
  PROVE  /\ SumFunctionOnSet(f, S) \in Int
         /\ (\A x \in S : f[x] >= 0) => SumFunctionOnSet(f, S) >= 0
<1> DEFINE Typed(s) == /\ SumFunctionOnSet(f, s) \in Int
                       /\ (\A x \in s : f[x] >= 0) => SumFunctionOnSet(f, s) >= 0
           F == {s \in SUBSET S : ~Typed(s)}
<1>1. SUFFICES ASSUME F # {} PROVE FALSE
  OBVIOUS
<1>2. F \in SUBSET SUBSET S
  OBVIOUS
<1>3. PICK s \in F : \A u \in F : u \subseteq s => u = s
  <2> HIDE DEF F
  <2> QED BY <1>1, <1>2, SmallestPart
<1>4. s # {}
  <2>1. SumFunctionOnSet(f, {}) = 0
    BY SumEmpty
  <2>2. Typed({})
    BY <2>1
  <2> QED
    BY <1>3, <2>2
<1>5. Pick(s) \in s
  BY <1>4, PickPicks
<1>6. Typed(s \ {Pick(s)})
  BY <1>3, <1>5
<1>7. SumFunctionOnSet(f, s) = f[Pick(s)] + SumFunctionOnSet(f, s \ {Pick(s)})
  BY <1>4, SumPick, FS_Subset
<1>8. Typed(s)
  BY <1>5, <1>6, <1>7
<1> QED
  BY <1>3, <1>8

\* Any element can be taken first.
LEMMA SumRemove ==
  ASSUME NEW S, IsFiniteSet(S), NEW f, \A x \in S : f[x] \in Int, NEW y \in S
  PROVE  SumFunctionOnSet(f, S) = f[y] + SumFunctionOnSet(f, S \ {y})
<1> DEFINE Splits(s) == \A x \in s :
                 SumFunctionOnSet(f, s) = f[x] + SumFunctionOnSet(f, s \ {x})
           F == {s \in SUBSET S : ~Splits(s)}
<1>1. SUFFICES ASSUME F # {} PROVE FALSE
  OBVIOUS
<1>2. F \in SUBSET SUBSET S
  OBVIOUS
<1>3. PICK s \in F : \A u \in F : u \subseteq s => u = s
  <2> HIDE DEF F
  <2> QED BY <1>1, <1>2, SmallestPart
<1>4. PICK x \in s : SumFunctionOnSet(f, s) # f[x] + SumFunctionOnSet(f, s \ {x})
  BY <1>3
<1> DEFINE p == Pick(s)
<1>5. p \in s
  BY <1>4, PickPicks
<1>6. SumFunctionOnSet(f, s) = f[p] + SumFunctionOnSet(f, s \ {p})
  BY <1>4, SumPick, FS_Subset
<1> HIDE DEF p
<1>7. p # x
  BY <1>4, <1>6
<1>8. Splits(s \ {p}) /\ Splits(s \ {x})
  BY <1>3, <1>4, <1>5
<1>9. /\ SumFunctionOnSet(f, s \ {p}) = f[x] + SumFunctionOnSet(f, s \ {p, x})
      /\ SumFunctionOnSet(f, s \ {x}) = f[p] + SumFunctionOnSet(f, s \ {p, x})
  <2>1. (s \ {p}) \ {x} = s \ {p, x} /\ (s \ {x}) \ {p} = s \ {p, x}
    OBVIOUS
  <2> QED
    BY <1>4, <1>5, <1>7, <1>8, <2>1
<1>10. /\ f[x] \in Int /\ f[p] \in Int /\ SumFunctionOnSet(f, s \ {p, x}) \in Int
  BY <1>4, <1>5, SumType, FS_Subset
<1> QED
  BY <1>4, <1>6, <1>9, <1>10

\* An element more adds what the function gives it.
LEMMA SumAdd ==
  ASSUME NEW S, IsFiniteSet(S), NEW f, NEW y, y \notin S,
         \A x \in S \cup {y} : f[x] \in Int
  PROVE  SumFunctionOnSet(f, S \cup {y}) = f[y] + SumFunctionOnSet(f, S)
<1>1. IsFiniteSet(S \cup {y})
  BY FS_AddElement
<1>2. (S \cup {y}) \ {y} = S
  OBVIOUS
<1> QED
  BY <1>1, <1>2, SumRemove

\* Functions that agree on the set have one sum.
LEMMA SumAgree ==
  ASSUME NEW S, IsFiniteSet(S), NEW f, NEW g, \A x \in S : f[x] = g[x]
  PROVE  SumFunctionOnSet(f, S) = SumFunctionOnSet(g, S)
<1> DEFINE F == {s \in SUBSET S : SumFunctionOnSet(f, s) # SumFunctionOnSet(g, s)}
<1>1. SUFFICES ASSUME F # {} PROVE FALSE
  OBVIOUS
<1>2. F \in SUBSET SUBSET S
  OBVIOUS
<1>3. PICK s \in F : \A u \in F : u \subseteq s => u = s
  <2> HIDE DEF F
  <2> QED BY <1>1, <1>2, SmallestPart
<1>4. s # {}
  BY <1>3, SumEmpty
<1>5. Pick(s) \in s
  BY <1>4, PickPicks
<1>6. SumFunctionOnSet(f, s \ {Pick(s)}) = SumFunctionOnSet(g, s \ {Pick(s)})
  BY <1>3, <1>5
<1>7. /\ SumFunctionOnSet(f, s) = f[Pick(s)] + SumFunctionOnSet(f, s \ {Pick(s)})
      /\ SumFunctionOnSet(g, s) = g[Pick(s)] + SumFunctionOnSet(g, s \ {Pick(s)})
  BY <1>4, SumPick, FS_Subset
<1> QED
  BY <1>3, <1>5, <1>6, <1>7

\* The sum changes by what one term changes.
LEMMA SumExcept ==
  ASSUME NEW S, IsFiniteSet(S), NEW f, NEW g, NEW y \in S,
         \A x \in S : f[x] \in Int /\ g[x] \in Int,
         \A x \in S \ {y} : g[x] = f[x]
  PROVE  SumFunctionOnSet(g, S) = SumFunctionOnSet(f, S) - f[y] + g[y]
<1>1. /\ SumFunctionOnSet(f, S) = f[y] + SumFunctionOnSet(f, S \ {y})
      /\ SumFunctionOnSet(g, S) = g[y] + SumFunctionOnSet(g, S \ {y})
  BY SumRemove
<1>2. IsFiniteSet(S \ {y})
  BY FS_Subset
<1>3. /\ SumFunctionOnSet(f, S \ {y}) = SumFunctionOnSet(g, S \ {y})
      /\ SumFunctionOnSet(f, S \ {y}) \in Int
  BY <1>2, SumAgree, SumType
<1> QED
  BY <1>1, <1>3

\* Zeros add up to zero.
LEMMA SumZeros ==
  ASSUME NEW S, IsFiniteSet(S), NEW f, \A x \in S : f[x] = 0
  PROVE  SumFunctionOnSet(f, S) = 0
<1> DEFINE F == {s \in SUBSET S : SumFunctionOnSet(f, s) # 0}
<1>1. SUFFICES ASSUME F # {} PROVE FALSE
  OBVIOUS
<1>2. F \in SUBSET SUBSET S
  OBVIOUS
<1>3. PICK s \in F : \A u \in F : u \subseteq s => u = s
  <2> HIDE DEF F
  <2> QED BY <1>1, <1>2, SmallestPart
<1>4. s # {}
  BY <1>3, SumEmpty
<1>5. Pick(s) \in s
  BY <1>4, PickPicks
<1>6. SumFunctionOnSet(f, s \ {Pick(s)}) = 0
  BY <1>3, <1>5
<1>7. SumFunctionOnSet(f, s) = f[Pick(s)] + SumFunctionOnSet(f, s \ {Pick(s)})
  BY <1>4, SumPick, FS_Subset
<1> QED
  BY <1>3, <1>5, <1>6, <1>7

\* If one term alone is not zero, it is the sum.
LEMMA SumOne ==
  ASSUME NEW S, IsFiniteSet(S), NEW f, NEW y \in S, f[y] \in Int,
         \A x \in S \ {y} : f[x] = 0
  PROVE  SumFunctionOnSet(f, S) = f[y]
<1>1. SumFunctionOnSet(f, S) = f[y] + SumFunctionOnSet(f, S \ {y})
  BY SumRemove
<1>2. SumFunctionOnSet(f, S \ {y}) = 0
  BY SumZeros, FS_Subset
<1> QED
  BY <1>1, <1>2

\* The sum of two functions, term by term.
LEMMA SumPlus ==
  ASSUME NEW S, IsFiniteSet(S), NEW f, NEW g, NEW h,
         \A x \in S : f[x] \in Int /\ g[x] \in Int /\ h[x] = f[x] + g[x]
  PROVE  SumFunctionOnSet(h, S) = SumFunctionOnSet(f, S) + SumFunctionOnSet(g, S)
<1> DEFINE F == {s \in SUBSET S : SumFunctionOnSet(h, s)
                   # SumFunctionOnSet(f, s) + SumFunctionOnSet(g, s)}
<1>1. SUFFICES ASSUME F # {} PROVE FALSE
  OBVIOUS
<1>2. F \in SUBSET SUBSET S
  OBVIOUS
<1>3. PICK s \in F : \A u \in F : u \subseteq s => u = s
  <2> HIDE DEF F
  <2> QED BY <1>1, <1>2, SmallestPart
<1>4. s # {}
  <2>1. /\ SumFunctionOnSet(f, {}) = 0
        /\ SumFunctionOnSet(g, {}) = 0
        /\ SumFunctionOnSet(h, {}) = 0
    BY SumEmpty
  <2>2. {} \notin F
    BY <2>1
  <2> QED
    BY <1>3, <2>2
<1> DEFINE r == s \ {Pick(s)}
<1>5. Pick(s) \in s
  BY <1>4, PickPicks
<1>6. SumFunctionOnSet(h, r) = SumFunctionOnSet(f, r) + SumFunctionOnSet(g, r)
  BY <1>3, <1>5
<1>7. /\ SumFunctionOnSet(h, s) = h[Pick(s)] + SumFunctionOnSet(h, r)
      /\ SumFunctionOnSet(f, s) = f[Pick(s)] + SumFunctionOnSet(f, r)
      /\ SumFunctionOnSet(g, s) = g[Pick(s)] + SumFunctionOnSet(g, r)
  BY <1>4, SumPick, FS_Subset
<1>8. /\ f[Pick(s)] \in Int /\ g[Pick(s)] \in Int
      /\ h[Pick(s)] = f[Pick(s)] + g[Pick(s)]
  BY <1>5
<1>9. SumFunctionOnSet(f, r) \in Int /\ SumFunctionOnSet(g, r) \in Int
  BY SumType, FS_Subset
<1> HIDE DEF r
<1> QED
  BY <1>3, <1>6, <1>7, <1>8, <1>9

\* No term larger, the sum no larger.
LEMMA SumMonotone ==
  ASSUME NEW S, IsFiniteSet(S), NEW f, NEW g,
         \A x \in S : f[x] \in Int /\ g[x] \in Int /\ f[x] <= g[x]
  PROVE  SumFunctionOnSet(f, S) <= SumFunctionOnSet(g, S)
<1> DEFINE d == [x \in S |-> g[x] - f[x]]
<1>1. \A x \in S : f[x] \in Int /\ d[x] \in Int /\ d[x] >= 0 /\ g[x] = f[x] + d[x]
  OBVIOUS
<1> HIDE DEF d
<1>2. SumFunctionOnSet(g, S) = SumFunctionOnSet(f, S) + SumFunctionOnSet(d, S)
  BY <1>1, SumPlus
<1>3. /\ SumFunctionOnSet(f, S) \in Int
      /\ SumFunctionOnSet(d, S) \in Int /\ SumFunctionOnSet(d, S) >= 0
  BY <1>1, SumType
<1> QED
  BY <1>2, <1>3

\* Of functions of which one is nowhere greater and somewhere less, it adds up
\* to less.
LEMMA SumStrict ==
  ASSUME NEW S, IsFiniteSet(S), NEW f, NEW g,
         \A x \in S : f[x] \in Int /\ g[x] \in Int /\ f[x] <= g[x],
         NEW y \in S, f[y] < g[y]
  PROVE  SumFunctionOnSet(f, S) < SumFunctionOnSet(g, S)
<1>1. /\ SumFunctionOnSet(f, S) = f[y] + SumFunctionOnSet(f, S \ {y})
      /\ SumFunctionOnSet(g, S) = g[y] + SumFunctionOnSet(g, S \ {y})
  BY SumRemove
<1>2. IsFiniteSet(S \ {y})
  BY FS_Subset
<1>3. SumFunctionOnSet(f, S \ {y}) <= SumFunctionOnSet(g, S \ {y})
  BY <1>2, SumMonotone
<1>4. SumFunctionOnSet(f, S \ {y}) \in Int /\ SumFunctionOnSet(g, S \ {y}) \in Int
  BY <1>2, SumType
<1> QED
  BY <1>1, <1>3, <1>4

\* A factor of every term is a factor of the sum.
LEMMA SumScale ==
  ASSUME NEW S, IsFiniteSet(S), NEW f, NEW h, NEW c \in Int,
         \A x \in S : f[x] \in Int /\ h[x] = c * f[x]
  PROVE  SumFunctionOnSet(h, S) = c * SumFunctionOnSet(f, S)
<1> DEFINE F == {s \in SUBSET S : SumFunctionOnSet(h, s) # c * SumFunctionOnSet(f, s)}
<1>1. SUFFICES ASSUME F # {} PROVE FALSE
  OBVIOUS
<1>2. F \in SUBSET SUBSET S
  OBVIOUS
<1>3. PICK s \in F : \A u \in F : u \subseteq s => u = s
  <2> HIDE DEF F
  <2> QED BY <1>1, <1>2, SmallestPart
<1>4. s \subseteq S /\ IsFiniteSet(s) /\ SumFunctionOnSet(h, s) # c * SumFunctionOnSet(f, s)
  BY <1>3, FS_Subset
<1>5. s # {}
  <2>1. SumFunctionOnSet(h, {}) = 0 /\ SumFunctionOnSet(f, {}) = 0
    BY SumEmpty
  <2>2. c * 0 = 0
    OBVIOUS
  <2> QED
    BY <1>4, <2>1, <2>2
<1>6. PICK y \in s : TRUE
  BY <1>5
<1> DEFINE r == s \ {y}
<1>7. r \subseteq s /\ r # s /\ r \in SUBSET S /\ IsFiniteSet(r)
  BY <1>4, <1>6, FS_Subset
<1>8. SumFunctionOnSet(h, r) = c * SumFunctionOnSet(f, r)
  BY <1>3, <1>7
<1>9. \A x \in s : f[x] \in Int /\ h[x] \in Int /\ h[x] = c * f[x]
  BY <1>4
<1> HIDE DEF r
<1>10. /\ SumFunctionOnSet(f, s) = f[y] + SumFunctionOnSet(f, r)
       /\ SumFunctionOnSet(h, s) = h[y] + SumFunctionOnSet(h, r)
  BY <1>4, <1>6, <1>9, SumRemove DEF r
<1>11. SumFunctionOnSet(f, r) \in Int
  BY <1>7, <1>9, SumType
<1>12. \A a, b \in Int : c * (a + b) = c * a + c * b
  OBVIOUS
<1> QED
  BY <1>4, <1>6, <1>8, <1>9, <1>10, <1>11, <1>12

\* Where nothing is negative no term exceeds the sum.
LEMMA SumTerm ==
  ASSUME NEW S, IsFiniteSet(S), NEW f, NEW y \in S, \A x \in S : f[x] \in Int /\ f[x] >= 0
  PROVE  f[y] <= SumFunctionOnSet(f, S)
<1>1. SumFunctionOnSet(f, S) = f[y] + SumFunctionOnSet(f, S \ {y})
  BY SumRemove
<1>2. /\ SumFunctionOnSet(f, S \ {y}) \in Int
      /\ SumFunctionOnSet(f, S \ {y}) >= 0
  BY SumType, FS_Subset
<1> QED
  BY <1>1, <1>2

-----------------------------------------------------------------------------
(***************************************************************************)
(* The greatest of finitely many numbers.                                  *)
(***************************************************************************)

\* A finite set of integers with an element has a greatest one.
LEMMA GreatestExists ==
  ASSUME NEW S, IsFiniteSet(S)
  PROVE  S # {} /\ S \subseteq Int => \E x \in S : \A y \in S : x >= y
<1> DEFINE F == {s \in SUBSET S : s # {} /\ ~\E x \in s : \A y \in s : x >= y}
<1>1. SUFFICES ASSUME F # {} PROVE S \subseteq Int => FALSE
  OBVIOUS
<1>2. F \in SUBSET SUBSET S
  OBVIOUS
<1>3. PICK s \in F : \A u \in F : u \subseteq s => u = s
  <2> HIDE DEF F
  <2> QED BY <1>1, <1>2, SmallestPart
<1> HAVE S \subseteq Int
<1>4. PICK z \in s : TRUE
  OBVIOUS
<1>5. \A y \in s : y \in Int
  OBVIOUS
<1>6. s \ {z} # {}
  <2> SUFFICES ASSUME s = {z} PROVE FALSE
    OBVIOUS
  <2>1. \A y \in s : z >= y
    BY <1>5
  <2> QED
    BY <1>4, <2>1
<1>7. PICK m \in s \ {z} : \A y \in s \ {z} : m >= y
  <2>1. s \ {z} \in SUBSET S /\ s \ {z} \subseteq s /\ s \ {z} # s
    BY <1>4
  <2>2. s \ {z} \notin F
    BY <1>3, <2>1
  <2> QED
    BY <1>6, <2>1, <2>2
<1>8. \E x \in s : \A y \in s : x >= y
  <2>1. CASE m >= z
    BY <1>7, <2>1
  <2>2. CASE ~(m >= z)
    <3>1. \A y \in s : z >= y
      BY <1>4, <1>5, <1>7, <2>2
    <3> QED
      BY <1>4, <3>1
  <2> QED
    BY <2>1, <2>2
<1> QED
  BY <1>8

\* Max is that element.
LEMMA MaxFacts ==
  ASSUME NEW S, IsFiniteSet(S), S # {}, S \subseteq Int
  PROVE  Max(S) \in S /\ \A x \in S : Max(S) >= x
<1>1. \E x \in S : \A y \in S : x >= y
  BY GreatestExists
<1> QED
  BY <1>1 DEF Max

\* The values of a function on a finite set are finitely many.
LEMMA ValuesFinite ==
  ASSUME NEW S, IsFiniteSet(S), NEW f
  PROVE  IsFiniteSet({f[x] : x \in S})
<1> DEFINE T == {f[x] : x \in S}
           g == [x \in S |-> f[x]]
<1>1. g \in [S -> T] /\ \A t \in T : \E x \in S : g[x] = t
  OBVIOUS
<1>2. g \in Surjection(S, T)
  BY <1>1 DEF Surjection
<1> HIDE DEF T, g
<1>3. IsFiniteSet(T)
  BY <1>2, FS_Surjection
<1> QED
  BY <1>3 DEF T

\* And the least is the opposite of the greatest opposite.
LEMMA MinFacts ==
  ASSUME NEW S, IsFiniteSet(S), S # {}, S \subseteq Int
  PROVE  Min(S) \in S /\ \A x \in S : Min(S) <= x
<1> DEFINE opposite == [x \in S |-> -x]
           T == {opposite[x] : x \in S}
<1>1. IsFiniteSet(T)
  <2> HIDE DEF opposite
  <2> QED
    BY ValuesFinite
<1>2. T # {} /\ T \subseteq Int
  <2>1. \A x \in S : opposite[x] \in Int
    OBVIOUS
  <2> HIDE DEF opposite
  <2> QED
    BY <2>1
<1>3. PICK t \in T : \A u \in T : t >= u
  <2> HIDE DEF T
  <2>1. T # {} /\ T \subseteq Int => \E x \in T : \A y \in T : x >= y
    BY <1>1, GreatestExists
  <2> QED
    BY <1>2, <2>1
<1>4. PICK m \in S : t = -m
  OBVIOUS
<1>5. ASSUME NEW y \in S PROVE m <= y
  <2>1. -y \in T
    OBVIOUS
  <2>2. -m >= -y
    BY <1>3, <1>4, <2>1
  <2>3. m \in Int /\ y \in Int
    OBVIOUS
  <2> QED
    BY <2>2, <2>3
<1>6. \E x \in S : \A y \in S : x =< y
  BY <1>5
<1> QED
  BY <1>6 DEF Min

=============================================================================
