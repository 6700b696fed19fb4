---------------------------- MODULE ArenaPoolProofs ----------------------------
(***************************************************************************)
(* Proofs about ArenaPool, for every roster, pool, schedule, number of     *)
(* callers, rounds and grades.                                             *)
(*                                                                         *)
(* First sums over finite sets, by the least counterexample: there is no   *)
(* induction to cite.  Then what a selection returns, the invariant of the *)
(* rounds and drafts, the count of records that the schedule is read off,  *)
(* and the ratings.                                                        *)
(***************************************************************************)
EXTENDS ArenaPool, TLAPS, WellFoundedInduction, FiniteSetTheorems,
        SequenceTheorems

-----------------------------------------------------------------------------
(* Least numbers and least sets                                             *)

LEMMA LeastOf ==
  ASSUME NEW T, T \subseteq Nat, T # {}
  PROVE  \E x \in T : \A y \in T : x <= y
<1>1. IsWellFoundedOn(OpToRel(<, Nat), Nat)
  BY NatLessThanWellFounded
<1>2. PICK x \in T : \A y \in T : ~ (<<y, x>> \in OpToRel(<, Nat))
  BY <1>1, WFMin
<1>3. ASSUME NEW y \in T PROVE x <= y
  <2>1. ~ (<<y, x>> \in {ss \in Nat \X Nat : ss[1] < ss[2]})
    BY <1>2 DEF OpToRel
  <2>2. <<y, x>> \in Nat \X Nat
    OBVIOUS
  <2> QED
    BY <2>1, <2>2
<1> QED
  BY <1>3

\* Among subsets of a finite set there is one from which no element can be taken away.
LEMMA LeastSet ==
  ASSUME NEW S, IsFiniteSet(S), NEW B, B \subseteq SUBSET S, B # {}
  PROVE  \E T \in B : \A U \in B : U \subseteq T => U = T
<1> DEFINE D == {Cardinality(T) : T \in B}
<1>1. \A T \in B : IsFiniteSet(T) /\ Cardinality(T) \in Nat
  BY FS_Subset, FS_CardinalityType
<1>2. PICK d \in D : \A e \in D : d <= e
  <2>1. D \subseteq Nat /\ D # {}
    BY <1>1
  <2> QED
    BY <2>1, LeastOf
<1>3. PICK T \in B : d = Cardinality(T)
  OBVIOUS
<1>4. ASSUME NEW U \in B, U \subseteq T, U # T PROVE FALSE
  <2>1. Cardinality(U) < Cardinality(T)
    <3>1. Cardinality(U) <= Cardinality(T) /\ (Cardinality(U) = Cardinality(T) => U = T)
      BY <1>1, <1>4, FS_Subset
    <3> QED
      BY <1>1, <1>4, <3>1
  <2> QED
    BY <1>1, <1>2, <1>3, <2>1
<1> QED
  BY <1>4

-----------------------------------------------------------------------------
(* Sums                                                                     *)

\* sum is the function that SumOver defines, on the subsets of S.
IsSum(sum, f, S) ==
    sum = [T \in SUBSET S |->
             IF T = {} THEN 0
             ELSE LET x == CHOOSE y \in T : TRUE IN f[x] + sum[T \ {x}]]

LEMMA SumExists ==
  ASSUME NEW f, NEW S, IsFiniteSet(S)
  PROVE  \E sum : IsSum(sum, f, S)
<1> DEFINE pick(T) == CHOOSE y \in T : TRUE
           Upto(n) == {T \in SUBSET S : Cardinality(T) <= n}
           Is(g, n) == g = [T \in Upto(n) |->
                              IF T = {} THEN 0 ELSE f[pick(T)] + g[T \ {pick(T)}]]
           Bad == {n \in Nat : ~ \E g : Is(g, n)}
<1>1. \A T \in SUBSET S : IsFiniteSet(T) /\ Cardinality(T) \in Nat
                          /\ (Cardinality(T) = 0 <=> T = {})
  BY FS_Subset, FS_CardinalityType, FS_EmptySet
<1>2. \A T \in SUBSET S : T # {} => /\ pick(T) \in T /\ T \ {pick(T)} \in SUBSET S
                                    /\ Cardinality(T \ {pick(T)}) = Cardinality(T) - 1
  BY <1>1, FS_RemoveElement
<1> HIDE DEF pick
<1>3. Bad = {}
  <2>1. SUFFICES ASSUME Bad # {} PROVE FALSE
    OBVIOUS
  <2>2. PICK n \in Bad : \A m \in Bad : n <= m
    <3>1. Bad \subseteq Nat
      OBVIOUS
    <3> HIDE DEF Bad
    <3> QED
      BY <2>1, <3>1, LeastOf
  <2>3. n # 0
    <3>1. \A T \in Upto(0) : T = {}
      BY <1>1
    <3>2. Is([T \in Upto(0) |-> 0], 0)
      BY <3>1
    <3> QED
      BY <2>2, <3>2
  <2>4. n \in Nat /\ n - 1 \in Nat /\ n - 1 \notin Bad
    <3> HIDE DEF Is, Upto
    <3>1. n \in Nat /\ n - 1 \in Nat /\ ~(n <= n - 1)
      BY <2>3
    <3> QED
      BY <2>2, <3>1
  <2>5. PICK g : Is(g, n - 1)
    BY <2>4
  <2> DEFINE h == [T \in Upto(n) |->
                     IF T = {} THEN 0 ELSE f[pick(T)] + g[T \ {pick(T)}]]
  <2>6. ASSUME NEW T \in Upto(n - 1) PROVE h[T] = g[T]
    <3>1. T \in Upto(n)
      BY <1>1, <2>4
    <3> QED
      BY <2>5, <2>6, <3>1
  <2>7. ASSUME NEW T \in Upto(n), T # {} PROVE h[T \ {pick(T)}] = g[T \ {pick(T)}]
    <3>1. T \ {pick(T)} \in Upto(n - 1)
      BY <1>1, <1>2, <2>4, <2>7
    <3> HIDE DEF h, Upto
    <3> QED
      BY <2>6, <3>1
  <2>8. Is(h, n)
    BY <2>7
  <2> QED
    BY <2>2, <2>8
<1>4. PICK g : Is(g, Cardinality(S))
  <2>1. Cardinality(S) \in Nat
    BY FS_CardinalityType
  <2> HIDE DEF Is
  <2> QED
    BY <1>3, <2>1
<1>5. Upto(Cardinality(S)) = SUBSET S
  BY FS_Subset
<1>6. IsSum(g, f, S)
  BY <1>4, <1>5 DEF IsSum, pick
<1> QED
  BY <1>6

\* On the subsets they share, two such functions agree.
LEMMA SumUnique ==
  ASSUME NEW f, NEW S, IsFiniteSet(S), NEW R, R \subseteq S,
         NEW g, IsSum(g, f, S), NEW h, IsSum(h, f, R)
  PROVE  g[R] = h[R]
<1> DEFINE Bad == {T \in SUBSET R : g[T] # h[T]}
<1>1. SUFFICES ASSUME Bad # {} PROVE FALSE
  OBVIOUS
<1>2. IsFiniteSet(R)
  BY FS_Subset
<1>3. PICK T \in Bad : \A U \in Bad : U \subseteq T => U = T
  <2>1. Bad \subseteq SUBSET R
    OBVIOUS
  <2> HIDE DEF Bad
  <2> QED
    BY <1>1, <1>2, <2>1, LeastSet
<1> DEFINE x == CHOOSE y \in T : TRUE
<1>4. /\ g[T] = IF T = {} THEN 0 ELSE f[x] + g[T \ {x}]
      /\ h[T] = IF T = {} THEN 0 ELSE f[x] + h[T \ {x}]
  BY DEF IsSum
<1>5. T # {} => x \in T
  OBVIOUS
<1> HIDE DEF x
<1>6. T # {} => T \ {x} \in SUBSET R /\ T \ {x} \notin Bad
  BY <1>3, <1>5
<1> QED
  BY <1>4, <1>6

LEMMA SumIs ==
  ASSUME NEW f, NEW S, IsFiniteSet(S)
  PROVE  \E sum : IsSum(sum, f, S) /\ SumOver(f, S) = sum[S]
<1>1. \E sum : IsSum(sum, f, S)
  BY SumExists
<1> DEFINE sum == CHOOSE g : IsSum(g, f, S)
<1>2. IsSum(sum, f, S)
  BY <1>1
<1>3. SumOver(f, S) = sum[S]
  BY DEF SumOver, IsSum
<1> QED
  BY <1>2, <1>3

LEMMA SumEmpty ==
  ASSUME NEW f
  PROVE  SumOver(f, {}) = 0
<1>1. PICK sum : IsSum(sum, f, {}) /\ SumOver(f, {}) = sum[{}]
  BY SumIs, FS_EmptySet
<1> QED
  BY <1>1 DEF IsSum

LEMMA SumStep ==
  ASSUME NEW f, NEW S, IsFiniteSet(S), S # {}
  PROVE  \E x \in S : SumOver(f, S) = f[x] + SumOver(f, S \ {x})
<1> DEFINE x == CHOOSE y \in S : TRUE
<1>1. PICK g : IsSum(g, f, S) /\ SumOver(f, S) = g[S]
  BY SumIs
<1>2. IsFiniteSet(S \ {x})
  BY FS_Subset
<1>3. PICK h : IsSum(h, f, S \ {x}) /\ SumOver(f, S \ {x}) = h[S \ {x}]
  BY <1>2, SumIs
<1>4. g[S \ {x}] = h[S \ {x}]
  BY <1>1, <1>3, SumUnique
<1>5. g[S] = f[x] + g[S \ {x}]
  BY <1>1 DEF IsSum
<1>6. x \in S
  OBVIOUS
<1> HIDE DEF x
<1> QED
  BY <1>1, <1>3, <1>4, <1>5, <1>6

LEMMA SumType ==
  ASSUME NEW f, NEW S, IsFiniteSet(S), \A x \in S : f[x] \in Int
  PROVE  SumOver(f, S) \in Int
<1> DEFINE Bad == {T \in SUBSET S : SumOver(f, T) \notin Int}
<1>1. SUFFICES ASSUME Bad # {} PROVE FALSE
  <2>1. S \notin Bad
    BY <1>1
  <2> QED
    BY <2>1
<1>2. PICK T \in Bad : \A U \in Bad : U \subseteq T => U = T
  <2>1. Bad \subseteq SUBSET S
    OBVIOUS
  <2> HIDE DEF Bad
  <2> QED
    BY <1>1, <2>1, LeastSet
<1>3. IsFiniteSet(T) /\ T \subseteq S /\ SumOver(f, T) \notin Int
  BY <1>2, FS_Subset
<1>4. T # {}
  BY <1>3, SumEmpty
<1>5. PICK x \in T : SumOver(f, T) = f[x] + SumOver(f, T \ {x})
  BY <1>3, <1>4, SumStep
<1>6. SumOver(f, T \ {x}) \in Int
  <2>1. T \ {x} \in SUBSET S /\ T \ {x} \subseteq T /\ T \ {x} # T
    BY <1>3
  <2>2. T \ {x} \notin Bad
    <3> HIDE DEF Bad
    <3> QED
      BY <1>2, <2>1
  <2> QED
    BY <2>1, <2>2
<1>7. f[x] \in Int
  BY <1>3
<1> QED
  BY <1>3, <1>5, <1>6, <1>7

\* Any element can be taken out first.
LEMMA SumRemove ==
  ASSUME NEW f, NEW S, IsFiniteSet(S), \A y \in S : f[y] \in Int, NEW x \in S
  PROVE  SumOver(f, S) = f[x] + SumOver(f, S \ {x})
<1> DEFINE Bad == {T \in SUBSET S :
                      \E z \in T : SumOver(f, T) # f[z] + SumOver(f, T \ {z})}
<1>1. SUFFICES ASSUME Bad # {} PROVE FALSE
  <2>1. S \notin Bad
    BY <1>1
  <2> QED
    BY <2>1
<1>2. PICK T \in Bad : \A U \in Bad : U \subseteq T => U = T
  <2>1. Bad \subseteq SUBSET S
    OBVIOUS
  <2> HIDE DEF Bad
  <2> QED
    BY <1>1, <2>1, LeastSet
<1>3. IsFiniteSet(T) /\ T \subseteq S
  BY <1>2, FS_Subset
<1>4. PICK z \in T : SumOver(f, T) # f[z] + SumOver(f, T \ {z})
  BY <1>2
<1>5. PICK y \in T : SumOver(f, T) = f[y] + SumOver(f, T \ {y})
  <2>1. T # {}
    BY <1>4
  <2> QED
    BY <1>3, <2>1, SumStep
<1>6. y # z
  BY <1>4, <1>5
<1>7. ASSUME NEW w \in T, NEW u \in T \ {w}
      PROVE  SumOver(f, T \ {w}) = f[u] + SumOver(f, (T \ {w}) \ {u})
  <2>1. T \ {w} \in SUBSET S /\ T \ {w} \subseteq T /\ T \ {w} # T
    BY <1>3
  <2>2. T \ {w} \notin Bad
    <3> HIDE DEF Bad
    <3> QED
      BY <1>2, <2>1
  <2> QED
    BY <2>1, <2>2
<1>8. /\ SumOver(f, T \ {y}) = f[z] + SumOver(f, (T \ {y}) \ {z})
      /\ SumOver(f, T \ {z}) = f[y] + SumOver(f, (T \ {z}) \ {y})
  BY <1>6, <1>7
<1>9. (T \ {y}) \ {z} = (T \ {z}) \ {y}
  OBVIOUS
<1>10. SumOver(f, (T \ {y}) \ {z}) \in Int /\ f[y] \in Int /\ f[z] \in Int
  <2>1. IsFiniteSet((T \ {y}) \ {z}) /\ \A v \in (T \ {y}) \ {z} : f[v] \in Int
    BY <1>3, FS_Subset
  <2>2. SumOver(f, (T \ {y}) \ {z}) \in Int
    BY <2>1, SumType
  <2>3. f[y] \in Int /\ f[z] \in Int
    BY <1>3
  <2> QED
    BY <2>2, <2>3
<1>11. SumOver(f, T) = f[z] + SumOver(f, T \ {z})
  <2> DEFINE both == SumOver(f, (T \ {y}) \ {z})
             but == SumOver(f, T \ {z})
  <2>1. SumOver(f, T) = f[y] + (f[z] + both)
    BY <1>5, <1>8
  <2>2. but = f[y] + both
    BY <1>8, <1>9
  <2>3. both \in Int /\ f[y] \in Int /\ f[z] \in Int
    BY <1>10
  <2> HIDE DEF both, but
  <2>4. f[y] + (f[z] + both) = f[z] + (f[y] + both)
    BY <2>3
  <2>5. SumOver(f, T) = f[z] + but
    BY <2>1, <2>2, <2>4
  <2> QED
    BY <2>5 DEF but
<1> QED
  BY <1>4, <1>11

\* Two functions that agree on a set have the same sum over it.
LEMMA SumSame ==
  ASSUME NEW f, NEW g, NEW S, IsFiniteSet(S),
         \A y \in S : f[y] \in Int /\ g[y] = f[y]
  PROVE  SumOver(f, S) = SumOver(g, S)
<1> DEFINE Bad == {T \in SUBSET S : SumOver(f, T) # SumOver(g, T)}
<1>1. SUFFICES ASSUME Bad # {} PROVE FALSE
  <2>1. S \notin Bad
    BY <1>1
  <2> QED
    BY <2>1
<1>2. PICK T \in Bad : \A U \in Bad : U \subseteq T => U = T
  <2>1. Bad \subseteq SUBSET S
    OBVIOUS
  <2> HIDE DEF Bad
  <2> QED
    BY <1>1, <2>1, LeastSet
<1>3. IsFiniteSet(T) /\ T \subseteq S /\ SumOver(f, T) # SumOver(g, T)
  BY <1>2, FS_Subset
<1>4. PICK x \in T : SumOver(f, T) = f[x] + SumOver(f, T \ {x})
  <2>1. T # {}
    BY <1>3, SumEmpty
  <2> QED
    BY <1>3, <2>1, SumStep
<1>5. SumOver(g, T) = g[x] + SumOver(g, T \ {x})
  <2>1. \A y \in T : g[y] \in Int
    BY <1>3
  <2> QED
    BY <1>3, <2>1, SumRemove
<1>6. SumOver(f, T \ {x}) = SumOver(g, T \ {x})
  <2>1. T \ {x} \in SUBSET S /\ T \ {x} \subseteq T /\ T \ {x} # T
    BY <1>3
  <2>2. T \ {x} \notin Bad
    <3> HIDE DEF Bad
    <3> QED
      BY <1>2, <2>1
  <2> QED
    BY <2>1, <2>2
<1>7. g[x] = f[x]
  BY <1>3
<1> QED
  BY <1>3, <1>4, <1>5, <1>6, <1>7

\* The sum of a sum.
LEMMA SumAdd ==
  ASSUME NEW f, NEW g, NEW h, NEW S, IsFiniteSet(S),
         \A y \in S : f[y] \in Int /\ g[y] \in Int /\ h[y] = f[y] + g[y]
  PROVE  SumOver(h, S) = SumOver(f, S) + SumOver(g, S)
<1> DEFINE Bad == {T \in SUBSET S : SumOver(h, T) # SumOver(f, T) + SumOver(g, T)}
<1>1. SUFFICES ASSUME Bad # {} PROVE FALSE
  <2>1. S \notin Bad
    BY <1>1
  <2> QED
    BY <2>1
<1>2. PICK T \in Bad : \A U \in Bad : U \subseteq T => U = T
  <2>1. Bad \subseteq SUBSET S
    OBVIOUS
  <2> HIDE DEF Bad
  <2> QED
    BY <1>1, <2>1, LeastSet
<1>3. IsFiniteSet(T) /\ T \subseteq S /\ SumOver(h, T) # SumOver(f, T) + SumOver(g, T)
  BY <1>2, FS_Subset
<1>4. PICK x \in T : TRUE
  <2>1. T # {}
    BY <1>3, SumEmpty
  <2> QED
    BY <2>1
<1>5. /\ SumOver(f, T) = f[x] + SumOver(f, T \ {x})
      /\ SumOver(g, T) = g[x] + SumOver(g, T \ {x})
      /\ SumOver(h, T) = h[x] + SumOver(h, T \ {x})
  <2>1. \A y \in T : f[y] \in Int /\ g[y] \in Int /\ h[y] \in Int
    BY <1>3
  <2> QED
    BY <1>3, <2>1, SumRemove
<1>6. SumOver(h, T \ {x}) = SumOver(f, T \ {x}) + SumOver(g, T \ {x})
  <2>1. T \ {x} \in SUBSET S /\ T \ {x} \subseteq T /\ T \ {x} # T
    BY <1>3
  <2>2. T \ {x} \notin Bad
    <3> HIDE DEF Bad
    <3> QED
      BY <1>2, <2>1
  <2> QED
    BY <2>1, <2>2
<1>7. f[x] \in Int /\ g[x] \in Int /\ h[x] = f[x] + g[x]
  BY <1>3
<1>8. SumOver(f, T \ {x}) \in Int /\ SumOver(g, T \ {x}) \in Int
  <2>1. IsFiniteSet(T \ {x}) /\ \A y \in T \ {x} : f[y] \in Int /\ g[y] \in Int
    BY <1>3, FS_Subset
  <2> QED
    BY <2>1, SumType
<1> QED
  BY <1>3, <1>5, <1>6, <1>7, <1>8

\* A common factor, and a constant.
LEMMA SumScale ==
  ASSUME NEW f, NEW c \in Int, NEW h, NEW S, IsFiniteSet(S),
         \A y \in S : f[y] \in Int /\ h[y] = c * f[y]
  PROVE  SumOver(h, S) = c * SumOver(f, S)
<1> DEFINE Bad == {T \in SUBSET S : SumOver(h, T) # c * SumOver(f, T)}
<1>1. SUFFICES ASSUME Bad # {} PROVE FALSE
  <2>1. S \notin Bad
    BY <1>1
  <2> QED
    BY <2>1
<1>2. PICK T \in Bad : \A U \in Bad : U \subseteq T => U = T
  <2>1. Bad \subseteq SUBSET S
    OBVIOUS
  <2> HIDE DEF Bad
  <2> QED
    BY <1>1, <2>1, LeastSet
<1>3. IsFiniteSet(T) /\ T \subseteq S /\ SumOver(h, T) # c * SumOver(f, T)
  BY <1>2, FS_Subset
<1>4. PICK x \in T : TRUE
  <2>1. T # {}
    BY <1>3, SumEmpty
  <2> QED
    BY <2>1
<1>5. f[x] \in Int /\ h[x] = c * f[x]
  BY <1>3
<1>6. /\ SumOver(f, T) = f[x] + SumOver(f, T \ {x})
      /\ SumOver(h, T) = h[x] + SumOver(h, T \ {x})
  <2>1. \A y \in T : f[y] \in Int /\ h[y] \in Int
    BY <1>3
  <2> QED
    BY <1>3, <2>1, SumRemove
<1>7. SumOver(h, T \ {x}) = c * SumOver(f, T \ {x})
  <2>1. T \ {x} \in SUBSET S /\ T \ {x} \subseteq T /\ T \ {x} # T
    BY <1>3
  <2>2. T \ {x} \notin Bad
    <3> HIDE DEF Bad
    <3> QED
      BY <1>2, <2>1
  <2> QED
    BY <2>1, <2>2
<1>8. SumOver(f, T \ {x}) \in Int
  <2>1. IsFiniteSet(T \ {x}) /\ \A y \in T \ {x} : f[y] \in Int
    BY <1>3, FS_Subset
  <2> QED
    BY <2>1, SumType
<1>9. \A i, j \in Int : c * (i + j) = c * i + c * j
  OBVIOUS
<1> QED
  BY <1>3, <1>5, <1>6, <1>7, <1>8, <1>9

LEMMA SumConstant ==
  ASSUME NEW f, NEW c \in Int, NEW S, IsFiniteSet(S), \A y \in S : f[y] = c
  PROVE  SumOver(f, S) = c * Cardinality(S)
<1> DEFINE Bad == {T \in SUBSET S : SumOver(f, T) # c * Cardinality(T)}
<1>1. SUFFICES ASSUME Bad # {} PROVE FALSE
  <2>1. S \notin Bad
    BY <1>1
  <2> QED
    BY <2>1
<1>2. PICK T \in Bad : \A U \in Bad : U \subseteq T => U = T
  <2>1. Bad \subseteq SUBSET S
    OBVIOUS
  <2> HIDE DEF Bad
  <2> QED
    BY <1>1, <2>1, LeastSet
<1>3. IsFiniteSet(T) /\ T \subseteq S /\ SumOver(f, T) # c * Cardinality(T)
  BY <1>2, FS_Subset
<1>4. PICK x \in T : TRUE
  <2>1. Cardinality({}) = 0 /\ c * 0 = 0
    BY FS_EmptySet
  <2>2. T # {}
    BY <1>3, <2>1, SumEmpty
  <2> QED
    BY <2>2
<1>5. SumOver(f, T) = c + SumOver(f, T \ {x})
  <2>1. \A y \in T : f[y] \in Int
    BY <1>3
  <2>2. SumOver(f, T) = f[x] + SumOver(f, T \ {x})
    BY <1>3, <2>1, SumRemove
  <2> QED
    BY <1>3, <2>2
<1>6. SumOver(f, T \ {x}) = c * Cardinality(T \ {x})
  <2>1. T \ {x} \in SUBSET S /\ T \ {x} \subseteq T /\ T \ {x} # T
    BY <1>3
  <2>2. T \ {x} \notin Bad
    <3> HIDE DEF Bad
    <3> QED
      BY <1>2, <2>1
  <2> QED
    BY <2>1, <2>2
<1>7. Cardinality(T) \in Nat /\ Cardinality(T \ {x}) = Cardinality(T) - 1
  BY <1>3, FS_CardinalityType, FS_RemoveElement
<1>8. \A n \in Nat : c + c * (n - 1) = c * n
  OBVIOUS
<1> QED
  BY <1>3, <1>5, <1>6, <1>7, <1>8

\* What each of a set gains from every other adds up to nothing, if the other
\* loses it.
LEMMA SumOfGains ==
  ASSUME NEW d, NEW S, IsFiniteSet(S),
         \A v, w \in S : d[v][w] \in Int,
         \A v, w \in S : v # w => d[v][w] + d[w][v] = 0,
         NEW g, \A v \in S : g[v] = SumOver(d[v], S \ {v})
  PROVE  SumOver(g, S) = 0
<1> DEFINE gains(T) == [v \in S |-> SumOver(d[v], T \ {v})]
           Bad == {T \in SUBSET S : SumOver(gains(T), T) # 0}
<1>1. \A T \in SUBSET S : IsFiniteSet(T) /\ T \subseteq S
  BY FS_Subset
<1>2. \A T \in SUBSET S : \A v \in S : SumOver(d[v], T) \in Int
  <2>1. ASSUME NEW T \in SUBSET S, NEW v \in S PROVE SumOver(d[v], T) \in Int
    <3>1. \A w \in T : d[v][w] \in Int
      OBVIOUS
    <3> QED
      BY <1>1, <3>1, SumType
  <2> QED
    BY <2>1
<1>3. \A T \in SUBSET S : \A v \in S :
        gains(T)[v] = SumOver(d[v], T \ {v}) /\ gains(T)[v] \in Int
  <2>1. \A T \in SUBSET S : \A v \in S : T \ {v} \in SUBSET S
    OBVIOUS
  <2> QED
    BY <1>2, <2>1
<1>4. SUFFICES ASSUME Bad # {} PROVE FALSE
  <2>1. S \notin Bad
    BY <1>4
  <2>2. SumOver(gains(S), S) = 0
    BY <2>1
  <2>3. SumOver(gains(S), S) = SumOver(g, S)
    <3>1. \A v \in S : gains(S)[v] \in Int /\ g[v] = gains(S)[v]
      BY <1>3
    <3> HIDE DEF gains
    <3> QED
      BY <3>1, SumSame
  <2> QED
    BY <2>2, <2>3
<1>5. PICK T \in Bad : \A U \in Bad : U \subseteq T => U = T
  <2>1. Bad \subseteq SUBSET S
    OBVIOUS
  <2> HIDE DEF Bad
  <2> QED
    BY <1>4, <2>1, LeastSet
<1>6. T \in SUBSET S /\ SumOver(gains(T), T) # 0
  BY <1>5
<1> HIDE DEF gains
<1>7. PICK x \in T : TRUE
  <2>1. T # {}
    BY <1>6, SumEmpty
  <2> QED
    BY <2>1
<1> DEFINE R == T \ {x}
<1>8. R \in SUBSET S /\ R \subseteq T /\ R # T /\ x \notin R /\ x \in S
  BY <1>6
<1>9. SumOver(gains(R), R) = 0
  <2>1. R \notin Bad
    <3> HIDE DEF Bad, R
    <3> QED
      BY <1>5, <1>8
  <2> HIDE DEF R
  <2> QED
    BY <1>8, <2>1
<1>10. SumOver(gains(T), T) = SumOver(d[x], R) + SumOver(gains(T), R)
  <2>1. \A v \in T : gains(T)[v] \in Int
    BY <1>3, <1>6
  <2>2. SumOver(gains(T), T) = gains(T)[x] + SumOver(gains(T), R)
    BY <1>1, <1>6, <2>1, SumRemove
  <2> QED
    BY <1>3, <1>6, <1>8, <2>2
<1> DEFINE to == [v \in R |-> d[v][x]]
<1>11. ASSUME NEW v \in R PROVE gains(T)[v] = to[v] + gains(R)[v]
  <2>1. v \in S /\ T \ {v} \in SUBSET S /\ x \in T \ {v} /\ (T \ {v}) \ {x} = R \ {v}
    BY <1>8
  <2>2. \A w \in T \ {v} : d[v][w] \in Int
    BY <1>6, <2>1
  <2>3. SumOver(d[v], T \ {v}) = d[v][x] + SumOver(d[v], (T \ {v}) \ {x})
    <3>1. IsFiniteSet(T \ {v})
      BY <1>1, <2>1
    <3> QED
      BY <2>1, <2>2, <3>1, SumRemove
  <2>4. /\ gains(T)[v] = SumOver(d[v], T \ {v})
        /\ gains(R)[v] = SumOver(d[v], R \ {v})
    BY <1>3, <1>6, <1>8, <2>1
  <2>5. to[v] = d[v][x]
    OBVIOUS
  <2> HIDE DEF to, R
  <2> QED
    BY <2>1, <2>3, <2>4, <2>5
<1>12. \A v \in R : v \in S /\ to[v] = d[v][x] /\ to[v] \in Int
  BY <1>8
<1> HIDE DEF to, R
<1>13. SumOver(gains(T), R) = SumOver(to, R) + SumOver(gains(R), R)
  <2>1. \A v \in R : to[v] \in Int /\ gains(R)[v] \in Int
                     /\ gains(T)[v] = to[v] + gains(R)[v]
    BY <1>3, <1>8, <1>11, <1>12
  <2> QED
    BY <1>1, <1>8, <2>1, SumAdd
<1>14. SumOver(to, R) = (-1) * SumOver(d[x], R)
  <2>1. ASSUME NEW v \in R PROVE d[x][v] \in Int /\ to[v] = (-1) * d[x][v]
    <3>1. d[x][v] \in Int /\ d[v][x] \in Int /\ d[x][v] + d[v][x] = 0
      BY <1>8, <1>12
    <3> QED
      BY <1>12, <3>1
  <2>2. -1 \in Int
    OBVIOUS
  <2> QED
    BY <1>1, <1>8, <2>1, <2>2, SumScale
<1>15. SumOver(d[x], R) \in Int /\ SumOver(to, R) \in Int
  <2>1. SumOver(to, R) \in Int
    BY <1>1, <1>8, <1>12, SumType
  <2> QED
    BY <1>2, <1>8, <2>1
<1> QED
  BY <1>6, <1>9, <1>10, <1>13, <1>14, <1>15

LEMMA SumNatural ==
  ASSUME NEW f, NEW S, IsFiniteSet(S), \A x \in S : f[x] \in Nat
  PROVE  SumOver(f, S) \in Nat
<1> DEFINE Bad == {T \in SUBSET S : SumOver(f, T) \notin Nat}
<1>1. SUFFICES ASSUME Bad # {} PROVE FALSE
  <2>1. S \notin Bad
    BY <1>1
  <2> QED
    BY <2>1
<1>2. PICK T \in Bad : \A U \in Bad : U \subseteq T => U = T
  <2>1. Bad \subseteq SUBSET S
    OBVIOUS
  <2> HIDE DEF Bad
  <2> QED
    BY <1>1, <2>1, LeastSet
<1>3. IsFiniteSet(T) /\ T \subseteq S /\ SumOver(f, T) \notin Nat
  BY <1>2, FS_Subset
<1>4. T # {}
  BY <1>3, SumEmpty
<1>5. PICK x \in T : SumOver(f, T) = f[x] + SumOver(f, T \ {x})
  BY <1>3, <1>4, SumStep
<1>6. SumOver(f, T \ {x}) \in Nat
  <2>1. T \ {x} \in SUBSET S /\ T \ {x} \subseteq T /\ T \ {x} # T
    BY <1>3
  <2>2. T \ {x} \notin Bad
    <3> HIDE DEF Bad
    <3> QED
      BY <1>2, <2>1
  <2> QED
    BY <2>1, <2>2
<1>7. f[x] \in Nat
  BY <1>3
<1> QED
  BY <1>3, <1>5, <1>6, <1>7

-----------------------------------------------------------------------------
(* Functions defined step by step                                           *)

Stepwise(g, n, S, a, step) ==
    g \in [0..n -> S] /\ g[0] = a /\ \A k \in 1..n : g[k] = step[k][g[k - 1]]

\* A function of 0..n whose values follow from one another exists.
LEMMA StepsExist ==
  ASSUME NEW n \in Nat, NEW S, NEW a \in S, NEW step, step \in [1..n -> [S -> S]]
  PROVE  \E g : Stepwise(g, n, S, a, step)
<1> DEFINE Is(g, m) == g \in [0..m -> S] /\ g[0] = a
                       /\ \A k \in 1..m : g[k] = step[k][g[k - 1]]
           Bad == {m \in 0..n : ~ \E g : Is(g, m)}
<1>1. SUFFICES ASSUME Bad # {} PROVE FALSE
  <2>1. n \notin Bad
    BY <1>1
  <2> QED
    BY <2>1 DEF Stepwise
<1>2. PICK m \in Bad : \A i \in Bad : m <= i
  <2>1. Bad \subseteq Nat
    OBVIOUS
  <2> HIDE DEF Bad
  <2> QED
    BY <1>1, <2>1, LeastOf
<1>3. m # 0
  <2>1. Is([k \in 0..0 |-> a], 0)
    OBVIOUS
  <2> QED
    BY <1>2, <2>1
<1>4. m - 1 \in 0..n /\ m \in 1..n /\ m - 1 \notin Bad
  <2>1. m - 1 \in 0..n /\ m \in 1..n /\ ~(m <= m - 1)
    BY <1>3
  <2> HIDE DEF Bad
  <2> QED
    BY <1>2, <2>1
<1>5. PICK g : Is(g, m - 1)
  BY <1>4
<1> DEFINE h == [k \in 0..m |-> IF k = m THEN step[m][g[m - 1]] ELSE g[k]]
<1>6. \A k \in 0..(m - 1) : k \in 0..m /\ h[k] = g[k] /\ g[k] \in S
  BY <1>4, <1>5
<1>7. m \in 0..m /\ h[m] = step[m][g[m - 1]] /\ h[m] \in S
  <2>1. m - 1 \in 0..(m - 1)
    BY <1>4
  <2>2. step[m] \in [S -> S] /\ g[m - 1] \in S
    BY <1>4, <1>6, <2>1
  <2> QED
    BY <1>4, <2>2
<1>8. h \in [0..m -> S]
  <2>1. \A k \in 0..m : k = m \/ k \in 0..(m - 1)
    BY <1>4
  <2>2. \A k \in 0..m : h[k] \in S
    <3> HIDE DEF h
    <3> QED
      BY <1>6, <1>7, <2>1
  <2> QED
    BY <2>2
<1>9. \A k \in 1..m : h[k] = step[k][h[k - 1]]
  <2>1. ASSUME NEW k \in 1..m PROVE h[k] = step[k][h[k - 1]]
    <3>1. k - 1 \in 0..(m - 1) /\ (k = m \/ (k \in 1..(m - 1) /\ k \in 0..(m - 1)))
      BY <1>4
    <3>2. h[k - 1] = g[k - 1]
      BY <1>6, <3>1
    <3>3. k # m => h[k] = g[k] /\ g[k] = step[k][g[k - 1]]
      BY <1>5, <1>6, <3>1
    <3> HIDE DEF h
    <3> QED
      BY <1>7, <3>2, <3>3
  <2> QED
    BY <2>1
<1>10. 0 \in 0..(m - 1) /\ h[0] = a
  <2>1. 0 \in 0..(m - 1)
    BY <1>4
  <2> QED
    BY <1>5, <1>6, <2>1
<1>11. Is(h, m)
  <2> HIDE DEF h
  <2> QED
    BY <1>8, <1>9, <1>10
<1> QED
  BY <1>2, <1>11 DEF Stepwise

\* What is nothing outside a part adds nothing to the sum of the part.
LEMMA SumOfPart ==
  ASSUME NEW f, NEW S, IsFiniteSet(S), NEW F, F \subseteq S,
         \A y \in S : f[y] \in Int /\ (y \notin F => f[y] = 0)
  PROVE  SumOver(f, S) = SumOver(f, F)
<1> DEFINE Bad == {T \in SUBSET S : F \subseteq T /\ SumOver(f, T) # SumOver(f, F)}
<1>1. SUFFICES ASSUME Bad # {} PROVE FALSE
  <2>1. S \notin Bad
    BY <1>1
  <2> QED
    BY <2>1
<1>2. PICK T \in Bad : \A U \in Bad : U \subseteq T => U = T
  <2>1. Bad \subseteq SUBSET S
    OBVIOUS
  <2> HIDE DEF Bad
  <2> QED
    BY <1>1, <2>1, LeastSet
<1>3. IsFiniteSet(T) /\ T \subseteq S /\ F \subseteq T /\ SumOver(f, T) # SumOver(f, F)
  BY <1>2, FS_Subset
<1>4. PICK x \in T : x \notin F
  BY <1>3
<1>5. f[x] = 0
  BY <1>3, <1>4
<1>6. SumOver(f, T) = f[x] + SumOver(f, T \ {x})
  <2>1. \A y \in T : f[y] \in Int
    BY <1>3
  <2> QED
    BY <1>3, <2>1, SumRemove
<1>7. SumOver(f, T \ {x}) = SumOver(f, F)
  <2>1. T \ {x} \in SUBSET S /\ T \ {x} \subseteq T /\ T \ {x} # T /\ F \subseteq T \ {x}
    BY <1>3, <1>4
  <2>2. T \ {x} \notin Bad
    <3> HIDE DEF Bad
    <3> QED
      BY <1>2, <2>1
  <2> QED
    BY <2>1, <2>2
<1>8. SumOver(f, F) \in Int
  <2>1. IsFiniteSet(F) /\ \A y \in F : f[y] \in Int
    BY <1>3, FS_Subset
  <2> QED
    BY <2>1, SumType
<1> QED
  BY <1>3, <1>5, <1>6, <1>7, <1>8

-----------------------------------------------------------------------------
(* Ratings                                                                  *)

\* What a grade says of its round: at least two of the roster, in some order.
GradeOK(g) ==
    /\ UNION ToSet(g.groups) \subseteq Variants
    /\ Cardinality(UNION ToSet(g.groups)) >= 2
    /\ DOMAIN g.groups \subseteq Int

\* One grade moves the ratings and leaves their sum.
LEMMA UpdateKeepsSum ==
  ASSUME NEW before \in [Variants -> Int], NEW g, GradeOK(g)
  PROVE  /\ UpdateElo(before, g.groups) \in [Variants -> Int]
         /\ SumOver(UpdateElo(before, g.groups), Variants) = SumOver(before, Variants)
<1> DEFINE groups == g.groups
           field == UNION ToSet(groups)
           rank == [v \in field |-> CHOOSE k \in DOMAIN groups : v \in groups[k]]
           weight == KFactor \div (Cardinality(field) - 1)
           d == [v \in field |-> [w \in field |-> Score(v, w, rank) - Expected(v, w, before)]]
           gains == [v \in field |-> SumOver(d[v], field \ {v})]
           moves == [v \in Variants |-> IF v \in field THEN weight * gains[v] ELSE 0]
<1>1. IsFiniteSet(Variants) /\ KFactor \in Int
  BY ArenaAssumption
<1>2. field \subseteq Variants /\ Cardinality(field) >= 2 /\ IsFiniteSet(field)
      /\ Cardinality(field) \in Nat
  BY <1>1, FS_Subset, FS_CardinalityType DEF GradeOK
<1>3. ASSUME NEW v \in field PROVE rank[v] \in Int /\ before[v] \in Int
  <2>1. PICK k \in DOMAIN groups : v \in groups[k]
    BY DEF ToSet
  <2>2. rank[v] \in DOMAIN groups
    BY <2>1
  <2>3. before[v] \in Int
    BY <1>2
  <2> QED
    BY <2>2, <2>3 DEF GradeOK
<1>4. weight \in Int
  <2> DEFINE others == Cardinality(field) - 1
  <2>1. others \in Int /\ others > 0
    BY <1>2
  <2> HIDE DEF others
  <2>2. KFactor \div others \in Int
    BY <1>1, <2>1
  <2> QED
    BY <2>2 DEF others
<1>5. ASSUME NEW v \in field, NEW w \in field
      PROVE  d[v][w] \in Int /\ (v # w => d[v][w] + d[w][v] = 0)
  <2>1. rank[v] \in Int /\ rank[w] \in Int /\ before[v] \in Int /\ before[w] \in Int
    BY <1>3
  <2>2. /\ d[v][w] = Score(v, w, rank) - Expected(v, w, before)
        /\ d[w][v] = Score(w, v, rank) - Expected(w, v, before)
    OBVIOUS
  <2> HIDE DEF d, rank
  <2>3. /\ Score(v, w, rank) \in Int /\ Score(w, v, rank) \in Int
        /\ Score(v, w, rank) + Score(w, v, rank) = 4
    BY <2>1 DEF Score
  <2>4. /\ Expected(v, w, before) \in Int /\ Expected(w, v, before) \in Int
        /\ Expected(v, w, before) + Expected(w, v, before) = 4
    BY <2>1 DEF Expected
  <2> QED
    BY <2>2, <2>3, <2>4
<1>6. \A v \in field : gains[v] = SumOver(d[v], field \ {v}) /\ gains[v] \in Int
  <2>1. ASSUME NEW v \in field PROVE SumOver(d[v], field \ {v}) \in Int
    <3>1. IsFiniteSet(field \ {v}) /\ \A w \in field \ {v} : d[v][w] \in Int
      <4> HIDE DEF d, field
      <4> QED
        BY <1>2, <1>5, FS_Subset
    <3> HIDE DEF d, field
    <3> QED
      BY <3>1, SumType
  <2> QED
    BY <2>1
<1>7. SumOver(gains, field) = 0
  <2> HIDE DEF d, field, gains
  <2> QED
    BY <1>2, <1>5, <1>6, SumOfGains
<1>8. \A v \in Variants : /\ v \in field => moves[v] = weight * gains[v]
                          /\ v \notin field => moves[v] = 0
  OBVIOUS
<1>9. \A v \in Variants : moves[v] \in Int
  <2> HIDE DEF moves, weight, gains, field
  <2>1. ASSUME NEW v \in Variants PROVE moves[v] \in Int
    <3>1. CASE v \in field
      <4>1. moves[v] = weight * gains[v] /\ gains[v] \in Int
        BY <1>6, <1>8, <3>1
      <4> QED
        BY <1>4, <4>1
    <3>2. CASE v \notin field
      BY <1>8, <3>2
    <3> QED
      BY <3>1, <3>2
  <2> QED
    BY <2>1
<1>10. SumOver(moves, Variants) = 0
  <2> HIDE DEF moves, weight, gains, field
  <2>1. SumOver(moves, Variants) = SumOver(moves, field)
    BY <1>1, <1>2, <1>8, <1>9, SumOfPart
  <2>2. SumOver(moves, field) = weight * SumOver(gains, field)
    <3>1. \A v \in field : gains[v] \in Int /\ moves[v] = weight * gains[v]
      BY <1>2, <1>6, <1>8
    <3> QED
      BY <1>2, <1>4, <3>1, SumScale
  <2>3. weight * 0 = 0
    BY <1>4
  <2> QED
    BY <1>7, <2>1, <2>2, <2>3
<1>11. UpdateElo(before, groups) = [v \in Variants |-> before[v] + moves[v]]
  <2>1. ASSUME NEW v \in field
        PROVE  SumOver([w \in field |-> Score(v, w, rank) - Expected(v, w, before)],
                       field \ {v}) = gains[v]
    OBVIOUS
  <2>2. UpdateElo(before, groups) =
          [v \in Variants |-> before[v]
             + IF v \in field
               THEN weight * SumOver([w \in field |-> Score(v, w, rank) - Expected(v, w, before)],
                                     field \ {v})
               ELSE 0]
    BY DEF UpdateElo
  <2> HIDE DEF gains, field, rank, weight
  <2> QED
    BY <2>1, <2>2
<1>12. \A v \in Variants : before[v] \in Int /\ moves[v] \in Int
          /\ UpdateElo(before, groups)[v] = before[v] + moves[v]
  <2> HIDE DEF moves
  <2> QED
    BY <1>9, <1>11
<1>13. UpdateElo(before, groups) \in [Variants -> Int]
  <2> HIDE DEF moves
  <2> QED
    BY <1>11, <1>12
<1>14. SumOver(UpdateElo(before, groups), Variants)
         = SumOver(before, Variants) + SumOver(moves, Variants)
  <2> HIDE DEF moves
  <2> QED
    BY <1>1, <1>12, SumAdd
<1>15. SumOver(before, Variants) \in Int
  BY <1>1, SumType
<1> QED
  BY <1>10, <1>13, <1>14, <1>15

\* Any sequence of grades leaves the sum of the ratings what it was at first.
LEMMA RatingsKeepSum ==
  ASSUME NEW grades, Len(grades) \in Nat, \A k \in 1..Len(grades) : GradeOK(grades[k])
  PROVE  SumOver(Ratings(grades), Variants) = StartElo * Cardinality(Variants)
<1> DEFINE n == Len(grades)
           R == [Variants -> Int]
           start == [v \in Variants |-> StartElo]
           total == StartElo * Cardinality(Variants)
           Next1(k, x) == IF k \in Placed(grades) THEN UpdateElo(x, grades[k].groups) ELSE x
           step == [k \in 1..n |-> [x \in R |-> Next1(k, x)]]
           Is(g) == g = [k \in 0..n |-> IF k = 0 THEN start ELSE Next1(k, g[k - 1])]
<1>1. IsFiniteSet(Variants) /\ StartElo \in Int /\ n \in Nat
  BY ArenaAssumption
<1>2. ASSUME NEW k \in 1..n, NEW x \in R
      PROVE  Next1(k, x) \in R /\ SumOver(Next1(k, x), Variants) = SumOver(x, Variants)
  BY UpdateKeepsSum
<1>3. start \in R /\ SumOver(start, Variants) = total
  BY <1>1, SumConstant
<1> HIDE DEF Next1, R, start, n, total
<1>4. \E g : Is(g)
  <2>1. step \in [1..n -> [R -> R]]
    BY <1>2
  <2>2. PICK g \in [0..n -> R] : g[0] = start /\ \A k \in 1..n : g[k] = step[k][g[k - 1]]
    <3> HIDE DEF step, Is
    <3>1. n \in Nat /\ start \in R
      BY <1>1, <1>3
    <3>2. PICK g : Stepwise(g, n, R, start, step)
      BY <2>1, <3>1, StepsExist
    <3> QED
      BY <3>2 DEF Stepwise
  <2>3. ASSUME NEW k \in 0..n PROVE g[k] = IF k = 0 THEN start ELSE Next1(k, g[k - 1])
    <3>1. k # 0 => k \in 1..n /\ k - 1 \in 0..n
      BY <1>1
    <3> QED
      BY <2>2, <3>1
  <2>4. Is(g)
    BY <2>2, <2>3
  <2> QED
    BY <2>4
<1> DEFINE after == CHOOSE g : Is(g)
<1>5. Is(after)
  BY <1>4
<1>6. Ratings(grades) = after[n]
  BY DEF Ratings, Next1, start, n
<1> HIDE DEF after
<1> DEFINE Bad == {k \in 0..n : ~(after[k] \in R /\ SumOver(after[k], Variants) = total)}
<1>7. Bad = {}
  <2>1. SUFFICES ASSUME Bad # {} PROVE FALSE
    OBVIOUS
  <2>2. PICK k \in Bad : \A i \in Bad : k <= i
    <3>1. Bad \subseteq Nat
      OBVIOUS
    <3> HIDE DEF Bad
    <3> QED
      BY <2>1, <3>1, LeastOf
  <2>3. k # 0
    <3>1. 0 \in 0..n
      BY <1>1
    <3>2. after[0] = start
      BY <1>5, <3>1
    <3> QED
      BY <1>3, <2>2, <3>2
  <2>4. k \in 1..n /\ k - 1 \in 0..n /\ ~(k <= k - 1)
    BY <1>1, <2>3
  <2>5. k - 1 \notin Bad
    <3> HIDE DEF Bad
    <3> QED
      BY <2>2, <2>4
  <2>6. after[k - 1] \in R /\ SumOver(after[k - 1], Variants) = total
    BY <2>4, <2>5
  <2>7. after[k] = Next1(k, after[k - 1])
    BY <1>5, <2>3, <2>4
  <2> QED
    BY <1>2, <2>2, <2>4, <2>6, <2>7
<1> QED
  <2>1. n \in 0..n
    BY <1>1
  <2> QED
    BY <1>6, <1>7, <2>1 DEF total

-----------------------------------------------------------------------------
(* The invariant                                                            *)

RunSet == [variant : Eligible, out : Outcomes \union {None}]
Pairings == {"schedule", "balanced", "weighted_best_available", "weighted_vs_probation",
             "weighted", "exploration_vs_rest", "exploration_vs_best_available", SelectionMode}
RoundSet ==
    [status : {"sampled", "completed", "graded", "dismissed"},
     pool : {"configured", None}, pairing : Pairings, index : Nat \union {None},
     runs : Seq(RunSet), from : Nat, slot : Nat, excluded : SUBSET Variants]
GradeSet == [pool : {"configured", "named"}, groups : Seq(SUBSET Variants)]

StateOK ==
    /\ rounds \in Seq(RoundSet)
    /\ log \in Seq(GradeSet)
    /\ op \in [champions : SUBSET Eligible, probation : SUBSET Eligible, cool : SUBSET Eligible]
    /\ draft \in [Callers -> RoundSet \union {None}]
    /\ raced \in BOOLEAN

\* The reviewers of a round are at least two, and no variant reviews twice; a
\* round of the pool has as many as a group.
Staffed(round) ==
    /\ Len(round.runs) >= 2
    /\ \A s, t \in DOMAIN round.runs :
         round.runs[s].variant = round.runs[t].variant => s = t
    /\ round.pool = "configured" => Len(round.runs) = GroupSize

\* A round refers to an earlier one, of the same pool.
Linked(round, n) ==
    /\ round.from < n
    /\ round.from > 0 => rounds[round.from].pool = round.pool

RoundsOK ==
    /\ Len(rounds) <= MaxRounds
    /\ \A n \in DOMAIN rounds :
        /\ Staffed(rounds[n]) /\ Linked(rounds[n], n)
        /\ rounds[n].status \in {"completed", "graded"} => Finished(rounds[n])
DraftsOK ==
    \A c \in Callers : draft[c] # None =>
        /\ Staffed(draft[c]) /\ Linked(draft[c], Len(rounds) + 1)
        /\ draft[c].status = "sampled"

\* There is a grade for each graded round, and of its pool.
GradedOf(pools) == {n \in DOMAIN rounds : rounds[n].status = "graded" /\ rounds[n].pool \in pools}
LogOK ==
    /\ \A k \in DOMAIN log : GradeOK(log[k])
    /\ Len(log) = Cardinality(GradedOf({"configured", None}))
    /\ Cardinality({k \in DOMAIN log : log[k].pool = "configured"})
         = Cardinality(GradedOf({"configured"}))

\* A selection of the pool that nothing overlapped is the next one.
Turn(k) == IF k < Len(Groups) THEN k ELSE None
DraftsInTurn ==
    ~raced => \A c \in Callers : draft[c] # None =>
        /\ \A d \in Callers : draft[d] # None => d = c
        /\ Undisturbed /\ draft[c].from = 0 /\ draft[c].pool = "configured"
             => draft[c].index = Turn(Cardinality(Roots))

ArenaInv == StateOK /\ RoundsOK /\ DraftsOK /\ LogOK
TurnInv == ArenaInv /\ DraftsInTurn /\ GroupsOnce

-----------------------------------------------------------------------------
(* What is counted                                                          *)

LEMMA UptoSize ==
  ASSUME NEW n \in Nat
  PROVE  IsFiniteSet(1..n) /\ Cardinality(1..n) = n
<1>1. IsFiniteSet(1..n) /\ Cardinality(1..n) = IF 1 > n THEN 0 ELSE n - 1 + 1
  BY FS_Interval
<1> QED
  BY <1>1

LEMMA Records ==
  ASSUME StateOK
  PROVE  /\ Len(rounds) \in Nat /\ DOMAIN rounds = 1..Len(rounds) /\ IsFiniteSet(DOMAIN rounds)
         /\ Len(log) \in Nat /\ DOMAIN log = 1..Len(log) /\ IsFiniteSet(DOMAIN log)
         /\ \A n \in DOMAIN rounds : rounds[n] \in RoundSet
         /\ \A k \in DOMAIN log : log[k] \in GradeSet
<1>1. /\ rounds \in Seq(RoundSet) /\ log \in Seq(GradeSet)
  BY DEF StateOK
<1> HIDE DEF RoundSet, GradeSet
<1>2. /\ Len(rounds) \in Nat /\ DOMAIN rounds = 1..Len(rounds)
      /\ Len(log) \in Nat /\ DOMAIN log = 1..Len(log)
      /\ \A n \in DOMAIN rounds : rounds[n] \in RoundSet
      /\ \A k \in DOMAIN log : log[k] \in GradeSet
  BY <1>1
<1>3. IsFiniteSet(DOMAIN rounds) /\ IsFiniteSet(DOMAIN log)
  BY <1>2, FS_Interval
<1> QED
  BY <1>2, <1>3

LEMMA MeetNat ==
  ASSUME StateOK, NEW vs, NEW pools
  PROVE  Meet(vs, pools) \in Nat
<1> DEFINE A == {n \in DOMAIN rounds :
                   Exposed(n) /\ rounds[n].pool \in pools /\ vs \subseteq VariantsOf(rounds[n])}
           B == {k \in DOMAIN log : log[k].pool \in pools /\ vs \subseteq UNION ToSet(log[k].groups)}
<1>1. IsFiniteSet(A) /\ IsFiniteSet(B)
  <2>1. A \subseteq DOMAIN rounds /\ B \subseteq DOMAIN log
    OBVIOUS
  <2> HIDE DEF A, B
  <2> QED
    BY <2>1, Records, FS_Subset
<1>2. Meet(vs, pools) = Cardinality(A) + Cardinality(B)
  BY DEF Meet
<1> HIDE DEF A, B
<1>3. Cardinality(A) \in Nat /\ Cardinality(B) \in Nat
  BY <1>1, FS_CardinalityType
<1> QED
  BY <1>2, <1>3

LEMMA ToSetFinite ==
  ASSUME NEW S, NEW s \in Seq(S)
  PROVE  IsFiniteSet(ToSet(s)) /\ ToSet(s) \subseteq S
<1>1. DOMAIN s = 1..Len(s) /\ Len(s) \in Nat
  OBVIOUS
<1>2. IsFiniteSet(DOMAIN s)
  BY <1>1, FS_Interval
<1>3. ToSet(s) = {s[i] : i \in DOMAIN s}
  BY DEF ToSet
<1>4. ToSet(s) \subseteq S
  BY <1>1, <1>3
<1>5. s \in Surjection(DOMAIN s, ToSet(s))
  <2>1. s \in [DOMAIN s -> ToSet(s)]
    BY DEF ToSet
  <2>2. \A t \in ToSet(s) : \E i \in DOMAIN s : s[i] = t
    BY DEF ToSet
  <2> QED
    BY <2>1, <2>2 DEF Surjection
<1>6. IsFiniteSet(ToSet(s))
  BY <1>2, <1>5, FS_Surjection
<1> QED
  BY <1>4, <1>6

\* A sequence without repetitions is as long as the set of its members.
LEMMA InjectiveLength ==
  ASSUME NEW S, NEW s \in Seq(S), IsInjective(s)
  PROVE  Cardinality(ToSet(s)) = Len(s)
<1>1. DOMAIN s = 1..Len(s) /\ Len(s) \in Nat
  OBVIOUS
<1>2. IsFiniteSet(DOMAIN s) /\ Cardinality(DOMAIN s) = Len(s)
  BY <1>1, FS_Interval
<1>3. s \in Bijection(DOMAIN s, ToSet(s))
  <2>1. s \in [DOMAIN s -> ToSet(s)]
    BY DEF ToSet
  <2>2. \A a, b \in DOMAIN s : s[a] = s[b] => a = b
    BY DEF IsInjective
  <2>3. \A t \in ToSet(s) : \E i \in DOMAIN s : s[i] = t
    BY DEF ToSet
  <2> QED
    BY <2>1, <2>2, <2>3 DEF Bijection, Injection, Surjection
<1>4. ExistsBijection(DOMAIN s, ToSet(s))
  BY <1>3 DEF ExistsBijection
<1> QED
  BY <1>2, <1>4, FS_Bijection

-----------------------------------------------------------------------------
(* Selecting a group of the pool                                            *)

LEMMA OrderOf ==
  /\ \A v \in ToSet(Candidates) : Order(v) \in Nat /\ Candidates[Order(v)] = v
  /\ \A v, w \in ToSet(Candidates) : Order(v) = Order(w) => v = w
<1>1. Candidates \in Seq(Variants)
  BY ArenaAssumption
<1>2. \A v \in ToSet(Candidates) : \E k \in DOMAIN Candidates : Candidates[k] = v
  BY DEF ToSet
<1>3. \A v \in ToSet(Candidates) : Order(v) \in DOMAIN Candidates /\ Candidates[Order(v)] = v
  BY <1>2 DEF Order
<1>4. DOMAIN Candidates \subseteq Nat
  BY <1>1
<1> QED
  BY <1>3, <1>4

LEMMA MeetingsNat ==
  ASSUME StateOK, NEW chosen \in Seq(Variants), NEW v
  PROVE  Meetings(v, chosen) \in Nat
<1> DEFINE met == [w \in Variants |-> Meet({v, w}, {"configured"})]
<1>1. IsFiniteSet(ToSet(chosen)) /\ ToSet(chosen) \subseteq Variants
  BY ToSetFinite
<1>2. \A w \in ToSet(chosen) : met[w] \in Nat
  BY <1>1, MeetNat
<1>3. Meetings(v, chosen) = SumOver(met, ToSet(chosen))
  BY DEF Meetings
<1> HIDE DEF met
<1> QED
  BY <1>1, <1>2, <1>3, SumNatural

\* select_from has a first choice: Before orders the candidates.
LEMMA FirstChoice ==
  ASSUME StateOK, NEW chosen \in Seq(Variants),
         NEW rest, rest \subseteq ToSet(Candidates), rest # {}
  PROVE  \E v \in rest : \A w \in rest \ {v} : Before(v, w, chosen)
<1> DEFINE M(v) == Meetings(v, chosen)
           N(v) == Samples(v, {"configured"})
<1>1. \A v \in rest : M(v) \in Nat /\ N(v) \in Nat /\ Order(v) \in Nat
  <2>1. \A v \in rest : M(v) \in Nat
    BY MeetingsNat
  <2>2. \A v \in rest : N(v) \in Nat
    BY MeetNat DEF Samples
  <2>3. \A v \in rest : Order(v) \in Nat
    BY OrderOf
  <2> QED
    BY <2>1, <2>2, <2>3
<1>2. \A v, w \in rest : Order(v) = Order(w) => v = w
  BY OrderOf
<1> HIDE DEF M, N
<1> DEFINE A == {M(v) : v \in rest}
<1>3. PICK a \in A : \A x \in A : a <= x
  <2>1. A \subseteq Nat /\ A # {}
    BY <1>1
  <2> HIDE DEF A
  <2> QED
    BY <2>1, LeastOf
<1> DEFINE RA == {v \in rest : M(v) = a}
           B == {N(v) : v \in RA}
<1>4. PICK b \in B : \A x \in B : b <= x
  <2>1. B \subseteq Nat /\ B # {}
    BY <1>1
  <2> HIDE DEF B
  <2> QED
    BY <2>1, LeastOf
<1> DEFINE RB == {v \in RA : N(v) = b}
           C == {Order(v) : v \in RB}
<1>5. PICK c \in C : \A x \in C : c <= x
  <2>1. C \subseteq Nat /\ C # {}
    BY <1>1
  <2> HIDE DEF C
  <2> QED
    BY <2>1, LeastOf
<1>6. PICK v \in rest : M(v) = a /\ N(v) = b /\ Order(v) = c
  BY <1>5
<1>7. ASSUME NEW w \in rest \ {v} PROVE Before(v, w, chosen)
  <2>1. M(v) <= M(w)
    BY <1>3, <1>6
  <2>2. M(w) = M(v) => N(v) <= N(w)
    BY <1>4, <1>6
  <2>3. M(w) = M(v) /\ N(w) = N(v) => Order(v) <= Order(w)
    BY <1>5, <1>6
  <2>4. Order(v) # Order(w)
    BY <1>2
  <2>5. M(w) \in Nat /\ N(w) \in Nat /\ Order(w) \in Nat
        /\ M(v) \in Nat /\ N(v) \in Nat /\ Order(v) \in Nat
    BY <1>1
  <2> HIDE DEF A, B, C, RA, RB
  <2>6. \/ M(v) < M(w)
        \/ M(v) = M(w) /\ (N(v) < N(w) \/ (N(v) = N(w) /\ Order(v) < Order(w)))
    BY <2>1, <2>2, <2>3, <2>4, <2>5
  <2> QED
    BY <2>6 DEF Before, M, N
<1> QED
  BY <1>7

LEMMA AppendNew ==
  ASSUME NEW S, NEW s \in Seq(S), IsInjective(s), NEW v \in S, v \notin ToSet(s)
  PROVE  /\ Append(s, v) \in Seq(S) /\ IsInjective(Append(s, v))
         /\ ToSet(Append(s, v)) = ToSet(s) \union {v}
         /\ Len(Append(s, v)) = Len(s) + 1
<1> DEFINE t == Append(s, v)
           n == Len(s) + 1
<1>1. /\ t \in Seq(S) /\ Len(t) = n /\ Len(s) \in Nat /\ n \in DOMAIN t
      /\ DOMAIN s = 1..Len(s) /\ DOMAIN t = 1..n /\ t[n] = v
      /\ \A i \in DOMAIN s : t[i] = s[i] /\ i \in DOMAIN t
  OBVIOUS
<1>2. \A i \in DOMAIN t : i = n \/ i \in DOMAIN s
  BY <1>1
<1> HIDE DEF t, n
<1>3. \A i \in DOMAIN s : s[i] \in ToSet(s)
  BY DEF ToSet
<1>4. IsInjective(t)
  <2>1. ASSUME NEW i \in DOMAIN t, NEW j \in DOMAIN t, t[i] = t[j] PROVE i = j
    <3>1. CASE i \in DOMAIN s /\ j \in DOMAIN s
      BY <1>1, <2>1, <3>1 DEF IsInjective
    <3>2. CASE i = n /\ j = n
      BY <3>2
    <3>3. CASE (i = n /\ j \in DOMAIN s) \/ (j = n /\ i \in DOMAIN s)
      BY <1>1, <1>3, <2>1, <3>3
    <3> QED
      BY <1>2, <3>1, <3>2, <3>3
  <2> QED
    BY <2>1 DEF IsInjective
<1>5. ToSet(t) = ToSet(s) \union {v}
  <2>1. ASSUME NEW x \in ToSet(t) PROVE x \in ToSet(s) \union {v}
    <3>1. PICK i \in DOMAIN t : t[i] = x
      BY DEF ToSet
    <3> QED
      BY <1>1, <1>2, <1>3, <3>1
  <2>2. ASSUME NEW x \in ToSet(s) PROVE x \in ToSet(t)
    <3>1. PICK i \in DOMAIN s : s[i] = x
      BY DEF ToSet
    <3> QED
      BY <1>1, <3>1 DEF ToSet
  <2>3. v \in ToSet(t)
    BY <1>1 DEF ToSet
  <2> QED
    BY <2>1, <2>2, <2>3
<1> QED
  BY <1>1, <1>4, <1>5 DEF t, n

\* Sequences of different variants.
Lists == {x \in Seq(Variants) : IsInjective(x)}

\* One more reviewer, as long as there is one.
LEMMA SelectOneIs ==
  ASSUME StateOK, NEW chosen \in Lists, NEW from, from \subseteq ToSet(Candidates)
  PROVE  /\ SelectOne(chosen, from) \in Lists
         /\ \/ from \subseteq ToSet(chosen) /\ SelectOne(chosen, from) = chosen
            \/ /\ Len(SelectOne(chosen, from)) = Len(chosen) + 1
               /\ ToSet(chosen) \subseteq ToSet(SelectOne(chosen, from))
               /\ ToSet(SelectOne(chosen, from)) \subseteq ToSet(chosen) \union from
<1> DEFINE rest == from \ ToSet(chosen)
<1>1. chosen \in Seq(Variants) /\ IsInjective(chosen)
  BY DEF Lists
<1>2. CASE rest = {}
  BY <1>2 DEF SelectOne
<1>3. CASE rest # {}
  <2> DEFINE v == CHOOSE x \in rest : \A w \in rest \ {x} : Before(x, w, chosen)
  <2>1. rest \subseteq ToSet(Candidates)
    OBVIOUS
  <2>2. \E x \in rest : \A w \in rest \ {x} : Before(x, w, chosen)
    <3> HIDE DEF rest
    <3> QED
      BY <1>1, <1>3, <2>1, FirstChoice
  <2>3. v \in rest
    <3> HIDE DEF rest
    <3> QED
      BY <2>2
  <2>4. SelectOne(chosen, from) = Append(chosen, v)
    BY <1>3 DEF SelectOne
  <2> HIDE DEF v
  <2>5. v \in Variants /\ v \in from /\ v \notin ToSet(chosen)
    <3>1. ToSet(Candidates) \subseteq Variants
      BY ArenaAssumption
    <3> QED
      BY <2>3, <3>1
  <2>6. /\ Append(chosen, v) \in Seq(Variants) /\ IsInjective(Append(chosen, v))
        /\ ToSet(Append(chosen, v)) = ToSet(chosen) \union {v}
        /\ Len(Append(chosen, v)) = Len(chosen) + 1
    BY <1>1, <2>5, AppendNew
  <2> HIDE DEF rest
  <2> QED
    BY <2>4, <2>5, <2>6 DEF Lists
<1> QED
  BY <1>2, <1>3

\* select_from: as many as asked for, or all there are.
LEMMA SelectFromIs ==
  ASSUME StateOK, NEW selected \in Lists, NEW from, from \subseteq ToSet(Candidates),
         NEW count \in Nat
  PROVE  LET all == SelectFrom(selected, from, count)
         IN  /\ all \in Lists
             /\ ToSet(all) \subseteq ToSet(selected) \union from
             /\ Len(selected) <= Len(all) /\ Len(all) <= Len(selected) + count
             /\ Len(all) = Len(selected) + count \/ from \subseteq ToSet(all)
<1> DEFINE One(x) == SelectOne(x, from)
           step == [k \in 1..count |-> [x \in Lists |-> One(x)]]
           Is(g) == g = [k \in 0..count |-> IF k = 0 THEN selected ELSE One(g[k - 1])]
<1>1. ASSUME NEW x \in Lists
      PROVE  /\ One(x) \in Lists
             /\ \/ from \subseteq ToSet(x) /\ One(x) = x
                \/ /\ Len(One(x)) = Len(x) + 1
                   /\ ToSet(x) \subseteq ToSet(One(x))
                   /\ ToSet(One(x)) \subseteq ToSet(x) \union from
  BY SelectOneIs
<1>2. \A x \in Lists : Len(x) \in Nat
  BY DEF Lists
<1> HIDE DEF One
<1>3. \E g : Is(g)
  <2>1. step \in [1..count -> [Lists -> Lists]]
    BY <1>1
  <2>2. PICK g \in [0..count -> Lists] :
          g[0] = selected /\ \A k \in 1..count : g[k] = step[k][g[k - 1]]
    <3> HIDE DEF step, Is
    <3>1. PICK g : Stepwise(g, count, Lists, selected, step)
      BY <2>1, StepsExist
    <3> QED
      BY <3>1 DEF Stepwise
  <2>3. ASSUME NEW k \in 0..count PROVE g[k] = IF k = 0 THEN selected ELSE One(g[k - 1])
    <3>1. k # 0 => k \in 1..count /\ k - 1 \in 0..count
      OBVIOUS
    <3> QED
      BY <2>2, <3>1
  <2>4. Is(g)
    BY <2>2, <2>3
  <2> QED
    BY <2>4
<1> DEFINE list == CHOOSE g : Is(g)
<1>4. Is(list)
  BY <1>3
<1>5. SelectFrom(selected, from, count) = list[count]
  BY DEF SelectFrom, One
<1> HIDE DEF list
<1> DEFINE Good(k) == /\ list[k] \in Lists
                      /\ ToSet(list[k]) \subseteq ToSet(selected) \union from
                      /\ Len(selected) <= Len(list[k]) /\ Len(list[k]) <= Len(selected) + k
                      /\ Len(list[k]) = Len(selected) + k \/ from \subseteq ToSet(list[k])
           Bad == {k \in 0..count : ~Good(k)}
<1>6. Bad = {}
  <2>1. SUFFICES ASSUME Bad # {} PROVE FALSE
    OBVIOUS
  <2>2. PICK k \in Bad : \A i \in Bad : k <= i
    <3>1. Bad \subseteq Nat
      OBVIOUS
    <3> HIDE DEF Bad
    <3> QED
      BY <2>1, <3>1, LeastOf
  <2>3. k # 0
    <3>1. list[0] = selected
      BY <1>4
    <3>2. Good(0)
      BY <1>2, <3>1
    <3> QED
      BY <2>2, <3>2
  <2>4. k \in 0..count /\ k \in Nat /\ k - 1 \in 0..count /\ ~(k <= k - 1)
    BY <2>3
  <2>5. Good(k - 1)
    <3>1. k - 1 \notin Bad
      <4> HIDE DEF Bad
      <4> QED
        BY <2>2, <2>4
    <3> QED
      BY <2>4, <3>1
  <2>6. list[k] = One(list[k - 1])
    BY <1>4, <2>3, <2>4
  <2> DEFINE x == list[k - 1]
             y == list[k]
  <2>7. x \in Lists /\ y \in Lists /\ Len(x) \in Nat /\ Len(y) \in Nat /\ Len(selected) \in Nat
    BY <1>1, <1>2, <2>5, <2>6
  <2>8. \/ from \subseteq ToSet(x) /\ y = x
        \/ Len(y) = Len(x) + 1 /\ ToSet(x) \subseteq ToSet(y)
           /\ ToSet(y) \subseteq ToSet(x) \union from
    BY <1>1, <2>5, <2>6
  <2>9. /\ ToSet(x) \subseteq ToSet(selected) \union from
        /\ Len(selected) <= Len(x) /\ Len(x) <= Len(selected) + (k - 1)
        /\ Len(x) = Len(selected) + (k - 1) \/ from \subseteq ToSet(x)
    BY <2>5
  <2> HIDE DEF x, y
  <2>10. ToSet(y) \subseteq ToSet(selected) \union from
    BY <2>8, <2>9
  <2>11. Len(selected) <= Len(y) /\ Len(y) <= Len(selected) + k
    BY <2>4, <2>7, <2>8, <2>9
  <2>12. Len(y) = Len(selected) + k \/ from \subseteq ToSet(y)
    <3>1. CASE y = x /\ from \subseteq ToSet(x)
      BY <3>1
    <3>2. CASE from \subseteq ToSet(x) /\ ToSet(x) \subseteq ToSet(y)
      BY <3>2
    <3>3. CASE Len(y) = Len(x) + 1 /\ Len(x) = Len(selected) + (k - 1)
      BY <2>4, <2>7, <3>3
    <3> QED
      BY <2>8, <2>9, <3>1, <3>2, <3>3
  <2>13. Good(k)
    BY <2>7, <2>10, <2>11, <2>12 DEF y
  <2> QED
    BY <2>2, <2>13
<1>7. Good(count)
  BY <1>6
<1> QED
  BY <1>5, <1>7

LEMMA GroupSizes ==
  /\ GroupSize \in Nat /\ GroupSize >= 2 /\ Len(Groups) \in Nat /\ Len(Groups) >= 1
  /\ \A k \in 1..Len(Groups) : Groups[k] \in Lists /\ Len(Groups[k]) = GroupSize
<1>1. Groups \in Seq(Seq(Variants)) /\ Groups # <<>>
  BY ArenaAssumption
<1>2. /\ Len(Groups) \in Nat /\ Len(Groups) >= 1 /\ DOMAIN Groups = 1..Len(Groups)
      /\ \A k \in 1..Len(Groups) : Groups[k] \in Seq(Variants)
  BY <1>1
<1>3. \A k \in 1..Len(Groups) : Len(Groups[k]) = GroupSize /\ Len(Groups[k]) >= 2
                                /\ IsInjective(Groups[k])
  BY <1>2, ArenaAssumption DEF GroupSize
<1>4. GroupSize \in Nat /\ GroupSize >= 2
  <2>1. 1 \in 1..Len(Groups)
    BY <1>2
  <2>2. Len(Groups[1]) \in Nat
    BY <1>2, <2>1
  <2> QED
    BY <1>3, <2>1, <2>2 DEF GroupSize
<1> QED
  BY <1>2, <1>3, <1>4 DEF Lists

\* The schedule: the group whose turn it is.
LEMMA ScheduleIs ==
  ASSUME StateOK
  PROVE  /\ PoolRecords \in Nat /\ NextIndex \in Nat
         /\ ScheduledGroup \in Lists /\ Len(ScheduledGroup) = GroupSize
         /\ PoolRecords < Len(Groups) => NextIndex = PoolRecords
<1>1. PoolRecords \in Nat
  BY MeetNat DEF PoolRecords
<1> DEFINE len == Len(Groups)
<1>2. len \in Nat /\ len >= 1
  BY GroupSizes
<1> HIDE DEF len
<1>3. PoolRecords % len \in 0..(len - 1) /\ (PoolRecords < len => PoolRecords % len = PoolRecords)
  BY <1>1, <1>2
<1>4. NextIndex = PoolRecords % len
  BY DEF NextIndex, len
<1>5. NextIndex + 1 \in 1..len
  BY <1>2, <1>3, <1>4
<1> QED
  BY <1>1, <1>3, <1>4, <1>5, GroupSizes DEF ScheduledGroup, len

\* _balanced_configured_variant_group fills the group.
LEMMA BalancedGroupIs ==
  ASSUME StateOK, CanBalance
  PROVE  /\ BalancedGroup \in Lists /\ Len(BalancedGroup) = GroupSize
         /\ ToSet(BalancedGroup) \subseteq Available
<1> DEFINE kept == Lesser(Cardinality(Established), GroupSize \div 2)
           first == Lesser(Cardinality(NewCohort), GroupSize - kept)
           fresh == SelectFrom(<<>>, NewCohort, first)
           mixed == SelectFrom(fresh, Established, GroupSize - Len(fresh))
           whole == SelectFrom(mixed, BalanceCandidates, GroupSize - Len(mixed))
<1>1. /\ BalanceCandidates \subseteq ToSet(Candidates) /\ BalanceCandidates \subseteq Available
      /\ NewCohort \subseteq BalanceCandidates /\ Established \subseteq BalanceCandidates
  BY DEF BalanceCandidates, NewCohort, Established
<1>2. IsFiniteSet(BalanceCandidates) /\ IsFiniteSet(NewCohort) /\ IsFiniteSet(Established)
  <2>1. IsFiniteSet(ToSet(Candidates))
    BY ArenaAssumption, ToSetFinite
  <2>2. IsFiniteSet(BalanceCandidates)
    BY <1>1, <2>1, FS_Subset
  <2> QED
    BY <1>1, <2>2, FS_Subset
<1>3. GroupSize \in Nat /\ kept \in Nat /\ kept <= GroupSize
  <2>1. GroupSize \in Nat
    BY GroupSizes
  <2>2. GroupSize \div 2 \in Nat /\ GroupSize \div 2 <= GroupSize
    BY <2>1
  <2>3. Cardinality(Established) \in Nat
    BY <1>2, FS_CardinalityType
  <2> QED
    BY <2>1, <2>2, <2>3 DEF Lesser
<1>4. first \in Nat /\ first <= GroupSize
  <2> HIDE DEF kept
  <2>1. Cardinality(NewCohort) \in Nat
    BY <1>2, FS_CardinalityType
  <2> QED
    BY <1>3, <2>1 DEF Lesser
<1>5. <<>> \in Lists /\ ToSet(<<>>) = {} /\ Len(<<>>) = 0
  BY DEF Lists, IsInjective, ToSet
<1> HIDE DEF first, kept
<1>6. fresh \in Lists /\ ToSet(fresh) \subseteq NewCohort /\ Len(fresh) \in Nat
      /\ Len(fresh) <= GroupSize
  <2>1. NewCohort \subseteq ToSet(Candidates)
    BY <1>1
  <2>2. /\ fresh \in Lists /\ ToSet(fresh) \subseteq ToSet(<<>>) \union NewCohort
        /\ Len(fresh) <= Len(<<>>) + first
    BY <1>4, <1>5, <2>1, SelectFromIs
  <2> HIDE DEF fresh
  <2>3. Len(fresh) \in Nat
    BY <2>2 DEF Lists
  <2> QED
    BY <1>3, <1>4, <1>5, <2>2, <2>3
<1> HIDE DEF fresh
<1>7. mixed \in Lists /\ ToSet(mixed) \subseteq BalanceCandidates /\ Len(mixed) \in Nat
      /\ Len(mixed) <= GroupSize
  <2>1. Established \subseteq ToSet(Candidates) /\ GroupSize - Len(fresh) \in Nat
    BY <1>1, <1>3, <1>6
  <2>2. /\ mixed \in Lists /\ ToSet(mixed) \subseteq ToSet(fresh) \union Established
        /\ Len(mixed) <= Len(fresh) + (GroupSize - Len(fresh))
    BY <1>6, <2>1, SelectFromIs
  <2> HIDE DEF mixed
  <2>3. Len(mixed) \in Nat
    BY <2>2 DEF Lists
  <2> QED
    BY <1>1, <1>3, <1>6, <2>2, <2>3
<1> HIDE DEF mixed
<1>8. /\ whole \in Lists /\ ToSet(whole) \subseteq BalanceCandidates
      /\ Len(whole) \in Nat /\ Len(whole) <= GroupSize
      /\ Len(whole) = GroupSize \/ BalanceCandidates \subseteq ToSet(whole)
  <2>1. GroupSize - Len(mixed) \in Nat
    BY <1>3, <1>7
  <2>2. /\ whole \in Lists /\ ToSet(whole) \subseteq ToSet(mixed) \union BalanceCandidates
        /\ Len(whole) <= Len(mixed) + (GroupSize - Len(mixed))
        /\ \/ Len(whole) = Len(mixed) + (GroupSize - Len(mixed))
           \/ BalanceCandidates \subseteq ToSet(whole)
    BY <1>1, <1>7, <2>1, SelectFromIs
  <2> HIDE DEF whole
  <2>3. Len(whole) \in Nat
    BY <2>2 DEF Lists
  <2> QED
    BY <1>3, <1>7, <2>2, <2>3
<1>9. BalancedGroup = whole
  BY DEF BalancedGroup, whole, mixed, fresh, first, kept
<1> HIDE DEF whole
<1>10. BalanceCandidates \subseteq ToSet(whole) => Len(whole) >= GroupSize
  <2>1. Cardinality(ToSet(whole)) = Len(whole)
    BY <1>8, InjectiveLength DEF Lists
  <2>2. SUFFICES ASSUME BalanceCandidates \subseteq ToSet(whole)
                 PROVE  Len(whole) >= GroupSize
    OBVIOUS
  <2>3. ToSet(whole) = BalanceCandidates
    BY <1>8, <2>2
  <2> QED
    BY <2>1, <2>3 DEF CanBalance
<1> QED
  BY <1>1, <1>3, <1>8, <1>9, <1>10

LEMMA RunsOfIs ==
  ASSUME StateOK, NEW vs \in Lists, ToSet(vs) \subseteq Available
  PROVE  /\ RunsOf(vs) \in Seq(RunSet) /\ Len(RunsOf(vs)) = Len(vs)
         /\ DOMAIN RunsOf(vs) = 1..Len(vs)
         /\ \A s, t \in DOMAIN RunsOf(vs) :
              RunsOf(vs)[s].variant = RunsOf(vs)[t].variant => s = t
<1>1. DOMAIN vs = 1..Len(vs) /\ Len(vs) \in Nat /\ IsInjective(vs)
  BY DEF Lists
<1>2. \A s \in 1..Len(vs) : vs[s] \in Eligible
  BY <1>1 DEF ToSet, Available
<1>3. RunsOf(vs) = [s \in 1..Len(vs) |-> Run(vs[s])]
  BY <1>1 DEF RunsOf
<1>4. \A s \in 1..Len(vs) : RunsOf(vs)[s] = [variant |-> vs[s], out |-> None]
  BY <1>3 DEF Run
<1>5. \A s \in 1..Len(vs) : RunsOf(vs)[s] \in RunSet /\ RunsOf(vs)[s].variant = vs[s]
  <2>1. ASSUME NEW s \in 1..Len(vs)
        PROVE  RunsOf(vs)[s] \in RunSet /\ RunsOf(vs)[s].variant = vs[s]
    <3>1. vs[s] \in Eligible /\ None \in Outcomes \union {None}
      BY <1>2
    <3>2. RunsOf(vs)[s] = [variant |-> vs[s], out |-> None]
      BY <1>4
    <3> HIDE DEF Eligible, Outcomes
    <3> QED
      BY <3>1, <3>2 DEF RunSet
  <2> QED
    BY <2>1
<1>6. RunsOf(vs) \in Seq(RunSet) /\ Len(RunsOf(vs)) = Len(vs) /\ DOMAIN RunsOf(vs) = 1..Len(vs)
  <2> HIDE DEF RunSet
  <2>1. RunsOf(vs) \in [1..Len(vs) -> RunSet]
    BY <1>3, <1>5
  <2> QED
    BY <1>1, <2>1
<1> QED
  BY <1>1, <1>5, <1>6 DEF IsInjective

\* A pair outside the pool: two different variants.
PairFrom(p, vs, pairings) ==
    \E a \in vs : \E b \in vs \ {a} : \E w \in pairings :
        p = [pair |-> <<a, b>>, pairing |-> w]

LEMMA ProbesDiffer ==
  ASSUME NEW vs, NEW p \in ScrambleProbes(vs)
  PROVE  PairFrom(p, vs, Pairings)
<1> DEFINE preferred == vs \ op.probation
<1>1. Most(vs) \subseteq vs
  BY DEF Most
<1>2. CASE preferred = {}
  <2>1. p \in PairsOf(Most(vs), LAMBDA a : vs, "weighted_best_available")
    BY <1>2 DEF ScrambleProbes
  <2>2. PICK a \in Most(vs) : \E b \in vs \ {a} :
          p = [pair |-> <<a, b>>, pairing |-> "weighted_best_available"]
    BY <2>1 DEF PairsOf
  <2> QED
    BY <1>1, <2>2 DEF PairFrom, Pairings
<1>3. CASE preferred # {}
  <2>1. \/ p \in PairsOf(preferred, LAMBDA a : vs \intersect op.probation,
                         "weighted_vs_probation")
        \/ p \in PairsOf(preferred, LAMBDA a : preferred, "weighted")
    BY <1>3 DEF ScrambleProbes
  <2>2. PICK a \in preferred : \E b \in vs \ {a} :
          \/ p = [pair |-> <<a, b>>, pairing |-> "weighted_vs_probation"]
          \/ p = [pair |-> <<a, b>>, pairing |-> "weighted"]
    BY <2>1 DEF PairsOf
  <2> QED
    BY <2>2 DEF PairFrom, Pairings
<1> QED
  BY <1>2, <1>3

LEMMA ExploresDiffer ==
  ASSUME NEW vs, NEW unders \in SUBSET vs, NEW p \in ScrambleExplores(vs, unders)
  PROVE  PairFrom(p, vs, Pairings)
<1> DEFINE Rest(a) == vs \ (Under(vs, Eligible) \union op.probation \union {a})
           Degraded(a) == IF vs \ (op.probation \union {a}) # {}
                          THEN vs \ (op.probation \union {a}) ELSE vs \ {a}
           matched == {a \in Least(unders) : Rest(a) # {}}
<1>1. Least(unders) \subseteq vs /\ matched \subseteq vs
      /\ \A a : Rest(a) \subseteq vs /\ Most(Degraded(a)) \subseteq vs
  BY DEF Least, Most
<1>2. \/ p \in PairsOf(matched, Rest, "exploration_vs_rest")
      \/ p \in PairsOf(Least(unders) \ matched, LAMBDA a : Most(Degraded(a)),
                       "exploration_vs_best_available")
  BY DEF ScrambleExplores
<1>3. CASE p \in PairsOf(matched, Rest, "exploration_vs_rest")
  <2>1. PICK a \in matched : \E b \in Rest(a) \ {a} :
          p = [pair |-> <<a, b>>, pairing |-> "exploration_vs_rest"]
    BY <1>3 DEF PairsOf
  <2> QED
    BY <1>1, <2>1 DEF PairFrom, Pairings
<1>4. CASE p \in PairsOf(Least(unders) \ matched, LAMBDA a : Most(Degraded(a)),
                        "exploration_vs_best_available")
  <2> HIDE DEF matched, Degraded
  <2>1. PICK a \in Least(unders) \ matched : \E b \in Most(Degraded(a)) \ {a} :
          p = [pair |-> <<a, b>>, pairing |-> "exploration_vs_best_available"]
    BY <1>4 DEF PairsOf
  <2> QED
    BY <1>1, <2>1 DEF PairFrom, Pairings
<1> QED
  BY <1>2, <1>3, <1>4

LEMMA PairsDiffer ==
  ASSUME NEW p \in Pairs
  PROVE  PairFrom(p, Available, Pairings)
<1>1. CASE SelectionMode # "legacy"
  <2>1. p \in PairsOf(Available, LAMBDA a : Available, SelectionMode)
    BY <1>1 DEF Pairs
  <2>2. PICK a \in Available : \E b \in Available \ {a} :
          p = [pair |-> <<a, b>>, pairing |-> SelectionMode]
    BY <2>1 DEF PairsOf
  <2> QED
    BY <2>2 DEF PairFrom, Pairings
<1>2. CASE SelectionMode = "legacy"
  <2> DEFINE unders == Under(Available, Eligible) \ op.probation
  <2>1. unders \in SUBSET Available
    BY DEF Under
  <2>2. p \in ScrambleProbes(Available) \/ p \in ScrambleExplores(Available, unders)
    BY <1>2 DEF Pairs, ScramblePairs
  <2> HIDE DEF unders
  <2> QED
    BY <2>1, <2>2, ProbesDiffer, ExploresDiffer
<1> QED
  BY <1>1, <1>2

-----------------------------------------------------------------------------
(* Replacing a reviewer                                                     *)

LEMMA FirstIn ==
  ASSUME NEW vs, NEW choices \in Seq(SUBSET vs)
  PROVE  First(choices) \subseteq vs
<1>1. DOMAIN choices = 1..Len(choices) /\ \A k \in DOMAIN choices : choices[k] \subseteq vs
  OBVIOUS
<1> DEFINE some == {k \in DOMAIN choices : choices[k] # {}}
<1>2. CASE some = {}
  BY <1>2 DEF First
<1>3. CASE some # {}
  <2>1. PICK x \in some : \A y \in some : x <= y
    <3>1. some \subseteq Nat
      BY <1>1
    <3> HIDE DEF some
    <3> QED
      BY <1>3, <3>1, LeastOf
  <2>2. Min(some) \in some
    <3> HIDE DEF some
    <3> QED
      BY <2>1 DEF Min
  <2>3. First(choices) = choices[Min(some)]
    BY <1>3 DEF First
  <2> QED
    BY <1>1, <2>2, <2>3
<1> QED
  BY <1>2, <1>3

LEMMA ScrambleCandidatesIn ==
  ASSUME NEW round, NEW slot, NEW vs, NEW all
  PROVE  ScrambleCandidates(round, slot, vs, all) \subseteq vs
<1> DEFINE calm == vs \ op.probation
           under == Under(vs, all)
           uncalm == Under(calm, all)
           f1 == <<vs \intersect op.probation, vs \ under, vs>>
           f2 == <<calm, vs>>
           f3 == <<calm, IF slot = 2 THEN vs \ under ELSE {}, vs>>
           f4 == <<Most(calm), Most(vs)>>
           f5 == <<uncalm, calm, vs>>
           f6 == <<calm \ under, vs \ under, vs>>
<1>1. uncalm \subseteq vs /\ Most(calm) \subseteq vs /\ Most(vs) \subseteq vs
  BY DEF Under, Most
<1>2. /\ f1 \in Seq(SUBSET vs) /\ f2 \in Seq(SUBSET vs) /\ f3 \in Seq(SUBSET vs)
      /\ f4 \in Seq(SUBSET vs) /\ f5 \in Seq(SUBSET vs) /\ f6 \in Seq(SUBSET vs)
  <2> HIDE DEF under, uncalm
  <2> QED
    BY <1>1
<1>3. \A f \in {f1, f2, f3, f4, f5, f6} : First(f) \subseteq vs
  <2> HIDE DEF f1, f2, f3, f4, f5, f6
  <2> QED
    BY <1>2, FirstIn
<1>4. ScrambleCandidates(round, slot, vs, all) \in
        {First(f) : f \in {f1, f2, f3, f4, f5, f6}} \union {Most(vs)}
  <2> HIDE DEF under, uncalm, f1, f2, f3, f4, f5, f6
  <2>1. /\ f1 = <<vs \intersect op.probation, vs \ under, vs>> /\ f2 = <<calm, vs>>
        /\ f3 = <<calm, IF slot = 2 THEN vs \ under ELSE {}, vs>>
        /\ f4 = <<Most(calm), Most(vs)>>
        /\ f5 = <<uncalm, calm, vs>> /\ f6 = <<calm \ under, vs \ under, vs>>
    BY DEF f1, f2, f3, f4, f5, f6
  <2>2. under = Under(vs, all) /\ uncalm = Under(calm, all)
    BY DEF under, uncalm
  <2>3. \/ ScrambleCandidates(round, slot, vs, all) = First(f1)
        \/ ScrambleCandidates(round, slot, vs, all) = First(f2)
        \/ ScrambleCandidates(round, slot, vs, all) = First(f3)
        \/ ScrambleCandidates(round, slot, vs, all) = First(f4)
        \/ ScrambleCandidates(round, slot, vs, all) = First(f5)
        \/ ScrambleCandidates(round, slot, vs, all) = First(f6)
        \/ ScrambleCandidates(round, slot, vs, all) = Most(vs)
    BY <2>1, <2>2 DEF ScrambleCandidates
  <2> QED
    BY <2>3
<1> QED
  BY <1>1, <1>3, <1>4

\* build_reroll_slot_payload: who takes a slot has no other slot of the round.
LEMMA ReplacementIs ==
  ASSUME StateOK, NEW round \in RoundSet, Staffed(round), NEW slot \in DOMAIN round.runs,
         NEW v \in Replacements(round, slot)
  PROVE  /\ v \in Eligible
         /\ \A s \in DOMAIN round.runs : s # slot => round.runs[s].variant # v
<1> DEFINE all == Eligible \ Excluded(round, slot)
           vs == all \ op.cool
<1>1. round.runs \in Seq(RunSet)
  BY DEF RoundSet
<1>2. \A s \in DOMAIN round.runs : round.runs[s] \in RunSet
  BY <1>1
<1>3. CASE Retries(round, slot)
  <2>1. v = round.runs[slot].variant
    BY <1>3 DEF Replacements
  <2>2. v \in Eligible
    BY <1>2, <2>1 DEF RunSet
  <2> QED
    BY <2>1, <2>2 DEF Staffed
<1>4. CASE ~Retries(round, slot)
  <2>1. v \in ScrambleCandidates(round, slot, vs, all) \/ v \in vs
    BY <1>4 DEF Replacements
  <2>2. v \in vs
    <3> HIDE DEF vs, all
    <3> QED
      BY <2>1, ScrambleCandidatesIn
  <2>3. ASSUME NEW s \in DOMAIN round.runs, s # slot
        PROVE  round.runs[s].variant \in Excluded(round, slot)
    <3>1. round.runs[s].variant \in VariantsOf(round)
      BY DEF VariantsOf
    <3>2. round.runs[s].variant # round.runs[slot].variant
      BY <2>3 DEF Staffed
    <3> QED
      BY <3>1, <3>2 DEF Excluded
  <2> QED
    BY <2>2, <2>3
<1> QED
  BY <1>3, <1>4

-----------------------------------------------------------------------------
(* Steps that draft a round                                                 *)

\* A drafted round is as good as a written one.
LEMMA DraftKeeps ==
  ASSUME ArenaInv, NEW c \in Callers, NEW round \in RoundSet, Staffed(round),
         Linked(round, Len(rounds) + 1), round.status = "sampled", Draft(c, round)
  PROVE  ArenaInv'
<1>1. /\ draft' = [draft EXCEPT ![c] = round] /\ raced' = (raced \/ Overlap)
      /\ rounds' = rounds /\ log' = log /\ op' = op
  BY DEF Draft
<1>2. StateOK'
  <2>1. draft \in [Callers -> RoundSet \union {None}] /\ raced \in BOOLEAN
    BY DEF ArenaInv, StateOK
  <2>2. draft' \in [Callers -> RoundSet \union {None}]
    <3> HIDE DEF RoundSet
    <3> QED
      BY <1>1, <2>1
  <2>3. raced' \in BOOLEAN
    <3>1. Overlap \in BOOLEAN
      BY DEF Overlap
    <3> QED
      BY <1>1, <2>1, <3>1
  <2> QED
    BY <1>1, <2>2, <2>3 DEF ArenaInv, StateOK
<1>3. RoundsOK'
  BY <1>1 DEF ArenaInv, RoundsOK, Linked, Staffed, Finished
<1>4. DraftsOK'
  <2>1. ASSUME NEW d \in Callers, draft'[d] # None
        PROVE  Staffed(draft'[d]) /\ Linked(draft'[d], Len(rounds) + 1)
               /\ draft'[d].status = "sampled"
    <3>1. draft \in [Callers -> RoundSet \union {None}]
      BY DEF ArenaInv, StateOK
    <3>2. CASE d = c
      <4>1. draft'[d] = round
        BY <1>1, <3>1, <3>2
      <4> QED
        BY <4>1
    <3>3. CASE d # c
      <4>1. draft'[d] = draft[d]
        BY <1>1, <3>1, <3>3
      <4> QED
        BY <2>1, <4>1 DEF ArenaInv, DraftsOK
    <3> QED
      BY <3>2, <3>3
  <2> QED
    BY <1>1, <2>1 DEF DraftsOK, Linked, Staffed
<1>5. LogOK'
  BY <1>1 DEF ArenaInv, LogOK, GradedOf, GradeOK
<1> QED
  BY <1>2, <1>3, <1>4, <1>5 DEF ArenaInv

LEMMA RoundIs ==
  ASSUME NEW pool \in {"configured", None}, NEW pairing \in Pairings,
         NEW index \in Nat \union {None}, NEW runs \in Seq(RunSet),
         NEW round, round = Round(pool, pairing, index, runs, 0, 0, {})
  PROVE  /\ round \in RoundSet
         /\ round.pool = pool /\ round.runs = runs /\ round.from = 0
         /\ round.status = "sampled" /\ round.index = index
<1> HIDE DEF RunSet, Pairings
<1> QED
  BY DEF Round, RoundSet

\* A round selected by select_pair.
LEMMA SampledIs ==
  ASSUME ArenaInv, NEW vs \in Lists, ToSet(vs) \subseteq Available, Len(vs) >= 2,
         NEW pool \in {"configured", None}, pool = "configured" => Len(vs) = GroupSize,
         NEW pairing \in Pairings, NEW index \in Nat \union {None},
         NEW runs, runs = RunsOf(vs),
         NEW c \in Callers, Draft(c, Round(pool, pairing, index, runs, 0, 0, {}))
  PROVE  ArenaInv'
<1> DEFINE round == Round(pool, pairing, index, runs, 0, 0, {})
<1>1. StateOK /\ Len(rounds) \in Nat
  BY Records DEF ArenaInv
<1>2. /\ runs \in Seq(RunSet) /\ Len(runs) = Len(vs)
      /\ \A s, t \in DOMAIN runs : runs[s].variant = runs[t].variant => s = t
  BY <1>1, RunsOfIs
<1>3. /\ round \in RoundSet /\ round.pool = pool /\ round.runs = runs
      /\ round.from = 0 /\ round.status = "sampled"
  BY <1>2, RoundIs
<1>4. Draft(c, round)
  OBVIOUS
<1> HIDE DEF round
<1>5. Staffed(round)
  BY <1>2, <1>3 DEF Staffed
<1>6. Linked(round, Len(rounds) + 1)
  BY <1>1, <1>3 DEF Linked
<1> QED
  BY <1>3, <1>4, <1>5, <1>6, DraftKeeps

LEMMA SampleScheduleKeeps ==
  ASSUME ArenaInv, NEW c \in Callers, SampleSchedule(c)
  PROVE  ArenaInv'
<1>1. /\ NextIndex \in Nat /\ ScheduledGroup \in Lists /\ Len(ScheduledGroup) = GroupSize
      /\ GroupSize >= 2
  BY ScheduleIs, GroupSizes DEF ArenaInv
<1>2. ToSet(ScheduledGroup) \subseteq Available
  BY DEF SampleSchedule, CanUseSchedule
<1>3. Draft(c, Round("configured", "schedule", NextIndex, RunsOf(ScheduledGroup), 0, 0, {}))
  BY DEF SampleSchedule
<1>4. "schedule" \in Pairings
  BY DEF Pairings
<1> QED
  BY <1>1, <1>2, <1>3, <1>4, SampledIs

LEMMA SampleBalancedKeeps ==
  ASSUME ArenaInv, NEW c \in Callers, SampleBalanced(c)
  PROVE  ArenaInv'
<1>1. /\ BalancedGroup \in Lists /\ Len(BalancedGroup) = GroupSize
      /\ ToSet(BalancedGroup) \subseteq Available /\ GroupSize >= 2
  BY BalancedGroupIs, GroupSizes DEF ArenaInv, SampleBalanced
<1>2. Draft(c, Round("configured", "balanced", None, RunsOf(BalancedGroup), 0, 0, {}))
  BY DEF SampleBalanced
<1>3. "balanced" \in Pairings
  BY DEF Pairings
<1> QED
  BY <1>1, <1>2, <1>3, SampledIs

LEMMA SamplePairKeeps ==
  ASSUME ArenaInv, NEW c \in Callers, SamplePair(c)
  PROVE  ArenaInv'
<1>1. PICK p \in Pairs : Draft(c, Round(None, p.pairing, None, RunsOf(p.pair), 0, 0, {}))
  BY DEF SamplePair
<1>2. PICK a \in Available, b \in Available, w \in Pairings :
        a # b /\ p = [pair |-> <<a, b>>, pairing |-> w]
  BY PairsDiffer DEF PairFrom
<1>3. p.pair = <<a, b>> /\ p.pairing = w
  BY <1>2
<1>4. a \in Variants /\ b \in Variants /\ a # b
  BY <1>2 DEF Available, Eligible
<1>5. <<a, b>> \in Lists /\ Len(<<a, b>>) = 2
  BY <1>4 DEF Lists, IsInjective
<1>6. ToSet(<<a, b>>) \subseteq Available
  BY DEF ToSet
<1>7. Draft(c, Round(None, w, None, RunsOf(<<a, b>>), 0, 0, {}))
  BY <1>1, <1>3
<1>8. None # "configured"
  BY ArenaAssumption
<1> DEFINE vs == <<a, b>>
           runs == RunsOf(vs)
<1>9. vs \in Lists /\ Len(vs) >= 2 /\ ToSet(vs) \subseteq Available
      /\ Draft(c, Round(None, w, None, runs, 0, 0, {}))
  BY <1>5, <1>6, <1>7
<1> HIDE DEF vs
<1>10. runs = RunsOf(vs)
  OBVIOUS
<1> HIDE DEF runs
<1> QED
  BY <1>8, <1>9, <1>10, SampledIs

\* A round rerolled keeps its other reviewers.
LEMMA RerollKeeps ==
  ASSUME ArenaInv, NEW c \in Callers, NEW n \in DOMAIN rounds,
         NEW slot \in DOMAIN rounds[n].runs, Reroll(c, n, slot)
  PROVE  /\ ArenaInv'
         /\ \E round \in RoundSet : Draft(c, round) /\ round.from = n
<1> DEFINE old == rounds[n]
<1>1. /\ old \in RoundSet /\ Staffed(old) /\ n \in Nat /\ n >= 1 /\ n <= Len(rounds)
      /\ Len(rounds) \in Nat
  BY Records DEF ArenaInv, RoundsOK
<1>2. PICK v \in Replacements(old, slot) :
        Draft(c, [old EXCEPT !.status = "sampled", !.from = n, !.slot = slot,
                    !.runs[slot] = Run(v),
                    !.excluded = IF Retries(old, slot) THEN old.excluded
                                 ELSE Excluded(old, slot)])
  BY DEF Reroll
<1> DEFINE new == [old EXCEPT !.status = "sampled", !.from = n, !.slot = slot,
                     !.runs[slot] = Run(v),
                     !.excluded = IF Retries(old, slot) THEN old.excluded
                                  ELSE Excluded(old, slot)]
<1>3. /\ v \in Eligible
      /\ \A s \in DOMAIN old.runs : s # slot => old.runs[s].variant # v
  BY <1>1, ReplacementIs DEF ArenaInv
<1>4. /\ old.runs \in Seq(RunSet) /\ slot \in DOMAIN old.runs /\ old.excluded \in SUBSET Variants
      /\ old.pool \in {"configured", None} /\ old.pairing \in Pairings
      /\ old.index \in Nat \union {None}
  <2> HIDE DEF RunSet, Pairings, old
  <2>1. old \in RoundSet
    BY <1>1
  <2> QED
    BY <2>1 DEF RoundSet, old
<1>5. \A s \in DOMAIN old.runs : old.runs[s] \in RunSet /\ old.runs[s].variant \in Eligible
  <2>1. \A s \in DOMAIN old.runs : old.runs[s] \in RunSet
    <3> HIDE DEF RunSet, old
    <3> QED
      BY <1>4
  <2>2. \A r \in RunSet : r.variant \in Eligible
    BY DEF RunSet
  <2> QED
    BY <2>1, <2>2
<1>6. Excluded(old, slot) \in SUBSET Variants
  <2>1. VariantsOf(old) \subseteq Variants
    BY <1>5 DEF VariantsOf, Eligible
  <2>2. SameModel(old.runs[slot]) \subseteq Variants
    BY DEF SameModel
  <2> HIDE DEF old
  <2> QED
    BY <1>4, <2>1, <2>2 DEF Excluded
<1> DEFINE runs == [old.runs EXCEPT ![slot] = Run(v)]
<1>7. /\ runs \in Seq(RunSet) /\ Len(runs) = Len(old.runs) /\ DOMAIN runs = DOMAIN old.runs
      /\ runs[slot] = Run(v) /\ Run(v).variant = v
      /\ \A s \in DOMAIN old.runs : s # slot => runs[s] = old.runs[s]
  <2>1. Run(v) \in RunSet /\ Run(v).variant = v
    BY <1>3 DEF Run, RunSet
  <2> HIDE DEF RunSet, Run, old
  <2> QED
    BY <1>4, <2>1
<1>8. /\ new \in RoundSet /\ new.status = "sampled" /\ new.from = n /\ new.runs = runs
      /\ new.pool = old.pool
  <2> HIDE DEF runs, RunSet, Pairings, old
  <2>1. new = [old EXCEPT !.status = "sampled", !.from = n, !.slot = slot, !.runs = runs,
                 !.excluded = IF Retries(old, slot) THEN old.excluded
                              ELSE Excluded(old, slot)]
    BY DEF runs
  <2>2. slot \in Nat
    BY <1>4
  <2>3. (IF Retries(old, slot) THEN old.excluded ELSE Excluded(old, slot)) \in SUBSET Variants
    BY <1>4, <1>6
  <2>4. old \in RoundSet
    BY <1>1
  <2> HIDE DEF new
  <2> QED
    BY <1>1, <1>7, <2>1, <2>2, <2>3, <2>4 DEF RoundSet
<1>9. Draft(c, new)
  BY <1>2
<1> HIDE DEF new
<1>10. Staffed(new)
  <2>1. ASSUME NEW s \in DOMAIN runs, NEW t \in DOMAIN runs, runs[s].variant = runs[t].variant
        PROVE  s = t
    <3> HIDE DEF runs
    <3>1. CASE s # slot /\ t # slot
      BY <1>1, <1>7, <2>1, <3>1 DEF Staffed
    <3>2. CASE s = slot /\ t # slot
      BY <1>3, <1>7, <2>1, <3>2
    <3>3. CASE s # slot /\ t = slot
      BY <1>3, <1>7, <2>1, <3>3
    <3> QED
      BY <3>1, <3>2, <3>3
  <2>2. Len(runs) >= 2 /\ (new.pool = "configured" => Len(runs) = GroupSize)
    BY <1>1, <1>7, <1>8 DEF Staffed
  <2> HIDE DEF runs
  <2> QED
    BY <1>8, <2>1, <2>2 DEF Staffed
<1>11. Linked(new, Len(rounds) + 1)
  BY <1>1, <1>8 DEF Linked
<1>12. ArenaInv'
  BY <1>8, <1>9, <1>10, <1>11, DraftKeeps
<1> QED
  BY <1>8, <1>9, <1>12

-----------------------------------------------------------------------------
(* The other steps                                                          *)

LEMMA GradedSets ==
  ASSUME StateOK, NEW pools
  PROVE  IsFiniteSet(GradedOf(pools)) /\ Cardinality(GradedOf(pools)) \in Nat
<1>1. GradedOf(pools) \subseteq DOMAIN rounds
  BY DEF GradedOf
<1> QED
  BY <1>1, Records, FS_Subset, FS_CardinalityType

LEMMA WriteRoundKeeps ==
  ASSUME ArenaInv, NEW c \in Callers, WriteRound(c)
  PROVE  ArenaInv'
<1>1. /\ draft \in [Callers -> RoundSet \union {None}] /\ rounds \in Seq(RoundSet)
      /\ Len(rounds) \in Nat /\ MaxRounds \in Nat
  BY ArenaAssumption DEF ArenaInv, StateOK
<1>2. PICK round : round = draft[c]
  OBVIOUS
<1>3. PICK n \in Nat : n = Len(rounds) + 1
  BY <1>1
<1>4. /\ round # None /\ Len(rounds) < MaxRounds /\ rounds' = Append(rounds, round)
      /\ draft' = [draft EXCEPT ![c] = None]
      /\ log' = log /\ op' = op /\ raced' = raced
  BY <1>2 DEF WriteRound
<1>5. round \in RoundSet /\ Staffed(round) /\ Linked(round, n) /\ round.status = "sampled"
  <2>1. round \in RoundSet \union {None}
    <3> HIDE DEF RoundSet
    <3> QED
      BY <1>1, <1>2
  <2> QED
    BY <1>2, <1>3, <1>4, <2>1 DEF ArenaInv, DraftsOK
<1> HIDE DEF RoundSet
<1>6. /\ rounds' \in Seq(RoundSet) /\ Len(rounds') = n /\ DOMAIN rounds' = 1..n
      /\ DOMAIN rounds = 1..(n - 1) /\ rounds'[n] = round
      /\ \A m \in DOMAIN rounds : rounds'[m] = rounds[m] /\ m \in DOMAIN rounds'
      /\ n \in DOMAIN rounds' /\ n \notin DOMAIN rounds
  BY <1>1, <1>3, <1>4, <1>5
<1>7. \A m \in DOMAIN rounds' : m = n \/ m \in DOMAIN rounds
  BY <1>6
<1>8. draft' \in [Callers -> RoundSet \union {None}]
      /\ \A d \in Callers : draft'[d] = IF d = c THEN None ELSE draft[d]
  BY <1>1, <1>4
<1>9. StateOK'
  BY <1>4, <1>6, <1>8 DEF ArenaInv, StateOK
<1>10. ASSUME NEW r \in RoundSet, NEW k \in 1..n, Linked(r, k)
       PROVE  r.from < k /\ (r.from > 0 => rounds'[r.from].pool = r.pool)
  <2>1. r.from \in Nat
    BY DEF RoundSet
  <2>2. r.from < k /\ (r.from > 0 => rounds[r.from].pool = r.pool)
    BY <1>10 DEF Linked
  <2>3. r.from > 0 => r.from \in DOMAIN rounds
    BY <1>3, <1>6, <2>1, <2>2
  <2> QED
    BY <1>6, <2>2, <2>3
<1>11. n \in 1..n
  BY <1>1, <1>3
<1>12. RoundsOK'
  <2>1. Len(rounds') <= MaxRounds
    BY <1>1, <1>3, <1>4, <1>6
  <2>2. ASSUME NEW m \in DOMAIN rounds'
        PROVE  /\ Staffed(rounds'[m])
               /\ rounds'[m].from < m
               /\ rounds'[m].from > 0 => rounds'[rounds'[m].from].pool = rounds'[m].pool
               /\ rounds'[m].status \in {"completed", "graded"} => Finished(rounds'[m])
    <3>1. CASE m = n
      <4>1. round.from < n /\ (round.from > 0 => rounds'[round.from].pool = round.pool)
        BY <1>5, <1>10, <1>11
      <4> QED
        BY <1>5, <1>6, <3>1, <4>1
    <3>2. CASE m \in DOMAIN rounds
      <4>1. /\ rounds[m] \in RoundSet /\ m \in 1..n /\ Linked(rounds[m], m) /\ Staffed(rounds[m])
            /\ rounds[m].status \in {"completed", "graded"} => Finished(rounds[m])
        BY <1>1, <1>6, <3>2 DEF ArenaInv, RoundsOK
      <4>2. rounds[m].from < m
            /\ (rounds[m].from > 0 => rounds'[rounds[m].from].pool = rounds[m].pool)
        BY <1>10, <4>1
      <4>3. rounds'[m] = rounds[m]
        BY <1>6, <3>2
      <4> QED
        BY <4>1, <4>2, <4>3
    <3> QED
      BY <1>7, <3>1, <3>2
  <2> QED
    BY <2>1, <2>2 DEF RoundsOK, Staffed, Linked, Finished
<1>13. DraftsOK'
  <2>1. ASSUME NEW d \in Callers, draft'[d] # None
        PROVE  /\ Staffed(draft'[d]) /\ draft'[d].status = "sampled"
               /\ draft'[d].from < n + 1
               /\ draft'[d].from > 0 => rounds'[draft'[d].from].pool = draft'[d].pool
    <3>1. draft'[d] = draft[d] /\ draft[d] \in RoundSet /\ draft[d] # None
      BY <1>1, <1>8, <2>1
    <3>2. Staffed(draft[d]) /\ Linked(draft[d], n) /\ draft[d].status = "sampled"
      BY <1>3, <3>1 DEF ArenaInv, DraftsOK
    <3>3. draft[d].from < n
          /\ (draft[d].from > 0 => rounds'[draft[d].from].pool = draft[d].pool)
      BY <1>10, <1>11, <3>1, <3>2
    <3>4. draft[d].from \in Nat
      BY <3>1 DEF RoundSet
    <3> QED
      BY <3>1, <3>2, <3>3, <3>4
  <2> QED
    BY <1>6, <2>1 DEF DraftsOK, Staffed, Linked
<1>14. LogOK'
  <2>1. GradedOf({"configured", None})' = GradedOf({"configured", None})
        /\ GradedOf({"configured"})' = GradedOf({"configured"})
    BY <1>5, <1>6, <1>7 DEF GradedOf
  <2> QED
    BY <1>4, <2>1 DEF ArenaInv, LogOK, GradeOK
<1> QED
  BY <1>9, <1>12, <1>13, <1>14 DEF ArenaInv

\* One round changes, and neither its pool nor its origin nor who reviews it.
LEMMA RoundChanges ==
  ASSUME ArenaInv, NEW n \in DOMAIN rounds, NEW r \in RoundSet,
         rounds' = [rounds EXCEPT ![n] = r], Staffed(r),
         r.from = rounds[n].from, r.pool = rounds[n].pool,
         r.status \in {"completed", "graded"} => Finished(r),
         draft' = draft, raced' = raced
  PROVE  /\ rounds' \in Seq(RoundSet) /\ Len(rounds') = Len(rounds)
         /\ DOMAIN rounds' = DOMAIN rounds /\ rounds'[n] = r
         /\ \A m \in DOMAIN rounds : m # n => rounds'[m] = rounds[m]
         /\ RoundsOK' /\ DraftsOK'
<1>1. rounds \in Seq(RoundSet) /\ Len(rounds) \in Nat /\ draft \in [Callers -> RoundSet \union {None}]
  BY DEF ArenaInv, StateOK
<1> HIDE DEF RoundSet
<1>2. /\ rounds' \in Seq(RoundSet) /\ Len(rounds') = Len(rounds)
      /\ DOMAIN rounds' = DOMAIN rounds /\ rounds'[n] = r
      /\ \A m \in DOMAIN rounds : m # n => rounds'[m] = rounds[m]
      /\ DOMAIN rounds = 1..Len(rounds)
  BY <1>1
<1>3. \A m \in DOMAIN rounds : /\ rounds'[m].pool = rounds[m].pool
                               /\ rounds'[m].from = rounds[m].from
  BY <1>2
<1>4. ASSUME NEW q \in RoundSet, NEW k \in 1..(Len(rounds) + 1), Linked(q, k)
      PROVE  q.from < k /\ (q.from > 0 => rounds'[q.from].pool = q.pool)
  <2>1. q.from \in Nat
    BY DEF RoundSet
  <2>2. q.from < k /\ (q.from > 0 => rounds[q.from].pool = q.pool)
    BY <1>4 DEF Linked
  <2>3. q.from > 0 => q.from \in DOMAIN rounds
    BY <1>1, <1>2, <2>1, <2>2
  <2> QED
    BY <1>3, <2>2, <2>3
<1>5. RoundsOK'
  <2>1. Len(rounds') <= MaxRounds
    BY <1>2 DEF ArenaInv, RoundsOK
  <2>2. ASSUME NEW m \in DOMAIN rounds'
        PROVE  /\ Staffed(rounds'[m])
               /\ rounds'[m].from < m
               /\ rounds'[m].from > 0 => rounds'[rounds'[m].from].pool = rounds'[m].pool
               /\ rounds'[m].status \in {"completed", "graded"} => Finished(rounds'[m])
    <3>1. /\ m \in DOMAIN rounds /\ rounds[m] \in RoundSet /\ m \in 1..(Len(rounds) + 1)
          /\ Linked(rounds[m], m) /\ Staffed(rounds[m])
          /\ rounds[m].status \in {"completed", "graded"} => Finished(rounds[m])
      BY <1>1, <1>2 DEF ArenaInv, RoundsOK
    <3>2. rounds[m].from < m
          /\ (rounds[m].from > 0 => rounds'[rounds[m].from].pool = rounds[m].pool)
      BY <1>4, <3>1
    <3>3. /\ Staffed(rounds'[m])
          /\ rounds'[m].status \in {"completed", "graded"} => Finished(rounds'[m])
      BY <1>2, <3>1
    <3> QED
      BY <1>3, <3>1, <3>2, <3>3
  <2> QED
    BY <2>1, <2>2 DEF RoundsOK, Linked, Staffed, Finished
<1>6. DraftsOK'
  <2>1. ASSUME NEW d \in Callers, draft[d] # None
        PROVE  /\ Staffed(draft[d]) /\ draft[d].status = "sampled"
               /\ draft[d].from < Len(rounds) + 1
               /\ draft[d].from > 0 => rounds'[draft[d].from].pool = draft[d].pool
    <3>1. draft[d] \in RoundSet /\ Len(rounds) + 1 \in 1..(Len(rounds) + 1)
      BY <1>1, <2>1
    <3>2. Staffed(draft[d]) /\ Linked(draft[d], Len(rounds) + 1) /\ draft[d].status = "sampled"
      BY <2>1 DEF ArenaInv, DraftsOK
    <3> QED
      BY <1>4, <3>1, <3>2
  <2> QED
    BY <1>2, <2>1 DEF DraftsOK, Linked, Staffed
<1> QED
  BY <1>2, <1>5, <1>6

\* A change that grades no round and no grade leaves the log as it should be.
LEMMA LogUnchanged ==
  ASSUME LogOK, NEW n \in DOMAIN rounds, log' = log, DOMAIN rounds' = DOMAIN rounds,
         \A m \in DOMAIN rounds : m # n => rounds'[m] = rounds[m],
         rounds[n].status # "graded", rounds'[n].status # "graded"
  PROVE  LogOK'
<1>1. GradedOf({"configured", None})' = GradedOf({"configured", None})
      /\ GradedOf({"configured"})' = GradedOf({"configured"})
  BY DEF GradedOf
<1> QED
  BY <1>1 DEF LogOK, GradeOK

LEMMA CompleteKeeps ==
  ASSUME ArenaInv, NEW n \in DOMAIN rounds, Complete(n)
  PROVE  ArenaInv'
<1>1. PICK old : old = rounds[n]
  OBVIOUS
<1>2. /\ old \in RoundSet /\ Staffed(old) /\ old.status = "sampled"
      /\ rounds \in Seq(RoundSet)
  BY <1>1, Records DEF ArenaInv, RoundsOK, StateOK, Complete
<1>3. old.runs \in Seq(RunSet) /\ DOMAIN old.runs = 1..Len(old.runs) /\ Len(old.runs) \in Nat
  <2> HIDE DEF RunSet
  <2>1. old.runs \in Seq(RunSet)
    BY <1>2 DEF RoundSet
  <2> QED
    BY <2>1
<1>4. PICK outs \in [DOMAIN rounds[n].runs -> Outcomes] :
        LET runs == [s \in DOMAIN rounds[n].runs |->
                        IF rounds[n].runs[s].out # None THEN rounds[n].runs[s]
                        ELSE [rounds[n].runs[s] EXCEPT !.out = outs[s]]]
            Of(kinds) == {runs[s].variant : s \in {t \in DOMAIN runs : runs[t].out \in kinds}}
            failed == Of({"capacity", "timed_out"})
        IN /\ \A s \in DOMAIN outs : rounds[n].runs[s].out # None => outs[s] = "completed"
           /\ Failures + Cardinality({s \in DOMAIN outs : outs[s] # "completed"}) <= MaxFailures
           /\ rounds' = [rounds EXCEPT ![n].status = "completed", ![n].runs = runs]
           /\ op' = [op EXCEPT !.cool = (@ \ Of({"completed"})) \union failed]
  BY DEF Complete
<1> DEFINE runsOf == [s \in DOMAIN rounds[n].runs |->
                        IF rounds[n].runs[s].out # None THEN rounds[n].runs[s]
                        ELSE [rounds[n].runs[s] EXCEPT !.out = outs[s]]]
<1>5. PICK runs : runs = runsOf
  OBVIOUS
<1>6. ASSUME NEW s \in DOMAIN old.runs
      PROVE  /\ runs[s] \in RunSet /\ runs[s].out # None
             /\ runs[s].variant = old.runs[s].variant
  <2>1. old.runs[s] \in RunSet
    <3> HIDE DEF RunSet
    <3> QED
      BY <1>3
  <2>2. outs[s] \in Outcomes /\ None \notin Outcomes
    BY <1>1, ArenaAssumption DEF Outcomes
  <2>3. runs[s] = IF old.runs[s].out # None THEN old.runs[s]
                  ELSE [old.runs[s] EXCEPT !.out = outs[s]]
    BY <1>1, <1>5
  <2> QED
    BY <2>1, <2>2, <2>3 DEF RunSet
<1>7. /\ runs \in Seq(RunSet) /\ Len(runs) = Len(old.runs) /\ DOMAIN runs = DOMAIN old.runs
  <2>1. runs = [s \in 1..Len(old.runs) |-> runs[s]]
    BY <1>1, <1>3, <1>5
  <2>2. \A s \in 1..Len(old.runs) : runs[s] \in RunSet
    BY <1>3, <1>6
  <2> HIDE DEF RunSet, runsOf
  <2>3. runs \in [1..Len(old.runs) -> RunSet]
    BY <2>1, <2>2
  <2> QED
    BY <1>3, <2>3
<1>8. PICK r : r = [old EXCEPT !.status = "completed", !.runs = runs]
  OBVIOUS
<1>9. /\ r \in RoundSet /\ r.status = "completed" /\ r.runs = runs
      /\ r.from = old.from /\ r.pool = old.pool
  <2> HIDE DEF RunSet, Pairings
  <2> QED
    BY <1>2, <1>7, <1>8 DEF RoundSet
<1>10. rounds' = [rounds EXCEPT ![n] = r]
  <2>1. rounds' = [rounds EXCEPT ![n].status = "completed", ![n].runs = runs]
    BY <1>4, <1>5
  <2> QED
    BY <1>1, <1>8, <2>1
<1>11. Staffed(r)
  BY <1>2, <1>6, <1>7, <1>9 DEF Staffed
<1>12. Finished(r)
  BY <1>6, <1>7, <1>9 DEF Finished
<1>13. log' = log /\ draft' = draft /\ raced' = raced
  BY DEF Complete
<1>14. /\ rounds' \in Seq(RoundSet) /\ DOMAIN rounds' = DOMAIN rounds /\ rounds'[n] = r
       /\ \A m \in DOMAIN rounds : m # n => rounds'[m] = rounds[m]
       /\ RoundsOK' /\ DraftsOK'
  BY <1>1, <1>9, <1>10, <1>11, <1>12, <1>13, RoundChanges
<1>15. op' \in [champions : SUBSET Eligible, probation : SUBSET Eligible, cool : SUBSET Eligible]
  <2> DEFINE ended == {runsOf[s].variant : s \in {t \in DOMAIN runsOf :
                                             runsOf[t].out \in {"completed"}}}
             failed == {runsOf[s].variant : s \in {t \in DOMAIN runsOf :
                                              runsOf[t].out \in {"capacity", "timed_out"}}}
  <2>1. op' = [op EXCEPT !.cool = (op.cool \ ended) \union failed]
    BY <1>4
  <2>2. failed \subseteq Eligible
    <3>1. \A s \in DOMAIN runs : runs[s].variant \in Eligible
      BY <1>6, <1>7 DEF RunSet
    <3>2. runsOf = runs
      BY <1>5
    <3> HIDE DEF runsOf
    <3> QED
      BY <3>1, <3>2
  <2>3. op \in [champions : SUBSET Eligible, probation : SUBSET Eligible, cool : SUBSET Eligible]
    BY DEF ArenaInv, StateOK
  <2>4. (op.cool \ ended) \union failed \subseteq Eligible
    <3> HIDE DEF ended, failed
    <3>1. op.cool \subseteq Eligible
      BY <2>3
    <3> QED
      BY <2>2, <3>1
  <2> HIDE DEF ended, failed
  <2> QED
    BY <2>1, <2>3, <2>4
<1>16. StateOK'
  <2> HIDE DEF RoundSet
  <2> QED
    BY <1>13, <1>14, <1>15 DEF ArenaInv, StateOK
<1>17. LogOK'
  BY <1>1, <1>2, <1>9, <1>13, <1>14, LogUnchanged DEF ArenaInv
<1> QED
  BY <1>14, <1>16, <1>17 DEF ArenaInv

LEMMA DismissKeeps ==
  ASSUME ArenaInv, NEW n \in DOMAIN rounds, Dismiss(n)
  PROVE  ArenaInv'
<1>1. PICK old : old = rounds[n]
  OBVIOUS
<1>2. /\ old \in RoundSet /\ Staffed(old) /\ old.status \in {"sampled", "completed"}
      /\ rounds \in Seq(RoundSet)
  BY <1>1, Records DEF ArenaInv, RoundsOK, StateOK, Dismiss
<1>3. PICK r : r = [old EXCEPT !.status = "dismissed"]
  OBVIOUS
<1>4. /\ r \in RoundSet /\ r.status = "dismissed" /\ r.runs = old.runs
      /\ r.from = old.from /\ r.pool = old.pool
  <2> HIDE DEF RunSet, Pairings
  <2> QED
    BY <1>2, <1>3 DEF RoundSet
<1>5. rounds' = [rounds EXCEPT ![n] = r] /\ log' = log /\ op' = op /\ draft' = draft
      /\ raced' = raced
  BY <1>1, <1>3 DEF Dismiss
<1>6. Staffed(r)
  BY <1>2, <1>4 DEF Staffed
<1>7. /\ rounds' \in Seq(RoundSet) /\ DOMAIN rounds' = DOMAIN rounds /\ rounds'[n] = r
      /\ \A m \in DOMAIN rounds : m # n => rounds'[m] = rounds[m]
      /\ RoundsOK' /\ DraftsOK'
  BY <1>1, <1>4, <1>5, <1>6, RoundChanges
<1>8. StateOK'
  <2> HIDE DEF RoundSet
  <2> QED
    BY <1>5, <1>7 DEF ArenaInv, StateOK
<1>9. LogOK'
  BY <1>1, <1>2, <1>4, <1>5, <1>7, LogUnchanged DEF ArenaInv
<1> QED
  BY <1>7, <1>8, <1>9 DEF ArenaInv

LEMMA CooldownKeeps ==
  ASSUME ArenaInv, CooldownExpires
  PROVE  ArenaInv'
<1>1. rounds' = rounds /\ log' = log /\ draft' = draft /\ raced' = raced
  BY DEF CooldownExpires
<1>2. PICK v \in op.cool : op' = [op EXCEPT !.cool = @ \ {v}]
  BY DEF CooldownExpires
<1>3. op \in [champions : SUBSET Eligible, probation : SUBSET Eligible, cool : SUBSET Eligible]
  BY DEF ArenaInv, StateOK
<1>4. op' \in [champions : SUBSET Eligible, probation : SUBSET Eligible, cool : SUBSET Eligible]
  BY <1>2, <1>3
<1>5. StateOK'
  BY <1>1, <1>4 DEF ArenaInv, StateOK
<1>6. RoundsOK' /\ DraftsOK'
  BY <1>1 DEF ArenaInv, RoundsOK, DraftsOK, Linked, Staffed, Finished
<1>7. LogOK'
  BY <1>1 DEF ArenaInv, LogOK, GradedOf, GradeOK
<1> QED
  BY <1>5, <1>6, <1>7 DEF ArenaInv

\* A grade names the reviewers of its round.
LEMMA GradeKeeps ==
  ASSUME ArenaInv, NEW n \in DOMAIN rounds, Grade(n)
  PROVE  ArenaInv'
<1>1. PICK old : old = rounds[n]
  OBVIOUS
<1>2. /\ old \in RoundSet /\ Staffed(old) /\ old.status = "completed" /\ Finished(old)
      /\ Cardinality(VariantsOf(old)) = Len(old.runs)
      /\ rounds \in Seq(RoundSet) /\ log \in Seq(GradeSet) /\ Len(log) \in Nat
  BY <1>1, Records DEF ArenaInv, RoundsOK, StateOK, Grade, Gradable
<1>3. PICK groups \in Placements(VariantsOf(old)) :
        LET grades == Append(log, [pool |-> IF old.pool = "configured" THEN "configured"
                                            ELSE "named", groups |-> groups])
        IN /\ log' = grades
           /\ op' = [op EXCEPT !.champions = Champions(grades), !.probation = Probation(grades)]
  BY <1>1 DEF Grade
<1>4. PICK g : g = [pool |-> IF old.pool = "configured" THEN "configured" ELSE "named",
                    groups |-> groups]
  OBVIOUS
<1>5. log' = Append(log, g)
      /\ op' = [op EXCEPT !.champions = Champions(log'), !.probation = Probation(log')]
  BY <1>3, <1>4
<1>6. VariantsOf(old) \subseteq Variants /\ old.pool \in {"configured", None}
  <2>1. old.runs \in Seq(RunSet) /\ old.pool \in {"configured", None}
    <3> HIDE DEF RunSet
    <3> QED
      BY <1>2 DEF RoundSet
  <2>2. \A s \in DOMAIN old.runs : old.runs[s] \in RunSet
    <3> HIDE DEF RunSet
    <3> QED
      BY <2>1
  <2>3. \A s \in DOMAIN old.runs : old.runs[s].variant \in Variants
    BY <2>2 DEF RunSet, Eligible
  <2> QED
    BY <2>1, <2>3 DEF VariantsOf
<1>7. PICK k \in 1..Cardinality(VariantsOf(old)) : groups \in [1..k -> SUBSET VariantsOf(old)]
  BY DEF Placements
<1>8. UNION ToSet(groups) = VariantsOf(old)
  <2>1. UNION ToSet(groups) \subseteq VariantsOf(old)
    BY <1>7 DEF ToSet
  <2>2. ASSUME NEW v \in VariantsOf(old) PROVE v \in UNION ToSet(groups)
    <3>1. Cardinality({i \in DOMAIN groups : v \in groups[i]}) = 1
      BY DEF Placements
    <3>2. {i \in DOMAIN groups : v \in groups[i]} # {}
      BY <3>1, FS_EmptySet
    <3>3. PICK i \in DOMAIN groups : v \in groups[i]
      BY <3>2
    <3> QED
      BY <3>3 DEF ToSet
  <2> QED
    BY <2>1, <2>2
<1>9. groups \in Seq(SUBSET Variants) /\ DOMAIN groups \subseteq Int
  <2>1. k \in Nat /\ groups \in [1..k -> SUBSET Variants]
    BY <1>6, <1>7
  <2> QED
    BY <2>1
<1>10. g \in GradeSet /\ GradeOK(g) /\ (g.pool = "configured" <=> old.pool = "configured")
  <2>1. g \in GradeSet /\ g.groups = groups /\ (g.pool = "configured" <=> old.pool = "configured")
    BY <1>4, <1>9 DEF GradeSet
  <2>2. Cardinality(VariantsOf(old)) >= 2
    BY <1>2 DEF Staffed
  <2> QED
    BY <1>6, <1>8, <1>9, <2>1, <2>2 DEF GradeOK
<1>11. PICK r : r = [old EXCEPT !.status = "graded"]
  OBVIOUS
<1>12. /\ r \in RoundSet /\ r.status = "graded" /\ r.runs = old.runs
       /\ r.from = old.from /\ r.pool = old.pool
  <2> HIDE DEF RunSet, Pairings
  <2> QED
    BY <1>2, <1>11 DEF RoundSet
<1>13. rounds' = [rounds EXCEPT ![n] = r] /\ draft' = draft /\ raced' = raced
  BY <1>1, <1>11 DEF Grade
<1>14. Staffed(r) /\ Finished(r)
  BY <1>2, <1>12 DEF Staffed, Finished
<1>15. /\ rounds' \in Seq(RoundSet) /\ DOMAIN rounds' = DOMAIN rounds /\ rounds'[n] = r
       /\ \A m \in DOMAIN rounds : m # n => rounds'[m] = rounds[m]
       /\ RoundsOK' /\ DraftsOK'
  BY <1>1, <1>12, <1>13, <1>14, RoundChanges
<1>16. /\ log' \in Seq(GradeSet) /\ Len(log') = Len(log) + 1 /\ DOMAIN log' = 1..(Len(log) + 1)
       /\ log'[Len(log) + 1] = g /\ DOMAIN log = 1..Len(log)
       /\ \A i \in DOMAIN log : log'[i] = log[i]
  <2> HIDE DEF GradeSet
  <2> QED
    BY <1>2, <1>5, <1>10
<1>17. op' \in [champions : SUBSET Eligible, probation : SUBSET Eligible, cool : SUBSET Eligible]
  <2>1. Champions(log') \subseteq Eligible /\ Probation(log') \subseteq Eligible
    BY DEF Champions, Proven, Probation
  <2>2. op \in [champions : SUBSET Eligible, probation : SUBSET Eligible, cool : SUBSET Eligible]
    BY DEF ArenaInv, StateOK
  <2> QED
    BY <1>5, <2>1, <2>2
<1>18. StateOK'
  <2> HIDE DEF RoundSet, GradeSet
  <2> QED
    BY <1>13, <1>15, <1>16, <1>17 DEF ArenaInv, StateOK
<1>19. LogOK'
  <2>1. \A i \in DOMAIN log' : GradeOK(log'[i])
    <3>1. \A i \in DOMAIN log' : i = Len(log) + 1 \/ i \in DOMAIN log
      BY <1>2, <1>16
    <3> QED
      BY <1>10, <1>16, <3>1 DEF ArenaInv, LogOK
  <2>2. ASSUME NEW pools
        PROVE  {m \in DOMAIN rounds' : rounds'[m].status = "graded" /\ rounds'[m].pool \in pools}
                 = IF old.pool \in pools THEN GradedOf(pools) \union {n} ELSE GradedOf(pools)
    BY <1>1, <1>2, <1>12, <1>15 DEF GradedOf
  <2>3. ASSUME NEW pools
        PROVE  n \notin GradedOf(pools)
               /\ Cardinality(GradedOf(pools) \union {n}) = Cardinality(GradedOf(pools)) + 1
    <3>1. n \notin GradedOf(pools)
      BY <1>1, <1>2 DEF GradedOf
    <3> QED
      BY <3>1, GradedSets, FS_AddElement DEF ArenaInv
  <2>4. Len(log') = Cardinality(GradedOf({"configured", None}))'
    <3>1. GradedOf({"configured", None})' = GradedOf({"configured", None}) \union {n}
      BY <1>6, <2>2 DEF GradedOf
    <3>2. Cardinality(GradedOf({"configured", None}) \union {n})
            = Cardinality(GradedOf({"configured", None})) + 1
      BY <2>3
    <3> QED
      BY <1>16, <3>1, <3>2 DEF ArenaInv, LogOK
  <2> DEFINE pooled == {i \in DOMAIN log : log[i].pool = "configured"}
             now == {i \in DOMAIN log' : log'[i].pool = "configured"}
  <2>5. Cardinality(now) = Cardinality(GradedOf({"configured"}))'
    <3>1. now = IF old.pool = "configured" THEN pooled \union {Len(log) + 1} ELSE pooled
      BY <1>2, <1>10, <1>16
    <3>2. Len(log) + 1 \notin pooled
      BY <1>2, <1>16
    <3>3. IsFiniteSet(pooled)
      <4>1. pooled \subseteq DOMAIN log
        OBVIOUS
      <4> QED
        BY <4>1, Records, FS_Subset DEF ArenaInv
    <3>4. Cardinality(pooled) = Cardinality(GradedOf({"configured"}))
      BY DEF ArenaInv, LogOK
    <3> HIDE DEF now, pooled
    <3>5. Cardinality(pooled \union {Len(log) + 1}) = Cardinality(pooled) + 1
      BY <3>2, <3>3, FS_AddElement
    <3>6. GradedOf({"configured"})' = IF old.pool = "configured"
                                     THEN GradedOf({"configured"}) \union {n}
                                     ELSE GradedOf({"configured"})
      BY <2>2 DEF GradedOf
    <3>7. Cardinality(GradedOf({"configured"}) \union {n})
            = Cardinality(GradedOf({"configured"})) + 1
      BY <2>3
    <3> QED
      BY <3>1, <3>4, <3>5, <3>6, <3>7
  <2> QED
    BY <2>1, <2>4, <2>5 DEF LogOK, GradeOK
<1> QED
  BY <1>15, <1>18, <1>19 DEF ArenaInv

-----------------------------------------------------------------------------
(* The invariant holds                                                      *)

LEMMA ArenaInit ==
  ASSUME Init
  PROVE  ArenaInv
<1>1. /\ rounds = <<>> /\ log = <<>> /\ draft = [c \in Callers |-> None] /\ raced = FALSE
      /\ op = [champions |-> {}, probation |-> {}, cool |-> {}]
  BY DEF Init
<1>2. DOMAIN rounds = {} /\ DOMAIN log = {} /\ Len(rounds) = 0 /\ Len(log) = 0
  BY <1>1
<1>3. StateOK
  <2>1. rounds \in Seq(RoundSet) /\ log \in Seq(GradeSet)
    <3> HIDE DEF RoundSet, GradeSet
    <3> QED
      BY <1>1
  <2>2. draft \in [Callers -> RoundSet \union {None}]
    <3> HIDE DEF RoundSet
    <3> QED
      BY <1>1
  <2> QED
    BY <1>1, <2>1, <2>2 DEF StateOK
<1>4. RoundsOK /\ DraftsOK
  BY <1>1, <1>2, ArenaAssumption DEF RoundsOK, DraftsOK
<1>5. LogOK
  <2>1. \A pools : GradedOf(pools) = {}
    BY <1>2 DEF GradedOf
  <2>2. {k \in DOMAIN log : log[k].pool = "configured"} = {}
    BY <1>2
  <2>3. Cardinality({}) = 0
    BY FS_EmptySet
  <2> QED
    BY <1>2, <2>1, <2>2, <2>3 DEF LogOK
<1> QED
  BY <1>3, <1>4, <1>5 DEF ArenaInv

LEMMA ArenaStep ==
  ASSUME ArenaInv, [Next]_vars
  PROVE  ArenaInv'
<1>1. CASE UNCHANGED vars
  BY <1>1 DEF vars, ArenaInv, StateOK, RoundsOK, DraftsOK, LogOK, Linked, Staffed,
              GradedOf, GradeOK, Finished
<1>2. ASSUME NEW c \in Callers,
             SampleSchedule(c) \/ SampleBalanced(c) \/ SamplePair(c) \/ WriteRound(c)
      PROVE  ArenaInv'
  BY <1>2, SampleScheduleKeeps, SampleBalancedKeeps, SamplePairKeeps, WriteRoundKeeps
<1>3. ASSUME NEW c \in Callers, NEW n \in DOMAIN rounds, NEW slot \in DOMAIN rounds[n].runs,
             Reroll(c, n, slot)
      PROVE  ArenaInv'
  BY <1>3, RerollKeeps
<1>4. ASSUME NEW n \in DOMAIN rounds, Complete(n) \/ Grade(n) \/ Dismiss(n)
      PROVE  ArenaInv'
  BY <1>4, CompleteKeeps, GradeKeeps, DismissKeeps
<1>5. CASE CooldownExpires
  BY <1>5, CooldownKeeps
<1> QED
  BY <1>1, <1>2, <1>3, <1>4, <1>5 DEF Next

\* Whatever the callers do: the rounds of the log are staffed by distinct
\* variants of the roster, linked to the rounds they replace, and graded once,
\* and what a caller holds between its two writes fits the log
\* (run_orchestrated_arena_round, cmd_reroll_slot, build_record_from_grade).
THEOREM ArenaInvariant == Spec => []ArenaInv
<1>1. Init => ArenaInv
  BY ArenaInit
<1>2. ArenaInv /\ [Next]_vars => ArenaInv'
  BY ArenaStep
<1> QED
  BY <1>1, <1>2, PTL DEF Spec

LEMMA StaffedDiffer ==
  ASSUME NEW round \in RoundSet, Staffed(round)
  PROVE  Cardinality(VariantsOf(round)) = Len(round.runs)
<1>1. round.runs \in Seq(RunSet)
  <2> HIDE DEF RunSet
  <2> QED
    BY DEF RoundSet
<1>2. DOMAIN round.runs = 1..Len(round.runs) /\ Len(round.runs) \in Nat
      /\ \A s \in DOMAIN round.runs : round.runs[s] \in RunSet
  <2> HIDE DEF RunSet
  <2> QED
    BY <1>1
<1>3. \A s \in DOMAIN round.runs : round.runs[s].variant \in Eligible
  BY <1>2 DEF RunSet
<1> DEFINE q == [s \in 1..Len(round.runs) |-> round.runs[s].variant]
<1>4. q \in Seq(Eligible) /\ Len(q) = Len(round.runs)
  <2>1. q \in [1..Len(round.runs) -> Eligible]
    BY <1>2, <1>3
  <2> HIDE DEF q
  <2> QED
    BY <1>2, <2>1
<1>5. IsInjective(q)
  BY <1>2 DEF Staffed, IsInjective
<1>6. ToSet(q) = VariantsOf(round)
  BY <1>2 DEF ToSet, VariantsOf
<1> HIDE DEF q
<1> QED
  BY <1>4, <1>5, <1>6, InjectiveLength

\* The variables keep their types: no retired variant reviews, is a champion or
\* cools down, a completed round has no open slot, and there are no more grades
\* than rounds.
THEOREM ArenaTypeCorrect == Spec => []TypeOK
<1>1. ArenaInv => TypeOK
  <2> SUFFICES ASSUME ArenaInv PROVE TypeOK
    OBVIOUS
  <2>1. StateOK /\ RoundsOK
    BY DEF ArenaInv
  <2>2. Len(rounds) \in Nat /\ Len(log) \in Nat /\ MaxRounds \in Nat /\ Len(rounds) <= MaxRounds
    BY <2>1, Records, ArenaAssumption DEF RoundsOK
  <2>3. Len(log) <= MaxRounds
    <3>1. GradedOf({"configured", None}) \subseteq DOMAIN rounds
      BY DEF GradedOf
    <3>2. IsFiniteSet(DOMAIN rounds) /\ Cardinality(DOMAIN rounds) = Len(rounds)
      <4>1. DOMAIN rounds = 1..Len(rounds)
        BY <2>1, Records
      <4>2. Cardinality(1..Len(rounds)) = Len(rounds) /\ IsFiniteSet(1..Len(rounds))
        BY <2>2, UptoSize
      <4> QED
        BY <4>1, <4>2
    <3>3. Cardinality(GradedOf({"configured", None})) <= Len(rounds)
      BY <3>1, <3>2, FS_Subset
    <3>4. Len(log) = Cardinality(GradedOf({"configured", None}))
      BY DEF ArenaInv, LogOK
    <3> QED
      BY <2>2, <3>3, <3>4
  <2>4. ASSUME NEW n \in DOMAIN rounds
        PROVE  /\ rounds[n].status \in {"sampled", "completed", "graded", "dismissed"}
               /\ VariantsOf(rounds[n]) \intersect Retired = {}
               /\ rounds[n].from < n
               /\ rounds[n].status \in {"completed", "graded"} => Finished(rounds[n])
    <3>1. rounds[n] \in RoundSet
      BY <2>1, Records
    <3>2. /\ rounds[n].runs \in Seq(RunSet)
          /\ rounds[n].status \in {"sampled", "completed", "graded", "dismissed"}
      <4> HIDE DEF RunSet
      <4> QED
        BY <3>1 DEF RoundSet
    <3>3. \A s \in DOMAIN rounds[n].runs : rounds[n].runs[s] \in RunSet
      <4> HIDE DEF RunSet
      <4> QED
        BY <3>2
    <3>4. \A s \in DOMAIN rounds[n].runs : rounds[n].runs[s].variant \notin Retired
      BY <3>3 DEF RunSet, Eligible
    <3>5. VariantsOf(rounds[n]) \intersect Retired = {}
      BY <3>4 DEF VariantsOf
    <3> QED
      BY <2>1, <3>2, <3>5 DEF RoundsOK, Linked
  <2>5. op.champions \subseteq Eligible /\ op.cool \subseteq Eligible
    BY <2>1 DEF StateOK
  <2> QED
    BY <2>2, <2>3, <2>4, <2>5 DEF TypeOK
<1> QED
  BY <1>1, ArenaInvariant, PTL

\* No sequence of selections, rerolls and failures puts a variant into a round
\* twice: every round can be graded as far as its reviewers go.
THEOREM ArenaReviewersDiffer == Spec => []ReviewersDiffer
<1>1. ArenaInv => ReviewersDiffer
  BY StaffedDiffer, Records DEF ArenaInv, RoundsOK, ReviewersDiffer
<1> QED
  BY <1>1, ArenaInvariant, PTL

\* The round has the size of the groups of the schedule.
GroupsFull ==
    \A n \in DOMAIN rounds :
        rounds[n].pool = "configured" => Cardinality(VariantsOf(rounds[n])) = GroupSize

\* A round of the pool has as many reviewers as a group of the schedule, whether
\* it was scheduled, balanced or rerolled (select_pair, build_reroll_slot_payload).
THEOREM ArenaGroupsFull == Spec => []GroupsFull
<1>1. ArenaInv => GroupsFull
  BY StaffedDiffer, Records DEF ArenaInv, RoundsOK, GroupsFull, Staffed
<1> QED
  BY <1>1, ArenaInvariant, PTL

\* update_elo over any sequence of grades, for any K factor and any ranks: what
\* one reviewer gains its opponents lose, so the sum of the ratings stays.
THEOREM ArenaRatingsBalance == Spec => []RatingsBalance
<1>1. ArenaInv => RatingsBalance
  <2> SUFFICES ASSUME ArenaInv PROVE RatingsBalance
    OBVIOUS
  <2>1. Len(log) \in Nat /\ DOMAIN log = 1..Len(log)
    BY Records DEF ArenaInv
  <2>2. \A k \in 1..Len(log) : GradeOK(log[k])
    BY <2>1 DEF ArenaInv, LogOK
  <2> QED
    BY <2>1, <2>2, RatingsKeepSum DEF RatingsBalance
<1> QED
  BY <1>1, ArenaInvariant, PTL

-----------------------------------------------------------------------------
(* The schedule                                                             *)

LEMMA TwoOf ==
  ASSUME NEW S, IsFiniteSet(S), Cardinality(S) <= 1, NEW x \in S, NEW y \in S
  PROVE  x = y
<1> SUFFICES ASSUME x # y PROVE FALSE
  OBVIOUS
<1>1. IsFiniteSet(S \ {x}) /\ Cardinality(S \ {x}) = Cardinality(S) - 1
      /\ Cardinality(S) \in Nat /\ Cardinality(S \ {x}) \in Nat
  <2>1. IsFiniteSet(S \ {x})
    BY FS_Subset
  <2> QED
    BY <2>1, FS_RemoveElement, FS_CardinalityType
<1>2. Cardinality(S \ {x}) = 0
  BY <1>1
<1>3. S \ {x} = {}
  BY <1>1, <1>2, FS_EmptySet
<1> QED
  BY <1>3

\* The cardinality of a set split in two.
LEMMA SplitCount ==
  ASSUME NEW S, IsFiniteSet(S), NEW A, NEW B, A \union B = S, A \intersect B = {}
  PROVE  Cardinality(S) = Cardinality(A) + Cardinality(B)
         /\ Cardinality(A) \in Nat /\ Cardinality(B) \in Nat
<1>1. IsFiniteSet(A) /\ IsFiniteSet(B)
  BY FS_Subset
<1>2. Cardinality(A \union B) = Cardinality(A) + Cardinality(B) - Cardinality(A \intersect B)
  BY <1>1, FS_Union
<1>3. Cardinality(A) \in Nat /\ Cardinality(B) \in Nat /\ Cardinality({}) = 0
  BY <1>1, FS_CardinalityType, FS_EmptySet
<1>4. Cardinality(S) = Cardinality(A) + Cardinality(B) - 0
  BY <1>2, <1>3
<1>5. \A i, j \in Nat : i + j - 0 = i + j
  OBVIOUS
<1> QED
  BY <1>3, <1>4, <1>5

\* While nothing is disturbed each round of the pool counts once, whatever was
\* rerolled: the records are as many as the rounds that were selected.
LEMMA RecordsCountRoots ==
  ASSUME ArenaInv, Undisturbed
  PROVE  PoolRecords = Cardinality(Roots)
<1> DEFINE D == DOMAIN rounds
           Conf == {n \in D : rounds[n].pool = "configured"}
           Open == {n \in D : Exposed(n) /\ rounds[n].pool \in {"configured"}
                              /\ {} \subseteq VariantsOf(rounds[n])}
           Grd == GradedOf({"configured"})
           Leaves == {n \in Conf : ~Replaced(n)}
           Repl == {n \in Conf : Replaced(n)}
           Later == {n \in Conf : rounds[n].from # 0}
           Pooled2 == {k \in DOMAIN log : log[k].pool \in {"configured"}
                                          /\ {} \subseteq UNION ToSet(log[k].groups)}
<1>1. IsFiniteSet(D) /\ IsFiniteSet(Conf) /\ IsFiniteSet(Leaves) /\ IsFiniteSet(Later)
      /\ D = 1..Len(rounds) /\ Len(rounds) \in Nat
  <2>1. IsFiniteSet(D) /\ D = 1..Len(rounds) /\ Len(rounds) \in Nat
    BY Records DEF ArenaInv
  <2>2. Conf \subseteq D /\ Leaves \subseteq D /\ Later \subseteq D
    OBVIOUS
  <2> HIDE DEF D, Conf, Leaves, Later
  <2> QED
    BY <2>1, <2>2, FS_Subset
<1>2. \A n \in D : /\ rounds[n].status \in {"sampled", "completed", "graded", "dismissed"}
                   /\ rounds[n].from \in Nat /\ rounds[n].from < n
                   /\ rounds[n].from > 0 => rounds[rounds[n].from].pool = rounds[n].pool
  <2>1. \A n \in D : rounds[n] \in RoundSet
    BY Records DEF ArenaInv
  <2>2. \A n \in D : Linked(rounds[n], n)
    BY DEF ArenaInv, RoundsOK
  <2>3. \A r \in RoundSet : r.status \in {"sampled", "completed", "graded", "dismissed"}
                            /\ r.from \in Nat
    <3> HIDE DEF RunSet, Pairings
    <3> QED
      BY DEF RoundSet
  <2> QED
    BY <2>1, <2>2, <2>3 DEF Linked
<1>3. PoolRecords = Cardinality(Open) + Cardinality(Grd)
  <2>1. PoolRecords = Cardinality(Open) + Cardinality(Pooled2)
    BY DEF PoolRecords, Meet
  <2>2. Pooled2 = {k \in DOMAIN log : log[k].pool = "configured"}
    OBVIOUS
  <2>3. Cardinality({k \in DOMAIN log : log[k].pool = "configured"}) = Cardinality(Grd)
    BY DEF ArenaInv, LogOK
  <2> QED
    BY <2>1, <2>2, <2>3
<1>4. Open \union Grd = Leaves /\ Open \intersect Grd = {}
  <2>1. \A n \in D : rounds[n].status # "dismissed" /\ (rounds[n].status = "graded" => ~Replaced(n))
    BY DEF Undisturbed
  <2>2. ASSUME NEW n \in Open PROVE n \in Leaves /\ n \notin Grd
    BY DEF Exposed, GradedOf
  <2>3. ASSUME NEW n \in Grd PROVE n \in Leaves
    BY <2>1 DEF GradedOf
  <2>4. ASSUME NEW n \in Leaves PROVE n \in Open \/ n \in Grd
    <3>1. rounds[n].status \in {"sampled", "completed", "graded"}
      BY <1>2, <2>1
    <3> QED
      BY <3>1 DEF Exposed, GradedOf
  <2> QED
    BY <2>2, <2>3, <2>4
<1>5. PoolRecords = Cardinality(Leaves)
  <2> HIDE DEF Open, Grd, Leaves
  <2> QED
    BY <1>1, <1>3, <1>4, SplitCount
<1>6. Conf = Leaves \union Repl /\ Leaves \intersect Repl = {}
  OBVIOUS
<1>7. Conf = Roots \union Later /\ Roots \intersect Later = {}
  BY DEF Roots
<1> DEFINE f == [n \in Later |-> rounds[n].from]
<1>8. f \in Bijection(Later, Repl)
  <2>1. ASSUME NEW n \in Later PROVE f[n] \in Repl
    <3>1. rounds[n].from \in D /\ rounds[n].from > 0
      BY <1>1, <1>2
    <3>2. rounds[rounds[n].from].pool = "configured"
      BY <1>2, <3>1
    <3>3. Replaced(rounds[n].from)
      BY DEF Replaced
    <3> QED
      BY <3>1, <3>2, <3>3
  <2>2. ASSUME NEW n \in Later, NEW m \in Later, f[n] = f[m] PROVE n = m
    <3> DEFINE S == {i \in DOMAIN rounds : rounds[i].from = rounds[n].from}
    <3>1. rounds[n].from \in D
      BY <1>1, <1>2
    <3>2. Cardinality(S) <= 1
      BY <3>1 DEF Undisturbed
    <3>3. n \in S /\ m \in S
      BY <2>2
    <3>4. IsFiniteSet(S)
      <4>1. S \subseteq D
        OBVIOUS
      <4> HIDE DEF S, D
      <4> QED
        BY <1>1, <4>1, FS_Subset
    <3> HIDE DEF S
    <3> QED
      BY <3>2, <3>3, <3>4, TwoOf
  <2>3. ASSUME NEW k \in Repl PROVE \E n \in Later : f[n] = k
    <3>1. PICK n \in D : rounds[n].from = k
      BY DEF Replaced
    <3>2. k > 0 /\ rounds[k].pool = "configured"
      BY <1>1
    <3>3. n \in Later
      BY <1>2, <3>1, <3>2
    <3> QED
      BY <3>1, <3>3
  <2>4. f \in [Later -> Repl]
    BY <2>1
  <2>5. \A n, m \in Later : f[n] = f[m] => n = m
    BY <2>2
  <2>6. \A k \in Repl : \E n \in Later : f[n] = k
    BY <2>3
  <2> HIDE DEF f, Later, Repl
  <2> QED
    BY <2>4, <2>5, <2>6 DEF Bijection, Injection, Surjection, IsInjective
<1>9. Cardinality(Repl) = Cardinality(Later)
  <2> HIDE DEF f, Later, Repl
  <2>1. ExistsBijection(Later, Repl)
    BY <1>8 DEF ExistsBijection
  <2> QED
    BY <1>1, <2>1, FS_Bijection
<1>10. /\ Cardinality(Conf) = Cardinality(Leaves) + Cardinality(Repl)
       /\ Cardinality(Conf) = Cardinality(Roots) + Cardinality(Later)
       /\ Cardinality(Leaves) \in Nat /\ Cardinality(Repl) \in Nat
       /\ Cardinality(Roots) \in Nat /\ Cardinality(Later) \in Nat
  <2> HIDE DEF Conf, Leaves, Repl, Later
  <2>1. /\ Cardinality(Conf) = Cardinality(Leaves) + Cardinality(Repl)
        /\ Cardinality(Leaves) \in Nat /\ Cardinality(Repl) \in Nat
    <3>1. IsFiniteSet(Conf) /\ Leaves \union Repl = Conf /\ Leaves \intersect Repl = {}
      BY <1>1, <1>6
    <3> QED
      BY <3>1, SplitCount
  <2>2. /\ Cardinality(Conf) = Cardinality(Roots) + Cardinality(Later)
        /\ Cardinality(Roots) \in Nat /\ Cardinality(Later) \in Nat
    BY <1>1, <1>7, SplitCount
  <2> QED
    BY <2>1, <2>2
<1> QED
  BY <1>5, <1>9, <1>10

\* No step forgets: a round keeps its pool, origin and index, stays graded or
\* dismissed, and an overlap stays an overlap.
Kept ==
    /\ raced => raced'
    /\ \A n \in DOMAIN rounds :
        /\ n \in DOMAIN rounds'
        /\ rounds'[n].pool = rounds[n].pool /\ rounds'[n].from = rounds[n].from
        /\ rounds'[n].index = rounds[n].index
        /\ rounds[n].status \in {"graded", "dismissed"}
             => rounds'[n].status = rounds[n].status

\* What was disturbed stays so.
LEMMA UndisturbedBefore ==
  ASSUME Kept, StateOK', Undisturbed'
  PROVE  Undisturbed
<1>1. ~raced
  BY DEF Kept, Undisturbed
<1>2. \A n : Replaced(n) => Replaced(n)'
  BY DEF Kept, Replaced
<1>3. ASSUME NEW n \in DOMAIN rounds
      PROVE  /\ rounds[n].status # "dismissed"
             /\ rounds[n].status = "graded" => ~Replaced(n)
  <2>1. n \in DOMAIN rounds'
    BY DEF Kept
  <2>2. rounds'[n].status # "dismissed" /\ (rounds'[n].status = "graded" => ~Replaced(n)')
    BY <2>1 DEF Undisturbed
  <2> QED
    BY <1>2, <2>2 DEF Kept
<1>4. ASSUME NEW n \in DOMAIN rounds
      PROVE  Cardinality({m \in DOMAIN rounds : rounds[m].from = n}) <= 1
  <2> DEFINE A == {m \in DOMAIN rounds : rounds[m].from = n}
             B == {m \in DOMAIN rounds' : rounds'[m].from = n}
  <2>1. A \subseteq B
    BY DEF Kept
  <2>2. IsFiniteSet(DOMAIN rounds')
    <3>1. rounds' \in Seq(RoundSet)
      BY DEF StateOK
    <3> HIDE DEF RoundSet
    <3>2. DOMAIN rounds' = 1..Len(rounds') /\ Len(rounds') \in Nat
      BY <3>1
    <3> QED
      BY <3>2, UptoSize
  <2>3. B \subseteq DOMAIN rounds'
    OBVIOUS
  <2>4. Cardinality(B) <= 1
    <3>1. n \in DOMAIN rounds'
      BY DEF Kept
    <3> QED
      BY <3>1 DEF Undisturbed
  <2> HIDE DEF A, B
  <2>5. IsFiniteSet(B) /\ Cardinality(B) \in Nat
    BY <2>2, <2>3, FS_Subset, FS_CardinalityType
  <2>6. Cardinality(A) <= Cardinality(B) /\ Cardinality(A) \in Nat
    BY <2>1, <2>5, FS_Subset, FS_CardinalityType
  <2>7. Cardinality(A) <= 1
    BY <2>4, <2>5, <2>6
  <2> QED
    BY <2>7 DEF A
<1> QED
  BY <1>1, <1>3, <1>4 DEF Undisturbed

\* A step that writes no round and drafts none.
LEMMA TurnUnchanged ==
  ASSUME TurnInv, ArenaInv', Kept, DOMAIN rounds' = DOMAIN rounds, draft' = draft, raced' = raced
  PROVE  DraftsInTurn' /\ GroupsOnce'
<1>1. Undisturbed' => Undisturbed
  BY UndisturbedBefore DEF ArenaInv
<1>2. Roots' = Roots
  BY DEF Roots, Kept
<1>3. DraftsInTurn'
  BY <1>1, <1>2 DEF TurnInv, DraftsInTurn, Turn
<1>4. GroupsOnce'
  <2>1. ASSUME Undisturbed', NEW n \in Roots
        PROVE  rounds'[n].index = Turn(Cardinality({m \in Roots : m < n}))
    <3>1. rounds[n].index = Turn(Cardinality({m \in Roots : m < n}))
      BY <1>1, <2>1 DEF TurnInv, GroupsOnce, Turn
    <3> QED
      BY <3>1 DEF Kept, Roots
  <2> QED
    BY <1>2, <2>1 DEF GroupsOnce, Turn
<1> QED
  BY <1>3, <1>4

\* A draft that nothing overlaps is the only one.
LEMMA TurnDrafted ==
  ASSUME TurnInv, ArenaInv', NEW c \in Callers, NEW round, Draft(c, round),
         Undisturbed /\ round.from = 0 /\ round.pool = "configured"
           => round.index = Turn(Cardinality(Roots))
  PROVE  DraftsInTurn' /\ GroupsOnce'
<1>1. /\ draft' = [draft EXCEPT ![c] = round] /\ raced' = (raced \/ Overlap)
      /\ rounds' = rounds
  BY DEF Draft
<1>2. Kept
  BY <1>1 DEF Kept
<1>3. Undisturbed' => Undisturbed
  BY <1>2, UndisturbedBefore DEF ArenaInv
<1>4. Roots' = Roots
  BY <1>1 DEF Roots
<1>5. ASSUME ~raced', NEW d \in Callers, draft'[d] # None
      PROVE  d = c /\ draft'[d] = round
  <2>1. draft \in [Callers -> RoundSet \union {None}]
    BY DEF TurnInv, ArenaInv, StateOK
  <2>2. draft[d] = None
    BY <1>1, <1>5 DEF Overlap
  <2> HIDE DEF RoundSet
  <2> QED
    BY <1>1, <1>5, <2>1, <2>2
<1>6. DraftsInTurn'
  BY <1>3, <1>4, <1>5 DEF DraftsInTurn, Turn
<1>7. GroupsOnce'
  <2>1. Undisturbed' => GroupsOnce /\ Undisturbed
    BY <1>3 DEF TurnInv
  <2> QED
    BY <1>1, <1>4, <2>1 DEF GroupsOnce
<1> QED
  BY <1>6, <1>7

\* Writing the only draft: the index it was given is still the next one.
LEMMA TurnWritten ==
  ASSUME TurnInv, ArenaInv', NEW c \in Callers, WriteRound(c)
  PROVE  DraftsInTurn' /\ GroupsOnce'
<1>1. /\ rounds \in Seq(RoundSet) /\ draft \in [Callers -> RoundSet \union {None}]
      /\ Len(rounds) \in Nat
  BY DEF TurnInv, ArenaInv, StateOK
<1>2. PICK round : round = draft[c]
  OBVIOUS
<1>3. PICK n \in Nat : n = Len(rounds) + 1
  BY <1>1
<1>4. /\ round # None /\ rounds' = Append(rounds, round) /\ raced' = raced
      /\ draft' = [draft EXCEPT ![c] = None]
  BY <1>2 DEF WriteRound
<1> HIDE DEF RoundSet
<1>5. /\ DOMAIN rounds' = 1..n /\ DOMAIN rounds = 1..(n - 1) /\ rounds'[n] = round
      /\ \A m \in DOMAIN rounds : rounds'[m] = rounds[m] /\ m \in DOMAIN rounds' /\ m < n
      /\ n \in DOMAIN rounds' /\ n \notin DOMAIN rounds
  <2>1. round \in RoundSet
    BY <1>1, <1>2, <1>4
  <2> QED
    BY <1>1, <1>3, <1>4, <2>1
<1>6. \A m \in DOMAIN rounds' : m = n \/ m \in DOMAIN rounds
  BY <1>5
<1>7. Kept
  BY <1>4, <1>5 DEF Kept
<1>8. Undisturbed' => Undisturbed
  BY <1>7, UndisturbedBefore DEF ArenaInv
<1>9. \A d \in Callers : draft'[d] = IF d = c THEN None ELSE draft[d]
  BY <1>1, <1>4
<1>10. DraftsInTurn'
  <2>1. ASSUME ~raced', NEW d \in Callers, draft'[d] # None PROVE FALSE
    <3>1. d # c /\ draft[d] # None /\ draft[c] # None /\ ~raced
      BY <1>2, <1>4, <1>9, <2>1
    <3> QED
      BY <3>1 DEF TurnInv, DraftsInTurn
  <2> QED
    BY <2>1 DEF DraftsInTurn
<1>11. ASSUME Undisturbed', NEW m \in Roots'
       PROVE  rounds'[m].index = Turn(Cardinality({i \in Roots' : i < m}))
  <2>1. Undisturbed /\ ~raced
    BY <1>8, <1>11 DEF Undisturbed
  <2>2. ASSUME NEW i PROVE i \in Roots' <=>
           i \in Roots \/ (i = n /\ round.from = 0 /\ round.pool = "configured")
    BY <1>5, <1>6 DEF Roots
  <2>3. \A i \in Roots : i \in DOMAIN rounds /\ i < n /\ i \in Nat
    BY <1>3, <1>5 DEF Roots
  <2>4. CASE m = n
    <3>1. round.from = 0 /\ round.pool = "configured"
      BY <2>2, <2>3, <2>4
    <3>2. round.index = Turn(Cardinality(Roots))
      BY <1>2, <1>4, <2>1, <3>1 DEF TurnInv, DraftsInTurn
    <3>3. {i \in Roots' : i < m} = Roots
      BY <1>3, <2>2, <2>3, <2>4
    <3> QED
      BY <1>5, <2>4, <3>2, <3>3
  <2>5. CASE m \in Roots
    <3>1. rounds[m].index = Turn(Cardinality({i \in Roots : i < m}))
      BY <2>1, <2>5 DEF TurnInv, GroupsOnce, Turn
    <3>2. {i \in Roots' : i < m} = {i \in Roots : i < m}
      BY <1>3, <2>2, <2>3, <2>5
    <3>3. rounds'[m] = rounds[m]
      BY <1>5, <2>3, <2>5
    <3> QED
      BY <3>1, <3>2, <3>3
  <2> QED
    BY <2>2, <2>4, <2>5
<1>12. GroupsOnce'
  BY <1>11 DEF GroupsOnce, Turn
<1> QED
  BY <1>10, <1>12

LEMMA TurnStep ==
  ASSUME TurnInv, [Next]_vars
  PROVE  TurnInv'
<1>1. ArenaInv'
  BY ArenaStep DEF TurnInv
<1>2. CASE UNCHANGED vars
  <2>1. /\ rounds' = rounds /\ draft' = draft /\ raced' = raced
    BY <1>2 DEF vars
  <2>2. Kept
    BY <2>1 DEF Kept
  <2> QED
    BY <1>1, <2>1, <2>2, TurnUnchanged DEF TurnInv
<1>3. StateOK
  BY DEF TurnInv, ArenaInv
<1>4. ASSUME NEW c \in Callers, SampleSchedule(c) PROVE TurnInv'
  <2>1. PICK runs : runs = RunsOf(ScheduledGroup)
    OBVIOUS
  <2>2. PICK round : round = Round("configured", "schedule", NextIndex, runs, 0, 0, {})
    OBVIOUS
  <2>3. Draft(c, round) /\ PoolRecords < Len(Groups)
    BY <1>4, <2>1, <2>2 DEF SampleSchedule
  <2>4. round.index = NextIndex
    BY <2>2 DEF Round
  <2>5. NextIndex = PoolRecords
    BY <1>3, <2>3, ScheduleIs
  <2>6. Undisturbed => round.index = Turn(Cardinality(Roots))
    <3>1. Undisturbed => PoolRecords = Cardinality(Roots)
      BY RecordsCountRoots DEF TurnInv
    <3> QED
      BY <2>3, <2>4, <2>5, <3>1 DEF Turn
  <2> QED
    BY <1>1, <2>3, <2>6, TurnDrafted DEF TurnInv
<1>5. ASSUME NEW c \in Callers, SampleBalanced(c) PROVE TurnInv'
  <2>1. PICK runs : runs = RunsOf(BalancedGroup)
    OBVIOUS
  <2>2. PICK round : round = Round("configured", "balanced", None, runs, 0, 0, {})
    OBVIOUS
  <2>3. Draft(c, round) /\ PoolRecords >= Len(Groups)
    BY <1>5, <2>1, <2>2 DEF SampleBalanced
  <2>4. round.index = None
    BY <2>2 DEF Round
  <2>5. ~(PoolRecords < Len(Groups))
    BY <1>3, <2>3, ScheduleIs, GroupSizes
  <2>6. Undisturbed => round.index = Turn(Cardinality(Roots))
    <3>1. Undisturbed => PoolRecords = Cardinality(Roots)
      BY RecordsCountRoots DEF TurnInv
    <3> QED
      BY <2>4, <2>5, <3>1 DEF Turn
  <2> QED
    BY <1>1, <2>3, <2>6, TurnDrafted DEF TurnInv
<1>6. ASSUME NEW c \in Callers, SamplePair(c) PROVE TurnInv'
  <2>1. PICK p \in Pairs : Draft(c, Round(None, p.pairing, None, RunsOf(p.pair), 0, 0, {}))
    BY <1>6 DEF SamplePair
  <2>2. PICK round : round = Round(None, p.pairing, None, RunsOf(p.pair), 0, 0, {})
    OBVIOUS
  <2>3. round.pool # "configured"
    <3>1. round.pool = None
      BY <2>2 DEF Round
    <3> QED
      BY <3>1, ArenaAssumption
  <2>4. Draft(c, round)
    BY <2>1, <2>2
  <2> QED
    BY <1>1, <2>3, <2>4, TurnDrafted DEF TurnInv
<1>7. ASSUME NEW c \in Callers, WriteRound(c) PROVE TurnInv'
  BY <1>1, <1>7, TurnWritten DEF TurnInv
<1>8. ASSUME NEW c \in Callers, NEW n \in DOMAIN rounds, NEW slot \in DOMAIN rounds[n].runs,
             Reroll(c, n, slot)
      PROVE  TurnInv'
  <2>1. PICK round \in RoundSet : Draft(c, round) /\ round.from = n
    BY <1>8, RerollKeeps DEF TurnInv
  <2>2. round.from # 0
    <3>1. n >= 1
      BY <1>3, Records
    <3> QED
      BY <2>1, <3>1
  <2> QED
    BY <1>1, <2>1, <2>2, TurnDrafted DEF TurnInv
<1>9. ASSUME NEW n \in DOMAIN rounds, Complete(n) \/ Grade(n) \/ Dismiss(n)
      PROVE  TurnInv'
  <2>1. rounds[n] \in RoundSet /\ n \in DOMAIN rounds
    BY <1>3, Records
  <2>2. /\ draft' = draft /\ raced' = raced
        /\ rounds[n].status \in {"sampled", "completed"}
    BY <1>9 DEF Complete, Grade, Gradable, Dismiss
  <2>3. /\ DOMAIN rounds' = DOMAIN rounds
        /\ \A m \in DOMAIN rounds : m # n => rounds'[m] = rounds[m]
        /\ rounds'[n].pool = rounds[n].pool /\ rounds'[n].from = rounds[n].from
        /\ rounds'[n].index = rounds[n].index
    <3>1. CASE Complete(n)
      <4>1. PICK outs \in [DOMAIN rounds[n].runs -> Outcomes] :
              LET runs == [s \in DOMAIN rounds[n].runs |->
                              IF rounds[n].runs[s].out # None THEN rounds[n].runs[s]
                              ELSE [rounds[n].runs[s] EXCEPT !.out = outs[s]]]
                  Of(kinds) == {runs[s].variant : s \in {t \in DOMAIN runs : runs[t].out \in kinds}}
                  failed == Of({"capacity", "timed_out"})
              IN /\ \A s \in DOMAIN outs : rounds[n].runs[s].out # None => outs[s] = "completed"
                 /\ Failures + Cardinality({s \in DOMAIN outs : outs[s] # "completed"}) <= MaxFailures
                 /\ rounds' = [rounds EXCEPT ![n].status = "completed", ![n].runs = runs]
                 /\ op' = [op EXCEPT !.cool = (@ \ Of({"completed"})) \union failed]
        BY <3>1 DEF Complete
      <4> DEFINE runs == [s \in DOMAIN rounds[n].runs |->
                            IF rounds[n].runs[s].out # None THEN rounds[n].runs[s]
                            ELSE [rounds[n].runs[s] EXCEPT !.out = outs[s]]]
      <4>2. rounds' = [rounds EXCEPT ![n].status = "completed", ![n].runs = runs]
        BY <4>1
      <4> HIDE DEF runs, RunSet, Pairings
      <4>3. /\ DOMAIN rounds' = DOMAIN rounds
            /\ \A m \in DOMAIN rounds : m # n => rounds'[m] = rounds[m]
            /\ rounds'[n] = [rounds[n] EXCEPT !.status = "completed", !.runs = runs]
        BY <4>2
      <4> QED
        BY <2>1, <4>3 DEF RoundSet
    <3>2. CASE Grade(n) \/ Dismiss(n)
      <4>1. PICK status \in {"graded", "dismissed"} : rounds' = [rounds EXCEPT ![n].status = status]
        BY <3>2 DEF Grade, Dismiss
      <4> HIDE DEF RunSet, Pairings
      <4>2. /\ DOMAIN rounds' = DOMAIN rounds
            /\ \A m \in DOMAIN rounds : m # n => rounds'[m] = rounds[m]
            /\ rounds'[n] = [rounds[n] EXCEPT !.status = status]
        BY <4>1
      <4> QED
        BY <2>1, <4>2 DEF RoundSet
    <3> QED
      BY <1>9, <3>1, <3>2
  <2>6. Kept
    BY <2>2, <2>3 DEF Kept
  <2> QED
    BY <1>1, <2>2, <2>3, <2>6, TurnUnchanged DEF TurnInv
<1>10. CASE CooldownExpires
  <2>1. /\ rounds' = rounds /\ draft' = draft /\ raced' = raced
    BY <1>10 DEF CooldownExpires
  <2>2. Kept
    BY <2>1 DEF Kept
  <2> QED
    BY <1>1, <2>1, <2>2, TurnUnchanged DEF TurnInv
<1> QED
  BY <1>2, <1>4, <1>5, <1>6, <1>7, <1>8, <1>9, <1>10 DEF Next

\* As long as no two selections overlapped, at most one caller holds a round it
\* has yet to write, and unless something was dismissed, rerolled twice or graded
\* besides its reroll, that round is the next group of the schedule
\* (select_pair, _configured_variant_group).
THEOREM ArenaTurnInvariant == Spec => []TurnInv
<1>1. Init => TurnInv
  <2> SUFFICES ASSUME Init PROVE TurnInv
    OBVIOUS
  <2>1. draft = [c \in Callers |-> None] /\ DOMAIN rounds = {}
    BY DEF Init
  <2>2. DraftsInTurn /\ GroupsOnce
    BY <2>1 DEF DraftsInTurn, GroupsOnce, Roots
  <2> QED
    BY <2>2, ArenaInit DEF TurnInv
<1>2. TurnInv /\ [Next]_vars => TurnInv'
  BY TurnStep
<1> QED
  BY <1>1, <1>2, PTL DEF Spec

\* A configured pool uses its groups once each and in order, and balances
\* afterwards, however many rounds are rerolled and graded in between, for every
\* schedule: unless selections overlap, a round is dismissed, or a round is
\* rerolled twice or graded besides its reroll.
THEOREM ArenaGroupsOnce == Spec => []GroupsOnce
<1>1. TurnInv => GroupsOnce
  BY DEF TurnInv
<1> QED
  BY <1>1, ArenaTurnInvariant, PTL

=============================================================================
