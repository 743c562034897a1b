---------------------------- MODULE StationProofs ----------------------------
(***************************************************************************)
(* Theorems about Station, for every set of sources and meters, every      *)
(* coverage and every output: sub-meters add up, because the net power of  *)
(* a set of sources is additive over disjoint sets, and the voltage        *)
(* register holds the voltage it is meant to show.                         *)
(*                                                                         *)
(* The first half is about sums over finite sets: they are folds, and what *)
(* a fold computes is established by induction over the subsets of a       *)
(* finite set, through minimal counterexamples.                            *)
(***************************************************************************)
EXTENDS Station, FiniteSetTheorems, TLAPS

\* The folds of the community modules take the elements of a set one by one, the
\* one that CHOOSE picks first.
Pick(s) == CHOOSE x \in s : TRUE

\* g is the function that the fold over S computes.
Folds(f, g, S) ==
    g = [s \in SUBSET S |-> IF s = {} THEN 0 ELSE f[Pick(s)] + g[s \ {Pick(s)}]]

\* The sum is what that function says of the whole set.
LEMMA SumUnfolded ==
    ASSUME NEW f, NEW S
    PROVE  SumFunctionOnSet(f, S) = (CHOOSE g : Folds(f, g, S))[S]
BY DEF SumFunctionOnSet, FoldFunctionOnSet, MapThenFoldSet, Folds, Pick

\* A set that is not empty has the element that is picked from it.
LEMMA PickIn == ASSUME NEW s, s # {} PROVE Pick(s) \in s
BY DEF Pick

\* Induction over the subsets of a finite set: a set of counterexamples would have
\* a minimal one.
LEMMA MinimalSubset ==
    ASSUME NEW S, IsFiniteSet(S), NEW T, T \subseteq SUBSET S, T # {}
    PROVE  \E m \in T : \A y \in T : y \subseteq m => y = m
<1>1. FiniteSubsetsOf(S) = SUBSET S
  BY FS_Subset DEF FiniteSubsetsOf
<1>2. PICK m \in T : \A y \in T : ~ (<<y, m>> \in StrictSubsetOrdering(S))
  BY <1>1, FS_StrictSubsetOrderingWellFounded, WFMin
<1>3. ASSUME NEW y \in T, y \subseteq m PROVE y = m
  BY <1>2, <1>3 DEF StrictSubsetOrdering
<1> QED BY <1>3

\* A fold takes one element and goes on with the rest.
LEMMA FoldStep ==
    ASSUME NEW f, NEW g, NEW S, Folds(f, g, S)
    PROVE  /\ g[{}] = 0
           /\ \A s \in SUBSET S : s # {} => g[s] = f[Pick(s)] + g[s \ {Pick(s)}]
BY DEF Folds

\* Two folds of one function agree where both are defined.
LEMMA FoldsAgree ==
    ASSUME NEW f, NEW A, IsFiniteSet(A), NEW B, NEW g, NEW h,
           Folds(f, g, A), Folds(f, h, B), NEW s \in SUBSET A, s \subseteq B
    PROVE  g[s] = h[s]
<1> DEFINE T == {t \in SUBSET A : t \subseteq B /\ g[t] # h[t]}
<1>1. T = {}
  <2> SUFFICES ASSUME T # {} PROVE FALSE
    OBVIOUS
  <2>0. T \subseteq SUBSET A
    OBVIOUS
  <2>1. PICK m \in T : \A y \in T : y \subseteq m => y = m
    <3> HIDE DEF T
    <3> QED BY <2>0, MinimalSubset
  <2>2. m # {}
    BY FoldStep
  <2> DEFINE r == m \ {Pick(m)}
  <2>3. r \subseteq m /\ r # m
    BY <2>2, PickIn
  <2>4. g[r] = h[r]
    BY <2>1, <2>3
  <2> QED BY <2>2, <2>4, FoldStep
<1> QED BY <1>1

\* Every finite set has a fold.
LEMMA FoldExists ==
    ASSUME NEW f, NEW S, IsFiniteSet(S) PROVE \E g : Folds(f, g, S)
<1> DEFINE Bad == {T \in SUBSET S : \A g : ~Folds(f, g, T)}
<1>1. Bad = {}
  <2> SUFFICES ASSUME Bad # {} PROVE FALSE
    OBVIOUS
  <2>0. Bad \subseteq SUBSET S
    OBVIOUS
  <2>1. PICK T \in Bad : \A y \in Bad : y \subseteq T => y = T
    <3> HIDE DEF Bad
    <3> QED BY <2>0, MinimalSubset
  <2> DEFINE h(s) == CHOOSE g : Folds(f, g, s)
             rest(s) == s \ {Pick(s)}
             G == [s \in SUBSET T |-> IF s = {} THEN 0 ELSE f[Pick(s)] + h(rest(s))[rest(s)]]
  <2>2. ASSUME NEW s \in SUBSET T, s # T PROVE Folds(f, h(s), s) /\ IsFiniteSet(s)
    <3>1. s \in SUBSET S /\ s \notin Bad
      BY <2>1, <2>2
    <3>2. \E g : Folds(f, g, s)
      BY <3>1
    <3> QED BY <3>1, <3>2, FS_Subset
  <2>3. ASSUME NEW s \in SUBSET T, s # {}
        PROVE  rest(s) \in SUBSET T /\ rest(s) # T /\ rest(s) # s
    BY <2>3, PickIn
  <2>4. ASSUME NEW s \in SUBSET T, s # T PROVE G[s] = h(s)[s]
    <3>1. Folds(f, h(s), s) /\ IsFiniteSet(s)
      BY <2>2, <2>4
    <3>2. CASE s = {}
      BY <3>1, <3>2, FoldStep
    <3>3. CASE s # {}
      <4>1. rest(s) \in SUBSET T /\ rest(s) # T /\ rest(s) \in SUBSET s
        BY <2>3, <3>3
      <4>2. Folds(f, h(rest(s)), rest(s))
        BY <2>2, <4>1
      <4>3. h(s)[rest(s)] = h(rest(s))[rest(s)]
        BY <3>1, <4>1, <4>2, FoldsAgree
      <4>4. h(s)[s] = f[Pick(s)] + h(s)[rest(s)]
        BY <3>1, <3>3, FoldStep
      <4> QED BY <3>3, <4>3, <4>4
    <3> QED BY <3>2, <3>3
  <2>5. ASSUME NEW s \in SUBSET T
        PROVE  G[s] = IF s = {} THEN 0 ELSE f[Pick(s)] + G[rest(s)]
    <3>1. CASE s = {}
      BY <3>1
    <3>2. CASE s # {}
      <4>1. rest(s) \in SUBSET T /\ rest(s) # T
        BY <2>3, <3>2
      <4>2. G[rest(s)] = h(rest(s))[rest(s)]
        BY <2>4, <4>1
      <4>3. G[s] = f[Pick(s)] + h(rest(s))[rest(s)]
        BY <3>2
      <4> QED BY <3>2, <4>2, <4>3
    <3> QED BY <3>1, <3>2
  <2>6. G = [s \in SUBSET T |-> G[s]]
    OBVIOUS
  <2>7. Folds(f, G, T)
    <3> HIDE DEF G
    <3> QED BY <2>5, <2>6 DEF Folds
  <2> QED BY <2>7
<1> QED BY <1>1

\* What SumFunctionOnSet computes.
LEMMA SumFolds ==
    ASSUME NEW f, NEW S, IsFiniteSet(S)
    PROVE  \E g : /\ Folds(f, g, S)
                  /\ \A s \in SUBSET S : SumFunctionOnSet(f, s) = g[s]
<1> PICK g : Folds(f, g, S)
  BY FoldExists
<1>1. ASSUME NEW s \in SUBSET S PROVE SumFunctionOnSet(f, s) = g[s]
  <2> DEFINE h == CHOOSE k : Folds(f, k, s)
  <2>1. IsFiniteSet(s)
    BY FS_Subset
  <2>2. Folds(f, h, s)
    BY <2>1, FoldExists
  <2>3. h[s] = g[s]
    <3> HIDE DEF h
    <3> QED BY <2>1, <2>2, FoldsAgree
  <2> QED BY <2>3, SumUnfolded
<1> QED BY <1>1

\* Nothing adds up to zero.
LEMMA SumEmpty == ASSUME NEW f PROVE SumFunctionOnSet(f, {}) = 0
BY SumFolds, FoldStep, FS_EmptySet

\* A sum is the term that is picked first and the sum of the others.
LEMMA SumPicked ==
    ASSUME NEW f, NEW S, IsFiniteSet(S), S # {}
    PROVE  SumFunctionOnSet(f, S) = f[Pick(S)] + SumFunctionOnSet(f, S \ {Pick(S)})
<1> PICK g : Folds(f, g, S) /\ \A s \in SUBSET S : SumFunctionOnSet(f, s) = g[s]
  BY SumFolds
<1>1. g[S] = f[Pick(S)] + g[S \ {Pick(S)}]
  BY FoldStep
<1>2. S \in SUBSET S /\ S \ {Pick(S)} \in SUBSET S
  OBVIOUS
<1> QED BY <1>1, <1>2

\* A sum of integers is an integer.
LEMMA SumInt ==
    ASSUME NEW f, NEW S, IsFiniteSet(S), \A x \in S : f[x] \in Int
    PROVE  SumFunctionOnSet(f, S) \in Int
<1> DEFINE Bad == {T \in SUBSET S : SumFunctionOnSet(f, T) \notin Int}
<1>1. Bad = {}
  <2> SUFFICES ASSUME Bad # {} PROVE FALSE
    OBVIOUS
  <2>0. Bad \subseteq SUBSET S
    OBVIOUS
  <2>1. PICK m \in Bad : \A y \in Bad : y \subseteq m => y = m
    <3> HIDE DEF Bad
    <3> QED BY <2>0, MinimalSubset
  <2>2. IsFiniteSet(m)
    BY FS_Subset
  <2>3. m # {}
    BY SumEmpty
  <2>4. m \ {Pick(m)} \notin Bad /\ m \ {Pick(m)} \in SUBSET S /\ Pick(m) \in S
    BY <2>1, <2>3, PickIn
  <2>5. f[Pick(m)] \in Int /\ SumFunctionOnSet(f, m \ {Pick(m)}) \in Int
    BY <2>4
  <2> QED BY <2>2, <2>3, <2>5, SumPicked
<1> QED BY <1>1

\* Any term may be taken off a sum, not only the one the fold picks.
LEMMA SumTakeOff ==
    ASSUME NEW f, NEW S, IsFiniteSet(S), \A x \in S : f[x] \in Int, NEW e \in S
    PROVE  SumFunctionOnSet(f, S) = f[e] + SumFunctionOnSet(f, S \ {e})
<1> DEFINE Sum(T) == SumFunctionOnSet(f, T)
           Bad == {T \in SUBSET S : \E x \in T : Sum(T) # f[x] + Sum(T \ {x})}
<1>0. ASSUME NEW T \in SUBSET S PROVE IsFiniteSet(T) /\ Sum(T) \in Int
  BY FS_Subset, SumInt
<1>1. Bad = {}
  <2> SUFFICES ASSUME Bad # {} PROVE FALSE
    OBVIOUS
  <2>0. Bad \subseteq SUBSET S
    OBVIOUS
  <2>1. PICK m \in Bad : \A y \in Bad : y \subseteq m => y = m
    <3> HIDE DEF Bad
    <3> QED BY <2>0, MinimalSubset
  <2>2. PICK x \in m : Sum(m) # f[x] + Sum(m \ {x})
    BY <2>1
  <2> DEFINE y == Pick(m)
             both == (m \ {x}) \ {y}
  <2>3. y \in m /\ Sum(m) = f[y] + Sum(m \ {y})
    BY <1>0, <2>2, SumPicked, PickIn
  <2>4. x # y
    BY <2>2, <2>3
  <2> HIDE DEF y
  <2>5. Sum(m \ {x}) = f[y] + Sum(both)
    <3>1. m \ {x} \notin Bad /\ m \ {x} \in SUBSET S /\ y \in m \ {x}
      BY <2>1, <2>2, <2>3, <2>4
    <3> QED BY <3>1
  <2>6. Sum(m \ {y}) = f[x] + Sum(both)
    <3>1. m \ {y} \notin Bad /\ m \ {y} \in SUBSET S /\ x \in m \ {y}
      BY <2>1, <2>2, <2>3, <2>4
    <3>2. (m \ {y}) \ {x} = both
      OBVIOUS
    <3> QED BY <3>1, <3>2
  <2>7. f[x] \in Int /\ f[y] \in Int /\ Sum(both) \in Int
    <3>1. x \in S /\ y \in S /\ both \in SUBSET S
      BY <2>2, <2>3
    <3> QED BY <1>0, <3>1
  <2> HIDE DEF Sum, both
  <2> QED BY <2>2, <2>3, <2>5, <2>6, <2>7
<1>2. S \in SUBSET S
  OBVIOUS
<1> QED BY <1>1, <1>2

\* The only function of sets that starts at zero and grows by the value of one of
\* the elements is the sum: all that is needed below of sums follows from this.
LEMMA SumCharacterized ==
    ASSUME NEW f, NEW S, IsFiniteSet(S), \A x \in S : f[x] \in Int,
           NEW V, V[{}] = 0,
           \A T \in SUBSET S : T # {} => \E x \in T : V[T] = f[x] + V[T \ {x}]
    PROVE  V[S] = SumFunctionOnSet(f, S)
<1> DEFINE Bad == {T \in SUBSET S : V[T] # SumFunctionOnSet(f, T)}
<1>1. Bad = {}
  <2> SUFFICES ASSUME Bad # {} PROVE FALSE
    OBVIOUS
  <2>0. Bad \subseteq SUBSET S
    OBVIOUS
  <2>1. PICK m \in Bad : \A y \in Bad : y \subseteq m => y = m
    <3> HIDE DEF Bad
    <3> QED BY <2>0, MinimalSubset
  <2>2. IsFiniteSet(m) /\ m \in SUBSET S
    BY FS_Subset
  <2>3. m # {}
    BY SumEmpty
  <2>4. PICK x \in m : V[m] = f[x] + V[m \ {x}]
    BY <2>2, <2>3
  <2>5. V[m \ {x}] = SumFunctionOnSet(f, m \ {x})
    BY <2>1, <2>4
  <2>6. SumFunctionOnSet(f, m) = f[x] + SumFunctionOnSet(f, m \ {x})
    BY <2>2, SumTakeOff
  <2> QED BY <2>4, <2>5, <2>6
<1>2. S \in SUBSET S
  OBVIOUS
<1> QED BY <1>1, <1>2

-----------------------------------------------------------------------------
\* The sum over a union of disjoint sets.
LEMMA SumUnion ==
    ASSUME NEW f, NEW A, NEW B, IsFiniteSet(A), IsFiniteSet(B), A \cap B = {},
           \A x \in A \cup B : f[x] \in Int
    PROVE  SumFunctionOnSet(f, A \cup B)
               = SumFunctionOnSet(f, A) + SumFunctionOnSet(f, B)
<1> DEFINE Sum(T) == SumFunctionOnSet(f, T)
           V == [T \in SUBSET B |-> Sum(A \cup T) - Sum(A)]
<1>0. ASSUME NEW T \in SUBSET B PROVE IsFiniteSet(A \cup T) /\ Sum(A \cup T) \in Int
  <2>1. IsFiniteSet(A \cup T)
    BY FS_Subset, FS_Union
  <2> QED BY <2>1, SumInt
<1>1. Sum(A) \in Int /\ Sum(B) \in Int
  BY SumInt
<1>2. V[{}] = 0
  <2>1. V[{}] = Sum(A) - Sum(A)
    <3>1. A \cup {} = A
      OBVIOUS
    <3> QED BY <3>1
  <2> HIDE DEF V, Sum
  <2> QED BY <1>1, <2>1
<1>3. ASSUME NEW T \in SUBSET B, T # {}
      PROVE  \E x \in T : V[T] = f[x] + V[T \ {x}]
  <2>1. PICK x \in T : TRUE
    BY <1>3
  <2>2. (A \cup T) \ {x} = A \cup (T \ {x})
    BY <2>1
  <2>3. Sum(A \cup T) = f[x] + Sum(A \cup (T \ {x}))
    <3> DEFINE U == A \cup T
    <3>1. IsFiniteSet(U) /\ x \in U /\ \A y \in U : f[y] \in Int
      BY <1>0, <2>1
    <3>2. Sum(U) = f[x] + Sum(U \ {x})
      <4> HIDE DEF U
      <4> QED BY <3>1, SumTakeOff
    <3> QED BY <2>2, <3>2
  <2>4. T \ {x} \in SUBSET B /\ f[x] \in Int
    BY <2>1
  <2>5. Sum(A \cup T) \in Int /\ Sum(A \cup (T \ {x})) \in Int
    BY <1>0, <2>4
  <2>6. V[T] = Sum(A \cup T) - Sum(A) /\ V[T \ {x}] = Sum(A \cup (T \ {x})) - Sum(A)
    BY <2>4
  <2>7. V[T] = f[x] + V[T \ {x}]
    <3> DEFINE a == Sum(A \cup T)
               b == Sum(A \cup (T \ {x}))
    <3>1. a - Sum(A) = f[x] + (b - Sum(A))
      <4> HIDE DEF Sum
      <4> QED BY <1>1, <2>3, <2>4, <2>5
    <3> HIDE DEF V
    <3> QED BY <2>6, <3>1
  <2> QED BY <2>7
<1>4. V[B] = Sum(B)
  <2> HIDE DEF V
  <2> QED BY <1>2, <1>3, SumCharacterized
<1>5. V[B] = Sum(A \cup B) - Sum(A)
  OBVIOUS
<1>6. Sum(A \cup B) \in Int
  BY <1>0
<1> HIDE DEF V
<1> QED BY <1>1, <1>4, <1>5, <1>6

\* Sums are linear.
LEMMA SumLinear ==
    ASSUME NEW f, NEW g, NEW h, NEW c \in Int, NEW S, IsFiniteSet(S),
           \A x \in S : f[x] \in Int /\ g[x] \in Int /\ h[x] = f[x] + g[x] * c
    PROVE  SumFunctionOnSet(h, S) = SumFunctionOnSet(f, S) + SumFunctionOnSet(g, S) * c
<1> DEFINE F(T) == SumFunctionOnSet(f, T)
           G(T) == SumFunctionOnSet(g, T)
           V == [T \in SUBSET S |-> F(T) + G(T) * c]
<1>0. ASSUME NEW T \in SUBSET S PROVE IsFiniteSet(T) /\ F(T) \in Int /\ G(T) \in Int
  BY FS_Subset, SumInt
<1>1. V[{}] = 0
  <2>1. F({}) = 0 /\ G({}) = 0
    BY SumEmpty
  <2>2. V[{}] = F({}) + G({}) * c
    OBVIOUS
  <2> HIDE DEF V, F, G
  <2> QED BY <2>1, <2>2
<1>2. ASSUME NEW T \in SUBSET S, T # {}
      PROVE  \E x \in T : V[T] = h[x] + V[T \ {x}]
  <2>1. PICK x \in T : TRUE
    BY <1>2
  <2>2. F(T) = f[x] + F(T \ {x}) /\ G(T) = g[x] + G(T \ {x})
    BY <1>0, SumTakeOff
  <2>3. T \ {x} \in SUBSET S /\ f[x] \in Int /\ g[x] \in Int /\ h[x] = f[x] + g[x] * c
    BY <2>1
  <2>4. F(T \ {x}) \in Int /\ G(T \ {x}) \in Int
    BY <1>0, <2>3
  <2>5. V[T] = F(T) + G(T) * c /\ V[T \ {x}] = F(T \ {x}) + G(T \ {x}) * c
    BY <2>3
  <2>6. ASSUME NEW a \in Int, NEW b \in Int, NEW u \in Int, NEW v \in Int
        PROVE  (a + b) + (u + v) * c = (a + u * c) + (b + v * c)
    OBVIOUS
  <2>7. V[T] = h[x] + V[T \ {x}]
    <3> DEFINE F0 == F(T \ {x})
               G0 == G(T \ {x})
    <3>1. F0 \in Int /\ G0 \in Int
      BY <2>4
    <3>2. V[T] = F(T) + G(T) * c /\ F(T) = f[x] + F0 /\ G(T) = g[x] + G0
      BY <2>2, <2>5
    <3>3. h[x] + V[T \ {x}] = (f[x] + g[x] * c) + (F0 + G0 * c)
      BY <2>3, <2>5
    <3> HIDE DEF V, F, G, F0, G0
    <3>4. V[T] = (f[x] + F0) + (g[x] + G0) * c
      BY <3>2
    <3>5. (f[x] + F0) + (g[x] + G0) * c = (f[x] + g[x] * c) + (F0 + G0 * c)
      BY <2>3, <2>6, <3>1
    <3> QED BY <3>3, <3>4, <3>5
  <2> QED BY <2>7
<1>3. V[S] = SumFunctionOnSet(h, S)
  <2>1. \A x \in S : h[x] \in Int
    OBVIOUS
  <2> HIDE DEF V
  <2> QED BY <1>1, <1>2, <2>1, SumCharacterized
<1> QED BY <1>3

\* V is additive over the disjoint subsets of X.
Additive(V, X) ==
    /\ V \in [SUBSET X -> Int] /\ V[{}] = 0
    /\ \A A, B \in SUBSET X : A \cap B = {} => V[A \cup B] = V[A] + V[B]

\* The sets D[n] of the n in P are disjoint.
Apart(D, P) == \A n, k \in P : n # k => D[n] \cap D[k] = {}

\* What they hold together.
Together(D, P) == UNION {D[n] : n \in P}

\* An additive quantity adds up over the parts of a partition.
LEMMA AdditiveAddsUp ==
    ASSUME NEW X, NEW V, Additive(V, X), NEW P, IsFiniteSet(P),
           NEW D, \A n \in P : D[n] \in SUBSET X, Apart(D, P),
           NEW f, \A n \in P : f[n] = V[D[n]]
    PROVE  V[Together(D, P)] = SumFunctionOnSet(f, P)
<1> DEFINE All(Q) == UNION {D[n] : n \in Q}
           W == [Q \in SUBSET P |-> V[All(Q)]]
<1>1. W[{}] = 0
  <2>1. All({}) = {}
    OBVIOUS
  <2> QED BY <2>1 DEF Additive
<1>2. ASSUME NEW Q \in SUBSET P, Q # {}
      PROVE  \E n \in Q : W[Q] = f[n] + W[Q \ {n}]
  <2>1. PICK n \in Q : TRUE
    BY <1>2
  <2>2. All(Q) = D[n] \cup All(Q \ {n})
    BY <2>1
  <2>3. D[n] \cap All(Q \ {n}) = {}
    BY <2>1 DEF Apart
  <2>4. D[n] \in SUBSET X /\ All(Q \ {n}) \in SUBSET X
    BY <2>1
  <2>5. W[Q] = V[All(Q)] /\ W[Q \ {n}] = V[All(Q \ {n})]
    OBVIOUS
  <2>6. f[n] = V[D[n]]
    BY <2>1
  <2> HIDE DEF All, W
  <2>7. V[D[n] \cup All(Q \ {n})] = V[D[n]] + V[All(Q \ {n})]
    BY <2>3, <2>4 DEF Additive
  <2>8. W[Q] = f[n] + W[Q \ {n}]
    BY <2>2, <2>5, <2>6, <2>7
  <2> QED BY <2>1, <2>8
<1>3. \A n \in P : f[n] \in Int
  BY DEF Additive
<1>4. W[P] = SumFunctionOnSet(f, P)
  <2>1. \A Q \in SUBSET P : Q # {} => \E n \in Q : W[Q] = f[n] + W[Q \ {n}]
    BY <1>2
  <2> HIDE DEF W
  <2> QED BY <1>1, <1>3, <2>1, SumCharacterized
<1> QED BY <1>4 DEF Together

-----------------------------------------------------------------------------
\* The outputs of a tick.
Feeds == [Sources -> Int \X Int]

\* What the sources of a set that belong to X give or take.
Share(out, k, X) == [A \in SUBSET Sources |-> Total(out, k, A \cap X)]

\* What a set of sources takes from the grid.
NetP(out) ==
    [A \in SUBSET Sources |->
        Share(out, 1, Loads)[A] - Share(out, 1, Batteries)[A] - Share(out, 1, PVs)[A]]
NetQ(out) ==
    [A \in SUBSET Sources |->
        Share(out, 1, Loads)[A] * TanPhi - Share(out, 2, Batteries)[A] * Scale]

\* What the sources of one kind give or take is additive.
LEMMA ShareAdditive ==
    ASSUME NEW out \in Feeds, NEW k \in {1, 2}, NEW X
    PROVE  Additive(Share(out, k, X), Sources)
<1> DEFINE f == [s \in Sources |-> out[s][k]]
           V == Share(out, k, X)
<1>1. ASSUME NEW A \in SUBSET Sources PROVE V[A] = SumFunctionOnSet(f, A \cap X)
  BY DEF Share, Total
<1>2. ASSUME NEW A \in SUBSET Sources
      PROVE  IsFiniteSet(A \cap X) /\ \A s \in A \cap X : f[s] \in Int
  <2>1. A \cap X \in SUBSET Sources
    OBVIOUS
  <2>2. IsFiniteSet(A \cap X)
    BY <2>1, StationAssumption, FS_Subset
  <2> QED BY <2>1, <2>2 DEF Feeds
<1>3. ASSUME NEW A \in SUBSET Sources PROVE V[A] \in Int
  <2> DEFINE AX == A \cap X
  <2>1. IsFiniteSet(AX) /\ \A s \in AX : f[s] \in Int
    BY <1>2
  <2>2. SumFunctionOnSet(f, AX) \in Int
    <3> HIDE DEF f, AX
    <3> QED BY <2>1, SumInt
  <2> QED BY <1>1, <2>2
<1>4. V \in [SUBSET Sources -> Int]
  <2>1. V = [A \in SUBSET Sources |-> V[A]]
    BY DEF Share
  <2> HIDE DEF V
  <2> QED BY <1>3, <2>1
<1>5. V[{}] = 0
  <2>1. V[{}] = SumFunctionOnSet(f, {})
    <3>1. {} \cap X = {} /\ {} \in SUBSET Sources
      OBVIOUS
    <3> QED BY <1>1, <3>1
  <2> QED BY <2>1, SumEmpty
<1>6. ASSUME NEW A \in SUBSET Sources, NEW B \in SUBSET Sources, A \cap B = {}
      PROVE  V[A \cup B] = V[A] + V[B]
  <2> DEFINE AX == A \cap X
             BX == B \cap X
  <2>1. A \cup B \in SUBSET Sources /\ (A \cup B) \cap X = AX \cup BX /\ AX \cap BX = {}
    BY <1>6
  <2>2. V[A \cup B] = SumFunctionOnSet(f, AX \cup BX)
    BY <1>1, <2>1
  <2>3. V[A] = SumFunctionOnSet(f, AX) /\ V[B] = SumFunctionOnSet(f, BX)
    BY <1>1
  <2>4. IsFiniteSet(AX) /\ IsFiniteSet(BX) /\ \A s \in AX \cup BX : f[s] \in Int
    BY <1>2
  <2>5. SumFunctionOnSet(f, AX \cup BX)
            = SumFunctionOnSet(f, AX) + SumFunctionOnSet(f, BX)
    <3> HIDE DEF f, AX, BX, V
    <3> QED BY <2>1, <2>4, SumUnion
  <2> HIDE DEF f, AX, BX, V
  <2> QED BY <2>2, <2>3, <2>5
<1> HIDE DEF V
<1>7. Additive(V, Sources)
  BY <1>4, <1>5, <1>6 DEF Additive
<1> QED BY <1>7 DEF V

\* Both net powers are additive.
LEMMA NetAdditive ==
    ASSUME NEW out \in Feeds
    PROVE  Additive(NetP(out), Sources) /\ Additive(NetQ(out), Sources)
<1> DEFINE L == Share(out, 1, Loads)
           B == Share(out, 1, Batteries)
           Q == Share(out, 2, Batteries)
           G == Share(out, 1, PVs)
           U == NetP(out)
           V == NetQ(out)
<1>1. /\ Additive(L, Sources) /\ Additive(B, Sources)
      /\ Additive(Q, Sources) /\ Additive(G, Sources)
  BY ShareAdditive
<1>2. /\ U = [A \in SUBSET Sources |-> L[A] - B[A] - G[A]]
      /\ V = [A \in SUBSET Sources |-> L[A] * TanPhi - Q[A] * Scale]
  BY DEF NetP, NetQ
<1> HIDE DEF L, B, Q, G, U, V
<1>3. TanPhi \in Int /\ Scale \in Int /\ {} \in SUBSET Sources
  BY StationAssumption
<1>4. ASSUME NEW A \in SUBSET Sources
      PROVE  /\ L[A] \in Int /\ B[A] \in Int /\ Q[A] \in Int /\ G[A] \in Int
             /\ L[A] * TanPhi \in Int /\ Q[A] * Scale \in Int
             /\ U[A] = L[A] - B[A] - G[A] /\ V[A] = L[A] * TanPhi - Q[A] * Scale
  <2>1. L[A] \in Int /\ B[A] \in Int /\ Q[A] \in Int /\ G[A] \in Int
    BY <1>1 DEF Additive
  <2>2. L[A] * TanPhi \in Int /\ Q[A] * Scale \in Int
    BY <1>3, <2>1
  <2>3. U[A] = L[A] - B[A] - G[A] /\ V[A] = L[A] * TanPhi - Q[A] * Scale
    BY <1>2
  <2> QED BY <2>1, <2>2, <2>3
<1>5. U \in [SUBSET Sources -> Int] /\ V \in [SUBSET Sources -> Int]
  <2>1. \A A \in SUBSET Sources : L[A] - B[A] - G[A] \in Int
    BY <1>4
  <2>2. \A A \in SUBSET Sources : L[A] * TanPhi - Q[A] * Scale \in Int
    BY <1>4
  <2> QED BY <1>2, <2>1, <2>2
<1>6. U[{}] = 0 /\ V[{}] = 0
  <2>1. L[{}] = 0 /\ B[{}] = 0 /\ Q[{}] = 0 /\ G[{}] = 0
    BY <1>1 DEF Additive
  <2>2. 0 - 0 - 0 = 0 /\ 0 * TanPhi - 0 * Scale = 0
    BY <1>3
  <2>3. U[{}] = L[{}] - B[{}] - G[{}] /\ V[{}] = L[{}] * TanPhi - Q[{}] * Scale
    BY <1>3, <1>4
  <2> QED BY <2>1, <2>2, <2>3
<1>7. ASSUME NEW X \in SUBSET Sources, NEW Y \in SUBSET Sources, X \cap Y = {}
      PROVE  U[X \cup Y] = U[X] + U[Y] /\ V[X \cup Y] = V[X] + V[Y]
  <2> DEFINE Z == X \cup Y
  <2>1. Z \in SUBSET Sources
    OBVIOUS
  <2>2. L[Z] = L[X] + L[Y] /\ B[Z] = B[X] + B[Y] /\ Q[Z] = Q[X] + Q[Y] /\ G[Z] = G[X] + G[Y]
    BY <1>1, <1>7 DEF Additive
  <2> HIDE DEF Z
  <2>3. U[Z] = L[Z] - B[Z] - G[Z] /\ V[Z] = L[Z] * TanPhi - Q[Z] * Scale
    BY <1>4, <2>1
  <2>4. ASSUME NEW u \in Int, NEW v \in Int, NEW x \in Int, NEW y \in Int,
               NEW c \in Int, NEW d \in Int
        PROVE  (u + v) * c - (x + y) * d = (u * c - x * d) + (v * c - y * d)
    OBVIOUS
  <2>5. U[Z] = U[X] + U[Y]
    <3>1. U[Z] = (L[X] + L[Y]) - (B[X] + B[Y]) - (G[X] + G[Y])
      BY <2>2, <2>3
    <3> QED BY <1>4, <3>1
  <2>6. V[Z] = V[X] + V[Y]
    <3>1. V[Z] = (L[X] + L[Y]) * TanPhi - (Q[X] + Q[Y]) * Scale
      BY <2>2, <2>3
    <3>2. (L[X] + L[Y]) * TanPhi - (Q[X] + Q[Y]) * Scale
              = (L[X] * TanPhi - Q[X] * Scale) + (L[Y] * TanPhi - Q[Y] * Scale)
      BY <1>3, <1>4, <2>4
    <3>3. V[X] = L[X] * TanPhi - Q[X] * Scale /\ V[Y] = L[Y] * TanPhi - Q[Y] * Scale
      BY <1>4
    <3> QED BY <3>1, <3>2, <3>3
  <2> QED BY <2>5, <2>6 DEF Z
<1>8. Additive(U, Sources) /\ Additive(V, Sources)
  BY <1>5, <1>6, <1>7 DEF Additive
<1> QED BY <1>8 DEF U, V

\* What updateMeters feeds a meter is, towards the grid, the net power of what the
\* meter covers, whichever way it faces.
LEMMA FedNet ==
    ASSUME NEW out \in Feeds, NEW m \in Meters
    PROVE  /\ GridPower(MeterInput(m, out)) \in Int
           /\ GridReactive(MeterInput(m, out)) \in Int
           /\ PhysicalImport(m, GridPower(MeterInput(m, out))) = NetP(out)[Covers[m]]
           /\ PhysicalImport(m, GridReactive(MeterInput(m, out))) = NetQ(out)[Covers[m]]
<1> DEFINE l == Total(out, 1, Covers[m] \cap Loads)
           b == Total(out, 1, Covers[m] \cap Batteries)
           r == Total(out, 2, Covers[m] \cap Batteries)
           g == Total(out, 1, Covers[m] \cap PVs)
<1>1. Covers[m] \in SUBSET Sources /\ TanPhi \in Int /\ Scale \in Int
  BY StationAssumption
<1>2. /\ Share(out, 1, Loads)[Covers[m]] = l /\ Share(out, 1, Batteries)[Covers[m]] = b
      /\ Share(out, 2, Batteries)[Covers[m]] = r /\ Share(out, 1, PVs)[Covers[m]] = g
  BY <1>1 DEF Share
<1>3. l \in Int /\ b \in Int /\ r \in Int /\ g \in Int
  <2>1. ASSUME NEW k \in {1, 2}, NEW X PROVE Share(out, k, X)[Covers[m]] \in Int
    BY <1>1, ShareAdditive DEF Additive
  <2> HIDE DEF l, b, r, g
  <2> QED BY <1>2, <2>1
<1>4. NetP(out)[Covers[m]] = l - b - g /\ NetQ(out)[Covers[m]] = l * TanPhi - r * Scale
  BY <1>1, <1>2 DEF NetP, NetQ
<1>5. l * TanPhi \in Int /\ r * Scale \in Int
  BY <1>1, <1>3
<1>6. ASSUME NEW u \in Int, NEW v \in Int PROVE (-u) * v = -(u * v)
  OBVIOUS
<1>7. CASE m \in Outflow
  <2>1. /\ GridPower(MeterInput(m, out)) = (-1) * l + (-((-1) * b)) - (-1) * g
        /\ GridReactive(MeterInput(m, out)) = ((-1) * l) * TanPhi + (-((-1) * r)) * Scale
    BY <1>7 DEF GridPower, GridReactive, MeterInput
  <2> HIDE DEF l, b, r, g
  <2>2. (-1) * l = -l /\ -((-1) * b) = b /\ (-1) * g = -g /\ -((-1) * r) = r
    BY <1>3
  <2>3. GridPower(MeterInput(m, out)) = -(l - b - g)
    BY <1>3, <2>1, <2>2
  <2>4. GridReactive(MeterInput(m, out)) = -(l * TanPhi - r * Scale)
    <3>1. (-l) * TanPhi = -(l * TanPhi)
      BY <1>1, <1>3, <1>6
    <3>2. GridReactive(MeterInput(m, out)) = (-l) * TanPhi + r * Scale
      BY <2>1, <2>2
    <3> QED BY <1>5, <3>1, <3>2
  <2> QED BY <1>3, <1>4, <1>5, <1>7, <2>3, <2>4 DEF PhysicalImport
<1>8. CASE m \notin Outflow
  <2>1. /\ GridPower(MeterInput(m, out)) = 1 * l + (-(1 * b)) - 1 * g
        /\ GridReactive(MeterInput(m, out)) = (1 * l) * TanPhi + (-(1 * r)) * Scale
    BY <1>8 DEF GridPower, GridReactive, MeterInput
  <2> HIDE DEF l, b, r, g
  <2>2. 1 * l = l /\ -(1 * b) = -b /\ 1 * g = g /\ -(1 * r) = -r
    BY <1>3
  <2>3. GridPower(MeterInput(m, out)) = l - b - g
    BY <1>3, <2>1, <2>2
  <2>4. GridReactive(MeterInput(m, out)) = l * TanPhi - r * Scale
    <3>1. (-r) * Scale = -(r * Scale)
      BY <1>1, <1>3, <1>6
    <3>2. GridReactive(MeterInput(m, out)) = l * TanPhi + (-r) * Scale
      BY <2>1, <2>2
    <3> QED BY <1>5, <3>1, <3>2
  <2> QED BY <1>3, <1>4, <1>5, <1>8, <2>3, <2>4 DEF PhysicalImport
<1> QED BY <1>7, <1>8

-----------------------------------------------------------------------------
\* The inductive invariant: the types, that what meters show and count adds up, and
\* that the register shows the bus voltage of its meter.
TypeOK ==
    /\ power \in [Meters -> Int] /\ reactive \in [Meters -> Int]
    /\ forward \in [Meters -> Int] /\ reverse \in [Meters -> Int]
    /\ volt \in [Meters -> Nat]

AddsUp(f) ==
    \A m \in Meters : \A P \in Splits(m) :
        Physical(f)[m] = SumFunctionOnSet(Physical(f), P)

Shown == voltReg = [m \in Meters |-> Published(m, volt[m])]

StationInv ==
    /\ TypeOK
    /\ AddsUp(power) /\ AddsUp(reactive) /\ AddsUp(NetImport)
    /\ Shown

\* The parts of a split are a finite partition of what the meter covers.
LEMMA SplitParts ==
    ASSUME NEW m \in Meters, NEW P \in Splits(m)
    PROVE  /\ P \subseteq Meters /\ IsFiniteSet(P)
           /\ Together(Covers, P) = Covers[m] /\ Apart(Covers, P)
           /\ \A n \in P : Covers[n] \in SUBSET Sources
BY StationAssumption, FS_Subset DEF Splits, Apart, Together

\* Whatever the sources put out, a meter agrees with its sub-meters on it.
LEMMA FedAddsUp ==
    ASSUME NEW out \in Feeds
    PROVE  /\ AddsUp([m \in Meters |-> GridPower(MeterInput(m, out))])
           /\ AddsUp([m \in Meters |-> GridReactive(MeterInput(m, out))])
<1> DEFINE pw == [m \in Meters |-> GridPower(MeterInput(m, out))]
           rq == [m \in Meters |-> GridReactive(MeterInput(m, out))]
           F == Physical(pw)
           R == Physical(rq)
           U == NetP(out)
           V == NetQ(out)
<1>1. \A n \in Meters : F[n] = U[Covers[n]] /\ R[n] = V[Covers[n]]
  BY FedNet DEF Physical
<1>2. Additive(U, Sources) /\ Additive(V, Sources)
  BY NetAdditive
<1>3. ASSUME NEW m \in Meters, NEW P \in Splits(m)
      PROVE  F[m] = SumFunctionOnSet(F, P) /\ R[m] = SumFunctionOnSet(R, P)
  <2>1. /\ P \subseteq Meters /\ IsFiniteSet(P) /\ Apart(Covers, P)
        /\ \A n \in P : Covers[n] \in SUBSET Sources
    BY SplitParts
  <2>2. \A n \in P : F[n] = U[Covers[n]] /\ R[n] = V[Covers[n]]
    BY <1>1, <2>1
  <2>3. F[m] = U[Together(Covers, P)] /\ R[m] = V[Together(Covers, P)]
    BY <1>1, SplitParts
  <2> HIDE DEF F, R, U, V, pw, rq
  <2>4. U[Together(Covers, P)] = SumFunctionOnSet(F, P)
    BY <1>2, <2>1, <2>2, AdditiveAddsUp
  <2>5. V[Together(Covers, P)] = SumFunctionOnSet(R, P)
    BY <1>2, <2>1, <2>2, AdditiveAddsUp
  <2> QED BY <2>3, <2>4, <2>5
<1> QED BY <1>3 DEF AddsUp

\* An interval adds its net energy on every meter alike.
LEMMA IntervalAddsUp ==
    ASSUME NEW e \in [Meters -> Int], NEW f \in [Meters -> Int], NEW dt \in Nat,
           AddsUp(e), AddsUp(f), NEW h, h = [m \in Meters |-> e[m] + f[m] * dt]
    PROVE  AddsUp(h)
<1>1. ASSUME NEW n \in Meters
      PROVE  /\ Physical(e)[n] \in Int /\ Physical(f)[n] \in Int
             /\ Physical(h)[n] = Physical(e)[n] + Physical(f)[n] * dt
  <2>1. /\ Physical(e)[n] = PhysicalImport(n, e[n])
        /\ Physical(f)[n] = PhysicalImport(n, f[n])
        /\ Physical(h)[n] = PhysicalImport(n, e[n] + f[n] * dt)
    BY DEF Physical
  <2>2. ASSUME NEW u \in Int, NEW v \in Int, NEW d \in Int
        PROVE  -(u + v * d) = (-u) + (-v) * d
    OBVIOUS
  <2>3. e[n] \in Int /\ f[n] \in Int /\ dt \in Int
    OBVIOUS
  <2>4. -(e[n] + f[n] * dt) = (-e[n]) + (-f[n]) * dt
    BY <2>2, <2>3
  <2> QED BY <2>1, <2>3, <2>4 DEF PhysicalImport
<1> DEFINE E == Physical(e)
           F == Physical(f)
           H == Physical(h)
<1>2. ASSUME NEW m \in Meters, NEW P \in Splits(m)
      PROVE  H[m] = SumFunctionOnSet(H, P)
  <2>1. P \subseteq Meters /\ IsFiniteSet(P)
    BY SplitParts
  <2>2. E[m] = SumFunctionOnSet(E, P) /\ F[m] = SumFunctionOnSet(F, P)
    BY DEF AddsUp
  <2>3. \A n \in P : E[n] \in Int /\ F[n] \in Int /\ H[n] = E[n] + F[n] * dt
    BY <1>1, <2>1
  <2>4. H[m] = E[m] + F[m] * dt
    BY <1>1
  <2>5. dt \in Int
    OBVIOUS
  <2> HIDE DEF E, F, H
  <2>6. SumFunctionOnSet(H, P) = SumFunctionOnSet(E, P) + SumFunctionOnSet(F, P) * dt
    BY <2>1, <2>3, <2>5, SumLinear
  <2>7. E[m] + F[m] * dt = SumFunctionOnSet(E, P) + SumFunctionOnSet(F, P) * dt
    <3>1. E[m] = SumFunctionOnSet(E, P)
      BY <2>2
    <3>2. F[m] = SumFunctionOnSet(F, P)
      BY <2>2
    <3> QED BY <3>1, <3>2, Zenon
  <2> QED BY <2>4, <2>6, <2>7, Zenon
<1> QED BY <1>2 DEF AddsUp

\* Nothing counted adds up to nothing.
LEMMA ZeroAddsUp ==
    ASSUME NEW e, e = [m \in Meters |-> 0]
    PROVE  AddsUp(e)
<1> DEFINE E == Physical(e)
<1>1. ASSUME NEW n \in Meters PROVE E[n] = 0
  <2>1. E[n] = PhysicalImport(n, e[n]) /\ e[n] = 0
    BY DEF Physical
  <2> QED BY <2>1 DEF PhysicalImport
<1>2. ASSUME NEW m \in Meters, NEW P \in Splits(m)
      PROVE  E[m] = SumFunctionOnSet(E, P)
  <2>1. P \subseteq Meters /\ IsFiniteSet(P) /\ E[m] = 0
    BY <1>1, SplitParts
  <2> DEFINE V == [T \in SUBSET P |-> 0]
  <2>2. \A n \in P : E[n] = 0
    BY <1>1, <2>1
  <2> HIDE DEF E
  <2>3. V[{}] = 0
    OBVIOUS
  <2>4. \A T \in SUBSET P : T # {} => \E x \in T : V[T] = E[x] + V[T \ {x}]
    BY <2>2
  <2>5. V[P] = 0
    OBVIOUS
  <2> HIDE DEF V
  <2>6. \A n \in P : E[n] \in Int
    BY <2>2
  <2>7. V[P] = SumFunctionOnSet(E, P)
    BY <2>1, <2>3, <2>4, <2>6, SumCharacterized
  <2> QED BY <2>1, <2>5, <2>7
<1> QED BY <1>2 DEF AddsUp

-----------------------------------------------------------------------------
\* Division rounds down: it keeps a lower and an upper bound.
LEMMA QuotientBounds ==
    ASSUME NEW a \in Int, NEW d \in Int, d > 0, NEW k \in Int
    PROVE  /\ a \div d \in Int
           /\ a >= k * d => a \div d >= k
           /\ a <= k * d => a \div d <= k
<1>1. a \div d \in Int /\ d * (a \div d) <= a /\ a < d * (a \div d) + d
  OBVIOUS
<1> DEFINE q == a \div d
<1>2. q \in Int /\ d * q <= a /\ a < d * q + d
  BY <1>1
<1> HIDE DEF q
<1>3. a >= k * d => q >= k
  <2> SUFFICES ASSUME a >= k * d, q <= k - 1 PROVE FALSE
    BY <1>2
  <2>1. d * q <= d * (k - 1)
    BY <1>2
  <2> QED BY <1>2, <2>1
<1>4. a <= k * d => q <= k
  <2> SUFFICES ASSUME a <= k * d, q >= k + 1 PROVE FALSE
    BY <1>2
  <2>1. d * q >= d * (k + 1)
    BY <1>2
  <2> QED BY <1>2, <2>1
<1> QED BY <1>1, <1>3, <1>4 DEF q

\* A number that fits a word is its own remainder.
LEMMA SmallRemainder ==
    ASSUME NEW n \in Nat, NEW w \in Nat, n < w
    PROVE  n % w = n
<1> DEFINE q == n \div w
           r == n % w
<1>1. q \in Int /\ r \in Int /\ n = w * q + r /\ 0 <= r /\ r < w
  OBVIOUS
<1> HIDE DEF q, r
<1>2. q >= 0
  <2> SUFFICES ASSUME q <= -1 PROVE FALSE
    BY <1>1
  <2>1. w * q <= w * (-1)
    BY <1>1
  <2> QED BY <1>1, <2>1
<1>3. q <= 0
  <2> SUFFICES ASSUME q >= 1 PROVE FALSE
    BY <1>1
  <2>1. w * q >= w * 1
    BY <1>1
  <2> QED BY <1>1, <2>1
<1>4. q = 0
  BY <1>1, <1>2, <1>3
<1> QED BY <1>1, <1>4 DEF r

\* The voltage that the injection at a bus aims at is never below zero: the
\* deviation is held within the rated voltage.
LEMMA TargetNat ==
    ASSUME NEW m \in Meters, NEW x \in Int, NEW y \in Int
    PROVE  VoltageTarget(m, x, y) \in Nat
<1> DEFINE n == x * Scale * Resistance + y * Reactance
           d == Base * Scale
           c == Clip(Quot(n, d), MaxDeviation)
<1>1. n \in Int /\ d \in Int /\ d > 0
  BY StationAssumption
<1>2. Quot(n, d) \in Int
  <2> HIDE DEF n, d
  <2>1. n \div d \in Int /\ (-n) \div d \in Int
    BY <1>1
  <2> QED BY <2>1 DEF Quot
<1>3. c \in -1000..1000
  <2>1. MaxDeviation \in 0..1000
    BY StationAssumption
  <2> DEFINE z == Quot(n, d)
  <2>2. c = Clip(z, MaxDeviation) /\ z \in Int
    BY <1>2
  <2> HIDE DEF c, z
  <2> QED BY <2>1, <2>2 DEF Clip
<1> HIDE DEF c
<1>4. Voltage[m] \in Nat
  BY StationAssumption
<1>5. Voltage[m] * c >= (-Voltage[m]) * 1000 /\ Voltage[m] * c \in Int
  BY <1>3, <1>4, SMTT(30)
<1>6. (Voltage[m] * c) \div 1000 >= -Voltage[m] /\ (Voltage[m] * c) \div 1000 \in Int
  BY <1>4, <1>5
<1> QED BY <1>4, <1>6 DEF VoltageTarget, c

\* Relaxing towards it does not overshoot to below zero.
LEMMA RelaxNat ==
    ASSUME NEW v \in Nat, NEW target \in Nat, NEW dt \in Nat
    PROVE  Relax(v, target, dt) \in Nat
<1> DEFINE a == (target - v) * dt
           d == Response + dt
           k == -v
<1>1. d \in Int /\ d > 0 /\ Response \in Nat
  BY StationAssumption
<1>2. a \in Int /\ a >= k * d /\ k \in Int
  <2>1. (target - v) * dt = target * dt - v * dt /\ (-v) * d = -(v * Response) - v * dt
    BY <1>1
  <2>2. target * dt \in Nat /\ v * Response \in Nat /\ v * dt \in Nat
    BY <1>1
  <2> HIDE DEF d
  <2> QED BY <2>1, <2>2
<1>3. a \div d \in Int /\ a \div d >= k
  <2> HIDE DEF a, d, k
  <2> QED BY <1>1, <1>2, QuotientBounds
<1>4. v + a \div d \in Nat
  <2> HIDE DEF a, d
  <2> QED BY <1>3
<1> QED BY <1>4 DEF Relax

-----------------------------------------------------------------------------
\* At the start meters agree on the powers and have counted nothing.
LEMMA InitInv == ASSUME Init PROVE StationInv
<1>1. PICK out \in [Sources -> UNION {Outputs[s] : s \in Sources}] :
        /\ \A b \in Batteries : out[b] = <<0, 0>>
        /\ \A s \in PVs \cup Loads : out[s] \in Outputs[s]
        /\ power = [m \in Meters |-> GridPower(MeterInput(m, out))]
        /\ reactive = [m \in Meters |-> GridReactive(MeterInput(m, out))]
  BY DEF Init
<1>2. out \in Feeds
  BY <1>1, StationAssumption DEF Feeds
<1>3. AddsUp(power) /\ AddsUp(reactive)
  BY <1>1, <1>2, FedAddsUp
<1>4. NetImport = [m \in Meters |-> 0]
  BY DEF Init, NetImport
<1>5. AddsUp(NetImport)
  BY <1>4, ZeroAddsUp
<1>6. TypeOK
  BY <1>1, <1>2, FedNet, StationAssumption DEF Init, TypeOK
<1>7. Shown
  BY DEF Init, Shown
<1> QED BY <1>3, <1>5, <1>6, <1>7 DEF StationInv

\* A tick feeds all meters from the same outputs and counts the same interval.
LEMMA TickInv == ASSUME StationInv, Tick PROVE StationInv'
<1>1. PICK dt \in Delays,
           out \in {o \in [Sources -> UNION {Outputs[s] : s \in Sources}] :
                      \A s \in Sources : o[s] \in Outputs[s]} :
        /\ power' = [m \in Meters |-> GridPower(MeterInput(m, out))]
        /\ reactive' = [m \in Meters |-> GridReactive(MeterInput(m, out))]
        /\ volt' = [m \in Meters |->
                       Relax(volt[m],
                             VoltageTarget(m, -PhysicalImport(m, power'[m]),
                                              -PhysicalImport(m, reactive'[m])),
                             dt)]
        /\ forward' = [m \in Meters |-> Imported(forward[m], power'[m] * dt)]
        /\ reverse' = [m \in Meters |-> Exported(reverse[m], power'[m] * dt)]
        /\ voltReg' = [m \in Meters |-> Published(m, volt'[m])]
  BY DEF Tick
<1>2. out \in Feeds /\ dt \in Nat
  BY StationAssumption DEF Feeds
<1>3. power' \in [Meters -> Int] /\ reactive' \in [Meters -> Int]
  BY <1>1, <1>2, FedNet
<1>4. AddsUp(power)' /\ AddsUp(reactive)'
  BY <1>1, <1>2, FedAddsUp DEF AddsUp, Physical
<1>5. ASSUME NEW m \in Meters
      PROVE  /\ forward'[m] \in Int /\ reverse'[m] \in Int
             /\ forward'[m] - reverse'[m] = (forward[m] - reverse[m]) + power'[m] * dt
  <2> DEFINE k == power'[m] * dt
  <2>1. forward[m] \in Int /\ reverse[m] \in Int /\ k \in Int
    BY <1>2, <1>3 DEF StationInv, TypeOK
  <2>2. forward'[m] = Imported(forward[m], k) /\ reverse'[m] = Exported(reverse[m], k)
    BY <1>1
  <2> HIDE DEF k
  <2>3. /\ forward'[m] \in Int /\ reverse'[m] \in Int
        /\ forward'[m] - reverse'[m] = (forward[m] - reverse[m]) + k
    BY <2>1, <2>2 DEF Imported, Exported
  <2> QED BY <2>3 DEF k
<1>6. forward' \in [Meters -> Int] /\ reverse' \in [Meters -> Int]
  BY <1>1, <1>5
<1>7. AddsUp(NetImport)'
  <2> DEFINE e == NetImport
             f == power'
             h == NetImport'
  <2>1. e \in [Meters -> Int] /\ f \in [Meters -> Int] /\ dt \in Nat
    BY <1>2, <1>3 DEF NetImport, StationInv, TypeOK
  <2>2. h = [m \in Meters |-> e[m] + f[m] * dt]
    BY <1>5 DEF NetImport
  <2>3. AddsUp(e) /\ AddsUp(f)
    BY <1>4 DEF StationInv, AddsUp, Physical
  <2> HIDE DEF e, f, h
  <2>4. AddsUp(h)
    BY <2>1, <2>2, <2>3, IntervalAddsUp
  <2> QED BY <2>4 DEF h, AddsUp, Physical
<1>8. volt' \in [Meters -> Nat]
  <2>1. ASSUME NEW m \in Meters
        PROVE  Relax(volt[m], VoltageTarget(m, -PhysicalImport(m, power'[m]),
                                               -PhysicalImport(m, reactive'[m])), dt) \in Nat
    <3>1. -PhysicalImport(m, power'[m]) \in Int /\ -PhysicalImport(m, reactive'[m]) \in Int
      BY <1>3 DEF PhysicalImport
    <3>2. VoltageTarget(m, -PhysicalImport(m, power'[m]),
                           -PhysicalImport(m, reactive'[m])) \in Nat
      BY <3>1, TargetNat
    <3>3. volt[m] \in Nat
      BY DEF StationInv, TypeOK
    <3> QED BY <1>2, <3>2, <3>3, RelaxNat
  <2> QED BY <1>1, <2>1
<1>9. TypeOK' /\ Shown'
  BY <1>1, <1>3, <1>6, <1>8 DEF TypeOK, Shown
<1> QED BY <1>4, <1>7, <1>9 DEF StationInv

LEMMA StutterInv == ASSUME StationInv, UNCHANGED vars PROVE StationInv'
BY DEF StationInv, TypeOK, AddsUp, Physical, NetImport, Shown, vars

\* In every reachable state the variables have their types, the powers and energies
\* of meters and their sub-meters add up, and the register shows the bus voltage.
THEOREM StationInvariant == Spec => []StationInv
<1>1. ASSUME StationInv, [Next]_vars PROVE StationInv'
  BY <1>1, TickInv, StutterInv DEF Next
<1> QED BY <1>1, InitInv, PTL DEF Spec

\* Sub-meters that split what a meter covers add up to it in active power, reactive
\* power and net energy, for any sources, any number of meters and any partition,
\* whichever way each meter faces.
THEOREM SubMeters == Spec => []SubMetersAddUp
<1>1. ASSUME StationInv PROVE SubMetersAddUp
  BY <1>1 DEF StationInv, AddsUp, SubMetersAddUp
<1> QED BY <1>1, StationInvariant, PTL

\* With a ratio that NewMeter has chosen, the voltage register does not wrap as long
\* as the bus voltage is within 5 % of its rated value, for any rated voltage.
THEOREM VoltageRegister == Spec => []VoltageReadable
<1>1. ASSUME StationInv, NEW m \in Meters, PTRatio[m] = 0, 100 * volt[m] <= 105 * Voltage[m]
      PROVE  voltReg[m] = (volt[m] * 10) \div Ratio(m)
  <2> DEFINE v == volt[m]
             u == Voltage[m]
             r == Ratio(m)
             n == (v * 10) \div r
  <2>1. v \in Nat /\ u \in Nat /\ u > 0 /\ 100 * v <= 105 * u
    BY <1>1, StationAssumption DEF StationInv, TypeOK
  <2>2. r = (u + 6199) \div 6200
    BY <1>1 DEF Ratio
  <2>3. voltReg[m] = n % Word
    BY <1>1 DEF StationInv, Shown, Published
  <2> HIDE DEF v, u, r
  <2>4. r \in Int /\ r > 0 /\ u <= 6200 * r
    BY <2>1, <2>2
  <2>5. v * 10 \in Int /\ v * 10 >= 0 * r /\ v * 10 <= 651 * 100 * r
    BY <2>1, <2>4
  <2>6. n \in Int /\ n >= 0
    BY <2>4, <2>5, QuotientBounds
  <2>7. n <= 651 * 100
    BY <2>4, <2>5, QuotientBounds
  <2> HIDE DEF n
  <2>8. n \in Nat /\ Word \in Nat /\ n < Word
    BY <2>6, <2>7 DEF Word
  <2>9. n % Word = n
    BY <2>8, SmallRemainder
  <2> QED BY <2>3, <2>9 DEF n, v, r
<1>2. ASSUME StationInv PROVE VoltageReadable
  BY <1>1, <1>2 DEF VoltageReadable
<1> QED BY <1>2, StationInvariant, PTL
=============================================================================
