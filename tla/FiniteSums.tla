----------------------------- MODULE FiniteSums -----------------------------
(***************************************************************************)
(* What SumFunctionOnSet of the community modules computes on finite sets. *)
(* It is defined by a recursive function on the subsets of the set, which  *)
(* has a value only because the set is finite: that is proved first, then  *)
(* that the order in which the elements are taken does not matter.         *)
(* Induction is over sets of subsets, with the library's theorem that a    *)
(* set of finite subsets has a minimal element.                            *)
(***************************************************************************)
EXTENDS Integers, Functions, FiniteSetTheorems, WellFoundedInduction, TLAPS

Pick(s) == CHOOSE x \in s : TRUE

\* g sums the values of f on the subsets of S.
IsSum(f, S, g) ==
  g = [s \in SUBSET S |-> IF s = {} THEN 0 ELSE f[Pick(s)] + g[s \ {Pick(s)}]]

-----------------------------------------------------------------------------
(* Induction *)

\* What holds for a subset when it holds for the smaller ones holds for all.
LEMMA SubsetInduction ==
  ASSUME NEW S, IsFiniteSet(S), NEW Good,
         ASSUME NEW U \in SUBSET S, \A V \in SUBSET U : V # U => V \in Good
         PROVE  U \in Good
  PROVE  \A U \in SUBSET S : U \in Good
<1> DEFINE Bad == (SUBSET S) \ Good
<1> SUFFICES ASSUME Bad # {} PROVE FALSE
  OBVIOUS
<1>1. Bad \subseteq FiniteSubsetsOf(S)
  BY FS_FiniteSubsetsOfFinite
<1>2. IsWellFoundedOn(StrictSubsetOrdering(S), FiniteSubsetsOf(S))
  BY FS_StrictSubsetOrderingWellFounded
<1> HIDE DEF Bad
<1>3. PICK U \in Bad : \A V \in Bad : <<V, U>> \notin StrictSubsetOrdering(S)
  BY <1>1, <1>2, WFMin
<1> USE DEF Bad
<1>4. ASSUME NEW V \in SUBSET U, V # U PROVE V \in Good
  <2>1. V \in SUBSET S /\ U \in SUBSET S
    OBVIOUS
  <2>2. <<V, U>> \in StrictSubsetOrdering(S)
    BY <1>4, <2>1 DEF StrictSubsetOrdering
  <2> QED BY <1>3, <2>1, <2>2
<1> QED BY <1>3, <1>4

\* A set of numbers has a least element.
LEMMA LeastNumber ==
  ASSUME NEW S \in SUBSET Nat, S # {}
  PROVE  \E d \in S : \A e \in S : d <= e
<1> DEFINE Below == {0 .. d : d \in S}
           Smaller == StrictSubsetOrdering(Nat)
<1>1. Below \subseteq FiniteSubsetsOf(Nat) /\ Below # {}
  <2>1. \A d \in S : 0 .. d \in SUBSET Nat /\ IsFiniteSet(0 .. d)
    BY FS_Interval
  <2> QED BY <2>1 DEF FiniteSubsetsOf
<1>2. IsWellFoundedOn(Smaller, FiniteSubsetsOf(Nat))
  BY FS_StrictSubsetOrderingWellFounded
<1>3. \E b \in Below : \A c \in Below : ~(<<c, b>> \in Smaller)
  BY <1>1, <1>2, WFMin
<1>4. PICK d \in S : \A e \in S : ~(<<0 .. e, 0 .. d>> \in Smaller)
  BY <1>3
<1>5. ASSUME NEW e \in S, e < d PROVE FALSE
  <2>1. 0 .. e \subseteq 0 .. d /\ d \in 0 .. d /\ d \notin 0 .. e
    BY <1>5
  <2>2. 0 .. e # 0 .. d
    BY <2>1
  <2>3. 0 .. e \in SUBSET Nat /\ 0 .. d \in SUBSET Nat
    OBVIOUS
  <2> QED BY <1>4, <2>1, <2>2, <2>3 DEF StrictSubsetOrdering
<1> QED BY <1>5

-----------------------------------------------------------------------------
(* The sum exists *)

\* The chosen element is one of the set.
LEMMA PickIn == \A s : s # {} => Pick(s) \in s /\ s \ {Pick(s)} # s
BY DEF Pick

\* The value of such a function at s, once.
LEMMA IsSumAt ==
  ASSUME NEW f, NEW S, NEW g, IsSum(f, S, g), NEW s \in SUBSET S
  PROVE  g[s] = IF s = {} THEN 0 ELSE f[Pick(s)] + g[s \ {Pick(s)}]
BY DEF IsSum

\* Two such functions agree where both are defined.
LEMMA SumUnique ==
  ASSUME NEW f, NEW S, NEW T, NEW g, NEW h, IsSum(f, S, g), IsSum(f, T, h),
         NEW U \in SUBSET S, U \in SUBSET T, IsFiniteSet(U)
  PROVE  g[U] = h[U]
<1> DEFINE Good == {s \in SUBSET U : g[s] = h[s]}
<1>1. ASSUME NEW s \in SUBSET U, \A V \in SUBSET s : V # s => V \in Good
      PROVE  s \in Good
  <2>1. s \in SUBSET S /\ s \in SUBSET T
    OBVIOUS
  <2>2. g[s] = IF s = {} THEN 0 ELSE f[Pick(s)] + g[s \ {Pick(s)}]
    BY <2>1, IsSumAt
  <2>3. h[s] = IF s = {} THEN 0 ELSE f[Pick(s)] + h[s \ {Pick(s)}]
    BY <2>1, IsSumAt
  <2>4. s # {} => g[s \ {Pick(s)}] = h[s \ {Pick(s)}]
    BY <1>1, PickIn
  <2> QED BY <2>2, <2>3, <2>4
<1> HIDE DEF Good
<1>2. \A s \in SUBSET U : s \in Good
  BY <1>1, SubsetInduction
<1> QED BY <1>2 DEF Good

\* On a finite set there is one.
LEMMA SumExists ==
  ASSUME NEW f, NEW S, IsFiniteSet(S)
  PROVE  \E g : IsSum(f, S, g)
<1> DEFINE Good == {U \in SUBSET S : \E g : IsSum(f, U, g)}
<1>1. ASSUME NEW U \in SUBSET S, \A V \in SUBSET U : V # U => V \in Good
      PROVE  U \in Good
  <2> DEFINE G(s) == CHOOSE g : IsSum(f, s, g)
             below(s) == IF s = {} THEN 0 ELSE f[Pick(s)] + G(s \ {Pick(s)})[s \ {Pick(s)}]
             h == [s \in SUBSET U |-> below(s)]
  <2>1. \A V \in SUBSET U : V # U => IsSum(f, V, G(V))
    BY <1>1
  <2> HIDE DEF G
  <2>2. ASSUME NEW V \in SUBSET U, V # U PROVE G(V)[V] = below(V)
    <3>1. IsSum(f, V, G(V))
      BY <2>1, <2>2
    <3>2. G(V)[V] = IF V = {} THEN 0 ELSE f[Pick(V)] + G(V)[V \ {Pick(V)}]
      BY <3>1, IsSumAt
    <3>3. CASE V = {}
      BY <3>2, <3>3
    <3>4. CASE V # {}
      <4> DEFINE W == V \ {Pick(V)}
      <4>1. W \in SUBSET V /\ W \in SUBSET U /\ W # U
        BY <3>4, PickIn
      <4>2. IsSum(f, W, G(W))
        BY <2>1, <4>1
      <4>3. IsFiniteSet(W)
        BY FS_Subset, <4>1
      <4>4. G(V)[W] = G(W)[W]
        BY <3>1, <4>1, <4>2, <4>3, SumUnique
      <4> QED BY <3>2, <3>4, <4>4
    <3> QED BY <3>3, <3>4
  <2>3. ASSUME NEW s \in SUBSET U
        PROVE  below(s) = IF s = {} THEN 0 ELSE f[Pick(s)] + h[s \ {Pick(s)}]
    <3>1. CASE s = {}
      BY <3>1
    <3>2. CASE s # {}
      <4> DEFINE W == s \ {Pick(s)}
      <4>1. W \in SUBSET U /\ W # U
        BY <3>2, PickIn
      <4>2. h[W] = below(W)
        BY <4>1
      <4>3. G(W)[W] = below(W)
        BY <2>2, <4>1
      <4> QED BY <3>2, <4>2, <4>3
    <3> QED BY <3>1, <3>2
  <2> HIDE DEF below
  <2>4. h = [s \in SUBSET U |-> IF s = {} THEN 0 ELSE f[Pick(s)] + h[s \ {Pick(s)}]]
    <3> DEFINE rest(s) == IF s = {} THEN 0 ELSE f[Pick(s)] + h[s \ {Pick(s)}]
    <3>1. \A s \in SUBSET U : below(s) = rest(s)
      BY <2>3
    <3> HIDE DEF rest
    <3>2. [s \in SUBSET U |-> below(s)] = [s \in SUBSET U |-> rest(s)]
      BY <3>1
    <3> QED BY <3>2 DEF rest
  <2>5. IsSum(f, U, h)
    BY <2>4 DEF IsSum
  <2> QED BY <2>5
<1> HIDE DEF Good
<1>2. \A U \in SUBSET S : U \in Good
  BY <1>1, SubsetInduction
<1> QED BY <1>2 DEF Good

\* SumFunctionOnSet is the value of such a function.
LEMMA SumIs ==
  ASSUME NEW f, NEW S, IsFiniteSet(S)
  PROVE  \E g : IsSum(f, S, g) /\ SumFunctionOnSet(f, S) = g[S]
<1> DEFINE g == CHOOSE h : IsSum(f, S, h)
<1>1. SumFunctionOnSet(f, S) = g[S]
  BY DEF SumFunctionOnSet, FoldFunctionOnSet, MapThenFoldSet, Pick, IsSum
<1>2. IsSum(f, S, g)
  BY SumExists
<1> QED BY <1>1, <1>2

-----------------------------------------------------------------------------
(* Sums *)

\* The sum over the empty set, and over a set with its chosen element apart.
LEMMA SumPick ==
  ASSUME NEW f, NEW S, IsFiniteSet(S)
  PROVE  SumFunctionOnSet(f, S) =
           IF S = {} THEN 0 ELSE f[Pick(S)] + SumFunctionOnSet(f, S \ {Pick(S)})
<1>1. PICK g : IsSum(f, S, g) /\ SumFunctionOnSet(f, S) = g[S]
  BY SumIs
<1>2. g[S] = IF S = {} THEN 0 ELSE f[Pick(S)] + g[S \ {Pick(S)}]
  <2>1. IsSum(f, S, g) /\ S \in SUBSET S
    BY <1>1
  <2>2. \A s \in SUBSET S : g[s] = IF s = {} THEN 0 ELSE f[Pick(s)] + g[s \ {Pick(s)}]
    BY <2>1, IsSumAt
  <2> QED BY <2>1, <2>2
<1> DEFINE T == S \ {Pick(S)}
<1>3. IsFiniteSet(T)
  BY FS_Subset
<1>4. PICK h : IsSum(f, T, h) /\ SumFunctionOnSet(f, T) = h[T]
  BY <1>3, SumIs
<1>5. g[T] = h[T]
  BY <1>1, <1>3, <1>4, SumUnique
<1> QED BY <1>1, <1>2, <1>4, <1>5

\* Integers have an integer sum.
LEMMA SumInt ==
  ASSUME NEW S, IsFiniteSet(S), NEW f, \A x \in S : f[x] \in Int
  PROVE  SumFunctionOnSet(f, S) \in Int
<1> DEFINE Good == {U \in SUBSET S : SumFunctionOnSet(f, U) \in Int}
<1>1. ASSUME NEW U \in SUBSET S, \A V \in SUBSET U : V # U => V \in Good
      PROVE  U \in Good
  <2>1. IsFiniteSet(U)
    BY FS_Subset
  <2>2. SumFunctionOnSet(f, U) =
          IF U = {} THEN 0 ELSE f[Pick(U)] + SumFunctionOnSet(f, U \ {Pick(U)})
    BY <2>1, SumPick
  <2>3. U # {} => f[Pick(U)] \in Int /\ SumFunctionOnSet(f, U \ {Pick(U)}) \in Int
    BY <1>1, PickIn
  <2> QED BY <2>2, <2>3
<1> HIDE DEF Good
<1>2. \A U \in SUBSET S : U \in Good
  BY <1>1, SubsetInduction
<1> QED BY <1>2 DEF Good

\* The sum of a set with any one of its elements apart.
LEMMA SumRemove ==
  ASSUME NEW S, IsFiniteSet(S), NEW f, \A x \in S : f[x] \in Int, NEW a \in S
  PROVE  SumFunctionOnSet(f, S) = f[a] + SumFunctionOnSet(f, S \ {a})
<1> DEFINE Good == {U \in SUBSET S :
                      \A b \in U : SumFunctionOnSet(f, U) = f[b] + SumFunctionOnSet(f, U \ {b})}
<1>1. ASSUME NEW U \in SUBSET S, \A V \in SUBSET U : V # U => V \in Good
      PROVE  U \in Good
  <2> SUFFICES ASSUME NEW b \in U
               PROVE  SumFunctionOnSet(f, U) = f[b] + SumFunctionOnSet(f, U \ {b})
    OBVIOUS
  <2> DEFINE p == Pick(U)
             W == (U \ {p}) \ {b}
  <2>1. p \in U
    BY PickIn
  <2>2. IsFiniteSet(U) /\ IsFiniteSet(W)
    BY FS_Subset
  <2>3. SumFunctionOnSet(f, U) = f[p] + SumFunctionOnSet(f, U \ {p})
    BY <2>2, SumPick
  <2> HIDE DEF p
  <2>4. CASE b = p
    BY <2>3, <2>4
  <2>5. CASE b # p
    <3>1. U \ {p} \in SUBSET U /\ U \ {p} # U /\ U \ {b} \in SUBSET U /\ U \ {b} # U
          /\ b \in U \ {p} /\ p \in U \ {b} /\ (U \ {b}) \ {p} = W
      BY <2>1, <2>5
    <3>2. SumFunctionOnSet(f, U \ {p}) = f[b] + SumFunctionOnSet(f, W)
      BY <1>1, <3>1
    <3>3. SumFunctionOnSet(f, U \ {b}) = f[p] + SumFunctionOnSet(f, W)
      BY <1>1, <3>1
    <3>4. SumFunctionOnSet(f, W) \in Int
      BY <2>2, SumInt
    <3>5. f[b] \in Int /\ f[p] \in Int
      BY <2>1
    <3> QED BY <2>3, <3>2, <3>3, <3>4, <3>5
  <2> QED BY <2>4, <2>5
<1> HIDE DEF Good
<1>2. \A U \in SUBSET S : U \in Good
  BY <1>1, SubsetInduction
<1> QED BY <1>2 DEF Good

\* The sum depends on the values only.
LEMMA SumAgree ==
  ASSUME NEW S, IsFiniteSet(S), NEW f, NEW g, \A x \in S : f[x] = g[x]
  PROVE  SumFunctionOnSet(f, S) = SumFunctionOnSet(g, S)
<1> DEFINE Good == {U \in SUBSET S : SumFunctionOnSet(f, U) = SumFunctionOnSet(g, U)}
<1>1. ASSUME NEW U \in SUBSET S, \A V \in SUBSET U : V # U => V \in Good
      PROVE  U \in Good
  <2>1. IsFiniteSet(U)
    BY FS_Subset
  <2>2. SumFunctionOnSet(f, U) =
          IF U = {} THEN 0 ELSE f[Pick(U)] + SumFunctionOnSet(f, U \ {Pick(U)})
    BY <2>1, SumPick
  <2>3. SumFunctionOnSet(g, U) =
          IF U = {} THEN 0 ELSE g[Pick(U)] + SumFunctionOnSet(g, U \ {Pick(U)})
    BY <2>1, SumPick
  <2>4. U # {} => /\ f[Pick(U)] = g[Pick(U)]
                  /\ SumFunctionOnSet(f, U \ {Pick(U)}) = SumFunctionOnSet(g, U \ {Pick(U)})
    BY <1>1, PickIn
  <2> QED BY <2>2, <2>3, <2>4
<1> HIDE DEF Good
<1>2. \A U \in SUBSET S : U \in Good
  BY <1>1, SubsetInduction
<1> QED BY <1>2 DEF Good

\* One value changes.
LEMMA SumChange ==
  ASSUME NEW S, IsFiniteSet(S), NEW f, \A x \in S : f[x] \in Int, NEW a \in S,
         NEW g, g[a] \in Int, \A x \in S : x # a => g[x] = f[x]
  PROVE  SumFunctionOnSet(g, S) = SumFunctionOnSet(f, S) + (g[a] - f[a])
<1> DEFINE T == S \ {a}
<1>1. IsFiniteSet(T)
  BY FS_Subset
<1>2. SumFunctionOnSet(f, S) = f[a] + SumFunctionOnSet(f, T)
  BY SumRemove
<1>3. SumFunctionOnSet(g, S) = g[a] + SumFunctionOnSet(g, T)
  <2>1. \A x \in S : g[x] \in Int
    OBVIOUS
  <2> QED BY <2>1, SumRemove
<1>4. SumFunctionOnSet(f, T) = SumFunctionOnSet(g, T)
  BY <1>1, SumAgree
<1>5. SumFunctionOnSet(f, T) \in Int
  BY <1>1, SumInt
<1> QED BY <1>2, <1>3, <1>4, <1>5

\* The sum of a set of numbers: a natural number, no less than that of a part,
\* and the two parts of a set make up the whole.
LEMMA SumParts ==
  ASSUME NEW S, IsFiniteSet(S), NEW f, \A x \in S : f[x] \in Int, NEW T \in SUBSET S
  PROVE  SumFunctionOnSet(f, S) = SumFunctionOnSet(f, T) + SumFunctionOnSet(f, S \ T)
<1> DEFINE Good == {U \in SUBSET T :
             SumFunctionOnSet(f, S) = SumFunctionOnSet(f, U) + SumFunctionOnSet(f, S \ U)}
<1>1. ASSUME NEW U \in SUBSET T, \A V \in SUBSET U : V # U => V \in Good
      PROVE  U \in Good
  <2>0. IsFiniteSet(U) /\ IsFiniteSet(S \ U)
    BY FS_Subset
  <2>1. CASE U = {}
    <3>1. SumFunctionOnSet(f, U) = 0
      BY <2>0, <2>1, SumPick
    <3>2. S \ U = S
      BY <2>1
    <3>3. SumFunctionOnSet(f, S) \in Int
      BY SumInt
    <3>4. SumFunctionOnSet(f, S \ U) = SumFunctionOnSet(f, S)
      BY <3>2
    <3>5. SumFunctionOnSet(f, S) = SumFunctionOnSet(f, U) + SumFunctionOnSet(f, S \ U)
      BY <3>1, <3>3, <3>4
    <3> QED BY <3>5
  <2>2. CASE U # {}
    <3> DEFINE p == Pick(U)
               V == U \ {p}
    <3>1. p \in U /\ V \in SUBSET U /\ V # U /\ V \in SUBSET S
      BY <2>2, PickIn
    <3>2. SumFunctionOnSet(f, U) = f[p] + SumFunctionOnSet(f, V)
      BY <2>0, <2>2, SumPick
    <3> HIDE DEF p
    <3>3. SumFunctionOnSet(f, S) = SumFunctionOnSet(f, V) + SumFunctionOnSet(f, S \ V)
      BY <1>1, <3>1
    <3>4. p \in S \ V /\ (S \ V) \ {p} = S \ U
      BY <3>1
    <3>5. IsFiniteSet(V) /\ IsFiniteSet(S \ V)
      BY <3>1, FS_Subset
    <3>6. SumFunctionOnSet(f, S \ V) = f[p] + SumFunctionOnSet(f, S \ U)
      BY <3>4, <3>5, SumRemove
    <3>7. SumFunctionOnSet(f, V) \in Int /\ SumFunctionOnSet(f, S \ U) \in Int
          /\ f[p] \in Int
      BY <2>0, <3>1, <3>5, SumInt
    <3> HIDE DEF V
    <3>8. SumFunctionOnSet(f, S) = SumFunctionOnSet(f, U) + SumFunctionOnSet(f, S \ U)
      BY <3>2, <3>3, <3>6, <3>7
    <3> QED BY <3>8
  <2> QED BY <2>1, <2>2
<1>2. IsFiniteSet(T)
  BY FS_Subset
<1> HIDE DEF Good
<1>3. \A U \in SUBSET T : U \in Good
  BY <1>1, <1>2, SubsetInduction
<1> QED BY <1>3 DEF Good

\* Numbers have a sum that none of them exceeds.
LEMMA SumNat ==
  ASSUME NEW S, IsFiniteSet(S), NEW f, \A x \in S : f[x] \in Nat
  PROVE  /\ SumFunctionOnSet(f, S) \in Nat
         /\ \A a \in S : f[a] <= SumFunctionOnSet(f, S)
<1> DEFINE Good == {U \in SUBSET S : SumFunctionOnSet(f, U) \in Nat}
<1>1. ASSUME NEW U \in SUBSET S, \A V \in SUBSET U : V # U => V \in Good
      PROVE  U \in Good
  <2>1. IsFiniteSet(U)
    BY FS_Subset
  <2>2. SumFunctionOnSet(f, U) =
          IF U = {} THEN 0 ELSE f[Pick(U)] + SumFunctionOnSet(f, U \ {Pick(U)})
    BY <2>1, SumPick
  <2>3. U # {} => f[Pick(U)] \in Nat /\ SumFunctionOnSet(f, U \ {Pick(U)}) \in Nat
    BY <1>1, PickIn
  <2> QED BY <2>2, <2>3
<1> HIDE DEF Good
<1>2. \A U \in SUBSET S : SumFunctionOnSet(f, U) \in Nat
  <2>1. \A U \in SUBSET S : U \in Good
    BY <1>1, SubsetInduction
  <2> QED BY <2>1 DEF Good
<1>3. ASSUME NEW a \in S PROVE f[a] <= SumFunctionOnSet(f, S)
  <2>1. SumFunctionOnSet(f, S) = f[a] + SumFunctionOnSet(f, S \ {a})
    BY SumRemove
  <2>2. SumFunctionOnSet(f, S \ {a}) \in Nat
    BY <1>2
  <2> QED BY <2>1, <2>2
<1> QED BY <1>2, <1>3

\* A positive sum has a positive part.
LEMMA SumPositive ==
  ASSUME NEW S, IsFiniteSet(S), NEW f, \A x \in S : f[x] \in Int, SumFunctionOnSet(f, S) > 0
  PROVE  \E a \in S : f[a] > 0
<1> DEFINE Good == {U \in SUBSET S : (\A x \in U : f[x] <= 0) => SumFunctionOnSet(f, U) <= 0}
<1>1. ASSUME NEW U \in SUBSET S, \A V \in SUBSET U : V # U => V \in Good
      PROVE  U \in Good
  <2> SUFFICES ASSUME \A x \in U : f[x] <= 0 PROVE SumFunctionOnSet(f, U) <= 0
    OBVIOUS
  <2>1. IsFiniteSet(U)
    BY FS_Subset
  <2>2. SumFunctionOnSet(f, U) =
          IF U = {} THEN 0 ELSE f[Pick(U)] + SumFunctionOnSet(f, U \ {Pick(U)})
    BY <2>1, SumPick
  <2>3. CASE U # {}
    <3>1. f[Pick(U)] \in Int /\ f[Pick(U)] <= 0
          /\ SumFunctionOnSet(f, U \ {Pick(U)}) <= 0
      BY <1>1, <2>3, PickIn
    <3>2. SumFunctionOnSet(f, U \ {Pick(U)}) \in Int
      <4>1. IsFiniteSet(U \ {Pick(U)})
        BY <2>1, FS_Subset
      <4> QED BY <4>1, SumInt
    <3> QED BY <2>2, <2>3, <3>1, <3>2
  <2> QED BY <2>2, <2>3
<1> HIDE DEF Good
<1>2. \A U \in SUBSET S : U \in Good
  BY <1>1, SubsetInduction
<1>3. SumFunctionOnSet(f, S) \in Int
  BY SumInt
<1> QED BY <1>2, <1>3 DEF Good

-----------------------------------------------------------------------------
(* Sums of a kind *)

\* The sum over nothing.
LEMMA SumEmpty == \A f : SumFunctionOnSet(f, {}) = 0
<1> SUFFICES ASSUME NEW f PROVE SumFunctionOnSet(f, {}) = 0
  OBVIOUS
<1>1. IsFiniteSet({})
  BY FS_EmptySet
<1> QED BY <1>1, SumPick

\* Zeros.
LEMMA SumZeros ==
  ASSUME NEW S, IsFiniteSet(S), NEW f, \A x \in S : f[x] = 0
  PROVE  SumFunctionOnSet(f, S) = 0
<1> DEFINE Good == {U \in SUBSET S : SumFunctionOnSet(f, U) = 0}
<1>1. ASSUME NEW U \in SUBSET S, \A V \in SUBSET U : V # U => V \in Good
      PROVE  U \in Good
  <2>1. IsFiniteSet(U)
    BY FS_Subset
  <2>2. SumFunctionOnSet(f, U) =
          IF U = {} THEN 0 ELSE f[Pick(U)] + SumFunctionOnSet(f, U \ {Pick(U)})
    BY <2>1, SumPick
  <2>3. U # {} => f[Pick(U)] = 0 /\ SumFunctionOnSet(f, U \ {Pick(U)}) = 0
    BY <1>1, PickIn
  <2> QED BY <2>2, <2>3
<1> HIDE DEF Good
<1>2. \A U \in SUBSET S : U \in Good
  BY <1>1, SubsetInduction
<1> QED BY <1>2 DEF Good

\* The sum of the opposites.
LEMMA SumMinus ==
  ASSUME NEW S, IsFiniteSet(S), NEW f, \A x \in S : f[x] \in Int,
         NEW g, \A x \in S : g[x] = -f[x]
  PROVE  SumFunctionOnSet(g, S) = -SumFunctionOnSet(f, S)
<1> DEFINE Good == {U \in SUBSET S : /\ SumFunctionOnSet(f, U) \in Int
                                     /\ SumFunctionOnSet(g, U) = -SumFunctionOnSet(f, U)}
<1>1. ASSUME NEW U \in SUBSET S, \A V \in SUBSET U : V # U => V \in Good
      PROVE  U \in Good
  <2>1. IsFiniteSet(U)
    BY FS_Subset
  <2>2. SumFunctionOnSet(f, U) =
          IF U = {} THEN 0 ELSE f[Pick(U)] + SumFunctionOnSet(f, U \ {Pick(U)})
    BY <2>1, SumPick
  <2>3. SumFunctionOnSet(g, U) =
          IF U = {} THEN 0 ELSE g[Pick(U)] + SumFunctionOnSet(g, U \ {Pick(U)})
    BY <2>1, SumPick
  <2>4. U # {} => /\ f[Pick(U)] \in Int /\ g[Pick(U)] = -f[Pick(U)]
                  /\ SumFunctionOnSet(f, U \ {Pick(U)}) \in Int
                  /\ SumFunctionOnSet(g, U \ {Pick(U)}) = -SumFunctionOnSet(f, U \ {Pick(U)})
    BY <1>1, PickIn
  <2> HIDE DEF Good
  <2>5. SumFunctionOnSet(f, U) \in Int /\ SumFunctionOnSet(g, U) = -SumFunctionOnSet(f, U)
    BY <2>2, <2>3, <2>4
  <2> QED BY <2>5 DEF Good
<1> HIDE DEF Good
<1>2. \A U \in SUBSET S : U \in Good
  BY <1>1, SubsetInduction
<1> QED BY <1>2 DEF Good

\* The sum of sums.
LEMMA SumPlus ==
  ASSUME NEW S, IsFiniteSet(S), NEW f, NEW g, \A x \in S : f[x] \in Int /\ g[x] \in Int,
         NEW h, \A x \in S : h[x] = f[x] + g[x]
  PROVE  SumFunctionOnSet(h, S) = SumFunctionOnSet(f, S) + SumFunctionOnSet(g, S)
<1> DEFINE Sum(e, U) == SumFunctionOnSet(e, U)
           Good == {U \in SUBSET S : /\ Sum(f, U) \in Int /\ Sum(g, U) \in Int
                                     /\ Sum(h, U) = Sum(f, U) + Sum(g, U)}
<1>1. ASSUME NEW U \in SUBSET S, \A V \in SUBSET U : V # U => V \in Good
      PROVE  U \in Good
  <2>1. IsFiniteSet(U)
    BY FS_Subset
  <2>2. \A e : Sum(e, U) = IF U = {} THEN 0 ELSE e[Pick(U)] + Sum(e, U \ {Pick(U)})
    BY <2>1, SumPick
  <2> DEFINE V == U \ {Pick(U)}
  <2>3. U # {} => /\ f[Pick(U)] \in Int /\ g[Pick(U)] \in Int
                  /\ h[Pick(U)] = f[Pick(U)] + g[Pick(U)]
                  /\ Sum(f, V) \in Int /\ Sum(g, V) \in Int /\ Sum(h, V) = Sum(f, V) + Sum(g, V)
    BY <1>1, PickIn
  <2> HIDE DEF Good, Sum
  <2>4. Sum(f, U) \in Int /\ Sum(g, U) \in Int /\ Sum(h, U) = Sum(f, U) + Sum(g, U)
    <3>1. /\ Sum(f, U) = IF U = {} THEN 0 ELSE f[Pick(U)] + Sum(f, V)
          /\ Sum(g, U) = IF U = {} THEN 0 ELSE g[Pick(U)] + Sum(g, V)
          /\ Sum(h, U) = IF U = {} THEN 0 ELSE h[Pick(U)] + Sum(h, V)
      BY <2>2
    <3> QED BY <2>3, <3>1
  <2> QED BY <2>4 DEF Good
<1> HIDE DEF Good
<1>2. \A U \in SUBSET S : U \in Good
  BY <1>1, SubsetInduction
<1> QED BY <1>2 DEF Good

\* Zeros and ones count.
LEMMA SumCounts ==
  ASSUME NEW S, IsFiniteSet(S), NEW T \in SUBSET S, NEW f,
         \A x \in S : f[x] = IF x \in T THEN 1 ELSE 0
  PROVE  SumFunctionOnSet(f, S) = Cardinality(T)
<1> DEFINE Good == {U \in SUBSET S : SumFunctionOnSet(f, U) = Cardinality(U \cap T)}
<1>1. ASSUME NEW U \in SUBSET S, \A V \in SUBSET U : V # U => V \in Good
      PROVE  U \in Good
  <2>1. IsFiniteSet(U)
    BY FS_Subset
  <2>2. SumFunctionOnSet(f, U) =
          IF U = {} THEN 0 ELSE f[Pick(U)] + SumFunctionOnSet(f, U \ {Pick(U)})
    BY <2>1, SumPick
  <2>3. CASE U = {}
    <3>1. U \cap T = {}
      BY <2>3
    <3> QED BY <2>2, <2>3, <3>1, FS_EmptySet
  <2>4. CASE U # {}
    <3> DEFINE a == Pick(U)
               A == U \cap T
               c == Cardinality(A)
    <3>1. a \in U /\ SumFunctionOnSet(f, U \ {a}) = Cardinality((U \ {a}) \cap T)
      BY <1>1, <2>4, PickIn
    <3> HIDE DEF a
    <3>2. (U \ {a}) \cap T = A \ {a}
      OBVIOUS
    <3>3. IsFiniteSet(A)
      BY <2>1, FS_Subset
    <3>4. c \in Nat /\ Cardinality(A \ {a}) = IF a \in A THEN c - 1 ELSE c
      BY <3>3, FS_RemoveElement, FS_CardinalityType
    <3> HIDE DEF A, c
    <3>5. f[a] = IF a \in A THEN 1 ELSE 0
      BY <3>1 DEF A
    <3>6. SumFunctionOnSet(f, U) = f[a] + Cardinality(A \ {a})
      BY <2>2, <2>4, <3>1, <3>2 DEF a
    <3>7. SumFunctionOnSet(f, U) = c
      BY <3>4, <3>5, <3>6
    <3> QED BY <3>7 DEF c, A
  <2> QED BY <2>3, <2>4
<1> HIDE DEF Good
<1>2. S \in Good
  <2>1. \A U \in SUBSET S : U \in Good
    BY <1>1, SubsetInduction
  <2> QED BY <2>1
<1>3. S \cap T = T
  OBVIOUS
<1> QED BY <1>2, <1>3 DEF Good

\* The same values in other places: h tells where.
LEMMA SumMoved ==
  ASSUME NEW S, IsFiniteSet(S), NEW f, \A x \in S : f[x] \in Int,
         NEW T, IsFiniteSet(T), NEW g, NEW h \in [T -> S],
         \A y \in T : g[y] = f[h[y]],
         \A y, z \in T : h[y] = h[z] => y = z,
         \A x \in S : \E y \in T : h[y] = x
  PROVE  SumFunctionOnSet(g, T) = SumFunctionOnSet(f, S)
<1> DEFINE To(U) == {h[y] : y \in U}
           Good == {U \in SUBSET T : SumFunctionOnSet(g, U) = SumFunctionOnSet(f, To(U))}
<1>1. ASSUME NEW U \in SUBSET T, \A V \in SUBSET U : V # U => V \in Good
      PROVE  U \in Good
  <2>1. IsFiniteSet(U)
    BY FS_Subset
  <2>2. SumFunctionOnSet(g, U) =
          IF U = {} THEN 0 ELSE g[Pick(U)] + SumFunctionOnSet(g, U \ {Pick(U)})
    BY <2>1, SumPick
  <2>3. CASE U = {}
    <3>1. To(U) = {}
      BY <2>3
    <3> QED BY <2>2, <2>3, <3>1, SumEmpty
  <2>4. CASE U # {}
    <3> DEFINE a == Pick(U)
    <3>1. a \in U /\ SumFunctionOnSet(g, U \ {a}) = SumFunctionOnSet(f, To(U \ {a}))
      BY <1>1, <2>4, PickIn
    <3> HIDE DEF a
    <3>2. To(U) \in SUBSET S /\ h[a] \in To(U) /\ To(U) \ {h[a]} = To(U \ {a})
      BY <3>1
    <3>3. IsFiniteSet(To(U))
      <4> HIDE DEF To
      <4> QED BY <3>2, FS_Subset
    <3>4. SumFunctionOnSet(f, To(U)) = f[h[a]] + SumFunctionOnSet(f, To(U \ {a}))
      <4> HIDE DEF To
      <4>1. \A x \in To(U) : f[x] \in Int
        BY <3>2
      <4>2. SumFunctionOnSet(f, To(U)) = f[h[a]] + SumFunctionOnSet(f, To(U) \ {h[a]})
        BY <3>2, <3>3, <4>1, SumRemove
      <4> QED BY <3>2, <4>2
    <3>5. g[a] = f[h[a]]
      BY <3>1
    <3> HIDE DEF To
    <3>6. SumFunctionOnSet(g, U) = SumFunctionOnSet(f, To(U))
      BY <2>2, <2>4, <3>1, <3>4, <3>5 DEF a
    <3> QED BY <3>6
  <2> QED BY <2>3, <2>4
<1> HIDE DEF Good
<1>2. T \in Good
  <2>1. \A U \in SUBSET T : U \in Good
    BY <1>1, SubsetInduction
  <2> QED BY <2>1
<1>3. To(T) = S
  OBVIOUS
<1> QED BY <1>2, <1>3 DEF Good

=============================================================================
