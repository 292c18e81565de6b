---------------------------- MODULE SumTheorems ----------------------------
(***************************************************************************)
(* Sums over finite sets, SumFunctionOnSet of the community modules.  The  *)
(* induction over the set is made with a minimal counterexample: strict    *)
(* inclusion is well-founded on the subsets of a finite set.               *)
(***************************************************************************)
EXTENDS Integers, FiniteSets, FiniteSetTheorems, Functions, TLAPS

Pick(s) == CHOOSE x \in s : TRUE

(* The equation that defines a sum, for all subsets of a set at once. *)
IsSum(g, f, S) ==
  g = [s \in SUBSET S |-> IF s = {} THEN 0 ELSE f[Pick(s)] + g[s \ {Pick(s)}]]

(* A family of subsets that is not empty has a member without another below. *)
LEMMA MinimalSubset ==
  ASSUME NEW S, IsFiniteSet(S), NEW F, F \subseteq SUBSET S, F # {}
  PROVE  \E T \in F : \A U \in SUBSET T : U # T => U \notin F
<1>1. IsWellFoundedOn(StrictSubsetOrdering(S), FiniteSubsetsOf(S))
  BY FS_StrictSubsetOrderingWellFounded
<1>2. FiniteSubsetsOf(S) = SUBSET S
  BY FS_FiniteSubsetsOfFinite
<1>3. PICK T \in F : \A U \in F : ~ (<<U, T>> \in StrictSubsetOrdering(S))
  BY <1>1, <1>2, WFMin
<1>4. ASSUME NEW U \in SUBSET T, U # T, U \in F
      PROVE  FALSE
  <2>1. <<U, T>> \in StrictSubsetOrdering(S)
    BY <1>4 DEF StrictSubsetOrdering
  <2>2. QED
    BY <1>3, <1>4, <2>1
<1>5. QED
  BY <1>3, <1>4

(* What a solution is at one subset. *)
LEMMA IsSumAt ==
  ASSUME NEW f, NEW S, NEW g, IsSum(g, f, S), NEW U \in SUBSET S
  PROVE  g[U] = IF U = {} THEN 0 ELSE f[Pick(U)] + g[U \ {Pick(U)}]
  BY DEF IsSum

LEMMA PickIn == ASSUME NEW s, s # {} PROVE Pick(s) \in s
  BY DEF Pick

(* Two solutions of the equation agree where both are defined. *)
LEMMA IsSumUnique ==
  ASSUME NEW f, NEW S, IsFiniteSet(S), NEW T \in SUBSET S,
         NEW g, IsSum(g, f, S), NEW h, IsSum(h, f, T)
  PROVE  g[T] = h[T]
<1> DEFINE Bad == {U \in SUBSET T : g[U] # h[U]}
<1>1. SUFFICES ASSUME Bad # {} PROVE FALSE
  OBVIOUS
<1>2. IsFiniteSet(T)
  BY FS_Subset
<1>3. PICK U \in Bad : \A V \in SUBSET U : V # U => V \notin Bad
  <2> HIDE DEF Bad
  <2>1. Bad \subseteq SUBSET T
    BY DEF Bad
  <2>2. QED
    BY <1>1, <1>2, <2>1, MinimalSubset
<1>4. U \in SUBSET S /\ U \in SUBSET T
  OBVIOUS
<1>5. g[U] = IF U = {} THEN 0 ELSE f[Pick(U)] + g[U \ {Pick(U)}]
  BY <1>4, IsSumAt
<1>6. h[U] = IF U = {} THEN 0 ELSE f[Pick(U)] + h[U \ {Pick(U)}]
  BY <1>4, IsSumAt
<1>7. CASE U = {}
  BY <1>5, <1>6, <1>7
<1>8. CASE U # {}
  <2>1. U \ {Pick(U)} \in SUBSET U /\ U \ {Pick(U)} # U
    BY <1>8, PickIn
  <2>2. g[U \ {Pick(U)}] = h[U \ {Pick(U)}]
    BY <1>3, <2>1
  <2>3. QED
    BY <1>5, <1>6, <1>8, <2>2
<1>9. QED
  BY <1>7, <1>8

(* The equation has a solution. *)
LEMMA IsSumExists ==
  ASSUME NEW f, NEW S, IsFiniteSet(S)
  PROVE  \E g : IsSum(g, f, S)
<1> DEFINE Bad == {T \in SUBSET S : ~ \E g : IsSum(g, f, T)}
<1>1. SUFFICES ASSUME Bad # {} PROVE FALSE
  OBVIOUS
<1>2. PICK T \in Bad : \A U \in SUBSET T : U # T => U \notin Bad
  <2> HIDE DEF Bad
  <2>1. Bad \subseteq SUBSET S
    BY DEF Bad
  <2>2. QED
    BY <1>1, <2>1, MinimalSubset
<1> DEFINE Part(U) == CHOOSE g : IsSum(g, f, U)
           At(U) == Part(U)[U]
           whole == [U \in SUBSET T |-> IF U = {} THEN 0 ELSE f[Pick(U)] + At(U \ {Pick(U)})]
<1>3. ASSUME NEW U \in SUBSET T, U # T
      PROVE  IsSum(Part(U), f, U) /\ IsFiniteSet(U)
  <2>1. U \in SUBSET S /\ U \notin Bad
    BY <1>2, <1>3
  <2>2. \E g : IsSum(g, f, U)
    BY <2>1
  <2>3. QED
    BY <2>1, <2>2, FS_Subset
<1>4. ASSUME NEW U \in SUBSET T, U # T
      PROVE  whole[U] = At(U)
  <2>1. CASE U = {}
    <3>1. Part(U)[U] = 0
      <4>1. IsSum(Part(U), f, U) /\ U \in SUBSET U
        BY <1>3, <1>4
      <4> HIDE DEF Part
      <4>2. QED
        BY <2>1, <4>1, IsSumAt
    <3>2. QED
      BY <2>1, <3>1
  <2>2. CASE U # {}
    <3> DEFINE V == U \ {Pick(U)}
    <3>1. V \in SUBSET U /\ V \in SUBSET T /\ V # T
      BY <1>4
    <3>2. Part(U)[U] = f[Pick(U)] + Part(U)[V]
      <4> HIDE DEF Part
      <4>1. QED
        BY <1>3, <1>4, <2>2, IsSumAt
    <3>3. Part(U)[V] = Part(V)[V]
      <4> HIDE DEF V, Part
      <4>1. IsSum(Part(U), f, U) /\ IsFiniteSet(U) /\ IsSum(Part(V), f, V)
        BY <1>3, <1>4, <3>1
      <4>2. QED
        BY <3>1, <4>1, IsSumUnique
    <3>4. QED
      BY <2>2, <3>2, <3>3
  <2>3. QED
    BY <2>1, <2>2
<1>5. IsSum(whole, f, T)
  <2>1. ASSUME NEW U \in SUBSET T, U # {}
        PROVE  whole[U \ {Pick(U)}] = At(U \ {Pick(U)})
    <3>1. U \ {Pick(U)} \in SUBSET T /\ U \ {Pick(U)} # T
      BY <2>1, PickIn
    <3> HIDE DEF whole, At
    <3>2. QED
      BY <1>4, <3>1
  <2>2. \A U \in SUBSET T :
           (IF U = {} THEN 0 ELSE f[Pick(U)] + At(U \ {Pick(U)}))
             = (IF U = {} THEN 0 ELSE f[Pick(U)] + whole[U \ {Pick(U)}])
    <3> HIDE DEF whole, At
    <3>1. QED
      BY <2>1
  <2>3. whole = [U \in SUBSET T |->
                   IF U = {} THEN 0 ELSE f[Pick(U)] + whole[U \ {Pick(U)}]]
    <3> HIDE DEF At
    <3>1. QED
      BY <2>2
  <2>4. QED
    BY <2>3 DEF IsSum
<1>6. T \notin Bad
  <2> HIDE DEF whole
  <2>1. QED
    BY <1>5
<1>7. QED
  BY <1>2, <1>6

-----------------------------------------------------------------------------
LEMMA SumSolves ==
  ASSUME NEW f, NEW S, IsFiniteSet(S)
  PROVE  \E g : IsSum(g, f, S) /\ SumFunctionOnSet(f, S) = g[S]
<1>1. SumFunctionOnSet(f, S) = (CHOOSE g : IsSum(g, f, S))[S]
  BY DEF SumFunctionOnSet, FoldFunctionOnSet, MapThenFoldSet, IsSum, Pick
<1>2. QED
  BY <1>1, IsSumExists

(* The sum over nothing, and one step of a sum in the order it is made. *)
LEMMA SumEmpty == \A f : SumFunctionOnSet(f, {}) = 0
<1> TAKE f
<1>1. IsFiniteSet({})
  BY FS_EmptySet
<1>2. PICK g : IsSum(g, f, {}) /\ SumFunctionOnSet(f, {}) = g[{}]
  BY <1>1, SumSolves
<1>3. QED
  BY <1>2 DEF IsSum

LEMMA SumPick ==
  ASSUME NEW f, NEW S, IsFiniteSet(S), S # {}
  PROVE  SumFunctionOnSet(f, S) = f[Pick(S)] + SumFunctionOnSet(f, S \ {Pick(S)})
<1> DEFINE T == S \ {Pick(S)}
<1>1. IsFiniteSet(T) /\ T \in SUBSET S
  BY FS_RemoveElement
<1>2. PICK g : IsSum(g, f, S) /\ SumFunctionOnSet(f, S) = g[S]
  BY SumSolves
<1>3. PICK h : IsSum(h, f, T) /\ SumFunctionOnSet(f, T) = h[T]
  BY <1>1, SumSolves
<1>4. g[T] = h[T]
  <2> HIDE DEF T
  <2>1. QED
    BY <1>1, <1>2, <1>3, IsSumUnique
<1>5. g[S] = f[Pick(S)] + g[T]
  BY <1>2 DEF IsSum
<1>6. QED
  BY <1>2, <1>3, <1>4, <1>5

(* In the order of a sum any element may come first. *)
LEMMA SumRemove ==
  ASSUME NEW S, IsFiniteSet(S), NEW f, \A s \in S : f[s] \in Int
  PROVE  /\ SumFunctionOnSet(f, S) \in Int
         /\ \A x \in S : SumFunctionOnSet(f, S) = f[x] + SumFunctionOnSet(f, S \ {x})
<1> DEFINE Sum(T) == SumFunctionOnSet(f, T)
           Good(T) == Sum(T) \in Int /\ \A x \in T : Sum(T) = f[x] + Sum(T \ {x})
           Bad == {T \in SUBSET S : ~Good(T)}
<1>1. SUFFICES ASSUME Bad # {} PROVE FALSE
  OBVIOUS
<1>2. PICK T \in Bad : \A U \in SUBSET T : U # T => U \notin Bad
  <2> HIDE DEF Bad
  <2>1. Bad \subseteq SUBSET S
    BY DEF Bad
  <2>2. QED
    BY <1>1, <2>1, MinimalSubset
<1>3. IsFiniteSet(T) /\ T \subseteq S
  BY FS_Subset
<1>4. T # {}
  <2>1. Good({})
    BY SumEmpty
  <2>2. QED
    BY <2>1
<1> DEFINE p == Pick(T)
<1>5. p \in T /\ Sum(T) = f[p] + Sum(T \ {p})
  BY <1>3, <1>4, PickIn, SumPick
<1>6. ASSUME NEW U \in SUBSET T, U # T
      PROVE  Good(U)
  <2>1. U \in SUBSET S /\ U \notin Bad
    BY <1>2, <1>3, <1>6
  <2> HIDE DEF Good
  <2>2. QED
    BY <2>1
<1> HIDE DEF p, Sum
<1>7. f[p] \in Int /\ Sum(T \ {p}) \in Int /\ Sum(T) \in Int
  BY <1>3, <1>5, <1>6
<1>8. ASSUME NEW x \in T
      PROVE  Sum(T) = f[x] + Sum(T \ {x})
  <2>1. CASE x = p
    BY <1>5, <2>1
  <2>2. CASE x # p
    <3>1. Sum(T \ {p}) = f[x] + Sum((T \ {p}) \ {x})
      BY <1>5, <1>6, <2>2
    <3>2. Sum(T \ {x}) = f[p] + Sum((T \ {x}) \ {p})
      BY <1>5, <1>6, <2>2
    <3>3. (T \ {p}) \ {x} = (T \ {x}) \ {p}
      OBVIOUS
    <3> DEFINE rest == Sum((T \ {x}) \ {p})
    <3>4. f[x] \in Int /\ rest \in Int
      BY <1>3, <1>5, <1>6
    <3>5. Sum(T \ {p}) = f[x] + rest /\ Sum(T \ {x}) = f[p] + rest
      BY <3>1, <3>2, <3>3
    <3> HIDE DEF rest
    <3>6. QED
      BY <1>5, <1>7, <3>4, <3>5
  <2>3. QED
    BY <2>1, <2>2
<1>9. T \notin Bad
  BY <1>7, <1>8
<1>10. QED
  BY <1>2, <1>9

(* One more element. *)
LEMMA SumAdd ==
  ASSUME NEW S, IsFiniteSet(S), NEW x, x \notin S,
         NEW f, \A s \in S \cup {x} : f[s] \in Int
  PROVE  SumFunctionOnSet(f, S \cup {x}) = f[x] + SumFunctionOnSet(f, S)
<1>1. IsFiniteSet(S \cup {x}) /\ (S \cup {x}) \ {x} = S
  BY FS_AddElement
<1>2. QED
  BY <1>1, SumRemove

(* Only the values on the set count. *)
LEMMA SumAgree ==
  ASSUME NEW S, IsFiniteSet(S), NEW f, NEW g, \A s \in S : f[s] = g[s]
  PROVE  SumFunctionOnSet(f, S) = SumFunctionOnSet(g, S)
<1> DEFINE Bad == {T \in SUBSET S : SumFunctionOnSet(f, T) # SumFunctionOnSet(g, T)}
<1>1. SUFFICES ASSUME Bad # {} PROVE FALSE
  OBVIOUS
<1>2. PICK T \in Bad : \A U \in SUBSET T : U # T => U \notin Bad
  <2> HIDE DEF Bad
  <2>1. Bad \subseteq SUBSET S
    BY DEF Bad
  <2>2. QED
    BY <1>1, <2>1, MinimalSubset
<1>3. IsFiniteSet(T) /\ T \subseteq S /\ SumFunctionOnSet(f, T) # SumFunctionOnSet(g, T)
  BY FS_Subset
<1>4. T # {}
  BY <1>3, SumEmpty
<1>5. Pick(T) \in T
  BY <1>4, PickIn
<1>6. SumFunctionOnSet(f, T \ {Pick(T)}) = SumFunctionOnSet(g, T \ {Pick(T)})
  BY <1>2, <1>3, <1>5
<1>7. /\ SumFunctionOnSet(f, T) = f[Pick(T)] + SumFunctionOnSet(f, T \ {Pick(T)})
      /\ SumFunctionOnSet(g, T) = g[Pick(T)] + SumFunctionOnSet(g, T \ {Pick(T)})
  BY <1>3, <1>4, SumPick
<1>8. QED
  BY <1>3, <1>5, <1>6, <1>7

(* The value at one element changes. *)
LEMMA SumChange ==
  ASSUME NEW S, IsFiniteSet(S), NEW x \in S,
         NEW f, \A s \in S : f[s] \in Int, NEW g, g[x] \in Int,
         \A s \in S \ {x} : g[s] = f[s]
  PROVE  SumFunctionOnSet(g, S) = SumFunctionOnSet(f, S) - f[x] + g[x]
<1>1. IsFiniteSet(S \ {x}) /\ SumFunctionOnSet(f, S \ {x}) = SumFunctionOnSet(g, S \ {x})
  BY FS_RemoveElement, SumAgree
<1>2. SumFunctionOnSet(f, S) = f[x] + SumFunctionOnSet(f, S \ {x})
  BY SumRemove
<1>3. \A s \in S : g[s] \in Int
  OBVIOUS
<1>4. SumFunctionOnSet(g, S) = g[x] + SumFunctionOnSet(g, S \ {x})
  BY <1>3, SumRemove
<1>5. SumFunctionOnSet(f, S \ {x}) \in Int
  BY <1>1, SumRemove
<1>6. QED
  BY <1>1, <1>2, <1>4, <1>5

(* A sum of natural numbers is one, and the larger the larger the set is. *)
LEMMA SumNat ==
  ASSUME NEW S, IsFiniteSet(S), NEW f, \A s \in S : f[s] \in Nat
  PROVE  SumFunctionOnSet(f, S) \in Nat
<1> DEFINE Bad == {T \in SUBSET S : SumFunctionOnSet(f, T) \notin Nat}
<1>1. SUFFICES ASSUME Bad # {} PROVE FALSE
  OBVIOUS
<1>2. PICK T \in Bad : \A U \in SUBSET T : U # T => U \notin Bad
  <2> HIDE DEF Bad
  <2>1. Bad \subseteq SUBSET S
    BY DEF Bad
  <2>2. QED
    BY <1>1, <2>1, MinimalSubset
<1>3. IsFiniteSet(T) /\ T \subseteq S /\ SumFunctionOnSet(f, T) \notin Nat
  BY FS_Subset
<1>4. T # {}
  BY <1>3, SumEmpty
<1>5. Pick(T) \in T
  BY <1>4, PickIn
<1>6. SumFunctionOnSet(f, T \ {Pick(T)}) \in Nat
  BY <1>2, <1>3, <1>5
<1>7. SumFunctionOnSet(f, T) = f[Pick(T)] + SumFunctionOnSet(f, T \ {Pick(T)})
  BY <1>3, <1>4, SumPick
<1>8. QED
  BY <1>3, <1>5, <1>6, <1>7

(* A sum of zeros. *)
LEMMA SumZero ==
  ASSUME NEW S, IsFiniteSet(S), NEW f, \A s \in S : f[s] = 0
  PROVE  SumFunctionOnSet(f, S) = 0
<1> DEFINE Bad == {T \in SUBSET S : SumFunctionOnSet(f, T) # 0}
<1>1. SUFFICES ASSUME Bad # {} PROVE FALSE
  OBVIOUS
<1>2. PICK T \in Bad : \A U \in SUBSET T : U # T => U \notin Bad
  <2> HIDE DEF Bad
  <2>1. Bad \subseteq SUBSET S
    BY DEF Bad
  <2>2. QED
    BY <1>1, <2>1, MinimalSubset
<1>3. IsFiniteSet(T) /\ T \subseteq S /\ SumFunctionOnSet(f, T) # 0
  BY FS_Subset
<1>4. T # {}
  BY <1>3, SumEmpty
<1>5. Pick(T) \in T
  BY <1>4, PickIn
<1>6. SumFunctionOnSet(f, T \ {Pick(T)}) = 0
  BY <1>2, <1>3, <1>5
<1>7. SumFunctionOnSet(f, T) = f[Pick(T)] + SumFunctionOnSet(f, T \ {Pick(T)})
  BY <1>3, <1>4, SumPick
<1>8. QED
  BY <1>3, <1>5, <1>6, <1>7

(* The sum over a part is not larger. *)
LEMMA SumSubset ==
  ASSUME NEW S, IsFiniteSet(S), NEW f, \A s \in S : f[s] \in Nat, NEW T \in SUBSET S
  PROVE  SumFunctionOnSet(f, T) <= SumFunctionOnSet(f, S)
<1> DEFINE Bad == {U \in SUBSET S : T \subseteq U /\ ~(SumFunctionOnSet(f, T) <= SumFunctionOnSet(f, U))}
<1>1. SUFFICES ASSUME Bad # {} PROVE FALSE
  OBVIOUS
<1>2. PICK U \in Bad : \A V \in SUBSET U : V # U => V \notin Bad
  <2> HIDE DEF Bad
  <2>1. Bad \subseteq SUBSET S
    BY DEF Bad
  <2>2. QED
    BY <1>1, <2>1, MinimalSubset
<1>3. IsFiniteSet(U) /\ U \subseteq S /\ T \subseteq U
  BY FS_Subset
<1>4. SumFunctionOnSet(f, T) \in Nat /\ SumFunctionOnSet(f, U) \in Nat
  BY <1>3, SumNat, FS_Subset
<1>5. PICK x \in U : x \notin T
  BY <1>3, <1>4
<1>6. SumFunctionOnSet(f, T) <= SumFunctionOnSet(f, U \ {x})
  BY <1>2, <1>3, <1>5
<1>7. SumFunctionOnSet(f, U) = f[x] + SumFunctionOnSet(f, U \ {x})
  BY <1>3, <1>5, SumRemove
<1>8. SumFunctionOnSet(f, U \ {x}) \in Nat
  BY <1>3, FS_RemoveElement, SumNat
<1>9. QED
  BY <1>3, <1>4, <1>5, <1>6, <1>7, <1>8

(* A sum over no more than a set and one more element, of a function that
   agrees on the set. *)
LEMMA SumGrows ==
  ASSUME NEW S, IsFiniteSet(S), NEW f, \A s \in S : f[s] \in Nat,
         NEW x, NEW T \in SUBSET (S \cup {x}),
         NEW g, g[x] \in Nat, \A s \in T \ {x} : g[s] = f[s]
  PROVE  /\ SumFunctionOnSet(g, T) \in Nat /\ SumFunctionOnSet(f, S) \in Nat
         /\ SumFunctionOnSet(g, T) <= SumFunctionOnSet(f, S) + g[x]
<1> DEFINE rest == T \ {x}
<1>1. rest \in SUBSET S /\ IsFiniteSet(rest)
  BY FS_Subset
<1>2. SumFunctionOnSet(g, rest) = SumFunctionOnSet(f, rest)
  BY <1>1, SumAgree
<1>3. /\ SumFunctionOnSet(f, rest) \in Nat /\ SumFunctionOnSet(f, S) \in Nat
      /\ SumFunctionOnSet(f, rest) <= SumFunctionOnSet(f, S)
  BY <1>1, SumNat, SumSubset
<1>4. CASE x \in T
  <2>1. T = rest \cup {x} /\ x \notin rest /\ \A s \in rest \cup {x} : g[s] \in Int
    BY <1>1, <1>4
  <2>2. SumFunctionOnSet(g, T) = g[x] + SumFunctionOnSet(g, rest)
    BY <1>1, <2>1, SumAdd
  <2>3. QED
    BY <1>2, <1>3, <2>2
<1>5. CASE x \notin T
  <2>1. SumFunctionOnSet(g, T) = SumFunctionOnSet(f, rest)
    <3>1. T = rest
      BY <1>5
    <3>2. QED
      BY <1>2, <3>1
  <2>2. QED
    BY <1>3, <2>1
<1>6. QED
  BY <1>4, <1>5
=============================================================================
