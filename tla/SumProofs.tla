------------------------------ MODULE SumProofs ------------------------------
(***************************************************************************)
(* Sums over finite sets, as the modules write them: SumFunctionOnSet adds *)
(* up the values of a function on a set.                                   *)
(*                                                                         *)
(* SumFunctionOnSet is a fold, and a fold a recursive function.  What it   *)
(* computes is proved by induction over the subsets of a finite set: the   *)
(* strict subset ordering is well founded, so a set of subsets that lacks  *)
(* one lacks a minimal one.  Stated of sets and functions instead of       *)
(* operators, the principle and the facts below can be cited by name.      *)
(***************************************************************************)
EXTENDS Integers, FiniteSetsExt, FiniteSetTheorems, TLAPS

(* A set of subsets that has T whenever it has the strict subsets of T has  *)
(* them all.                                                                *)
LEMMA SubsetInduction ==
  ASSUME NEW S, IsFiniteSet(S), NEW G,
         \A T \in SUBSET S : (\A U \in SUBSET T : U # T => U \in G) => T \in G
  PROVE  \A T \in SUBSET S : T \in G
<1> DEFINE R == StrictSubsetOrdering(S)
           Bad == (SUBSET S) \ G
<1>1. IsWellFoundedOn(R, SUBSET S)
  BY FS_StrictSubsetOrderingWellFounded, FS_FiniteSubsetsOfFinite
<1>2. SUFFICES ASSUME Bad # {} PROVE FALSE
  OBVIOUS
<1>3. PICK T \in Bad : \A U \in Bad : ~(<<U, T>> \in R)
  <2> HIDE DEF R
  <2>1. Bad \subseteq SUBSET S
    OBVIOUS
  <2> HIDE DEF Bad
  <2> QED BY <1>1, <1>2, <2>1, WFMin
<1>4. \A U \in SUBSET T : U # T => U \in G
  BY <1>3 DEF StrictSubsetOrdering
<1> QED
  BY <1>3, <1>4

(* Sets that can be reached by adding one element after another.            *)
LEMMA ElementInduction ==
  ASSUME NEW S, IsFiniteSet(S), NEW G, {} \in G,
         \A T \in SUBSET S : \A x \in S \ T : T \in G => T \cup {x} \in G
  PROVE  \A T \in SUBSET S : T \in G
<1>1. ASSUME NEW T \in SUBSET S, \A U \in SUBSET T : U # T => U \in G
      PROVE  T \in G
  <2>1. CASE T = {}
    BY <2>1
  <2>2. CASE T # {}
    <3>1. PICK x \in T : TRUE
      BY <2>2
    <3> DEFINE U == T \ {x}
    <3>2. U \in SUBSET T /\ U # T /\ T = U \cup {x} /\ x \in S \ U
      OBVIOUS
    <3> HIDE DEF U
    <3>3. U \in G
      BY <1>1, <3>2
    <3> QED BY <3>2, <3>3
  <2> QED BY <2>1, <2>2
<1> QED BY <1>1, SubsetInduction

-----------------------------------------------------------------------------
(* The recursion of the fold: the element it takes first, its step, and the *)
(* functions that obey it.                                                  *)
SumPick(s) == CHOOSE x \in s : TRUE
SumStep(f, g, s) == IF s = {} THEN 0 ELSE f[SumPick(s)] + g[s \ {SumPick(s)}]
IsSumIter(f, S, g) == g = [s \in SUBSET S |-> SumStep(f, g, s)]

(* The sum is the value of such a function, if there is one.                *)
LEMMA SumIsIter ==
  ASSUME NEW f, NEW S
  PROVE  SumFunctionOnSet(f, S) = (CHOOSE g : IsSumIter(f, S, g))[S]
BY DEF SumFunctionOnSet, FoldFunctionOnSet, MapThenFoldSet, IsSumIter, SumStep, SumPick

(* Two of them, on a set and on a part of it, agree on the part.            *)
LEMMA SumIterUnique ==
  ASSUME NEW f, NEW S, IsFiniteSet(S), NEW g, IsSumIter(f, S, g),
         NEW R \in SUBSET S, NEW h, IsSumIter(f, R, h)
  PROVE  \A s \in SUBSET R : g[s] = h[s]
<1> DEFINE G == {s \in SUBSET R : g[s] = h[s]}
<1>0. IsFiniteSet(R)
  BY FS_Subset
<1>1. ASSUME NEW T \in SUBSET R, \A U \in SUBSET T : U # T => U \in G
      PROVE  T \in G
  <2>1. g[T] = SumStep(f, g, T) /\ h[T] = SumStep(f, h, T)
    BY DEF IsSumIter
  <2>2. CASE T = {}
    BY <2>1, <2>2 DEF SumStep
  <2>3. CASE T # {}
    <3>1. SumPick(T) \in T
      BY <2>3 DEF SumPick
    <3>2. T \ {SumPick(T)} \in G
      BY <1>1, <3>1
    <3> QED BY <2>1, <2>3, <3>2 DEF SumStep
  <2> QED BY <2>2, <2>3
<1> HIDE DEF G
<1>2. \A s \in SUBSET R : s \in G
  BY <1>0, <1>1, SubsetInduction
<1> QED BY <1>2 DEF G
SumIter(f, S) == CHOOSE g : IsSumIter(f, S, g)

(* There is one on every finite set.                                        *)
LEMMA SumIterExists ==
  ASSUME NEW f, NEW S, IsFiniteSet(S)
  PROVE  IsSumIter(f, S, SumIter(f, S))
<1> DEFINE G == {s \in SUBSET S : \E g : IsSumIter(f, s, g)}
<1>1. ASSUME NEW T \in SUBSET S, \A U \in SUBSET T : U # T => U \in G
      PROVE  T \in G
  <2> DEFINE V(s) == SumIter(f, s)[s]
             g == [s \in SUBSET T |-> IF s = {} THEN 0 ELSE f[SumPick(s)] + V(s \ {SumPick(s)})]
  <2>0. \A s \in SUBSET T : s # {} => SumPick(s) \in s
    BY DEF SumPick
  <2>1. \A U \in SUBSET T : U # T => IsFiniteSet(U) /\ IsSumIter(f, U, SumIter(f, U))
    <3>1. ASSUME NEW U \in SUBSET T, U # T PROVE IsFiniteSet(U)
      BY FS_Subset
    <3>2. ASSUME NEW U \in SUBSET T, U # T PROVE IsSumIter(f, U, SumIter(f, U))
      <4>1. \E h : IsSumIter(f, U, h)
        BY <1>1, <3>2
      <4> QED BY <4>1 DEF SumIter
    <3> QED BY <3>1, <3>2
  <2>2. ASSUME NEW r \in SUBSET T, r # T
        PROVE  g[r] = V(r)
    <3>1. IsSumIter(f, r, SumIter(f, r)) /\ IsFiniteSet(r)
      BY <2>1, <2>2
    <3>2. V(r) = SumStep(f, SumIter(f, r), r)
      BY <3>1 DEF IsSumIter
    <3>3. CASE r = {}
      BY <3>2, <3>3 DEF SumStep
    <3>4. CASE r # {}
      <4> DEFINE q == r \ {SumPick(r)}
      <4>1. q \in SUBSET r /\ q # r /\ q # T
        BY <2>0, <3>4
      <4>2. IsSumIter(f, q, SumIter(f, q))
        BY <2>1, <4>1
      <4>3. SumIter(f, r)[q] = SumIter(f, q)[q]
        <5> HIDE DEF q
        <5> QED BY <3>1, <4>1, <4>2, SumIterUnique
      <4> QED BY <3>2, <3>4, <4>3 DEF SumStep
    <3> QED BY <3>3, <3>4
  <2>3. \A s \in SUBSET T : g[s] = SumStep(f, g, s)
    <3>1. ASSUME NEW s \in SUBSET T, s # {} PROVE g[s] = SumStep(f, g, s)
      <4>1. s \ {SumPick(s)} \in SUBSET T /\ s \ {SumPick(s)} # T
        BY <2>0, <3>1
      <4>2. g[s \ {SumPick(s)}] = V(s \ {SumPick(s)})
        BY <2>2, <4>1
      <4>3. g[s] = f[SumPick(s)] + V(s \ {SumPick(s)})
        BY <3>1
      <4> QED BY <3>1, <4>2, <4>3 DEF SumStep
    <3> QED BY <3>1 DEF SumStep
  <2>4. g = [s \in SUBSET T |-> SumStep(f, g, s)]
    BY <2>3
  <2>5. IsSumIter(f, T, g)
    BY <2>4 DEF IsSumIter
  <2> QED BY <2>5
<1> HIDE DEF G
<1>2. S \in G
  BY <1>1, SubsetInduction
<1>3. \E g : IsSumIter(f, S, g)
  BY <1>2 DEF G
<1> QED BY <1>3 DEF SumIter

-----------------------------------------------------------------------------
(* One step of the fold.                                                    *)
LEMMA SumUnfolds ==
  ASSUME NEW f, NEW S, IsFiniteSet(S), S # {}
  PROVE  SumFunctionOnSet(f, S) = f[SumPick(S)] + SumFunctionOnSet(f, S \ {SumPick(S)})
<1> DEFINE T == S \ {SumPick(S)}
<1>1. T \in SUBSET S /\ IsFiniteSet(T)
  BY FS_RemoveElement
<1>2. IsSumIter(f, S, SumIter(f, S)) /\ IsSumIter(f, T, SumIter(f, T))
  BY <1>1, SumIterExists
<1>3. SumIter(f, S)[S] = f[SumPick(S)] + SumIter(f, S)[T]
  BY <1>2 DEF IsSumIter, SumStep
<1>4. SumIter(f, S)[T] = SumIter(f, T)[T]
  BY <1>1, <1>2, SumIterUnique
<1> QED BY <1>3, <1>4, SumIsIter DEF SumIter

(* Nothing adds up to 0.                                                    *)
LEMMA SumEmpty ==
  ASSUME NEW f PROVE SumFunctionOnSet(f, {}) = 0
<1>1. IsSumIter(f, {}, SumIter(f, {}))
  BY SumIterExists, FS_EmptySet
<1>2. SumIter(f, {})[{}] = 0
  BY <1>1 DEF IsSumIter, SumStep
<1> QED BY <1>2, SumIsIter DEF SumIter

(* Every order of the summands gives the same sum.                          *)
LEMMA SumAny ==
  ASSUME NEW S, IsFiniteSet(S), NEW f, \A x \in S : f[x] \in Int
  PROVE  \A T \in SUBSET S :
           /\ SumFunctionOnSet(f, T) \in Int
           /\ \A x \in T : SumFunctionOnSet(f, T) = f[x] + SumFunctionOnSet(f, T \ {x})
<1> DEFINE Good(T) == /\ SumFunctionOnSet(f, T) \in Int
                      /\ \A x \in T : SumFunctionOnSet(f, T) = f[x] + SumFunctionOnSet(f, T \ {x})
           G == {T \in SUBSET S : Good(T)}
<1>1. ASSUME NEW T \in SUBSET S, \A U \in SUBSET T : U # T => U \in G
      PROVE  T \in G
  <2>0. IsFiniteSet(T)
    BY FS_Subset
  <2>1. CASE T = {}
    BY <2>1, SumEmpty
  <2>2. CASE T # {}
    <3> DEFINE p == SumPick(T)
               Tp == T \ {p}
    <3>1. p \in T
      BY <2>2 DEF SumPick
    <3>2. SumFunctionOnSet(f, T) = f[p] + SumFunctionOnSet(f, Tp)
      BY <2>0, <2>2, SumUnfolds
    <3> HIDE DEF p
    <3>3. Tp \in G
      BY <1>1, <3>1
    <3>4. SumFunctionOnSet(f, T) \in Int
      BY <3>1, <3>2, <3>3
    <3>5. ASSUME NEW x \in T
          PROVE  SumFunctionOnSet(f, T) = f[x] + SumFunctionOnSet(f, T \ {x})
      <4>1. CASE x = p
        BY <3>2, <4>1
      <4>2. CASE x # p
        <5>1. T \ {x} \in G /\ p \in T \ {x} /\ x \in Tp
          BY <1>1, <3>1, <4>2
        <5>2. SumFunctionOnSet(f, Tp) = f[x] + SumFunctionOnSet(f, Tp \ {x})
          BY <3>3, <5>1
        <5>3. SumFunctionOnSet(f, T \ {x}) = f[p] + SumFunctionOnSet(f, (T \ {x}) \ {p})
          BY <5>1
        <5>4. (T \ {x}) \ {p} = Tp \ {x}
          OBVIOUS
        <5>5. Tp \ {x} \in G
          BY <1>1, <3>1
        <5>6. f[x] \in Int /\ f[p] \in Int /\ SumFunctionOnSet(f, Tp \ {x}) \in Int
          BY <3>1, <5>5
        <5>7. SumFunctionOnSet(f, (T \ {x}) \ {p}) = SumFunctionOnSet(f, Tp \ {x})
          BY <5>4
        <5> HIDE DEF Tp
        <5> QED BY <3>2, <5>2, <5>3, <5>6, <5>7
      <4> QED BY <4>1, <4>2
    <3> QED BY <3>4, <3>5
  <2> QED BY <2>1, <2>2
<1> HIDE DEF G
<1>2. \A T \in SUBSET S : T \in G
  BY <1>1, SubsetInduction
<1> QED BY <1>2 DEF G

(* The same, for one set and one element of it.                             *)
LEMMA SumType ==
  ASSUME NEW S, IsFiniteSet(S), NEW f, \A x \in S : f[x] \in Int
  PROVE  SumFunctionOnSet(f, S) \in Int
BY SumAny

(* One element of a sum apart.                                              *)
LEMMA SumElement ==
  ASSUME NEW S, IsFiniteSet(S), NEW f, \A x \in S : f[x] \in Int, NEW x \in S
  PROVE  /\ SumFunctionOnSet(f, S) = f[x] + SumFunctionOnSet(f, S \ {x})
         /\ SumFunctionOnSet(f, S \ {x}) \in Int
BY SumAny

(* One element more.                                                        *)
LEMMA SumInsert ==
  ASSUME NEW S, IsFiniteSet(S), NEW f, \A y \in S : f[y] \in Int,
         NEW x, x \notin S, f[x] \in Int
  PROVE  SumFunctionOnSet(f, S \cup {x}) = f[x] + SumFunctionOnSet(f, S)
<1> DEFINE T == S \cup {x}
<1>1. IsFiniteSet(T) /\ x \in T /\ T \ {x} = S
  BY FS_AddElement
<1>2. \A y \in T : f[y] \in Int
  OBVIOUS
<1> HIDE DEF T
<1>3. SumFunctionOnSet(f, T) = f[x] + SumFunctionOnSet(f, T \ {x})
  BY <1>1, <1>2, SumElement
<1> QED BY <1>1, <1>3 DEF T

(* A sum over one element.                                                  *)
LEMMA SumSingleton ==
  ASSUME NEW f, NEW x, f[x] \in Int
  PROVE  SumFunctionOnSet(f, {x}) = f[x]
<1>1. SumFunctionOnSet(f, {} \cup {x}) = f[x] + SumFunctionOnSet(f, {})
  BY FS_EmptySet, SumInsert
<1>2. {} \cup {x} = {x}
  OBVIOUS
<1> QED BY <1>1, <1>2, SumEmpty

-----------------------------------------------------------------------------
(* Sums of functions that are related point by point.                       *)
LEMMA SumCongruence ==
  ASSUME NEW S, IsFiniteSet(S), NEW f, NEW g,
         \A x \in S : f[x] \in Int /\ g[x] = f[x]
  PROVE  SumFunctionOnSet(g, S) = SumFunctionOnSet(f, S)
<1> DEFINE G == {T \in SUBSET S : SumFunctionOnSet(g, T) = SumFunctionOnSet(f, T)}
<1>1. {} \in G
  BY SumEmpty
<1>2. ASSUME NEW T \in SUBSET S, NEW x \in S \ T, T \in G
      PROVE  T \cup {x} \in G
  <2>1. IsFiniteSet(T)
    BY FS_Subset
  <2>2. /\ SumFunctionOnSet(f, T \cup {x}) = f[x] + SumFunctionOnSet(f, T)
        /\ SumFunctionOnSet(g, T \cup {x}) = g[x] + SumFunctionOnSet(g, T)
    BY <2>1, SumInsert
  <2> QED BY <1>2, <2>2
<1> HIDE DEF G
<1>3. S \in G
  BY <1>1, <1>2, ElementInduction
<1> QED BY <1>3 DEF G

(* A change at one element changes the sum by as much.                      *)
LEMMA SumChange ==
  ASSUME NEW S, IsFiniteSet(S), NEW f, NEW g, NEW x \in S,
         \A y \in S : f[y] \in Int /\ g[y] \in Int /\ (y # x => g[y] = f[y])
  PROVE  SumFunctionOnSet(g, S) = SumFunctionOnSet(f, S) - f[x] + g[x]
<1>1. /\ SumFunctionOnSet(f, S) = f[x] + SumFunctionOnSet(f, S \ {x})
      /\ SumFunctionOnSet(f, S \ {x}) \in Int
      /\ SumFunctionOnSet(g, S) = g[x] + SumFunctionOnSet(g, S \ {x})
  BY SumElement
<1>2. SumFunctionOnSet(g, S \ {x}) = SumFunctionOnSet(f, S \ {x})
  <2>1. IsFiniteSet(S \ {x})
    BY FS_RemoveElement
  <2> QED BY <2>1, SumCongruence
<1> QED BY <1>1, <1>2

(* A sum of sums is the sum of the two.                                     *)
LEMMA SumOfSums ==
  ASSUME NEW S, IsFiniteSet(S), NEW f, NEW g, NEW h,
         \A x \in S : f[x] \in Int /\ g[x] \in Int /\ h[x] = f[x] + g[x]
  PROVE  SumFunctionOnSet(h, S) = SumFunctionOnSet(f, S) + SumFunctionOnSet(g, S)
<1> DEFINE G == {T \in SUBSET S :
                  SumFunctionOnSet(h, T) = SumFunctionOnSet(f, T) + SumFunctionOnSet(g, T)}
<1>1. {} \in G
  BY SumEmpty
<1>2. ASSUME NEW T \in SUBSET S, NEW x \in S \ T, T \in G
      PROVE  T \cup {x} \in G
  <2>1. IsFiniteSet(T)
    BY FS_Subset
  <2>2. /\ SumFunctionOnSet(f, T \cup {x}) = f[x] + SumFunctionOnSet(f, T)
        /\ SumFunctionOnSet(g, T \cup {x}) = g[x] + SumFunctionOnSet(g, T)
        /\ SumFunctionOnSet(h, T \cup {x}) = h[x] + SumFunctionOnSet(h, T)
    BY <2>1, SumInsert
  <2>3. SumFunctionOnSet(f, T) \in Int /\ SumFunctionOnSet(g, T) \in Int
    BY <2>1, SumType
  <2> QED BY <1>2, <2>2, <2>3
<1> HIDE DEF G
<1>3. S \in G
  BY <1>1, <1>2, ElementInduction
<1> QED BY <1>3 DEF G

(* Naturals add up to a natural that is at least each of them, and at least *)
(* the sum of any part of them.                                             *)
LEMMA SumNat ==
  ASSUME NEW S, IsFiniteSet(S), NEW f, \A x \in S : f[x] \in Nat
  PROVE  /\ SumFunctionOnSet(f, S) \in Nat
         /\ \A x \in S : f[x] <= SumFunctionOnSet(f, S)
<1> DEFINE G == {T \in SUBSET S : SumFunctionOnSet(f, T) \in Nat}
<1>1. {} \in G
  BY SumEmpty
<1>2. ASSUME NEW T \in SUBSET S, NEW x \in S \ T, T \in G
      PROVE  T \cup {x} \in G
  <2>1. IsFiniteSet(T)
    BY FS_Subset
  <2>2. SumFunctionOnSet(f, T \cup {x}) = f[x] + SumFunctionOnSet(f, T)
    BY <2>1, SumInsert
  <2> QED BY <1>2, <2>2
<1> HIDE DEF G
<1>3. \A T \in SUBSET S : T \in G
  BY <1>1, <1>2, ElementInduction
<1>4. \A T \in SUBSET S : SumFunctionOnSet(f, T) \in Nat
  BY <1>3 DEF G
<1>5. ASSUME NEW x \in S PROVE f[x] <= SumFunctionOnSet(f, S)
  <2>1. SumFunctionOnSet(f, S) = f[x] + SumFunctionOnSet(f, S \ {x})
    BY SumElement
  <2>2. SumFunctionOnSet(f, S \ {x}) \in Nat
    BY <1>4
  <2> QED BY <2>1, <2>2
<1> QED BY <1>4, <1>5

(* Term by term less or equal, so are the sums.                             *)
LEMMA SumMonotone ==
  ASSUME NEW S, IsFiniteSet(S), NEW f, NEW g,
         \A x \in S : f[x] \in Int /\ g[x] \in Int /\ f[x] <= g[x]
  PROVE  SumFunctionOnSet(f, S) <= SumFunctionOnSet(g, S)
<1> DEFINE h == [x \in S |-> g[x] - f[x]]
<1>1. \A x \in S : h[x] \in Nat /\ g[x] = f[x] + h[x]
  OBVIOUS
<1> HIDE DEF h
<1>2. SumFunctionOnSet(g, S) = SumFunctionOnSet(f, S) + SumFunctionOnSet(h, S)
  BY <1>1, SumOfSums
<1>3. SumFunctionOnSet(h, S) \in Nat
  BY <1>1, SumNat
<1>4. SumFunctionOnSet(f, S) \in Int
  BY SumType
<1> QED BY <1>2, <1>3, <1>4

(* A sum of noughts.                                                        *)
LEMMA SumZero ==
  ASSUME NEW S, IsFiniteSet(S), NEW f, \A x \in S : f[x] = 0
  PROVE  SumFunctionOnSet(f, S) = 0
<1> DEFINE G == {T \in SUBSET S : SumFunctionOnSet(f, T) = 0}
<1>1. {} \in G
  BY SumEmpty
<1>2. ASSUME NEW T \in SUBSET S, NEW x \in S \ T, T \in G
      PROVE  T \cup {x} \in G
  <2>1. IsFiniteSet(T)
    BY FS_Subset
  <2>2. SumFunctionOnSet(f, T \cup {x}) = f[x] + SumFunctionOnSet(f, T)
    BY <2>1, SumInsert
  <2> QED BY <1>2, <2>2
<1> HIDE DEF G
<1>3. S \in G
  BY <1>1, <1>2, ElementInduction
<1> QED BY <1>3 DEF G

(* Elements that count for nothing may be added to the set.                 *)
LEMMA SumZeroPart ==
  ASSUME NEW S, IsFiniteSet(S), NEW R, IsFiniteSet(R), NEW f,
         \A x \in S : f[x] \in Int, \A x \in R : f[x] = 0
  PROVE  SumFunctionOnSet(f, S \cup R) = SumFunctionOnSet(f, S)
<1> DEFINE G == {T \in SUBSET R : SumFunctionOnSet(f, S \cup T) = SumFunctionOnSet(f, S)}
<1>1. {} \in G
  <2>1. S \cup {} = S
    OBVIOUS
  <2> QED BY <2>1
<1>2. ASSUME NEW T \in SUBSET R, NEW x \in R \ T, T \in G
      PROVE  T \cup {x} \in G
  <2> DEFINE U == S \cup T
  <2>1. IsFiniteSet(T)
    BY FS_Subset
  <2>2. IsFiniteSet(U) /\ (\A y \in U : f[y] \in Int) /\ f[x] = 0
    <3>1. IsFiniteSet(U)
      BY <2>1, FS_Union
    <3>2. \A y \in U : f[y] \in Int
      OBVIOUS
    <3> QED BY <3>1, <3>2
  <2>3. S \cup (T \cup {x}) = U \cup {x}
    OBVIOUS
  <2>4. SumFunctionOnSet(f, U) = SumFunctionOnSet(f, S) /\ SumFunctionOnSet(f, S) \in Int
    BY <1>2, SumType
  <2>5. SumFunctionOnSet(f, U \cup {x}) = SumFunctionOnSet(f, U)
    <3> HIDE DEF U
    <3>1. CASE x \in U
      <4>1. U \cup {x} = U
        BY <3>1
      <4> QED BY <4>1
    <3>2. CASE x \notin U
      <4>1. SumFunctionOnSet(f, U \cup {x}) = f[x] + SumFunctionOnSet(f, U)
        BY <2>2, <3>2, SumInsert
      <4>2. SumFunctionOnSet(f, U) \in Int
        BY <2>2, SumType
      <4> QED BY <2>2, <4>1, <4>2
    <3> QED BY <3>1, <3>2
  <2>6. SumFunctionOnSet(f, S \cup (T \cup {x})) = SumFunctionOnSet(f, S)
    BY <2>3, <2>4, <2>5
  <2> QED BY <2>6
<1> HIDE DEF G
<1>3. R \in G
  BY <1>1, <1>2, ElementInduction
<1> QED BY <1>3 DEF G

(* Summands may be numbered otherwise.                                      *)
LEMMA SumRenamed ==
  ASSUME NEW S, IsFiniteSet(S), NEW R, IsFiniteSet(R), NEW h \in [S -> R],
         \A x, y \in S : h[x] = h[y] => x = y,
         NEW f, NEW g, \A x \in S : f[h[x]] \in Int /\ g[x] = f[h[x]]
  PROVE  SumFunctionOnSet(g, S) = SumFunctionOnSet(f, {h[x] : x \in S})
<1> DEFINE Im(T) == {h[x] : x \in T}
           G == {T \in SUBSET S : SumFunctionOnSet(g, T) = SumFunctionOnSet(f, Im(T))}
<1>1. {} \in G
  <2>1. Im({}) = {}
    OBVIOUS
  <2> QED BY <2>1, SumEmpty
<1>2. ASSUME NEW T \in SUBSET S, NEW x \in S \ T, T \in G
      PROVE  T \cup {x} \in G
  <2>1. IsFiniteSet(T) /\ IsFiniteSet(Im(T))
    <3>1. Im(T) \in SUBSET R
      OBVIOUS
    <3> HIDE DEF Im
    <3> QED BY <3>1, FS_Subset
  <2>2. /\ Im(T \cup {x}) = Im(T) \cup {h[x]}
        /\ h[x] \notin Im(T)
        /\ \A y \in Im(T) : f[y] \in Int
    OBVIOUS
  <2>3. SumFunctionOnSet(g, T) = SumFunctionOnSet(f, Im(T))
    BY <1>2
  <2> HIDE DEF Im
  <2>4. SumFunctionOnSet(g, T \cup {x}) = g[x] + SumFunctionOnSet(g, T)
    <3>1. \A y \in T : g[y] \in Int
      OBVIOUS
    <3> QED BY <2>1, <3>1, SumInsert
  <2>5. SumFunctionOnSet(f, Im(T) \cup {h[x]}) = f[h[x]] + SumFunctionOnSet(f, Im(T))
    BY <2>1, <2>2, SumInsert
  <2>6. SumFunctionOnSet(g, T \cup {x}) = SumFunctionOnSet(f, Im(T \cup {x}))
    BY <2>2, <2>3, <2>4, <2>5
  <2> QED BY <2>6
<1> HIDE DEF G, Im
<1>3. S \in G
  BY <1>1, <1>2, ElementInduction
<1> QED BY <1>3 DEF G, Im
=============================================================================
