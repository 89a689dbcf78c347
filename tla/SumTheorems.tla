------------------------------ MODULE SumTheorems ------------------------------
(***************************************************************************)
(* What sums over finite sets come to when an element is added or its      *)
(* value changes: the arithmetic of stock.                                 *)
(***************************************************************************)
EXTENDS FiniteSetsExt, FiniteSetTheorems, TLAPS

Pick(s) == CHOOSE x \in s : TRUE

\* g is the sum of f over each subset of S, adding the elements as the fold does.
Adds(g, f, S) ==
  g = [s \in SUBSET S |-> IF s = {} THEN 0 ELSE f[Pick(s)] + g[s \ {Pick(s)}]]

\* Without a subset that is a least one to fail, every subset is as it should be.
LEMMA SubsetInduction ==
  ASSUME NEW S, IsFiniteSet(S), NEW Good,
         \A T \in SUBSET S : (\A U \in SUBSET T : U # T => U \in Good) => T \in Good
  PROVE  S \in Good
<1> DEFINE Bad == {T \in SUBSET S : T \notin Good}
<1>1. SUFFICES ASSUME Bad # {} PROVE FALSE
  OBVIOUS
<1>2. IsWellFoundedOn(StrictSubsetOrdering(S), SUBSET S)
  BY FS_StrictSubsetOrderingWellFounded, FS_FiniteSubsetsOfFinite
<1>3. PICK T \in Bad : \A U \in Bad : <<U, T>> \notin StrictSubsetOrdering(S)
  <2> HIDE DEF Bad
  <2>1. Bad \subseteq SUBSET S
    BY DEF Bad
  <2> QED
    BY <1>1, <1>2, <2>1, WFMin
<1>4. \A U \in SUBSET T : U # T => U \in Good
  BY <1>3 DEF StrictSubsetOrdering
<1> QED
  BY <1>4

LEMMA AddsUnique ==
  ASSUME NEW S, IsFiniteSet(S), NEW f, NEW U, NEW g, NEW h, Adds(g, f, S), Adds(h, f, U),
         NEW s \in SUBSET S, s \subseteq U
  PROVE  g[s] = h[s]
<1> DEFINE Good == {t \in SUBSET S : t \subseteq U => g[t] = h[t]}
<1>1. ASSUME NEW T \in SUBSET s, \A t \in SUBSET T : t # T => t \in Good
      PROVE  T \in Good
  <2>1. T \in SUBSET S /\ T \in SUBSET U
    OBVIOUS
  <2>2. CASE T = {}
    BY <2>1, <2>2 DEF Adds
  <2>3. CASE T # {}
    <3>1. Pick(T) \in T
      BY <2>3 DEF Pick
    <3>2. g[T \ {Pick(T)}] = h[T \ {Pick(T)}]
      BY <1>1, <2>1, <3>1
    <3> QED
      BY <2>1, <2>3, <3>2 DEF Adds
  <2> QED
    BY <2>2, <2>3
<1>2. IsFiniteSet(s)
  BY FS_Subset
<1> HIDE DEF Good
<1>3. s \in Good
  BY <1>1, <1>2, SubsetInduction
<1> QED
  BY <1>3 DEF Good

LEMMA AddsExists ==
  ASSUME NEW S, IsFiniteSet(S), NEW f
  PROVE  \E g : Adds(g, f, S)
<1> DEFINE Good == {T \in SUBSET S : \E g : Adds(g, f, T)}
<1>1. ASSUME NEW T \in SUBSET S, \A U \in SUBSET T : U # T => U \in Good
      PROVE  T \in Good
  <2> DEFINE below(U) == CHOOSE g : Adds(g, f, U)
             rest == T \ {Pick(T)}
             total(s) == IF s = {} THEN 0
                         ELSE IF s = T THEN f[Pick(T)] + below(rest)[rest]
                         ELSE below(s)[s]
             g == [s \in SUBSET T |-> total(s)]
  <2>1. \A U \in SUBSET T : U # T => Adds(below(U), f, U)
    BY <1>1
  <2>2. ASSUME NEW s \in SUBSET T
        PROVE  total(s) = IF s = {} THEN 0 ELSE f[Pick(s)] + total(s \ {Pick(s)})
    <3> DEFINE t == s \ {Pick(s)}
    <3>1. CASE s = {}
      BY <3>1
    <3>2. CASE s # {}
      <4>1. Pick(s) \in s
        BY <3>2 DEF Pick
      <4>2. t # T /\ t \in SUBSET T
        BY <4>1
      <4>3. total(t) = below(t)[t]
        <5>1. Adds(below(t), f, t)
          BY <2>1, <4>2
        <5>2. t = {} => below(t)[t] = 0
          <6> HIDE DEF t, below
          <6> QED
            BY <5>1 DEF Adds
        <5> HIDE DEF t, below
        <5> QED
          BY <4>2, <5>2
      <4>4. CASE s = T
        BY <3>2, <4>3, <4>4
      <4>5. CASE s # T
        <5>1. Adds(below(s), f, s) /\ Adds(below(t), f, t)
          BY <2>1, <4>2, <4>5
        <5>2. IsFiniteSet(s)
          BY FS_Subset
        <5> HIDE DEF t, below
        <5>3. t \subseteq s
          BY DEF t
        <5>4. below(s)[t] = below(t)[t]
          BY <5>1, <5>2, <5>3, AddsUnique
        <5>5. below(s)[s] = f[Pick(s)] + below(s)[t]
          BY <3>2, <5>1 DEF Adds, t
        <5> QED
          BY <3>2, <4>3, <4>5, <5>4, <5>5 DEF t
      <4> QED
        BY <4>4, <4>5
    <3> QED
      BY <3>1, <3>2
  <2> HIDE DEF total
  <2>3. Adds(g, f, T)
    <3>1. \A s \in SUBSET T : s \ {Pick(s)} \in SUBSET T
      OBVIOUS
    <3> QED
      BY <2>2, <3>1 DEF Adds
  <2> QED
    BY <2>3
<1> HIDE DEF Good
<1>2. S \in Good
  BY <1>1, SubsetInduction
<1> QED
  BY <1>2 DEF Good

Sum(f, S) == SumFunctionOnSet(f, S)

LEMMA SumIs ==
  ASSUME NEW S, IsFiniteSet(S), NEW f, NEW g, Adds(g, f, S)
  PROVE  Sum(f, S) = g[S]
<1> DEFINE iter == CHOOSE h : Adds(h, f, S)
<1>1. Sum(f, S) = iter[S]
  BY DEF Sum, SumFunctionOnSet, FoldFunctionOnSet, MapThenFoldSet, Adds, Pick
<1>2. Adds(iter, f, S)
  OBVIOUS
<1> HIDE DEF iter
<1> QED
  BY <1>1, <1>2, AddsUnique

\* The function of the fold, for a sum of integers or of naturals.
LEMMA AddsType ==
  ASSUME NEW S, IsFiniteSet(S), NEW V \in {Int, Nat}, NEW f, \A x \in S : f[x] \in V,
         NEW g, Adds(g, f, S)
  PROVE  \A T \in SUBSET S : g[T] \in V
<1> DEFINE Good == {T \in SUBSET S : g[T] \in V}
<1>1. ASSUME NEW W \in SUBSET S PROVE g[W] \in V
  <2>1. ASSUME NEW T \in SUBSET W, \A U \in SUBSET T : U # T => U \in Good
        PROVE  T \in Good
    <3>1. CASE T = {}
      BY <3>1 DEF Adds
    <3>2. CASE T # {}
      <4>1. Pick(T) \in T
        BY <3>2 DEF Pick
      <4>2. g[T \ {Pick(T)}] \in V /\ f[Pick(T)] \in V
        BY <2>1, <4>1
      <4>3. g[T] = f[Pick(T)] + g[T \ {Pick(T)}]
        BY <3>2 DEF Adds
      <4> QED
        BY <4>2, <4>3
    <3> QED
      BY <3>1, <3>2
  <2>2. IsFiniteSet(W)
    BY FS_Subset
  <2> HIDE DEF Good
  <2>3. W \in Good
    BY <2>1, <2>2, SubsetInduction
  <2> QED
    BY <2>3 DEF Good
<1> QED
  BY <1>1

\* Any element may be added last.
LEMMA AddsAny ==
  ASSUME NEW S, IsFiniteSet(S), NEW f, \A x \in S : f[x] \in Int, NEW g, Adds(g, f, S)
  PROVE  \A x \in S : g[S] = f[x] + g[S \ {x}]
<1> DEFINE Good == {T \in SUBSET S : \A x \in T : g[T] = f[x] + g[T \ {x}]}
<1>1. ASSUME NEW T \in SUBSET S, \A U \in SUBSET T : U # T => U \in Good,
             NEW x \in T
      PROVE  g[T] = f[x] + g[T \ {x}]
  <2> DEFINE p == Pick(T)
  <2>1. p \in T
    BY DEF Pick
  <2>2. g[T] = f[p] + g[T \ {p}]
    BY DEF Adds
  <2> HIDE DEF p
  <2>3. CASE x = p
    BY <2>2, <2>3
  <2>4. CASE x # p
    <3>1. g[T \ {p}] = f[x] + g[(T \ {p}) \ {x}]
      BY <1>1, <2>1, <2>4
    <3>2. g[T \ {x}] = f[p] + g[(T \ {x}) \ {p}]
      BY <1>1, <2>1, <2>4
    <3>3. g[(T \ {p}) \ {x}] = g[(T \ {x}) \ {p}]
      <4>1. (T \ {p}) \ {x} = (T \ {x}) \ {p}
        OBVIOUS
      <4> QED
        BY <4>1, Zenon
    <3>4. g[(T \ {x}) \ {p}] \in Int /\ f[p] \in Int /\ f[x] \in Int
      <4>1. (T \ {x}) \ {p} \in SUBSET S
        OBVIOUS
      <4> QED
        BY <2>1, <4>1, AddsType
    <3> QED
      BY <2>2, <3>1, <3>2, <3>3, <3>4
  <2> QED
    BY <2>3, <2>4
<1>2. \A T \in SUBSET S : (\A U \in SUBSET T : U # T => U \in Good) => T \in Good
  BY <1>1
<1> HIDE DEF Good
<1>3. S \in Good
  BY <1>2, SubsetInduction
<1> QED
  BY <1>3 DEF Good

\* The fold over S and the fold over a part of it.
LEMMA SumOfPart ==
  ASSUME NEW S, IsFiniteSet(S), NEW f, NEW g, Adds(g, f, S), NEW T \in SUBSET S
  PROVE  Sum(f, T) = g[T]
<1>1. IsFiniteSet(T)
  BY FS_Subset
<1>2. PICK h : Adds(h, f, T)
  BY <1>1, AddsExists
<1> QED
  BY <1>1, <1>2, SumIs, AddsUnique

-----------------------------------------------------------------------------
(* Sums *)

LEMMA SumEmpty == ASSUME NEW f PROVE Sum(f, {}) = 0
<1>1. IsFiniteSet({})
  BY FS_EmptySet
<1>2. PICK g : Adds(g, f, {})
  BY <1>1, AddsExists
<1> QED
  BY <1>1, <1>2, SumIs DEF Adds

LEMMA SumTypeOf ==
  ASSUME NEW S, IsFiniteSet(S), NEW V \in {Int, Nat}, NEW f, \A x \in S : f[x] \in V
  PROVE  Sum(f, S) \in V
<1>1. PICK g : Adds(g, f, S)
  BY AddsExists
<1> QED
  BY <1>1, SumIs, AddsType

LEMMA SumType ==
  ASSUME NEW S, IsFiniteSet(S), NEW f, \A x \in S : f[x] \in Int
  PROVE  Sum(f, S) \in Int
BY SumTypeOf

LEMMA SumNat ==
  ASSUME NEW S, IsFiniteSet(S), NEW f, \A x \in S : f[x] \in Nat
  PROVE  Sum(f, S) \in Nat
BY SumTypeOf

LEMMA SumAdd ==
  ASSUME NEW S, IsFiniteSet(S), NEW f, \A y \in S : f[y] \in Int, NEW x \in S
  PROVE  Sum(f, S) = f[x] + Sum(f, S \ {x})
<1>1. PICK g : Adds(g, f, S)
  BY AddsExists
<1>2. Sum(f, S) = g[S] /\ Sum(f, S \ {x}) = g[S \ {x}]
  BY <1>1, SumOfPart
<1>3. g[S] = f[x] + g[S \ {x}]
  BY <1>1, AddsAny
<1> QED
  BY <1>2, <1>3, Zenon

\* Only the values on the set matter.
LEMMA SumAgrees ==
  ASSUME NEW S, IsFiniteSet(S), NEW f, NEW h, \A x \in S : f[x] = h[x]
  PROVE  Sum(f, S) = Sum(h, S)
<1>1. PICK g : Adds(g, f, S)
  BY AddsExists
<1>2. Adds(g, h, S)
  <2>1. \A T \in SUBSET S : T # {} => Pick(T) \in S
    BY DEF Pick
  <2>2. \A T \in SUBSET S : (IF T = {} THEN 0 ELSE f[Pick(T)] + g[T \ {Pick(T)}])
                          = (IF T = {} THEN 0 ELSE h[Pick(T)] + g[T \ {Pick(T)}])
    BY <2>1
  <2> QED
    BY <1>1, <2>2 DEF Adds
<1> QED
  BY <1>1, <1>2, SumIs

\* What one element brings to a sum.
Brings(f, S, x) == IF x \in S THEN f[x] ELSE 0

\* Two sets that differ in x, at most, have sums that differ by what x brings.
LEMMA SumStep ==
  ASSUME NEW S, IsFiniteSet(S), NEW T, NEW x, S \ {x} = T \ {x}, NEW f,
         \A y \in S \cup T : f[y] \in Int
  PROVE  /\ IsFiniteSet(T)
         /\ Sum(f, T) = Sum(f, S) - Brings(f, S, x) + Brings(f, T, x)
<1> DEFINE rest == Sum(f, S \ {x})
<1>1. IsFiniteSet(S \ {x}) /\ IsFiniteSet((S \ {x}) \cup {x})
  BY FS_RemoveElement, FS_AddElement
<1>2. T = S \ {x} \/ T = (S \ {x}) \cup {x}
  OBVIOUS
<1>3. IsFiniteSet(T)
  BY <1>1, <1>2
<1>4. rest \in Int
  BY <1>1, SumType
<1>5. Sum(f, S) = rest + Brings(f, S, x) /\ Brings(f, S, x) \in Int
  <2>1. CASE x \in S
    BY <1>4, <2>1, SumAdd DEF Brings
  <2>2. CASE x \notin S
    <3>1. S \ {x} = S
      BY <2>2
    <3>2. Sum(f, S) = rest
      BY <3>1, Zenon
    <3> HIDE DEF rest
    <3> QED
      BY <1>4, <2>2, <3>2 DEF Brings
  <2> QED
    BY <2>1, <2>2
<1>6. Sum(f, T) = rest + Brings(f, T, x) /\ Brings(f, T, x) \in Int
  <2>1. CASE x \in T
    <3>1. Sum(f, T) = f[x] + Sum(f, T \ {x})
      BY <1>3, <2>1, SumAdd
    <3>2. Sum(f, T \ {x}) = rest
      BY Zenon
    <3> HIDE DEF rest
    <3> QED
      BY <1>4, <2>1, <3>1, <3>2 DEF Brings
  <2>2. CASE x \notin T
    <3>1. T \ {x} = T
      BY <2>2
    <3>2. Sum(f, T) = rest
      BY <3>1, Zenon
    <3> HIDE DEF rest
    <3> QED
      BY <1>4, <2>2, <3>2 DEF Brings
  <2> QED
    BY <2>1, <2>2
<1> HIDE DEF rest
<1> QED
  BY <1>3, <1>4, <1>5, <1>6
=============================================================================
