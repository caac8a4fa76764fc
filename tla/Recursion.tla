------------------------------ MODULE Recursion ------------------------------
(****************************************************************************)
(* What a sequence gives when it is folded along chains of predecessors, as  *)
(* a recursive function that can be reasoned about, and what holds of it for *)
(* every start, step and sequence.  With the element before it as the        *)
(* predecessor of each this is FoldLeft of SequencesExt; with the parents in *)
(* a tree it is what the way from the root to a node gives.                  *)
(*                                                                           *)
(* The start and the step are constants of the module: theorems that take an *)
(* operator as a parameter cannot be instantiated by the provers, those of   *)
(* an instance of this module can.                                           *)
(****************************************************************************)
EXTENDS Integers, Sequences, FiniteSetTheorems, SequenceTheorems, TLAPS

CONSTANTS Base,       \* what there is at the beginning of a chain
          Step(_, _)  \* what an element makes of what its predecessor gives

\* The predecessor of each element of s is an element before it, or 0.
Chain(s, before) ==
  LET given[i \in 0 .. Len(s)] == IF i = 0 THEN Base ELSE Step(given[before[i]], s[i])
  IN  given

Line(s) == [i \in 1 .. Len(s) |-> i - 1]
Fold(s) == Chain(s, Line(s))[Len(s)]

-----------------------------------------------------------------------------
(* Induction over the natural numbers, for sets of numbers.                  *)

\* A set of natural numbers that is not empty has a least element: the
\* intervals from 0 to its elements are finite sets, and strict inclusion is
\* well-founded on finite sets.
LEMMA LeastElement ==
  ASSUME NEW T \in SUBSET Nat, T # {}
  PROVE  \E m \in T : \A k \in T : m <= k
<1> DEFINE W == {0 .. k : k \in T}
<1>1. W \in SUBSET FiniteSubsetsOf(Nat)
  <2>1. \A k \in Nat : IsFiniteSet(0 .. k) /\ 0 .. k \subseteq Nat
    BY FS_Interval
  <2> QED BY <2>1 DEF FiniteSubsetsOf
<1>2. W # {}
  <2>1. PICK k \in T : TRUE
    OBVIOUS
  <2>2. 0 .. k \in W
    OBVIOUS
  <2> HIDE DEF W
  <2> QED BY <2>2
<1>3. PICK x \in W : \A y \in W : ~ (<<y, x>> \in StrictSubsetOrdering(Nat))
  <2> HIDE DEF W
  <2> QED BY <1>1, <1>2, WFMin, FS_StrictSubsetOrderingWellFounded
<1>4. PICK m \in T : x = 0 .. m
  OBVIOUS
<1>5. ASSUME NEW k \in T, ~ (m <= k) PROVE FALSE
  <2>1. 0 .. k \subseteq 0 .. m /\ 0 .. k # 0 .. m
    <3>1. m \in 0 .. m /\ m \notin 0 .. k
      BY <1>5
    <3>2. \A i \in 0 .. k : i \in 0 .. m
      BY <1>5
    <3> QED BY <3>1, <3>2
  <2>2. <<0 .. k, 0 .. m>> \in StrictSubsetOrdering(Nat)
    BY <2>1 DEF StrictSubsetOrdering
  <2> QED BY <1>3, <1>4, <2>2
<1> QED BY <1>4, <1>5

\* What all numbers below n belong to, if n does not stop them, all belong to.
LEMMA StrongInduction ==
  ASSUME NEW n \in Nat, NEW S,
         \A i \in 0 .. n : (\A j \in 0 .. n : j < i => j \in S) => i \in S
  PROVE  \A i \in 0 .. n : i \in S
<1> SUFFICES ASSUME NEW b \in 0 .. n, b \notin S PROVE FALSE
  OBVIOUS
<1> DEFINE T == {i \in 0 .. n : i \notin S}
<1>1. PICK m \in T : \A k \in T : m <= k
  <2>1. T \in SUBSET Nat /\ T # {}
    OBVIOUS
  <2> HIDE DEF T
  <2> QED BY <2>1, LeastElement
<1>2. \A j \in 0 .. n : j < m => j \in S
  BY <1>1
<1> QED BY <1>1, <1>2

\* From 0 up to n, one step at a time.
LEMMA StepInduction ==
  ASSUME NEW n \in Nat, NEW S, 0 \in S, \A i \in 1 .. n : i - 1 \in S => i \in S
  PROVE  \A i \in 0 .. n : i \in S
<1>1. ASSUME NEW i \in 0 .. n, \A j \in 0 .. n : j < i => j \in S
      PROVE  i \in S
  <2>1. CASE i = 0
    BY <2>1
  <2>2. CASE i # 0
    <3>1. i \in 1 .. n /\ i - 1 \in 0 .. n /\ i - 1 < i
      BY <2>2
    <3> QED BY <1>1, <3>1
  <2> QED BY <2>1, <2>2
<1> QED BY <1>1, StrongInduction

-----------------------------------------------------------------------------
(* Chains.                                                                   *)

Backward(before, n) == \A i \in 1 .. n : before[i] \in 0 .. i - 1

\* f holds what the first n elements of s give.
GivenUpTo(f, s, before, n) ==
  f = [i \in 0 .. n |-> IF i = 0 THEN Base ELSE Step(f[before[i]], s[i])]

LEMMA GivenStep ==
  ASSUME NEW s, NEW before, NEW n \in Nat, NEW f, GivenUpTo(f, s, before, n)
  PROVE  f[0] = Base /\ \A i \in 1 .. n : f[i] = Step(f[before[i]], s[i])
<1> DEFINE h == [i \in 0 .. n |-> IF i = 0 THEN Base ELSE Step(f[before[i]], s[i])]
<1>1. f = h
  BY DEF GivenUpTo
<1>2. h[0] = Base /\ \A i \in 1 .. n : h[i] = Step(f[before[i]], s[i])
  OBVIOUS
<1> HIDE DEF h
<1> QED BY <1>1, <1>2

\* The recursion is well-founded: there is such an f for every n.
LEMMA GivenExists ==
  ASSUME NEW s, NEW before, NEW n \in Nat, Backward(before, n)
  PROVE  \E f : GivenUpTo(f, s, before, n)
<1> DEFINE S == {i \in 0 .. n : \E f : GivenUpTo(f, s, before, i)}
<1>1. 0 \in S
  <2> DEFINE f == [i \in 0 .. 0 |-> Base]
  <2>1. f = [i \in 0 .. 0 |-> IF i = 0 THEN Base ELSE Step(f[before[i]], s[i])]
    OBVIOUS
  <2>2. GivenUpTo(f, s, before, 0)
    BY <2>1 DEF GivenUpTo
  <2> HIDE DEF f
  <2> QED BY <2>2
<1>2. ASSUME NEW k \in 1 .. n, k - 1 \in S
      PROVE  k \in S
  <2>1. PICK f : GivenUpTo(f, s, before, k - 1)
    BY <1>2
  <2>2. f[0] = Base /\ \A i \in 1 .. k - 1 : f[i] = Step(f[before[i]], s[i])
    BY <2>1, GivenStep
  <2>3. \A i \in 1 .. k : before[i] \in 0 .. i - 1 /\ before[i] \in 0 .. k - 1
    BY DEF Backward
  <2> DEFINE g == [i \in 0 .. k |-> IF i = k THEN Step(f[before[k]], s[k]) ELSE f[i]]
  <2>4. \A i \in 0 .. k : g[i] = IF i = 0 THEN Base ELSE Step(g[before[i]], s[i])
    <3>1. \A i \in 0 .. k - 1 : g[i] = f[i] /\ i \in 0 .. k
      OBVIOUS
    <3>2. g[k] = Step(f[before[k]], s[k]) /\ k # 0 /\ k \in 1 .. k
      OBVIOUS
    <3> HIDE DEF g
    <3>3. ASSUME NEW i \in 0 .. k PROVE g[i] = IF i = 0 THEN Base ELSE Step(g[before[i]], s[i])
      <4>1. CASE i = k
        <5>1. g[before[k]] = f[before[k]]
          BY <2>3, <3>1, <3>2
        <5> QED BY <3>2, <4>1, <5>1
      <4>2. CASE i = 0
        BY <2>2, <3>1, <3>2, <4>2
      <4>3. CASE i # k /\ i # 0
        <5>1. i \in 1 .. k - 1 /\ i \in 0 .. k - 1 /\ i \in 1 .. k
          BY <4>3
        <5>2. g[before[i]] = f[before[i]]
          BY <2>3, <3>1, <5>1
        <5> QED BY <2>2, <3>1, <4>3, <5>1, <5>2
      <4> QED BY <4>1, <4>2, <4>3
    <3> QED BY <3>3
  <2>5. g = [i \in 0 .. k |-> g[i]]
    OBVIOUS
  <2> HIDE DEF g
  <2>6. GivenUpTo(g, s, before, k)
    BY <2>4, <2>5 DEF GivenUpTo
  <2> QED BY <2>6
<1> HIDE DEF S
<1>3. \A i \in 0 .. n : i \in S
  BY <1>1, <1>2, StepInduction
<1> QED BY <1>3 DEF S

LEMMA ChainIsGiven ==
  ASSUME NEW s, Len(s) \in Nat, NEW before, Backward(before, Len(s))
  PROVE  GivenUpTo(Chain(s, before), s, before, Len(s))
BY GivenExists DEF GivenUpTo, Chain

\* The equations of the recursion.
LEMMA ChainStep ==
  ASSUME NEW s, Len(s) \in Nat, NEW before, Backward(before, Len(s))
  PROVE  /\ Chain(s, before)[0] = Base
         /\ \A i \in 1 .. Len(s) :
              Chain(s, before)[i] = Step(Chain(s, before)[before[i]], s[i])
<1>1. PICK f : f = Chain(s, before)
  OBVIOUS
<1>2. GivenUpTo(f, s, before, Len(s))
  BY <1>1, ChainIsGiven
<1>3. f[0] = Base /\ \A i \in 1 .. Len(s) : f[i] = Step(f[before[i]], s[i])
  BY <1>2, GivenStep
<1> QED BY <1>1, <1>3

-----------------------------------------------------------------------------
(* Sequences.                                                                *)

\* f holds what the beginnings of s fold to, up to the first n elements.
FoldsUpTo(f, s, n) == f[0] = Base /\ \A i \in 1 .. n : f[i] = Step(f[i - 1], s[i])

LEMMA FoldIsLast ==
  ASSUME NEW s, Len(s) \in Nat
  PROVE  \E f : FoldsUpTo(f, s, Len(s)) /\ Fold(s) = f[Len(s)]
<1>1. /\ Backward(Line(s), Len(s))
      /\ \A i \in 1 .. Len(s) : Line(s)[i] = i - 1
  BY DEF Backward, Line
<1>2. PICK f : f = Chain(s, Line(s))
  OBVIOUS
<1>3. GivenUpTo(f, s, Line(s), Len(s))
  BY <1>1, <1>2, ChainIsGiven
<1>4. f[0] = Base /\ \A i \in 1 .. Len(s) : f[i] = Step(f[Line(s)[i]], s[i])
  BY <1>3, GivenStep
<1>5. FoldsUpTo(f, s, Len(s))
  BY <1>1, <1>4 DEF FoldsUpTo
<1> QED BY <1>2, <1>5 DEF Fold

\* Sequences that begin with the same m elements fold to the same there.
LEMMA FoldsAgree ==
  ASSUME NEW s, NEW t, NEW n \in Nat, NEW m \in Nat, m <= n,
         \A i \in 1 .. m : s[i] = t[i],
         NEW f, FoldsUpTo(f, s, m), NEW g, FoldsUpTo(g, t, n)
  PROVE  f[m] = g[m]
<1> DEFINE S == {i \in 0 .. m : f[i] = g[i]}
<1>1. f[0] = Base /\ \A i \in 1 .. m : f[i] = Step(f[i - 1], s[i])
  BY DEF FoldsUpTo
<1>2. g[0] = Base /\ \A i \in 1 .. n : g[i] = Step(g[i - 1], t[i])
  BY DEF FoldsUpTo
<1>3. 0 \in S
  BY <1>1, <1>2
<1>4. ASSUME NEW i \in 1 .. m, i - 1 \in S
      PROVE  i \in S
  <2>1. i \in 1 .. n /\ f[i - 1] = g[i - 1] /\ s[i] = t[i]
    BY <1>4
  <2> QED BY <1>1, <1>2, <2>1
<1> HIDE DEF S
<1>5. m \in S
  <2>1. \A i \in 0 .. m : i \in S
    BY <1>3, <1>4, StepInduction
  <2> QED BY <2>1
<1> QED BY <1>5 DEF S

LEMMA FoldEmpty == Fold(<<>>) = Base
<1>1. PICK f : FoldsUpTo(f, <<>>, 0) /\ Fold(<<>>) = f[0]
  BY FoldIsLast
<1> QED BY <1>1 DEF FoldsUpTo

\* One more element is one more step.
LEMMA FoldAppend ==
  ASSUME NEW S, NEW s \in Seq(S), NEW x \in S
  PROVE  Fold(Append(s, x)) = Step(Fold(s), x)
<1> DEFINE n == Len(s)
           t == Append(s, x)
<1>1. n \in Nat /\ Len(t) = n + 1 /\ t[n + 1] = x /\ \A i \in 1 .. n : t[i] = s[i]
  OBVIOUS
<1> HIDE DEF t, n
<1>2. PICK f : FoldsUpTo(f, s, n) /\ Fold(s) = f[n]
  BY <1>1, FoldIsLast DEF n
<1>3. PICK g : FoldsUpTo(g, t, n + 1) /\ Fold(t) = g[n + 1]
  BY <1>1, FoldIsLast
<1>4. n + 1 \in 1 .. n + 1 /\ n + 1 \in Nat /\ n <= n + 1 /\ (n + 1) - 1 = n
  BY <1>1
<1>5. g[n + 1] = Step(g[n], x)
  <2>1. \A i \in 1 .. n + 1 : g[i] = Step(g[i - 1], t[i])
    BY <1>3 DEF FoldsUpTo
  <2> QED BY <1>1, <1>4, <2>1
<1>6. f[n] = g[n]
  BY <1>1, <1>2, <1>3, <1>4, FoldsAgree
<1> QED BY <1>2, <1>3, <1>5, <1>6 DEF t

\* What the start has and every step keeps, the fold has.
LEMMA FoldKeeps ==
  ASSUME NEW S, NEW s \in Seq(S), NEW V, Base \in V,
         \A v \in V : \A x \in S : Step(v, x) \in V
  PROVE  Fold(s) \in V
<1> DEFINE n == Len(s)
<1>1. n \in Nat /\ \A i \in 1 .. n : s[i] \in S
  OBVIOUS
<1> HIDE DEF n
<1>2. PICK f : FoldsUpTo(f, s, n) /\ Fold(s) = f[n]
  BY <1>1, FoldIsLast DEF n
<1>3. f[0] = Base /\ \A i \in 1 .. n : f[i] = Step(f[i - 1], s[i])
  BY <1>2 DEF FoldsUpTo
<1> DEFINE T == {i \in 0 .. n : f[i] \in V}
<1>4. 0 \in T
  BY <1>1, <1>3
<1>5. \A i \in 1 .. n : i - 1 \in T => i \in T
  BY <1>1, <1>3
<1> HIDE DEF T
<1>6. n \in T
  <2>1. \A i \in 0 .. n : i \in T
    BY <1>1, <1>4, <1>5, StepInduction
  <2> QED BY <1>1, <2>1
<1> QED BY <1>2, <1>6 DEF T
=============================================================================
