---------------------------- MODULE SumTheorems -----------------------------
(***************************************************************************)
(* Facts about sets of numbers and the sum of a function over a finite     *)
(* set.                                                                    *)
(***************************************************************************)
EXTENDS Functions, FiniteSetsExt, FiniteSetTheorems, TLAPS

\* The member that a sum over s takes first, and the function on the sets of
\* D that sums f up in this order.
Pick(s) == CHOOSE x \in s : TRUE
IsIter(g, f, D) ==
  g = [s \in D |-> IF s = {} THEN 0 ELSE f[Pick(s)] + g[s \ {Pick(s)}]]

\* Induction over the numbers, for a set P instead of a predicate: if some m
\* were missing, the finite set of all those missing up to m could be mapped
\* one to one into itself without m.
LEMMA NatSets ==
  ASSUME NEW P, 0 \in P, \A n \in Nat : n \in P => n + 1 \in P
  PROVE  Nat \subseteq P
<1> SUFFICES ASSUME NEW m \in Nat, m \notin P PROVE FALSE
  OBVIOUS
<1> DEFINE T == {k \in 0..m : k \notin P}
           f == [k \in T |-> k - 1]
<1>0. m \in T
  OBVIOUS
<1> HIDE DEF T
<1>1. IsFiniteSet(T) /\ Cardinality(T) \in Nat
  <2>1. IsFiniteSet(0..m)
    BY FS_Interval
  <2>2. T \in SUBSET (0..m)
    BY DEF T
  <2>3. IsFiniteSet(T)
    BY <2>1, <2>2, FS_Subset
  <2> QED BY <2>3, FS_CardinalityType
<1>2. IsFiniteSet(T \ {m}) /\ Cardinality(T \ {m}) = Cardinality(T) - 1
  BY <1>0, <1>1, FS_RemoveElement
<1>3. f \in [T -> T \ {m}]
  BY DEF T
<1>4. \A j, k \in T : f[j] = f[k] => j = k
  BY DEF T
<1>5. f \in Injection(T, T \ {m})
  BY <1>3, <1>4 DEF Injection, IsInjective
<1>6. Cardinality(T) <= Cardinality(T \ {m})
  BY <1>2, <1>5, FS_Injection
<1> QED BY <1>1, <1>2, <1>6

\* A set of numbers that is not empty has a least one.
LEMMA MinIsLeast ==
  ASSUME NEW S \in SUBSET Nat, S # {}
  PROVE  Min(S) \in S /\ \A y \in S : Min(S) <= y
<1>1. \E x \in S : \A y \in S : x <= y
  <2> SUFFICES ASSUME \A x \in S : \E y \in S : y < x PROVE FALSE
    OBVIOUS
  <2> DEFINE P == {n \in Nat : \A x \in S : n < x}
  <2>1. 0 \in P
    OBVIOUS
  <2>2. \A n \in Nat : n \in P => n + 1 \in P
    <3> SUFFICES ASSUME NEW n \in Nat, n \in P, NEW x \in S PROVE n + 1 < x
      OBVIOUS
    <3>1. PICK y \in S : y < x
      OBVIOUS
    <3>2. n \in Nat /\ x \in Nat /\ y \in Nat /\ n < y
      OBVIOUS
    <3> HIDE DEF P
    <3> QED BY <3>1, <3>2
  <2>3. Nat \subseteq P
    <3> HIDE DEF P
    <3> QED BY <2>1, <2>2, NatSets
  <2>4. PICK x \in S : TRUE
    OBVIOUS
  <2>5. x \in P
    BY <2>3, <2>4
  <2> QED BY <2>5
<1> QED BY <1>1 DEF Min

\* The library's sum is the one function of that kind, at S.
LEMMA SumUnfolded ==
  ASSUME NEW f, NEW S
  PROVE  SumFunctionOnSet(f, S) = (CHOOSE g : IsIter(g, f, SUBSET S))[S]
BY DEF SumFunctionOnSet, FoldFunctionOnSet, MapThenFoldSet, IsIter, Pick

\* Induction over the subsets of a finite set, for a set of sets P.
LEMMA SubsetInduction ==
  ASSUME NEW S, IsFiniteSet(S), NEW P,
         \A T \in SUBSET S : (\A U \in SUBSET T : U # T => U \in P) => T \in P
  PROVE  SUBSET S \subseteq P
<1> DEFINE Q == {n \in Nat : \A T \in SUBSET S : Cardinality(T) <= n => T \in P}
<1>1. \A T \in SUBSET S : IsFiniteSet(T) /\ Cardinality(T) \in Nat
  BY FS_Subset, FS_CardinalityType
<1>2. ASSUME NEW T \in SUBSET S, NEW U \in SUBSET T, U # T
      PROVE Cardinality(U) < Cardinality(T)
  <2>1. Cardinality(U) <= Cardinality(T) /\ Cardinality(U) # Cardinality(T)
    BY <1>1, <1>2, FS_Subset
  <2>2. U \in SUBSET S
    OBVIOUS
  <2> QED BY <1>1, <2>1, <2>2
<1>3. 0 \in Q
  <2>1. ASSUME NEW T \in SUBSET S, Cardinality(T) <= 0 PROVE T \in P
    <3>1. \A U \in SUBSET T : U # T => Cardinality(U) < 0 /\ Cardinality(U) \in Nat
      <4> SUFFICES ASSUME NEW U \in SUBSET T, U # T
                   PROVE Cardinality(U) < 0 /\ Cardinality(U) \in Nat
        OBVIOUS
      <4>1. U \in SUBSET S
        OBVIOUS
      <4> QED BY <1>1, <1>2, <2>1, <4>1
    <3> QED BY <3>1
  <2> QED BY <2>1
<1>4. ASSUME NEW n \in Nat, n \in Q PROVE n + 1 \in Q
  <2>1. ASSUME NEW T \in SUBSET S, Cardinality(T) <= n + 1 PROVE T \in P
    <3>1. ASSUME NEW U \in SUBSET T, U # T PROVE U \in P
      <4>1. U \in SUBSET S /\ Cardinality(U) < Cardinality(T)
        BY <1>2, <3>1
      <4>2. Cardinality(U) <= n
        BY <1>1, <2>1, <4>1
      <4> QED BY <1>4, <4>1, <4>2
    <3> QED BY <3>1
  <2> QED BY <2>1
<1>5. Nat \subseteq Q
  <2> HIDE DEF Q
  <2> QED BY <1>3, <1>4, NatSets
<1>6. ASSUME NEW T \in SUBSET S PROVE T \in P
  <2>1. Cardinality(T) \in Q /\ Cardinality(T) <= Cardinality(T)
    BY <1>1, <1>5
  <2> QED BY <2>1
<1> QED BY <1>6

\* What is picked is a member.
LEMMA PickIsIn == \A s : s # {} => Pick(s) \in s
BY DEF Pick

\* There is such a function on the subsets of a finite set: it is put together
\* from those on the subsets of at most n members.
LEMMA IterExists ==
  ASSUME NEW S, IsFiniteSet(S), NEW f
  PROVE  \E g : IsIter(g, f, SUBSET S)
<1> DEFINE D(n) == {s \in SUBSET S : Cardinality(s) <= n}
           P == {n \in Nat : \E g : IsIter(g, f, D(n))}
<1>1. \A T \in SUBSET S : IsFiniteSet(T) /\ Cardinality(T) \in Nat
  BY FS_Subset, FS_CardinalityType
<1>2. ASSUME NEW n \in Nat, NEW s \in D(n), s # {}
      PROVE  s \ {Pick(s)} \in SUBSET S /\ n > 0 /\ s \ {Pick(s)} \in D(n - 1)
  <2>1. Cardinality(s \ {Pick(s)}) = Cardinality(s) - 1
    BY <1>1, <1>2, PickIsIn, FS_RemoveElement
  <2>2. s \ {Pick(s)} \in SUBSET S /\ s \in SUBSET S
    OBVIOUS
  <2> QED BY <1>1, <2>1, <2>2
<1>3. 0 \in P
  <2>1. \A s \in D(0) : s = {}
    <3> SUFFICES ASSUME NEW s \in D(0), s # {} PROVE FALSE
      OBVIOUS
    <3> HIDE DEF D
    <3>1. 0 > 0
      BY <1>2
    <3> QED BY <3>1
  <2> DEFINE g == [s \in D(0) |-> 0]
  <2>2. IsIter(g, f, D(0))
    <3>1. [s \in D(0) |-> IF s = {} THEN 0 ELSE f[Pick(s)] + g[s \ {Pick(s)}]] = g
      <4> HIDE DEF D
      <4> QED BY <2>1
    <3> QED BY <3>1 DEF IsIter
  <2> QED BY <2>2
<1>4. ASSUME NEW n \in Nat, n \in P PROVE n + 1 \in P
  <2> PICK g : IsIter(g, f, D(n))
    BY <1>4
  <2> DEFINE Step(s, h) == IF s = {} THEN 0 ELSE f[Pick(s)] + h[s \ {Pick(s)}]
             h == [s \in D(n + 1) |-> Step(s, g)]
  <2>1. \A s \in D(n + 1) : s # {} => s \ {Pick(s)} \in D(n)
    BY <1>2
  <2>2. \A s \in D(n) : s \in D(n + 1) /\ h[s] = g[s]
    <3>1. \A s \in D(n) : s \in D(n + 1)
      BY <1>1
    <3>2. \A s \in D(n) : g[s] = Step(s, g)
      <4> HIDE DEF D
      <4> QED BY DEF IsIter
    <3> HIDE DEF D, Step
    <3> QED BY <3>1, <3>2
  <2>3. \A s \in D(n + 1) : Step(s, g) = Step(s, h)
    <3> HIDE DEF D, h
    <3> QED BY <2>1, <2>2
  <2>4. IsIter(h, f, D(n + 1))
    <3> HIDE DEF D, Step
    <3>1. h = [s \in D(n + 1) |-> Step(s, h)]
      BY <2>3
    <3> HIDE DEF h
    <3> QED BY <3>1 DEF IsIter, Step
  <2> HIDE DEF D, h
  <2> QED BY <2>4
<1>5. Nat \subseteq P
  <2> HIDE DEF P
  <2> QED BY <1>3, <1>4, NatSets
<1>6. Cardinality(S) \in P /\ D(Cardinality(S)) = SUBSET S
  <2>1. \A T \in SUBSET S : Cardinality(T) <= Cardinality(S)
    BY FS_Subset
  <2>2. Cardinality(S) \in P
    BY <1>1, <1>5
  <2> QED BY <2>1, <2>2
<1> QED BY <1>6

\* And there is one only: two agree wherever both are defined.
LEMMA IterUnique ==
  ASSUME NEW S, IsFiniteSet(S), NEW T \in SUBSET S, NEW f, NEW g, NEW h,
         IsIter(g, f, SUBSET S), IsIter(h, f, SUBSET T)
  PROVE  \A s \in SUBSET T : g[s] = h[s]
<1> DEFINE P == {s \in SUBSET T : g[s] = h[s]}
<1>0. IsFiniteSet(T)
  BY FS_Subset
<1>1. ASSUME NEW s \in SUBSET T, \A u \in SUBSET s : u # s => u \in P
      PROVE s \in P
  <2> DEFINE u == s \ {Pick(s)}
  <2>1. /\ g[s] = IF s = {} THEN 0 ELSE f[Pick(s)] + g[u]
        /\ h[s] = IF s = {} THEN 0 ELSE f[Pick(s)] + h[u]
    <3>1. s \in SUBSET S
      OBVIOUS
    <3> QED BY <3>1 DEF IsIter
  <2>2. s # {} => u \in P
    BY <1>1, PickIsIn
  <2> QED BY <2>1, <2>2
<1>2. SUBSET T \subseteq P
  <2> HIDE DEF P
  <2> QED BY <1>0, <1>1, SubsetInduction
<1> QED BY <1>2

\* So that any of them has the sums over all subsets.
LEMMA SumOfIter ==
  ASSUME NEW S, IsFiniteSet(S), NEW T \in SUBSET S, NEW f, NEW g,
         IsIter(g, f, SUBSET S)
  PROVE  SumFunctionOnSet(f, T) = g[T]
<1> DEFINE h == CHOOSE h : IsIter(h, f, SUBSET T)
<1>1. IsFiniteSet(T)
  BY FS_Subset
<1>2. IsIter(h, f, SUBSET T)
  <2>1. \E k : IsIter(k, f, SUBSET T)
    BY <1>1, IterExists
  <2> QED BY <2>1
<1>3. SumFunctionOnSet(f, T) = h[T]
  BY SumUnfolded
<1> HIDE DEF h
<1>4. \A s \in SUBSET T : g[s] = h[s]
  BY <1>2, IterUnique, SMTT(30)
<1> QED BY <1>3, <1>4

\* The sum over the empty set.
THEOREM SumEmpty == \A f : SumFunctionOnSet(f, {}) = 0
<1> SUFFICES ASSUME NEW f PROVE SumFunctionOnSet(f, {}) = 0
  OBVIOUS
<1> PICK g : IsIter(g, f, SUBSET {})
  BY FS_EmptySet, IterExists
<1>1. g[{}] = 0
  BY DEF IsIter
<1> QED BY <1>1, FS_EmptySet, SumOfIter

\* A sum is computed element by element.
LEMMA SumStep ==
  ASSUME NEW S, IsFiniteSet(S), S # {}, NEW f
  PROVE  SumFunctionOnSet(f, S) = f[Pick(S)] + SumFunctionOnSet(f, S \ {Pick(S)})
<1> PICK g : IsIter(g, f, SUBSET S)
  BY IterExists
<1>1. g[S] = f[Pick(S)] + g[S \ {Pick(S)}]
  BY DEF IsIter
<1>2. g[S] = SumFunctionOnSet(f, S)
  BY SumOfIter
<1>3. g[S \ {Pick(S)}] = SumFunctionOnSet(f, S \ {Pick(S)})
  BY SumOfIter
<1> QED BY <1>1, <1>2, <1>3

\* A sum of natural numbers is one.
THEOREM SumType ==
  ASSUME NEW S, IsFiniteSet(S), NEW f, \A x \in S : f[x] \in Nat
  PROVE  SumFunctionOnSet(f, S) \in Nat
<1> DEFINE P == {T \in SUBSET S : SumFunctionOnSet(f, T) \in Nat}
<1>1. ASSUME NEW T \in SUBSET S, \A U \in SUBSET T : U # T => U \in P
      PROVE T \in P
  <2>1. CASE T = {}
    BY <2>1, SumEmpty
  <2>2. CASE T # {}
    <3>1. IsFiniteSet(T) /\ Pick(T) \in T
      BY <2>2, PickIsIn, FS_Subset
    <3>2. T \ {Pick(T)} \in P
      BY <1>1, <3>1
    <3>3. SumFunctionOnSet(f, T) = f[Pick(T)] + SumFunctionOnSet(f, T \ {Pick(T)})
      BY <2>2, <3>1, SumStep
    <3> QED BY <3>1, <3>2, <3>3
  <2> QED BY <2>1, <2>2
<1>2. SUBSET S \subseteq P
  <2> HIDE DEF P
  <2> QED BY <1>1, SubsetInduction
<1> QED BY <1>2

\* Only the values on the set matter.
THEOREM SumSame ==
  ASSUME NEW S, IsFiniteSet(S), NEW f, NEW g, \A x \in S : f[x] = g[x]
  PROVE  SumFunctionOnSet(f, S) = SumFunctionOnSet(g, S)
<1> DEFINE P == {T \in SUBSET S : SumFunctionOnSet(f, T) = SumFunctionOnSet(g, T)}
<1>1. ASSUME NEW T \in SUBSET S, \A U \in SUBSET T : U # T => U \in P
      PROVE T \in P
  <2>1. CASE T = {}
    BY <2>1, SumEmpty
  <2>2. CASE T # {}
    <3>1. IsFiniteSet(T) /\ Pick(T) \in T
      BY <2>2, PickIsIn, FS_Subset
    <3>2. T \ {Pick(T)} \in P
      BY <1>1, <3>1
    <3>3. /\ SumFunctionOnSet(f, T) = f[Pick(T)] + SumFunctionOnSet(f, T \ {Pick(T)})
          /\ SumFunctionOnSet(g, T) = g[Pick(T)] + SumFunctionOnSet(g, T \ {Pick(T)})
      BY <2>2, <3>1, SumStep
    <3> QED BY <3>1, <3>2, <3>3
  <2> QED BY <2>1, <2>2
<1>2. SUBSET S \subseteq P
  <2> HIDE DEF P
  <2> QED BY <1>1, SubsetInduction
<1> QED BY <1>2

\* Any element may be taken out.
THEOREM SumRemove ==
  ASSUME NEW S, IsFiniteSet(S), NEW f, \A x \in S : f[x] \in Nat, NEW y \in S
  PROVE  SumFunctionOnSet(f, S) = f[y] + SumFunctionOnSet(f, S \ {y})
<1> DEFINE Total(T) == SumFunctionOnSet(f, T)
           P == {T \in SUBSET S : \A x \in T : Total(T) = f[x] + Total(T \ {x})}
<1>0. \A T \in SUBSET S : IsFiniteSet(T) /\ Total(T) \in Nat
  BY FS_Subset, SumType
<1>1. ASSUME NEW T \in SUBSET S, \A U \in SUBSET T : U # T => U \in P
      PROVE T \in P
  <2> SUFFICES ASSUME NEW x \in T PROVE Total(T) = f[x] + Total(T \ {x})
    OBVIOUS
  <2> DEFINE p == Pick(T)
  <2>1. p \in T /\ Total(T) = f[p] + Total(T \ {p})
    BY <1>0, PickIsIn, SumStep
  <2>2. CASE x = p
    BY <2>1, <2>2
  <2>3. CASE x # p
    <3> HIDE DEF p
    <3>1. T \ {p} \in P /\ x \in T \ {p}
      BY <1>1, <2>1, <2>3
    <3>2. T \ {x} \in P /\ p \in T \ {x}
      BY <1>1, <2>1, <2>3
    <3>3. (T \ {p}) \ {x} = (T \ {x}) \ {p}
      OBVIOUS
    <3>4. Total(T \ {p}) = f[x] + Total((T \ {x}) \ {p})
      BY <3>1, <3>3
    <3>5. Total(T \ {x}) = f[p] + Total((T \ {x}) \ {p})
      BY <3>2
    <3>6. f[x] \in Nat /\ f[p] \in Nat /\ Total((T \ {x}) \ {p}) \in Nat
      BY <1>0, <2>1
    <3> HIDE DEF Total
    <3> QED BY <2>1, <3>4, <3>5, <3>6
  <2> QED BY <2>2, <2>3
<1>2. SUBSET S \subseteq P
  <2> HIDE DEF P
  <2> QED BY <1>1, SubsetInduction
<1> QED BY <1>2

\* An element is added.
THEOREM SumAdd ==
  ASSUME NEW S, IsFiniteSet(S), NEW f, NEW y, y \notin S, f[y] \in Nat,
         \A x \in S : f[x] \in Nat
  PROVE  SumFunctionOnSet(f, S \cup {y}) = f[y] + SumFunctionOnSet(f, S)
<1>1. IsFiniteSet(S \cup {y}) /\ y \in S \cup {y} /\ (S \cup {y}) \ {y} = S
  BY FS_AddElement
<1> QED BY <1>1, SumRemove

\* One value of the function changes.
THEOREM SumChange ==
  ASSUME NEW S, IsFiniteSet(S), NEW f, NEW g, NEW y \in S,
         \A x \in S : f[x] \in Nat /\ g[x] \in Nat,
         \A x \in S \ {y} : g[x] = f[x]
  PROVE  SumFunctionOnSet(g, S) + f[y] = SumFunctionOnSet(f, S) + g[y]
<1>1. IsFiniteSet(S \ {y})
  BY FS_RemoveElement
<1>2. SumFunctionOnSet(g, S \ {y}) = SumFunctionOnSet(f, S \ {y})
  BY <1>1, SumSame
<1>3. SumFunctionOnSet(g, S \ {y}) \in Nat
  BY <1>1, SumType
<1>4. /\ SumFunctionOnSet(g, S) = g[y] + SumFunctionOnSet(g, S \ {y})
      /\ SumFunctionOnSet(f, S) = f[y] + SumFunctionOnSet(f, S \ {y})
  BY SumRemove
<1> QED BY <1>2, <1>3, <1>4

\* Nothing adds up to nothing.
THEOREM SumZero ==
  ASSUME NEW S, IsFiniteSet(S), NEW f, \A x \in S : f[x] = 0
  PROVE  SumFunctionOnSet(f, S) = 0
<1> DEFINE P == {T \in SUBSET S : SumFunctionOnSet(f, T) = 0}
<1>1. ASSUME NEW T \in SUBSET S, \A U \in SUBSET T : U # T => U \in P
      PROVE T \in P
  <2>1. CASE T = {}
    BY <2>1, SumEmpty
  <2>2. CASE T # {}
    <3>1. IsFiniteSet(T) /\ Pick(T) \in T
      BY <2>2, PickIsIn, FS_Subset
    <3>2. T \ {Pick(T)} \in P
      BY <1>1, <3>1
    <3>3. SumFunctionOnSet(f, T) = f[Pick(T)] + SumFunctionOnSet(f, T \ {Pick(T)})
      BY <2>2, <3>1, SumStep
    <3> QED BY <3>1, <3>2, <3>3
  <2> QED BY <2>1, <2>2
<1>2. SUBSET S \subseteq P
  <2> HIDE DEF P
  <2> QED BY <1>1, SubsetInduction
<1> QED BY <1>2
=============================================================================
