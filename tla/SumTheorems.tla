------------------------------ MODULE SumTheorems ------------------------------
(***************************************************************************)
(* The sum of a function over a finite set, SumFunctionOnSet of module     *)
(* Functions: what the counters of the slot managers and of the container  *)
(* resource manager are compared with.  The operator is a recursive        *)
(* function on the subsets of its set, so each lemma is an induction on    *)
(* these subsets, by a minimal subset that would refute it.                *)
(***************************************************************************)
EXTENDS Integers, FiniteSets, Functions, FiniteSetTheorems, TLAPS

Chosen(s) == CHOOSE x \in s : TRUE

\* g is the function the sums of f on the subsets of S are defined by.
Solves(g, f, S) ==
    g = [s \in SUBSET S |-> IF s = {} THEN 0 ELSE f[Chosen(s)] + g[s \ {Chosen(s)}]]

SolutionOf(f, S) == CHOOSE g : Solves(g, f, S)

-----------------------------------------------------------------------------
(* Induction. *)

\* A non-empty class of subsets of a finite set has a minimal one.
LEMMA MinimalSubset ==
    ASSUME NEW S, IsFiniteSet(S), NEW C, C \subseteq SUBSET S, C # {}
    PROVE  \E T \in C : \A U \in C : U \subseteq T => U = T
<1>1. IsWellFoundedOn(StrictSubsetOrdering(S), FiniteSubsetsOf(S))
    BY FS_StrictSubsetOrderingWellFounded
<1>2. C \subseteq FiniteSubsetsOf(S)
    BY FS_FiniteSubsetsOfFinite
<1>3. PICK T \in C : \A U \in C : ~(<<U, T>> \in StrictSubsetOrdering(S))
    BY <1>1, <1>2, WFMin
<1>4. ASSUME NEW U \in C, U \subseteq T PROVE U = T
    <2>1. <<U, T>> \in (SUBSET S) \X (SUBSET S)
        OBVIOUS
    <2>2. SUFFICES ASSUME U # T PROVE <<U, T>> \in StrictSubsetOrdering(S)
        BY <1>3
    <2>3. QED BY <1>4, <2>1, <2>2 DEF StrictSubsetOrdering
<1>5. QED BY <1>4

\* A non-empty set of indices has a least one.
LEMMA LeastIndex ==
    ASSUME NEW n \in Nat, NEW C, C \subseteq 1..n, C # {}
    PROVE  \E i \in C : \A j \in C : i <= j
<1> DEFINE D == {1..i : i \in C}
<1>1. PICK T \in D : \A U \in D : U \subseteq T => U = T
    <2>1. IsFiniteSet(1..n)
        BY FS_Interval
    <2>2. \A i \in C : 1..i \subseteq 1..n
        OBVIOUS
    <2>3. D \subseteq SUBSET (1..n) /\ D # {}
        BY <2>2
    <2> DEFINE S == 1..n
    <2>4. IsFiniteSet(S) /\ D \subseteq SUBSET S /\ D # {}
        BY <2>1, <2>3
    <2> HIDE DEF D, S
    <2>5. QED BY <2>4, MinimalSubset
<1>2. PICK i \in C : T = 1..i
    OBVIOUS
<1>3. ASSUME NEW j \in C PROVE i <= j
    <2>1. i \in 1..n /\ j \in 1..n
        OBVIOUS
    <2>2. SUFFICES ASSUME j < i PROVE FALSE
        BY <2>1
    <2>3. 1..j \subseteq 1..i /\ 1..j \in D
        BY <2>1, <2>2
    <2>4. 1..j = 1..i
        BY <1>1, <1>2, <2>3
    <2>5. i \in 1..i /\ i \notin 1..j
        BY <2>1, <2>2
    <2>6. QED BY <2>4, <2>5
<1>4. QED BY <1>3

\* What holds of 0, and of n + 1 whenever of n, holds up to any bound.
LEMMA BoundedInduction ==
    ASSUME NEW n \in Nat, NEW G, 0 \in G, \A i \in 0..n : i < n /\ i \in G => i + 1 \in G
    PROVE  0..n \subseteq G
<1> DEFINE C == {i \in 1..n : i \notin G}
<1>1. SUFFICES ASSUME C # {} PROVE FALSE
    <2>1. SUFFICES ASSUME NEW i \in 0..n, i \notin G PROVE i \in C
        BY <1>1
    <2>2. i # 0
        BY <2>1
    <2>3. QED BY <2>1, <2>2
<1>2. PICK i \in C : \A j \in C : i <= j
    <2>1. C \subseteq 1..n
        OBVIOUS
    <2> HIDE DEF C
    <2>2. QED BY <2>1, <1>1, LeastIndex
<1>3. i - 1 \in 0..n /\ i - 1 < n /\ i - 1 \notin C /\ (i - 1) + 1 = i
    BY <1>2
<1>4. i - 1 \in G
    BY <1>3
<1>5. i \in G
    BY <1>3, <1>4
<1>6. QED BY <1>5

\* A non-empty finite set of numbers has a greatest one.
LEMMA GreatestOfFinite ==
    ASSUME NEW S, IsFiniteSet(S), \A x \in S : x \in Nat, S # {}
    PROVE  \E x \in S : \A y \in S : x >= y
<1> DEFINE C == {T \in SUBSET S : T # {} /\ ~ \E x \in T : \A y \in T : x >= y}
<1>1. SUFFICES ASSUME C # {} PROVE FALSE
  OBVIOUS
<1>2. PICK T \in C : \A U \in C : U \subseteq T => U = T
  <2>1. C \subseteq SUBSET S
    OBVIOUS
  <2> HIDE DEF C
  <2> QED  BY <2>1, <1>1, MinimalSubset
<1>3. PICK z \in T : TRUE
  OBVIOUS
<1>4. T \ {z} \notin C
  BY <1>2, <1>3
<1>5. T \ {z} # {}
  BY <1>3
<1>6. PICK x \in T \ {z} : \A y \in T \ {z} : x >= y
  BY <1>4, <1>5
<1>7. x \in Nat /\ z \in Nat
  BY <1>3, <1>6
<1>8. CASE x >= z
  BY <1>6, <1>7, <1>8
<1>9. CASE z > x
  BY <1>3, <1>6, <1>7, <1>9
<1> QED  BY <1>7, <1>8, <1>9

LEMMA PickIsElement ==
    ASSUME NEW s, s # {}
    PROVE  Chosen(s) \in s /\ s \ {Chosen(s)} \subseteq s /\ s \ {Chosen(s)} # s
BY DEF Chosen

-----------------------------------------------------------------------------
(* The recursion equation has one solution. *)

LEMMA SolutionUnique ==
    ASSUME NEW S, IsFiniteSet(S), NEW f, NEW g, NEW h, Solves(g, f, S), Solves(h, f, S)
    PROVE  g = h
<1> DEFINE C == {s \in SUBSET S : g[s] # h[s]}
<1>1. SUFFICES C = {}
    <2>1. DOMAIN g = SUBSET S /\ DOMAIN h = SUBSET S
        BY DEF Solves
    <2>2. g = [s \in SUBSET S |-> g[s]] /\ h = [s \in SUBSET S |-> h[s]]
        BY DEF Solves
    <2>3. QED BY <2>1, <2>2
<1>2. SUFFICES ASSUME C # {} PROVE FALSE
    OBVIOUS
<1>3. PICK T \in C : \A U \in C : U \subseteq T => U = T
    <2>1. C \subseteq SUBSET S
        OBVIOUS
    <2> HIDE DEF C
    <2>2. QED BY <2>1, <1>2, MinimalSubset
<1>4. T # {}
    BY DEF Solves
<1>5. T \ {Chosen(T)} \notin C /\ T \ {Chosen(T)} \in SUBSET S
    BY <1>3, <1>4, PickIsElement
<1>6. g[T] = f[Chosen(T)] + g[T \ {Chosen(T)}] /\ h[T] = f[Chosen(T)] + h[T \ {Chosen(T)}]
    BY <1>4 DEF Solves
<1>7. QED BY <1>5, <1>6

\* A solution for a set is one for its subsets.
LEMMA SolutionRestricts ==
    ASSUME NEW S, NEW f, NEW g, Solves(g, f, S), NEW T \in SUBSET S
    PROVE  Solves([s \in SUBSET T |-> g[s]], f, T)
<1> DEFINE h == [s \in SUBSET T |-> g[s]]
<1>1. ASSUME NEW s \in SUBSET T
      PROVE  h[s] = IF s = {} THEN 0 ELSE f[Chosen(s)] + h[s \ {Chosen(s)}]
    <2>1. s \in SUBSET S /\ s \ {Chosen(s)} \in SUBSET T
        OBVIOUS
    <2>2. g[s] = IF s = {} THEN 0 ELSE f[Chosen(s)] + g[s \ {Chosen(s)}]
        BY <2>1 DEF Solves
    <2>3. QED BY <2>1, <2>2
<1> HIDE DEF h
<1>2. h = [s \in SUBSET T |-> h[s]]
    BY DEF h
<1>3. h = [s \in SUBSET T |-> IF s = {} THEN 0 ELSE f[Chosen(s)] + h[s \ {Chosen(s)}]]
    BY <1>1, <1>2
<1>4. Solves(h, f, T)
    BY <1>3 DEF Solves
<1>5. QED BY <1>4 DEF h

\* The value a solution has at its own set.
LEMMA SolutionStep ==
    ASSUME NEW S, IsFiniteSet(S), NEW f, S # {}, \E g : Solves(g, f, S)
    PROVE  LET V == S \ {Chosen(S)}
           IN  SolutionOf(f, S)[S] = f[Chosen(S)] + SolutionOf(f, V)[V]
<1> DEFINE V == S \ {Chosen(S)}
           g == SolutionOf(f, S)
           h == [s \in SUBSET V |-> g[s]]
<1>1. Solves(g, f, S)
    BY DEF SolutionOf
<1>2. V \in SUBSET S /\ IsFiniteSet(V) /\ V = S \ {Chosen(S)}
    BY FS_RemoveElement
<1> HIDE DEF g, V
<1>3. Solves(h, f, V)
    BY <1>1, <1>2, SolutionRestricts
<1>4. Solves(SolutionOf(f, V), f, V)
    BY <1>3 DEF SolutionOf
<1>5. h = SolutionOf(f, V)
    BY <1>2, <1>3, <1>4, SolutionUnique
<1>6. g[S] = f[Chosen(S)] + g[V]
    BY <1>1 DEF Solves, V
<1>7. h[V] = g[V]
    OBVIOUS
<1>8. QED BY <1>5, <1>6, <1>7 DEF g, V

LEMMA SolutionExists ==
    ASSUME NEW S, IsFiniteSet(S), NEW f
    PROVE  \E g : Solves(g, f, S)
<1> DEFINE C == {T \in SUBSET S : ~ \E g : Solves(g, f, T)}
<1>1. SUFFICES ASSUME C # {} PROVE FALSE
    OBVIOUS
<1>2. PICK T \in C : \A U \in C : U \subseteq T => U = T
    <2>1. C \subseteq SUBSET S
        OBVIOUS
    <2> HIDE DEF C
    <2>2. QED BY <2>1, <1>1, MinimalSubset
<1> DEFINE At(U) == SolutionOf(f, U)[U]
           g == [s \in SUBSET T |-> IF s = {} THEN 0
                                    ELSE f[Chosen(s)] + At(s \ {Chosen(s)})]
<1>3. ASSUME NEW U \in SUBSET T, U # T PROVE g[U] = At(U)
    <2>1. U \in SUBSET S /\ IsFiniteSet(U) /\ \E h : Solves(h, f, U)
        BY <1>2, <1>3, FS_Subset
    <2>2. CASE U = {}
        <3>1. Solves(SolutionOf(f, U), f, U)
            BY <2>1 DEF SolutionOf
        <3>2. SolutionOf(f, U)[U] = 0
            BY <3>1, <2>2 DEF Solves
        <3>3. QED BY <3>2, <2>2
    <2>3. CASE U # {}
        BY <2>1, <2>3, SolutionStep
    <2>4. QED BY <2>2, <2>3
<1>4. ASSUME NEW s \in SUBSET T
      PROVE  g[s] = IF s = {} THEN 0 ELSE f[Chosen(s)] + g[s \ {Chosen(s)}]
    <2>1. CASE s # {}
        <3>1. s \ {Chosen(s)} \in SUBSET T /\ s \ {Chosen(s)} # T
            BY <2>1, PickIsElement
        <3>2. g[s \ {Chosen(s)}] = At(s \ {Chosen(s)})
            BY <3>1, <1>3
        <3>3. g[s] = f[Chosen(s)] + At(s \ {Chosen(s)})
            BY <2>1
        <3>4. QED BY <2>1, <3>2, <3>3
    <2>2. QED BY <2>1
<1>5. g = [s \in SUBSET T |-> g[s]]
    OBVIOUS
<1> HIDE DEF g
<1>6. g = [s \in SUBSET T |-> IF s = {} THEN 0 ELSE f[Chosen(s)] + g[s \ {Chosen(s)}]]
    BY <1>4, <1>5
<1>7. Solves(g, f, T)
    BY <1>6 DEF Solves
<1>8. QED BY <1>7, <1>2

-----------------------------------------------------------------------------
(* Sums. *)

LEMMA SumIsSolution ==
    ASSUME NEW f, NEW S
    PROVE  SumFunctionOnSet(f, S) = SolutionOf(f, S)[S]
BY DEF SumFunctionOnSet, FoldFunctionOnSet, MapThenFoldSet, SolutionOf, Solves, Chosen

LEMMA SumEmpty ==
    ASSUME NEW f
    PROVE  SumFunctionOnSet(f, {}) = 0
<1>1. Solves(SolutionOf(f, {}), f, {})
    BY FS_EmptySet, SolutionExists DEF SolutionOf
<1>2. SolutionOf(f, {})[{}] = 0
    BY <1>1 DEF Solves
<1>3. QED BY <1>2, SumIsSolution

LEMMA SumPick ==
    ASSUME NEW f, NEW S, IsFiniteSet(S), S # {}
    PROVE  SumFunctionOnSet(f, S) = f[Chosen(S)] + SumFunctionOnSet(f, S \ {Chosen(S)})
BY SumIsSolution, SolutionExists, SolutionStep

LEMMA SumInt ==
    ASSUME NEW f, NEW S, IsFiniteSet(S), \A x \in S : f[x] \in Int
    PROVE  SumFunctionOnSet(f, S) \in Int
<1> DEFINE C == {T \in SUBSET S : SumFunctionOnSet(f, T) \notin Int}
<1>1. SUFFICES ASSUME C # {} PROVE FALSE
    OBVIOUS
<1>2. PICK T \in C : \A U \in C : U \subseteq T => U = T
    <2>1. C \subseteq SUBSET S
        OBVIOUS
    <2> HIDE DEF C
    <2>2. QED BY <2>1, <1>1, MinimalSubset
<1>3. T # {} /\ IsFiniteSet(T)
    <2>1. T # {}
        <3>1. SumFunctionOnSet(f, {}) = 0
            BY SumEmpty
        <3>2. QED BY <3>1
    <2>2. QED BY <2>1, FS_Subset
<1>4. Chosen(T) \in S /\ SumFunctionOnSet(f, T \ {Chosen(T)}) \in Int
    BY <1>2, <1>3, PickIsElement
<1>5. QED BY <1>3, <1>4, SumPick

LEMMA SumNat ==
    ASSUME NEW f, NEW S, IsFiniteSet(S), \A x \in S : f[x] \in Nat
    PROVE  SumFunctionOnSet(f, S) \in Nat
<1> DEFINE C == {T \in SUBSET S : ~(SumFunctionOnSet(f, T) \in Nat)}
<1>1. SUFFICES ASSUME C # {} PROVE FALSE
    OBVIOUS
<1>2. PICK T \in C : \A U \in C : U \subseteq T => U = T
    <2>1. C \subseteq SUBSET S
        OBVIOUS
    <2> HIDE DEF C
    <2>2. QED BY <2>1, <1>1, MinimalSubset
<1>3. T # {} /\ IsFiniteSet(T)
    <2>1. T # {}
        <3>1. SumFunctionOnSet(f, {}) = 0
            BY SumEmpty
        <3>2. QED BY <3>1
    <2>2. QED BY <2>1, FS_Subset
<1>4. Chosen(T) \in S /\ SumFunctionOnSet(f, T \ {Chosen(T)}) \in Nat
    BY <1>2, <1>3, PickIsElement
<1>5. QED BY <1>3, <1>4, SumPick

\* Any element of the set may be counted first.
LEMMA SumRemove ==
    ASSUME NEW f, NEW S, IsFiniteSet(S), \A x \in S : f[x] \in Int, NEW y \in S
    PROVE  SumFunctionOnSet(f, S) = f[y] + SumFunctionOnSet(f, S \ {y})
<1> DEFINE Sum(s) == SumFunctionOnSet(f, s)
           C == {T \in SUBSET S : \E x \in T : Sum(T) # f[x] + Sum(T \ {x})}
<1>1. SUFFICES ASSUME C # {} PROVE FALSE
    OBVIOUS
<1>2. PICK T \in C : \A U \in C : U \subseteq T => U = T
    <2>1. C \subseteq SUBSET S
        OBVIOUS
    <2> HIDE DEF C
    <2>2. QED BY <2>1, <1>1, MinimalSubset
<1>3. PICK x \in T : Sum(T) # f[x] + Sum(T \ {x})
    OBVIOUS
<1>4. IsFiniteSet(T) /\ T # {}
    BY FS_Subset
<1>5. PICK p : p = Chosen(T)
    OBVIOUS
<1>6. p \in T /\ Sum(T) = f[p] + Sum(T \ {p})
    BY <1>4, <1>5, SumPick, PickIsElement
<1>7. p # x
    BY <1>3, <1>6
<1>8. T \ {p} \notin C /\ T \ {x} \notin C
    BY <1>2, <1>6
<1>9. Sum(T \ {p}) = f[x] + Sum((T \ {p}) \ {x})
    BY <1>6, <1>7, <1>8
<1>10. Sum(T \ {x}) = f[p] + Sum((T \ {x}) \ {p})
    BY <1>6, <1>7, <1>8
<1>11. Sum((T \ {p}) \ {x}) = Sum((T \ {x}) \ {p})
    <2>1. (T \ {p}) \ {x} = (T \ {x}) \ {p}
        OBVIOUS
    <2>2. QED BY <2>1
<1>12. f[x] \in Int /\ f[p] \in Int /\ Sum((T \ {x}) \ {p}) \in Int
    <2>1. IsFiniteSet((T \ {x}) \ {p})
        BY <1>4, FS_RemoveElement
    <2>2. QED BY <2>1, <1>6, SumInt
<1>13. Sum(T) = f[x] + Sum(T \ {x})
    BY <1>6, <1>9, <1>10, <1>11, <1>12
<1>14. QED BY <1>3, <1>13

LEMMA SumAdd ==
    ASSUME NEW f, NEW S, IsFiniteSet(S), NEW y, y \notin S,
           \A x \in S \cup {y} : f[x] \in Int
    PROVE  SumFunctionOnSet(f, S \cup {y}) = f[y] + SumFunctionOnSet(f, S)
<1>1. IsFiniteSet(S \cup {y})
    BY FS_AddElement
<1>2. (S \cup {y}) \ {y} = S
    OBVIOUS
<1>3. QED BY <1>1, <1>2, SumRemove

LEMMA SumAgrees ==
    ASSUME NEW f, NEW g, NEW S, IsFiniteSet(S),
           \A x \in S : f[x] \in Int, \A x \in S : g[x] = f[x]
    PROVE  SumFunctionOnSet(g, S) = SumFunctionOnSet(f, S)
<1> DEFINE C == {T \in SUBSET S : SumFunctionOnSet(g, T) # SumFunctionOnSet(f, T)}
<1>1. SUFFICES ASSUME C # {} PROVE FALSE
    OBVIOUS
<1>2. PICK T \in C : \A U \in C : U \subseteq T => U = T
    <2>1. C \subseteq SUBSET S
        OBVIOUS
    <2> HIDE DEF C
    <2>2. QED BY <2>1, <1>1, MinimalSubset
<1>3. T # {} /\ IsFiniteSet(T)
    BY SumEmpty, FS_Subset
<1>4. Chosen(T) \in S
      /\ SumFunctionOnSet(g, T \ {Chosen(T)}) = SumFunctionOnSet(f, T \ {Chosen(T)})
    BY <1>2, <1>3, PickIsElement
<1>5. QED BY <1>3, <1>4, SumPick

\* Only the value at y changes.
LEMMA SumChange ==
    ASSUME NEW f, NEW g, NEW S, IsFiniteSet(S), NEW y \in S, g[y] \in Int,
           \A x \in S : f[x] \in Int, \A x \in S \ {y} : g[x] = f[x]
    PROVE  SumFunctionOnSet(g, S) = SumFunctionOnSet(f, S) - f[y] + g[y]
<1>1. IsFiniteSet(S \ {y}) /\ \A x \in S : g[x] \in Int
    BY FS_RemoveElement
<1>2. SumFunctionOnSet(g, S \ {y}) = SumFunctionOnSet(f, S \ {y})
    BY <1>1, SumAgrees
<1>3. SumFunctionOnSet(f, S) = f[y] + SumFunctionOnSet(f, S \ {y})
    BY SumRemove
<1>4. SumFunctionOnSet(g, S) = g[y] + SumFunctionOnSet(g, S \ {y})
    BY <1>1, SumRemove
<1>5. SumFunctionOnSet(f, S \ {y}) \in Int
    BY <1>1, SumInt
<1>6. QED BY <1>2, <1>3, <1>4, <1>5

LEMMA SumMonotone ==
    ASSUME NEW f, NEW g, NEW S, IsFiniteSet(S),
           \A x \in S : f[x] \in Int, \A x \in S : g[x] \in Int,
           \A x \in S : f[x] <= g[x]
    PROVE  SumFunctionOnSet(f, S) <= SumFunctionOnSet(g, S)
<1> DEFINE C == {T \in SUBSET S : ~(SumFunctionOnSet(f, T) <= SumFunctionOnSet(g, T))}
<1>1. SUFFICES ASSUME C # {} PROVE FALSE
    OBVIOUS
<1>2. PICK T \in C : \A U \in C : U \subseteq T => U = T
    <2>1. C \subseteq SUBSET S
        OBVIOUS
    <2> HIDE DEF C
    <2>2. QED BY <2>1, <1>1, MinimalSubset
<1>3. T # {} /\ IsFiniteSet(T)
    <2>1. T # {}
        <3>1. SumFunctionOnSet(f, {}) = 0 /\ SumFunctionOnSet(g, {}) = 0
            BY SumEmpty
        <3>2. QED BY <3>1
    <2>2. QED BY <2>1, FS_Subset
<1>4. PICK p : p = Chosen(T)
    OBVIOUS
<1>5. p \in S /\ IsFiniteSet(T \ {p}) /\ T \ {p} \notin C /\ T \ {p} \in SUBSET S
    BY <1>2, <1>3, <1>4, PickIsElement, FS_RemoveElement
<1>6. SumFunctionOnSet(f, T \ {p}) <= SumFunctionOnSet(g, T \ {p})
    BY <1>5
<1>7. SumFunctionOnSet(f, T \ {p}) \in Int /\ SumFunctionOnSet(g, T \ {p}) \in Int
    BY <1>5, SumInt
<1>8. SumFunctionOnSet(f, T) = f[p] + SumFunctionOnSet(f, T \ {p})
      /\ SumFunctionOnSet(g, T) = g[p] + SumFunctionOnSet(g, T \ {p})
    BY <1>3, <1>4, SumPick
<1>9. f[p] \in Int /\ g[p] \in Int /\ f[p] <= g[p]
    BY <1>5
<1>10. SumFunctionOnSet(f, T) <= SumFunctionOnSet(g, T)
    BY <1>6, <1>7, <1>8, <1>9
<1>11. QED BY <1>10

LEMMA SumPlus ==
    ASSUME NEW f, NEW g, NEW h, NEW S, IsFiniteSet(S),
           \A x \in S : f[x] \in Int, \A x \in S : g[x] \in Int,
           \A x \in S : h[x] = f[x] + g[x]
    PROVE  SumFunctionOnSet(h, S) = SumFunctionOnSet(f, S) + SumFunctionOnSet(g, S)
<1> DEFINE C == {T \in SUBSET S : SumFunctionOnSet(h, T)
                                 # SumFunctionOnSet(f, T) + SumFunctionOnSet(g, T)}
<1>1. SUFFICES ASSUME C # {} PROVE FALSE
    OBVIOUS
<1>2. PICK T \in C : \A U \in C : U \subseteq T => U = T
    <2>1. C \subseteq SUBSET S
        OBVIOUS
    <2> HIDE DEF C
    <2>2. QED BY <2>1, <1>1, MinimalSubset
<1>3. T # {} /\ IsFiniteSet(T)
    <2>1. T # {}
        <3>1. /\ SumFunctionOnSet(f, {}) = 0 /\ SumFunctionOnSet(g, {}) = 0
              /\ SumFunctionOnSet(h, {}) = 0
            BY SumEmpty
        <3>2. SumFunctionOnSet(h, {}) = SumFunctionOnSet(f, {}) + SumFunctionOnSet(g, {})
            BY <3>1
        <3>3. {} \notin C
            BY <3>2
        <3> HIDE DEF C
        <3>4. QED BY <3>3
    <2>2. QED BY <2>1, FS_Subset
<1>4. PICK p : p = Chosen(T)
    OBVIOUS
<1>5. p \in S /\ IsFiniteSet(T \ {p}) /\ T \ {p} \notin C /\ T \ {p} \in SUBSET S
    BY <1>2, <1>3, <1>4, PickIsElement, FS_RemoveElement
<1>6. SumFunctionOnSet(h, T \ {p}) = SumFunctionOnSet(f, T \ {p}) + SumFunctionOnSet(g, T \ {p})
    BY <1>5
<1>7. SumFunctionOnSet(f, T \ {p}) \in Int /\ SumFunctionOnSet(g, T \ {p}) \in Int
    BY <1>5, SumInt
<1>8. /\ SumFunctionOnSet(f, T) = f[p] + SumFunctionOnSet(f, T \ {p})
      /\ SumFunctionOnSet(g, T) = g[p] + SumFunctionOnSet(g, T \ {p})
      /\ SumFunctionOnSet(h, T) = h[p] + SumFunctionOnSet(h, T \ {p})
    BY <1>3, <1>4, SumPick
<1>9. f[p] \in Int /\ g[p] \in Int /\ h[p] = f[p] + g[p]
    BY <1>5
<1>10. SumFunctionOnSet(h, T) = SumFunctionOnSet(f, T) + SumFunctionOnSet(g, T)
    BY <1>6, <1>7, <1>8, <1>9
<1>11. QED BY <1>10

\* Elements that count nothing may be left out.
LEMMA SumZeros ==
    ASSUME NEW f, NEW S, IsFiniteSet(S), \A x \in S : f[x] \in Int,
           NEW R \in SUBSET S, \A x \in S \ R : f[x] = 0
    PROVE  SumFunctionOnSet(f, S) = SumFunctionOnSet(f, R)
<1> DEFINE C == {T \in SUBSET S : R \subseteq T
                                 /\ SumFunctionOnSet(f, T) # SumFunctionOnSet(f, R)}
<1>1. SUFFICES ASSUME C # {} PROVE FALSE
    OBVIOUS
<1>2. PICK T \in C : \A U \in C : U \subseteq T => U = T
    <2>1. C \subseteq SUBSET S
        OBVIOUS
    <2> HIDE DEF C
    <2>2. QED BY <2>1, <1>1, MinimalSubset
<1>3. PICK x \in T : x \notin R
    OBVIOUS
<1>4. IsFiniteSet(T) /\ IsFiniteSet(T \ {x}) /\ T \ {x} \notin C
    BY <1>2, <1>3, FS_Subset
<1>5. SumFunctionOnSet(f, T \ {x}) = SumFunctionOnSet(f, R)
    BY <1>3, <1>4
<1>6. SumFunctionOnSet(f, T \ {x}) \in Int
    BY <1>4, SumInt
<1>7. SumFunctionOnSet(f, T) = f[x] + SumFunctionOnSet(f, T \ {x})
    BY <1>4, SumRemove
<1>8. f[x] = 0
    BY <1>3
<1>9. QED BY <1>5, <1>6, <1>7, <1>8

\* The elements of the set may be given other names.
LEMMA SumImage ==
    ASSUME NEW f, NEW g, NEW h, NEW S, IsFiniteSet(S),
           \A x \in S : g[x] \in Int /\ f[h[x]] = g[x],
           \A x, y \in S : h[x] = h[y] => x = y
    PROVE  SumFunctionOnSet(f, {h[x] : x \in S}) = SumFunctionOnSet(g, S)
<1> DEFINE C == {T \in SUBSET S : SumFunctionOnSet(f, {h[x] : x \in T}) # SumFunctionOnSet(g, T)}
<1>1. SUFFICES ASSUME C # {} PROVE FALSE
    OBVIOUS
<1>2. PICK T \in C : \A U \in C : U \subseteq T => U = T
    <2>1. C \subseteq SUBSET S
        OBVIOUS
    <2> HIDE DEF C
    <2>2. QED BY <2>1, <1>1, MinimalSubset
<1>3. T # {}
    <2>1. SUFFICES ASSUME T = {} PROVE FALSE
        OBVIOUS
    <2>2. {h[x] : x \in T} = {}
        BY <2>1
    <2>3. QED BY <2>1, <2>2, SumEmpty
<1>4. PICK y \in T : TRUE
    BY <1>3
<1> DEFINE V == T \ {y}
           I == {h[x] : x \in V}
<1>5. T \subseteq S /\ IsFiniteSet(T) /\ IsFiniteSet(V)
    BY FS_Subset, FS_RemoveElement
<1>6. V \notin C /\ V \subseteq S
    BY <1>2, <1>4
<1>7. SumFunctionOnSet(f, I) = SumFunctionOnSet(g, V)
    BY <1>6
<1>8. SumFunctionOnSet(g, T) = g[y] + SumFunctionOnSet(g, V)
    BY <1>5, <1>4, SumRemove
<1>9. {h[x] : x \in T} = I \cup {h[y]} /\ h[y] \notin I
    BY <1>4, <1>5
<1>10. IsFiniteSet(I)
    <2> DEFINE m == [x \in V |-> h[x]]
    <2>1. m \in Surjection(V, I)
        BY DEF Surjection
    <2> HIDE DEF m, I, V
    <2>2. QED BY <2>1, <1>5, FS_Surjection
<1>11. \A z \in I \cup {h[y]} : f[z] \in Int
    BY <1>4, <1>5
<1>12. SumFunctionOnSet(f, I \cup {h[y]}) = f[h[y]] + SumFunctionOnSet(f, I)
    <2> HIDE DEF I
    <2>1. QED BY <1>9, <1>10, <1>11, SumAdd
<1>13. f[h[y]] = g[y]
    BY <1>4, <1>5
<1>14. SumFunctionOnSet(f, {h[x] : x \in T}) = SumFunctionOnSet(g, T)
    BY <1>7, <1>8, <1>9, <1>12, <1>13
<1>15. QED BY <1>14

\* What is taken out of the set is taken off the sum.
LEMMA SumMinus ==
    ASSUME NEW f, NEW S, IsFiniteSet(S), \A x \in S : f[x] \in Int, NEW R \in SUBSET S
    PROVE  SumFunctionOnSet(f, S \ R) = SumFunctionOnSet(f, S) - SumFunctionOnSet(f, R)
<1> DEFINE C == {T \in SUBSET S : SumFunctionOnSet(f, S \ T)
                                 # SumFunctionOnSet(f, S) - SumFunctionOnSet(f, T)}
<1>1. SUFFICES ASSUME C # {} PROVE FALSE
    OBVIOUS
<1>2. PICK T \in C : \A U \in C : U \subseteq T => U = T
    <2>1. C \subseteq SUBSET S
        OBVIOUS
    <2> HIDE DEF C
    <2>2. QED BY <2>1, <1>1, MinimalSubset
<1>3. SumFunctionOnSet(f, S) \in Int
    BY SumInt
<1>4. T # {}
    <2>1. SumFunctionOnSet(f, {}) = 0
        BY SumEmpty
    <2>2. S \ {} = S
        OBVIOUS
    <2>3. SumFunctionOnSet(f, S \ {}) = SumFunctionOnSet(f, S) - SumFunctionOnSet(f, {})
        BY <2>1, <2>2, <1>3
    <2>4. QED BY <2>3
<1>5. PICK y \in T : TRUE
    BY <1>4
<1> DEFINE V == T \ {y}
<1>6. V \notin C /\ V \in SUBSET S /\ IsFiniteSet(T) /\ IsFiniteSet(V) /\ IsFiniteSet(S \ V)
    BY <1>2, <1>5, FS_Subset
<1>7. SumFunctionOnSet(f, S \ V) = SumFunctionOnSet(f, S) - SumFunctionOnSet(f, V)
    BY <1>6
<1>8. SumFunctionOnSet(f, T) = f[y] + SumFunctionOnSet(f, V)
    BY <1>5, <1>6, SumRemove
<1>9. (S \ V) \ {y} = S \ T /\ y \in S \ V
    BY <1>5
<1>10. SumFunctionOnSet(f, S \ V) = f[y] + SumFunctionOnSet(f, S \ T)
    <2> DEFINE W == S \ V
    <2>1. IsFiniteSet(W) /\ y \in W /\ \A x \in W : f[x] \in Int
        BY <1>6, <1>9
    <2>2. W \ {y} = S \ T
        BY <1>9
    <2> HIDE DEF W
    <2>3. SumFunctionOnSet(f, W) = f[y] + SumFunctionOnSet(f, W \ {y})
        BY <2>1, SumRemove
    <2>4. QED BY <2>2, <2>3 DEF W
<1>11. SumFunctionOnSet(f, V) \in Int /\ SumFunctionOnSet(f, S \ T) \in Int /\ f[y] \in Int
    <2>1. IsFiniteSet(S \ T)
        BY FS_Subset
    <2>2. QED BY <2>1, <1>5, <1>6, SumInt
<1>12. SumFunctionOnSet(f, S \ T) = SumFunctionOnSet(f, S) - SumFunctionOnSet(f, T)
    <2> HIDE DEF V
    <2>1. QED BY <1>3, <1>7, <1>8, <1>10, <1>11
<1>13. QED BY <1>12

\* The sum may be taken class by class.
LEMMA SumByClass ==
    ASSUME NEW f, NEW S, IsFiniteSet(S), \A x \in S : f[x] \in Int,
           NEW K, IsFiniteSet(K), NEW g, \A x \in S : g[x] \in K
    PROVE  SumFunctionOnSet([k \in K |-> SumFunctionOnSet(f, {x \in S : g[x] = k})], K) =
             SumFunctionOnSet(f, S)
<1> DEFINE In(T) == [k \in K |-> SumFunctionOnSet(f, {x \in T : g[x] = k})]
           C == {T \in SUBSET S : SumFunctionOnSet(In(T), K) # SumFunctionOnSet(f, T)}
<1>1. SUFFICES ASSUME C # {} PROVE FALSE
    OBVIOUS
<1>2. PICK T \in C : \A U \in C : U \subseteq T => U = T
    <2>1. C \subseteq SUBSET S
        OBVIOUS
    <2> HIDE DEF C
    <2>2. QED BY <2>1, <1>1, MinimalSubset
<1>3. ASSUME NEW U \in SUBSET S
      PROVE  IsFiniteSet(U) /\ \A k \in K : In(U)[k] \in Int
    <2>1. IsFiniteSet(U) /\ \A k \in K : IsFiniteSet({x \in U : g[x] = k})
        BY FS_Subset
    <2>2. ASSUME NEW k \in K PROVE SumFunctionOnSet(f, {x \in U : g[x] = k}) \in Int
        BY <2>1, SumInt
    <2>3. QED BY <2>1, <2>2
<1>4. T # {}
    <2>1. SUFFICES ASSUME T = {} PROVE FALSE
        OBVIOUS
    <2>2. \A k \in K : {x \in T : g[x] = k} = {}
        BY <2>1
    <2>3. \A k \in K : In(T)[k] = 0
        BY <2>2, SumEmpty
    <2> DEFINE z == In(T)
    <2>4. \A k \in K : z[k] \in Int /\ z[k] = 0
        BY <2>3
    <2> HIDE DEF z
    <2>5. SumFunctionOnSet(z, K) = SumFunctionOnSet(z, {})
        BY <2>4, SumZeros
    <2>6. SumFunctionOnSet(z, K) = SumFunctionOnSet(f, T)
        BY <2>1, <2>5, SumEmpty
    <2>7. QED BY <2>6 DEF z
<1>5. PICK y \in T : TRUE
    BY <1>4
<1> DEFINE V == T \ {y}
           a == In(V)
           b == In(T)
<1>6. V \notin C /\ V \in SUBSET S /\ g[y] \in K /\ f[y] \in Int
    BY <1>2, <1>5
<1>7. SumFunctionOnSet(a, K) = SumFunctionOnSet(f, V)
    BY <1>6
<1>8. SumFunctionOnSet(f, T) = f[y] + SumFunctionOnSet(f, V)
    BY <1>3, <1>5, SumRemove
<1>9. b[g[y]] = f[y] + a[g[y]]
    <2> DEFINE W == {x \in T : g[x] = g[y]}
    <2>1. W \ {y} = {x \in V : g[x] = g[y]} /\ y \in W /\ W \subseteq S
        BY <1>5
    <2>2. IsFiniteSet(W)
        BY <2>1, FS_Subset
    <2>3. SumFunctionOnSet(f, W) = f[y] + SumFunctionOnSet(f, W \ {y})
        BY <2>1, <2>2, SumRemove
    <2>4. QED BY <2>1, <2>3, <1>6
<1>10. \A k \in K \ {g[y]} : b[k] = a[k]
    <2>1. \A k \in K \ {g[y]} : {x \in T : g[x] = k} = {x \in V : g[x] = k}
        OBVIOUS
    <2>2. QED BY <2>1
<1>11. \A k \in K : a[k] \in Int /\ b[k] \in Int
    BY <1>3, <1>6
<1> HIDE DEF a, b
<1>12. SumFunctionOnSet(b, K) = SumFunctionOnSet(a, K) - a[g[y]] + b[g[y]]
    BY <1>6, <1>10, <1>11, SumChange
<1>13. SumFunctionOnSet(a, K) \in Int
    BY <1>11, SumInt
<1>14. SumFunctionOnSet(b, K) = SumFunctionOnSet(f, T)
    BY <1>6, <1>7, <1>8, <1>9, <1>11, <1>12, <1>13
<1>15. QED BY <1>14 DEF b
=============================================================================
