----------------------- MODULE QueueAndKeeper_proofs -----------------------
(***************************************************************************)
(* The theorems about two small parts of the TBS server: the staging queue *)
(* and, at the end, the keeper.                                            *)
(*                                                                         *)
(* QueueIsConsistent, RankIsPosition and that the queue implements         *)
(* PriorityQueue, for any number of tasks, priorities and moments.  The    *)
(* invariant says what a list is (its entries are those of the map with    *)
(* its priority, in order of time, no task twice) and what the length      *)
(* counts.  That All is in order and Rank right follows in every such      *)
(* state from where the entries of a list lie in the concatenation: behind *)
(* those of the higher priorities.                                         *)
(*                                                                         *)
(* LiveClientKept of Keeper, for every number of tasks, terms, crashes and *)
(* updates, as a question of intervals: how long the keeper must wait, and *)
(* how late a heartbeat may be, for it to fail no task whose client is     *)
(* alive.  A handler that puts back a copy of the task keeps an old        *)
(* heartbeat for two units at most, as it took the copy before the         *)
(* heartbeat of one unit and put it back after that of the next.           *)
(***************************************************************************)
EXTENDS StagingQueue, Keeper, SumTheorems, SequenceTheorems

\* The lists and the map have their shape.
TypeOK ==
    /\ listGroup \in [Priority -> Seq(Entry)]
    /\ element \subseteq Entry
    /\ IsFiniteSet(element)

Sorted(s) ==
    \A i, j \in DOMAIN s : i < j => s[i].time <= s[j].time /\ s[i].task # s[j].task

SortedInv == \A p \in Priority : Sorted(listGroup[p])

\* A list holds the entries of its priority.
PlaceInv == \A p \in Priority : ToSet(listGroup[p]) = {e \in element : e.priority = p}

OnceInv == \A e, f \in element : e.task = f.task => e = f

CountInv ==
    /\ length = Cardinality(element)
    /\ length = SumFunctionOnSet(Lengths, Priority)

Inv == TypeOK /\ SortedInv /\ PlaceInv /\ OnceInv /\ CountInv

\* The entries of the priorities above p.
Before(p) == SumFunctionOnSet(Lengths, {q \in Priority : q > p})

-----------------------------------------------------------------------------
(* Indices and lists. *)

LEMMA PriorityIsFinite ==
    IsFiniteSet(Priority) /\ Priority \subseteq Int /\ Priority # {}
<1>1. MaxTaskPriority \in Int /\ MinTaskPriority \in Int /\ 1 \in Priority
    BY QueueAssumption DEF Priority, MinTaskPriority
<1>2. IsFiniteSet(MinTaskPriority..MaxTaskPriority)
    BY <1>1, FS_Interval
<1>3. QED BY <1>1, <1>2 DEF Priority

\* A non-empty set of indices has a greatest one.
LEMMA GreatestIndex ==
    ASSUME NEW n \in Nat, NEW C, C \subseteq 1..n, C # {}
    PROVE  Max(C) \in C /\ \A j \in C : j <= Max(C)
<1> DEFINE D == {n + 1 - i : i \in C}
<1>1. D \subseteq 1..n /\ D # {}
    <2>1. \A i \in C : n + 1 - i \in 1..n
        OBVIOUS
    <2>2. QED BY <2>1
<1>2. PICK k \in D : \A j \in D : k <= j
    <2> HIDE DEF D
    <2>1. QED BY <1>1, LeastIndex
<1>3. PICK i \in C : k = n + 1 - i
    OBVIOUS
<1>4. ASSUME NEW j \in C PROVE i >= j
    <2>1. n + 1 - j \in D
        OBVIOUS
    <2>2. n + 1 - i <= n + 1 - j
        BY <1>2, <1>3, <2>1
    <2>3. i \in 1..n /\ j \in 1..n
        OBVIOUS
    <2>4. QED BY <2>2, <2>3
<1>5. C \subseteq Int
    OBVIOUS
<1>6. Max(C) \in C /\ \A j \in C : Max(C) >= j
    BY <1>4 DEF Max
<1>7. QED BY <1>5, <1>6

LEMMA Inserted ==
    ASSUME NEW S, NEW s \in Seq(S), NEW i \in 1..(Len(s) + 1), NEW e \in S
    PROVE  /\ InsertAt(s, i, e) \in Seq(S)
           /\ Len(InsertAt(s, i, e)) = Len(s) + 1
           /\ \A j \in 1..(Len(s) + 1) :
                InsertAt(s, i, e)[j] = IF j < i THEN s[j] ELSE IF j = i THEN e ELSE s[j - 1]
<1> DEFINE a == SubSeq(s, 1, i - 1)
           b == SubSeq(s, i, Len(s))
<1>1. Len(s) \in Nat /\ \A j \in 1..Len(s) : s[j] \in S
    BY LenProperties, ElementOfSeq
<1>2. a \in Seq(S) /\ Len(a) = i - 1 /\ \A j \in 1..(i - 1) : a[j] = s[j]
    BY <1>1, SubSeqProperties
<1>3. b \in Seq(S) /\ Len(b) = Len(s) + 1 - i /\ \A j \in 1..(Len(s) + 1 - i) : b[j] = s[i + j - 1]
    BY <1>1, SubSeqProperties
<1>4. <<e>> \in Seq(S) /\ Len(<<e>>) = 1 /\ <<e>>[1] = e
    OBVIOUS
<1> HIDE DEF a, b
<1> DEFINE c == a \o <<e>>
<1>5. c \in Seq(S) /\ Len(c) = i /\ \A j \in 1..i : c[j] = IF j < i THEN s[j] ELSE e
    BY <1>2, <1>4, ConcatProperties
<1> HIDE DEF c
<1>6. /\ c \o b \in Seq(S) /\ Len(c \o b) = Len(s) + 1
      /\ \A j \in 1..(Len(s) + 1) : (c \o b)[j] = IF j <= i THEN c[j] ELSE b[j - i]
    <2>1. Len(c) + Len(b) = Len(s) + 1
        BY <1>1, <1>3, <1>5
    <2>2. \A j \in 1..(Len(c) + Len(b)) : (c \o b)[j] = IF j <= Len(c) THEN c[j] ELSE b[j - Len(c)]
        BY <1>3, <1>5, ConcatProperties
    <2>3. c \o b \in Seq(S) /\ Len(c \o b) = Len(c) + Len(b)
        BY <1>3, <1>5, ConcatProperties
    <2>4. QED BY <2>1, <2>2, <2>3, <1>5
<1>7. ASSUME NEW j \in 1..(Len(s) + 1)
      PROVE  (c \o b)[j] = IF j < i THEN s[j] ELSE IF j = i THEN e ELSE s[j - 1]
    <2>1. CASE j <= i
        BY <2>1, <1>5, <1>6
    <2>2. CASE j > i
        <3>0. (c \o b)[j] = b[j - i]
            BY <2>2, <1>6
        <3>1. j - i \in 1..(Len(s) + 1 - i) /\ i + (j - i) - 1 = j - 1
            BY <2>2, <1>1
        <3>2. b[j - i] = s[j - 1]
            BY <1>3, <3>1
        <3>3. QED BY <2>2, <3>0, <3>2
    <2>3. j <= i \/ j > i
        BY <1>1
    <2>4. QED BY <2>1, <2>2, <2>3
<1>8. InsertAt(s, i, e) = c \o b
    BY DEF InsertAt, a, b, c
<1>9. QED BY <1>6, <1>7, <1>8

LEMMA Removed ==
    ASSUME NEW S, NEW s \in Seq(S), NEW i \in 1..Len(s)
    PROVE  /\ RemoveAt(s, i) \in Seq(S)
           /\ Len(RemoveAt(s, i)) = Len(s) - 1
           /\ \A j \in 1..(Len(s) - 1) :
                RemoveAt(s, i)[j] = IF j < i THEN s[j] ELSE s[j + 1]
<1> DEFINE a == SubSeq(s, 1, i - 1)
           b == SubSeq(s, i + 1, Len(s))
<1>1. Len(s) \in Nat /\ \A j \in 1..Len(s) : s[j] \in S
    BY LenProperties, ElementOfSeq
<1>2. a \in Seq(S) /\ Len(a) = i - 1 /\ \A j \in 1..(i - 1) : a[j] = s[j]
    BY <1>1, SubSeqProperties
<1>3. b \in Seq(S) /\ Len(b) = Len(s) - i /\ \A j \in 1..(Len(s) - i) : b[j] = s[i + j]
    BY <1>1, SubSeqProperties
<1> HIDE DEF a, b
<1>4. /\ a \o b \in Seq(S) /\ Len(a \o b) = Len(s) - 1
      /\ \A j \in 1..(Len(s) - 1) : (a \o b)[j] = IF j <= i - 1 THEN a[j] ELSE b[j - (i - 1)]
    <2>1. Len(a) + Len(b) = Len(s) - 1
        BY <1>1, <1>2, <1>3
    <2>2. \A j \in 1..(Len(a) + Len(b)) : (a \o b)[j] = IF j <= Len(a) THEN a[j] ELSE b[j - Len(a)]
        BY <1>2, <1>3, ConcatProperties
    <2>3. a \o b \in Seq(S) /\ Len(a \o b) = Len(a) + Len(b)
        BY <1>2, <1>3, ConcatProperties
    <2>4. QED BY <2>1, <2>2, <2>3, <1>2
<1>5. ASSUME NEW j \in 1..(Len(s) - 1)
      PROVE  (a \o b)[j] = IF j < i THEN s[j] ELSE s[j + 1]
    <2>1. CASE j < i
        BY <2>1, <1>2, <1>4
    <2>2. CASE j >= i
        <3>0. (a \o b)[j] = b[j - (i - 1)]
            BY <2>2, <1>4
        <3>1. j - (i - 1) \in 1..(Len(s) - i) /\ i + (j - (i - 1)) = j + 1
            BY <2>2, <1>1
        <3>2. b[j - (i - 1)] = s[j + 1]
            BY <1>3, <3>1
        <3>3. QED BY <2>2, <3>0, <3>2
    <2>3. j < i \/ j >= i
        BY <1>1
    <2>4. QED BY <2>1, <2>2, <2>3
<1>6. RemoveAt(s, i) = a \o b
    BY DEF RemoveAt, a, b
<1>7. QED BY <1>4, <1>5, <1>6

-----------------------------------------------------------------------------
(* What a list keeps. *)

\* The place of a new entry: the ones before it are not younger, the ones
\* behind it not older.
LEMMA InsertPositionFits ==
    ASSUME NEW s \in Seq(Entry), NEW e \in Entry, Sorted(s)
    PROVE  LET k == InsertPosition(e, s)
           IN  /\ k \in 1..(Len(s) + 1)
               /\ \A i \in 1..Len(s) : i < k => s[i].time <= e.time
               /\ \A i \in 1..Len(s) : i >= k => e.time <= s[i].time
<1> DEFINE earlier == {i \in DOMAIN s : s[i].time < e.time}
           m == Max(earlier)
<1>1. /\ Len(s) \in Nat /\ DOMAIN s = 1..Len(s)
      /\ \A i \in 1..Len(s) : s[i] \in Entry
    BY LenProperties, ElementOfSeq
<1>2. e.time \in Nat /\ \A i \in 1..Len(s) : s[i].time \in Nat
    BY <1>1, QueueAssumption DEF Entry
<1>3. earlier \subseteq 1..Len(s)
    BY <1>1
<1>4. \A i \in 1..Len(s) : i \notin earlier => e.time <= s[i].time
    BY <1>1, <1>2
<1>5. \A i \in earlier : s[i].time < e.time
    OBVIOUS
<1>6. InsertPosition(e, s) = IF earlier = {} THEN 1 ELSE m + 1
    BY DEF InsertPosition
<1> HIDE DEF earlier
<1>7. CASE earlier = {}
    BY <1>1, <1>4, <1>6, <1>7
<1>8. CASE earlier # {}
    <2>1. m \in earlier /\ \A j \in earlier : j <= m
        BY <1>1, <1>3, <1>8, GreatestIndex
    <2>2. m \in 1..Len(s) /\ s[m].time < e.time
        BY <2>1, <1>3, <1>5
    <2> HIDE DEF m
    <2>3. InsertPosition(e, s) = m + 1
        BY <1>6, <1>8
    <2>4. ASSUME NEW i \in 1..Len(s), i < m + 1 PROVE s[i].time <= e.time
        <3>1. CASE i = m
            BY <3>1, <2>2, <1>2
        <3>2. CASE i < m
            <4>1. s[i].time <= s[m].time
                BY <3>2, <2>2, <1>1 DEF Sorted
            <4>2. s[i].time \in Nat /\ s[m].time \in Nat /\ e.time \in Nat
                BY <1>2, <2>2
            <4>3. QED BY <4>1, <4>2, <2>2
        <3>3. i = m \/ i < m
            BY <2>2, <2>4
        <3>4. QED BY <3>1, <3>2, <3>3
    <2>5. ASSUME NEW i \in 1..Len(s), i >= m + 1 PROVE e.time <= s[i].time
        <3>1. i \notin earlier
            BY <2>1, <2>2, <2>5
        <3>2. QED BY <3>1, <1>4
    <2>6. m + 1 \in 1..(Len(s) + 1)
        BY <1>1, <2>2
    <2>7. QED BY <2>3, <2>4, <2>5, <2>6
<1>9. QED BY <1>7, <1>8

LEMMA InsertKeepsOrder ==
    ASSUME NEW s \in Seq(Entry), NEW e \in Entry, Sorted(s),
           \A f \in ToSet(s) : f.task # e.task
    PROVE  LET n == InsertAt(s, InsertPosition(e, s), e)
           IN  n \in Seq(Entry) /\ Len(n) = Len(s) + 1 /\ Sorted(n) /\ ToSet(n) = ToSet(s) \cup {e}
<1> DEFINE k == InsertPosition(e, s)
           n == InsertAt(s, k, e)
<1>1. /\ k \in 1..(Len(s) + 1)
      /\ \A i \in 1..Len(s) : i < k => s[i].time <= e.time
      /\ \A i \in 1..Len(s) : i >= k => e.time <= s[i].time
    BY InsertPositionFits
<1>2. Len(s) \in Nat /\ DOMAIN s = 1..Len(s)
    BY LenProperties
<1> HIDE DEF k
<1>3. /\ n \in Seq(Entry) /\ Len(n) = Len(s) + 1
      /\ \A j \in 1..(Len(s) + 1) : n[j] = IF j < k THEN s[j] ELSE IF j = k THEN e ELSE s[j - 1]
    BY <1>1, Inserted
<1> HIDE DEF n
<1>4. DOMAIN n = 1..(Len(s) + 1)
    BY <1>3, LenProperties
<1>5. \A i \in 1..Len(s) : s[i].task # e.task
    BY <1>2 DEF ToSet
<1>6. \A i, j \in 1..Len(s) : i < j => s[i].time <= s[j].time /\ s[i].task # s[j].task
    BY <1>2 DEF Sorted
<1>7. ASSUME NEW i \in 1..(Len(s) + 1), NEW j \in 1..(Len(s) + 1), i < j
      PROVE  n[i].time <= n[j].time /\ n[i].task # n[j].task
    <2>1. CASE j < k
        <3>1. n[i] = s[i] /\ n[j] = s[j] /\ i \in 1..Len(s) /\ j \in 1..Len(s)
            BY <2>1, <1>1, <1>2, <1>3, <1>7
        <3>2. QED BY <3>1, <1>6, <1>7
    <2>2. CASE j = k
        <3>1. n[i] = s[i] /\ n[j] = e /\ i \in 1..Len(s) /\ i < k
            BY <2>2, <1>1, <1>2, <1>3, <1>7
        <3>2. QED BY <3>1, <1>1, <1>5
    <2>3. CASE i < k /\ j > k
        <3>1. n[i] = s[i] /\ n[j] = s[j - 1] /\ i \in 1..Len(s) /\ j - 1 \in 1..Len(s) /\ i < j - 1
            BY <2>3, <1>1, <1>2, <1>3, <1>7
        <3>2. QED BY <3>1, <1>6
    <2>4. CASE i = k
        <3>1. n[i] = e /\ n[j] = s[j - 1] /\ j - 1 \in 1..Len(s) /\ j - 1 >= k
            BY <2>4, <1>1, <1>2, <1>3, <1>7
        <3>2. QED BY <3>1, <1>1, <1>5
    <2>5. CASE i > k
        <3>1. /\ n[i] = s[i - 1] /\ n[j] = s[j - 1] /\ i - 1 \in 1..Len(s)
              /\ j - 1 \in 1..Len(s) /\ i - 1 < j - 1
            BY <2>5, <1>1, <1>2, <1>3, <1>7
        <3>2. QED BY <3>1, <1>6
    <2>6. j < k \/ j = k \/ (i < k /\ j > k) \/ i = k \/ i > k
        BY <1>1, <1>2
    <2>7. QED BY <2>1, <2>2, <2>3, <2>4, <2>5, <2>6
<1>8. Sorted(n)
    BY <1>4, <1>7 DEF Sorted
<1>9. ToSet(n) = ToSet(s) \cup {e}
    <2>1. ASSUME NEW j \in 1..(Len(s) + 1) PROVE n[j] \in ToSet(s) \cup {e}
        <3>1. CASE j < k
            <4>1. n[j] = s[j] /\ j \in 1..Len(s)
                BY <3>1, <1>1, <1>2, <1>3
            <4>2. QED BY <4>1, <1>2 DEF ToSet
        <3>2. CASE j = k
            BY <3>2, <1>3
        <3>3. CASE j > k
            <4>1. n[j] = s[j - 1] /\ j - 1 \in 1..Len(s)
                BY <3>3, <1>1, <1>2, <1>3
            <4>2. QED BY <4>1, <1>2 DEF ToSet
        <3>4. j < k \/ j = k \/ j > k
            BY <1>1, <1>2
        <3>5. QED BY <3>1, <3>2, <3>3, <3>4
    <2>2. n[k] = e
        BY <1>1, <1>2, <1>3
    <2>3. ASSUME NEW j \in 1..Len(s) PROVE s[j] \in ToSet(n)
        <3>1. CASE j < k
            <4>1. n[j] = s[j] /\ j \in 1..(Len(s) + 1)
                BY <3>1, <1>1, <1>2, <1>3
            <4>2. QED BY <4>1, <1>4 DEF ToSet
        <3>2. CASE j >= k
            <4>1. n[j + 1] = s[j] /\ j + 1 \in 1..(Len(s) + 1)
                <5>1. j + 1 \in 1..(Len(s) + 1) /\ ~(j + 1 < k) /\ j + 1 # k /\ (j + 1) - 1 = j
                    BY <3>2, <1>1, <1>2
                <5>2. QED BY <5>1, <1>3
            <4>2. QED BY <4>1, <1>4 DEF ToSet
        <3>3. j < k \/ j >= k
            BY <1>1, <1>2
        <3>4. QED BY <3>1, <3>2, <3>3
    <2>4. QED BY <2>1, <2>2, <2>3, <1>1, <1>2, <1>4 DEF ToSet
<1>10. QED BY <1>3, <1>8, <1>9 DEF n, k

LEMMA RemoveKeepsOrder ==
    ASSUME NEW s \in Seq(Entry), NEW k \in 1..Len(s), Sorted(s)
    PROVE  LET n == RemoveAt(s, k)
           IN  n \in Seq(Entry) /\ Len(n) = Len(s) - 1 /\ Sorted(n) /\ ToSet(n) = ToSet(s) \ {s[k]}
<1> DEFINE n == RemoveAt(s, k)
<1>2. Len(s) \in Nat /\ DOMAIN s = 1..Len(s)
    BY LenProperties
<1>3. /\ n \in Seq(Entry) /\ Len(n) = Len(s) - 1
      /\ \A j \in 1..(Len(s) - 1) : n[j] = IF j < k THEN s[j] ELSE s[j + 1]
    BY Removed
<1> HIDE DEF n
<1>4. DOMAIN n = 1..(Len(s) - 1)
    BY <1>3, LenProperties
<1>5. \A i, j \in 1..Len(s) : i < j => s[i].time <= s[j].time /\ s[i].task # s[j].task
    BY <1>2 DEF Sorted
\* Where an entry was: the order of the entries stays.
<1> DEFINE was(j) == IF j < k THEN j ELSE j + 1
<1>6. ASSUME NEW j \in 1..(Len(s) - 1)
      PROVE  was(j) \in 1..Len(s) /\ was(j) # k /\ n[j] = s[was(j)]
    BY <1>2, <1>3
<1>7. ASSUME NEW i \in 1..(Len(s) - 1), NEW j \in 1..(Len(s) - 1), i < j
      PROVE  n[i].time <= n[j].time /\ n[i].task # n[j].task
    <2>1. was(i) < was(j)
        BY <1>2, <1>7
    <2>2. /\ was(i) \in 1..Len(s) /\ was(j) \in 1..Len(s)
          /\ n[i] = s[was(i)] /\ n[j] = s[was(j)]
        BY <1>6
    <2> HIDE DEF was
    <2>3. QED BY <2>1, <2>2, <1>5
<1>8. Sorted(n)
    BY <1>4, <1>7 DEF Sorted
<1>9. ASSUME NEW j \in 1..Len(s), j # k PROVE s[j] # s[k]
    <2>1. j < k \/ k < j
        BY <1>2, <1>9
    <2>2. QED BY <2>1, <1>5
<1>10. ASSUME NEW j \in 1..Len(s), j # k PROVE \E i \in 1..(Len(s) - 1) : n[i] = s[j]
    <2>1. CASE j < k
        <3>1. j \in 1..(Len(s) - 1) /\ was(j) = j
            BY <2>1, <1>2
        <3>2. QED BY <3>1, <1>6
    <2>2. CASE j > k
        <3>1. j - 1 \in 1..(Len(s) - 1) /\ was(j - 1) = j
            BY <2>2, <1>2
        <3>2. QED BY <3>1, <1>6
    <2>3. j < k \/ j > k
        BY <1>2, <1>10
    <2>4. QED BY <2>1, <2>2, <2>3
<1> HIDE DEF was
<1>11. ToSet(n) = ToSet(s) \ {s[k]}
    <2>1. ToSet(n) = {n[j] : j \in 1..(Len(s) - 1)} /\ ToSet(s) = {s[j] : j \in 1..Len(s)}
        BY <1>2, <1>4 DEF ToSet
    <2>2. ASSUME NEW x \in ToSet(n) PROVE x \in ToSet(s) \ {s[k]}
        <3>1. PICK j \in 1..(Len(s) - 1) : x = n[j]
            BY <2>1
        <3>2. QED BY <2>1, <3>1, <1>6, <1>9
    <2>3. ASSUME NEW x \in ToSet(s) \ {s[k]} PROVE x \in ToSet(n)
        <3>1. PICK j \in 1..Len(s) : x = s[j] /\ j # k
            BY <2>1
        <3>2. QED BY <2>1, <3>1, <1>10
    <2>4. QED BY <2>2, <2>3
<1>12. QED BY <1>3, <1>8, <1>11 DEF n

-----------------------------------------------------------------------------
(* The concatenation. *)

\* g is the function FlattenSeq is defined by, of the first n sequences.
Flattens(g, seqs, n) ==
    g = [i \in 1..n |-> IF i = 1 THEN seqs[i] ELSE g[i - 1] \o seqs[i]]

LEMMA FlattensExists ==
    ASSUME NEW N \in Nat, NEW seqs, NEW n \in 1..N
    PROVE  \E g : Flattens(g, seqs, n)
<1> DEFINE C == {k \in 1..N : ~ \E g : Flattens(g, seqs, k)}
<1>1. SUFFICES ASSUME C # {} PROVE FALSE
    OBVIOUS
<1>2. PICK k \in C : \A j \in C : k <= j
    <2>1. C \subseteq 1..N
        OBVIOUS
    <2> HIDE DEF C
    <2>2. QED BY <2>1, <1>1, LeastIndex
<1>3. CASE k = 1
    <2> DEFINE g == [i \in 1..1 |-> seqs[i]]
    <2>1. \A i \in 1..1 : g[i] = IF i = 1 THEN seqs[i] ELSE g[i - 1] \o seqs[i]
        OBVIOUS
    <2>2. g = [i \in 1..1 |-> g[i]]
        OBVIOUS
    <2> HIDE DEF g
    <2>3. Flattens(g, seqs, 1)
        BY <2>1, <2>2 DEF Flattens
    <2>4. QED BY <2>3, <1>2, <1>3
<1>4. CASE k # 1
    <2>1. k - 1 \in 1..N /\ k \in 1..N
        BY <1>4
    <2>2. k - 1 \notin C
        BY <1>2, <2>1
    <2>3. PICK h : Flattens(h, seqs, k - 1)
        BY <2>1, <2>2
    <2> DEFINE g == [i \in 1..k |-> IF i = k THEN h[k - 1] \o seqs[k] ELSE h[i]]
    <2>4. ASSUME NEW i \in 1..k
          PROVE  g[i] = IF i = 1 THEN seqs[i] ELSE g[i - 1] \o seqs[i]
        <3>1. CASE i = k
            <4>1. k - 1 \in 1..k /\ k - 1 # k
                BY <2>1
            <4>2. g[k - 1] = h[k - 1] /\ g[i] = h[k - 1] \o seqs[k]
                BY <4>1, <3>1
            <4> HIDE DEF g
            <4>3. QED BY <4>2, <3>1, <1>4
        <3>2. CASE i # k
            <4>1. i \in 1..(k - 1)
                BY <3>2, <2>1
            <4>2. h[i] = IF i = 1 THEN seqs[i] ELSE h[i - 1] \o seqs[i]
                BY <4>1, <2>3 DEF Flattens
            <4>3. g[i] = h[i]
                BY <3>2
            <4>4. i # 1 => i - 1 \in 1..k /\ i - 1 # k
                BY <4>1, <2>1
            <4>5. i # 1 => g[i - 1] = h[i - 1]
                BY <4>4
            <4> HIDE DEF g
            <4>6. QED BY <4>2, <4>3, <4>5
        <3>3. QED BY <3>1, <3>2
    <2>5. g = [i \in 1..k |-> g[i]]
        OBVIOUS
    <2> HIDE DEF g
    <2>6. Flattens(g, seqs, k)
        BY <2>4, <2>5 DEF Flattens
    <2>7. QED BY <2>6, <1>2
<1>5. QED BY <1>3, <1>4

\* g[i] is the concatenation of the first i sequences.
Concatenates(g, seqs, n, S) ==
    /\ g \in [1..n -> Seq(S)]
    /\ g[1] = seqs[1]
    /\ \A i \in 2..n : g[i] = g[i - 1] \o seqs[i]
    /\ FlattenSeq(seqs) = g[n]

\* FlattenSeq is the last of the growing concatenations.
LEMMA FlattenIsConcatenation ==
    ASSUME NEW S, NEW N \in Nat \ {0}, NEW seqs \in [1..N -> Seq(S)]
    PROVE  \E g : Concatenates(g, seqs, N, S)
<1> DEFINE g == CHOOSE h : Flattens(h, seqs, N)
<1>1. N \in 1..N /\ 1 \in 1..N
    OBVIOUS
<1>2. Flattens(g, seqs, N)
    BY <1>1, FlattensExists
<1>3. Len(seqs) = N
    <2>1. seqs \in Seq(Seq(S))
        OBVIOUS
    <2>2. DOMAIN seqs = 1..N /\ DOMAIN seqs = 1..Len(seqs) /\ Len(seqs) \in Nat
        BY <2>1, LenProperties
    <2>3. QED BY <2>2
<1>4. FlattenSeq(seqs) = g[N]
    BY <1>3 DEF FlattenSeq, Flattens
<1> HIDE DEF g
<1>5. g[1] = seqs[1]
    BY <1>1, <1>2 DEF Flattens
<1>6. \A i \in 2..N : i \in 1..N /\ i - 1 \in 1..N /\ g[i] = g[i - 1] \o seqs[i]
    <2>1. \A i \in 2..N : i \in 1..N /\ i - 1 \in 1..N /\ i # 1
        OBVIOUS
    <2>2. QED BY <2>1, <1>2 DEF Flattens
<1>7. \A i \in 1..N : g[i] \in Seq(S)
    <2> DEFINE C == {i \in 1..N : g[i] \notin Seq(S)}
    <2>1. SUFFICES ASSUME C # {} PROVE FALSE
        OBVIOUS
    <2>2. PICK k \in C : \A j \in C : k <= j
        <3>1. C \subseteq 1..N
            OBVIOUS
        <3> HIDE DEF C
        <3>2. QED BY <3>1, <2>1, LeastIndex
    <2>3. k # 1
        BY <1>1, <1>5
    <2>4. k \in 2..N /\ k - 1 \in 1..N /\ k - 1 \notin C
        BY <2>2, <2>3
    <2>5. g[k - 1] \in Seq(S) /\ seqs[k] \in Seq(S) /\ g[k] = g[k - 1] \o seqs[k]
        BY <2>4, <1>6
    <2>6. g[k] \in Seq(S)
        BY <2>5, ConcatProperties
    <2>7. QED BY <2>6
<1>8. g \in [1..N -> Seq(S)]
    <2>1. g = [i \in 1..N |-> g[i]]
        BY <1>2 DEF Flattens
    <2>2. QED BY <2>1, <1>7
<1>9. Concatenates(g, seqs, N, S)
    BY <1>4, <1>5, <1>6, <1>8 DEF Concatenates
<1>10. QED BY <1>9

\* The entries before a list: none above the highest priority, and those of
\* the list itself before the next one.
LEMMA LengthsAreNat ==
    ASSUME TypeOK
    PROVE  \A p \in Priority : Lengths[p] = Len(listGroup[p]) /\ Lengths[p] \in Nat
BY LenProperties DEF TypeOK, Lengths

LEMMA BeforeIsNat ==
    ASSUME TypeOK, NEW p \in Int
    PROVE  Before(p) \in Nat
<1> DEFINE S == {q \in Priority : q > p}
<1>1. IsFiniteSet(S)
    BY PriorityIsFinite, FS_Subset
<1>2. \A q \in S : Lengths[q] \in Nat
    BY LengthsAreNat
<1> HIDE DEF S
<1>3. SumFunctionOnSet(Lengths, S) \in Nat
    BY <1>1, <1>2, SumNat
<1>4. QED BY <1>3 DEF Before, S

LEMMA BeforeStep ==
    ASSUME TypeOK, NEW p \in Priority
    PROVE  Before(p - 1) = Before(p) + Len(listGroup[p])
<1> DEFINE S == {q \in Priority : q > p}
<1>1. IsFiniteSet(S) /\ p \notin S /\ p \in Int
    BY PriorityIsFinite, FS_Subset
<1>2. {q \in Priority : q > p - 1} = S \cup {p}
    <2>1. \A q \in Priority : q > p - 1 <=> (q > p \/ q = p)
        BY PriorityIsFinite
    <2>2. QED BY <2>1
<1>3. \A q \in S \cup {p} : Lengths[q] \in Int
    BY LengthsAreNat
<1>4. Lengths[p] = Len(listGroup[p]) /\ Lengths[p] \in Nat /\ Before(p) \in Nat
    BY <1>1, LengthsAreNat, BeforeIsNat
<1>5. Before(p) = SumFunctionOnSet(Lengths, S)
    BY DEF Before
<1> HIDE DEF S
<1>6. SumFunctionOnSet(Lengths, S \cup {p}) = Lengths[p] + SumFunctionOnSet(Lengths, S)
    BY <1>1, <1>3, SumAdd
<1>7. Before(p - 1) = SumFunctionOnSet(Lengths, S \cup {p})
    BY <1>2 DEF Before
<1>8. QED BY <1>4, <1>5, <1>6, <1>7

LEMMA BeforeEnds ==
    /\ Before(MaxTaskPriority) = 0
    /\ Before(0) = SumFunctionOnSet(Lengths, Priority)
<1>1. {q \in Priority : q > MaxTaskPriority} = {}
    BY QueueAssumption DEF Priority, MinTaskPriority
<1>2. {q \in Priority : q > 0} = Priority
    BY QueueAssumption DEF Priority, MinTaskPriority
<1>3. QED BY <1>1, <1>2, SumEmpty DEF Before

\* The list of a higher priority ends before that of a lower one begins.
LEMMA BeforeGrows ==
    ASSUME TypeOK, NEW p \in Priority, NEW r \in Priority, r > p
    PROVE  Before(r) + Len(listGroup[r]) <= Before(p)
<1> DEFINE C == {q \in Priority : q > p /\ ~(Before(q) + Len(listGroup[q]) <= Before(p))}
<1>1. SUFFICES ASSUME C # {} PROVE FALSE
    OBVIOUS
<1>2. Priority = 1..MaxTaskPriority /\ MaxTaskPriority \in Nat
    BY QueueAssumption DEF Priority, MinTaskPriority
<1>3. PICK k \in C : \A j \in C : k <= j
    <2>1. C \subseteq 1..MaxTaskPriority
        BY <1>2
    <2> HIDE DEF C
    <2>2. QED BY <2>1, <1>1, <1>2, LeastIndex
<1>4. k \in Priority /\ k > p /\ k \in Int /\ p \in Int /\ k - 1 \in Priority
    BY <1>2, <1>3
<1>5. Before(k - 1) = Before(k) + Len(listGroup[k])
    BY <1>4, BeforeStep
<1>6. CASE k - 1 = p
    <2>1. Before(p) \in Nat
        BY <1>4, BeforeIsNat
    <2>2. Before(k) + Len(listGroup[k]) <= Before(p)
        BY <1>5, <1>6, <2>1
    <2>3. QED BY <2>2, <1>3
<1>7. CASE k - 1 # p
    <2>1. k - 1 > p /\ k - 1 \notin C
        BY <1>3, <1>4, <1>7
    <2>2. Before(k - 1) + Len(listGroup[k - 1]) <= Before(p)
        BY <2>1, <1>4
    <2>3. Before(k - 1) \in Nat /\ Before(p) \in Nat /\ Len(listGroup[k - 1]) \in Nat
        <3>1. k - 1 \in Int
            BY <1>4
        <3>2. Before(k - 1) \in Nat /\ Before(p) \in Nat
            BY <3>1, <1>4, BeforeIsNat
        <3>3. Len(listGroup[k - 1]) \in Nat
            BY <1>4, LenProperties DEF TypeOK
        <3>4. QED BY <3>2, <3>3
    <2>4. Before(k) + Len(listGroup[k]) <= Before(p)
        BY <2>2, <2>3, <1>5
    <2>5. QED BY <2>4, <1>3
<1>8. QED BY <1>6, <1>7

\* In a, the concatenation of the lists from the highest priority down to p,
\* an entry is behind those of the higher priorities, at its place in its list.
Places(a, p) ==
    /\ Len(a) = Before(p - 1)
    /\ \A q \in Priority : q >= p => \A k \in 1..Len(listGroup[q]) :
         Before(q) + k \in 1..Len(a) /\ a[Before(q) + k] = listGroup[q][k]
    /\ \A m \in 1..Len(a) : \E q \in Priority :
         q >= p /\ \E k \in 1..Len(listGroup[q]) : m = Before(q) + k

LEMMA PlacesStep ==
    ASSUME TypeOK, NEW p \in Priority, NEW a \in Seq(Entry), Places(a, p + 1)
    PROVE  a \o listGroup[p] \in Seq(Entry) /\ Places(a \o listGroup[p], p)
<1> DEFINE s == listGroup[p]
           b == a \o s
<1>1. p \in Int /\ Priority \subseteq Int /\ s \in Seq(Entry) /\ Len(s) \in Nat /\ Len(a) \in Nat
    BY PriorityIsFinite, LenProperties DEF TypeOK
<1>2. Before(p) \in Nat /\ Before(p - 1) = Before(p) + Len(s)
    BY <1>1, BeforeIsNat, BeforeStep
<1>3. Len(a) = Before(p)
    BY <1>1 DEF Places
<1>4. /\ b \in Seq(Entry) /\ Len(b) = Len(a) + Len(s)
      /\ \A i \in 1..(Len(a) + Len(s)) : b[i] = IF i <= Len(a) THEN a[i] ELSE s[i - Len(a)]
    BY <1>1, ConcatProperties
<1> HIDE DEF b
<1>5. Len(b) = Before(p - 1)
    BY <1>2, <1>3, <1>4
<1>6. ASSUME NEW q \in Priority, q >= p, NEW k \in 1..Len(listGroup[q])
      PROVE  Before(q) + k \in 1..Len(b) /\ b[Before(q) + k] = listGroup[q][k]
    <2>1. CASE q = p
        <3>1. k \in 1..Len(s) /\ Before(q) = Len(a)
            BY <2>1, <1>3
        <3>2. /\ Len(a) + k \in 1..(Len(a) + Len(s)) /\ ~(Len(a) + k <= Len(a))
              /\ (Len(a) + k) - Len(a) = k
            BY <3>1, <1>1
        <3>3. b[Len(a) + k] = s[k]
            BY <3>2, <1>4
        <3>4. QED BY <3>1, <3>2, <3>3, <2>1, <1>4
    <2>2. CASE q # p
        <3>1. q >= p + 1
            BY <2>2, <1>1, <1>6
        <3>2. Before(q) + k \in 1..Len(a) /\ a[Before(q) + k] = listGroup[q][k]
            BY <3>1, <1>6 DEF Places
        <3>3. Before(q) + k \in 1..(Len(a) + Len(s)) /\ Before(q) + k <= Len(a)
            BY <3>2, <1>1
        <3>4. QED BY <3>2, <3>3, <1>4
    <2>3. QED BY <2>1, <2>2
<1>7. ASSUME NEW m \in 1..Len(b)
      PROVE  \E q \in Priority : q >= p /\ \E k \in 1..Len(listGroup[q]) : m = Before(q) + k
    <2>1. CASE m <= Len(a)
        <3>1. m \in 1..Len(a)
            BY <2>1, <1>1
        <3>2. PICK q \in Priority : q >= p + 1 /\ \E k \in 1..Len(listGroup[q]) : m = Before(q) + k
            BY <3>1 DEF Places
        <3>3. q >= p
            BY <3>2, <1>1
        <3>4. QED BY <3>2, <3>3
    <2>2. CASE m > Len(a)
        <3>1. m - Len(a) \in 1..Len(s) /\ m = Before(p) + (m - Len(a))
            BY <2>2, <1>1, <1>2, <1>3, <1>4
        <3>2. p >= p
            BY <1>1
        <3>3. QED BY <3>1, <3>2
    <2>3. m <= Len(a) \/ m > Len(a)
        BY <1>1, <1>4
    <2>4. QED BY <2>1, <2>2, <2>3
<1>8. Places(b, p)
    BY <1>5, <1>6, <1>7 DEF Places
<1>9. QED BY <1>4, <1>8 DEF b

LEMMA AllPlaces ==
    ASSUME TypeOK
    PROVE  All \in Seq(Entry) /\ Places(All, MinTaskPriority)
<1> DEFINE N == MaxTaskPriority
           seqs == [i \in 1..N |-> listGroup[Descending[i]]]
<1>1. N \in Nat \ {0} /\ Priority = 1..N
    BY QueueAssumption DEF Priority, MinTaskPriority
<1>2. \A i \in 1..N : N + 1 - i \in Priority /\ seqs[i] = listGroup[N + 1 - i]
    BY <1>1 DEF Descending
<1>3. seqs \in [1..N -> Seq(Entry)]
    BY <1>2 DEF TypeOK
<1>4. All = FlattenSeq(seqs)
    BY DEF All
<1> HIDE DEF seqs
<1>5. PICK g : Concatenates(g, seqs, N, Entry)
    <2>1. N \in Nat \ {0} /\ seqs \in [1..N -> Seq(Entry)]
        BY <1>1, <1>3
    <2> HIDE DEF N
    <2>2. QED BY <2>1, FlattenIsConcatenation
<1>6. Places(<<>>, N + 1)
    <2>1. (N + 1) - 1 = N /\ \A q \in Priority : ~(q >= N + 1)
        BY <1>1
    <2>2. Len(<<>>) = 0 /\ Before(N) = 0
        BY BeforeEnds
    <2>3. QED BY <2>1, <2>2 DEF Places
<1>7. Places(g[1], N)
    <2>1. N \in Priority /\ seqs[1] = listGroup[N] /\ listGroup[N] \in Seq(Entry)
        BY <1>1, <1>2 DEF TypeOK
    <2>2. <<>> \in Seq(Entry) /\ <<>> \o listGroup[N] = listGroup[N]
        BY <2>1, ConcatEmptySeq
    <2>3. Places(<<>> \o listGroup[N], N)
        BY <2>1, <2>2, <1>6, PlacesStep
    <2>4. QED BY <2>1, <2>2, <2>3, <1>5 DEF Concatenates
<1>8. \A i \in 1..N : Places(g[i], N + 1 - i)
    <2> DEFINE C == {i \in 1..N : ~ Places(g[i], N + 1 - i)}
    <2>1. SUFFICES ASSUME C # {} PROVE FALSE
        OBVIOUS
    <2>2. PICK k \in C : \A j \in C : k <= j
        <3>1. C \subseteq 1..N
            OBVIOUS
        <3> HIDE DEF C
        <3>2. QED BY <3>1, <2>1, <1>1, LeastIndex
    <2>3. k # 1
        <3>1. N + 1 - 1 = N
            BY <1>1
        <3>2. QED BY <3>1, <2>2, <1>7
    <2>4. /\ k \in 2..N /\ k - 1 \in 1..N /\ k - 1 \notin C
          /\ N + 1 - (k - 1) = (N + 1 - k) + 1
        BY <2>2, <2>3, <1>1
    <2>5. Places(g[k - 1], (N + 1 - k) + 1) /\ g[k - 1] \in Seq(Entry)
        BY <2>4, <1>5 DEF Concatenates
    <2>6. N + 1 - k \in Priority /\ seqs[k] = listGroup[N + 1 - k]
        BY <2>4, <1>2
    <2>7. g[k] = g[k - 1] \o listGroup[N + 1 - k]
        BY <2>4, <2>6, <1>5 DEF Concatenates
    <2>8. Places(g[k], N + 1 - k)
        BY <2>5, <2>6, <2>7, PlacesStep
    <2>9. QED BY <2>2, <2>8
<1>9. N \in 1..N /\ N + 1 - N = MinTaskPriority
    BY <1>1 DEF MinTaskPriority
<1>10. Places(g[N], MinTaskPriority) /\ g[N] \in Seq(Entry)
    <2>1. Places(g[N], N + 1 - N)
        BY <1>8, <1>9
    <2>2. QED BY <2>1, <1>5, <1>9 DEF Concatenates
<1>11. QED BY <1>4, <1>5, <1>10 DEF Concatenates

-----------------------------------------------------------------------------
(* The properties, in a state of the invariant.                            *)

\* In terms of All alone: its entries are those of the lists.
LEMMA AllIsLists ==
    ASSUME TypeOK
    PROVE  /\ All \in Seq(Entry) /\ DOMAIN All = 1..Len(All) /\ Len(All) \in Nat
           /\ Len(All) = SumFunctionOnSet(Lengths, Priority)
           /\ \A p \in Priority : \A k \in 1..Len(listGroup[p]) :
                Before(p) + k \in 1..Len(All) /\ All[Before(p) + k] = listGroup[p][k]
           /\ \A m \in 1..Len(All) : \E p \in Priority : \E k \in 1..Len(listGroup[p]) :
                m = Before(p) + k /\ All[m] = listGroup[p][k]
<1>1. All \in Seq(Entry) /\ Places(All, MinTaskPriority)
    BY AllPlaces
<1>2. DOMAIN All = 1..Len(All) /\ Len(All) \in Nat
    BY <1>1, LenProperties
<1>3. MinTaskPriority - 1 = 0 /\ \A q \in Priority : q >= MinTaskPriority
    BY QueueAssumption DEF Priority, MinTaskPriority
<1>4. Len(All) = SumFunctionOnSet(Lengths, Priority)
    BY <1>1, <1>3, BeforeEnds DEF Places
<1>5. \A p \in Priority : \A k \in 1..Len(listGroup[p]) :
        Before(p) + k \in 1..Len(All) /\ All[Before(p) + k] = listGroup[p][k]
    BY <1>1, <1>3 DEF Places
<1>6. \A m \in 1..Len(All) : \E p \in Priority : \E k \in 1..Len(listGroup[p]) : m = Before(p) + k
    BY <1>1 DEF Places
<1>7. \A m \in 1..Len(All) : \E p \in Priority : \E k \in 1..Len(listGroup[p]) :
        m = Before(p) + k /\ All[m] = listGroup[p][k]
    BY <1>5, <1>6
<1>8. QED BY <1>1, <1>2, <1>4, <1>5, <1>7

LEMMA Consistent ==
    ASSUME Inv
    PROVE  QueueIsConsistent
<1>1. TypeOK /\ PlaceInv /\ CountInv
    BY DEF Inv
<1>2. length = Len(All) /\ length = Cardinality(element)
    BY <1>1, AllIsLists DEF CountInv
<1>3. ASSUME NEW m \in 1..Len(All) PROVE All[m] \in element
    <2>1. PICK p \in Priority : \E k \in 1..Len(listGroup[p]) : All[m] = listGroup[p][k]
        BY <1>1, <1>3, AllIsLists
    <2>2. listGroup[p] \in Seq(Entry) /\ DOMAIN listGroup[p] = 1..Len(listGroup[p])
        BY <1>1, LenProperties DEF TypeOK
    <2>3. All[m] \in ToSet(listGroup[p])
        BY <2>1, <2>2 DEF ToSet
    <2>4. QED BY <2>3, <1>1 DEF PlaceInv
<1>4. ASSUME NEW e \in element PROVE \E m \in 1..Len(All) : All[m] = e
    <2>1. e.priority \in Priority /\ e \in ToSet(listGroup[e.priority])
        BY <1>1 DEF TypeOK, PlaceInv, Entry
    <2>2. /\ listGroup[e.priority] \in Seq(Entry)
          /\ DOMAIN listGroup[e.priority] = 1..Len(listGroup[e.priority])
        BY <2>1, <1>1, LenProperties DEF TypeOK
    <2>3. PICK k \in 1..Len(listGroup[e.priority]) : listGroup[e.priority][k] = e
        BY <2>1, <2>2 DEF ToSet
    <2>4. QED BY <2>1, <2>3, <1>1, AllIsLists
<1>5. DOMAIN All = 1..Len(All)
    BY <1>1, AllIsLists
<1>6. ToSet(All) = element
    BY <1>3, <1>4, <1>5 DEF ToSet
<1>7. QED BY <1>2, <1>6 DEF QueueIsConsistent

\* The entry of a task, in the map and in its list.
LEMMA EntryIsPlaced ==
    ASSUME Inv, NEW e \in element
    PROVE  /\ EntryOf(e.task) = e /\ e.priority \in Priority
           /\ listGroup[e.priority] \in Seq(Entry)
           /\ Position(e.task) \in 1..Len(listGroup[e.priority])
           /\ listGroup[e.priority][Position(e.task)] = e
<1> DEFINE s == listGroup[e.priority]
<1>1. TypeOK /\ PlaceInv /\ OnceInv
    BY DEF Inv
<1>2. e.priority \in Priority
    BY <1>1 DEF TypeOK, Entry
<1>3. EntryOf(e.task) = e
    BY <1>1 DEF EntryOf, OnceInv
<1>4. s \in Seq(Entry) /\ DOMAIN s = 1..Len(s)
    BY <1>1, <1>2, LenProperties DEF TypeOK
<1>5. ToSet(s) = {f \in element : f.priority = e.priority}
    BY <1>1, <1>2 DEF PlaceInv
<1>6. \E i \in DOMAIN s : s[i].task = e.task
    <2>1. e \in ToSet(s)
        BY <1>5
    <2>2. QED BY <2>1 DEF ToSet
<1>7. Position(e.task) = CHOOSE i \in DOMAIN s : s[i].task = e.task
    BY <1>3 DEF Position
<1>8. Position(e.task) \in DOMAIN s /\ s[Position(e.task)].task = e.task
    BY <1>6, <1>7
<1>9. s[Position(e.task)] \in element
    BY <1>5, <1>8 DEF ToSet
<1>10. s[Position(e.task)] = e
    BY <1>1, <1>8, <1>9 DEF OnceInv
<1>11. QED BY <1>2, <1>3, <1>4, <1>8, <1>10

\* What stands in a list is in the map, with the priority of the list.
LEMMA ListIsKnown ==
    ASSUME Inv, NEW p \in Priority, NEW k \in 1..Len(listGroup[p])
    PROVE  /\ listGroup[p][k] \in element /\ listGroup[p][k].priority = p
           /\ listGroup[p][k].time \in Nat
<1>1. TypeOK /\ PlaceInv
    BY DEF Inv
<1>2. DOMAIN listGroup[p] = 1..Len(listGroup[p])
    BY <1>1, LenProperties DEF TypeOK
<1>3. listGroup[p][k] \in ToSet(listGroup[p])
    BY <1>2 DEF ToSet
<1>4. listGroup[p][k] \in element /\ listGroup[p][k].priority = p
    BY <1>1, <1>3 DEF PlaceInv
<1>5. QED BY <1>1, <1>4, QueueAssumption DEF TypeOK, Entry

LEMMA Ranked ==
    ASSUME Inv
    PROVE  RankIsPosition
<1>1. TypeOK /\ SortedInv /\ DOMAIN All = 1..Len(All)
    BY AllIsLists DEF Inv
<1>2. ASSUME NEW i \in 1..Len(All), NEW j \in 1..Len(All), i < j
      PROVE  \/ All[i].priority > All[j].priority
             \/ All[i].priority = All[j].priority /\ All[i].time <= All[j].time
    <2>1. PICK p \in Priority : \E k \in 1..Len(listGroup[p]) :
             i = Before(p) + k /\ All[i] = listGroup[p][k]
        BY <1>1, AllIsLists
    <2>2. PICK k \in 1..Len(listGroup[p]) : i = Before(p) + k /\ All[i] = listGroup[p][k]
        BY <2>1
    <2>3. PICK q \in Priority : \E l \in 1..Len(listGroup[q]) :
             j = Before(q) + l /\ All[j] = listGroup[q][l]
        BY <1>1, AllIsLists
    <2>4. PICK l \in 1..Len(listGroup[q]) : j = Before(q) + l /\ All[j] = listGroup[q][l]
        BY <2>3
    <2>5. All[i].priority = p /\ All[j].priority = q
        BY <2>2, <2>4, ListIsKnown
    <2>6. /\ p \in Int /\ q \in Int /\ Before(p) \in Nat /\ Before(q) \in Nat
          /\ Len(listGroup[p]) \in Nat /\ Len(listGroup[q]) \in Nat
        <3>1. p \in Int /\ q \in Int
            BY PriorityIsFinite
        <3>2. Before(p) \in Nat /\ Before(q) \in Nat
            BY <1>1, <3>1, BeforeIsNat
        <3>3. QED BY <1>1, <3>1, <3>2, LenProperties DEF TypeOK
    <2>7. CASE p > q
        BY <2>5, <2>7
    <2>8. CASE p = q
        <3>1. k < l
            BY <1>2, <2>2, <2>4, <2>6, <2>8
        <3>2. DOMAIN listGroup[p] = 1..Len(listGroup[p])
            BY <1>1, LenProperties DEF TypeOK
        <3>3. listGroup[p][k].time <= listGroup[p][l].time
            BY <1>1, <2>8, <3>1, <3>2 DEF SortedInv, Sorted
        <3>4. QED BY <2>2, <2>4, <2>5, <2>8, <3>3
    <2>9. CASE q > p
        <3>1. Before(q) + Len(listGroup[q]) <= Before(p)
            BY <1>1, <2>9, BeforeGrows
        <3>2. j < i
            BY <3>1, <2>2, <2>4, <2>6
        <3>3. i \in Int /\ j \in Int
            OBVIOUS
        <3>4. QED BY <3>2, <3>3, <1>2
    <2>10. QED BY <2>6, <2>7, <2>8, <2>9
<1>3. ASSUME NEW e \in element
      PROVE  \E i \in 1..Len(All) : All[i] = e /\ Rank(e.task) = i - 1
    <2> DEFINE p == e.priority
               k == Position(e.task)
    <2>1. /\ EntryOf(e.task) = e /\ p \in Priority
          /\ k \in 1..Len(listGroup[p]) /\ listGroup[p][k] = e
        BY EntryIsPlaced
    <2>2. Rank(e.task) = k - 1 + Before(p)
        BY <2>1 DEF Rank, Before
    <2>3. p \in Int /\ Before(p) \in Nat /\ k \in Int
        <3> HIDE DEF p, k
        <3>1. p \in Int
            BY <2>1, PriorityIsFinite
        <3>2. k \in Int
            BY <2>1
        <3>3. QED BY <3>1, <3>2, <1>1, BeforeIsNat
    <2>4. Before(p) + k \in 1..Len(All) /\ All[Before(p) + k] = e
        BY <1>1, <2>1, AllIsLists
    <2> HIDE DEF p, k
    <2>5. Rank(e.task) = (Before(p) + k) - 1
        BY <2>2, <2>3
    <2>6. QED BY <2>4, <2>5
<1>4. QED BY <1>1, <1>2, <1>3 DEF RankIsPosition

-----------------------------------------------------------------------------
(* The invariant. *)

LEMMA EmptyIsInv ==
    ASSUME listGroup = [p \in Priority |-> <<>>], element = {}, length = 0
    PROVE  Inv
<1>1. TypeOK
    BY FS_EmptySet DEF TypeOK
<1>2. SortedInv /\ PlaceInv /\ OnceInv
    BY DEF SortedInv, Sorted, PlaceInv, OnceInv, ToSet
<1>3. \A p \in Priority : Lengths[p] = 0
    BY DEF Lengths
<1>4. SumFunctionOnSet(Lengths, Priority) = SumFunctionOnSet(Lengths, {})
    <2>1. /\ \A p \in Priority : Lengths[p] \in Int /\ {} \in SUBSET Priority
          /\ \A p \in Priority \ {} : Lengths[p] = 0
        BY <1>3
    <2>2. QED BY <2>1, PriorityIsFinite, SumZeros
<1>5. CountInv
    BY <1>4, SumEmpty, FS_EmptySet DEF CountInv
<1>6. QED BY <1>1, <1>2, <1>5 DEF Inv

LEMMA ClearNext ==
    ASSUME listGroup' = [p \in Priority |-> <<>>], element' = {}, length' = 0
    PROVE  Inv'
<1>1. TypeOK'
    BY FS_EmptySet DEF TypeOK
<1>2. SortedInv' /\ PlaceInv' /\ OnceInv'
    BY DEF SortedInv, Sorted, PlaceInv, OnceInv, ToSet
<1> DEFINE L == [p \in Priority |-> Len(listGroup'[p])]
<1>3. \A p \in Priority : L[p] = 0
    OBVIOUS
<1>4. Lengths' = L
    BY DEF Lengths
<1> HIDE DEF L
<1>5. SumFunctionOnSet(L, Priority) = SumFunctionOnSet(L, {})
    <2>1. /\ \A p \in Priority : L[p] \in Int /\ {} \in SUBSET Priority
          /\ \A p \in Priority \ {} : L[p] = 0
        BY <1>3
    <2>2. QED BY <2>1, PriorityIsFinite, SumZeros
<1>6. CountInv'
    BY <1>4, <1>5, SumEmpty, FS_EmptySet DEF CountInv
<1>7. QED BY <1>1, <1>2, <1>6 DEF Inv

\* One list changes, by d entries.
LEMMA LengthsChange ==
    ASSUME TypeOK, NEW p \in Priority, NEW n \in Seq(Entry), NEW d \in Int,
           Len(n) = Len(listGroup[p]) + d,
           listGroup' = [listGroup EXCEPT ![p] = n]
    PROVE  SumFunctionOnSet(Lengths, Priority)' = SumFunctionOnSet(Lengths, Priority) + d
<1> DEFINE L == [q \in Priority |-> Len(listGroup'[q])]
<1>1. L[p] = Len(n) /\ \A q \in Priority \ {p} : L[q] = Lengths[q]
    BY DEF TypeOK, Lengths
<1>2. Lengths' = L
    BY DEF Lengths
<1>3. Lengths[p] = Len(listGroup[p]) /\ Len(listGroup[p]) \in Nat /\ Len(n) \in Nat
    BY LengthsAreNat, LenProperties DEF TypeOK
<1> HIDE DEF L
<1>4. \A q \in Priority : Lengths[q] \in Int
    BY LengthsAreNat
<1>5. L[p] \in Int
    BY <1>1, <1>3
<1>6. SumFunctionOnSet(L, Priority) = SumFunctionOnSet(Lengths, Priority) - Lengths[p] + L[p]
    <2>1. IsFiniteSet(Priority)
        BY PriorityIsFinite
    <2>2. \A q \in Priority \ {p} : L[q] = Lengths[q]
        BY <1>1
    <2>3. QED BY <2>1, <2>2, <1>4, <1>5, SumChange
<1>7. SumFunctionOnSet(Lengths, Priority) \in Int
    BY <1>4, PriorityIsFinite, SumInt
<1>8. SumFunctionOnSet(L, Priority) = SumFunctionOnSet(Lengths, Priority) + d
    BY <1>1, <1>3, <1>6, <1>7
<1>9. QED BY <1>2, <1>8

LEMMA AddKeepsInv ==
    ASSUME Inv, NEW e \in Entry, Add(e)
    PROVE  Inv'
<1> DEFINE p == e.priority
           n == InsertAt(listGroup[p], InsertPosition(e, listGroup[p]), e)
<1>1. TypeOK /\ SortedInv /\ PlaceInv /\ OnceInv /\ CountInv
    BY DEF Inv
<1>2. p \in Priority /\ listGroup[p] \in Seq(Entry)
    BY <1>1 DEF TypeOK, Entry
<1>3. /\ \A f \in element : f.task # e.task
      /\ listGroup' = [listGroup EXCEPT ![p] = n]
      /\ element' = element \cup {e} /\ length' = length + 1
    BY DEF Add, Known
<1>4. ToSet(listGroup[p]) = {f \in element : f.priority = p}
    BY <1>1, <1>2 DEF PlaceInv
<1>5. Sorted(listGroup[p])
    BY <1>1, <1>2 DEF SortedInv
<1>6. /\ n \in Seq(Entry) /\ Len(n) = Len(listGroup[p]) + 1 /\ Sorted(n)
      /\ ToSet(n) = ToSet(listGroup[p]) \cup {e}
    BY <1>2, <1>3, <1>4, <1>5, InsertKeepsOrder
<1> HIDE DEF n
<1>7. listGroup'[p] = n /\ \A q \in Priority : q # p => listGroup'[q] = listGroup[q]
    BY <1>1, <1>2, <1>3 DEF TypeOK
<1>8. TypeOK'
    BY <1>1, <1>2, <1>3, <1>6, FS_AddElement DEF TypeOK
<1>9. SortedInv'
    BY <1>1, <1>6, <1>7 DEF SortedInv
<1>10. PlaceInv'
    <2>1. ASSUME NEW q \in Priority
          PROVE  ToSet(listGroup'[q]) = {f \in element \cup {e} : f.priority = q}
        <3>1. CASE q = p
            <4>1. {f \in element \cup {e} : f.priority = q} = {f \in element : f.priority = q} \cup {e}
                BY <3>1
            <4>2. QED BY <4>1, <3>1, <1>4, <1>6, <1>7
        <3>2. CASE q # p
            <4>1. {f \in element \cup {e} : f.priority = q} = {f \in element : f.priority = q}
                BY <3>2
            <4>2. listGroup'[q] = listGroup[q] /\ ToSet(listGroup[q]) = {f \in element : f.priority = q}
                BY <3>2, <1>1, <1>7 DEF PlaceInv
            <4>3. QED BY <4>1, <4>2
        <3>3. QED BY <3>1, <3>2
    <2>2. QED BY <2>1, <1>3 DEF PlaceInv, ToSet
<1>11. OnceInv'
    BY <1>1, <1>3 DEF OnceInv
<1>12. SumFunctionOnSet(Lengths, Priority)' = SumFunctionOnSet(Lengths, Priority) + 1
    <2>1. TypeOK /\ 1 \in Int /\ Len(n) = Len(listGroup[p]) + 1
        BY <1>1, <1>6
    <2> HIDE DEF p
    <2>2. QED BY <2>1, <1>2, <1>3, <1>6, LengthsChange
<1>13. Cardinality(element') = Cardinality(element) + 1
    BY <1>1, <1>3, FS_AddElement DEF TypeOK
<1>14. CountInv'
    BY <1>1, <1>3, <1>12, <1>13 DEF CountInv
<1>15. QED BY <1>8, <1>9, <1>10, <1>11, <1>14 DEF Inv

LEMMA DeleteKeepsInv ==
    ASSUME Inv, NEW t \in Task, Delete(t)
    PROVE  Inv'
<1>1. TypeOK /\ SortedInv /\ PlaceInv /\ OnceInv /\ CountInv
    BY DEF Inv
<1>2. PICK e \in element : e.task = t
    BY DEF Delete, Known
<1> DEFINE p == e.priority
           k == Position(t)
           n == RemoveAt(listGroup[p], k)
<1>3. /\ EntryOf(t) = e /\ p \in Priority /\ listGroup[p] \in Seq(Entry)
      /\ k \in 1..Len(listGroup[p]) /\ listGroup[p][k] = e
    BY <1>2, EntryIsPlaced
<1>4. /\ listGroup' = [listGroup EXCEPT ![p] = n]
      /\ element' = {f \in element : f.task # t} /\ length' = length - 1
    BY <1>3 DEF Delete
<1>5. element' = element \ {e}
    BY <1>1, <1>2, <1>4 DEF OnceInv
<1>6. Sorted(listGroup[p]) /\ ToSet(listGroup[p]) = {f \in element : f.priority = p}
    BY <1>1, <1>3 DEF SortedInv, PlaceInv
<1>7. /\ n \in Seq(Entry) /\ Len(n) = Len(listGroup[p]) - 1 /\ Sorted(n)
      /\ ToSet(n) = ToSet(listGroup[p]) \ {e}
    BY <1>3, <1>6, RemoveKeepsOrder
<1> HIDE DEF n, k
<1>8. listGroup'[p] = n /\ \A q \in Priority : q # p => listGroup'[q] = listGroup[q]
    BY <1>1, <1>3, <1>4 DEF TypeOK
<1>9. TypeOK'
    BY <1>1, <1>3, <1>4, <1>5, <1>7, FS_RemoveElement DEF TypeOK
<1>10. SortedInv'
    BY <1>1, <1>7, <1>8 DEF SortedInv
<1>11. PlaceInv'
    <2>1. ASSUME NEW q \in Priority
          PROVE  ToSet(listGroup'[q]) = {f \in element \ {e} : f.priority = q}
        <3>1. CASE q = p
            <4>1. {f \in element \ {e} : f.priority = q} = {f \in element : f.priority = q} \ {e}
                BY <3>1
            <4>2. QED BY <4>1, <3>1, <1>6, <1>7, <1>8
        <3>2. CASE q # p
            <4>1. {f \in element \ {e} : f.priority = q} = {f \in element : f.priority = q}
                BY <3>2
            <4>2. listGroup'[q] = listGroup[q] /\ ToSet(listGroup[q]) = {f \in element : f.priority = q}
                BY <3>2, <1>1, <1>8 DEF PlaceInv
            <4>3. QED BY <4>1, <4>2
        <3>3. QED BY <3>1, <3>2
    <2>2. QED BY <2>1, <1>5 DEF PlaceInv, ToSet
<1>12. OnceInv'
    BY <1>1, <1>5 DEF OnceInv
<1>13. SumFunctionOnSet(Lengths, Priority)' = SumFunctionOnSet(Lengths, Priority) + (-1)
    <2>1. Len(n) = Len(listGroup[p]) + (-1)
        <3>1. Len(listGroup[p]) \in Nat
            BY <1>3, LenProperties
        <3>2. QED BY <3>1, <1>7
    <2>2. TypeOK /\ -1 \in Int
        BY <1>1
    <2> HIDE DEF p
    <2>3. QED BY <2>1, <2>2, <1>3, <1>4, <1>7, LengthsChange
<1>14. Cardinality(element') = Cardinality(element) - 1 /\ Cardinality(element) \in Nat
    BY <1>1, <1>5, FS_RemoveElement, FS_CardinalityType DEF TypeOK
<1>15. CountInv'
    BY <1>1, <1>4, <1>13, <1>14 DEF CountInv
<1>16. QED BY <1>9, <1>10, <1>11, <1>12, <1>15 DEF Inv

LEMMA CheckedIsPriority ==
    ASSUME NEW n
    PROVE  CheckPriority(n) \in Priority
BY QueueAssumption DEF CheckPriority, Priority, MinTaskPriority

LEMMA InitIsInv == Init => Inv
BY EmptyIsInv DEF Init

LEMMA NextKeepsInv == Inv /\ [Next]_vars => Inv'
<1> SUFFICES ASSUME Inv, [Next]_vars PROVE Inv'
    OBVIOUS
<1>1. ASSUME NEW t \in Task, NEW n \in Setting, NEW c \in Time,
             Add([task |-> t, priority |-> CheckPriority(n), time |-> c])
      PROVE  Inv'
    <2>1. [task |-> t, priority |-> CheckPriority(n), time |-> c] \in Entry
        BY CheckedIsPriority DEF Entry
    <2>2. QED BY <1>1, <2>1, AddKeepsInv
<1>2. ASSUME NEW t \in Task, Delete(t) PROVE Inv'
    BY <1>2, DeleteKeepsInv
<1>3. CASE Clear
    BY <1>3, ClearNext DEF Clear
<1>4. CASE UNCHANGED <<listGroup, element, length>>
    BY <1>4 DEF Inv, TypeOK, SortedInv, Sorted, PlaceInv, OnceInv, CountInv, Lengths
<1>5. First \/ UNCHANGED vars => UNCHANGED <<listGroup, element, length>>
    BY DEF First, vars
<1>6. QED BY <1>1, <1>2, <1>3, <1>4, <1>5 DEF Next

\* The invariant holds in every reachable state.
THEOREM Inductive == Spec => []Inv
BY InitIsInv, NextKeepsInv, PTL DEF Spec

\* QueueIsConsistent: All, the lists, the map and the length agree.
THEOREM QueueStaysConsistent == Spec => []QueueIsConsistent
<1>1. Inv => QueueIsConsistent
    BY Consistent
<1>2. QED BY <1>1, Inductive, PTL

\* RankIsPosition: All is in the order the interface promises, and the rank of
\* a task the number of tasks before it.
THEOREM RankIsRight == Spec => []RankIsPosition
<1>1. Inv => RankIsPosition
    BY Ranked
<1>2. QED BY <1>1, Inductive, PTL

-----------------------------------------------------------------------------
(* Refinement: the queue does what PriorityQueue promises, step by step.    *)

\* The head of a list comes before the others of its priority.
LEMMA HeadIsFirst ==
    ASSUME Inv, NEW p \in Nonempty
    PROVE  /\ Head(listGroup[p]) \in element /\ Head(listGroup[p]).priority = p
           /\ \A f \in element : f.priority = p => Head(listGroup[p]).time <= f.time
<1> DEFINE s == listGroup[p]
<1>1. p \in Priority /\ TypeOK /\ SortedInv /\ s # <<>>
    BY DEF Nonempty, Inv
<1>2. s \in Seq(Entry) /\ Len(s) \in Nat \ {0} /\ DOMAIN s = 1..Len(s)
    BY <1>1, EmptySeq, LenProperties DEF TypeOK
<1>3. Head(s) = s[1] /\ 1 \in 1..Len(s)
    BY <1>2
<1>4. s[1] \in element /\ s[1].priority = p /\ s[1].time \in Nat
    BY <1>1, <1>3, ListIsKnown
<1>5. ASSUME NEW f \in element, f.priority = p PROVE s[1].time <= f.time
    <2> DEFINE k == Position(f.task)
    <2>1. k \in 1..Len(s) /\ s[k] = f
        BY <1>5, EntryIsPlaced
    <2> HIDE DEF k
    <2>2. CASE k = 1
        BY <2>1, <2>2, <1>4
    <2>3. CASE k # 1
        <3>1. 1 < k
            BY <2>1, <2>3
        <3>2. QED BY <3>1, <2>1, <1>1, <1>2, <1>3 DEF SortedInv, Sorted
    <2>4. QED BY <2>2, <2>3
<1>6. QED BY <1>3, <1>4, <1>5

LEMMA FirstIsBest ==
    ASSUME Inv, First
    PROVE  Queue!First
<1>1. TypeOK
    BY DEF Inv
<1> DEFINE F == {q \in Nonempty : \A r \in Nonempty : q >= r}
<1>2. front' = {Head(listGroup[p]).task : p \in F} /\ UNCHANGED element
    BY DEF First
<1>3. Nonempty \subseteq 1..MaxTaskPriority /\ MaxTaskPriority \in Nat /\ Nonempty \subseteq Priority
    BY QueueAssumption DEF Nonempty, Priority, MinTaskPriority
<1>4. ASSUME NEW e \in element PROVE e.priority \in Nonempty /\ e.priority \in Int /\ e.time \in Nat
    <2>1. e.priority \in Priority /\ Position(e.task) \in 1..Len(listGroup[e.priority])
        BY EntryIsPlaced
    <2>2. Len(listGroup[e.priority]) # 0
        BY <2>1
    <2>3. listGroup[e.priority] # <<>>
        BY <2>2, EmptySeq
    <2>4. e.time \in Nat /\ e.priority \in Int
        BY <1>1, <2>1, PriorityIsFinite, QueueAssumption DEF TypeOK, Entry
    <2>5. QED BY <2>1, <2>3, <2>4 DEF Nonempty
<1>5. ASSUME NEW p \in F PROVE Head(listGroup[p]) \in Queue!Best
    <2> DEFINE h == Head(listGroup[p])
    <2>1. p \in Nonempty /\ p \in Int /\ \A r \in Nonempty : p >= r
        BY <1>3
    <2>2. h \in element /\ h.priority = p /\ \A f \in element : f.priority = p => h.time <= f.time
        BY <2>1, HeadIsFirst
    <2> HIDE DEF h
    <2>3. ASSUME NEW f \in element PROVE ~ Queue!Precedes(f, h)
        <3>1. f.priority \in Int /\ f.time \in Nat /\ h.time \in Nat /\ p >= f.priority
            BY <2>1, <2>2, <1>4
        <3>2. ~(f.priority > h.priority)
            BY <3>1, <2>1, <2>2
        <3>3. f.priority = h.priority => ~(f.time < h.time)
            BY <3>1, <2>2
        <3>4. QED BY <3>2, <3>3 DEF Queue!Precedes
    <2>4. h \in Queue!Best
        BY <2>2, <2>3 DEF Queue!Best
    <2>5. QED BY <2>4 DEF h
<1>6. front' \subseteq {e.task : e \in Queue!Best}
    <2> HIDE DEF F
    <2>1. QED BY <1>2, <1>5
<1>7. element = {} => front' = {}
    <2>1. ASSUME NEW p \in F PROVE element # {}
        BY <1>3, HeadIsFirst
    <2> HIDE DEF F
    <2>2. QED BY <2>1, <1>2
<1>8. element # {} => front' # {}
    <2>1. SUFFICES ASSUME NEW e \in element PROVE front' # {}
        OBVIOUS
    <2>2. Nonempty # {}
        BY <1>4
    <2>3. Max(Nonempty) \in Nonempty /\ \A r \in Nonempty : r <= Max(Nonempty)
        BY <1>3, <2>2, GreatestIndex
    <2>4. PICK m \in Nonempty : \A r \in Nonempty : r <= m
        BY <2>3
    <2>5. m \in F
        BY <2>4, <1>3
    <2> HIDE DEF F
    <2>6. QED BY <2>5, <1>2
<1>9. QED BY <1>2, <1>6, <1>7, <1>8 DEF Queue!First

LEMMA StepImplements ==
    Inv /\ [Next]_vars => [Queue!Next]_<<element, front>>
<1> SUFFICES ASSUME Inv, [Next]_vars PROVE [Queue!Next]_<<element, front>>
    OBVIOUS
<1>1. ASSUME NEW t \in Task, NEW n \in Setting, NEW c \in Time,
             Add([task |-> t, priority |-> CheckPriority(n), time |-> c])
      PROVE  Queue!Next
    <2> DEFINE e == [task |-> t, priority |-> CheckPriority(n), time |-> c]
    <2>1. e \in Queue!Entry
        BY CheckedIsPriority DEF Queue!Entry
    <2>2. Add(e)
        BY <1>1
    <2> HIDE DEF e
    <2>3. Queue!Add(e)
        BY <2>2 DEF Add, Known, Queue!Add
    <2>4. QED BY <2>1, <2>3 DEF Queue!Next
<1>2. ASSUME NEW t \in Task, Delete(t) PROVE Queue!Next
    <2>1. Queue!Delete(t)
        BY <1>2 DEF Delete, Queue!Delete
    <2>2. QED BY <2>1 DEF Queue!Next
<1>3. CASE Clear
    BY <1>3 DEF Clear, Queue!Clear, Queue!Next
<1>4. CASE First
    BY <1>4, FirstIsBest DEF Queue!Next
<1>5. CASE UNCHANGED vars
    BY <1>5 DEF vars
<1>6. QED BY <1>1, <1>2, <1>3, <1>4, <1>5 DEF Next

\* QueueImplementsPromise: the queue is a set of tasks whose First is one of the
\* highest priority, created before the others of that priority.
THEOREM QueueKeepsPromise == Spec => QueueImplementsPromise
<1>1. Init => Queue!Init
    BY DEF Init, Queue!Init
<1>2. QED BY <1>1, StepImplements, Inductive, PTL DEF Spec, QueueImplementsPromise, Queue!Spec


-----------------------------------------------------------------------------
(* The keeper. *)

\* A beat b is not older than n units, or the clients have been back for so
\* short a time that no newer one is due.
Within(b, n) == now - b <= n \/ now - (startTime + Reconnect - 1) <= n

\* The server is up, or has not noticed yet that it is not.
Awake == up \/ (startTime + Grace < now /\ \E k \in 1..MaxTerm : keeper[k] = "work")

\* How old the beat in the cache, and that in the copy of a handler, may be.
BeatInv(t) == Within(beat[t], 2 * writes[t] + IF sent[t] THEN 0 ELSE 1)
CopyInv(t) ==
    copy[t] # None => Within(copy[t][1], 2 * writes[t] - IF copy[t][2] = now THEN 1 ELSE 0)

\* The goroutines are those of the terms so far, and before the first nothing
\* is left of another process.
TermInv ==
    /\ up => term > 0
    /\ \A k \in 1..MaxTerm : k > term => keeper[k] = "none"
    /\ term = 0 => ~recovered /\ \A t \in Watched : copy[t] = None

\* A keeper sleeps for its grace time, and in its first term it waits.
LifeInv ==
    /\ \A k \in 1..MaxTerm : keeper[k] = "sleep" => wake[k] <= startTime + Grace /\ now <= wake[k]
    /\ recovered => term > 1 \/ startTime + Wait < now
    /\ Awake => \A t \in Watched : client[t] = "alive" => BeatInv(t) /\ CopyInv(t)

KeeperInv == KeeperTypeOK /\ TermInv /\ LifeInv

-----------------------------------------------------------------------------

LEMMA InitKeeper == KeeperInit => KeeperInv
<1> SUFFICES ASSUME KeeperInit
             PROVE  KeeperInv
  OBVIOUS
<1>1. KeeperTypeOK
  <2>1. /\ up = FALSE /\ recovered = FALSE /\ now = 0 /\ startTime = 0 /\ crashes = 0 /\ term = 0
        /\ wake \in [1..MaxTerm -> {0}] /\ beat \in [Watched -> {0}] /\ row \in [Watched -> {0}]
        /\ writes \in [Watched -> {0}] /\ copy \in [Watched -> {None}]
        /\ keeper \in [1..MaxTerm -> {"none"}] /\ client \in [Watched -> {"alive"}]
        /\ failed \in [Watched -> BOOLEAN] /\ sent \in [Watched -> BOOLEAN]
    BY DEF KeeperInit
  <2>2. /\ 0 \in 0..MaxTime /\ 0 \in 0..MaxTerm /\ 0 \in 0..now /\ 0 \in 0..(MaxTime + Grace)
        /\ 0 \in 0..MaxWrite /\ 0 \in 0..MaxCrash
    BY <2>1, KeeperAssumption
  <2>3. up \in BOOLEAN /\ recovered \in BOOLEAN
    BY <2>1, Zenon
  <2> QED  BY <2>1, <2>2, <2>3 DEF KeeperTypeOK
<1>2. ~up /\ ~recovered /\ \A k \in 1..MaxTerm : keeper[k] = "none"
  BY DEF KeeperInit
<1>3. TermInv
  BY <1>2 DEF KeeperInit, TermInv
<1>4. LifeInv
  BY <1>2 DEF LifeInv, Awake
<1> QED  BY <1>1, <1>3, <1>4 DEF KeeperInv

\* Every variable keeps its shape, and no beat is later than the clock.
LEMMA KeeperTypes ==
    ASSUME KeeperTypeOK, KeeperNext
    PROVE  KeeperTypeOK'
<1> USE KeeperAssumption
<1>0. now \in Nat /\ startTime \in Nat /\ 1 \in 1..MaxTerm
  BY DEF KeeperTypeOK
<1>1. CASE Start
  BY <1>0, <1>1 DEF KeeperTypeOK, Start
<1>2. CASE Stop
  BY <1>0, <1>2 DEF KeeperTypeOK, Stop
<1>3. CASE Crash
  <2>1. /\ up' = FALSE /\ recovered' = FALSE /\ term' = 0 /\ startTime' = 0
        /\ wake' \in [1..MaxTerm -> {0}] /\ copy' \in [Watched -> {None}]
        /\ keeper' \in [1..MaxTerm -> {"none"}] /\ crashes' = crashes + 1 /\ crashes < MaxCrash
        /\ UNCHANGED <<now, beat, row, writes, failed, client, sent>>
    BY <1>3 DEF Crash
  <2>2. /\ 0 \in 0..MaxTerm /\ 0 \in 0..now /\ 0 \in 0..(MaxTime + Grace)
        /\ crashes' \in 0..MaxCrash
    BY <1>0, <2>1 DEF KeeperTypeOK
  <2>3. up' \in BOOLEAN /\ recovered' \in BOOLEAN
    BY <2>1, Zenon
  <2>4. /\ startTime' \in 0..now /\ term' \in 0..MaxTerm
        /\ wake' \in [1..MaxTerm -> 0..(MaxTime + Grace)]
        /\ keeper' \in [1..MaxTerm -> {"none", "sleep", "work"}]
        /\ copy' \in [Watched -> {None} \cup ((0..now) \X (0..now))]
    BY <2>1, <2>2
  <2> QED  BY <2>1, <2>2, <2>3, <2>4 DEF KeeperTypeOK
<1>4. CASE Tick
  <2>1. 0..now \subseteq 0..(now + 1) /\ now + 1 \in 0..MaxTime
    BY <1>0, <1>4 DEF Tick
  <2> QED  BY <1>0, <1>4, <2>1 DEF KeeperTypeOK, Tick, srv
<1>5. ASSUME NEW t \in Watched, UpdateHeartbeat(t) PROVE KeeperTypeOK'
  BY <1>0, <1>5 DEF KeeperTypeOK, UpdateHeartbeat, srv
<1>6. ASSUME NEW t \in Watched, ClientLost(t) PROVE KeeperTypeOK'
  BY <1>0, <1>6 DEF KeeperTypeOK, ClientLost, srv
<1>7. ASSUME NEW t \in Watched, Get(t) PROVE KeeperTypeOK'
  <2>1. <<beat[t], now>> \in (0..now) \X (0..now)
    BY <1>0 DEF KeeperTypeOK
  <2>2. copy' \in [Watched -> {None} \cup ((0..now) \X (0..now))]
    BY <1>7, <2>1 DEF KeeperTypeOK, Get
  <2>3. writes' \in [Watched -> 0..MaxWrite]
    BY <1>7 DEF KeeperTypeOK, Get
  <2> QED  BY <1>7, <2>2, <2>3 DEF KeeperTypeOK, Get, srv
<1>8. ASSUME NEW t \in Watched, Update(t) PROVE KeeperTypeOK'
  <2>1. copy[t][1] \in 0..now
    BY <1>8 DEF KeeperTypeOK, Update
  <2> QED  BY <1>0, <1>8, <2>1 DEF KeeperTypeOK, Update, srv
<1>9. ASSUME NEW k \in 1..MaxTerm, Wake(k) \/ Shutdown(k) PROVE KeeperTypeOK'
  BY <1>0, <1>9 DEF KeeperTypeOK, Wake, Shutdown
<1>10. ASSUME NEW k \in 1..MaxTerm, NEW t \in Watched, Check(k, t) PROVE KeeperTypeOK'
  <2>1. (beat[t] + Timeout < now) \in BOOLEAN
    OBVIOUS
  <2>2. failed' \in [Watched -> BOOLEAN]
    BY <1>10, <2>1 DEF KeeperTypeOK, Check
  <2>3. row' \in [Watched -> 0..now] /\ recovered' \in BOOLEAN
    BY <1>10 DEF KeeperTypeOK, Check
  <2> QED  BY <1>0, <1>10, <2>2, <2>3 DEF KeeperTypeOK, Check
<1> QED  BY <1>1, <1>2, <1>3, <1>4, <1>5, <1>6, <1>7, <1>8, <1>9, <1>10 DEF KeeperNext

LEMMA KeeperTerms ==
    ASSUME KeeperTypeOK, TermInv, KeeperNext
    PROVE  TermInv'
<1> USE KeeperAssumption DEF TermInv
<1>0. term \in Nat
  BY DEF KeeperTypeOK
<1>1. CASE Start
  BY <1>0, <1>1 DEF KeeperTypeOK, Start
<1>2. CASE Stop
  BY <1>2 DEF Stop
<1>3. CASE Crash
  BY <1>3 DEF Crash
<1>4. CASE Tick
  BY <1>4 DEF Tick, srv
<1>5. ASSUME NEW t \in Watched, UpdateHeartbeat(t) \/ ClientLost(t) PROVE TermInv'
  BY <1>5 DEF UpdateHeartbeat, ClientLost, srv
<1>6. ASSUME NEW t \in Watched, Get(t) \/ Update(t) PROVE TermInv'
  BY <1>0, <1>6 DEF Get, Update, srv
<1>7. ASSUME NEW k \in 1..MaxTerm, Wake(k) \/ Shutdown(k) PROVE TermInv'
  BY <1>7 DEF KeeperTypeOK, Wake, Shutdown
<1>8. ASSUME NEW k \in 1..MaxTerm, NEW t \in Watched, Check(k, t) PROVE TermInv'
  BY <1>0, <1>8 DEF Check
<1> QED  BY <1>1, <1>2, <1>3, <1>4, <1>5, <1>6, <1>7, <1>8 DEF KeeperNext

-----------------------------------------------------------------------------
(* The life of a process. *)

\* What a step keeps when it touches no beat that counts.
LEMMA BeatsStay ==
    ASSUME LifeInv,
           UNCHANGED <<now, startTime, beat, copy, writes, sent>>,
           Awake' => Awake, \A t \in Watched : client'[t] = "alive" => client[t] = "alive"
    PROVE  Awake' => \A t \in Watched : client'[t] = "alive" => BeatInv(t)' /\ CopyInv(t)'
<1>1. /\ now' = now /\ startTime' = startTime /\ beat' = beat /\ copy' = copy
      /\ writes' = writes /\ sent' = sent
  OBVIOUS
<1>2. ASSUME Awake', NEW t \in Watched, client'[t] = "alive"
      PROVE  BeatInv(t) /\ CopyInv(t)
  BY <1>2 DEF LifeInv
<1>3. ASSUME NEW t \in Watched
      PROVE  (BeatInv(t)' <=> BeatInv(t)) /\ (CopyInv(t)' <=> CopyInv(t))
  BY <1>1 DEF BeatInv, CopyInv, Within
<1> QED  BY <1>2, <1>3

LEMMA KeeperLife ==
    ASSUME Intervals, KeeperInv, KeeperNext, KeeperTypeOK'
    PROVE  LifeInv'
<1>0. /\ now \in Nat /\ startTime \in Nat /\ Grace \in Nat /\ Wait \in Nat /\ Reconnect \in Nat
      /\ 1 \in 1..MaxTerm /\ term \in Nat
      /\ \A t \in Watched : beat[t] \in 0..now /\ writes[t] \in 0..MaxWrite /\ sent[t] \in BOOLEAN
      /\ KeeperTypeOK /\ TermInv /\ LifeInv
  <2>1. KeeperTypeOK /\ TermInv /\ LifeInv
    BY DEF KeeperInv
  <2>2. /\ now \in 0..MaxTime /\ startTime \in 0..now /\ term \in 0..MaxTerm
        /\ \A t \in Watched : beat[t] \in 0..now /\ writes[t] \in 0..MaxWrite /\ sent[t] \in BOOLEAN
    BY <2>1 DEF KeeperTypeOK
  <2> QED  BY <2>1, <2>2, KeeperAssumption
<1>1. CASE Start
  <2>1. /\ startTime' = now /\ now' = now /\ UNCHANGED <<recovered, copy, sent, client>>
        /\ keeper' = [keeper EXCEPT ![term'] = "sleep"]
        /\ wake' = [wake EXCEPT ![term'] = now + Grace]
        /\ term' = term + 1 /\ term' \in 1..MaxTerm /\ beat' = row
        /\ \A t \in Watched : writes'[t] = 0
    BY <1>0, <1>1, KeeperAssumption DEF Start, KeeperTypeOK
  <2>2. \A k \in 1..MaxTerm : keeper'[k] = "sleep" => wake'[k] <= startTime' + Grace /\ now <= wake'[k]
    <3>1. SUFFICES ASSUME NEW k \in 1..MaxTerm, keeper'[k] = "sleep"
                   PROVE  wake'[k] <= now + Grace /\ now <= wake'[k]
      BY <2>1
    <3>2. CASE k = term'
      <4>1. wake'[k] = now + Grace
        BY <1>0, <2>1, <3>2 DEF KeeperTypeOK
      <4> QED  BY <1>0, <4>1
    <3>3. CASE k # term'
      <4>1. wake'[k] = wake[k] /\ keeper[k] = "sleep" /\ wake[k] \in Nat
        BY <1>0, <2>1, <3>1, <3>3, KeeperAssumption DEF KeeperTypeOK
      <4>2. startTime <= now
        BY <1>0 DEF KeeperTypeOK
      <4> QED  BY <1>0, <4>1, <4>2 DEF LifeInv
    <3> QED  BY <3>2, <3>3
  <2>3. recovered' => term' > 1
    BY <1>0, <2>1 DEF TermInv
  <2>4. ASSUME NEW t \in Watched
        PROVE  BeatInv(t)' /\ CopyInv(t)'
    <3>1. now' - (startTime' + Reconnect - 1) <= 0 - 1 /\ writes'[t] = 0
      BY <1>0, <2>1 DEF Intervals
    <3> QED  BY <1>0, <2>1, <3>1 DEF BeatInv, CopyInv, Within
  <2> QED  BY <2>1, <2>2, <2>3, <2>4 DEF LifeInv
<1>2. CASE Crash
  <2>1. up' = FALSE /\ recovered' = FALSE /\ \A k \in 1..MaxTerm : keeper'[k] = "none"
    BY <1>2 DEF Crash
  <2> QED  BY <2>1 DEF LifeInv, Awake
<1>3. CASE Stop
  BY <1>0, <1>3, BeatsStay DEF Stop, LifeInv, Awake
<1>4. CASE Tick
  <2>1. /\ now' = now + 1 /\ (Awake' => up)
        /\ UNCHANGED <<up, term, startTime, recovered, keeper, wake, beat, copy, writes, client>>
        /\ \A t \in Watched : sent'[t] = FALSE /\ (copy[t] # None => copy[t][2] = now)
        /\ \A k \in 1..MaxTerm : keeper[k] = "sleep" => now < wake[k]
        /\ Connected => \A t \in Watched : client[t] = "alive" => sent[t]
    BY <1>0, <1>4 DEF Tick, srv, Awake
  <2>2. \A k \in 1..MaxTerm : wake[k] \in Nat
    BY <1>0, KeeperAssumption DEF KeeperTypeOK
  <2>3. ASSUME up, NEW t \in Watched, client[t] = "alive"
        PROVE  BeatInv(t)' /\ CopyInv(t)'
    <3>1. BeatInv(t) /\ CopyInv(t)
      BY <1>0, <2>1, <2>3 DEF LifeInv, Awake
    <3>2. BeatInv(t)'
      <4>1. CASE sent[t]
        BY <1>0, <2>1, <3>1, <4>1 DEF BeatInv, Within
      <4>2. CASE ~sent[t]
        <5>1. now < startTime + Reconnect
          BY <1>0, <2>1, <2>3, <4>2 DEF Connected
        <5> QED  BY <1>0, <2>1, <5>1 DEF BeatInv, Within
      <4> QED  BY <4>1, <4>2
    <3>3. CopyInv(t)'
      <4>1. copy[t] # None => copy[t][1] \in Nat
        BY <1>0 DEF KeeperTypeOK
      <4> QED  BY <1>0, <2>1, <3>1, <4>1 DEF CopyInv, Within
    <3> QED  BY <3>2, <3>3
  <2> QED  BY <1>0, <2>1, <2>2, <2>3 DEF LifeInv
<1>5. ASSUME NEW t \in Watched, UpdateHeartbeat(t)
      PROVE  LifeInv'
  <2>1. /\ UNCHANGED <<now, up, term, startTime, recovered, keeper, wake, copy, writes, client>>
        /\ beat' = [beat EXCEPT ![t] = now] /\ sent' = [sent EXCEPT ![t] = TRUE]
    BY <1>5 DEF UpdateHeartbeat, srv
  <2>2. ASSUME NEW s \in Watched, BeatInv(s), CopyInv(s)
        PROVE  BeatInv(s)' /\ CopyInv(s)'
    <3>1. CASE s # t
      BY <1>0, <2>1, <2>2, <3>1 DEF BeatInv, CopyInv, Within, KeeperTypeOK
    <3>2. CASE s = t
      <4>1. beat'[t] = now /\ sent'[t] = TRUE
        BY <1>0, <2>1 DEF KeeperTypeOK
      <4> QED  BY <1>0, <2>1, <2>2, <3>2, <4>1 DEF BeatInv, CopyInv, Within
    <3> QED  BY <3>1, <3>2
  <2> QED  BY <1>0, <2>1, <2>2 DEF LifeInv, Awake
<1>6. ASSUME NEW t \in Watched, ClientLost(t)
      PROVE  LifeInv'
  <2>1. \A s \in Watched : client'[s] = "alive" => client[s] = "alive"
    BY <1>6 DEF ClientLost, KeeperInv, KeeperTypeOK
  <2> QED  BY <1>0, <1>6, <2>1, BeatsStay DEF ClientLost, srv, LifeInv, Awake
<1>7. ASSUME NEW t \in Watched, Get(t)
      PROVE  LifeInv'
  <2>1. /\ UNCHANGED <<now, up, term, startTime, recovered, keeper, wake, beat, sent, client>>
        /\ copy' = [copy EXCEPT ![t] = <<beat[t], now>>]
        /\ writes' = [writes EXCEPT ![t] = @ + 1]
    BY <1>7 DEF Get, srv
  <2>2. ASSUME NEW s \in Watched, BeatInv(s), CopyInv(s)
        PROVE  BeatInv(s)' /\ CopyInv(s)'
    <3>1. CASE s # t
      BY <1>0, <2>1, <2>2, <3>1 DEF BeatInv, CopyInv, Within, KeeperTypeOK
    <3>2. CASE s = t
      <4>1. copy'[t] = <<beat[t], now>> /\ writes'[t] = writes[t] + 1
        BY <1>0, <2>1 DEF KeeperTypeOK
      <4> QED  BY <1>0, <2>1, <2>2, <3>2, <4>1 DEF BeatInv, CopyInv, Within
    <3> QED  BY <3>1, <3>2
  <2> QED  BY <1>0, <2>1, <2>2 DEF LifeInv, Awake
<1>8. ASSUME NEW t \in Watched, Update(t)
      PROVE  LifeInv'
  <2>1. /\ UNCHANGED <<now, up, term, startTime, recovered, keeper, wake, writes, sent, client>>
        /\ beat' = [beat EXCEPT ![t] = copy[t][1]]
        /\ copy' = [copy EXCEPT ![t] = None] /\ copy[t] # None
    BY <1>8 DEF Update, srv
  <2>2. ASSUME NEW s \in Watched, BeatInv(s), CopyInv(s)
        PROVE  BeatInv(s)' /\ CopyInv(s)'
    <3>1. CASE s # t
      BY <1>0, <2>1, <2>2, <3>1 DEF BeatInv, CopyInv, Within, KeeperTypeOK
    <3>2. CASE s = t
      <4>1. beat'[t] = copy[t][1] /\ copy'[t] = None /\ copy[t][1] \in Nat
        BY <1>0, <2>1 DEF KeeperTypeOK
      <4> QED  BY <1>0, <2>1, <2>2, <3>2, <4>1 DEF BeatInv, CopyInv, Within
    <3> QED  BY <3>1, <3>2
  <2> QED  BY <1>0, <2>1, <2>2 DEF LifeInv, Awake
<1>9. ASSUME NEW k \in 1..MaxTerm, Wake(k)
      PROVE  LifeInv'
  <2>1. /\ UNCHANGED <<now, up, term, startTime, recovered, wake, beat, copy, writes, sent, client>>
        /\ keeper' = [keeper EXCEPT ![k] = "work"] /\ keeper[k] = "sleep" /\ wake[k] <= now
    BY <1>0, <1>9 DEF Wake, KeeperTypeOK
  <2>2. now <= startTime + Grace
    <3>1. wake[k] <= startTime + Grace /\ now <= wake[k] /\ wake[k] \in Nat
      BY <1>0, <2>1, KeeperAssumption DEF LifeInv, KeeperTypeOK
    <3> QED  BY <1>0, <2>1, <3>1
  <2>3. Awake' => Awake
    BY <1>0, <2>1, <2>2 DEF Awake
  <2>4. \A j \in 1..MaxTerm : keeper'[j] = "sleep" => keeper[j] = "sleep"
    BY <1>0, <2>1 DEF KeeperTypeOK
  <2> QED  BY <1>0, <2>1, <2>3, <2>4, BeatsStay DEF LifeInv
<1>10. ASSUME NEW k \in 1..MaxTerm, Shutdown(k)
       PROVE  LifeInv'
  <2>1. /\ UNCHANGED <<now, up, term, startTime, recovered, wake, beat, copy, writes, sent, client>>
        /\ \A j \in 1..MaxTerm : keeper'[j] \in {"none", keeper[j]}
    BY <1>0, <1>10 DEF Shutdown, KeeperTypeOK
  <2> QED  BY <1>0, <2>1, BeatsStay DEF LifeInv, Awake
<1>11. ASSUME NEW k \in 1..MaxTerm, NEW t \in Watched, Check(k, t)
       PROVE  LifeInv'
  <2>1. /\ UNCHANGED <<now, up, term, startTime, keeper, wake, beat, copy, writes, sent, client>>
        /\ recovered \/ startTime + Wait < now
    BY <1>11 DEF Check, IsHeartBeatRecovered
  <2> QED  BY <1>0, <2>1, BeatsStay DEF LifeInv, Awake
<1> QED  BY <1>1, <1>2, <1>3, <1>4, <1>5, <1>6, <1>7, <1>8, <1>9, <1>10, <1>11 DEF KeeperNext

\* The keeper finds no client late that is alive, unless it does not wait.
LEMMA CheckIsPatient ==
    ASSUME Intervals, KeeperInv, NEW k \in 1..MaxTerm, NEW t \in Watched, Check(k, t), FailsAlive(t)
    PROVE  term > 1 /\ now <= startTime + Wait
<1> SUFFICES ASSUME term > 1 => startTime + Wait < now
             PROVE  FALSE
  BY KeeperAssumption DEF KeeperInv, KeeperTypeOK, Check, IsHeartBeatRecovered, LifeInv
<1>0. /\ now \in Nat /\ startTime \in Nat /\ Grace \in Nat /\ Wait \in Nat /\ Reconnect \in Nat
      /\ Timeout \in Nat /\ MaxWrite \in Nat /\ term \in Nat
      /\ beat[t] \in 0..now /\ writes[t] \in 0..MaxWrite
  BY KeeperAssumption DEF KeeperInv, KeeperTypeOK
<1>1. /\ keeper[k] = "work" /\ (recovered \/ startTime + Wait < now)
      /\ beat[t] + Timeout < now /\ client[t] = "alive"
  BY DEF Check, IsHeartBeatRecovered, FailsAlive, KeeperInv, KeeperTypeOK
<1>2. startTime + Wait < now
  BY <1>1 DEF KeeperInv, LifeInv
<1>3. Awake
  BY <1>0, <1>1, <1>2 DEF Awake, Intervals
<1>4. BeatInv(t)
  BY <1>1, <1>3 DEF KeeperInv, LifeInv
<1> QED  BY <1>0, <1>1, <1>2, <1>4 DEF BeatInv, Within, Intervals

-----------------------------------------------------------------------------
(* Its theorems. *)

LEMMA NextKeeper ==
    ASSUME Intervals
    PROVE  KeeperInv /\ [KeeperNext]_keeperVars => KeeperInv'
<1> SUFFICES ASSUME KeeperInv, [KeeperNext]_keeperVars
             PROVE  KeeperInv'
  OBVIOUS
<1>1. CASE KeeperNext
  BY <1>1, KeeperTypes, KeeperTerms, KeeperLife DEF KeeperInv
<1>2. CASE UNCHANGED keeperVars
  BY <1>2 DEF keeperVars, srv, KeeperInv, KeeperTypeOK, TermInv, LifeInv, Awake, BeatInv, CopyInv, Within
<1> QED  BY <1>1, <1>2

LEMMA OnlyCheckFails ==
    ASSUME KeeperInv, [KeeperNext]_keeperVars, NEW t \in Watched, FailsAlive(t)
    PROVE  \E k \in 1..MaxTerm : Check(k, t)
<1>1. failed # failed' /\ failed \in [Watched -> BOOLEAN]
  BY DEF FailsAlive, KeeperInv, KeeperTypeOK
<1>2. \A s \in Watched : \A k \in 1..MaxTerm : Check(k, s) => s = t
  BY <1>1 DEF Check, FailsAlive
<1> QED
  BY <1>1, <1>2 DEF KeeperNext, Start, Stop, Crash, Tick, UpdateHeartbeat, ClientLost, Get,
     Update, Wake, Shutdown, keeperVars

\* The invariant holds whenever the intervals are long enough.
THEOREM KeeperIsInvariant == Intervals /\ KeeperSpec => []KeeperInv
<1> SUFFICES ASSUME Intervals
             PROVE  KeeperSpec => []KeeperInv
  OBVIOUS
<1> QED  BY InitKeeper, NextKeeper, PTL DEF KeeperSpec

\* No task whose client is alive is failed as lost, but in a later term of a
\* process by a keeper that does not wait, provided that the keeper waits for as
\* long as the updates of other handlers can keep a heartbeat back, after the
\* clients found the new master, and that a heartbeat may be late by that much
\* and one unit (keeper.go check); the instance of MCKeeper with the updates of
\* the code fulfils that, and nothing shorter does.
THEOREM KeeperIsPatient == Intervals /\ KeeperSpec => LiveClientKept
<1> SUFFICES ASSUME Intervals
             PROVE  KeeperSpec => LiveClientKept
  OBVIOUS
<1>1. KeeperInv /\ [KeeperNext]_keeperVars
        => [\A t \in Watched : FailsAlive(t) => term > 1 /\ now <= startTime + Wait]_keeperVars
  BY OnlyCheckFails, CheckIsPatient
<1>2. KeeperSpec => []KeeperInv
  BY KeeperIsInvariant
<1> QED  BY <1>1, <1>2, PTL DEF KeeperSpec, LiveClientKept
=============================================================================
