------------------------- MODULE LocalSlots_proofs -------------------------
(***************************************************************************)
(* SlotsAreExact, NoIdleWaiter and RunningIsLimited of LocalSlots, for any *)
(* number of executors, usages, weights and slots.                         *)
(*                                                                         *)
(* The total and the count of each usage obey one rule, Exact, so what a   *)
(* step keeps of a count is shown once, for the executors of a set of      *)
(* usages.  putSlot wakes up in rounds: its function Awake is unfolded     *)
(* into the states between them (Woken), and since each round that does    *)
(* not end it wakes up another executor, the rounds it may take are enough *)
(* to leave no waiter who could run.                                       *)
(***************************************************************************)
EXTENDS LocalSlots, SumTheorems, SequenceTheorems

Req == [usage: JobUsage, weight: Weight, wait: BOOLEAN]
Pc == {"idle", "asking", "waiting", "refused", "running", "sleeping"}

\* What the requests of the clients R for a usage of U weigh, and what is given
\* back of it.
Weights(rq, R) == SumFunctionOnSet([c \in R |-> rq[c].weight], R)
Backs(q, I) == SumFunctionOnSet([i \in DOMAIN q |-> q[i].weight], I)
For(rq, R, U) == {c \in R : Set(rq[c].usage) \in U}
BackFor(q, U) == {i \in DOMAIN q : Set(q[i].usage) \in U}
Exact(n, U, rq, R, q) == n = Weights(rq, For(rq, R, U)) + Backs(q, BackFor(q, U))

-----------------------------------------------------------------------------
(* What clients hold and what is on its way back.                          *)

LEMMA Weighty == Weight \subseteq Nat /\ Weight \subseteq Int
BY SlotsAssumption

LEMMA ClientsAreFinite == ASSUME NEW R, R \subseteq Client PROVE IsFiniteSet(R)
BY SlotsAssumption, FS_Subset

LEMMA WeightsAreNat ==
    ASSUME NEW rq, NEW R, R \subseteq Client, \A c \in R : rq[c] \in Req
    PROVE  Weights(rq, R) \in Nat
<1> DEFINE f == [c \in R |-> rq[c].weight]
<1>1. IsFiniteSet(R) /\ \A c \in R : f[c] \in Nat
  BY ClientsAreFinite, Weighty DEF Req
<1>2. SumFunctionOnSet(f, R) \in Nat
  <2> HIDE DEF f
  <2> QED  BY <1>1, SumNat
<1> QED  BY <1>2 DEF Weights

LEMMA RequestsWeigh ==
    ASSUME NEW q \in Seq(Req), NEW i \in DOMAIN q
    PROVE  q[i] \in Req /\ q[i].weight \in Nat
<1>1. q[i] \in Req
  OBVIOUS
<1> QED  BY <1>1, Weighty DEF Req

LEMMA BacksAreNat ==
    ASSUME NEW q \in Seq(Req), NEW I, I \subseteq DOMAIN q
    PROVE  Backs(q, I) \in Nat /\ IsFiniteSet(I)
<1> DEFINE f == [i \in DOMAIN q |-> q[i].weight]
<1>1. IsFiniteSet(I)
  <2>1. DOMAIN q = 1..Len(q) /\ Len(q) \in Nat /\ IsFiniteSet(1..Len(q))
    BY FS_Interval
  <2> QED  BY <2>1, FS_Subset
<1>2. \A i \in I : f[i] \in Nat
  BY RequestsWeigh
<1>3. SumFunctionOnSet(f, I) \in Nat
  <2> HIDE DEF f
  <2> QED  BY <1>1, <1>2, SumNat
<1> QED  BY <1>1, <1>3 DEF Backs

LEMMA WeightsAgree ==
    ASSUME NEW rq, NEW sq, NEW R, R \subseteq Client, \A c \in R : rq[c] \in Req /\ sq[c] = rq[c]
    PROVE  Weights(sq, R) = Weights(rq, R)
<1>1. [c \in R |-> sq[c].weight] = [c \in R |-> rq[c].weight]
  OBVIOUS
<1> QED  BY <1>1 DEF Weights

LEMMA WeightsAdd ==
    ASSUME NEW rq, NEW R, R \subseteq Client, NEW c \in Client, c \notin R,
           \A d \in R \cup {c} : rq[d] \in Req
    PROVE  Weights(rq, R \cup {c}) = Weights(rq, R) + rq[c].weight
<1> DEFINE S == R \cup {c}
           f == [d \in R |-> rq[d].weight]
           g == [d \in S |-> rq[d].weight]
<1>1. IsFiniteSet(R) /\ \A d \in S : g[d] \in Int
  BY ClientsAreFinite, Weighty DEF Req
<1>2. \A d \in R : f[d] \in Int /\ f[d] = g[d]
  BY <1>1
<1>3. g[c] = rq[c].weight
  OBVIOUS
<1> HIDE DEF f, g
<1>4. SumFunctionOnSet(g, S) = g[c] + SumFunctionOnSet(g, R)
  BY <1>1, SumAdd
<1>5. SumFunctionOnSet(g, R) = SumFunctionOnSet(f, R)
  BY <1>1, <1>2, SumAgrees
<1>6. SumFunctionOnSet(f, R) \in Int /\ g[c] \in Int
  BY <1>1, <1>2, SumInt
<1>7. Weights(rq, S) = SumFunctionOnSet(g, S) /\ Weights(rq, R) = SumFunctionOnSet(f, R)
  BY DEF Weights, f, g
<1> QED  BY <1>3, <1>4, <1>5, <1>6, <1>7

\* Who is given a slot.
LEMMA TakeIsExact ==
    ASSUME NEW rq, NEW R, R \subseteq Client, NEW c \in Client, c \notin R,
           \A d \in R \cup {c} : rq[d] \in Req,
           NEW q \in Seq(Req), NEW n \in Int, NEW U, Exact(n, U, rq, R, q)
    PROVE  Exact(IF Set(rq[c].usage) \in U THEN n + rq[c].weight ELSE n, U, rq, R \cup {c}, q)
<1>1. For(rq, R, U) \subseteq Client /\ c \notin For(rq, R, U)
      /\ \A d \in For(rq, R, U) \cup {c} : rq[d] \in Req
  BY DEF For
<1>2. Weights(rq, For(rq, R, U)) \in Nat /\ Backs(q, BackFor(q, U)) \in Nat /\ rq[c].weight \in Nat
  BY <1>1, WeightsAreNat, BacksAreNat, Weighty DEF BackFor, Req
<1>3. CASE Set(rq[c].usage) \in U
  <2>1. For(rq, R \cup {c}, U) = For(rq, R, U) \cup {c}
    BY <1>3 DEF For
  <2>2. Weights(rq, For(rq, R \cup {c}, U)) = Weights(rq, For(rq, R, U)) + rq[c].weight
    BY <1>1, <2>1, WeightsAdd
  <2> QED  BY <1>2, <1>3, <2>2 DEF Exact
<1>4. CASE Set(rq[c].usage) \notin U
  <2>1. For(rq, R \cup {c}, U) = For(rq, R, U)
    BY <1>4 DEF For
  <2> QED  BY <1>4, <2>1 DEF Exact
<1> QED  BY <1>3, <1>4

\* Who gives his slot back.
LEMMA GiveIsExact ==
    ASSUME NEW rq, NEW sq, NEW R, R \subseteq Client, NEW c \in R,
           \A d \in R : rq[d] \in Req, \A d \in R \ {c} : sq[d] = rq[d],
           NEW q \in Seq(Req), NEW n \in Int, NEW U, Exact(n, U, rq, R, q)
    PROVE  Exact(n, U, sq, R \ {c}, Append(q, rq[c]))
<1> DEFINE r == rq[c]
           A == For(rq, R \ {c}, U)
           k == Len(q) + 1
           f == [i \in DOMAIN q |-> q[i].weight]
           g == [i \in DOMAIN Append(q, r) |-> Append(q, r)[i].weight]
           I == BackFor(q, U)
<1>1. A \subseteq Client /\ c \notin A /\ \A d \in A : rq[d] \in Req /\ sq[d] = rq[d]
  BY DEF For
<1>2. For(sq, R \ {c}, U) = A
  BY DEF For
<1>3. Weights(sq, A) = Weights(rq, A)
  <2> HIDE DEF A
  <2> QED  BY <1>1, WeightsAgree
<1>4. /\ DOMAIN q = 1..Len(q) /\ Len(q) \in Nat /\ k \notin DOMAIN q
      /\ DOMAIN Append(q, r) = DOMAIN q \cup {k}
      /\ Append(q, r)[k] = r /\ \A i \in DOMAIN q : Append(q, r)[i] = q[i]
  OBVIOUS
<1>5. r \in Req /\ r.weight \in Int
  BY Weighty DEF Req
<1>6. I \subseteq DOMAIN q /\ IsFiniteSet(I) /\ k \notin I
  BY <1>4, BacksAreNat DEF BackFor
<1>7. /\ \A i \in DOMAIN q : f[i] \in Int /\ g[i] = f[i]
      /\ g[k] = r.weight
  <2>1. ASSUME NEW i \in DOMAIN q PROVE f[i] \in Int /\ g[i] = f[i]
    BY <1>4, RequestsWeigh
  <2>2. g[k] = r.weight
    BY <1>4
  <2> QED  BY <2>1, <2>2
<1>8. BackFor(Append(q, r), U) = IF Set(r.usage) \in U THEN I \cup {k} ELSE I
  BY <1>4 DEF BackFor
<1>9. Backs(q, I) = SumFunctionOnSet(f, I)
      /\ \A J : Backs(Append(q, r), J) = SumFunctionOnSet(g, J)
  BY DEF Backs
<1>10. SumFunctionOnSet(g, I) = SumFunctionOnSet(f, I) /\ SumFunctionOnSet(f, I) \in Int
  <2> HIDE DEF f, g, I, r
  <2> QED  BY <1>6, <1>7, SumAgrees, SumInt
<1>11. SumFunctionOnSet(g, I \cup {k}) = g[k] + SumFunctionOnSet(g, I)
  <2>1. \A i \in I \cup {k} : g[i] \in Int
    BY <1>5, <1>6, <1>7
  <2> HIDE DEF f, g, I, r, k
  <2> QED  BY <2>1, <1>6, SumAdd
<1>12. Weights(rq, A) \in Int
  <2> HIDE DEF A
  <2> QED  BY <1>1, WeightsAreNat
<1>13. n = Weights(rq, For(rq, R, U)) + Backs(q, I)
  BY DEF Exact
<1>14. CASE Set(r.usage) \in U
  <2>1. For(rq, R, U) = A \cup {c}
    BY <1>14 DEF For
  <2>2. Weights(rq, A \cup {c}) = Weights(rq, A) + r.weight
    <3>1. \A d \in A \cup {c} : rq[d] \in Req
      BY <1>1
    <3> HIDE DEF A
    <3> QED  BY <1>1, <3>1, WeightsAdd
  <2>3. Backs(Append(q, r), BackFor(Append(q, r), U)) = Backs(q, I) + r.weight
    <3> HIDE DEF f, g, I, k
    <3> QED  BY <1>14, <1>7, <1>8, <1>9, <1>10, <1>11, <1>5
  <2> HIDE DEF A, r, I, f, g, k
  <2>4. n = Weights(sq, For(sq, R \ {c}, U)) + Backs(Append(q, r), BackFor(Append(q, r), U))
    BY <1>2, <1>3, <1>5, <1>9, <1>10, <1>12, <1>13, <2>1, <2>2, <2>3
  <2> QED  BY <2>4 DEF Exact, r
<1>15. CASE Set(r.usage) \notin U
  <2>1. For(rq, R, U) = A
    BY <1>15 DEF For
  <2>2. Backs(Append(q, r), BackFor(Append(q, r), U)) = Backs(q, I)
    BY <1>15, <1>8, <1>9, <1>10
  <2> HIDE DEF A, I, f, g, k
  <2> QED  BY <1>2, <1>3, <1>13, <2>1, <2>2 DEF Exact
<1> QED  BY <1>14, <1>15

\* What is given back is read.
LEMMA FreeIsExact ==
    ASSUME NEW rq, NEW R, R \subseteq Client, \A d \in R : rq[d] \in Req,
           NEW q \in Seq(Req), q # <<>>, NEW n \in Nat, NEW U, Exact(n, U, rq, R, q)
    PROVE  LET r == Head(q)
           IN  Exact(IF Set(r.usage) \in U THEN Less(n, r.weight) ELSE n, U, rq, R, Tail(q))
<1> DEFINE r == Head(q)
           f == [i \in DOMAIN q |-> q[i].weight]
           g == [i \in DOMAIN Tail(q) |-> Tail(q)[i].weight]
           h == [i \in DOMAIN Tail(q) |-> i + 1]
           I == BackFor(q, U)
           J == BackFor(Tail(q), U)
           H == {h[i] : i \in J}
           W == Weights(rq, For(rq, R, U))
<1>1. /\ DOMAIN q = 1..Len(q) /\ Len(q) \in Nat \ {0} /\ q[1] = r /\ r \in Req
      /\ Tail(q) \in Seq(Req) /\ DOMAIN Tail(q) = 1..(Len(q) - 1)
      /\ \A i \in DOMAIN Tail(q) : Tail(q)[i] = q[i + 1]
  OBVIOUS
<1>2. r.weight \in Nat
  BY <1>1, Weighty DEF Req
<1>3. J \subseteq DOMAIN Tail(q) /\ IsFiniteSet(J) /\ I \subseteq DOMAIN q /\ IsFiniteSet(I)
  BY <1>1, BacksAreNat DEF BackFor
<1>4. \A i \in J : h[i] = i + 1 /\ i \in 1..(Len(q) - 1)
  BY <1>1, <1>3
<1>5. I = IF Set(r.usage) \in U THEN H \cup {1} ELSE H
  <2>1. H \subseteq I
    BY <1>1, <1>4 DEF BackFor
  <2>2. ASSUME NEW i \in I, i # 1 PROVE i \in H
    <3>1. i - 1 \in DOMAIN Tail(q) /\ Tail(q)[i - 1] = q[i]
      BY <1>1, <1>3, <2>2
    <3>2. i - 1 \in J
      BY <2>2, <3>1 DEF BackFor
    <3>3. h[i - 1] = i
      BY <1>1, <1>3, <2>2, <3>1
    <3> QED  BY <3>2, <3>3
  <2>3. 1 \in I <=> Set(r.usage) \in U
    BY <1>1 DEF BackFor
  <2>4. 1 \notin H
    <3> HIDE DEF h, J
    <3> QED  BY <1>4
  <2> HIDE DEF I, H, h, J
  <2>5. CASE Set(r.usage) \in U
    BY <2>1, <2>2, <2>3, <2>5
  <2>6. CASE Set(r.usage) \notin U
    <3>1. 1 \notin I
      BY <2>3, <2>6
    <3>2. I = H
      BY <2>1, <2>2, <3>1
    <3> QED  BY <3>2, <2>6
  <2> QED  BY <2>5, <2>6
<1>6. /\ \A i \in J : g[i] \in Int /\ f[h[i]] = g[i]
      /\ \A i, j \in J : h[i] = h[j] => i = j
  <2>1. ASSUME NEW i \in J PROVE g[i] \in Int /\ f[h[i]] = g[i]
    <3>1. i \in DOMAIN Tail(q) /\ i + 1 \in DOMAIN q /\ q[i + 1] \in Req /\ h[i] = i + 1
      BY <1>1, <1>3, <1>4
    <3>2. g[i] = q[i + 1].weight /\ f[i + 1] = q[i + 1].weight
      BY <1>1, <3>1
    <3>3. q[i + 1].weight \in Int
      BY <3>1, RequestsWeigh
    <3> HIDE DEF f, g, h
    <3> QED  BY <3>1, <3>2, <3>3
  <2>2. \A i, j \in J : h[i] = h[j] => i = j
    <3> HIDE DEF h, J
    <3> QED  BY <1>4
  <2> QED  BY <2>1, <2>2
<1>7. SumFunctionOnSet(f, H) = SumFunctionOnSet(g, J)
  <2> HIDE DEF f, g, h, J
  <2> QED  BY <1>3, <1>6, SumImage
<1>8. 1 \notin H /\ IsFiniteSet(H)
  <2>1. 1 \notin H
    <3> HIDE DEF h, J
    <3> QED  BY <1>4
  <2>2. H \subseteq I
    <3> HIDE DEF I, H
    <3> QED  BY <1>5
  <2> QED  BY <2>1, <2>2, <1>3, FS_Subset
<1>9. \A i \in H \cup {1} : f[i] \in Int
  <2>1. ASSUME NEW i \in DOMAIN q PROVE f[i] \in Int
    BY RequestsWeigh
  <2>2. H \cup {1} \subseteq DOMAIN q
    <3> HIDE DEF h, J
    <3> QED  BY <1>1, <1>4
  <2> HIDE DEF f, H
  <2> QED  BY <2>1, <2>2
<1>10. SumFunctionOnSet(f, H \cup {1}) = r.weight + SumFunctionOnSet(f, H)
  <2>1. f[1] = r.weight
    BY <1>1
  <2> HIDE DEF f, H
  <2> QED  BY <2>1, <1>8, <1>9, SumAdd
<1>11. Backs(q, I) = SumFunctionOnSet(f, I) /\ Backs(Tail(q), J) = SumFunctionOnSet(g, J)
  BY DEF Backs
<1>12. W \in Nat /\ Backs(Tail(q), J) \in Nat
  <2>1. For(rq, R, U) \subseteq Client /\ \A d \in For(rq, R, U) : rq[d] \in Req
    BY DEF For
  <2> HIDE DEF J
  <2> QED  BY <2>1, <1>1, <1>3, WeightsAreNat, BacksAreNat
<1>13. n = W + Backs(q, I)
  BY DEF Exact
<1> HIDE DEF W, I, J, H, f, g, h, r
<1>14. CASE Set(r.usage) \in U
  <2>1. n = W + r.weight + Backs(Tail(q), J)
    BY <1>2, <1>5, <1>7, <1>10, <1>11, <1>12, <1>13, <1>14
  <2>2. Less(n, r.weight) = W + Backs(Tail(q), J)
    BY <2>1, <1>2, <1>12 DEF Less
  <2> QED  BY <1>14, <2>2 DEF Exact, W, J, r
<1>15. CASE Set(r.usage) \notin U
  <2>1. n = W + Backs(Tail(q), J)
    BY <1>5, <1>7, <1>11, <1>13, <1>15
  <2> QED  BY <1>15, <2>1 DEF Exact, W, J, r
<1> QED  BY <1>14, <1>15 DEF r

-----------------------------------------------------------------------------
(* The inductive invariant.                                                *)

TypeOK ==
    /\ handling \in BOOLEAN
    /\ occupiedSlots \in Nat /\ occupied \in [Usage -> Nat]
    /\ waitingList \in [Usage -> Seq(Client)]
    /\ usages \in Bijection(1..N, Usage) /\ cursor \in 0..(N - 1)
    /\ lockChan \in Seq(Client) /\ unlockChan \in Seq(Req)
    /\ pc \in [Client -> Pc]
    /\ req \in [Client -> {None} \cup Req]
    /\ \A c \in Client : req[c] \in {None} \cup Request[c]
    /\ retries \in Nat

\* Who is at something has a request, and only a retry sleeps.
ClientInv ==
    \A c \in Client :
      /\ pc[c] # "idle" => req[c] # None
      /\ pc[c] = "sleeping" => retries > 0

Waiting == {c \in Client : pc[c] = "waiting"}

Once(s) == \A i, j \in DOMAIN s : s[i] = s[j] => i = j

\* The lists hold clients of W, each once, in the list of its usage.
Lists(list, W) ==
    \A u \in Usage :
      /\ \A i \in DOMAIN list[u] : list[u][i] \in W /\ Set(req[list[u][i]].usage) = u
      /\ Once(list[u])

\* While the handler runs, who asks or waits is in one queue.
QueueInv ==
    handling => /\ \A i \in DOMAIN lockChan : pc[lockChan[i]] = "asking"
                /\ Once(lockChan)
                /\ Lists(waitingList, Waiting)

\* A grant finds less than the limit.
Bounded(total, occ) ==
    /\ total < TotalSlots + MaxWeight(Usage)
    /\ \A u \in Usage : occ[u] < UsageLimit[u] + MaxWeight({u})

BoundInv == Bounded(occupiedSlots, occupied)

\* The counters, with R holding slots and q on its way back.
Counted(total, occ, R, q) ==
    /\ Exact(total, Usage, req, R, q)
    /\ \A u \in Usage : Exact(occ[u], {u}, req, R, q)

CountInv == handling /\ retries = 0 => Counted(occupiedSlots, occupied, Running, unlockChan)

Inv == TypeOK /\ ClientInv /\ QueueInv /\ BoundInv /\ CountInv /\ NoIdleWaiter

-----------------------------------------------------------------------------
(* The greatest weight.                                                    *)

LEMMA MaxWeightBounds ==
    ASSUME NEW U
    PROVE  /\ MaxWeight(U) \in Nat
           /\ \A c \in Client : \A r \in Request[c] : Set(r.usage) \in U => r.weight <= MaxWeight(U)
<1> DEFINE Q == {q \in UNION Range(Request) : Set(q.usage) \in U}
           S == {0} \cup {r.weight : r \in Q}
<1>1. \A r \in UNION Range(Request) : r.weight \in Weight
  BY SlotsAssumption DEF Range
<1>2. S \subseteq Weight \cup {0}
  BY <1>1
<1>3. IsFiniteSet(S) /\ S \subseteq Nat /\ S # {}
  <2>1. IsFiniteSet(Weight \cup {0}) /\ Weight \cup {0} \subseteq Nat
    BY SlotsAssumption, FS_AddElement
  <2> HIDE DEF Q
  <2> QED  BY <1>2, <2>1, FS_Subset
<1>4. PICK m \in S : \A y \in S : m >= y
  <2> HIDE DEF S
  <2> QED  BY <1>3, GreatestOfFinite
<1>5. MaxWeight(U) = Max(S)
  BY DEF MaxWeight
<1>6. Max(S) \in S /\ \A y \in S : Max(S) >= y
  <2> HIDE DEF S
  <2> QED  BY <1>4 DEF Max
<1>7. ASSUME NEW c \in Client, NEW r \in Request[c], Set(r.usage) \in U
      PROVE  r.weight \in S
  BY <1>7, SlotsAssumption DEF Range
<1>8. \A y \in S : y \in Nat /\ Max(S) \in Nat
  <2> HIDE DEF S
  <2> QED  BY <1>3, <1>6
<1> HIDE DEF S
<1>9. MaxWeight(U) \in Nat
  BY <1>3, <1>5, <1>6
<1>10. ASSUME NEW c \in Client, NEW r \in Request[c], Set(r.usage) \in U
       PROVE  r.weight <= MaxWeight(U)
  BY <1>5, <1>6, <1>7, <1>8, <1>10
<1> QED  BY <1>9, <1>10

-----------------------------------------------------------------------------
(* The usages are polled in turn.                                          *)

LEMMA SetIsUsage == \A u : Set(u) \in Usage
BY SlotsAssumption DEF Set

LEMMA UsagesAreCounted == N \in Nat \ {0}
<1>1. N \in Nat
  BY SlotsAssumption, FS_CardinalityType DEF N
<1>2. N # 0
  BY SlotsAssumption, FS_EmptySet DEF N
<1> QED  BY <1>1, <1>2

LEMMA PolledIsUsage ==
    ASSUME TypeOK, NEW s, s.cursor \in 0..(N - 1)
    PROVE  /\ \A k \in 0..(N - 1) : Polled(s, k) \in Usage /\ (s.cursor + k + 1) % N \in 0..(N - 1)
           /\ \A u \in Usage : \E k \in 0..(N - 1) : Polled(s, k) = u
<1> DEFINE t == s.cursor
<1>1. N \in Nat \ {0} /\ t \in 0..(N - 1)
  BY UsagesAreCounted
<1>2. usages \in [1..N -> Usage] /\ \A u \in Usage : \E i \in 1..N : usages[i] = u
  BY DEF TypeOK, Bijection, Injection, Surjection
<1>3. ASSUME NEW k \in 0..(N - 1)
      PROVE  Polled(s, k) \in Usage /\ (t + k + 1) % N \in 0..(N - 1)
  <2> HIDE DEF t
  <2>1. (t + k) % N \in 0..(N - 1) /\ (t + k + 1) % N \in 0..(N - 1)
    BY <1>1
  <2>2. ((t + k) % N) + 1 \in 1..N
    BY <1>1, <2>1
  <2> QED  BY <1>2, <2>1, <2>2 DEF Polled, t
<1>4. ASSUME NEW u \in Usage PROVE \E k \in 0..(N - 1) : Polled(s, k) = u
  <2>1. PICK i \in 1..N : usages[i] = u
    BY <1>2
  <2> DEFINE k == IF i - 1 >= t THEN i - 1 - t ELSE i - 1 - t + N
  <2>2. k \in 0..(N - 1) /\ (t + k = i - 1 \/ t + k = (i - 1) + N)
    <3> HIDE DEF t
    <3> QED  BY <1>1
  <2>3. (t + k) % N = i - 1
    <3>1. i - 1 \in 0..(N - 1)
      BY <1>1
    <3>2. (i - 1) % N = i - 1 /\ ((i - 1) + N) % N = i - 1
      BY <1>1, <3>1
    <3> HIDE DEF k, t
    <3> QED  BY <2>2, <3>2
  <2>4. Polled(s, k) = u
    <3> HIDE DEF k
    <3> QED  BY <1>1, <2>1, <2>3 DEF Polled
  <2> QED  BY <2>2, <2>4
<1> QED  BY <1>3, <1>4

-----------------------------------------------------------------------------
(* Who is awoken when a slot is free.                                      *)

AwakeState ==
    [total: Nat, occupied: [Usage -> Nat], list: [Usage -> Seq(Client)],
     cursor: 0..(N - 1), awake: SUBSET Client]

\* What holds between two rounds of putSlot, with q on its way back.
Woken(s, q) ==
    /\ s \in AwakeState
    /\ s.awake \subseteq Waiting /\ Lists(s.list, Waiting \ s.awake)
    /\ Bounded(s.total, s.occupied)
    /\ retries = 0 => Counted(s.total, s.occupied, Running \cup s.awake, q)

Stuck(s) == s.total >= TotalSlots \/ Found(s) = {}

LEMMA ClientHasRequest ==
    ASSUME TypeOK, ClientInv, NEW c \in Client, pc[c] # "idle"
    PROVE  req[c] \in Req /\ req[c] \in Request[c] /\ req[c].weight \in Nat
<1>1. req[c] \in Req /\ req[c] \in Request[c]
  BY DEF TypeOK, ClientInv
<1> QED  BY <1>1, Weighty DEF Req

\* A grant to c.
LEMMA GrantKeepsBound ==
    ASSUME TypeOK, ClientInv, NEW c \in Client, pc[c] # "idle",
           NEW total \in Nat, NEW occ \in [Usage -> Nat], Bounded(total, occ),
           total < TotalSlots, Idle(occ, Set(req[c].usage))
    PROVE  Bounded(total + req[c].weight, [occ EXCEPT ![Set(req[c].usage)] = @ + req[c].weight])
<1> DEFINE u == Set(req[c].usage)
           w == req[c].weight
<1>1. u \in Usage /\ w \in Nat /\ req[c] \in Request[c]
  BY SetIsUsage, ClientHasRequest
<1>2. TotalSlots \in Nat /\ UsageLimit[u] \in Nat
  BY <1>1, SlotsAssumption
<1>3. MaxWeight(Usage) \in Nat /\ w <= MaxWeight(Usage)
  BY <1>1, MaxWeightBounds
<1>4. MaxWeight({u}) \in Nat /\ w <= MaxWeight({u})
  BY <1>1, MaxWeightBounds
<1>5. occ[u] \in Nat /\ occ[u] < UsageLimit[u]
  BY <1>1 DEF Idle
<1>6. total + w < TotalSlots + MaxWeight(Usage)
  <2> HIDE DEF w
  <2> QED  BY <1>1, <1>2, <1>3
<1>7. ASSUME NEW v \in Usage
      PROVE  [occ EXCEPT ![u] = @ + w][v] < UsageLimit[v] + MaxWeight({v})
  <2> HIDE DEF u, w
  <2>1. CASE v = u
    BY <1>1, <1>2, <1>4, <1>5, <2>1
  <2>2. CASE v # u
    BY <2>2 DEF Bounded
  <2> QED  BY <2>1, <2>2
<1> QED  BY <1>6, <1>7 DEF Bounded

LEMMA GrantKeepsCount ==
    ASSUME TypeOK, ClientInv, NEW c \in Client, pc[c] # "idle",
           NEW R, R \subseteq {d \in Client : pc[d] # "idle"}, c \notin R, NEW q \in Seq(Req),
           NEW total \in Nat, NEW occ \in [Usage -> Nat], Counted(total, occ, R, q)
    PROVE  Counted(total + req[c].weight, [occ EXCEPT ![Set(req[c].usage)] = @ + req[c].weight],
                   R \cup {c}, q)
<1> DEFINE u == Set(req[c].usage)
           w == req[c].weight
<1>1. R \subseteq Client /\ \A d \in R \cup {c} : req[d] \in Req
  BY ClientHasRequest
<1>2. ASSUME NEW n \in Int, NEW U, Exact(n, U, req, R, q)
      PROVE  Exact(IF u \in U THEN n + w ELSE n, U, req, R \cup {c}, q)
  BY <1>1, <1>2, TakeIsExact
<1>3. u \in Usage
  BY SetIsUsage
<1>4. Exact(total + w, Usage, req, R \cup {c}, q)
  <2>1. Exact(total, Usage, req, R, q) /\ total \in Int
    BY DEF Counted
  <2>2. Exact(IF u \in Usage THEN total + w ELSE total, Usage, req, R \cup {c}, q)
    BY <1>2, <2>1
  <2> HIDE DEF u, w
  <2> QED  BY <1>3, <2>2
<1>5. ASSUME NEW v \in Usage
      PROVE  Exact([occ EXCEPT ![u] = @ + w][v], {v}, req, R \cup {c}, q)
  <2>1. Exact(occ[v], {v}, req, R, q) /\ occ[v] \in Int
    BY DEF Counted
  <2>2. Exact(IF u \in {v} THEN occ[v] + w ELSE occ[v], {v}, req, R \cup {c}, q)
    BY <1>2, <2>1
  <2> HIDE DEF u, w
  <2>3. [occ EXCEPT ![u] = @ + w][v] = IF u \in {v} THEN occ[v] + w ELSE occ[v]
    BY <1>3
  <2> QED  BY <2>2, <2>3
<1> QED  BY <1>4, <1>5 DEF Counted

\* The first client of a list leaves it.
LEMMA LeaveKeepsLists ==
    ASSUME NEW list \in [Usage -> Seq(Client)], NEW W, Lists(list, W),
           NEW u \in Usage, list[u] # <<>>
    PROVE  /\ Head(list[u]) \in W /\ Set(req[Head(list[u])].usage) = u
           /\ [list EXCEPT ![u] = Tail(@)] \in [Usage -> Seq(Client)]
           /\ Lists([list EXCEPT ![u] = Tail(@)], W \ {Head(list[u])})
<1> DEFINE s == list[u]
           c == Head(s)
           m == [list EXCEPT ![u] = Tail(@)]
<1>1. s \in Seq(Client) /\ s # <<>>
  OBVIOUS
<1>2. /\ DOMAIN s = 1..Len(s) /\ Len(s) \in Nat \ {0} /\ s[1] = c
      /\ Tail(s) \in Seq(Client) /\ DOMAIN Tail(s) = 1..(Len(s) - 1)
      /\ \A i \in DOMAIN Tail(s) : Tail(s)[i] = s[i + 1] /\ i + 1 \in DOMAIN s /\ i + 1 # 1
  <2> HIDE DEF s
  <2> QED  BY <1>1
<1>3. c \in W /\ Set(req[c].usage) = u
  <2>1. 1 \in DOMAIN s
    BY <1>2
  <2> QED  BY <1>2, <2>1 DEF Lists
<1>4. m \in [Usage -> Seq(Client)] /\ m[u] = Tail(s) /\ \A v \in Usage \ {u} : m[v] = list[v]
  BY <1>2
<1>5. \A i \in DOMAIN s : s[i] \in W /\ Set(req[s[i]].usage) = u
  BY DEF Lists
<1>6. \A i, j \in DOMAIN s : s[i] = s[j] => i = j
  BY DEF Lists, Once
<1>7. ASSUME NEW v \in Usage
      PROVE  /\ \A i \in DOMAIN m[v] : m[v][i] \in W \ {c} /\ Set(req[m[v][i]].usage) = v
             /\ Once(m[v])
  <2>1. CASE v = u
    <3> HIDE DEF s, c, m
    <3>1. \A i \in DOMAIN Tail(s) : Tail(s)[i] \in W \ {c} /\ Set(req[Tail(s)[i]].usage) = u
      BY <1>2, <1>5, <1>6
    <3>2. Once(Tail(s))
      BY <1>2, <1>6 DEF Once
    <3> QED  BY <1>4, <2>1, <3>1, <3>2
  <2>2. CASE v # u
    <3>1. m[v] = list[v]
      BY <1>4, <2>2
    <3>2. \A i \in DOMAIN list[v] : list[v][i] \in W /\ Set(req[list[v][i]].usage) = v
      BY DEF Lists
    <3>3. Once(list[v])
      BY DEF Lists
    <3> HIDE DEF s, c, m
    <3> QED  BY <1>3, <2>2, <3>1, <3>2, <3>3
  <2> QED  BY <2>1, <2>2
<1>8. Lists(m, W \ {c})
  <2> HIDE DEF m, c
  <2> QED  BY <1>7 DEF Lists
<1> QED  BY <1>3, <1>4, <1>8

LEMMA AwakeOneKeeps ==
    ASSUME TypeOK, ClientInv, NEW q \in Seq(Req), NEW s, Woken(s, q), ~Stuck(s)
    PROVE  /\ Woken(AwakeOne(s), q)
           /\ \E c \in Client \ s.awake : AwakeOne(s).awake = s.awake \cup {c}
<1> DEFINE k == Min(Found(s))
           u == Polled(s, k)
           c == Head(s.list[u])
           w == req[c].weight
           t == AwakeOne(s)
<1>1. s \in AwakeState /\ s.cursor \in 0..(N - 1)
  BY DEF Woken, AwakeState
<1>2. k \in Found(s)
  <2>1. Found(s) # {} /\ Found(s) \subseteq 0..(N - 1)
    BY DEF Stuck, Found
  <2>2. \E i \in Found(s) : \A j \in Found(s) : i <= j
    <3> DEFINE S == Found(s)
               P == {N - i : i \in S}
    <3>1. N \in Nat
      BY UsagesAreCounted
    <3>2. P \subseteq 1..N /\ P # {}
      <4> HIDE DEF S
      <4> QED  BY <2>1, <3>1 DEF S
    <3>3. IsFiniteSet(P) /\ (\A x \in P : x \in Nat)
      <4> DEFINE I == 1..N
      <4>1. IsFiniteSet(I) /\ \A x \in I : x \in Nat
        BY <3>1, FS_Interval
      <4>2. P \subseteq I
        BY <3>2
      <4> HIDE DEF P, I
      <4> QED  BY <4>1, <4>2, FS_Subset
    <3>4. PICK x \in P : \A y \in P : x >= y
      <4> HIDE DEF P
      <4> QED  BY <3>2, <3>3, GreatestOfFinite
    <3>5. PICK i \in S : x = N - i
      OBVIOUS
    <3>6. \A j \in S : x >= N - j
      BY <3>4
    <3>7. S \subseteq 0..(N - 1)
      BY <2>1
    <3> HIDE DEF S, P
    <3>8. \A j \in S : i <= j
      BY <3>1, <3>5, <3>6, <3>7
    <3> QED  BY <3>5, <3>8 DEF S
  <2> QED  BY <2>2 DEF Min
<1>3. k \in 0..(N - 1) /\ Idle(s.occupied, u) /\ s.list[u] # <<>>
  BY <1>2 DEF Found
<1>4. u \in Usage /\ (s.cursor + k + 1) % N \in 0..(N - 1)
  <2> HIDE DEF k
  <2> QED  BY <1>1, <1>3, PolledIsUsage
<1> HIDE DEF k, u
<1>5. /\ c \in Waiting \ s.awake /\ Set(req[c].usage) = u
      /\ [s.list EXCEPT ![u] = Tail(@)] \in [Usage -> Seq(Client)]
      /\ Lists([s.list EXCEPT ![u] = Tail(@)], (Waiting \ s.awake) \ {c})
  <2>1. s.list \in [Usage -> Seq(Client)] /\ Lists(s.list, Waiting \ s.awake)
    BY <1>1 DEF Woken, AwakeState
  <2> QED  BY <1>3, <1>4, <2>1, LeaveKeepsLists
<1> HIDE DEF c
<1>6. c \in Client /\ pc[c] = "waiting" /\ c \notin s.awake /\ w \in Nat
  <2>1. c \in Client /\ pc[c] = "waiting" /\ c \notin s.awake
    BY <1>5 DEF Waiting
  <2> QED  BY <2>1, ClientHasRequest
<1>7. t = [s EXCEPT !.total = @ + w, !.occupied[u] = @ + w, !.list[u] = Tail(@),
                    !.awake = @ \cup {c}, !.cursor = (@ + k + 1) % N]
  BY DEF AwakeOne, Stuck, k, u, c
<1> HIDE DEF t, w
<1>8. /\ t.total = s.total + w /\ t.occupied = [s.occupied EXCEPT ![u] = @ + w]
      /\ t.list = [s.list EXCEPT ![u] = Tail(@)] /\ t.awake = s.awake \cup {c}
      /\ t.cursor = (s.cursor + k + 1) % N
      /\ t = [total |-> t.total, occupied |-> t.occupied, list |-> t.list, cursor |-> t.cursor,
              awake |-> t.awake]
  BY <1>1, <1>7 DEF AwakeState
<1>9. /\ s.total \in Nat /\ s.occupied \in [Usage -> Nat] /\ s.awake \subseteq Client
      /\ s.total < TotalSlots
  BY <1>1, SlotsAssumption DEF AwakeState, Stuck
<1>10. t \in AwakeState
  <2>1. t.total \in Nat /\ t.occupied \in [Usage -> Nat]
    BY <1>4, <1>6, <1>8, <1>9
  <2>2. t.list \in [Usage -> Seq(Client)] /\ t.awake \in SUBSET Client /\ t.cursor \in 0..(N - 1)
    BY <1>4, <1>5, <1>6, <1>8, <1>9
  <2> QED  BY <1>8, <2>1, <2>2 DEF AwakeState
<1>11. t.awake \subseteq Waiting /\ Lists(t.list, Waiting \ t.awake)
  <2>1. (Waiting \ s.awake) \ {c} = Waiting \ t.awake
    BY <1>8
  <2> QED  BY <1>5, <1>8, <2>1 DEF Woken
<1>12. Bounded(t.total, t.occupied)
  <2>1. Bounded(s.total, s.occupied) /\ Idle(s.occupied, Set(req[c].usage)) /\ pc[c] # "idle"
    BY <1>3, <1>5, <1>6 DEF Woken
  <2>2. Bounded(s.total + req[c].weight,
                [s.occupied EXCEPT ![Set(req[c].usage)] = @ + req[c].weight])
    BY <1>6, <1>9, <2>1, GrantKeepsBound
  <2> QED  BY <1>5, <1>8, <2>2 DEF w
<1>13. retries = 0 => Counted(t.total, t.occupied, Running \cup t.awake, q)
  <2>1. SUFFICES ASSUME retries = 0
                 PROVE  Counted(t.total, t.occupied, Running \cup t.awake, q)
    OBVIOUS
  <2> DEFINE R == Running \cup s.awake
  <2>2. Counted(s.total, s.occupied, R, q)
    BY <2>1 DEF Woken
  <2>3. R \subseteq {d \in Client : pc[d] # "idle"} /\ c \notin R
    BY <1>6 DEF Running, Woken, Waiting
  <2>4. Running \cup t.awake = R \cup {c}
    BY <1>8
  <2> HIDE DEF R
  <2>5. Counted(s.total + req[c].weight,
                [s.occupied EXCEPT ![Set(req[c].usage)] = @ + req[c].weight], R \cup {c}, q)
    BY <1>6, <1>9, <2>2, <2>3, GrantKeepsCount
  <2> QED  BY <1>5, <1>8, <2>4, <2>5 DEF w
<1>14. Woken(t, q)
  BY <1>10, <1>11, <1>12, <1>13 DEF Woken
<1> QED  BY <1>6, <1>8, <1>14 DEF t

\* The rounds of putSlot, of which the model takes as many as there are clients.
Rounds(f, s, n) == f = [i \in 0..n |-> IF i = 0 THEN s ELSE AwakeOne(f[i - 1])]

LEMMA RoundsExist ==
    ASSUME NEW s, NEW n \in Nat
    PROVE  \E f : Rounds(f, s, n)
<1> DEFINE C == {i \in 1..(n + 1) : ~ \E f : Rounds(f, s, i - 1)}
<1>1. SUFFICES ASSUME C # {} PROVE FALSE
  <2>1. n + 1 \in 1..(n + 1) /\ (n + 1) - 1 = n
    OBVIOUS
  <2> QED  BY <2>1
<1>2. PICK i \in C : \A j \in C : i <= j
  <2>1. C \subseteq 1..(n + 1) /\ n + 1 \in Nat
    OBVIOUS
  <2> HIDE DEF C
  <2> QED  BY <1>1, <2>1, LeastIndex
<1>3. i \in 1..(n + 1) /\ ~ \E f : Rounds(f, s, i - 1)
  OBVIOUS
<1>4. i # 1
  <2>1. SUFFICES ASSUME i = 1 PROVE FALSE
    OBVIOUS
  <2>2. Rounds([j \in 0..0 |-> s], s, 0)
    BY DEF Rounds
  <2> QED  BY <1>3, <2>1, <2>2
<1>5. i - 1 \in 1..(n + 1) /\ i - 1 \notin C
  <2>1. i - 1 \in 1..(n + 1) /\ ~(i <= i - 1)
    BY <1>3, <1>4
  <2> HIDE DEF C
  <2> QED  BY <1>2, <2>1
<1>6. PICK g : Rounds(g, s, i - 2)
  <2>1. (i - 1) - 1 = i - 2
    BY <1>3
  <2> QED  BY <1>5, <2>1
<1> DEFINE h == [j \in 0..(i - 1) |-> IF j = 0 THEN s ELSE AwakeOne(g[j - 1])]
<1>7. \A j \in 0..(i - 2) : h[j] = g[j]
  <2>1. ASSUME NEW j \in 0..(i - 2) PROVE h[j] = g[j]
    <3>1. j \in 0..(i - 1)
      BY <1>3
    <3>2. g[j] = IF j = 0 THEN s ELSE AwakeOne(g[j - 1])
      BY <1>6 DEF Rounds
    <3> QED  BY <3>1, <3>2
  <2> QED  BY <2>1
<1>8. \A j \in 0..(i - 1) : j # 0 => g[j - 1] = h[j - 1]
  <2>1. ASSUME NEW j \in 0..(i - 1), j # 0 PROVE g[j - 1] = h[j - 1]
    <3>1. j - 1 \in 0..(i - 2)
      BY <1>3, <2>1
    <3> HIDE DEF h
    <3> QED  BY <1>7, <3>1
  <2> QED  BY <2>1
<1>9. Rounds(h, s, i - 1)
  <2>1. \A j \in 0..(i - 1) : (IF j = 0 THEN s ELSE AwakeOne(g[j - 1]))
                              = IF j = 0 THEN s ELSE AwakeOne(h[j - 1])
    <3> HIDE DEF h
    <3> QED  BY <1>8
  <2>2. h = [j \in 0..(i - 1) |-> IF j = 0 THEN s ELSE AwakeOne(g[j - 1])]
    OBVIOUS
  <2> HIDE DEF h
  <2> QED  BY <2>1, <2>2 DEF Rounds
<1> QED  BY <1>3, <1>9

\* Nobody is left to be awoken.
LEMMA AwakeKeeps ==
    ASSUME TypeOK, ClientInv, NEW q \in Seq(Req), NEW s, Woken(s, q), s.awake = {}
    PROVE  Woken(Awake(s), q) /\ Stuck(Awake(s))
<1> DEFINE K == Cardinality(Client)
           f == CHOOSE g : Rounds(g, s, K)
<1>1. K \in Nat
  BY SlotsAssumption, FS_CardinalityType
<1>2. Awake(s) = f[K] /\ Rounds(f, s, K)
  <2>1. Awake(s) = f[K]
    BY DEF Awake, Rounds
  <2>2. \E g : Rounds(g, s, K)
    <3> HIDE DEF K
    <3> QED  BY <1>1, RoundsExist
  <2> QED  BY <2>1, <2>2
<1> HIDE DEF f
<1>3. f[0] = s /\ \A i \in 1..K : f[i] = AwakeOne(f[i - 1])
  <2> HIDE DEF K
  <2>1. \A i \in 0..K : f[i] = IF i = 0 THEN s ELSE AwakeOne(f[i - 1])
    BY <1>2 DEF Rounds
  <2> QED  BY <1>1, <2>1
<1> DEFINE Fine(i) == Woken(f[i], q) /\ (Stuck(f[i]) \/ Cardinality(f[i].awake) = i)
<1>4. Fine(0)
  BY <1>3, FS_EmptySet
<1>5. ASSUME NEW i \in 1..K, Fine(i - 1) PROVE Fine(i)
  <2> DEFINE t == f[i - 1]
  <2>1. Woken(t, q) /\ f[i] = AwakeOne(t)
    BY <1>3, <1>5
  <2>2. CASE Stuck(t)
    <3>1. AwakeOne(t) = t
      BY <2>2 DEF AwakeOne, Stuck
    <3> HIDE DEF t
    <3> QED  BY <2>1, <2>2, <3>1
  <2>3. CASE ~Stuck(t)
    <3>1. Cardinality(t.awake) = i - 1
      BY <1>5, <2>3
    <3> HIDE DEF t
    <3>2. /\ Woken(AwakeOne(t), q)
          /\ \E c \in Client \ t.awake : AwakeOne(t).awake = t.awake \cup {c}
      BY <2>1, <2>3, AwakeOneKeeps
    <3>3. PICK c \in Client \ t.awake : AwakeOne(t).awake = t.awake \cup {c}
      BY <3>2
    <3>4. IsFiniteSet(t.awake)
      BY <2>1, ClientsAreFinite DEF Woken, AwakeState
    <3>5. Cardinality(AwakeOne(t).awake) = (i - 1) + 1
      BY <3>1, <3>3, <3>4, FS_AddElement
    <3>6. Cardinality(f[i].awake) = i
      BY <1>1, <2>1, <3>5
    <3> QED  BY <2>1, <3>2, <3>6
  <2> QED  BY <2>2, <2>3
<1>6. Fine(K)
  <2> DEFINE C == {i \in 1..K : ~Fine(i)}
  <2>1. SUFFICES ASSUME C # {} PROVE FALSE
    <3>1. K = 0 \/ K \in 1..K
      BY <1>1
    <3> HIDE DEF Fine, K
    <3> QED  BY <1>4, <3>1
  <2>2. PICK i \in C : \A j \in C : i <= j
    <3>1. C \subseteq 1..K
      OBVIOUS
    <3> HIDE DEF C, K
    <3> QED  BY <1>1, <2>1, <3>1, LeastIndex
  <2>3. i \in 1..K /\ ~Fine(i)
    OBVIOUS
  <2>4. Fine(i - 1)
    <3> HIDE DEF Fine, K
    <3>1. i = 1 \/ i - 1 \in 1..K
      BY <1>1, <2>3
    <3>2. ~(i <= i - 1)
      BY <2>3
    <3>3. CASE i = 1
      BY <1>4, <3>3
    <3>4. CASE i - 1 \in 1..K
      BY <2>2, <3>2, <3>4
    <3> QED  BY <3>1, <3>3, <3>4
  <2> HIDE DEF Fine, K
  <2> QED  BY <1>5, <2>3, <2>4
<1> DEFINE e == f[K]
<1>7. Woken(e, q) /\ (Stuck(e) \/ Cardinality(e.awake) = K)
  BY <1>6
<1>8. CASE Cardinality(e.awake) = K
  <2>1. e.awake \subseteq Client /\ e.awake \subseteq Waiting
        /\ Lists(e.list, Waiting \ e.awake)
    BY <1>7 DEF Woken, AwakeState
  <2>2. e.awake = Client
    <3> HIDE DEF e
    <3> QED  BY <1>8, <2>1, SlotsAssumption, FS_Subset
  <2>3. Waiting \ e.awake = {}
    <3> HIDE DEF e
    <3> QED  BY <2>2 DEF Waiting
  <2>4. e.list \in [Usage -> Seq(Client)] /\ e.cursor \in 0..(N - 1)
    BY <1>7 DEF Woken, AwakeState
  <2> HIDE DEF e
  <2>5. ASSUME NEW u \in Usage PROVE e.list[u] = <<>>
    <3>1. \A i \in DOMAIN e.list[u] : e.list[u][i] \in {}
      BY <2>1, <2>3 DEF Lists
    <3>2. e.list[u] \in Seq(Client)
      BY <2>4
    <3> DEFINE l == e.list[u]
    <3>3. l \in Seq(Client) /\ \A i \in DOMAIN l : FALSE
      BY <3>1, <3>2
    <3> HIDE DEF l
    <3>4. Len(l) \in Nat /\ DOMAIN l = 1..Len(l)
      BY <3>3
    <3>5. Len(l) = 0
      BY <3>3, <3>4
    <3>6. l = <<>>
      BY <3>3, <3>5
    <3> QED  BY <3>6 DEF l
  <2>6. Found(e) = {}
    <3>1. ASSUME NEW k \in 0..(N - 1) PROVE e.list[Polled(e, k)] = <<>>
      <4>1. Polled(e, k) \in Usage
        BY <2>4, PolledIsUsage
      <4> QED  BY <4>1, <2>5
    <3> QED  BY <3>1 DEF Found
  <2> QED  BY <1>2, <1>7, <2>6 DEF Stuck, e
<1> QED  BY <1>2, <1>7, <1>8

-----------------------------------------------------------------------------
(* The steps of the executors.                                             *)

LEMMA InitInv == Init => Inv
<1> SUFFICES ASSUME Init PROVE Inv
  OBVIOUS
<1>1. TypeOK
  BY UsagesAreCounted DEF Init, TypeOK, Pc
<1>2. ClientInv /\ QueueInv /\ NoIdleWaiter
  BY DEF Init, ClientInv, QueueInv, Once, Lists, NoIdleWaiter
<1>3. BoundInv
  <2>1. 0 < TotalSlots + MaxWeight(Usage)
    BY SlotsAssumption, MaxWeightBounds
  <2>2. ASSUME NEW u \in Usage PROVE 0 < UsageLimit[u] + MaxWeight({u})
    <3>1. UsageLimit[u] \in Nat \ {0} /\ MaxWeight({u}) \in Nat
      BY SlotsAssumption, MaxWeightBounds
    <3> QED  BY <3>1
  <2> QED  BY <2>1, <2>2 DEF BoundInv, Bounded, Init
<1>4. CountInv
  <2>1. ASSUME NEW U PROVE Exact(0, U, req, Running, unlockChan)
    <3>1. For(req, Running, U) = {} /\ BackFor(unlockChan, U) = {}
      BY DEF Init, For, BackFor, Running
    <3>2. Weights(req, {}) = 0 /\ Backs(unlockChan, {}) = 0
      BY SumEmpty DEF Weights, Backs
    <3> QED  BY <3>1, <3>2 DEF Exact
  <2> QED  BY <2>1 DEF CountInv, Counted, Init
<1> QED  BY <1>1, <1>2, <1>3, <1>4 DEF Inv

\* What the others have does not change.
Others(c) == \A d \in Client \ {c} : pc'[d] = pc[d] /\ req'[d] = req[d]

LEMMA ListsStay ==
    ASSUME TypeOK, Lists(waitingList, Waiting), waitingList' = waitingList,
           NEW c \in Client, pc[c] # "waiting", Others(c)
    PROVE  Lists(waitingList, Waiting)'
<1>1. ASSUME NEW u \in Usage, NEW i \in DOMAIN waitingList[u]
      PROVE  LET d == waitingList[u][i] IN d \in Client \ {c} /\ pc[d] = "waiting" /\ Set(req[d].usage) = u
  BY DEF Lists, Waiting
<1>2. ASSUME NEW u \in Usage, NEW i \in DOMAIN waitingList[u]
      PROVE  LET d == waitingList[u][i] IN d \in Client /\ pc'[d] = "waiting" /\ Set(req'[d].usage) = u
  BY <1>1 DEF Others
<1>3. \A u \in Usage : Once(waitingList[u])
  BY DEF Lists
<1> QED  BY <1>2, <1>3 DEF Lists, Waiting

LEMMA ExactAgrees ==
    ASSUME NEW rq, NEW sq, NEW R, R \subseteq Client, \A c \in R : rq[c] \in Req /\ sq[c] = rq[c],
           NEW q, NEW n, NEW U, Exact(n, U, rq, R, q)
    PROVE  Exact(n, U, sq, R, q)
<1>1. For(sq, R, U) = For(rq, R, U)
  BY DEF For
<1>2. Weights(sq, For(rq, R, U)) = Weights(rq, For(rq, R, U))
  <2>1. For(rq, R, U) \subseteq R
    BY DEF For
  <2> QED  BY <2>1, WeightsAgree
<1> QED  BY <1>1, <1>2 DEF Exact

LEMMA CountStays ==
    ASSUME TypeOK, ClientInv, CountInv, NEW c \in Client, pc[c] # "running", pc'[c] # "running",
           Others(c), handling' => handling, retries' = retries,
           occupiedSlots' = occupiedSlots, occupied' = occupied, unlockChan' = unlockChan
    PROVE  CountInv'
<1> SUFFICES ASSUME handling', retries = 0
             PROVE  Counted(occupiedSlots, occupied, Running, unlockChan)'
  BY DEF CountInv
<1>1. Counted(occupiedSlots, occupied, Running, unlockChan)
  BY DEF CountInv
<1>2. Running' = Running /\ Running \subseteq Client
  BY DEF Running, Others
<1>3. \A d \in Running : req[d] \in Req /\ req'[d] = req[d]
  <2>1. ASSUME NEW d \in Running PROVE req[d] \in Req /\ req'[d] = req[d]
    BY ClientHasRequest DEF Running, Others
  <2> QED  BY <2>1
<1>4. ASSUME NEW n, NEW U, Exact(n, U, req, Running, unlockChan)
      PROVE  Exact(n, U, req', Running', unlockChan')
  BY <1>2, <1>3, <1>4, ExactAgrees
<1> QED  BY <1>1, <1>4 DEF Counted

LEMMA LockStep ==
    ASSUME Inv, NEW c \in Client, NEW r \in Request[c], Lock(c, r)
    PROVE  Inv'
<1>1. /\ handling /\ pc[c] = "idle" /\ req' = [req EXCEPT ![c] = r]
      /\ lockChan' = Append(lockChan, c) /\ pc' = [pc EXCEPT ![c] = "asking"]
      /\ UNCHANGED <<handling, slots, usages, unlockChan, retries>>
  BY DEF Lock
<1>2. TypeOK /\ ClientInv /\ QueueInv /\ BoundInv /\ CountInv /\ NoIdleWaiter
  BY DEF Inv
<1>3. TypeOK'
  <2>1. r \in Req
    BY SlotsAssumption DEF Req
  <2> QED  BY <1>1, <1>2, <2>1 DEF TypeOK, slots, Pc
<1>4. Others(c)
  BY <1>1, <1>2 DEF Others, TypeOK
<1>5. ClientInv'
  <2>1. r # None
    BY SlotsAssumption
  <2>2. pc'[c] = "asking" /\ req'[c] = r
    BY <1>1, <1>2 DEF TypeOK
  <2> QED  BY <1>1, <1>2, <1>4, <2>1, <2>2 DEF ClientInv, Others
<1>6. QueueInv'
  <2>1. \A i \in DOMAIN lockChan : pc[lockChan[i]] = "asking" /\ lockChan[i] \in Client \ {c}
    BY <1>1, <1>2 DEF QueueInv, TypeOK
  <2>2. \A i \in DOMAIN lockChan' : pc'[lockChan'[i]] = "asking"
    BY <1>1, <1>2, <1>4, <2>1 DEF TypeOK, Others
  <2>3. Once(lockChan')
    BY <1>1, <1>2, <2>1 DEF Once, QueueInv, TypeOK
  <2>4. Lists(waitingList, Waiting)'
    BY <1>1, <1>2, <1>4, ListsStay DEF QueueInv, slots
  <2> QED  BY <2>2, <2>3, <2>4 DEF QueueInv
<1>7. BoundInv' /\ NoIdleWaiter'
  BY <1>1, <1>2 DEF BoundInv, Bounded, NoIdleWaiter, slots
<1>8. CountInv'
  <2>1. pc'[c] = "asking"
    BY <1>1, <1>2 DEF TypeOK
  <2> QED  BY <1>1, <1>2, <1>4, <2>1, CountStays DEF slots
<1> QED  BY <1>3, <1>5, <1>6, <1>7, <1>8 DEF Inv

LEMMA RefusedStep ==
    ASSUME Inv, NEW c \in Client, Refused(c)
    PROVE  Inv'
<1>1. /\ pc[c] = "refused" \/ (~handling /\ pc[c] \in {"asking", "waiting"})
      /\ pc' = [pc EXCEPT ![c] = "idle"] /\ req' = [req EXCEPT ![c] = None]
      /\ UNCHANGED <<handling, slots, usages, lockChan, unlockChan, retries>>
  BY DEF Refused
<1>2. TypeOK /\ ClientInv /\ QueueInv /\ BoundInv /\ CountInv /\ NoIdleWaiter
  BY DEF Inv
<1>3. TypeOK'
  BY <1>1, <1>2 DEF TypeOK, slots, Pc
<1>4. Others(c) /\ pc'[c] = "idle"
  BY <1>1, <1>2 DEF Others, TypeOK
<1>5. ClientInv'
  BY <1>1, <1>2, <1>4 DEF ClientInv, Others
<1>6. QueueInv'
  <2>1. SUFFICES ASSUME handling PROVE QueueInv'
    BY <1>1 DEF QueueInv
  <2>2. \A i \in DOMAIN lockChan : pc[lockChan[i]] = "asking" /\ lockChan[i] \in Client \ {c}
    BY <1>1, <1>2, <2>1 DEF QueueInv, TypeOK
  <2>3. \A i \in DOMAIN lockChan' : pc'[lockChan'[i]] = "asking"
    BY <1>1, <1>4, <2>2 DEF Others
  <2>4. Lists(waitingList, Waiting)'
    BY <1>1, <1>2, <1>4, <2>1, ListsStay DEF QueueInv, slots
  <2> QED  BY <1>1, <1>2, <2>1, <2>3, <2>4 DEF QueueInv, Once
<1>7. BoundInv' /\ NoIdleWaiter'
  BY <1>1, <1>2 DEF BoundInv, Bounded, NoIdleWaiter, slots
<1>8. CountInv'
  BY <1>1, <1>2, <1>4, CountStays DEF slots
<1> QED  BY <1>3, <1>5, <1>6, <1>7, <1>8 DEF Inv

LEMMA UnlockStep ==
    ASSUME Inv, NEW c \in Client, Unlock(c)
    PROVE  Inv'
<1>1. /\ pc[c] = "running"
      /\ unlockChan' = IF handling THEN Append(unlockChan, req[c]) ELSE unlockChan
      /\ UNCHANGED <<handling, slots, usages, lockChan>>
  BY DEF Unlock
<1>2. \/ pc' = [pc EXCEPT ![c] = "idle"] /\ req' = [req EXCEPT ![c] = None] /\ retries' = retries
      \/ pc' = [pc EXCEPT ![c] = "sleeping"] /\ retries' = retries + 1 /\ req' = req
  BY DEF Unlock
<1>3. TypeOK /\ ClientInv /\ QueueInv /\ BoundInv /\ CountInv /\ NoIdleWaiter
  BY DEF Inv
<1>4. req[c] \in Req
  BY <1>1, <1>3, ClientHasRequest
<1>5. TypeOK'
  <2>1. unlockChan' \in Seq(Req)
    BY <1>1, <1>3, <1>4 DEF TypeOK
  <2>2. pc' \in [Client -> Pc] /\ retries' \in Nat
    <3>1. pc \in [Client -> Pc] /\ retries \in Nat
      BY <1>3 DEF TypeOK
    <3>2. pc' \in [Client -> Pc]
      BY <1>2, <3>1 DEF Pc
    <3>3. retries' \in Nat
      BY <1>2, <3>1
    <3> QED  BY <3>2, <3>3
  <2>3. req' \in [Client -> {None} \cup Req] /\ \A d \in Client : req'[d] \in {None} \cup Request[d]
    BY <1>2, <1>3 DEF TypeOK
  <2> QED  BY <1>1, <1>3, <2>1, <2>2, <2>3 DEF TypeOK, slots
<1>6. Others(c) /\ pc'[c] \in {"idle", "sleeping"}
  BY <1>2, <1>3 DEF Others, TypeOK
<1>7. ClientInv'
  <2>1. pc'[c] # "idle" => req'[c] # None
    BY <1>1, <1>2, <1>3 DEF ClientInv, TypeOK
  <2>2. pc'[c] = "sleeping" => retries' > 0
    BY <1>2, <1>3 DEF TypeOK
  <2>3. \A d \in Client : retries > 0 => retries' > 0
    BY <1>2, <1>3 DEF TypeOK
  <2> QED  BY <1>3, <1>6, <2>1, <2>2, <2>3 DEF ClientInv, Others
<1>8. QueueInv'
  <2>1. SUFFICES ASSUME handling PROVE QueueInv'
    BY <1>1 DEF QueueInv
  <2>2. \A i \in DOMAIN lockChan : pc[lockChan[i]] = "asking" /\ lockChan[i] \in Client \ {c}
    BY <1>1, <1>3, <2>1 DEF QueueInv, TypeOK
  <2>3. \A i \in DOMAIN lockChan' : pc'[lockChan'[i]] = "asking"
    BY <1>1, <1>6, <2>2 DEF Others
  <2>4. Lists(waitingList, Waiting)'
    BY <1>1, <1>3, <1>6, <2>1, ListsStay DEF QueueInv, slots
  <2> QED  BY <1>1, <1>3, <2>1, <2>3, <2>4 DEF QueueInv, Once
<1>9. BoundInv' /\ NoIdleWaiter'
  BY <1>1, <1>3 DEF BoundInv, Bounded, NoIdleWaiter, slots
<1>10. CountInv'
  <2>1. SUFFICES ASSUME handling', retries' = 0
                 PROVE  Counted(occupiedSlots, occupied, Running, unlockChan)'
    BY DEF CountInv
  <2>2. /\ handling /\ retries = 0 /\ pc' = [pc EXCEPT ![c] = "idle"]
        /\ req' = [req EXCEPT ![c] = None]
    BY <1>1, <1>2, <1>3, <2>1 DEF TypeOK
  <2>3. Counted(occupiedSlots, occupied, Running, unlockChan)
    BY <1>3, <2>2 DEF CountInv
  <2>4. Running \subseteq Client /\ c \in Running /\ Running' = Running \ {c}
    BY <1>1, <1>3, <2>2 DEF Running, TypeOK
  <2>5. ASSUME NEW d \in Running PROVE req[d] \in Req
    BY <1>3, ClientHasRequest DEF Running
  <2>6. \A d \in Running \ {c} : req'[d] = req[d]
    BY <1>6, <2>4 DEF Others
  <2>7. unlockChan \in Seq(Req) /\ unlockChan' = Append(unlockChan, req[c])
    BY <1>1, <1>3, <2>2 DEF TypeOK
  <2>8. ASSUME NEW n \in Int, NEW U, Exact(n, U, req, Running, unlockChan)
        PROVE  Exact(n, U, req', Running', unlockChan')
    BY <2>4, <2>5, <2>6, <2>7, <2>8, GiveIsExact
  <2>9. occupiedSlots \in Int /\ \A u \in Usage : occupied[u] \in Int
    BY <1>3 DEF TypeOK
  <2> QED  BY <1>1, <2>3, <2>8, <2>9 DEF Counted, slots
<1> QED  BY <1>5, <1>7, <1>8, <1>9, <1>10 DEF Inv

LEMMA RetryStep ==
    ASSUME Inv, NEW c \in Client, Retry(c)
    PROVE  Inv'
<1>1. /\ pc[c] = "sleeping" /\ pc' = [pc EXCEPT ![c] = "running"]
      /\ UNCHANGED <<handling, slots, usages, lockChan, unlockChan, req, retries>>
  BY DEF Retry
<1>2. TypeOK /\ ClientInv /\ QueueInv /\ BoundInv /\ CountInv /\ NoIdleWaiter
  BY DEF Inv
<1>3. TypeOK'
  BY <1>1, <1>2 DEF TypeOK, slots, Pc
<1>4. Others(c) /\ pc'[c] = "running"
  BY <1>1, <1>2 DEF Others, TypeOK
<1>5. ClientInv'
  BY <1>1, <1>2, <1>4 DEF ClientInv, Others
<1>6. QueueInv'
  <2>1. SUFFICES ASSUME handling PROVE QueueInv'
    BY <1>1 DEF QueueInv
  <2>2. \A i \in DOMAIN lockChan : pc[lockChan[i]] = "asking" /\ lockChan[i] \in Client \ {c}
    BY <1>1, <1>2, <2>1 DEF QueueInv, TypeOK
  <2>3. \A i \in DOMAIN lockChan' : pc'[lockChan'[i]] = "asking"
    BY <1>1, <1>4, <2>2 DEF Others
  <2>4. Lists(waitingList, Waiting)'
    BY <1>1, <1>2, <1>4, <2>1, ListsStay DEF QueueInv, slots
  <2> QED  BY <1>1, <1>2, <2>1, <2>3, <2>4 DEF QueueInv, Once
<1>7. BoundInv' /\ NoIdleWaiter'
  BY <1>1, <1>2 DEF BoundInv, Bounded, NoIdleWaiter, slots
<1>8. CountInv'
  <2>1. retries > 0 /\ retries' = retries
    BY <1>1, <1>2 DEF ClientInv
  <2>2. ~(retries = 0)
    BY <1>2, <2>1 DEF TypeOK
  <2> QED  BY <2>1, <2>2 DEF CountInv
<1> QED  BY <1>3, <1>5, <1>6, <1>7, <1>8 DEF Inv

-----------------------------------------------------------------------------
(* The steps of the handler.                                               *)

\* The first request is taken from the channel.
LEMMA TakeLockKeeps ==
    ASSUME Inv, TakeLock
    PROVE  LET c == Head(lockChan)
           IN  /\ handling /\ c \in Client /\ pc[c] = "asking" /\ lockChan' \in Seq(Client)
               /\ \A i \in DOMAIN lockChan' : lockChan'[i] \in Client \ {c}
                                              /\ pc[lockChan'[i]] = "asking"
               /\ Once(lockChan')
<1> DEFINE s == lockChan
           c == Head(s)
<1>1. handling /\ s \in Seq(Client) /\ s # <<>> /\ lockChan' = Tail(s)
  BY DEF TakeLock, Inv, TypeOK
<1>2. (\A i \in DOMAIN s : pc[s[i]] = "asking") /\ \A i, j \in DOMAIN s : s[i] = s[j] => i = j
  BY <1>1 DEF Inv, QueueInv, Once
<1> HIDE DEF s
<1>3. /\ DOMAIN s = 1..Len(s) /\ Len(s) \in Nat \ {0} /\ s[1] = c /\ 1 \in DOMAIN s
      /\ Tail(s) \in Seq(Client) /\ DOMAIN Tail(s) = 1..(Len(s) - 1)
      /\ \A i \in DOMAIN Tail(s) : Tail(s)[i] = s[i + 1] /\ i + 1 \in DOMAIN s /\ i + 1 # 1
  BY <1>1
<1>4. c \in Client /\ pc[c] = "asking"
  BY <1>1, <1>2, <1>3
<1>5. \A i \in DOMAIN lockChan' : lockChan'[i] \in Client \ {c} /\ pc[lockChan'[i]] = "asking"
  BY <1>1, <1>2, <1>3
<1>6. Once(lockChan')
  BY <1>1, <1>2, <1>3 DEF Once
<1> QED  BY <1>1, <1>3, <1>4, <1>5, <1>6 DEF s

LEMMA GetSlotStep ==
    ASSUME Inv, GetSlot
    PROVE  Inv'
<1> DEFINE c == Head(lockChan)
           u == Set(req[c].usage)
           w == req[c].weight
<1>1. TypeOK /\ ClientInv /\ QueueInv /\ BoundInv /\ CountInv /\ NoIdleWaiter
  BY DEF Inv
<1>2. /\ handling /\ c \in Client /\ pc[c] = "asking" /\ lockChan' \in Seq(Client)
      /\ \A i \in DOMAIN lockChan' : lockChan'[i] \in Client \ {c} /\ pc[lockChan'[i]] = "asking"
      /\ Once(lockChan')
  BY TakeLockKeeps DEF GetSlot
<1>3. UNCHANGED <<handling, cursor, usages, unlockChan, req, retries>>
  BY DEF GetSlot
<1>4. \/ /\ occupiedSlots < TotalSlots /\ Idle(occupied, u)
         /\ occupiedSlots' = occupiedSlots + w /\ occupied' = [occupied EXCEPT ![u] = @ + w]
         /\ pc' = [pc EXCEPT ![c] = "running"] /\ waitingList' = waitingList
      \/ /\ ~(occupiedSlots < TotalSlots /\ Idle(occupied, u))
         /\ waitingList' = IF req[c].wait THEN [waitingList EXCEPT ![u] = Append(@, c)]
                           ELSE waitingList
         /\ pc' = [pc EXCEPT ![c] = IF req[c].wait THEN "waiting" ELSE "refused"]
         /\ UNCHANGED <<occupiedSlots, occupied>>
  BY DEF GetSlot
<1>5. u \in Usage /\ w \in Nat /\ req[c] \in Req
  BY <1>1, <1>2, SetIsUsage, ClientHasRequest
<1> HIDE DEF c, u, w
<1>6. /\ pc \in [Client -> Pc] /\ occupied \in [Usage -> Nat] /\ occupiedSlots \in Nat
      /\ waitingList \in [Usage -> Seq(Client)] /\ unlockChan \in Seq(Req)
  BY <1>1 DEF TypeOK
<1>7. Others(c) /\ pc'[c] \in {"running", "waiting", "refused"}
  BY <1>2, <1>3, <1>4, <1>6 DEF Others
<1>8. TypeOK'
  <2>1. pc' \in [Client -> Pc]
    BY <1>2, <1>4, <1>6 DEF Pc
  <2>2. occupiedSlots' \in Nat /\ occupied' \in [Usage -> Nat]
    <3>1. occupiedSlots + w \in Nat /\ [occupied EXCEPT ![u] = @ + w] \in [Usage -> Nat]
      BY <1>5, <1>6
    <3> QED  BY <1>4, <1>6, <3>1
  <2>3. waitingList' \in [Usage -> Seq(Client)]
    <3>1. [waitingList EXCEPT ![u] = Append(@, c)] \in [Usage -> Seq(Client)]
      BY <1>2, <1>5, <1>6
    <3> QED  BY <1>4, <1>6, <3>1
  <2> QED  BY <1>1, <1>2, <1>3, <2>1, <2>2, <2>3 DEF TypeOK
<1>9. ClientInv'
  <2>1. req[c] # None
    BY <1>1, <1>2 DEF ClientInv
  <2> QED  BY <1>1, <1>3, <1>7, <2>1 DEF ClientInv, Others
<1>10. (\A i \in DOMAIN lockChan' : pc'[lockChan'[i]] = "asking") /\ Once(lockChan')
  BY <1>2, <1>7 DEF Others
<1>11. Lists(waitingList, Waiting)
  BY <1>1, <1>2 DEF QueueInv
<1>12. CASE waitingList' = waitingList /\ pc'[c] # "waiting"
  <2>1. Lists(waitingList, Waiting)'
    BY <1>1, <1>2, <1>7, <1>11, <1>12, ListsStay
  <2>2. QueueInv'
    BY <1>10, <2>1 DEF QueueInv
  <2>3. CASE pc'[c] = "running"
    <3>1. /\ occupiedSlots < TotalSlots /\ Idle(occupied, u)
          /\ occupiedSlots' = occupiedSlots + w /\ occupied' = [occupied EXCEPT ![u] = @ + w]
          /\ pc' = [pc EXCEPT ![c] = "running"]
      BY <1>2, <1>4, <1>6, <2>3
    <3>2. BoundInv'
      <4>1. Bounded(occupiedSlots + w, [occupied EXCEPT ![u] = @ + w])
        BY <1>1, <1>2, <1>6, <3>1, GrantKeepsBound DEF u, w, BoundInv
      <4> QED  BY <3>1, <4>1 DEF BoundInv, Bounded
    <3>3. NoIdleWaiter'
      <4>1. SUFFICES ASSUME NEW v \in Usage, occupiedSlots' < TotalSlots, Idle(occupied', v)
                     PROVE  waitingList'[v] = <<>>
        BY DEF NoIdleWaiter, Idle
      <4>2. Idle(occupied, v)
        BY <1>5, <1>6, <3>1, <4>1, SlotsAssumption DEF Idle
      <4> QED  BY <1>1, <1>2, <1>12, <3>1, <4>2 DEF NoIdleWaiter
    <3>4. CountInv'
      <4>1. SUFFICES ASSUME retries = 0
                     PROVE  Counted(occupiedSlots, occupied, Running, unlockChan)'
        BY <1>3 DEF CountInv
      <4>2. Counted(occupiedSlots, occupied, Running, unlockChan)
        BY <1>1, <1>2, <4>1 DEF CountInv
      <4>3. Running' = Running \cup {c} /\ c \notin Running
            /\ Running \subseteq {d \in Client : pc[d] # "idle"}
        BY <1>2, <1>6, <3>1 DEF Running
      <4>4. Counted(occupiedSlots + w, [occupied EXCEPT ![u] = @ + w], Running \cup {c}, unlockChan)
        <5> DEFINE R == Running
        <5>1. R \subseteq {d \in Client : pc[d] # "idle"} /\ c \notin R
              /\ Counted(occupiedSlots, occupied, R, unlockChan)
          BY <4>2, <4>3
        <5> HIDE DEF R
        <5>2. Counted(occupiedSlots + w, [occupied EXCEPT ![u] = @ + w], R \cup {c}, unlockChan)
          BY <1>1, <1>2, <1>6, <5>1, GrantKeepsCount DEF u, w
        <5> QED  BY <5>2 DEF R
      <4> QED  BY <1>3, <3>1, <4>3, <4>4 DEF Counted
    <3> QED  BY <1>8, <1>9, <2>2, <3>2, <3>3, <3>4 DEF Inv
  <2>4. CASE pc'[c] # "running"
    <3>1. UNCHANGED <<occupiedSlots, occupied>>
      BY <1>2, <1>4, <1>6, <2>4
    <3>2. BoundInv' /\ NoIdleWaiter'
      BY <1>1, <1>3, <1>12, <3>1 DEF BoundInv, Bounded, NoIdleWaiter
    <3>3. CountInv'
      BY <1>1, <1>2, <1>3, <1>7, <2>4, <3>1, CountStays
    <3> QED  BY <1>8, <1>9, <2>2, <3>2, <3>3 DEF Inv
  <2> QED  BY <2>3, <2>4
<1>13. CASE /\ ~(occupiedSlots < TotalSlots /\ Idle(occupied, u))
            /\ waitingList' = [waitingList EXCEPT ![u] = Append(@, c)]
            /\ pc' = [pc EXCEPT ![c] = "waiting"]
            /\ UNCHANGED <<occupiedSlots, occupied>>
  <2>1. Lists(waitingList, Waiting)'
    <3>1. pc'[c] = "waiting"
      BY <1>2, <1>6, <1>13
    <3>2. ASSUME NEW v \in Usage
          PROVE  /\ Once(waitingList[v])
                 /\ \A i \in DOMAIN waitingList[v] :
                      LET d == waitingList[v][i]
                      IN  d \in Client /\ d # c /\ pc'[d] = "waiting" /\ Set(req'[d].usage) = v
      BY <1>2, <1>3, <1>7, <1>11 DEF Lists, Waiting, Others
    <3>3. ASSUME NEW v \in Usage
          PROVE  /\ Once(waitingList'[v])
                 /\ \A i \in DOMAIN waitingList'[v] :
                      LET d == waitingList'[v][i]
                      IN  d \in Client /\ pc'[d] = "waiting" /\ Set(req'[d].usage) = v
      <4>1. CASE v # u
        <5>1. waitingList'[v] = waitingList[v]
          BY <1>13, <4>1, <1>6
        <5> QED  BY <3>2, <5>1
      <4>2. CASE v = u
        <5> DEFINE s == waitingList[u]
        <5>1. waitingList'[v] = Append(s, c) /\ s \in Seq(Client)
          BY <1>5, <1>6, <1>13, <4>2
        <5>2. Set(req'[c].usage) = u
          BY <1>3 DEF u
        <5>3. Once(s) /\ \A i \in DOMAIN s : s[i] \in Client /\ s[i] # c /\ pc'[s[i]] = "waiting"
                                             /\ Set(req'[s[i]].usage) = u
          BY <3>2, <1>5
        <5> HIDE DEF s
        <5>4. DOMAIN Append(s, c) = 1..(Len(s) + 1) /\ DOMAIN s = 1..Len(s) /\ Len(s) \in Nat
              /\ (\A i \in DOMAIN s : Append(s, c)[i] = s[i]) /\ Append(s, c)[Len(s) + 1] = c
          BY <5>1, <1>2
        <5>5. Once(Append(s, c))
          BY <5>3, <5>4 DEF Once
        <5>6. \A i \in DOMAIN Append(s, c) :
                LET d == Append(s, c)[i]
                IN  d \in Client /\ pc'[d] = "waiting" /\ Set(req'[d].usage) = u
          BY <1>2, <3>1, <5>2, <5>3, <5>4
        <5> QED  BY <4>2, <5>1, <5>5, <5>6
      <4> QED  BY <4>1, <4>2
    <3> QED  BY <3>3 DEF Lists, Waiting
  <2>2. QueueInv'
    BY <1>10, <2>1 DEF QueueInv
  <2>3. BoundInv'
    BY <1>1, <1>13 DEF BoundInv, Bounded
  <2>4. NoIdleWaiter'
    <3>1. SUFFICES ASSUME NEW v \in Usage, occupiedSlots < TotalSlots, Idle(occupied, v)
                   PROVE  waitingList'[v] = <<>>
      BY <1>13 DEF NoIdleWaiter, Idle
    <3>2. v # u
      BY <1>13, <3>1
    <3>3. waitingList'[v] = waitingList[v]
      BY <1>6, <1>13, <3>2
    <3> QED  BY <1>1, <1>2, <3>1, <3>3 DEF NoIdleWaiter
  <2>5. CountInv'
    <3>1. pc'[c] # "running" /\ pc[c] # "running"
      BY <1>2, <1>6, <1>13
    <3> QED  BY <1>1, <1>2, <1>3, <1>7, <1>13, <3>1, CountStays
  <2> QED  BY <1>8, <1>9, <2>2, <2>3, <2>4, <2>5 DEF Inv
<1>14. \/ waitingList' = waitingList /\ pc'[c] # "waiting"
       \/ /\ ~(occupiedSlots < TotalSlots /\ Idle(occupied, u))
          /\ waitingList' = [waitingList EXCEPT ![u] = Append(@, c)]
          /\ pc' = [pc EXCEPT ![c] = "waiting"]
          /\ UNCHANGED <<occupiedSlots, occupied>>
  BY <1>2, <1>4, <1>6
<1> QED  BY <1>12, <1>13, <1>14

LEMMA PutSlotStep ==
    ASSUME Inv, PutSlot
    PROVE  Inv'
<1> DEFINE r == Head(unlockChan)
           q == Tail(unlockChan)
           total == Less(occupiedSlots, r.weight)
           occ == [occupied EXCEPT ![Set(r.usage)] = Less(@, r.weight)]
           s == [total |-> total, occupied |-> occ, list |-> waitingList, cursor |-> cursor,
                 awake |-> {}]
           t == Awake(s)
<1>1. TypeOK /\ ClientInv /\ QueueInv /\ BoundInv /\ CountInv /\ NoIdleWaiter
  BY DEF Inv
<1>2. /\ handling /\ unlockChan # <<>> /\ unlockChan' = q
      /\ occupiedSlots' = t.total /\ occupied' = t.occupied
      /\ waitingList' = t.list /\ cursor' = t.cursor
      /\ pc' = [c \in Client |-> IF c \in t.awake THEN "running" ELSE pc[c]]
      /\ UNCHANGED <<handling, usages, lockChan, req, retries>>
  BY DEF PutSlot, TakeUnlock
<1>3. unlockChan \in Seq(Req) /\ q \in Seq(Req) /\ r \in Req /\ r.weight \in Nat
  <2>1. unlockChan \in Seq(Req) /\ q \in Seq(Req) /\ r \in Req
    BY <1>1, <1>2 DEF TypeOK
  <2> QED  BY <2>1, Weighty DEF Req
<1>4. /\ occupiedSlots \in Nat /\ occupied \in [Usage -> Nat] /\ Set(r.usage) \in Usage
      /\ waitingList \in [Usage -> Seq(Client)] /\ cursor \in 0..(N - 1)
  BY <1>1, SetIsUsage DEF TypeOK
<1> HIDE DEF r, q
<1>5. \A n \in Nat : Less(n, r.weight) \in Nat /\ Less(n, r.weight) <= n
  BY <1>3 DEF Less
<1>6. total \in Nat /\ total <= occupiedSlots /\ occ \in [Usage -> Nat]
      /\ \A u \in Usage : occ[u] <= occupied[u]
  <2>1. total \in Nat /\ total <= occupiedSlots
    BY <1>4, <1>5
  <2>2. ASSUME NEW u \in Usage PROVE occ[u] \in Nat /\ occ[u] <= occupied[u]
    <3>1. occupied[u] \in Nat /\ occ[u] = IF u = Set(r.usage) THEN Less(occupied[u], r.weight)
                                         ELSE occupied[u]
      BY <1>4
    <3> QED  BY <1>5, <3>1
  <2>3. occ \in [Usage -> Nat]
    <3>1. occ = [u \in Usage |-> occ[u]]
      BY <1>4
    <3> HIDE DEF occ
    <3> QED  BY <2>2, <3>1
  <2> QED  BY <2>1, <2>2, <2>3
<1>7. \A u \in Usage : occ[u] = IF Set(r.usage) \in {u} THEN Less(occupied[u], r.weight)
                               ELSE occupied[u]
  BY <1>4
<1> HIDE DEF total, occ
<1>8. Woken(s, q)
  <2>1. s \in AwakeState
    BY <1>4, <1>6 DEF AwakeState
  <2>2. Lists(waitingList, Waiting \ {})
    <3>1. Waiting \ {} = Waiting
      OBVIOUS
    <3> QED  BY <1>1, <1>2, <3>1 DEF QueueInv
  <2>3. Bounded(total, occ)
    <3>1. MaxWeight(Usage) \in Nat /\ \A u \in Usage : MaxWeight({u}) \in Nat
      BY MaxWeightBounds
    <3>2. TotalSlots \in Nat /\ \A u \in Usage : UsageLimit[u] \in Nat
      BY SlotsAssumption
    <3>3. Bounded(occupiedSlots, occupied)
      BY <1>1 DEF BoundInv
    <3>4. total < TotalSlots + MaxWeight(Usage)
      BY <1>4, <1>6, <3>1, <3>2, <3>3 DEF Bounded
    <3>5. ASSUME NEW u \in Usage PROVE occ[u] < UsageLimit[u] + MaxWeight({u})
      <4>1. occ[u] \in Nat /\ occupied[u] \in Nat /\ occ[u] <= occupied[u]
            /\ occupied[u] < UsageLimit[u] + MaxWeight({u})
        BY <1>4, <1>6, <3>3 DEF Bounded
      <4> QED  BY <3>1, <3>2, <4>1
    <3> QED  BY <3>4, <3>5 DEF Bounded
  <2>4. ASSUME retries = 0 PROVE Counted(total, occ, Running, q)
    <3>1. Counted(occupiedSlots, occupied, Running, unlockChan)
      BY <1>1, <1>2, <2>4 DEF CountInv
    <3>2. Running \subseteq Client /\ \A d \in Running : req[d] \in Req
      <4>1. ASSUME NEW d \in Running PROVE req[d] \in Req
        BY <1>1, ClientHasRequest DEF Running
      <4> QED  BY <4>1 DEF Running
    <3>3. ASSUME NEW n \in Nat, NEW U, Exact(n, U, req, Running, unlockChan)
          PROVE  Exact(IF Set(r.usage) \in U THEN Less(n, r.weight) ELSE n, U, req, Running, q)
      BY <1>2, <1>3, <3>2, <3>3, FreeIsExact DEF r, q
    <3>4. Exact(total, Usage, req, Running, q)
      <4>1. Exact(IF Set(r.usage) \in Usage THEN Less(occupiedSlots, r.weight) ELSE occupiedSlots,
                  Usage, req, Running, q)
        BY <1>4, <3>1, <3>3 DEF Counted
      <4> QED  BY <1>4, <4>1 DEF total
    <3>5. ASSUME NEW u \in Usage PROVE Exact(occ[u], {u}, req, Running, q)
      <4>1. Exact(IF Set(r.usage) \in {u} THEN Less(occupied[u], r.weight) ELSE occupied[u],
                  {u}, req, Running, q)
        BY <1>4, <3>1, <3>3 DEF Counted
      <4> QED  BY <1>7, <4>1
    <3> QED  BY <3>4, <3>5 DEF Counted
  <2>5. Running \cup {} = Running
    OBVIOUS
  <2> QED  BY <2>1, <2>2, <2>3, <2>4, <2>5 DEF Woken
<1>9. Woken(t, q) /\ Stuck(t)
  <2> HIDE DEF s
  <2>1. s.awake = {}
    BY DEF s
  <2> QED  BY <1>1, <1>3, <1>8, <2>1, AwakeKeeps
<1> HIDE DEF t
<1>10. /\ t.total \in Nat /\ t.occupied \in [Usage -> Nat] /\ t.list \in [Usage -> Seq(Client)]
       /\ t.cursor \in 0..(N - 1) /\ t.awake \subseteq Waiting /\ t.awake \subseteq Client
  BY <1>9 DEF Woken, AwakeState
<1>11. TypeOK'
  <2>1. pc' \in [Client -> Pc]
    BY <1>1, <1>2 DEF TypeOK, Pc
  <2> QED  BY <1>1, <1>2, <1>3, <1>10, <2>1 DEF TypeOK
<1>12. /\ \A c \in t.awake : pc[c] = "waiting" /\ pc'[c] = "running"
       /\ \A c \in Client \ t.awake : pc'[c] = pc[c]
  BY <1>2, <1>10 DEF Waiting
<1>13. ClientInv'
  BY <1>1, <1>2, <1>10, <1>12 DEF ClientInv
<1>14. Waiting' = Waiting \ t.awake /\ Running' = Running \cup t.awake
  BY <1>10, <1>12 DEF Waiting, Running
<1>15. QueueInv'
  <2>1. Lists(t.list, Waiting \ t.awake)
    BY <1>9 DEF Woken
  <2>2. Lists(waitingList, Waiting)'
    BY <1>2, <1>14, <2>1 DEF Lists
  <2>3. ASSUME NEW i \in DOMAIN lockChan PROVE pc'[lockChan[i]] = "asking"
    <3>1. lockChan[i] \in Client /\ pc[lockChan[i]] = "asking"
      BY <1>1, <1>2 DEF QueueInv, TypeOK
    <3> QED  BY <1>12, <3>1
  <2>4. Once(lockChan)
    BY <1>1, <1>2 DEF QueueInv
  <2> QED  BY <1>2, <2>2, <2>3, <2>4 DEF QueueInv, Once
<1>16. BoundInv'
  BY <1>2, <1>9 DEF Woken, BoundInv, Bounded
<1>17. CountInv'
  <2>1. ASSUME retries = 0 PROVE Counted(t.total, t.occupied, Running \cup t.awake, q)
    BY <1>9, <2>1 DEF Woken
  <2> QED  BY <1>2, <1>14, <2>1 DEF CountInv, Counted
<1>18. NoIdleWaiter'
  <2>1. SUFFICES ASSUME NEW u \in Usage, t.total < TotalSlots, Idle(t.occupied, u)
                 PROVE  t.list[u] = <<>>
    BY <1>2 DEF NoIdleWaiter, Idle
  <2>2. Found(t) = {}
    BY <1>9, <1>10, <2>1, SlotsAssumption DEF Stuck
  <2>3. PICK k \in 0..(N - 1) : Polled(t, k) = u
    BY <1>1, <1>10, PolledIsUsage
  <2> QED  BY <2>1, <2>2, <2>3 DEF Found
<1> QED  BY <1>11, <1>13, <1>15, <1>16, <1>17, <1>18 DEF Inv

LEMMA NextInv == Inv /\ [Next]_vars => Inv'
<1> SUFFICES ASSUME Inv, [Next]_vars PROVE Inv'
  OBVIOUS
<1>1. ASSUME NEW c \in Client, NEW r \in Request[c], Lock(c, r) PROVE Inv'
  BY <1>1, LockStep
<1>2. ASSUME NEW c \in Client, Refused(c) \/ Unlock(c) \/ Retry(c) PROVE Inv'
  BY <1>2, RefusedStep, UnlockStep, RetryStep
<1>3. CASE GetSlot \/ PutSlot
  BY <1>3, GetSlotStep, PutSlotStep
<1>4. CASE Done
  <2>1. ~handling' /\ UNCHANGED <<slots, usages, lockChan, unlockChan, pc, req, retries>>
    BY <1>4 DEF Done
  <2>2. handling' \in BOOLEAN
    BY <1>4 DEF Done
  <2>3. TypeOK' /\ ClientInv'
    BY <2>1, <2>2 DEF Inv, TypeOK, ClientInv, slots
  <2>4. QueueInv' /\ CountInv' /\ NoIdleWaiter'
    BY <2>1 DEF QueueInv, CountInv, NoIdleWaiter
  <2>5. BoundInv'
    BY <2>1 DEF Inv, BoundInv, Bounded, slots
  <2> QED  BY <2>3, <2>4, <2>5 DEF Inv
<1>5. CASE UNCHANGED vars
  <2>1. TypeOK' /\ ClientInv'
    BY <1>5 DEF Inv, TypeOK, ClientInv, vars, slots
  <2>2. QueueInv'
    BY <1>5 DEF Inv, QueueInv, Lists, Once, Waiting, vars, slots
  <2>3. BoundInv' /\ NoIdleWaiter'
    BY <1>5 DEF Inv, BoundInv, Bounded, NoIdleWaiter, vars, slots
  <2>4. CountInv'
    BY <1>5 DEF Inv, CountInv, Counted, Running, vars, slots
  <2> QED  BY <2>1, <2>2, <2>3, <2>4 DEF Inv
<1> QED  BY <1>1, <1>2, <1>3, <1>4, <1>5 DEF Next

-----------------------------------------------------------------------------
(* The theorems.                                                           *)

\* The sums of the invariant are those of the properties.
LEMMA CountsAreSums ==
    ASSUME TypeOK, ClientInv
    PROVE  /\ For(req, Running, Usage) = Running
           /\ \A u : For(req, Running, {u}) = Running \cap Of(u)
           /\ BackFor(unlockChan, Usage) = DOMAIN unlockChan
           /\ \A u : BackFor(unlockChan, {u}) = BackOf(u)
           /\ \A C : Weights(req, C) = WeightOf(C)
           /\ \A I : Backs(unlockChan, I) = Returned(I)
<1>1. For(req, Running, Usage) = Running /\ BackFor(unlockChan, Usage) = DOMAIN unlockChan
  BY SetIsUsage DEF For, BackFor
<1>2. \A c \in Running : c \in Client /\ req[c] # None
  BY DEF Running, ClientInv
<1>3. \A u : For(req, Running, {u}) = Running \cap Of(u)
  BY <1>2 DEF For, Of
<1>4. \A u : BackFor(unlockChan, {u}) = BackOf(u)
  BY DEF BackFor, BackOf
<1>5. /\ \A C : Weights(req, C) = WeightOf(C)
      /\ \A I : Backs(unlockChan, I) = Returned(I)
  BY DEF Weights, WeightOf, Backs, Returned
<1> QED  BY <1>1, <1>3, <1>4, <1>5

LEMMA InvGivesCount == Inv => SlotsAreExact
<1> SUFFICES ASSUME Inv, handling, retries = 0
             PROVE  /\ occupiedSlots = WeightOf(Running) + Returned(DOMAIN unlockChan)
                    /\ \A u \in Usage :
                         occupied[u] = WeightOf(Running \cap Of(u)) + Returned(BackOf(u))
  BY DEF SlotsAreExact
<1>1. Counted(occupiedSlots, occupied, Running, unlockChan) /\ TypeOK /\ ClientInv
  BY DEF Inv, CountInv
<1> QED  BY <1>1, CountsAreSums DEF Counted, Exact

LEMMA InvGivesLimit == Inv => RunningIsLimited
<1> SUFFICES ASSUME Inv, handling, retries = 0
             PROVE  /\ WeightOf(Running) < TotalSlots + MaxWeight(Usage)
                    /\ \A u \in Usage : WeightOf(Running \cap Of(u)) < UsageLimit[u] + MaxWeight({u})
  BY DEF RunningIsLimited, Limited
<1>1. TypeOK /\ ClientInv /\ Bounded(occupiedSlots, occupied)
  BY DEF Inv, BoundInv
<1>2. /\ occupiedSlots = WeightOf(Running) + Returned(DOMAIN unlockChan)
      /\ \A u \in Usage : occupied[u] = WeightOf(Running \cap Of(u)) + Returned(BackOf(u))
  BY InvGivesCount DEF SlotsAreExact
<1>3. ASSUME NEW C, C \subseteq Running PROVE WeightOf(C) \in Nat
  <2>1. ASSUME NEW c \in C PROVE req[c] \in Req
    BY <1>1, <1>3, ClientHasRequest DEF Running
  <2>2. C \subseteq Client
    BY <1>3 DEF Running
  <2>3. Weights(req, C) \in Nat
    BY <2>1, <2>2, WeightsAreNat
  <2> QED  BY <2>3 DEF Weights, WeightOf
<1>4. ASSUME NEW I, I \subseteq DOMAIN unlockChan PROVE Returned(I) \in Nat
  <2>1. Backs(unlockChan, I) \in Nat
    BY <1>1, <1>4, BacksAreNat DEF TypeOK
  <2> QED  BY <2>1 DEF Backs, Returned
<1>5. MaxWeight(Usage) \in Nat /\ TotalSlots \in Nat
  BY SlotsAssumption, MaxWeightBounds
<1>6. WeightOf(Running) < TotalSlots + MaxWeight(Usage)
  <2>1. WeightOf(Running) \in Nat /\ Returned(DOMAIN unlockChan) \in Nat
    BY <1>3, <1>4
  <2> QED  BY <1>1, <1>2, <1>5, <2>1 DEF Bounded
<1>7. ASSUME NEW u \in Usage
      PROVE  WeightOf(Running \cap Of(u)) < UsageLimit[u] + MaxWeight({u})
  <2>1. WeightOf(Running \cap Of(u)) \in Nat /\ Returned(BackOf(u)) \in Nat
    BY <1>3, <1>4 DEF BackOf
  <2>2. UsageLimit[u] \in Nat /\ MaxWeight({u}) \in Nat
    BY SlotsAssumption, MaxWeightBounds
  <2> QED  BY <1>1, <1>2, <2>1, <2>2 DEF Bounded
<1> QED  BY <1>6, <1>7

THEOREM InvIsInvariant == Spec => []Inv
BY InitInv, NextInv, PTL DEF Spec

\* The slots of a controller that are counted, in all and of each usage, are
\* those its executors hold and those on their way back, for any number of
\* executors, usages, weights and slots (putSlot's clamps at zero are never
\* used), until executeLocalTask retries without a slot.
THEOREM SlotsStayExact == Spec => []SlotsAreExact
BY InvIsInvariant, InvGivesCount, PTL

\* Nobody waits while there is a slot for him: one unlock frees as many waiters
\* as there are slots for (putSlot), also after retries.
THEOREM NobodyWaitsIdly == Spec => []NoIdleWaiter
<1>1. Inv => NoIdleWaiter
  BY DEF Inv
<1> QED  BY <1>1, InvIsInvariant, PTL

\* What runs at once weighs less than the limit, of all slots and of each usage,
\* and the weight of one request more.
THEOREM LimitIsKept == Spec => []RunningIsLimited
BY InvIsInvariant, InvGivesLimit, PTL
=============================================================================
