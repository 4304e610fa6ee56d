------------------------- MODULE RemoteSlots_proofs -------------------------
(***************************************************************************)
(* SlotsAreBalanced, OverbookedByOne and TotalIsAvailable of RemoteSlots,   *)
(* for every number of jobs, hosts, slots, tries and failures.  The first    *)
(* two are inductive with three facts: the types, that a job has a worker    *)
(* exactly while it holds a slot, and that a job that asks is in one of the  *)
(* two queues, once; the total with the fact that no worker is disabled and  *)
(* dead at once, which the code would count twice.                           *)
(***************************************************************************)
EXTENDS RemoteSlots, SumTheorems, SequenceTheorems

\* ho is the worker of each job, oc what each worker counts, occ what the work
\* counts, back the slots on their way back, hs the workers.
Ones(back, h) == {k \in DOMAIN back : back[k] = h}
Having(ho, h) == {j \in Job : ho[j] = h}
Taking(ho) == {j \in Job : ho[j] # None}
Balanced(hs, ho, oc, occ, back) ==
    /\ occ = Cardinality(Taking(ho)) + Len(back)
    /\ \A h \in hs : oc[h] = Cardinality(Having(ho, h)) + Cardinality(Ones(back, h))

-----------------------------------------------------------------------------
(* Counting.                                                               *)

LEMMA HavingIsFinite ==
    ASSUME NEW ho, NEW h
    PROVE  IsFiniteSet(Having(ho, h)) /\ Cardinality(Having(ho, h)) \in Nat
<1>1. IsFiniteSet(Having(ho, h))
  BY RemoteAssumption, FS_Subset DEF Having
<1> QED  BY <1>1, FS_CardinalityType

LEMMA TakingIsFinite ==
    ASSUME NEW ho
    PROVE  IsFiniteSet(Taking(ho)) /\ Cardinality(Taking(ho)) \in Nat
<1>1. IsFiniteSet(Taking(ho))
  BY RemoteAssumption, FS_Subset DEF Taking
<1> QED  BY <1>1, FS_CardinalityType

LEMMA OnesAreFinite ==
    ASSUME NEW back \in Seq(Host), NEW h
    PROVE  IsFiniteSet(Ones(back, h)) /\ Cardinality(Ones(back, h)) \in Nat
<1>1. DOMAIN back = 1..Len(back) /\ Len(back) \in Nat
  BY LenProperties
<1>2. IsFiniteSet(1..Len(back))
  BY <1>1, FS_Interval
<1>3. Ones(back, h) \in SUBSET (1..Len(back))
  BY <1>1 DEF Ones
<1>4. IsFiniteSet(Ones(back, h))
  BY <1>2, <1>3, FS_Subset
<1> QED  BY <1>4, FS_CardinalityType

\* A slot that is given back is one more on its way.
LEMMA OnesAppended ==
    ASSUME NEW back \in Seq(Host), NEW g \in Host, NEW h
    PROVE  Cardinality(Ones(Append(back, g), h)) =
             IF g = h THEN Cardinality(Ones(back, h)) + 1 ELSE Cardinality(Ones(back, h))
<1> DEFINE n == Len(back) + 1
<1>1. /\ DOMAIN back = 1..Len(back) /\ Len(back) \in Nat
      /\ DOMAIN Append(back, g) = 1..n
      /\ Append(back, g)[n] = g
      /\ \A k \in 1..Len(back) : Append(back, g)[k] = back[k]
  BY LenProperties, AppendProperties
<1>2. Ones(Append(back, g), h) = IF g = h THEN Ones(back, h) \cup {n} ELSE Ones(back, h)
  BY <1>1 DEF Ones
<1>3. n \notin Ones(back, h)
  BY <1>1 DEF Ones
<1> HIDE DEF n
<1> QED  BY <1>2, <1>3, OnesAreFinite, FS_AddElement

\* The first of them is read.
LEMMA OnesRead ==
    ASSUME NEW back \in Seq(Host), back # <<>>, NEW h
    PROVE  Cardinality(Ones(Tail(back), h)) =
             IF Head(back) = h THEN Cardinality(Ones(back, h)) - 1 ELSE Cardinality(Ones(back, h))
<1> DEFINE rest == Ones(back, h) \ {1}
           f == [k \in Ones(Tail(back), h) |-> k + 1]
<1>1. /\ Tail(back) \in Seq(Host) /\ Len(back) \in Nat \ {0}
      /\ DOMAIN back = 1..Len(back) /\ DOMAIN Tail(back) = 1..(Len(back) - 1)
      /\ \A k \in 1..(Len(back) - 1) : Tail(back)[k] = back[k + 1]
      /\ Head(back) = back[1]
  BY HeadTailProperties, EmptySeq, LenProperties
<1>2. f \in [Ones(Tail(back), h) -> rest]
  BY <1>1 DEF Ones
<1>3. \A a, b \in Ones(Tail(back), h) : f[a] = f[b] => a = b
  BY <1>1 DEF Ones
<1>4. \A k \in rest : \E a \in Ones(Tail(back), h) : f[a] = k
  <2> SUFFICES ASSUME NEW k \in rest
               PROVE  k - 1 \in Ones(Tail(back), h) /\ f[k - 1] = k
    OBVIOUS
  <2> QED  BY <1>1 DEF Ones
<1>5. f \in Bijection(Ones(Tail(back), h), rest)
  BY <1>2, <1>3, <1>4 DEF Bijection, Injection, Surjection, IsInjective
<1>6. Cardinality(rest) = Cardinality(Ones(Tail(back), h))
  <2>1. IsFiniteSet(Ones(Tail(back), h))
    BY <1>1, OnesAreFinite
  <2>2. ExistsBijection(Ones(Tail(back), h), rest)
    BY <1>5 DEF ExistsBijection
  <2> HIDE DEF rest, f
  <2> QED  BY <2>1, <2>2, FS_Bijection
<1>7. 1 \in Ones(back, h) <=> Head(back) = h
  BY <1>1 DEF Ones
<1> QED  BY <1>6, <1>7, OnesAreFinite, FS_RemoveElement

-----------------------------------------------------------------------------
(* What the steps do to the balance.                                       *)

\* A job is given a slot.
LEMMA TakingKeepsBalance ==
    ASSUME NEW hs \in SUBSET Host, NEW ho, NEW ho2, NEW oc, NEW oc2, NEW occ, NEW occ2,
           NEW back \in Seq(Host), NEW j \in Job, NEW h \in Host,
           Balanced(hs, ho, oc, occ, back), occ2 = occ + 1,
           ho[j] = None, ho2[j] = h, \A i \in Job \ {j} : ho2[i] = ho[i],
           \A g \in hs : oc2[g] = IF g = h THEN oc[g] + 1 ELSE oc[g]
    PROVE  Balanced(hs, ho2, oc2, occ2, back)
<1>1. Taking(ho2) = Taking(ho) \cup {j} /\ j \notin Taking(ho)
  BY RemoteAssumption DEF Taking
<1>2. Cardinality(Taking(ho2)) = Cardinality(Taking(ho)) + 1
  BY <1>1, TakingIsFinite, FS_AddElement
<1>3. occ2 = Cardinality(Taking(ho2)) + Len(back)
  BY <1>2, TakingIsFinite, LenProperties DEF Balanced
<1>4. ASSUME NEW g \in hs
      PROVE  oc2[g] = Cardinality(Having(ho2, g)) + Cardinality(Ones(back, g))
  <2>1. j \notin Having(ho, g)
        /\ Having(ho2, g) = IF g = h THEN Having(ho, g) \cup {j} ELSE Having(ho, g)
    BY RemoteAssumption DEF Having
  <2>2. Cardinality(Having(ho2, g)) =
          IF g = h THEN Cardinality(Having(ho, g)) + 1 ELSE Cardinality(Having(ho, g))
    BY <2>1, HavingIsFinite, FS_AddElement
  <2> QED  BY <2>2, HavingIsFinite, OnesAreFinite DEF Balanced
<1> QED  BY <1>3, <1>4 DEF Balanced

\* A job gives its slot back.
LEMMA GivingKeepsBalance ==
    ASSUME NEW hs \in SUBSET Host, NEW ho, NEW ho2, NEW oc, NEW occ,
           NEW back \in Seq(Host), NEW j \in Job, ho[j] \in Host,
           Balanced(hs, ho, oc, occ, back),
           ho2[j] = None, \A i \in Job \ {j} : ho2[i] = ho[i]
    PROVE  Balanced(hs, ho2, oc, occ, Append(back, ho[j]))
<1> DEFINE h == ho[j]
<1>1. Taking(ho) = Taking(ho2) \cup {j} /\ j \notin Taking(ho2)
  BY RemoteAssumption DEF Taking
<1>2. Cardinality(Taking(ho)) = Cardinality(Taking(ho2)) + 1
  BY <1>1, TakingIsFinite, FS_AddElement
<1>3. occ = Cardinality(Taking(ho2)) + Len(Append(back, h))
  BY <1>2, TakingIsFinite, LenProperties, AppendProperties DEF Balanced
<1>4. ASSUME NEW g \in hs
      PROVE  oc[g] = Cardinality(Having(ho2, g)) + Cardinality(Ones(Append(back, h), g))
  <2>1. j \notin Having(ho2, g)
        /\ Having(ho, g) = IF g = h THEN Having(ho2, g) \cup {j} ELSE Having(ho2, g)
    BY RemoteAssumption DEF Having
  <2>2. Cardinality(Having(ho, g)) =
          IF g = h THEN Cardinality(Having(ho2, g)) + 1 ELSE Cardinality(Having(ho2, g))
    BY <2>1, HavingIsFinite, FS_AddElement
  <2>3. Cardinality(Ones(Append(back, h), g)) =
          IF g = h THEN Cardinality(Ones(back, g)) + 1 ELSE Cardinality(Ones(back, g))
    BY OnesAppended
  <2> QED  BY <2>2, <2>3, HavingIsFinite, OnesAreFinite DEF Balanced
<1> QED  BY <1>3, <1>4 DEF Balanced

\* handleLock reads a slot that was given back.
LEMMA FreeingKeepsBalance ==
    ASSUME NEW hs \in SUBSET Host, NEW ho, NEW oc, NEW oc2, NEW occ, NEW occ2,
           NEW back \in Seq(Host), back # <<>>,
           Balanced(hs, ho, oc, occ, back), occ2 = occ - 1,
           \A g \in hs : oc2[g] = IF g = Head(back) THEN oc[g] - 1 ELSE oc[g]
    PROVE  Balanced(hs, ho, oc2, occ2, Tail(back))
<1>1. Len(Tail(back)) = Len(back) - 1 /\ Len(back) \in Nat
  BY HeadTailProperties, LenProperties
<1>2. occ2 = Cardinality(Taking(ho)) + Len(Tail(back))
  BY <1>1, TakingIsFinite DEF Balanced
<1>3. ASSUME NEW g \in hs
      PROVE  oc2[g] = Cardinality(Having(ho, g)) + Cardinality(Ones(Tail(back), g))
  <2>1. Cardinality(Ones(Tail(back), g)) =
          IF Head(back) = g THEN Cardinality(Ones(back, g)) - 1 ELSE Cardinality(Ones(back, g))
    BY OnesRead
  <2>2. oc[g] = Cardinality(Having(ho, g)) + Cardinality(Ones(back, g))
    BY DEF Balanced
  <2>3. Cardinality(Having(ho, g)) \in Nat /\ Cardinality(Ones(back, g)) \in Nat
    BY HavingIsFinite, OnesAreFinite
  <2> QED  BY <2>1, <2>2, <2>3
<1> QED  BY <1>2, <1>3 DEF Balanced

\* Nothing of it changes.
LEMMA BalanceIsOfThese ==
    ASSUME NEW hs, NEW ho, NEW ho2, NEW oc, NEW oc2, NEW occ, NEW back,
           Balanced(hs, ho, oc, occ, back),
           \A i \in Job : ho2[i] = ho[i], \A g \in hs : oc2[g] = oc[g]
    PROVE  Balanced(hs, ho2, oc2, occ, back)
<1>1. Taking(ho2) = Taking(ho)
  BY DEF Taking
<1>2. \A g : Having(ho2, g) = Having(ho, g)
  BY DEF Having
<1> QED  BY <1>1, <1>2 DEF Balanced

-----------------------------------------------------------------------------
(* The invariant.                                                          *)

WorkerRec == [disabled : BOOLEAN, dead : BOOLEAN, occ : Int, errors : Nat, large : BOOLEAN]
Holding == {"got", "counted", "dying"}
JobRec == [pc : {"try", "asking", "refused", "remote", "local"} \cup Holding,
           host : Host \cup {None}, ban : SUBSET Host, tries : Nat]

TypeInv ==
    /\ working \in BOOLEAN /\ displaced \in BOOLEAN
    /\ hosts \in SUBSET Host /\ failed \in SUBSET Host
    /\ worker \in [Host -> WorkerRec] /\ occupied \in Int
    /\ job \in [Job -> JobRec]
    /\ lockChan \in Seq(Job) /\ waiting \in Seq(Job) /\ unlockChan \in Seq(Host)

\* A job has a worker exactly while it holds a slot of it.
HolderInv == \A j \in Job : job[j].host # None <=> job[j].pc \in Holding

\* Each request is in one of the queues, once, and its job asks.
RequestInv ==
    working =>
      /\ \A i \in 1..Len(lockChan) : job[lockChan[i]].pc = "asking"
      /\ \A i \in 1..Len(waiting) : job[waiting[i]].pc = "asking"
      /\ \A i, k \in 1..Len(lockChan) : lockChan[i] = lockChan[k] => i = k
      /\ \A i, k \in 1..Len(waiting) : waiting[i] = waiting[k] => i = k
      /\ \A i \in 1..Len(lockChan), k \in 1..Len(waiting) : lockChan[i] # waiting[k]

WithinOne == \A h \in Host : worker[h].occ <= Jobs[h] + 1

HostOf == [j \in Job |-> job[j].host]
OccOf == [h \in Host |-> worker[h].occ]
BalanceInv == displaced \/ Balanced(hosts, HostOf, OccOf, occupied, unlockChan)

SlotInv == TypeInv /\ HolderInv /\ RequestInv /\ WithinOne /\ BalanceInv

-----------------------------------------------------------------------------
(* What a step does to the slots.                                          *)

\* No request is granted; w and occ are the counts before.
NotGranted(w, occ) ==
    /\ \A i \in Job : job'[i].host = job[i].host
    /\ \A g \in Host : worker'[g].occ = w[g].occ
    /\ occupied' = occ

\* The request of j is granted a slot of h.
Granted(w, occ, j, h) ==
    /\ job[j].host = None /\ job'[j].host = h
    /\ \A i \in Job \ {j} : job'[i].host = job[i].host
    /\ w[h].occ <= Jobs[h]
    /\ \A g \in Host : worker'[g].occ = IF g = h THEN w[g].occ + 1 ELSE w[g].occ
    /\ occupied' = occ + 1

Served(w, occ) == NotGranted(w, occ) \/ \E j \in Job, h \in Host : Granted(w, occ, j, h)

GivenBack(j) ==
    /\ job[j].host \in Host /\ unlockChan' = Append(unlockChan, job[j].host)
    /\ job'[j].host = None /\ \A i \in Job \ {j} : job'[i].host = job[i].host
    /\ \A g \in Host : worker'[g].occ = worker[g].occ
    /\ UNCHANGED occupied

Effect ==
    /\ displaced => displaced'
    /\ \/ displaced' /\ \A h \in Host : worker'[h].occ = 0
       \/ displaced' /\ NotGranted(worker, occupied)
       \/ /\ \A j \in Job : job'[j].host = None
          /\ \A h \in Host : worker'[h].occ = 0
          /\ occupied' = 0 /\ unlockChan' = <<>>
       \/ /\ UNCHANGED hosts
          /\ \/ UNCHANGED unlockChan /\ Served(worker, occupied)
             \/ \E j \in Job : GivenBack(j)
             \/ /\ unlockChan # <<>> /\ unlockChan' = Tail(unlockChan)
                /\ Served(Freed(worker, Head(unlockChan)), occupied - 1)

LEMMA FreedEffect ==
    ASSUME NEW w \in [Host -> WorkerRec], NEW h \in Host
    PROVE  /\ Freed(w, h) \in [Host -> WorkerRec]
           /\ \A g \in Host : Freed(w, h)[g].occ = IF g = h /\ h \in hosts THEN w[g].occ - 1
                                                                       ELSE w[g].occ
<1> DEFINE rec == [w[h] EXCEPT !.occ = @ - 1]
<1>1. rec \in WorkerRec /\ rec.occ = w[h].occ - 1
  BY DEF WorkerRec
<1>2. [w EXCEPT ![h].occ = @ - 1] = [w EXCEPT ![h] = rec]
  OBVIOUS
<1> HIDE DEF rec
<1> QED  BY <1>1, <1>2 DEF Freed

\* Such a step keeps the balance.
LEMMA BalanceStep ==
    ASSUME TypeInv, TypeInv', BalanceInv, Effect
    PROVE  BalanceInv'
<1> SUFFICES ASSUME ~displaced'
             PROVE  Balanced(hosts', HostOf', OccOf', occupied', unlockChan')
  BY DEF BalanceInv
<1>1. Balanced(hosts, HostOf, OccOf, occupied, unlockChan)
  BY DEF BalanceInv, Effect
<1>2. /\ hosts \in SUBSET Host /\ hosts' \in SUBSET Host
      /\ unlockChan \in Seq(Host) /\ occupied \in Int
      /\ worker \in [Host -> WorkerRec]
  BY DEF TypeInv
<1>3. ASSUME NEW w \in [Host -> WorkerRec], NEW oc, NEW occ \in Int, Served(w, occ),
             UNCHANGED hosts, \A g \in hosts : oc[g] = w[g].occ,
             Balanced(hosts, HostOf, oc, occ, unlockChan')
      PROVE  Balanced(hosts', HostOf', OccOf', occupied', unlockChan')
  <2>0. unlockChan' \in Seq(Host)
    BY DEF TypeInv
  <2>1. CASE NotGranted(w, occ)
    <3>1. \A i \in Job : HostOf'[i] = HostOf[i]
      BY <2>1 DEF NotGranted, HostOf
    <3>2. \A g \in hosts : OccOf'[g] = oc[g]
      BY <1>2, <1>3, <2>1 DEF NotGranted, OccOf
    <3>3. Balanced(hosts, HostOf, oc, occ, unlockChan')
      BY <1>3
    <3>4. Balanced(hosts, HostOf', OccOf', occ, unlockChan')
      BY <3>1, <3>2, <3>3, BalanceIsOfThese
    <3> QED  BY <1>3, <2>1, <3>4 DEF NotGranted
  <2>2. ASSUME NEW j \in Job, NEW h \in Host, Granted(w, occ, j, h)
        PROVE  Balanced(hosts', HostOf', OccOf', occupied', unlockChan')
    <3>1. HostOf[j] = None /\ HostOf'[j] = h /\ \A i \in Job \ {j} : HostOf'[i] = HostOf[i]
      BY <2>2 DEF Granted, HostOf
    <3>2. \A g \in hosts : OccOf'[g] = IF g = h THEN oc[g] + 1 ELSE oc[g]
      BY <1>2, <1>3, <2>2 DEF Granted, OccOf
    <3>3. Balanced(hosts, HostOf, oc, occ, unlockChan')
      BY <1>3
    <3>4. occupied' = occ + 1
      BY <2>2 DEF Granted
    <3>5. Balanced(hosts, HostOf', OccOf', occupied', unlockChan')
      BY <1>2, <2>0, <3>1, <3>2, <3>3, <3>4, TakingKeepsBalance
    <3> QED  BY <1>3, <3>5
  <2> QED  BY <1>3, <2>1, <2>2 DEF Served
<1>4. CASE /\ \A j \in Job : job'[j].host = None
           /\ \A h \in Host : worker'[h].occ = 0
           /\ occupied' = 0 /\ unlockChan' = <<>>
  <2>1. Taking(HostOf') = {} /\ \A h \in Host : Having(HostOf', h) = {} /\ Ones(unlockChan', h) = {}
    BY <1>4, RemoteAssumption DEF Taking, Having, Ones, HostOf
  <2>2. Len(unlockChan') = 0 /\ Cardinality({}) = 0
    BY <1>4, FS_EmptySet
  <2>3. \A h \in hosts' : OccOf'[h] = 0
    BY <1>2, <1>4 DEF OccOf
  <2>4. occupied' = Cardinality(Taking(HostOf')) + Len(unlockChan')
    BY <1>4, <2>1, <2>2
  <2>5. ASSUME NEW h \in hosts'
        PROVE  OccOf'[h] = Cardinality(Having(HostOf', h)) + Cardinality(Ones(unlockChan', h))
    <3>1. Having(HostOf', h) = {} /\ Ones(unlockChan', h) = {}
      BY <1>2, <2>1, <2>5
    <3>2. Cardinality(Having(HostOf', h)) = 0 /\ Cardinality(Ones(unlockChan', h)) = 0
      BY <3>1, <2>2
    <3> QED  BY <2>3, <2>5, <3>2
  <2> QED  BY <2>4, <2>5 DEF Balanced
<1>5. CASE UNCHANGED hosts /\ UNCHANGED unlockChan /\ Served(worker, occupied)
  <2>1. Balanced(hosts, HostOf, OccOf, occupied, unlockChan')
    BY <1>1, <1>5
  <2>2. \A g \in hosts : OccOf[g] = worker[g].occ
    BY <1>2 DEF OccOf
  <2>3. worker \in [Host -> WorkerRec] /\ occupied \in Int /\ Served(worker, occupied)
    BY <1>2, <1>5
  <2> QED  BY <1>3, <1>5, <2>1, <2>2, <2>3
<1>6. CASE UNCHANGED hosts /\ \E j \in Job : GivenBack(j)
  <2> PICK j \in Job : GivenBack(j)
    BY <1>6
  <2>1. /\ HostOf[j] = job[j].host /\ HostOf[j] \in Host
        /\ HostOf'[j] = None /\ \A i \in Job \ {j} : HostOf'[i] = HostOf[i]
    BY DEF GivenBack, HostOf
  <2>2. Balanced(hosts, HostOf', OccOf, occupied, Append(unlockChan, HostOf[j]))
    BY <1>1, <1>2, <2>1, GivingKeepsBalance
  <2>3. \A g \in hosts : OccOf'[g] = OccOf[g]
    BY <1>2 DEF GivenBack, OccOf
  <2>4. Balanced(hosts, HostOf', OccOf', occupied, Append(unlockChan, HostOf[j]))
    BY <2>2, <2>3, BalanceIsOfThese
  <2> QED  BY <1>6, <2>1, <2>4 DEF GivenBack
<1>7. CASE /\ UNCHANGED hosts
           /\ unlockChan # <<>> /\ unlockChan' = Tail(unlockChan)
           /\ Served(Freed(worker, Head(unlockChan)), occupied - 1)
  <2> DEFINE w == Freed(worker, Head(unlockChan))
             oc == [h \in Host |-> w[h].occ]
  <2>1. Head(unlockChan) \in Host
    BY <1>2, <1>7, HeadTailProperties
  <2>2. /\ w \in [Host -> WorkerRec]
        /\ \A g \in hosts : w[g].occ = IF g = Head(unlockChan) THEN worker[g].occ - 1 ELSE worker[g].occ
    BY <1>2, <2>1, FreedEffect
  <2>3. \A g \in hosts : oc[g] = IF g = Head(unlockChan) THEN OccOf[g] - 1 ELSE OccOf[g]
    BY <1>2, <2>2 DEF OccOf
  <2>4. Served(w, occupied - 1) /\ occupied - 1 \in Int
    BY <1>2, <1>7
  <2> HIDE DEF w
  <2>5. Balanced(hosts, HostOf, oc, occupied - 1, unlockChan')
    <3> HIDE DEF oc
    <3> QED  BY <1>1, <1>2, <1>7, <2>3, FreeingKeepsBalance
  <2>6. \A g \in hosts : oc[g] = w[g].occ
    BY <1>2
  <2> HIDE DEF oc
  <2> QED  BY <1>3, <1>7, <2>2, <2>4, <2>5, <2>6
<1> QED  BY <1>4, <1>5, <1>6, <1>7 DEF Effect

LEMMA WithinOneStep ==
    ASSUME TypeInv, WithinOne, Effect
    PROVE  WithinOne'
<1> SUFFICES ASSUME NEW h \in Host
             PROVE  worker'[h].occ <= Jobs[h] + 1
  BY DEF WithinOne
<1>1. Jobs[h] \in Nat /\ worker[h].occ \in Int /\ worker[h].occ <= Jobs[h] + 1
  BY RemoteAssumption DEF TypeInv, WorkerRec, WithinOne
<1>2. \A g \in Host : Freed(worker, g)[h].occ \in {worker[h].occ, worker[h].occ - 1}
  BY FreedEffect DEF TypeInv
<1>3. unlockChan # <<>> => Head(unlockChan) \in Host
  BY HeadTailProperties DEF TypeInv
<1>4. ASSUME NEW w, NEW occ, Served(w, occ),
             w[h].occ \in Int, w[h].occ <= worker[h].occ
      PROVE  worker'[h].occ <= Jobs[h] + 1
  BY <1>1, <1>4 DEF Served, NotGranted, Granted
<1>5. CASE worker'[h].occ = 0 \/ worker'[h].occ = worker[h].occ
  BY <1>1, <1>5
<1>6. CASE Served(worker, occupied)
  BY <1>1, <1>4, <1>6
<1>7. CASE unlockChan # <<>> /\ Served(Freed(worker, Head(unlockChan)), occupied - 1)
  <2> DEFINE w == Freed(worker, Head(unlockChan))
  <2>1. w[h].occ \in Int /\ w[h].occ <= worker[h].occ
    BY <1>1, <1>2, <1>3, <1>7
  <2> HIDE DEF w
  <2> QED  BY <1>4, <1>7, <2>1 DEF w
<1> QED  BY <1>5, <1>6, <1>7 DEF Effect, NotGranted, GivenBack

-----------------------------------------------------------------------------
(* What the operators of RemoteSlots do to jobs and workers.               *)

KeepsCounts ==
    /\ worker' \in [Host -> WorkerRec]
    /\ \A g \in Host : worker'[g].occ = worker[g].occ

LEMMA WorkerIsSet ==
    ASSUME TypeInv, NEW h \in Host, NEW w \in WorkerRec, SetWorker(h, w), w.occ = worker[h].occ
    PROVE  KeepsCounts
BY DEF TypeInv, SetWorker, KeepsCounts

LEMMA ChangesKeepCounts ==
    ASSUME TypeInv, NEW h \in Host,
           \/ DisableWorker(h) \/ EnableWorker(h) \/ WorkerDead(h) \/ RecoverDeadWorker(h)
           \/ UNCHANGED worker
    PROVE  KeepsCounts
<1>1. worker[h] \in WorkerRec
  BY DEF TypeInv
<1>2. /\ \A b \in BOOLEAN : /\ [worker[h] EXCEPT !.disabled = b] \in WorkerRec
                            /\ [worker[h] EXCEPT !.disabled = b].occ = worker[h].occ
                            /\ [worker[h] EXCEPT !.dead = b] \in WorkerRec
                            /\ [worker[h] EXCEPT !.dead = b].occ = worker[h].occ
      /\ [worker[h] EXCEPT !.dead = FALSE, !.errors = 0] \in WorkerRec
      /\ [worker[h] EXCEPT !.dead = FALSE, !.errors = 0].occ = worker[h].occ
      /\ worker[h].disabled \in BOOLEAN /\ worker[h].dead \in BOOLEAN
  BY <1>1 DEF WorkerRec
<1>3. CASE DisableWorker(h)
  BY <1>2, <1>3, WorkerIsSet DEF DisableWorker
<1>4. CASE EnableWorker(h)
  BY <1>2, <1>4, WorkerIsSet DEF EnableWorker
<1>5. CASE UNCHANGED worker
  BY <1>5 DEF TypeInv, KeepsCounts
<1>6. CASE WorkerDead(h)
  BY <1>2, <1>5, <1>6, WorkerIsSet DEF WorkerDead
<1>7. CASE RecoverDeadWorker(h)
  BY <1>2, <1>5, <1>7, WorkerIsSet DEF RecoverDeadWorker
<1> QED  BY <1>3, <1>4, <1>5, <1>6, <1>7

\* Only the job j changes, and becomes r.
JobIs(j, r) == job' \in [Job -> JobRec] /\ job'[j] = r /\ \A i \in Job \ {j} : job'[i] = job[i]

LEMMA JobIsSet ==
    ASSUME TypeInv, NEW j \in Job, NEW r \in JobRec, Set(j, r)
    PROVE  JobIs(j, r)
BY DEF TypeInv, Set, JobIs

LEMMA AfterEffect ==
    ASSUME NEW j \in Job, NEW r \in JobRec, NEW timeout \in BOOLEAN
    PROVE  /\ After(j, r, timeout) \in JobRec
           /\ After(j, r, timeout).host = None
           /\ After(j, r, timeout).pc \in {"try", "local"}
<1>1. /\ r = [pc |-> r.pc, host |-> r.host, ban |-> r.ban, tries |-> r.tries]
      /\ r.ban \in SUBSET Host /\ r.tries + 1 \in Nat
  BY DEF JobRec
<1>2. \A pc \in {"try", "local"} :
        LET a == [r EXCEPT !.tries = @ + 1, !.host = None, !.pc = pc]
        IN  a \in JobRec /\ a.host = None /\ a.pc = pc
  BY <1>1 DEF JobRec
<1> QED  BY <1>2 DEF After

LEMMA AnswerEffect ==
    ASSUME TypeInv, NEW j \in Job, NEW h \in Host \cup {None}, job' = Answer({j}, h)
    PROVE  \E r \in JobRec : /\ JobIs(j, r) /\ r.host = h
                             /\ r.pc = IF h = None THEN "refused" ELSE "got"
<1> DEFINE r == [job[j] EXCEPT !.host = h, !.pc = IF h = None THEN "refused" ELSE "got"]
<1>1. r \in JobRec /\ r.host = h /\ r.pc = IF h = None THEN "refused" ELSE "got"
  BY DEF TypeInv, JobRec, Holding
<1>2. job' = [i \in Job |-> IF i = j THEN r ELSE job[i]]
  BY DEF Answer
<1> HIDE DEF r
<1>3. JobIs(j, r)
  BY <1>1, <1>2 DEF JobIs, TypeInv
<1> QED  BY <1>1, <1>3

LEMMA OccupyEffect ==
    ASSUME NEW w \in [Host -> WorkerRec], NEW j \in Job, NEW h \in Host
    PROVE  /\ Occupy(w, j, h) \in [Host -> WorkerRec]
           /\ \A g \in Host : Occupy(w, j, h)[g].occ = IF g = h THEN w[g].occ + 1 ELSE w[g].occ
<1> DEFINE rec == [w[h] EXCEPT !.occ = @ + 1, !.large = @ \/ j \in LargeJob]
<1>1. w[h] \in WorkerRec
  OBVIOUS
<1>2. (w[h].large \/ j \in LargeJob) \in BOOLEAN /\ w[h].occ + 1 \in Int
  BY <1>1 DEF WorkerRec
<1>3. rec \in WorkerRec /\ rec.occ = w[h].occ + 1
  BY <1>1, <1>2 DEF WorkerRec
<1>4. Occupy(w, j, h) = [w EXCEPT ![h] = rec]
  BY DEF Occupy
<1> HIDE DEF rec
<1> QED  BY <1>3, <1>4

\* A worker that is picked has no more than its slots taken.
LEMMA PickedHasRoom ==
    ASSUME NEW w \in [Host -> WorkerRec], NEW j \in Job, NEW h \in Pick(w, j)
    PROVE  h \in Host /\ w[h].occ <= Jobs[h]
<1>1. h \in Host /\ Free(w, h) >= 0
  BY DEF Pick, MostFree, Offered
<1> QED  BY <1>1, RemoteAssumption DEF Free, WorkerRec

\* What every step but that of handleLock comes to.
Result == TypeInv' /\ HolderInv' /\ Effect

-----------------------------------------------------------------------------
(* The steps of a job.                                                     *)

LEMMA HostsAsSequence ==
    ASSUME NEW S \in SUBSET Host
    PROVE  SetToSeq(S) \in Seq(Host)
<1>1. IsFiniteSet(S)
  BY RemoteAssumption, FS_Subset
<1>2. Cardinality(S) \in Nat /\ ExistsBijection(1..Cardinality(S), S)
  BY <1>1, FS_CardinalityType
<1>3. PICK f \in Bijection(1..Cardinality(S), S) : TRUE
  BY <1>2 DEF ExistsBijection
<1>4. f \in [1..Cardinality(S) -> S] /\ IsInjective(f)
  BY <1>3 DEF Bijection, Injection, IsInjective
<1>5. SetToSeq(S) \in [1..Cardinality(S) -> S]
  BY <1>4 DEF SetToSeq
<1> QED  BY <1>2, <1>5

\* Its worker and whether it holds a slot stay, and the slots with them.
LEMMA JobAlone ==
    ASSUME TypeInv, HolderInv, NEW j \in Job, NEW r \in JobRec, JobIs(j, r),
           r.host = job[j].host, r.pc \in Holding <=> job[j].pc \in Holding,
           KeepsCounts, lockChan' \in Seq(Job), waiting' \in Seq(Job),
           UNCHANGED <<working, displaced, hosts, failed, occupied, unlockChan>>
    PROVE  Result
<1>1. \A i \in Job : job'[i].host = job[i].host /\ (job'[i].pc \in Holding <=> job[i].pc \in Holding)
  BY DEF JobIs
<1>2. HolderInv'
  BY <1>1 DEF HolderInv
<1>3. TypeInv'
  BY DEF TypeInv, JobIs, KeepsCounts
<1>4. Effect
  BY <1>1 DEF Effect, Served, NotGranted, KeepsCounts
<1> QED  BY <1>2, <1>3, <1>4 DEF Result

\* It gives its slot back.
LEMMA JobGives ==
    ASSUME TypeInv, HolderInv, NEW j \in Job, NEW r \in JobRec, JobIs(j, r), Give(j),
           job[j].pc \in Holding, r.host = None, r.pc \notin Holding,
           KeepsCounts, failed' \in SUBSET Host,
           UNCHANGED <<working, displaced, hosts, occupied, lockChan, waiting>>
    PROVE  Result
<1>1. job[j].host \in Host
  BY DEF TypeInv, JobRec, HolderInv
<1>2. HolderInv'
  BY DEF HolderInv, JobIs
<1>3. unlockChan' \in Seq(Host)
  BY <1>1, AppendProperties DEF TypeInv, Give
<1>4. TypeInv'
  BY <1>3 DEF TypeInv, JobIs, KeepsCounts
<1>5. GivenBack(j)
  BY <1>1 DEF GivenBack, JobIs, KeepsCounts, Give
<1>6. Effect
  BY <1>5 DEF Effect
<1> QED  BY <1>2, <1>4, <1>6 DEF Result

LEMMA JobLeaves ==
    ASSUME TypeInv, HolderInv, NEW j \in Job, NEW ban \in SUBSET Host, NEW timeout \in BOOLEAN,
           Leave(j, ban, timeout), job[j].pc \in Holding,
           KeepsCounts, failed' \in SUBSET Host,
           UNCHANGED <<working, displaced, hosts, occupied, lockChan, waiting>>
    PROVE  Result
<1> DEFINE b == [job[j] EXCEPT !.ban = @ \cup ban]
           r == After(j, b, timeout)
<1>1. b \in JobRec
  BY DEF TypeInv, JobRec
<1> HIDE DEF b
<1>2. r \in JobRec /\ r.host = None /\ r.pc \notin Holding
  BY <1>1, AfterEffect DEF Holding
<1>3. Set(j, r) /\ Give(j)
  BY DEF Leave, b
<1> HIDE DEF r
<1> QED  BY <1>2, <1>3, JobIsSet, JobGives

LEMMA JobStep ==
    ASSUME TypeInv, HolderInv, NEW j \in Job, JobNext(j)
    PROVE  Result
<1>0. /\ job[j] \in JobRec /\ job[j].host \in Host \cup {None} /\ job[j].ban \in SUBSET Host
      /\ hosts \in SUBSET Host /\ failed \in SUBSET Host
      /\ worker \in [Host -> WorkerRec]
      /\ lockChan \in Seq(Job) /\ waiting \in Seq(Job) /\ unlockChan \in Seq(Host)
      /\ job[j].host # None <=> job[j].pc \in Holding
  BY DEF TypeInv, HolderInv, JobRec
<1>1. UNCHANGED worker => KeepsCounts
  BY DEF TypeInv, KeepsCounts
<1>2. CASE ExecuteTask(j)
  <2> DEFINE ban == job[j].ban \cup (failed \cap hosts)
             r == [job[j] EXCEPT !.ban = ban]
             a == [r EXCEPT !.pc = "asking"]
  <2>1. r \in JobRec /\ a \in JobRec /\ a.host = job[j].host /\ a.pc = "asking"
    BY <1>0 DEF JobRec
  <2>2. job[j].host = None /\ job[j].pc \notin Holding
    BY <1>0, <1>2 DEF ExecuteTask, Holding
  <2>3. /\ UNCHANGED <<working, displaced, hosts, failed, worker, occupied, waiting, unlockChan>>
        /\ \/ Set(j, After(j, r, FALSE)) /\ UNCHANGED lockChan
           \/ Set(j, a) /\ lockChan' = Append(lockChan, j)
    BY <1>2 DEF ExecuteTask, table, aside, hist
  <2>4. lockChan' \in Seq(Job)
    <3>1. Append(lockChan, j) \in Seq(Job)
      BY <1>0, AppendProperties
    <3> HIDE DEF a, r
    <3> QED  BY <1>0, <2>3, <3>1
  <2> HIDE DEF a, r
  <2>5. CASE Set(j, a)
    BY <1>0, <1>1, <2>1, <2>2, <2>3, <2>4, <2>5, JobIsSet, JobAlone DEF Holding
  <2>6. CASE Set(j, After(j, r, FALSE))
    <3>1. /\ After(j, r, FALSE) \in JobRec /\ After(j, r, FALSE).host = None
          /\ After(j, r, FALSE).pc \notin Holding
      BY <2>1, AfterEffect DEF Holding
    <3> QED  BY <1>0, <1>1, <2>2, <2>3, <2>4, <2>6, <3>1, JobIsSet, JobAlone
  <2> QED  BY <2>3, <2>5, <2>6
<1>3. CASE Refused(j)
  <2>1. job[j].host = None /\ job[j].pc \notin Holding
    BY <1>0, <1>3 DEF Refused, Holding
  <2>2. /\ After(j, job[j], FALSE) \in JobRec /\ After(j, job[j], FALSE).host = None
        /\ After(j, job[j], FALSE).pc \notin Holding
    BY <1>0, AfterEffect DEF Holding
  <2>3. /\ Set(j, After(j, job[j], FALSE))
        /\ UNCHANGED <<working, displaced, hosts, failed, worker, occupied, waiting, unlockChan,
                       lockChan>>
    BY <1>3 DEF Refused, table, chans, aside, hist
  <2> QED  BY <1>0, <1>1, <2>1, <2>2, <2>3, JobIsSet, JobAlone
<1>4. CASE Succeed(j)
  <2> DEFINE r == [job[j] EXCEPT !.pc = "remote", !.host = None]
  <2>1. r \in JobRec /\ r.host = None /\ r.pc \notin Holding /\ job[j].pc \in Holding
    BY <1>0, <1>4 DEF JobRec, Holding, Succeed
  <2>2. /\ Set(j, r) /\ Give(j)
        /\ UNCHANGED <<working, displaced, hosts, failed, worker, occupied, waiting, lockChan>>
    BY <1>4 DEF Succeed, table, aside, hist
  <2> HIDE DEF r
  <2> QED  BY <1>0, <1>1, <2>1, <2>2, JobIsSet, JobGives
<1>5. CASE SendToolchainFails(j)
  <2>1. /\ job[j].pc \in Holding /\ DisableWorker(job[j].host) /\ Leave(j, {}, FALSE)
        /\ UNCHANGED <<working, displaced, hosts, failed, occupied, waiting, lockChan>>
    BY <1>5 DEF SendToolchainFails, Failing, Holding
  <2>2. KeepsCounts
    BY <1>0, <2>1, ChangesKeepCounts
  <2> QED  BY <1>0, <2>1, <2>2, JobLeaves
<1>6. CASE EnsureFilesFails(j)
  <2>1. /\ job[j].pc \in Holding /\ Leave(j, {job[j].host}, FALSE)
        /\ failed' = failed \cup {job[j].host}
        /\ UNCHANGED <<working, displaced, hosts, worker, occupied, waiting, lockChan>>
    BY <1>6 DEF EnsureFilesFails, Failing, Holding, table, hist
  <2>2. {job[j].host} \in SUBSET Host /\ failed' \in SUBSET Host
    BY <1>0, <2>1
  <2> QED  BY <1>1, <2>1, <2>2, JobLeaves
<1>7. CASE NetError(j)
  <2> DEFINE h == job[j].host
             w == [worker[h] EXCEPT !.errors = worker[h].errors + 1]
             r == [job[j] EXCEPT !.pc = "counted"]
  <2>1. h \in Host /\ job[j].pc \in Holding
    BY <1>0, <1>7 DEF NetError, Failing, Holding
  <2>2. w \in WorkerRec /\ w.occ = worker[h].occ
    <3>1. worker[h] \in WorkerRec
      BY <1>0, <2>1
    <3> HIDE DEF h
    <3>2. worker[h].errors + 1 \in Nat
      BY <3>1 DEF WorkerRec
    <3> QED  BY <3>1, <3>2 DEF WorkerRec
  <2>3. SetWorker(h, w) \/ UNCHANGED worker
    BY <1>7 DEF NetError, SetWorker
  <2>4. KeepsCounts
    <3> HIDE DEF w, h
    <3> QED  BY <1>1, <2>1, <2>2, <2>3, WorkerIsSet
  <2>5. r \in JobRec /\ r.host = h /\ r.pc \in Holding
    BY <1>0 DEF JobRec, Holding
  <2>6. /\ UNCHANGED <<working, displaced, hosts, failed, occupied, waiting, lockChan, unlockChan>>
        /\ Set(j, r)
    BY <1>7 DEF NetError, chans, aside, hist
  <2> HIDE DEF w, r
  <2> QED  BY <1>0, <2>1, <2>4, <2>5, <2>6, JobIsSet, JobAlone
<1>10. CASE IsWorkerDead(j)
  <2> DEFINE h == job[j].host
             r == [job[j] EXCEPT !.pc = "dying"]
  <2>1. h \in Host /\ job[j].pc \in Holding
    BY <1>0, <1>10 DEF IsWorkerDead, Holding
  <2>2. r \in JobRec /\ r.host = h /\ r.pc \in Holding
    BY <1>0 DEF JobRec, Holding
  <2>3. /\ UNCHANGED <<working, displaced, hosts, failed, worker, occupied, waiting, lockChan>>
        /\ \/ Set(j, r) /\ UNCHANGED unlockChan
           \/ \E timeout \in BOOLEAN : Leave(j, {h}, timeout)
    BY <1>10 DEF IsWorkerDead, table, aside, hist
  <2> HIDE DEF r
  <2>4. CASE Set(j, r) /\ UNCHANGED unlockChan
    BY <1>0, <1>1, <2>1, <2>2, <2>3, <2>4, JobIsSet, JobAlone
  <2>5. CASE \E timeout \in BOOLEAN : Leave(j, {h}, timeout)
    BY <1>0, <1>1, <2>1, <2>3, <2>5, JobLeaves
  <2> QED  BY <2>3, <2>4, <2>5
<1>11. CASE AttemptFails(j)
  <2>1. /\ job[j].pc \in Holding /\ Leave(j, {}, FALSE)
        /\ UNCHANGED <<working, displaced, hosts, failed, worker, occupied, waiting, lockChan>>
    BY <1>11 DEF AttemptFails, Failing, Holding, table, aside, hist
  <2> QED  BY <1>0, <1>1, <2>1, JobLeaves
<1>12. CASE ExecutionFails(j)
  <2>1. /\ job[j].pc \in Holding
        /\ \E timeout \in BOOLEAN : Leave(j, {job[j].host}, timeout)
        /\ UNCHANGED <<working, displaced, hosts, failed, worker, occupied, waiting, lockChan>>
    BY <1>12 DEF ExecutionFails, Failing, Holding, table, aside, hist
  <2>2. {job[j].host} \in SUBSET Host
    BY <1>0, <2>1
  <2> QED  BY <1>0, <1>1, <2>1, <2>2, JobLeaves
<1>8. CASE MakeDead(j)
  <2>1. /\ job[j].pc \in Holding /\ WorkerDead(job[j].host)
        /\ \E timeout \in BOOLEAN : Leave(j, {job[j].host}, timeout)
        /\ UNCHANGED <<working, displaced, hosts, failed, occupied, waiting, lockChan>>
    BY <1>8 DEF MakeDead, Holding, aside
  <2>2. KeepsCounts
    BY <1>0, <2>1, ChangesKeepCounts
  <2> QED  BY <1>0, <2>1, <2>2, JobLeaves
<1>9. CASE EveryWorkerOnce(j)
  <2> DEFINE S == hosts \ (job[j].ban \cup failed)
             r == [job[j] EXCEPT !.pc = "remote"]
  <2>1. r \in JobRec /\ r.host = job[j].host /\ r.pc \notin Holding /\ job[j].pc \notin Holding
    BY <1>0, <1>9 DEF JobRec, Holding, EveryWorkerOnce
  <2>2. /\ Set(j, r) /\ unlockChan' = unlockChan \o SetToSeq(S) /\ displaced' = TRUE
        /\ UNCHANGED <<working, hosts, failed, worker, occupied, waiting, lockChan>>
    BY <1>9 DEF EveryWorkerOnce, table, aside
  <2> HIDE DEF r
  <2>3. JobIs(j, r)
    BY <2>1, <2>2, JobIsSet
  <2>4. unlockChan' \in Seq(Host)
    BY <1>0, <2>2, HostsAsSequence, ConcatProperties
  <2>5. TypeInv'
    BY <2>2, <2>3, <2>4 DEF TypeInv, JobIs
  <2>6. \A i \in Job : job'[i].host = job[i].host /\ (job'[i].pc \in Holding <=> job[i].pc \in Holding)
    BY <2>1, <2>3 DEF JobIs
  <2>7. HolderInv'
    BY <2>6 DEF HolderInv
  <2>8. Effect
    BY <2>2, <2>6 DEF Effect, NotGranted
  <2> QED  BY <2>5, <2>7, <2>8 DEF Result
<1> QED  BY <1>2, <1>3, <1>4, <1>5, <1>6, <1>7, <1>8, <1>9, <1>10, <1>11, <1>12 DEF JobNext

-----------------------------------------------------------------------------
(* The steps beside the jobs: workers, files, tool chains, the work.       *)

LEMMA QuietStep ==
    ASSUME TypeInv, HolderInv, KeepsCounts,
           lockChan' \in Seq(Job), waiting' \in Seq(Job), failed' \in SUBSET Host,
           working' \in BOOLEAN, UNCHANGED <<displaced, hosts, occupied, unlockChan, job>>
    PROVE  Result
<1>1. TypeInv' /\ HolderInv'
  BY DEF TypeInv, HolderInv, KeepsCounts
<1>2. Effect
  BY DEF Effect, Served, NotGranted, KeepsCounts
<1> QED  BY <1>1, <1>2 DEF Result

LEMMA UpkeepStep ==
    ASSUME TypeInv, HolderInv, NEW h \in Host, Upkeep(h) \/ ConfirmWorker(h)
    PROVE  Result
<1>1. /\ \/ DisableWorker(h) \/ EnableWorker(h) \/ RecoverDeadWorker(h)
         \/ UNCHANGED worker
      /\ failed' \in {failed, failed \ {h}}
      /\ UNCHANGED <<working, displaced, hosts, occupied, lockChan, waiting, unlockChan, job>>
  BY DEF Upkeep, RetryFiles, RetryToolChain, Resent, CheckDead, Checked, ConfirmWorker,
         table, chans, hist, aside
<1>2. KeepsCounts
  BY <1>1, ChangesKeepCounts
<1>3. /\ lockChan' \in Seq(Job) /\ waiting' \in Seq(Job) /\ failed' \in SUBSET Host
      /\ working' \in BOOLEAN
  BY <1>1 DEF TypeInv
<1> QED  BY <1>1, <1>2, <1>3, QuietStep

LEMMA WorkStep ==
    ASSUME TypeInv, HolderInv, ResourceCheck \/ DisableAllWorker \/ Reset \/ Done
    PROVE  Result
<1>0. /\ working \in BOOLEAN /\ failed \in SUBSET Host
      /\ lockChan \in Seq(Job) /\ waiting \in Seq(Job) /\ unlockChan \in Seq(Host)
      /\ worker \in [Host -> WorkerRec] /\ hosts \in SUBSET Host
  BY DEF TypeInv
<1>1. UNCHANGED worker => KeepsCounts
  BY <1>0 DEF KeepsCounts
<1>2. CASE ResourceCheck
  BY <1>0, <1>1, <1>2, QuietStep DEF ResourceCheck, table, chans, hist
<1>3. CASE Done
  BY <1>0, <1>1, <1>3, QuietStep DEF Done, table, chans, aside, hist
<1>4. CASE DisableAllWorker
  <2>1. /\ worker' = [h \in Host |-> [worker[h] EXCEPT !.disabled = @ \/ h \in hosts]]
        /\ failed' = {}
        /\ UNCHANGED <<working, displaced, hosts, occupied, lockChan, waiting, unlockChan, job>>
    BY <1>4 DEF DisableAllWorker
  <2>2. ASSUME NEW h \in Host
        PROVE  worker'[h] \in WorkerRec /\ worker'[h].occ = worker[h].occ
    <3>1. worker[h] \in WorkerRec
      BY <1>0
    <3>2. (worker[h].disabled \/ h \in hosts) \in BOOLEAN
      BY <3>1 DEF WorkerRec
    <3>3. \A b \in BOOLEAN : /\ [worker[h] EXCEPT !.disabled = b] \in WorkerRec
                             /\ [worker[h] EXCEPT !.disabled = b].occ = worker[h].occ
      BY <3>1 DEF WorkerRec
    <3> QED  BY <2>1, <3>2, <3>3
  <2>3. KeepsCounts
    BY <2>1, <2>2 DEF KeepsCounts
  <2> QED  BY <1>0, <2>1, <2>3, QuietStep
<1>5. CASE Reset
  <2>1. /\ hosts' \in {{}, Host} /\ failed' \in {{}, failed}
        /\ worker' = Fresh /\ occupied' = 0
        /\ displaced' = (displaced \/ Holders # {} \/ unlockChan # <<>>)
        /\ UNCHANGED <<working, lockChan, waiting, unlockChan, job>>
    BY <1>5 DEF Reset, chans
  <2>2. Fresh \in [Host -> WorkerRec] /\ \A h \in Host : Fresh[h].occ = 0
    BY DEF Fresh, WorkerRec
  <2>3. (Holders # {} \/ unlockChan # <<>>) \in BOOLEAN
    OBVIOUS
  <2>4. displaced' \in BOOLEAN
    BY <2>1
  <2>5. TypeInv' /\ HolderInv'
    BY <1>0, <2>1, <2>2, <2>4 DEF TypeInv, HolderInv
  <2> DEFINE none == \A h \in Host : worker'[h].occ = 0
  <2>6. none
    BY <2>1, <2>2
  <2> HIDE DEF none
  <2>7. ASSUME displaced' PROVE Effect
    BY <2>6, <2>7 DEF Effect, none
  <2>8. ASSUME ~displaced' PROVE Effect
    <3>1. Holders = {} /\ unlockChan = <<>> /\ ~displaced
      BY <2>1, <2>8
    <3>2. \A j \in Job : job'[j].host = None
      BY <2>1, <3>1 DEF Holders
    <3>3. occupied' = 0 /\ unlockChan' = <<>>
      BY <2>1, <3>1
    <3> QED  BY <2>6, <3>1, <3>2, <3>3 DEF Effect, none
  <2> QED  BY <2>5, <2>7, <2>8 DEF Result
<1> QED  BY <1>2, <1>3, <1>4, <1>5

-----------------------------------------------------------------------------
(* The steps of handleLock.                                                *)

LEMMA RemoveAtEffect ==
    ASSUME NEW S, NEW s \in Seq(S), NEW k \in 1..Len(s)
    PROVE  /\ RemoveAt(s, k) \in Seq(S)
           /\ Len(RemoveAt(s, k)) = Len(s) - 1
           /\ \A i \in 1..(Len(s) - 1) : RemoveAt(s, k)[i] = IF i < k THEN s[i] ELSE s[i + 1]
<1> DEFINE a == SubSeq(s, 1, k - 1)
           b == SubSeq(s, k + 1, Len(s))
<1>1. Len(s) \in Nat /\ \A i \in 1..Len(s) : s[i] \in S
  BY LenProperties, ElementOfSeq
<1>2. a \in Seq(S) /\ Len(a) = k - 1 /\ \A i \in 1..(k - 1) : a[i] = s[i]
  BY <1>1, SubSeqProperties
<1>3. b \in Seq(S) /\ Len(b) = Len(s) - k /\ \A i \in 1..(Len(s) - k) : b[i] = s[k + i]
  BY <1>1, SubSeqProperties
<1> HIDE DEF a, b
<1>4. /\ a \o b \in Seq(S) /\ Len(a \o b) = Len(a) + Len(b)
      /\ \A i \in 1..(Len(a) + Len(b)) : (a \o b)[i] = IF i <= Len(a) THEN a[i] ELSE b[i - Len(a)]
  BY <1>2, <1>3, ConcatProperties
<1>5. ASSUME NEW i \in 1..(Len(s) - 1)
      PROVE  (a \o b)[i] = IF i < k THEN s[i] ELSE s[i + 1]
  <2>0. (a \o b)[i] = IF i <= k - 1 THEN a[i] ELSE b[i - (k - 1)]
    BY <1>1, <1>2, <1>3, <1>4
  <2>1. CASE i < k
    BY <1>1, <1>2, <2>0, <2>1
  <2>2. CASE ~(i < k)
    <3> DEFINE d == i - (k - 1)
    <3>1. d \in 1..(Len(s) - k) /\ k + d = i + 1
      BY <1>1, <2>2
    <3>2. (a \o b)[i] = b[d]
      BY <1>1, <2>0, <2>2
    <3> HIDE DEF d
    <3>3. b[d] = s[k + d]
      BY <1>3, <3>1
    <3> QED  BY <2>2, <3>1, <3>2, <3>3
  <2> QED  BY <2>1, <2>2
<1>6. Len(a \o b) = Len(s) - 1
  BY <1>1, <1>2, <1>3, <1>4
<1> QED  BY <1>4, <1>5, <1>6 DEF RemoveAt, a, b

\* A request of j, which asks, is granted a slot of h.
LEMMA RequestIsGranted ==
    ASSUME TypeInv, HolderInv, NEW w \in [Host -> WorkerRec], NEW occ \in Int,
           NEW j \in Job, job[j].pc = "asking", NEW h \in Pick(w, j),
           job' = Answer({j}, h), worker' = Occupy(w, j, h), occupied' = occ + 1
    PROVE  /\ Granted(w, occ, j, h) /\ h \in Host
           /\ job' \in [Job -> JobRec] /\ HolderInv'
           /\ worker' \in [Host -> WorkerRec] /\ occupied' \in Int
           /\ \A i \in Job \ {j} : job'[i] = job[i]
<1>1. h \in Host /\ w[h].occ <= Jobs[h] /\ h # None
  BY PickedHasRoom, RemoteAssumption
<1>2. PICK r \in JobRec : JobIs(j, r) /\ r.host = h /\ r.pc = "got"
  BY <1>1, AnswerEffect
<1>3. job[j].host = None
  BY DEF HolderInv, Holding
<1>4. HolderInv'
  BY <1>1, <1>2 DEF HolderInv, JobIs, Holding
<1>5. /\ worker' \in [Host -> WorkerRec]
      /\ \A g \in Host : worker'[g].occ = IF g = h THEN w[g].occ + 1 ELSE w[g].occ
  BY <1>1, OccupyEffect
<1>6. Granted(w, occ, j, h)
  BY <1>1, <1>2, <1>3, <1>5 DEF Granted, JobIs
<1>7. job' \in [Job -> JobRec] /\ \A i \in Job \ {j} : job'[i] = job[i]
  BY <1>2 DEF JobIs
<1>8. occupied' \in Int
  OBVIOUS
<1> QED  BY <1>1, <1>4, <1>5, <1>6, <1>7, <1>8

\* One is refused.
LEMMA RequestIsRefused ==
    ASSUME TypeInv, HolderInv, NEW j \in Job, job[j].pc = "asking", job' = Answer({j}, None)
    PROVE  /\ job' \in [Job -> JobRec] /\ HolderInv'
           /\ \A i \in Job : job'[i].host = job[i].host
           /\ \A i \in Job \ {j} : job'[i] = job[i]
<1>1. PICK r \in JobRec : JobIs(j, r) /\ r.host = None /\ r.pc = "refused"
  BY AnswerEffect
<1>2. job[j].host = None
  BY DEF HolderInv, Holding
<1>3. job' \in [Job -> JobRec] /\ job'[j] = r /\ \A i \in Job \ {j} : job'[i] = job[i]
  BY <1>1 DEF JobIs
<1>4. \A i \in Job : job'[i].host = job[i].host
  BY <1>1, <1>2, <1>3
<1>5. HolderInv'
  BY <1>1, <1>3 DEF HolderInv, Holding
<1> QED  BY <1>3, <1>4, <1>5

\* The request at the head of the queue.
LEMMA HeadAsks ==
    ASSUME TypeInv, RequestInv, working, lockChan # <<>>
    PROVE  /\ Head(lockChan) \in Job /\ job[Head(lockChan)].pc = "asking"
           /\ Tail(lockChan) \in Seq(Job) /\ Len(lockChan) \in Nat \ {0}
           /\ Head(lockChan) = lockChan[1]
           /\ Len(Tail(lockChan)) = Len(lockChan) - 1
           /\ \A i \in 1..(Len(lockChan) - 1) : Tail(lockChan)[i] = lockChan[i + 1]
<1>1. lockChan \in Seq(Job)
  BY DEF TypeInv
<1>2. /\ Head(lockChan) \in Job /\ Tail(lockChan) \in Seq(Job)
      /\ Len(Tail(lockChan)) = Len(lockChan) - 1
      /\ \A i \in 1..Len(Tail(lockChan)) : Tail(lockChan)[i] = lockChan[i + 1]
  BY <1>1, HeadTailProperties
<1>3. Len(lockChan) \in Nat \ {0} /\ Head(lockChan) = lockChan[1]
  BY <1>1, EmptySeq
<1> QED  BY <1>2, <1>3 DEF RequestInv

LEMMA GetSlotStep ==
    ASSUME TypeInv, HolderInv, RequestInv, GetSlot
    PROVE  Result
<1> DEFINE j == Head(lockChan)
<1>1. working /\ lockChan # <<>> /\ lockChan' = Tail(lockChan)
      /\ UNCHANGED <<working, displaced, hosts, failed, unlockChan>>
  BY DEF GetSlot, aside, hist
<1>2. j \in Job /\ job[j].pc = "asking" /\ lockChan' \in Seq(Job)
  BY <1>1, HeadAsks
<1>3. /\ waiting \in Seq(Job) /\ worker \in [Host -> WorkerRec] /\ occupied \in Int
      /\ Append(waiting, j) \in Seq(Job)
      /\ UNCHANGED worker => KeepsCounts
  BY <1>2, AppendProperties DEF TypeInv, KeepsCounts
<1>4. \/ \E h \in Pick(worker, j) : /\ worker' = Occupy(worker, j, h)
                                    /\ occupied' = occupied + 1 /\ job' = Answer({j}, h)
                                    /\ UNCHANGED waiting
      \/ job' = Answer({j}, None) /\ UNCHANGED <<worker, occupied, waiting>>
      \/ waiting' = Append(waiting, j) /\ UNCHANGED <<worker, occupied, job>>
  BY DEF GetSlot
<1> HIDE DEF j
<1>5. ASSUME NEW h \in Pick(worker, j), worker' = Occupy(worker, j, h),
             occupied' = occupied + 1, job' = Answer({j}, h), UNCHANGED waiting
      PROVE  Result
  <2>1. /\ Granted(worker, occupied, j, h) /\ h \in Host
        /\ job' \in [Job -> JobRec] /\ HolderInv'
        /\ worker' \in [Host -> WorkerRec] /\ occupied' \in Int
    BY <1>2, <1>3, <1>5, RequestIsGranted
  <2>2. TypeInv'
    BY <1>1, <1>2, <1>3, <1>5, <2>1 DEF TypeInv
  <2>3. Effect
    BY <1>1, <1>2, <2>1 DEF Effect, Served
  <2> QED  BY <2>1, <2>2, <2>3 DEF Result
<1>6. CASE job' = Answer({j}, None) /\ UNCHANGED <<worker, occupied, waiting>>
  <2>1. /\ job' \in [Job -> JobRec] /\ HolderInv'
        /\ \A i \in Job : job'[i].host = job[i].host
    BY <1>2, <1>6, RequestIsRefused
  <2>2. TypeInv'
    BY <1>1, <1>2, <1>6, <2>1 DEF TypeInv
  <2>3. Effect
    BY <1>1, <1>6, <2>1 DEF Effect, Served, NotGranted
  <2> QED  BY <2>1, <2>2, <2>3 DEF Result
<1>7. CASE waiting' = Append(waiting, j) /\ UNCHANGED <<worker, occupied, job>>
  <2>1. failed' \in SUBSET Host /\ working' \in BOOLEAN
    BY <1>1 DEF TypeInv
  <2> QED  BY <1>1, <1>2, <1>3, <1>7, <2>1, QuietStep
<1> QED  BY <1>4, <1>5, <1>6, <1>7

\* Of the requests that wait, one is answered at most.
LEMMA ServeEffect ==
    ASSUME TypeInv, HolderInv, RequestInv, working,
           NEW w \in [Host -> WorkerRec], NEW occ \in Int, Serve(w, occ)
    PROVE  /\ Served(w, occ) /\ HolderInv'
           /\ job' \in [Job -> JobRec] /\ worker' \in [Host -> WorkerRec] /\ occupied' \in Int
           /\ waiting' \in Seq(Job)
           /\ \/ UNCHANGED <<job, waiting>>
              \/ \E k \in 1..Len(waiting) : /\ waiting' = RemoveAt(waiting, k)
                                            /\ \A i \in Job \ {waiting[k]} : job'[i] = job[i]
<1>0. waiting \in Seq(Job) /\ DOMAIN waiting = 1..Len(waiting) /\ job \in [Job -> JobRec]
  BY LenProperties DEF TypeInv
<1>1. CASE worker' = w /\ occupied' = occ /\ UNCHANGED <<job, waiting>>
  BY <1>0, <1>1 DEF Served, NotGranted, HolderInv
<1>2. ASSUME NEW k \in DOMAIN waiting, NEW h \in Reply(w, waiting[k]),
             waiting' = RemoveAt(waiting, k), job' = Answer({waiting[k]}, h),
             worker' = IF h = None THEN w ELSE Occupy(w, waiting[k], h),
             occupied' = IF h = None THEN occ ELSE occ + 1
      PROVE  /\ Served(w, occ) /\ HolderInv'
             /\ job' \in [Job -> JobRec] /\ worker' \in [Host -> WorkerRec] /\ occupied' \in Int
             /\ waiting' \in Seq(Job)
             /\ \A i \in Job \ {waiting[k]} : job'[i] = job[i]
  <2> DEFINE j == waiting[k]
  <2>1. j \in Job /\ job[j].pc = "asking"
    BY <1>0, ElementOfSeq DEF RequestInv
  <2>2. waiting' \in Seq(Job)
    BY <1>0, <1>2, RemoveAtEffect
  <2>3. CASE h = None
    BY <1>2, <2>1, <2>2, <2>3, RequestIsRefused DEF Served, NotGranted
  <2>4. CASE h # None
    <3>1. h \in Pick(w, j)
      BY <2>4 DEF Reply
    <3>2. job' = Answer({j}, h) /\ worker' = Occupy(w, j, h) /\ occupied' = occ + 1
      BY <1>2, <2>4
    <3> HIDE DEF j
    <3>3. /\ Granted(w, occ, j, h) /\ h \in Host
          /\ job' \in [Job -> JobRec] /\ HolderInv'
          /\ worker' \in [Host -> WorkerRec] /\ occupied' \in Int
          /\ \A i \in Job \ {j} : job'[i] = job[i]
      BY <2>1, <3>1, <3>2, RequestIsGranted
    <3> QED  BY <2>1, <2>2, <3>3 DEF Served, j
  <2> QED  BY <2>3, <2>4
<1>3. \/ worker' = w /\ occupied' = occ /\ UNCHANGED <<job, waiting>>
      \/ \E k \in DOMAIN waiting : \E h \in Reply(w, waiting[k]) :
           /\ waiting' = RemoveAt(waiting, k) /\ job' = Answer({waiting[k]}, h)
           /\ worker' = (IF h = None THEN w ELSE Occupy(w, waiting[k], h))
           /\ occupied' = (IF h = None THEN occ ELSE occ + 1)
  BY DEF Serve, Answerable
<1> QED  BY <1>0, <1>1, <1>2, <1>3

LEMMA HandleLockStep ==
    ASSUME TypeInv, HolderInv, RequestInv, HandleLock
    PROVE  Result
<1>0. /\ lockChan \in Seq(Job) /\ waiting \in Seq(Job) /\ unlockChan \in Seq(Host)
      /\ worker \in [Host -> WorkerRec] /\ occupied \in Int /\ failed \in SUBSET Host
      /\ job \in [Job -> JobRec] /\ working \in BOOLEAN
  BY DEF TypeInv
<1>1. CASE GetSlot
  BY <1>1, GetSlotStep
<1>2. CASE PutSlot
  <2> DEFINE w == Freed(worker, Head(unlockChan))
             occ == occupied - 1
  <2>1. /\ working /\ unlockChan # <<>> /\ unlockChan' = Tail(unlockChan)
        /\ Serve(w, occ)
        /\ UNCHANGED <<working, displaced, hosts, failed, lockChan>>
    BY <1>2 DEF PutSlot, aside, hist
  <2>2. Head(unlockChan) \in Host /\ unlockChan' \in Seq(Host)
    BY <1>0, <2>1, HeadTailProperties
  <2>3. w \in [Host -> WorkerRec] /\ occ \in Int
    BY <1>0, <2>2, FreedEffect
  <2> HIDE DEF w, occ
  <2>4. /\ Served(w, occ) /\ HolderInv'
        /\ job' \in [Job -> JobRec] /\ worker' \in [Host -> WorkerRec] /\ occupied' \in Int
        /\ waiting' \in Seq(Job)
    BY <2>1, <2>3, ServeEffect
  <2>5. TypeInv'
    BY <2>1, <2>2, <2>4 DEF TypeInv
  <2>6. Effect
    BY <2>1, <2>4 DEF Effect, w, occ
  <2> QED  BY <2>4, <2>5, <2>6 DEF Result
<1>3. CASE OccupyWaitList
  <2>1. /\ working /\ Serve(worker, occupied)
        /\ UNCHANGED <<working, displaced, hosts, failed, lockChan, unlockChan>>
    BY <1>3 DEF OccupyWaitList, aside, hist
  <2>2. /\ Served(worker, occupied) /\ HolderInv'
        /\ job' \in [Job -> JobRec] /\ worker' \in [Host -> WorkerRec] /\ occupied' \in Int
        /\ waiting' \in Seq(Job)
    BY <1>0, <2>1, ServeEffect
  <2>3. TypeInv'
    BY <2>1, <2>2 DEF TypeInv
  <2>4. Effect
    BY <2>1, <2>2 DEF Effect
  <2> QED  BY <2>2, <2>3, <2>4 DEF Result
<1>4. CASE OnSlotEmpty
  <2> DEFINE r(i) == [job[i] EXCEPT !.host = None, !.pc = "refused"]
  <2>1. /\ working /\ waiting' = <<>> /\ job' = Answer(Range(waiting), None)
        /\ UNCHANGED <<working, displaced, hosts, failed, worker, occupied, lockChan, unlockChan>>
    BY <1>4 DEF OnSlotEmpty, table, aside, hist
  <2>2. \A i \in Range(waiting) : job[i].pc = "asking"
    BY <1>0, <2>1, LenProperties DEF RequestInv, Range
  <2>3. ASSUME NEW i \in Job
        PROVE  /\ job'[i] \in JobRec /\ job'[i].host = job[i].host
               /\ job'[i].pc \in Holding <=> job[i].pc \in Holding
    <3>1. job'[i] = IF i \in Range(waiting) THEN r(i) ELSE job[i]
      BY <2>1 DEF Answer
    <3>2. r(i) \in JobRec /\ r(i).host = None /\ r(i).pc = "refused"
      BY <1>0 DEF JobRec
    <3>3. i \in Range(waiting) => job[i].host = None /\ job[i].pc \notin Holding
      BY <2>2 DEF HolderInv, Holding
    <3> HIDE DEF r
    <3> QED  BY <1>0, <3>1, <3>2, <3>3 DEF Holding
  <2>4. job' \in [Job -> JobRec]
    BY <2>1, <2>3 DEF Answer
  <2>5. TypeInv' /\ HolderInv'
    BY <1>0, <2>1, <2>3, <2>4 DEF TypeInv, HolderInv
  <2>6. Effect
    BY <1>0, <2>1, <2>3 DEF Effect, Served, NotGranted
  <2> QED  BY <2>5, <2>6 DEF Result
<1> QED  BY <1>1, <1>2, <1>3, <1>4 DEF HandleLock

-----------------------------------------------------------------------------
(* The requests.                                                           *)

\* The queues stay, and so do the jobs that ask.
LEMMA QueuesStay ==
    ASSUME TypeInv, RequestInv, working' => working, UNCHANGED <<lockChan, waiting>>,
           \A j \in Job : working' /\ job[j].pc = "asking" => job'[j] = job[j]
    PROVE  RequestInv'
<1>1. lockChan \in [1..Len(lockChan) -> Job] /\ waiting \in [1..Len(waiting) -> Job]
  BY LenProperties DEF TypeInv
<1> QED  BY <1>1 DEF RequestInv

\* The job j asks.
LEMMA RequestIsMade ==
    ASSUME TypeInv, RequestInv, NEW j \in Job, job[j].pc # "asking", job'[j].pc = "asking",
           \A i \in Job \ {j} : job'[i] = job[i],
           lockChan' = Append(lockChan, j), UNCHANGED <<working, waiting>>
    PROVE  RequestInv'
<1>1. /\ lockChan \in [1..Len(lockChan) -> Job] /\ waiting \in [1..Len(waiting) -> Job]
      /\ Len(lockChan) \in Nat /\ Len(lockChan') = Len(lockChan) + 1
      /\ \A i \in 1..Len(lockChan) : lockChan'[i] = lockChan[i]
      /\ lockChan'[Len(lockChan) + 1] = j
  BY LenProperties, AppendProperties DEF TypeInv
<1> SUFFICES ASSUME working
             PROVE  RequestInv'
  BY DEF RequestInv
<1>2. \A i \in 1..Len(lockChan) : lockChan[i] # j /\ job'[lockChan[i]].pc = "asking"
  BY <1>1 DEF RequestInv
<1>3. \A i \in 1..Len(waiting) : waiting[i] # j /\ job'[waiting[i]].pc = "asking"
  BY <1>1 DEF RequestInv
<1>4. \A i \in 1..Len(lockChan') : i \in 1..Len(lockChan) \/ i = Len(lockChan) + 1
  BY <1>1
<1> QED  BY <1>1, <1>2, <1>3, <1>4 DEF RequestInv

\* The request at the head of the queue is answered, or waits.
LEMMA RequestIsRead ==
    ASSUME TypeInv, RequestInv, working, UNCHANGED working, lockChan # <<>>,
           lockChan' = Tail(lockChan), \A i \in Job \ {Head(lockChan)} : job'[i] = job[i],
           \/ UNCHANGED waiting
           \/ waiting' = Append(waiting, Head(lockChan)) /\ UNCHANGED job
    PROVE  RequestInv'
<1> DEFINE j == Head(lockChan)
           n == Len(lockChan)
<1>1. /\ lockChan \in [1..n -> Job] /\ waiting \in [1..Len(waiting) -> Job]
      /\ j = lockChan[1] /\ n \in Nat \ {0} /\ Len(lockChan') = n - 1
      /\ \A i \in 1..(n - 1) : lockChan'[i] = lockChan[i + 1]
  BY HeadAsks, LenProperties DEF TypeInv
<1>2. \A i \in 1..(n - 1) : lockChan'[i] # j /\ job'[lockChan'[i]].pc = "asking"
  BY <1>1 DEF RequestInv
<1>3. \A i, k \in 1..(n - 1) : lockChan'[i] = lockChan'[k] => i = k
  BY <1>1 DEF RequestInv
<1>4. \A i \in 1..(n - 1), k \in 1..Len(waiting) : lockChan'[i] # waiting[k]
  BY <1>1 DEF RequestInv
<1>5. \A i \in 1..Len(waiting) : waiting[i] # j /\ job'[waiting[i]].pc = "asking"
  BY <1>1 DEF RequestInv
<1>6. CASE UNCHANGED waiting
  BY <1>1, <1>2, <1>3, <1>4, <1>5, <1>6 DEF RequestInv
<1>7. CASE waiting' = Append(waiting, j) /\ UNCHANGED job
  <2>1. /\ Len(waiting) \in Nat /\ Len(waiting') = Len(waiting) + 1
        /\ \A i \in 1..Len(waiting) : waiting'[i] = waiting[i]
        /\ waiting'[Len(waiting) + 1] = j
    BY <1>1, <1>7, LenProperties, AppendProperties DEF TypeInv
  <2>2. \A i \in 1..Len(waiting') : i \in 1..Len(waiting) \/ i = Len(waiting) + 1
    BY <2>1
  <2>3. job'[j].pc = "asking"
    BY <1>7, HeadAsks
  <2> HIDE DEF j
  <2>4. \A i \in 1..Len(waiting') : job'[waiting'[i]].pc = "asking"
    BY <1>5, <2>1, <2>2, <2>3
  <2>5. \A i, k \in 1..Len(waiting) : waiting[i] = waiting[k] => i = k
    BY DEF RequestInv
  <2>6. \A i, k \in 1..Len(waiting') : waiting'[i] = waiting'[k] => i = k
    BY <1>5, <2>1, <2>2, <2>5
  <2>7. \A i \in 1..(n - 1), k \in 1..Len(waiting') : lockChan'[i] # waiting'[k]
    BY <1>2, <1>4, <2>1, <2>2
  <2> QED  BY <1>1, <1>2, <1>3, <2>4, <2>6, <2>7 DEF RequestInv
<1> QED  BY <1>6, <1>7

\* A request that waits is answered.
LEMMA RequestIsAnswered ==
    ASSUME TypeInv, RequestInv, UNCHANGED <<working, lockChan>>,
           NEW k \in 1..Len(waiting), waiting' = RemoveAt(waiting, k),
           \A i \in Job \ {waiting[k]} : job'[i] = job[i]
    PROVE  RequestInv'
<1> SUFFICES ASSUME working
             PROVE  RequestInv'
  BY DEF RequestInv
<1> DEFINE at(i) == IF i < k THEN i ELSE i + 1
<1>1. /\ lockChan \in [1..Len(lockChan) -> Job] /\ waiting \in [1..Len(waiting) -> Job]
      /\ Len(waiting) \in Nat
  BY LenProperties DEF TypeInv
<1>2. Len(waiting') = Len(waiting) - 1
  BY RemoveAtEffect DEF TypeInv
<1>3. ASSUME NEW i \in 1..Len(waiting')
      PROVE  at(i) \in 1..Len(waiting) /\ at(i) # k /\ waiting'[i] = waiting[at(i)]
  <2>1. i \in 1..(Len(waiting) - 1)
    BY <1>1, <1>2
  <2>2. waiting'[i] = IF i < k THEN waiting[i] ELSE waiting[i + 1]
    BY <2>1, RemoveAtEffect DEF TypeInv
  <2> QED  BY <1>1, <2>1, <2>2
<1>4. \A i, l \in 1..Len(waiting') : at(i) = at(l) => i = l
  BY <1>1, <1>2
<1> HIDE DEF at
<1>5. \A i \in 1..Len(waiting') : waiting'[i] # waiting[k] /\ job'[waiting'[i]].pc = "asking"
  BY <1>1, <1>3 DEF RequestInv
<1>6. \A i, l \in 1..Len(waiting') : waiting'[i] = waiting'[l] => i = l
  BY <1>3, <1>4 DEF RequestInv
<1>7. \A i \in 1..Len(lockChan) : /\ job'[lockChan[i]].pc = "asking"
                                  /\ \A l \in 1..Len(waiting') : lockChan[i] # waiting'[l]
  BY <1>1, <1>3 DEF RequestInv
<1>8. \A i, l \in 1..Len(lockChan) : lockChan[i] = lockChan[l] => i = l
  BY DEF RequestInv
<1> QED  BY <1>5, <1>6, <1>7, <1>8 DEF RequestInv

LEMMA RequestStep ==
    ASSUME TypeInv, HolderInv, RequestInv, Next
    PROVE  RequestInv'
<1>0. /\ lockChan \in Seq(Job) /\ waiting \in Seq(Job) /\ job \in [Job -> JobRec]
      /\ worker \in [Host -> WorkerRec] /\ occupied \in Int /\ unlockChan \in Seq(Host)
  BY DEF TypeInv
<1>1. ASSUME NEW j \in Job, JobNext(j)
      PROVE  RequestInv'
  <2>1. CASE ExecuteTask(j)
    <3> DEFINE r == [job[j] EXCEPT !.ban = job[j].ban \cup (failed \cap hosts)]
               a == [r EXCEPT !.pc = "asking"]
    <3>1. /\ job[j].pc # "asking" /\ UNCHANGED <<working, waiting>>
          /\ \/ Set(j, After(j, r, FALSE)) /\ UNCHANGED lockChan
             \/ Set(j, a) /\ lockChan' = Append(lockChan, j)
      BY <2>1 DEF ExecuteTask
    <3>2. a.pc = "asking"
      BY <1>0 DEF JobRec
    <3> HIDE DEF a, r
    <3>3. \A i \in Job \ {j} : job'[i] = job[i]
      BY <1>0, <3>1 DEF Set
    <3>4. CASE UNCHANGED lockChan
      BY <3>1, <3>3, <3>4, QueuesStay
    <3>5. CASE Set(j, a) /\ lockChan' = Append(lockChan, j)
      BY <1>0, <3>1, <3>2, <3>3, <3>5, RequestIsMade DEF Set
    <3> QED  BY <3>1, <3>4, <3>5
  <2>2. CASE ~ExecuteTask(j)
    <3>1. /\ UNCHANGED <<working, lockChan, waiting>> /\ \E r : Set(j, r)
          /\ working => job[j].pc # "asking"
      BY <1>1, <2>2 DEF JobNext, Refused, Succeed, SendToolchainFails, EnsureFilesFails, NetError,
         AttemptFails, ExecutionFails, IsWorkerDead, MakeDead, EveryWorkerOnce, Leave, Failing, chans, table, aside
    <3>2. \A i \in Job \ {j} : job'[i] = job[i]
      BY <1>0, <3>1 DEF Set
    <3> QED  BY <3>1, <3>2, QueuesStay
  <2> QED  BY <2>1, <2>2
<1>2. ASSUME NEW h \in Host, Upkeep(h) \/ ConfirmWorker(h)
      PROVE  RequestInv'
  <2>1. UNCHANGED <<working, lockChan, waiting, job>>
    BY <1>2 DEF Upkeep, RetryFiles, RetryToolChain, Resent, CheckDead, Checked, ConfirmWorker, chans
  <2> QED  BY <2>1, QueuesStay
<1>3. CASE ResourceCheck \/ DisableAllWorker \/ Reset \/ Done
  <2>1. (working' => working) /\ UNCHANGED <<lockChan, waiting, job>>
    BY <1>3 DEF ResourceCheck, DisableAllWorker, Reset, Done, chans
  <2> QED  BY <2>1, QueuesStay
<1>4. CASE GetSlot
  <2> DEFINE j == Head(lockChan)
  <2>1. /\ working /\ UNCHANGED working /\ lockChan # <<>> /\ lockChan' = Tail(lockChan)
        /\ \/ UNCHANGED waiting /\ \E h : job' = Answer({j}, h)
           \/ waiting' = Append(waiting, j) /\ UNCHANGED job
    BY <1>4 DEF GetSlot
  <2>2. \A i \in Job \ {j} : job'[i] = job[i]
    BY <1>0, <2>1 DEF Answer
  <2> QED  BY <2>1, <2>2, RequestIsRead
<1>5. ASSUME NEW w \in [Host -> WorkerRec], NEW occ \in Int, working, Serve(w, occ),
             UNCHANGED <<working, lockChan>>
      PROVE  RequestInv'
  <2>1. \/ UNCHANGED <<job, waiting>>
        \/ \E k \in 1..Len(waiting) : /\ waiting' = RemoveAt(waiting, k)
                                      /\ \A i \in Job \ {waiting[k]} : job'[i] = job[i]
    BY <1>5, ServeEffect
  <2>2. CASE UNCHANGED <<job, waiting>>
    BY <1>5, <2>2, QueuesStay
  <2> QED  BY <1>5, <2>1, <2>2, RequestIsAnswered
<1>6. CASE PutSlot
  <2> DEFINE w == Freed(worker, Head(unlockChan))
             occ == occupied - 1
  <2>1. /\ working /\ unlockChan # <<>> /\ Serve(w, occ) /\ UNCHANGED <<working, lockChan>>
    BY <1>6 DEF PutSlot
  <2>2. w \in [Host -> WorkerRec] /\ occ \in Int
    BY <1>0, <2>1, HeadTailProperties, FreedEffect
  <2> HIDE DEF w, occ
  <2> QED  BY <1>5, <2>1, <2>2
<1>7. CASE OccupyWaitList
  <2>1. working /\ Serve(worker, occupied) /\ UNCHANGED <<working, lockChan>>
    BY <1>7 DEF OccupyWaitList
  <2> QED  BY <1>0, <1>5, <2>1
<1>8. CASE OnSlotEmpty
  <2>1. /\ working /\ waiting' = <<>> /\ job' = Answer(Range(waiting), None)
        /\ UNCHANGED <<working, lockChan>>
    BY <1>8 DEF OnSlotEmpty
  <2>2. \A i \in 1..Len(lockChan) : lockChan[i] \in Job /\ lockChan[i] \notin Range(waiting)
    BY <1>0, <2>1, LenProperties DEF RequestInv, Range
  <2>3. \A i \in 1..Len(lockChan) : job'[lockChan[i]] = job[lockChan[i]]
    BY <2>1, <2>2 DEF Answer
  <2>4. Len(waiting') = 0
    BY <2>1
  <2> QED  BY <2>1, <2>3, <2>4 DEF RequestInv
<1> QED  BY <1>1, <1>2, <1>3, <1>4, <1>6, <1>7, <1>8 DEF Next, HandleLock

-----------------------------------------------------------------------------
(* Theorems.                                                               *)

LEMMA InitSlots == Init => SlotInv
<1> SUFFICES ASSUME Init
             PROVE  SlotInv
  OBVIOUS
<1>1. /\ working = TRUE /\ displaced = FALSE /\ hosts \in SUBSET Host /\ failed = {}
      /\ worker = Fresh /\ occupied = 0
      /\ lockChan = <<>> /\ waiting = <<>> /\ unlockChan = <<>>
      /\ job = [j \in Job |-> [pc |-> "try", host |-> None, ban |-> {}, tries |-> 0]]
  BY DEF Init
<1>2. Fresh \in [Host -> WorkerRec] /\ \A h \in Host : Fresh[h].occ = 0
  BY DEF Fresh, WorkerRec
<1>3. \A j \in Job : job[j] \in JobRec /\ job[j].host = None /\ job[j].pc \notin Holding
  BY <1>1 DEF JobRec, Holding
<1>4. TypeInv /\ HolderInv
  <2>1. <<>> \in Seq(Job) /\ <<>> \in Seq(Host)
    OBVIOUS
  <2>2. job \in [Job -> JobRec]
    BY <1>1, <1>3
  <2>3. working \in BOOLEAN /\ displaced \in BOOLEAN
    BY <1>1, Zenon
  <2>4. /\ failed \in SUBSET Host /\ hosts \in SUBSET Host
        /\ worker \in [Host -> WorkerRec] /\ occupied \in Int
    BY <1>1, <1>2
  <2>5. lockChan \in Seq(Job) /\ waiting \in Seq(Job) /\ unlockChan \in Seq(Host)
    BY <1>1, <2>1
  <2>6. TypeInv
    BY <2>2, <2>3, <2>4, <2>5 DEF TypeInv
  <2> QED  BY <1>3, <2>6 DEF HolderInv
<1>5. RequestInv
  BY <1>1 DEF RequestInv
<1>6. WithinOne
  <2>1. \A h \in Host : worker[h].occ = 0
    BY <1>1, <1>2
  <2> QED  BY <2>1, RemoteAssumption DEF WithinOne
<1>7. Balanced(hosts, HostOf, OccOf, occupied, unlockChan)
  <2>1. /\ Taking(HostOf) = {} /\ Cardinality({}) = 0 /\ Len(unlockChan) = 0
        /\ \A h \in Host : Having(HostOf, h) = {} /\ Ones(unlockChan, h) = {}
    BY <1>1, <1>3, FS_EmptySet, RemoteAssumption DEF Taking, Having, Ones, HostOf
  <2>2. \A h \in hosts : OccOf[h] = 0 /\ Having(HostOf, h) = {} /\ Ones(unlockChan, h) = {}
    BY <1>1, <1>2, <2>1 DEF OccOf
  <2>3. occupied = Cardinality(Taking(HostOf)) + Len(unlockChan)
    BY <1>1, <2>1
  <2>4. ASSUME NEW h \in hosts
        PROVE  OccOf[h] = Cardinality(Having(HostOf, h)) + Cardinality(Ones(unlockChan, h))
    <3>1. Cardinality(Having(HostOf, h)) = 0 /\ Cardinality(Ones(unlockChan, h)) = 0
      BY <2>1, <2>2, <2>4
    <3> QED  BY <2>2, <2>4, <3>1
  <2> QED  BY <2>3, <2>4 DEF Balanced
<1> QED  BY <1>4, <1>5, <1>6, <1>7 DEF SlotInv, BalanceInv

LEMMA NextSlots == SlotInv /\ [Next]_vars => SlotInv'
<1> SUFFICES ASSUME SlotInv, [Next]_vars
             PROVE  SlotInv'
  OBVIOUS
<1>1. TypeInv /\ HolderInv /\ RequestInv /\ WithinOne /\ BalanceInv
  BY DEF SlotInv
<1>2. CASE Next
  <2>1. Result
    BY <1>1, <1>2, JobStep, HandleLockStep, UpkeepStep, WorkStep DEF Next
  <2>2. TypeInv' /\ HolderInv' /\ Effect
    BY <2>1 DEF Result
  <2> QED  BY <1>1, <1>2, <2>2, RequestStep, WithinOneStep, BalanceStep DEF SlotInv
<1>3. CASE UNCHANGED vars
  <2>1. UNCHANGED <<working, displaced, hosts, failed, worker, occupied, job, lockChan, waiting,
                    unlockChan>>
    BY <1>3 DEF vars, table, chans, aside, hist
  <2>2. TypeInv' /\ HolderInv' /\ RequestInv' /\ WithinOne'
    BY <1>1, <2>1 DEF TypeInv, HolderInv, RequestInv, WithinOne
  <2>3. HostOf' = HostOf /\ OccOf' = OccOf
    BY <2>1 DEF HostOf, OccOf
  <2>4. BalanceInv'
    BY <1>1, <2>1, <2>3 DEF BalanceInv
  <2> QED  BY <2>2, <2>4 DEF SlotInv
<1> QED  BY <1>2, <1>3

\* The invariant holds in every state of every controller.
THEOREM SlotsAreInvariant == Spec => []SlotInv
<1> QED  BY InitSlots, NextSlots, PTL DEF Spec

\* Every slot the controller counts, in all and of a worker, is one a job holds or
\* has given back unread (getSlot, putSlot, and every way an attempt ends).
THEOREM SlotsStayBalanced == Spec => []SlotsAreBalanced
<1>1. SlotInv => SlotsAreBalanced
  <2> SUFFICES ASSUME TypeInv, Balanced(hosts, HostOf, OccOf, occupied, unlockChan)
               PROVE  /\ occupied = Cardinality(Holders) + Len(unlockChan)
                      /\ \A h \in hosts :
                           worker[h].occ = Cardinality({j \in Job : job[j].host = h})
                             + Cardinality({k \in DOMAIN unlockChan : unlockChan[k] = h})
    BY DEF SlotInv, BalanceInv, SlotsAreBalanced
  <2>1. Taking(HostOf) = Holders
    BY DEF Taking, HostOf, Holders
  <2>2. \A h : Having(HostOf, h) = {j \in Job : job[j].host = h}
    BY DEF Having, HostOf
  <2>3. \A h : Ones(unlockChan, h) = {k \in DOMAIN unlockChan : unlockChan[k] = h}
    BY DEF Ones
  <2>4. \A h \in hosts : OccOf[h] = worker[h].occ
    BY DEF TypeInv, OccOf
  <2> QED  BY <2>1, <2>2, <2>3, <2>4 DEF Balanced
<1> QED  BY <1>1, SlotsAreInvariant, PTL

\* No worker is given more than one job above its slots (getWorkerWithMostFreeSlots
\* compares with a maximum that starts at 0).
THEOREM OverbookedByOneAtMost == Spec => []OverbookedByOne
<1>1. SlotInv => OverbookedByOne
  <2> SUFFICES ASSUME SlotInv, ~displaced, NEW h \in hosts
               PROVE  Cardinality({j \in Job : job[j].host = h}) <= Jobs[h] + 1
    BY DEF OverbookedByOne
  <2>1. h \in Host /\ unlockChan \in Seq(Host) /\ OccOf[h] = worker[h].occ
    BY DEF SlotInv, TypeInv, OccOf
  <2>2. worker[h].occ = Cardinality(Having(HostOf, h)) + Cardinality(Ones(unlockChan, h))
    BY <2>1 DEF SlotInv, BalanceInv, Balanced
  <2>3. worker[h].occ <= Jobs[h] + 1 /\ Jobs[h] \in Nat
    BY <2>1, RemoteAssumption DEF SlotInv, WithinOne
  <2>4. Cardinality(Having(HostOf, h)) \in Nat /\ Cardinality(Ones(unlockChan, h)) \in Nat
    BY <2>1, HavingIsFinite, OnesAreFinite
  <2>5. Having(HostOf, h) = {j \in Job : job[j].host = h}
    BY DEF Having, HostOf
  <2>6. Cardinality(Having(HostOf, h)) <= Jobs[h] + 1
    BY <2>2, <2>3, <2>4
  <2> QED  BY <2>5, <2>6
<1> QED  BY <1>1, SlotsAreInvariant, PTL

-----------------------------------------------------------------------------
(* The total: what the workers in service have together.                   *)

Available == {h \in Host : Usable(worker, h)}
NoneIsBoth == \A h \in Host : ~(worker[h].disabled /\ worker[h].dead)
AvailInv == mixed \/ (total = SumJobs(Available) /\ NoneIsBoth)

\* Neither the workers in service nor the total change.
SameFlags(w) ==
    \A h \in Host : worker'[h].disabled = w[h].disabled /\ worker'[h].dead = w[h].dead
ServiceStays == UNCHANGED <<total, hosts>> /\ (mixed' <=> mixed) /\ SameFlags(worker)

LEMMA JobsAreSummed ==
    ASSUME NEW S \in SUBSET Host
    PROVE  /\ IsFiniteSet(S) /\ \A h \in S : Jobs[h] \in Int
           /\ SumJobs(S) \in Int
<1>1. IsFiniteSet(S) /\ \A h \in S : Jobs[h] \in Int
  BY RemoteAssumption, FS_Subset
<1> QED  BY <1>1, SumInt DEF SumJobs

LEMMA OneMore ==
    ASSUME NEW S \in SUBSET Host, NEW h \in Host, h \notin S
    PROVE  SumJobs(S \cup {h}) = SumJobs(S) + Jobs[h]
<1>1. IsFiniteSet(S) /\ \A g \in S \cup {h} : Jobs[g] \in Int
  BY RemoteAssumption, FS_Subset
<1>2. SumJobs(S \cup {h}) = Jobs[h] + SumJobs(S)
  BY <1>1, SumAdd DEF SumJobs
<1> QED  BY <1>1, <1>2, JobsAreSummed

LEMMA OneLess ==
    ASSUME NEW S \in SUBSET Host, NEW h \in S
    PROVE  SumJobs(S \ {h}) = SumJobs(S) - Jobs[h]
<1> DEFINE R == S \ {h}
<1>1. R \in SUBSET Host /\ h \notin R /\ R \cup {h} = S /\ h \in Host /\ Jobs[h] \in Int
  BY RemoteAssumption
<1> HIDE DEF R
<1>2. SumJobs(S) = SumJobs(R) + Jobs[h] /\ SumJobs(R) \in Int
  BY <1>1, OneMore, JobsAreSummed
<1>3. SumJobs(R) = SumJobs(S) - Jobs[h]
  BY <1>1, <1>2
<1> QED  BY <1>3 DEF R

LEMMA StaysKeepsTotal ==
    ASSUME AvailInv, ServiceStays
    PROVE  AvailInv'
<1>1. Available' = Available
  BY DEF Available, Usable, ServiceStays, SameFlags
<1>2. NoneIsBoth => NoneIsBoth'
  BY DEF NoneIsBoth, ServiceStays, SameFlags
<1> QED  BY <1>1, <1>2 DEF AvailInv, ServiceStays, SumJobs

\* One worker is taken out of service, or put back, with its slots.
LEMMA WorkerLeaves ==
    ASSUME AvailInv, ~mixed, ~mixed', hosts \in SUBSET Host, UNCHANGED hosts, NEW h \in Available,
           \A g \in Host \ {h} : worker'[g] = worker[g],
           worker'[h].disabled \/ worker'[h].dead, ~(worker'[h].disabled /\ worker'[h].dead),
           total' = total - Jobs[h]
    PROVE  AvailInv'
<1>1. Available' = Available \ {h}
  BY DEF Available, Usable
<1>2. Available \in SUBSET Host /\ total = SumJobs(Available) /\ NoneIsBoth
  BY DEF Available, AvailInv
<1>3. SumJobs(Available \ {h}) = total - Jobs[h]
  BY <1>2, OneLess
<1>4. NoneIsBoth'
  BY <1>2 DEF NoneIsBoth
<1> QED  BY <1>1, <1>3, <1>4 DEF AvailInv, SumJobs

LEMMA WorkerComes ==
    ASSUME AvailInv, ~mixed, ~mixed', hosts \in SUBSET Host, UNCHANGED hosts, NEW h \in hosts,
           h \notin Available, \A g \in Host \ {h} : worker'[g] = worker[g],
           ~worker'[h].disabled, ~worker'[h].dead,
           total' = total + Jobs[h]
    PROVE  AvailInv'
<1>1. Available' = Available \cup {h}
  BY DEF Available, Usable
<1>2. Available \in SUBSET Host /\ total = SumJobs(Available) /\ NoneIsBoth
  BY DEF Available, AvailInv
<1>3. SumJobs(Available \cup {h}) = total + Jobs[h]
  BY <1>2, OneMore
<1>4. NoneIsBoth'
  BY <1>2 DEF NoneIsBoth
<1> QED  BY <1>1, <1>3, <1>4 DEF AvailInv, SumJobs

\* The four ways to change a worker.
LEMMA ChangeKeepsTotal ==
    ASSUME TypeInv, AvailInv, NEW h \in Host, UNCHANGED hosts,
           \/ DisableWorker(h) \/ WorkerDead(h)
           \/ (EnableWorker(h) \/ RecoverDeadWorker(h)) /\ UNCHANGED mixed
    PROVE  AvailInv'
<1> SUFFICES ASSUME ~mixed' PROVE AvailInv'
  BY DEF AvailInv
<1>0. worker \in [Host -> WorkerRec] /\ worker[h] \in WorkerRec /\ hosts \in SUBSET Host
  BY DEF TypeInv
<1>1. /\ worker[h].disabled \in BOOLEAN /\ worker[h].dead \in BOOLEAN
      /\ \A b \in BOOLEAN :
           /\ [worker[h] EXCEPT !.disabled = b].disabled = b
           /\ [worker[h] EXCEPT !.disabled = b].dead = worker[h].dead
           /\ [worker[h] EXCEPT !.dead = b].dead = b
           /\ [worker[h] EXCEPT !.dead = b].disabled = worker[h].disabled
      /\ [worker[h] EXCEPT !.dead = FALSE, !.errors = 0].dead = FALSE
      /\ [worker[h] EXCEPT !.dead = FALSE, !.errors = 0].disabled = worker[h].disabled
  BY <1>0 DEF WorkerRec
<1>2. ~mixed
  BY DEF DisableWorker, WorkerDead, Mix
<1>3. NoneIsBoth
  BY <1>2 DEF AvailInv
<1>4. CASE DisableWorker(h)
  <2> DEFINE b == worker[h].disabled \/ h \in hosts
             w == [worker[h] EXCEPT !.disabled = b]
  <2>1. b \in BOOLEAN
    OBVIOUS
  <2>2. w.disabled = b /\ w.dead = worker[h].dead
    BY <1>1, <2>1
  <2>3. /\ worker' = [worker EXCEPT ![h] = w]
        /\ mixed' = (mixed \/ (w.disabled /\ w.dead))
        /\ total' = IF h \in hosts /\ ~worker[h].disabled THEN total - Jobs[h] ELSE total
    BY <1>4 DEF DisableWorker, SetWorker, Mix
  <2>4. ~(w.disabled /\ w.dead)
    BY <2>3
  <2> HIDE DEF w, b
  <2>5. worker'[h] = w /\ \A g \in Host \ {h} : worker'[g] = worker[g]
    BY <1>0, <2>3
  <2>6. CASE h \in hosts /\ ~worker[h].disabled
    <3>1. h \in Available
      BY <2>2, <2>4, <2>6 DEF b, Available, Usable
    <3> QED  BY <1>0, <1>2, <2>2, <2>3, <2>4, <2>5, <2>6, <3>1, WorkerLeaves DEF b
  <2>7. CASE ~(h \in hosts /\ ~worker[h].disabled)
    <3>0. b = worker[h].disabled
      BY <1>1, <2>7, Zenon DEF b
    <3>1. SameFlags(worker)
      BY <2>2, <2>5, <3>0 DEF SameFlags
    <3>2. mixed' <=> mixed
      BY <1>2, <2>3, <2>4
    <3> QED  BY <2>3, <2>7, <3>1, <3>2, StaysKeepsTotal DEF ServiceStays
  <2> QED  BY <2>6, <2>7
<1>5. CASE WorkerDead(h)
  <2> DEFINE b == worker[h].dead \/ h \in hosts
             w == [worker[h] EXCEPT !.dead = b]
  <2>0. CASE h \in hosts /\ worker[h].dead
    BY <1>5, <2>0, StaysKeepsTotal DEF WorkerDead, ServiceStays, SameFlags
  <2>1. CASE ~(h \in hosts /\ worker[h].dead)
    <3>1. b \in BOOLEAN
      OBVIOUS
    <3>2. w.dead = b /\ w.disabled = worker[h].disabled
      BY <1>1, <3>1
    <3>3. /\ worker' = [worker EXCEPT ![h] = w]
          /\ mixed' = (mixed \/ (w.disabled /\ w.dead))
          /\ total' = IF h \in hosts THEN total - Jobs[h] ELSE total
      BY <1>5, <2>1 DEF WorkerDead, SetWorker, Mix
    <3>4. ~(w.disabled /\ w.dead)
      BY <3>3
    <3> HIDE DEF w, b
    <3>5. worker'[h] = w /\ \A g \in Host \ {h} : worker'[g] = worker[g]
      BY <1>0, <3>3
    <3>6. CASE h \in hosts
      <4>1. h \in Available
        BY <2>1, <3>2, <3>4, <3>6 DEF b, Available, Usable
      <4> QED  BY <1>0, <1>2, <3>2, <3>3, <3>4, <3>5, <3>6, <4>1, WorkerLeaves DEF b
    <3>7. CASE h \notin hosts
      <4>0. b = worker[h].dead
        BY <1>1, <3>7, Zenon DEF b
      <4>1. SameFlags(worker)
        BY <3>2, <3>5, <4>0 DEF SameFlags
      <4>2. mixed' <=> mixed
        BY <1>2, <3>3, <3>4
      <4> QED  BY <3>3, <3>7, <4>1, <4>2, StaysKeepsTotal DEF ServiceStays
    <3> QED  BY <3>6, <3>7
  <2> QED  BY <2>0, <2>1
<1>6. CASE EnableWorker(h) /\ UNCHANGED mixed
  <2> DEFINE w == [worker[h] EXCEPT !.disabled = FALSE]
  <2>1. w.disabled = FALSE /\ w.dead = worker[h].dead
    BY <1>1
  <2>2. /\ worker' = [worker EXCEPT ![h] = w]
        /\ total' = IF h \in hosts /\ worker[h].disabled THEN total + Jobs[h] ELSE total
    BY <1>6 DEF EnableWorker, SetWorker
  <2> HIDE DEF w
  <2>3. worker'[h] = w /\ \A g \in Host \ {h} : worker'[g] = worker[g]
    BY <1>0, <2>2
  <2>4. CASE h \in hosts /\ worker[h].disabled
    <3>1. h \notin Available /\ ~worker[h].dead
      BY <1>3, <2>4 DEF Available, Usable, NoneIsBoth
    <3> QED  BY <1>0, <1>2, <2>1, <2>2, <2>3, <2>4, <3>1, WorkerComes
  <2>5. CASE h \notin hosts
    <3>1. Available' = Available
      BY <1>0, <2>3, <2>5 DEF Available, Usable
    <3>2. NoneIsBoth'
      BY <1>3, <2>1, <2>3 DEF NoneIsBoth
    <3> QED  BY <1>2, <2>2, <2>5, <3>1, <3>2 DEF AvailInv, SumJobs
  <2>6. CASE h \in hosts /\ ~worker[h].disabled
    <3>1. SameFlags(worker)
      BY <1>1, <2>1, <2>3, <2>6 DEF SameFlags
    <3> QED  BY <1>6, <2>2, <2>6, <3>1, StaysKeepsTotal DEF ServiceStays
  <2> QED  BY <2>4, <2>5, <2>6
<1>7. CASE RecoverDeadWorker(h) /\ UNCHANGED mixed
  <2> DEFINE w == [worker[h] EXCEPT !.dead = FALSE, !.errors = 0]
  <2>1. w.dead = FALSE /\ w.disabled = worker[h].disabled
    BY <1>1
  <2>2. CASE h \in hosts /\ worker[h].dead
    <3>1. worker' = [worker EXCEPT ![h] = w] /\ total' = total + Jobs[h]
      BY <1>7, <2>2 DEF RecoverDeadWorker, SetWorker
    <3> HIDE DEF w
    <3>2. worker'[h] = w /\ \A g \in Host \ {h} : worker'[g] = worker[g]
      BY <1>0, <3>1
    <3>3. h \notin Available /\ ~worker[h].disabled
      BY <1>3, <2>2 DEF Available, Usable, NoneIsBoth
    <3> QED  BY <1>0, <1>2, <2>1, <2>2, <3>1, <3>2, <3>3, WorkerComes
  <2>3. CASE ~(h \in hosts /\ worker[h].dead)
    BY <1>7, <2>3, StaysKeepsTotal DEF RecoverDeadWorker, ServiceStays, SameFlags
  <2> QED  BY <2>2, <2>3
<1> QED  BY <1>4, <1>5, <1>6, <1>7

\* Granting and giving back slots changes no worker's service.
LEMMA OccupyKeepsFlags ==
    ASSUME NEW w \in [Host -> WorkerRec], NEW j \in Job, NEW h \in Host
    PROVE  \A g \in Host : /\ Occupy(w, j, h)[g].disabled = w[g].disabled
                           /\ Occupy(w, j, h)[g].dead = w[g].dead
<1> DEFINE a == [w[h] EXCEPT !.occ = @ + 1, !.large = @ \/ j \in LargeJob]
<1>1. a.disabled = w[h].disabled /\ a.dead = w[h].dead
  BY DEF WorkerRec
<1>2. Occupy(w, j, h) = [w EXCEPT ![h] = a]
  BY DEF Occupy
<1> HIDE DEF a
<1> QED  BY <1>1, <1>2

LEMMA FreedKeepsFlags ==
    ASSUME NEW w \in [Host -> WorkerRec], NEW h \in Host
    PROVE  \A g \in Host : /\ Freed(w, h)[g].disabled = w[g].disabled
                           /\ Freed(w, h)[g].dead = w[g].dead
<1> DEFINE b == [w[h] EXCEPT !.occ = @ - 1]
<1>1. b.disabled = w[h].disabled /\ b.dead = w[h].dead
  BY DEF WorkerRec
<1>2. Freed(w, h) = [w EXCEPT ![h] = b] \/ Freed(w, h) = w
  BY DEF Freed
<1> HIDE DEF b
<1> QED  BY <1>1, <1>2

LEMMA ServeKeepsFlags ==
    ASSUME TypeInv, NEW w \in [Host -> WorkerRec], NEW occ, Serve(w, occ)
    PROVE  SameFlags(w)
<1>1. CASE worker' = w
  BY <1>1 DEF SameFlags
<1>2. CASE worker' # w
  <2>0. PICK k \in DOMAIN waiting :
          \E h \in Reply(w, waiting[k]) : h # None /\ worker' = Occupy(w, waiting[k], h)
    BY <1>2 DEF Serve, Answerable
  <2>1. PICK h \in Reply(w, waiting[k]) : h # None /\ worker' = Occupy(w, waiting[k], h)
    BY <2>0
  <2>2. waiting[k] \in Job
    BY LenProperties DEF TypeInv
  <2>3. h \in Host
    BY <2>1 DEF Reply, Pick, MostFree, Offered
  <2> QED  BY <2>1, <2>2, <2>3, OccupyKeepsFlags DEF SameFlags
<1> QED  BY <1>1, <1>2

LEMMA TotalStep ==
    ASSUME SlotInv, AvailInv, Next
    PROVE  AvailInv'
<1>0. /\ TypeInv /\ HolderInv /\ RequestInv
      /\ worker \in [Host -> WorkerRec] /\ hosts \in SUBSET Host
      /\ unlockChan \in Seq(Host) /\ lockChan \in Seq(Job)
      /\ \A j \in Job : job[j].host \in Host \cup {None}
  BY DEF SlotInv, TypeInv, JobRec
<1>1. ASSUME NEW j \in Job, JobNext(j) PROVE AvailInv'
  <2>1. CASE \/ ExecuteTask(j) \/ Refused(j) \/ Succeed(j) \/ EveryWorkerOnce(j) \/ EnsureFilesFails(j)
             \/ AttemptFails(j) \/ ExecutionFails(j) \/ IsWorkerDead(j)
    <3>1. UNCHANGED <<total, hosts, mixed, worker>>
      BY <2>1 DEF ExecuteTask, Refused, Succeed, EveryWorkerOnce, EnsureFilesFails, AttemptFails,
                  ExecutionFails, IsWorkerDead, table, hist
    <3> QED  BY <3>1, StaysKeepsTotal DEF ServiceStays, SameFlags
  <2>2. CASE SendToolchainFails(j)
    <3>1. job[j].host \in Host /\ DisableWorker(job[j].host) /\ UNCHANGED hosts
      BY <1>0, <2>2 DEF SendToolchainFails, Failing, HolderInv, Holding
    <3> QED  BY <1>0, <3>1, ChangeKeepsTotal
  <2>3. CASE NetError(j)
    <3>1. UNCHANGED <<total, hosts, mixed>>
      BY <2>3 DEF NetError, hist
    <3>2. job[j].host \in Host
      BY <1>0, <2>3 DEF NetError, Failing, HolderInv, Holding
    <3> DEFINE h == job[j].host
               w == [worker[h] EXCEPT !.errors = worker[h].errors + 1]
    <3>3. w.disabled = worker[h].disabled /\ w.dead = worker[h].dead
      BY <1>0, <3>2 DEF WorkerRec
    <3>4. worker' = [worker EXCEPT ![h] = w] \/ worker' = worker
      BY <2>3 DEF NetError
    <3> HIDE DEF w, h
    <3>5. SameFlags(worker)
      BY <1>0, <3>3, <3>4 DEF SameFlags
    <3> QED  BY <3>1, <3>5, StaysKeepsTotal DEF ServiceStays
  <2>4. CASE MakeDead(j)
    <3>1. job[j].host \in Host /\ WorkerDead(job[j].host) /\ UNCHANGED hosts
      BY <1>0, <2>4 DEF MakeDead, HolderInv, Holding
    <3> QED  BY <1>0, <3>1, ChangeKeepsTotal
  <2> QED  BY <1>1, <2>1, <2>2, <2>3, <2>4 DEF JobNext
<1>2. CASE HandleLock
  <2>1. UNCHANGED <<total, hosts, mixed>>
    BY <1>2 DEF HandleLock, GetSlot, PutSlot, OnSlotEmpty, OccupyWaitList, table, hist
  <2>2. CASE GetSlot
    <3> DEFINE j == Head(lockChan)
    <3>1. j \in Job
      BY <1>0, <2>2, HeadTailProperties DEF GetSlot
    <3>2. worker' = worker \/ \E h \in Pick(worker, j) : worker' = Occupy(worker, j, h)
      BY <2>2 DEF GetSlot
    <3> HIDE DEF j
    <3>3. Pick(worker, j) \subseteq Host
      BY DEF Pick, MostFree, Offered
    <3> QED  BY <1>0, <2>1, <3>1, <3>2, <3>3, OccupyKeepsFlags, StaysKeepsTotal DEF ServiceStays, SameFlags
  <2>3. CASE PutSlot
    <3> DEFINE h == Head(unlockChan)
    <3>1. h \in Host /\ Serve(Freed(worker, h), occupied - 1)
      BY <1>0, <2>3, HeadTailProperties DEF PutSlot
    <3> HIDE DEF h
    <3>2. Freed(worker, h) \in [Host -> WorkerRec]
      BY <1>0, <3>1, FreedEffect
    <3>3. SameFlags(Freed(worker, h))
      BY <1>0, <3>1, <3>2, ServeKeepsFlags
    <3>4. \A g \in Host : /\ Freed(worker, h)[g].disabled = worker[g].disabled
                          /\ Freed(worker, h)[g].dead = worker[g].dead
      BY <1>0, <3>1, FreedKeepsFlags
    <3> QED  BY <2>1, <3>3, <3>4, StaysKeepsTotal DEF ServiceStays, SameFlags
  <2>4. CASE OnSlotEmpty
    BY <2>1, <2>4, StaysKeepsTotal DEF OnSlotEmpty, table, ServiceStays, SameFlags
  <2>5. CASE OccupyWaitList
    <3>1. SameFlags(worker)
      BY <1>0, <2>5, ServeKeepsFlags DEF OccupyWaitList
    <3> QED  BY <2>1, <3>1, StaysKeepsTotal DEF ServiceStays
  <2> QED  BY <1>2, <2>2, <2>3, <2>4, <2>5 DEF HandleLock
<1>3. ASSUME NEW h \in Host, Upkeep(h) \/ ConfirmWorker(h) PROVE AvailInv'
  <2>1. CASE RetryFiles(h) \/ RetryToolChain(h) \/ CheckDead(h)
    <3>1. UNCHANGED <<total, hosts, mixed, worker>>
      BY <2>1 DEF RetryFiles, RetryToolChain, CheckDead, table, hist
    <3> QED  BY <3>1, StaysKeepsTotal DEF ServiceStays, SameFlags
  <2>2. CASE Resent(h)
    BY <1>0, <2>2, ChangeKeepsTotal DEF Resent, hist
  <2>3. CASE Checked(h)
    <3>1. UNCHANGED <<hosts, mixed>> /\ (RecoverDeadWorker(h) \/ UNCHANGED <<worker, total>>)
      BY <2>3 DEF Checked, hist
    <3>2. CASE UNCHANGED <<worker, total>>
      BY <3>1, <3>2, StaysKeepsTotal DEF ServiceStays, SameFlags
    <3> QED  BY <1>0, <3>1, <3>2, ChangeKeepsTotal
  <2>4. CASE ConfirmWorker(h)
    BY <1>0, <2>4, ChangeKeepsTotal DEF ConfirmWorker
  <2> QED  BY <1>3, <2>1, <2>2, <2>3, <2>4 DEF Upkeep
<1>4. CASE ResourceCheck \/ Done
  <2>1. UNCHANGED <<total, hosts, mixed, worker>>
    BY <1>4 DEF ResourceCheck, Done, table, hist
  <2> QED  BY <2>1, StaysKeepsTotal DEF ServiceStays, SameFlags
<1>5. CASE DisableAllWorker
  <2>1. /\ worker' = [h \in Host |-> [worker[h] EXCEPT !.disabled = @ \/ h \in hosts]]
        /\ total' = 0 /\ UNCHANGED hosts
        /\ mixed' = (mixed \/ \E h \in hosts : worker[h].dead)
    BY <1>5 DEF DisableAllWorker
  <2> SUFFICES ASSUME ~mixed' PROVE AvailInv'
    BY DEF AvailInv
  <2>2. \A h \in Host : /\ worker'[h].disabled = (worker[h].disabled \/ h \in hosts)
                        /\ worker'[h].dead = worker[h].dead
    BY <1>0, <2>1 DEF WorkerRec
  <2>3. Available' = {}
    BY <2>1, <2>2 DEF Available, Usable
  <2>4. NoneIsBoth'
    BY <2>1, <2>2 DEF NoneIsBoth, AvailInv
  <2>5. SumJobs({}) = 0
    BY SumEmpty DEF SumJobs
  <2> QED  BY <2>1, <2>3, <2>4, <2>5 DEF AvailInv, SumJobs
<1>6. CASE Reset
  <2>1. total' = SumJobs(hosts') /\ worker' = Fresh /\ hosts' \in SUBSET Host
    BY <1>6 DEF Reset
  <2>2. Available' = hosts' /\ NoneIsBoth'
    BY <2>1 DEF Available, Usable, Fresh, NoneIsBoth
  <2> QED  BY <2>1, <2>2 DEF AvailInv, SumJobs
<1> QED  BY <1>1, <1>2, <1>3, <1>4, <1>5, <1>6 DEF Next

\* The total that ExecuteTask and getSlot compare with is what the workers in
\* service have together, unless one was disabled and dead at once (totalSlots).
THEOREM TotalStaysAvailable == Spec => []TotalIsAvailable
<1>1. Init => AvailInv
  <2> SUFFICES ASSUME Init PROVE AvailInv
    OBVIOUS
  <2>1. hosts \in SUBSET Host /\ total = SumJobs(hosts) /\ worker = Fresh
    BY DEF Init
  <2>2. Available = hosts /\ NoneIsBoth
    BY <2>1 DEF Available, Usable, Fresh, NoneIsBoth
  <2> QED  BY <2>1, <2>2 DEF AvailInv
<1>2. SlotInv /\ AvailInv /\ [Next]_vars => AvailInv'
  <2>1. ASSUME AvailInv, UNCHANGED vars PROVE AvailInv'
    BY <2>1, StaysKeepsTotal DEF vars, table, hist, ServiceStays, SameFlags
  <2> QED  BY <2>1, TotalStep
<1>3. AvailInv => TotalIsAvailable
  BY DEF AvailInv, Available, TotalIsAvailable
<1> QED  BY <1>1, <1>2, <1>3, SlotsAreInvariant, PTL DEF Spec
=============================================================================
