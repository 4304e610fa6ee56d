------------------------------- MODULE Keeper -------------------------------
(***************************************************************************)
(* The heartbeats of the clients and the keeper that fails a task whose    *)
(* client is lost (normal/keeper.go, layer.go updateHeartbeat).  A beat is *)
(* stored in the cache only; the row of the task has the beat of the last  *)
(* update, and that is what a server finds when it becomes master.  So the *)
(* keeper first sleeps, then waits until the clients have had the time to  *)
(* find the new master.                                                    *)
(*                                                                         *)
(* Time is discrete; a unit is a time in which a connected client sends at *)
(* least one heartbeat and no handler holds a copy of a task for longer.   *)
(* What else the keeper does, and how the task goes on, is module          *)
(* TaskManager's.                                                          *)
(***************************************************************************)
EXTENDS Naturals

CONSTANTS
    Watched,    \* The tasks whose clients the keeper watches
    Timeout,    \* HeartbeatTimeoutTickTimes * clientHeartBeatTickTime, in units
    Grace,      \* keeperFirstStartGraceTime
    Wait,       \* waitHeartBeatRecoverInterval
    Reconnect,  \* Time a client needs to find the new master
    MaxTime,    \* Bound on the time of a behaviour
    MaxTerm,    \* Bound on the terms of one process as master
    MaxCrash,   \* Bound on the crashes
    MaxWrite,   \* Updates of a task by the other handlers in a term
    None

ASSUME KeeperAssumption ==
    /\ Timeout \in Nat /\ Grace \in Nat /\ Wait \in Nat /\ Reconnect \in Nat
    /\ MaxTime \in Nat /\ MaxTerm \in Nat \ {0}
    /\ MaxCrash \in Nat /\ MaxWrite \in Nat
    /\ None \notin Nat

\* The times under which the keeper may tell a live client from a lost one.  An
\* update that puts back a copy of the task keeps an old heartbeat for two units
\* at most, as its copy was taken before the heartbeat of one unit and put back
\* after that of the next.
Intervals ==
    /\ Grace <= Wait
    /\ 2 <= Reconnect
    /\ Reconnect + 2 * MaxWrite <= Wait
    /\ 2 * MaxWrite + 1 <= Timeout

VARIABLES
    now,
    up,         \* The server is master; k.ctx is not cancelled
    term,       \* Terms begun by this process
    startTime,  \* k.startTime
    recovered,  \* k.heartBeatRecovered
    keeper,     \* The goroutine of each term: "none", "sleep", "work"
    wake,       \* When the goroutine of each term wakes up
    beat,       \* LastHeartBeatTime in the cache
    row,        \* LastHeartBeatTime in the database
    copy,       \* The beat in the copy some handler holds, with the time it took it
    writes,     \* Updates begun in this term
    failed,     \* The keeper failed the task
    client,     \* "alive" or "dead"
    sent,       \* The client sent a heartbeat in this unit
    crashes

srv == <<up, term, startTime, recovered, keeper, wake>>
keeperVars == <<now, srv, beat, row, copy, writes, failed, client, sent, crashes>>

KeeperInit ==
    /\ now = 0 /\ up = FALSE /\ term = 0 /\ startTime = 0 /\ recovered = FALSE
    /\ keeper = [k \in 1..MaxTerm |-> "none"]
    /\ wake = [k \in 1..MaxTerm |-> 0]
    /\ beat = [t \in Watched |-> 0] /\ row = [t \in Watched |-> 0]
    /\ copy = [t \in Watched |-> None]
    /\ writes = [t \in Watched |-> 0]
    /\ failed = [t \in Watched |-> FALSE]
    /\ client = [t \in Watched |-> "alive"]
    /\ sent = [t \in Watched |-> FALSE]
    /\ crashes = 0

-----------------------------------------------------------------------------
(* The server: manager.start (recover, keeper.Run), manager.stop, a crash. *)

Start ==
    /\ ~up /\ term < MaxTerm
    /\ up' = TRUE
    /\ term' = term + 1
    /\ startTime' = now
    /\ beat' = row
    /\ keeper' = [keeper EXCEPT ![term'] = "sleep"]
    /\ wake' = [wake EXCEPT ![term'] = now + Grace]
    /\ writes' = [t \in Watched |-> 0]
    /\ UNCHANGED <<now, recovered, row, copy, failed, client, sent, crashes>>

Stop ==
    /\ up
    /\ term < MaxTerm
    /\ up' = FALSE
    /\ UNCHANGED <<now, term, startTime, recovered, keeper, wake, beat, row, copy,
                   writes, failed, client, sent, crashes>>

Crash ==
    /\ crashes < MaxCrash
    /\ crashes' = crashes + 1
    /\ up' = FALSE /\ term' = 0 /\ startTime' = 0 /\ recovered' = FALSE
    /\ keeper' = [k \in 1..MaxTerm |-> "none"]
    /\ wake' = [k \in 1..MaxTerm |-> 0]
    /\ copy' = [t \in Watched |-> None]
    /\ UNCHANGED <<now, beat, row, writes, failed, client, sent>>

-----------------------------------------------------------------------------
(* The clients, as the server sees them. *)

Connected == up /\ now >= startTime + Reconnect

UpdateHeartbeat(t) ==
    /\ up /\ client[t] = "alive"
    /\ ~sent[t]
    /\ beat' = [beat EXCEPT ![t] = now]
    /\ sent' = [sent EXCEPT ![t] = TRUE]
    /\ UNCHANGED <<now, srv, row, copy, writes, failed, client, crashes>>

ClientLost(t) ==
    /\ client[t] = "alive"
    /\ client' = [client EXCEPT ![t] = "dead"]
    /\ UNCHANGED <<now, srv, beat, row, copy, writes, failed, sent, crashes>>

-----------------------------------------------------------------------------
(* A handler that updates a task that goes on: the copy of GetTaskBasic    *)
(* replaces the cache entry, and with it a heartbeat that came in between. *)
(* There are three in the life of a task, the end of its creation, the     *)
(* launch of the picker and the start of the tracker (or of the keeper);   *)
(* a server that recovers an older row may make them again.                *)

Get(t) ==
    /\ up /\ copy[t] = None /\ ~failed[t]
    /\ writes[t] < MaxWrite
    /\ copy' = [copy EXCEPT ![t] = <<beat[t], now>>]
    /\ writes' = [writes EXCEPT ![t] = @ + 1]
    /\ UNCHANGED <<now, srv, beat, row, failed, client, sent, crashes>>

Update(t) ==
    /\ copy[t] # None
    /\ beat' = [beat EXCEPT ![t] = copy[t][1]]
    /\ row' = [row EXCEPT ![t] = copy[t][1]]
    /\ copy' = [copy EXCEPT ![t] = None]
    /\ UNCHANGED <<now, srv, writes, failed, client, sent, crashes>>

-----------------------------------------------------------------------------
(* keeper.start and keeper.check *)

\* The sleep does not look at the context, and k.ctx is that of the last Run:
\* a goroutine of an earlier term can go on in a later one.
Wake(k) ==
    /\ keeper[k] = "sleep"
    /\ now >= wake[k]
    /\ keeper' = [keeper EXCEPT ![k] = "work"]
    /\ UNCHANGED <<now, up, term, startTime, recovered, wake, beat, row, copy, writes,
                   failed, client, sent, crashes>>

Shutdown(k) ==
    /\ keeper[k] = "work"
    /\ ~up
    /\ keeper' = [keeper EXCEPT ![k] = "none"]
    /\ UNCHANGED <<now, up, term, startTime, recovered, wake, beat, row, copy, writes,
                   failed, client, sent, crashes>>

IsHeartBeatRecoveredMutant == TRUE  \* the clients are not waited for

IsHeartBeatRecovered == recovered \/ startTime + Wait < now

CheckMutant(k, t) ==  \* nothing is ever timed out
    /\ keeper[k] = "work"
    /\ copy[t] = None /\ ~failed[t]
    /\ IsHeartBeatRecovered
    /\ recovered' = TRUE
    /\ UNCHANGED <<now, up, term, startTime, keeper, wake, beat, row, copy, writes,
                   failed, client, sent, crashes>>

Check(k, t) ==
    /\ keeper[k] = "work"
    /\ copy[t] = None /\ ~failed[t]
    /\ IsHeartBeatRecovered
    /\ recovered' = TRUE
    /\ failed' = [failed EXCEPT ![t] = beat[t] + Timeout < now]
    /\ row' = [row EXCEPT ![t] = IF failed'[t] THEN beat[t] ELSE @]
    /\ UNCHANGED <<now, up, term, startTime, keeper, wake, beat, copy, writes,
                   client, sent, crashes>>

-----------------------------------------------------------------------------
(* Time passes when everybody did what he does within a unit: a connected  *)
(* client sent its heartbeat, a handler put what it got at least a unit    *)
(* ago, a keeper that slept long enough woke up, one without a role shut down.  *)
Tick ==
    /\ now < MaxTime
    /\ Connected => \A t \in Watched : client[t] = "alive" => sent[t]
    /\ \A t \in Watched : copy[t] # None => copy[t][2] = now
    /\ \A k \in 1..MaxTerm : /\ keeper[k] = "sleep" => now < wake[k]
                             /\ keeper[k] = "work" => up
    /\ now' = now + 1
    /\ sent' = [t \in Watched |-> FALSE]
    /\ UNCHANGED <<srv, beat, row, copy, writes, failed, client, crashes>>

KeeperNext ==
    \/ Start \/ Stop \/ Crash \/ Tick
    \/ \E t \in Watched : UpdateHeartbeat(t) \/ ClientLost(t) \/ Get(t) \/ Update(t)
    \/ \E k \in 1..MaxTerm :
         Wake(k) \/ Shutdown(k) \/ \E t \in Watched : Check(k, t)

KeeperSpec == KeeperInit /\ [][KeeperNext]_keeperVars

\* Clocks and goroutines go on.
KeeperFairSpec ==
    /\ KeeperSpec
    /\ WF_keeperVars(Tick)
    /\ \A t \in Watched : WF_keeperVars(UpdateHeartbeat(t)) /\ WF_keeperVars(Update(t))
    /\ \A k \in 1..MaxTerm : /\ WF_keeperVars(Wake(k)) /\ WF_keeperVars(Shutdown(k))
                               /\ \A t \in Watched : WF_keeperVars(Check(k, t))

-----------------------------------------------------------------------------
(* Properties. *)

\* Every variable keeps its shape; a beat is never later than the clock.
KeeperTypeOK ==
    /\ now \in 0..MaxTime /\ up \in BOOLEAN /\ term \in 0..MaxTerm
    /\ startTime \in 0..now /\ recovered \in BOOLEAN
    /\ keeper \in [1..MaxTerm -> {"none", "sleep", "work"}]
    /\ wake \in [1..MaxTerm -> 0..(MaxTime + Grace)]
    /\ beat \in [Watched -> 0..now] /\ row \in [Watched -> 0..now]
    /\ copy \in [Watched -> {None} \cup ((0..now) \X (0..now))]
    /\ writes \in [Watched -> 0..MaxWrite]
    /\ failed \in [Watched -> BOOLEAN] /\ client \in [Watched -> {"alive", "dead"}]
    /\ sent \in [Watched -> BOOLEAN] /\ crashes \in 0..MaxCrash

FailsAlive(t) == failed'[t] /\ ~failed[t] /\ client[t] = "alive"

\* A task whose client is alive and beats whenever it is connected is failed as
\* lost in no term of any process, whatever is recovered from stale rows and
\* whatever beats the updates of its handlers put back; with one exception:
\* heartBeatRecovered is never reset, so in a later term of a process the keeper
\* does not wait until the clients have found the new master (keeper.go:121).
LiveClientKept ==
    [][\A t \in Watched : FailsAlive(t) => term > 1 /\ now <= startTime + Wait]_keeperVars

\* A task whose client is lost is failed if the server stays up, in any term of
\* any process, also when the goroutine of an earlier term does the check; the
\* condition on `now' leaves the time for it in a behaviour of MaxTime units.
LostClientFailed ==
    \A t \in Watched :
      (/\ client[t] = "dead" /\ up
       /\ now + Wait + 1 <= MaxTime /\ now + Timeout + 1 <= MaxTime) ~> (failed[t] \/ ~up)
=============================================================================
