----------------------------- MODULE WorkerOffer -----------------------------
(***************************************************************************)
(* Slots that a worker offers by itself (worker/pkg/manager/slotmgr.go) to  *)
(* the controllers that asked it (manager/remote/slotbyworkeroffer.go), and *)
(* the tasks that then come to the worker (worker/pkg/manager/manager.go).  *)
(* A controller opens a connection to query slots; the worker keeps the     *)
(* connections it did not refuse, offers them what it has, waits for the    *)
(* answer how much is consumed, and books that until the tasks come or do   *)
(* not come in time.                                                        *)
(*                                                                         *)
(* One worker; every controller is on a machine of its own.  A connection is *)
(* a controller and a number.  The priority of a query depends on how many  *)
(* other workers serve the controller: any.  Times are left out: what waits *)
(* for a time may happen whenever it waits.  "dead" and "disabled" are one. *)
(***************************************************************************)
EXTENDS Integers, Sequences, FiniteSets, FiniteSetsExt, Functions

CONSTANTS
    Client,     \* Controllers
    Priority(_),    \* The priorities a controller may query with
    PriorityHight,  \* The highest of them
    Available,  \* currentAvailableSlotCPU, as if it were not measured
    MaxClient,  \* maxClient
    MaxAsk(_),  \* Bound: jobs of each controller
    MaxConn(_), \* Bound: connections of each controller
    MaxEvent    \* Bound: restarts, workers disabled, connections that fail or are opened
                \* again, slots given up, tasks without a slot

ASSUME OfferAssumption ==
    /\ IsFiniteSet(Client) /\ PriorityHight \in Nat
    /\ \A c \in Client : Priority(c) # {} /\ Priority(c) \subseteq 1..PriorityHight
    /\ Available \in Nat \ {0} /\ MaxClient \in Nat \ {0}
    /\ \A c \in Client : MaxAsk(c) \in Nat /\ MaxConn(c) \in Nat
    /\ MaxEvent \in Nat

Conn == UNION {{c} \X (1..MaxConn(c)) : c \in Client}

VARIABLES
    ctl,        \* The worker, as each controller has it, and the waiting jobs
    asked, granted, \* Jobs asked for; those with a slot, whose task has not come
    results,    \* slotChan of each controller, and what is on its way to it
    acks,       \* Answers on their way to the worker, by connection
    open,       \* Connections neither side has closed
    prio,       \* The priority of the query by each connection
    reading,    \* Connections a goroutine of their controller reads from
    deal,       \* Queries the worker deals with
    clients,    \* clientCache
    slots,      \* slotCache
    booked,     \* bookedSlotNum
    load, est,  \* How far estimateSlot is: what it has read so far, then its offers
    got, note,  \* Tasks received: not counted yet, not yet taken off the slots
    running, waiting,   \* curjobs, buffedcmds
    events,
    extra,      \* History: tasks of each controller that came without a slot
    raced, astray   \* History, see the properties

controllers == <<ctl, asked, granted>>
net == <<results, acks, open, prio, reading>>
worker == <<deal, clients, slots, booked, load, est>>
tasks == <<got, note, running, waiting, extra>>
offerVars == <<controllers, net, worker, tasks, events, raced, astray>>

Unread == [step |-> 0, running |-> 0, booked |-> 0]
Resting == [pc |-> "idle", avail |-> 0, excludes |-> {}, conn |-> <<>>, num |-> 0,
            read |-> 0]
Total(f) == SumFunctionOnSet(f, Client)

OfferInit ==
    /\ ctl = [c \in Client |-> [status |-> "init", disabled |-> FALSE, conn |-> 0, opened |-> 0,
                                waiting |-> 0, empty |-> FALSE]]
    /\ asked = [c \in Client |-> 0] /\ granted = asked /\ note = asked /\ extra = asked
    /\ results = [c \in Client |-> <<>>] /\ acks = [k \in Conn |-> <<>>] /\ open = {} /\ reading = {}
    /\ prio = [k \in Conn |-> Min(Priority(k[1]))]
    /\ deal = [k \in Conn |-> "none"] /\ clients = <<>> /\ slots = <<>> /\ booked = 0
    /\ load = Unread /\ est = Resting
    /\ got = 0 /\ running = 0 /\ waiting = 0
    /\ events = 0 /\ raced = FALSE /\ astray = FALSE

Event == events < MaxEvent /\ events' = events + 1

-----------------------------------------------------------------------------
(* The controller.                                                         *)

\* resetSlot: the connection is closed and the worker may be queried again.
ResetSlot(w) == [w EXCEPT !.conn = 0, !.status = "init"]
WithoutConn(c) == open \ {<<c, ctl[c].conn>>}

\* getSlot: a job asks for a slot.
GetSlot(c) ==
    /\ asked[c] < MaxAsk(c) /\ asked' = [asked EXCEPT ![c] = @ + 1]
    /\ IF ctl[c].disabled THEN UNCHANGED ctl    \* To local
       ELSE ctl' = [ctl EXCEPT ![c].waiting = @ + 1]
    /\ UNCHANGED <<granted, net, worker, tasks, events, raced, astray>>

\* querySlot, at the first job and then at every tick while jobs wait.  A
\* worker that refused is tried again after a time.
QuerySlot(c) ==
    /\ ctl[c].waiting > 0 /\ ~ctl[c].disabled /\ ctl[c].status \in {"init", "refused"}
    /\ ctl[c].opened < MaxConn(c)
    /\ \/ /\ IF ctl[c].opened = 0 THEN UNCHANGED events ELSE Event
          /\ ctl' = [ctl EXCEPT ![c].conn = ctl[c].opened + 1, ![c].opened = @ + 1,
                                ![c].status = "detectsucceed"]
          /\ open' = WithoutConn(c) \cup {<<c, ctl[c].opened + 1>>}
          /\ reading' = reading \cup {<<c, ctl[c].opened + 1>>}
          /\ deal' = [deal EXCEPT ![<<c, ctl[c].opened + 1>>] = "check"]
          /\ \E p \in Priority(c) : prio' = [prio EXCEPT ![<<c, ctl[c].opened + 1>>] = p]
       \/ /\ Event
          /\ ctl' = [ctl EXCEPT ![c].conn = 0, ![c].status = "detectfailed"]
          /\ open' = WithoutConn(c)
          /\ UNCHANGED <<prio, reading, deal>>
    /\ UNCHANGED <<asked, granted, results, acks, clients, slots, booked, load, est, tasks, raced,
                   astray>>

\* The goroutine that reads a connection finds it closed.
ConnError(k) ==
    /\ k \in reading /\ k \notin open
    /\ reading' = reading \ {k}
    /\ results' = [results EXCEPT ![k[1]] = Append(@, [kind |-> "error", conn |-> k[2], num |-> 0])]
    /\ UNCHANGED <<controllers, acks, open, prio, worker, tasks, events, raced, astray>>

\* onSlotResult and consumeSlot.  The result names the worker, not the
\* connection it came by: one of an earlier connection is taken all the same.
OnSlotResult(c) ==
    /\ results[c] # <<>>
    /\ results' = [results EXCEPT ![c] = Tail(@)]
    /\ LET r == Head(results[c])
           consumed == Min({r.num, ctl[c].waiting})
       IN  \/ /\ ctl[c].conn = 0
              /\ UNCHANGED <<ctl, granted, open, acks, astray>>
           \/ /\ ctl[c].conn # 0 /\ r.kind = "refused"
              /\ ctl' = [ctl EXCEPT ![c].status = "refused"]
              /\ UNCHANGED <<granted, open, acks, astray>>
           \/ /\ ctl[c].conn # 0 /\ r.kind = "error"
              /\ ctl' = [ctl EXCEPT ![c] = ResetSlot(@)] /\ open' = WithoutConn(c)
              /\ UNCHANGED <<granted, acks, astray>>
           \/ /\ ctl[c].conn # 0 /\ r.kind = "offer"
              /\ ctl' = [ctl EXCEPT ![c].status = "inservice", ![c].waiting = @ - consumed]
              /\ granted' = [granted EXCEPT ![c] = @ + consumed]
              /\ acks' = [acks EXCEPT ![<<c, ctl[c].conn>>] = Append(@, consumed)]
              /\ astray' = (astray \/ r.conn # ctl[c].conn)
              /\ UNCHANGED open
    /\ UNCHANGED <<asked, prio, reading, worker, tasks, events, raced>>

\* jobCheck: jobs that waited too long go to local, from the front.
JobCheck(c) ==
    /\ ctl[c].waiting > 0
    /\ ctl' = [ctl EXCEPT ![c].waiting = @ - 1]
    /\ UNCHANGED <<asked, granted, net, worker, tasks, events, raced, astray>>

DisableWorker(c) ==
    /\ MaxConn(c) > 1 /\ Event /\ ~ctl[c].disabled
    /\ ctl' = [ctl EXCEPT ![c] = [ResetSlot(@) EXCEPT !.disabled = TRUE, !.empty = TRUE]]
    /\ open' = WithoutConn(c)
    /\ UNCHANGED <<asked, granted, results, acks, prio, reading, worker, tasks, raced, astray>>

EnableWorker(c) ==
    /\ ctl[c].disabled
    /\ ctl' = [ctl EXCEPT ![c].disabled = FALSE, ![c].status = "init"]
    /\ UNCHANGED <<asked, granted, net, worker, tasks, events, raced, astray>>

OnSlotEmpty(c) ==
    /\ ctl[c].empty
    /\ ctl' = [ctl EXCEPT ![c].empty = FALSE, ![c].waiting = 0]
    /\ UNCHANGED <<asked, granted, net, worker, tasks, events, raced, astray>>

\* A job with a slot never sends its task.
GiveUp(c) ==
    /\ Event
    /\ granted[c] > 0 /\ granted' = [granted EXCEPT ![c] = @ - 1]
    /\ UNCHANGED <<ctl, asked, net, worker, tasks, raced, astray>>

-----------------------------------------------------------------------------
(* The worker: its clients.                                                *)

\* dealQuerySlotCmd looks for a reason to refuse; the client is added later.
\* A client that is known is refused, but its first entry may rise in priority.
High(p) == p = PriorityHight
Entries(c) == {i \in DOMAIN clients : clients[i].conn[1] = c}
Refused(k) ==
    IF High(prio[k]) THEN \E i \in DOMAIN clients : High(clients[i].priority)
    ELSE Len(clients) >= MaxClient \/ Entries(k[1]) # {}

DealQuerySlot(k) ==
    /\ deal[k] = "check"
    /\ \/ /\ ~Refused(k)
          /\ deal' = [deal EXCEPT ![k] = "append"]
          /\ UNCHANGED <<clients, results>>
       \/ /\ Refused(k)
          /\ deal' = [deal EXCEPT ![k] = "refused"]
          /\ results' = [results EXCEPT ![k[1]] =
                           Append(@, [kind |-> "refused", conn |-> k[2], num |-> 0])]
          /\ clients' = IF High(prio[k]) \/ Entries(k[1]) = {} THEN clients
                        ELSE [clients EXCEPT ![Min(Entries(k[1]))].priority = Max({@, prio[k]})]
    /\ UNCHANGED <<controllers, acks, open, prio, reading, slots, booked, load, est, tasks, events,
                   raced, astray>>

\* clientLock is held by estimateSlot as long as it waits for an answer.
AppendClient(k) ==
    /\ deal[k] = "append" /\ est.pc # "ack"
    /\ deal' = [deal EXCEPT ![k] = "done"]
    /\ clients' = Append(clients, [conn |-> k, priority |-> prio[k]])
    /\ UNCHANGED <<controllers, net, slots, booked, load, est, tasks, events, raced, astray>>

\* A refused connection is closed after a minute.
CloseRefused(k) ==
    /\ deal[k] = "refused"
    /\ deal' = [deal EXCEPT ![k] = "done"] /\ open' = open \ {k}
    /\ UNCHANGED <<controllers, results, acks, prio, reading, clients, slots, booked, load, est,
                   tasks, events, raced, astray>>

\* cleanSlot and checkClient build the list anew: what is at the indices I stays.
Kept(s, I) ==
    LET upTo[i \in 0..Len(s)] ==
          IF i = 0 THEN <<>> ELSE IF i \in I THEN Append(upTo[i - 1], s[i]) ELSE upTo[i - 1]
    IN  upTo[Len(s)]

\* What is promised to c and not yet there.
Promised(c) == granted[c] + note[c]

\* Slots are taken from slotCache, and from bookedSlotNum; estimateSlot may
\* have read that and not written it yet.
UnbookMutant(gone) ==
    /\ slots' = Kept(slots, DOMAIN slots \ gone)
    /\ booked' = Max({booked - Cardinality(gone), 0})
    /\ raced' = (raced \/ est.pc = "write")
    /\ astray' = (astray \/ \E i \in gone : Promised(slots[i].conn[1]) > 0)
Unbook(gone) ==
    LET num == SumFunctionOnSet([i \in DOMAIN slots |-> slots[i].num], gone)
    IN  /\ slots' = Kept(slots, DOMAIN slots \ gone)
        /\ booked' = Max({booked - num, 0})
        /\ raced' = (raced \/ est.pc = "write")
        /\ astray' = (astray \/ \E i \in gone : Promised(slots[i].conn[1]) > 0)

\* checkClient: closed connections are forgotten, with their slots.
CheckClient ==
    /\ est.pc # "ack"
    /\ \E i \in DOMAIN clients : clients[i].conn \notin open
    /\ clients' = Kept(clients, {i \in DOMAIN clients : clients[i].conn \in open})
    /\ LET closed == {clients[i].conn : i \in {i \in DOMAIN clients : clients[i].conn \notin open}}
           gone == {i \in DOMAIN slots : slots[i].conn \in closed}
       IN  IF gone # {} THEN Unbook(gone) ELSE UNCHANGED <<slots, booked, raced, astray>>
    /\ UNCHANGED <<controllers, net, deal, load, est, tasks, events>>

\* checkSlot: the task of a slot did not come in time.
CheckSlot ==
    /\ \E i \in DOMAIN slots : Unbook({i})
    /\ UNCHANGED <<controllers, net, deal, clients, load, est, tasks, events>>

-----------------------------------------------------------------------------
(* The worker: estimateSlot, in its own goroutine.                         *)

\* curjobs, bookedSlotNum and buffedcmds are read one after another, with no
\* lock, in the order of the text.
EstimateSlot ==
    /\ \/ /\ load.step = 0 /\ est.pc = "idle"
          /\ load' = [load EXCEPT !.step = 1, !.running = running]
          /\ UNCHANGED <<est, astray>>
       \/ /\ load.step = 1
          /\ load' = [load EXCEPT !.step = 2, !.booked = booked]
          /\ UNCHANGED <<est, astray>>
       \/ /\ load.step = 2
          /\ load' = Unread
          /\ LET avail == Available - load.running - load.booked - waiting
             IN  \/ avail <= 0 /\ UNCHANGED <<est, astray>>
                 \/ /\ avail > 0
                    /\ est' = [Resting EXCEPT !.pc = "select", !.avail = avail]
                    /\ astray' = (astray \/ running > load.running \/ got > Total(note))
    /\ UNCHANGED <<controllers, net, deal, clients, slots, booked, tasks, events, raced>>

\* The first client of the highest priority that was not asked yet gets an
\* offer.  One whose connection is closed is passed over.
SelectClient ==
    /\ est.pc = "select"
    /\ LET left == {i \in DOMAIN clients : clients[i].conn \notin est.excludes}
           first == CHOOSE i \in left : \A j \in left \ {i} :
                      \/ clients[i].priority > clients[j].priority
                      \/ clients[i].priority = clients[j].priority /\ i < j
           k == clients[first].conn
       IN  \/ /\ left = {}
              /\ est' = Resting
              /\ UNCHANGED results
           \/ /\ left # {}
              /\ est' = IF k \in open
                        THEN [est EXCEPT !.pc = "ack", !.conn = k, !.excludes = @ \cup {k}]
                        ELSE [est EXCEPT !.excludes = @ \cup {k}]
              /\ results' = IF k \in open
                             THEN [results EXCEPT ![k[1]] = Append(@,
                                     [kind |-> "offer", conn |-> k[2], num |-> est.avail])]
                             ELSE results
    /\ UNCHANGED <<controllers, acks, open, prio, reading, deal, clients, slots, booked, load,
                   tasks, events, raced, astray>>

NextClientMutant(consumed) == [est EXCEPT !.pc = "select", !.conn = <<>>, !.num = 0]
NextClient(consumed) ==
    [est EXCEPT !.pc = "select", !.avail = @ - consumed, !.conn = <<>>, !.num = 0]

\* The answer of the client; or its connection is closed, and the answer may be
\* lost; or it cannot be read, and the worker closes the connection, over which
\* the client may still take the offer.
ReceiveAck ==
    /\ est.pc = "ack"
    /\ LET k == est.conn
           lost == \E i \in DOMAIN acks[k] : acks[k][i] > 0
           offered == \E i \in DOMAIN results[k[1]] :
                        results[k[1]][i].kind = "offer" /\ results[k[1]][i].conn = k[2]
       IN  \/ /\ acks[k] # <<>>
              /\ acks' = [acks EXCEPT ![k] = Tail(@)]
              /\ est' = IF Head(acks[k]) > 0 THEN [est EXCEPT !.pc = "book", !.num = Head(acks[k])]
                        ELSE NextClient(0)
              /\ UNCHANGED <<open, events, astray>>
           \/ /\ k \notin open
              /\ acks' = [acks EXCEPT ![k] = <<>>]
              /\ est' = NextClient(0)
              /\ astray' = (astray \/ lost)
              /\ UNCHANGED <<open, events>>
           \/ /\ k \in open /\ Event
              /\ open' = open \ {k} /\ acks' = [acks EXCEPT ![k] = <<>>]
              /\ est' = NextClient(0)
              /\ astray' = (astray \/ lost \/ offered)
    /\ UNCHANGED <<controllers, results, prio, reading, deal, clients, slots, booked, load, tasks,
                   raced>>

\* bookedSlotNum += consumed, which takes no lock: what others write between
\* the read and the write is lost.  Then the slots are recorded.
Book ==
    /\ \/ /\ est.pc = "book"
          /\ est' = [est EXCEPT !.pc = "write", !.read = booked]
          /\ UNCHANGED <<slots, booked>>
       \/ /\ est.pc = "write"
          /\ booked' = est.read + est.num
          /\ est' = [est EXCEPT !.pc = "record", !.read = 0]
          /\ UNCHANGED slots
       \/ /\ est.pc = "record"
          /\ slots' = Append(slots, [conn |-> est.conn, num |-> est.num])
          /\ est' = IF est.avail > est.num THEN NextClient(est.num) ELSE Resting
          /\ UNCHANGED booked
    /\ UNCHANGED <<controllers, net, deal, clients, load, tasks, events, raced, astray>>

-----------------------------------------------------------------------------
(* The worker: tasks.                                                      *)

\* dealRemoteTaskCmd: onTaskReceived goes its own way.  The worker does not ask
\* whether the task has a slot.
ReceiveTask(c) ==
    /\ \/ /\ granted[c] > 0 /\ granted' = [granted EXCEPT ![c] = @ - 1]
          /\ UNCHANGED <<extra, events>>
       \/ /\ Event /\ extra' = [extra EXCEPT ![c] = @ + 1]
          /\ UNCHANGED granted
    /\ note' = [note EXCEPT ![c] = @ + 1] /\ got' = got + 1
    /\ UNCHANGED <<ctl, asked, net, worker, running, waiting, raced, astray>>

\* The first slot of the same machine is used up, even by a task that came
\* without one; if there is none the task uses none.
OnTaskReceived(c) ==
    /\ note[c] > 0 /\ note' = [note EXCEPT ![c] = @ - 1]
    /\ LET mine == {i \in DOMAIN slots : slots[i].conn[1] = c}
           i == Min(mine)
       IN  IF mine = {} THEN UNCHANGED <<slots, booked, raced>>
           ELSE /\ slots' = IF slots[i].num > 1 THEN [slots EXCEPT ![i].num = @ - 1]
                            ELSE Kept(slots, DOMAIN slots \ {i})
                /\ booked' = Max({booked - 1, 0})
                /\ raced' = (raced \/ est.pc = "write")
    /\ UNCHANGED <<controllers, net, deal, clients, load, est, got, running, waiting, extra, events,
                   astray>>

\* obtainChance: the task runs, or appendcmd: it waits.
ObtainChance ==
    /\ got > 0 /\ got' = got - 1
    /\ \/ running' = running + 1 /\ UNCHANGED waiting
       \/ waiting' = waiting + 1 /\ UNCHANGED running
    /\ UNCHANGED <<controllers, net, worker, note, extra, events, raced, astray>>

FreeChance ==
    /\ running > 0 /\ running' = running - 1
    /\ UNCHANGED <<controllers, net, worker, got, note, waiting, extra, events, raced, astray>>

\* checkCmds, one task at a time.  In between it is counted twice, never not at all.
CheckCmds ==
    /\ waiting > 0 /\ waiting' = waiting - 1 /\ running' = running + 1
    /\ UNCHANGED <<controllers, net, worker, got, note, extra, events, raced, astray>>

\* The worker is started again and knows nothing any more.
Restart ==
    /\ Event
    /\ open' = {} /\ deal' = [k \in Conn |-> IF deal[k] = "none" THEN "none" ELSE "done"]
    /\ clients' = <<>> /\ slots' = <<>> /\ booked' = 0
    /\ load' = Unread /\ est' = Resting
    /\ acks' = [k \in Conn |-> <<>>]
    /\ note' = [c \in Client |-> 0] /\ got' = 0 /\ running' = 0 /\ waiting' = 0
    /\ astray' = (astray \/ Total(granted) > 0 \/ (\E k \in Conn : acks[k] # <<>>)
                      \/ \E c \in Client : \E i \in DOMAIN results[c] : results[c][i].kind = "offer")
    /\ UNCHANGED <<controllers, results, prio, reading, extra, raced>>

-----------------------------------------------------------------------------

OfferNext ==
    \/ \E c \in Client : GetSlot(c) \/ QuerySlot(c) \/ OnSlotResult(c) \/ JobCheck(c)
                         \/ DisableWorker(c) \/ EnableWorker(c) \/ OnSlotEmpty(c)
                         \/ GiveUp(c) \/ ReceiveTask(c) \/ OnTaskReceived(c)
    \/ \E k \in Conn : ConnError(k) \/ DealQuerySlot(k) \/ AppendClient(k) \/ CloseRefused(k)
    \/ CheckClient \/ CheckSlot
    \/ EstimateSlot \/ SelectClient \/ ReceiveAck \/ Book
    \/ ObtainChance \/ FreeChance \/ CheckCmds \/ Restart

OfferSpec == OfferInit /\ [][OfferNext]_offerVars

-----------------------------------------------------------------------------
(* Properties.  raced: a slot was given back while estimateSlot was between *)
(* reading and writing bookedSlotNum, which takes no lock.  astray: the      *)
(* worker does not count a promise as it should: an answer was lost or went  *)
(* to another connection, or its connection was closed by the worker with an *)
(* offer under way; slots were given up though their tasks come; a task was  *)
(* between the two halves of being received, or began to run, while an       *)
(* estimate was read; or the worker was started again.                      *)

\* The count of the booked slots is what the booked slots add up to, whatever
\* tasks, timeouts and closed connections take from both.
BookedIsExact ==
    raced \/ est.pc = "record"
    \/ booked = SumFunctionOnSet([i \in DOMAIN slots |-> slots[i].num], DOMAIN slots)

\* The worker promises no more than it has: what runs, what waits and what the
\* controllers still may send to their slots fits in, however offers, answers and
\* tasks overtake each other.  The comment at slotmgr.go:46 names one way round
\* the count: a task without a slot takes the slot of another of its controller,
\* which is then offered again.  Each such task costs one slot and no more.
PromisesAreKept ==
    raced \/ astray
    \/ running + waiting + got + Total(granted) <= Available + Total(extra)
=============================================================================
