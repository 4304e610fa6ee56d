----------------------------- MODULE RemoteFiles -----------------------------
(***************************************************************************)
(* How the controller gets the tool chain and the input files of its jobs  *)
(* to one worker, each once (manager/remote/mgr.go).  Three caches say what *)
(* was sent, what failed, and how far a tool chain is; jobs find in them    *)
(* whether they must send or wait for another who does.  Two goroutines     *)
(* send again what failed, one more collects small files in batches when    *)
(* SendCork is set, and two events empty the caches: a worker that was      *)
(* restarted, and the release of all workers.                               *)
(*                                                                         *)
(* There is one input file, and a tool chain of one file, which is another  *)
(* file in every version: a version stands for its file too.  The file is   *)
(* none that was preprocessed (.i, .ii: not sent again), and the caches of   *)
(* the worker itself are not used (workerSideCache).                        *)
(***************************************************************************)
EXTENDS Integers, Sequences, FiniteSets, SequencesExt

CONSTANTS
    Job,
    Input,          \* The input file of all jobs
    FileRetrier, ToolRetrier,   \* The goroutines that send again what failed
    MaxVersion,     \* Bound: versions of the tool chain
    MaxEvent,       \* Bound: sends that fail, new tool chains, restarts and releases
    None

Version == 1..MaxVersion
File == {Input} \cup Version
Proc == Job \cup {FileRetrier, ToolRetrier}

ASSUME FilesAssumption ==
    /\ FileRetrier \notin Job /\ ToolRetrier \notin Job /\ FileRetrier # ToolRetrier
    /\ MaxVersion \in Nat \ {0} /\ MaxEvent \in Nat
    /\ Input \notin Nat
    /\ None \notin [ver: Version, status: {"sending", "ok", "failed", "none", "retcode", "error"}]

VARIABLES
    corking,    \* SendCork, which is set for the whole work
    sent,       \* fileSendMap of the worker: the status of each file
    fail,       \* failFileSendMap
    failMade,   \* The worker has an entry in failFileSendMap
    coll,       \* The tool chain in fileCollectionSendMap: version and status
    tool,       \* The version of the tool chain the work has now
    cork,       \* corkFiles: who waits for the next batch
    batches,    \* What is on its way: those whose files are sent together
    has,        \* The files the worker has
    noticed,    \* The caches were emptied since the worker was restarted
    cleaning,   \* How far cleanWorkerCache is
    proc,       \* What each caller does
    events,
    crossed, overlapped, refused    \* History, see the properties

caches == <<sent, fail, failMade, coll>>
net == <<cork, batches, has>>
hist == <<crossed, overlapped, refused>>
vars == <<corking, caches, tool, net, noticed, cleaning, proc, events, hist>>

AtRest == {"idle", "done", "failed"}
Terminated == {"ok", "failed"}
CollIs(S) == coll # None /\ coll.status \in S
Unsent == [f \in File |-> "none"]

Init ==
    /\ corking \in BOOLEAN
    /\ sent = Unsent /\ fail = Unsent /\ failMade = FALSE /\ coll = None
    /\ tool = 1
    /\ cork = <<>> /\ batches = {} /\ has = {}
    /\ noticed = TRUE /\ cleaning = 0
    /\ proc = [p \in Proc |-> [pc |-> "idle", file |-> None, ver |-> 0,
                               retry |-> FALSE, result |-> "none"]]
    /\ events = 0
    /\ crossed = FALSE /\ overlapped = FALSE /\ refused = FALSE

Event == events < MaxEvent /\ events' = events + 1

-----------------------------------------------------------------------------
(* Callers.                                                                *)

Goto(p, pc) == proc' = [proc EXCEPT ![p].pc = pc]

\* Where the answer about a file leads: to the status of the tool chain it
\* belongs to, or to the end of the call.
Return(p, ok) ==
    LET pc == IF proc[p].file = proc[p].ver THEN "toolupdate"
              ELSE IF p = FileRetrier THEN "idle"
              ELSE IF ok THEN "done" ELSE "failed"
    IN  proc' = [proc EXCEPT ![p].pc = pc, ![p].result = IF ok THEN "ok" ELSE "failed"]

\* A call that goes on between the steps of cleanWorkerCache.
Amid == crossed' = (crossed \/ cleaning # 0)

\* A job was given a slot of the worker: sendToolchain.
Start(j) ==
    /\ proc[j].pc = "idle" /\ j \in Job
    /\ proc' = [proc EXCEPT ![j].pc = "tool", ![j].ver = tool]
    /\ UNCHANGED <<corking, caches, tool, net, noticed, cleaning, events, hist>>

\* The sender of a tool chain goes on with its file; the retrier asks for a
\* retry of what is in failFileSendMap only.
SendCollection(p) ==
    proc' = [proc EXCEPT ![p].pc = "file", ![p].file = proc[p].ver,
               ![p].retry = p = ToolRetrier /\ fail[proc[p].ver] # "none"]

\* checkOrLockFileCollection: whoever finds no tool chain sends it; one that
\* failed is sent again by the retrier only.  Versions are not compared.
CheckFileCollection(p) ==
    /\ proc[p].pc = "tool"
    /\ \/ /\ coll = None \/ (p = ToolRetrier /\ CollIs({"failed"}))
          /\ coll' = [ver |-> IF coll = None THEN proc[p].ver ELSE coll.ver,
                      status |-> "sending"]
          /\ IF p = ToolRetrier /\ ~failMade
             THEN Goto(p, "idle")    \* An error, and the status stays
             ELSE SendCollection(p)
       \/ /\ coll # None /\ (p = ToolRetrier => ~CollIs({"failed"}))
          /\ Goto(p, "toolwait")
          /\ UNCHANGED coll
    /\ Amid
    /\ UNCHANGED <<corking, sent, fail, failMade, tool, net, noticed, cleaning, events,
                   overlapped, refused>>

\* A tool chain that is not in the cache any more is waited for as well.
WaitCollection(p) ==
    /\ proc[p].pc = "toolwait"
    /\ CollIs(Terminated)
    /\ Goto(p, IF p = ToolRetrier THEN "idle"
               ELSE IF coll.status = "ok" THEN "toolcheck" ELSE "failed")
    /\ Amid
    /\ UNCHANGED <<corking, caches, tool, net, noticed, cleaning, events, overlapped, refused>>

\* The caller is the sender of its file: alone, or with the next batch.
Sender(p) ==
    IF corking
    THEN Goto(p, "queued") /\ cork' = Append(cork, p) /\ UNCHANGED batches
    ELSE Goto(p, "send") /\ batches' = batches \cup {{p}} /\ UNCHANGED cork

CheckFileMutant(p) ==  \* a retry does not mark the file as being sent
    /\ proc[p].pc = "file"
    /\ LET f == proc[p].file
       IN  \/ /\ ~proc[p].retry /\ sent[f] = "none"
              /\ sent' = [sent EXCEPT ![f] = "sending"]
              /\ Sender(p)
              /\ UNCHANGED <<fail, failMade>>
           \/ /\ proc[p].retry /\ fail[f] = "failed"
              /\ Sender(p)
              /\ UNCHANGED <<sent, fail, failMade>>
           \/ /\ IF proc[p].retry THEN fail[f] # "failed" ELSE sent[f] # "none"
              /\ Goto(p, "filewait")
              /\ UNCHANGED <<sent, fail, failMade, cork, batches>>
    /\ UNCHANGED <<corking, coll, tool, has, noticed, cleaning, events, hist>>

\* ensureSingleFile and checkAndSendCorkFiles: matchOrInsert in what was sent,
\* or matchFail in what failed.
CheckFile(p) ==
    /\ proc[p].pc = "file"
    /\ LET f == proc[p].file
       IN  \/ /\ ~proc[p].retry /\ sent[f] = "none"
              /\ sent' = [sent EXCEPT ![f] = "sending"]
              /\ Sender(p)
              /\ UNCHANGED <<fail, failMade>>
           \/ /\ ~proc[p].retry /\ sent[f] # "none"
              /\ Goto(p, "filewait")
              /\ UNCHANGED <<sent, fail, failMade, cork, batches>>
           \/ /\ proc[p].retry /\ fail[f] = "failed"
              /\ fail' = [fail EXCEPT ![f] = "sending"]
              /\ Sender(p)
              /\ UNCHANGED <<sent, failMade>>
           \/ /\ proc[p].retry /\ fail[f] # "failed"
              /\ failMade' = TRUE
              /\ IF fail[f] = "none" THEN Return(p, FALSE) ELSE Goto(p, "filewait")
              /\ UNCHANGED <<sent, fail, cork, batches>>
    /\ UNCHANGED <<corking, coll, tool, has, noticed, cleaning, events, hist>>

\* A file that is not in the cache any more counts as failed.
WaitFile(p) ==
    /\ proc[p].pc = "filewait"
    /\ LET status == IF proc[p].retry THEN fail[proc[p].file] ELSE sent[proc[p].file]
       IN  status # "sending" /\ Return(p, status = "ok")
    /\ UNCHANGED <<corking, caches, tool, net, noticed, cleaning, events, hist>>

-----------------------------------------------------------------------------
(* Sending.                                                                *)

\* getCorkFiles takes as many as its limits of size allow.
SendCork ==
    /\ cork # <<>>
    /\ \E n \in 1..Len(cork) :
         LET S == {cork[i] : i \in 1..n}
         IN  /\ cork' = SubSeq(cork, n + 1, Len(cork))
             /\ batches' = batches \cup {S}
             /\ proc' = [p \in Proc |-> IF p \in S THEN [proc[p] EXCEPT !.pc = "send"]
                                                   ELSE proc[p]]
    /\ UNCHANGED <<corking, caches, tool, has, noticed, cleaning, events, hist>>

\* The worker has the files; or it answers that it could not take them
\* (retcode); or the call fails, whatever the worker has.
Send(S) ==
    LET files == {proc[p].file : p \in S}
    IN  /\ S \in batches /\ batches' = batches \ {S}
        /\ \E r \in {"ok", "retcode", "error"} :
             /\ proc' = [p \in Proc |-> IF p \in S THEN [proc[p] EXCEPT !.pc = "update", !.result = r]
                                                   ELSE proc[p]]
             /\ \/ r = "ok" /\ has' = has \cup files /\ UNCHANGED <<events, refused>>
                \/ /\ r # "ok" /\ Event
                   /\ \E D \in {{}, files} : (D # {} => r = "error") /\ has' = has \cup D
                   /\ refused' = (refused \/ (corking /\ r = "retcode"))
        /\ UNCHANGED <<corking, caches, tool, cork, noticed, cleaning, crossed, overlapped>>

\* A batch that was refused is recorded as sent: only its callers learn.
Status(p) ==
    IF proc[p].result = "ok" \/ (corking /\ proc[p].result = "retcode") THEN "ok" ELSE "failed"

NeedToUpdateFailMutant(p) ==  \* what failed is not updated when it was sent again
    Status(p) = "failed"

NeedToUpdateFail(p) ==
    Status(p) = "failed" \/ proc[p].retry

\* updateSendFile: what was sent, and then what failed.
UpdateSendFile(p) ==
    /\ proc[p].pc = "update"
    /\ IF Status(p) = "ok" \/ ~proc[p].retry
       THEN sent' = [sent EXCEPT ![proc[p].file] = Status(p)] ELSE UNCHANGED sent
    /\ IF NeedToUpdateFail(p) THEN Goto(p, "updatefail") ELSE Return(p, proc[p].result = "ok")
    /\ UNCHANGED <<corking, fail, failMade, coll, tool, net, noticed, cleaning, events, hist>>

UpdateFail(p) ==
    /\ proc[p].pc = "updatefail"
    /\ fail' = [fail EXCEPT ![proc[p].file] = Status(p)] /\ failMade' = TRUE
    /\ Return(p, proc[p].result = "ok")
    /\ UNCHANGED <<corking, sent, coll, tool, net, noticed, cleaning, events, hist>>

-----------------------------------------------------------------------------
(* The tool chain.                                                         *)

UpdateFileCollectionStatusMutant(p) ==  \* recorded as sent whatever came of it
    /\ proc[p].pc = "toolupdate"
    /\ coll' = [ver |-> IF coll = None THEN proc[p].ver ELSE coll.ver, status |-> "ok"]
    /\ Goto(p, IF p = ToolRetrier THEN "idle"
               ELSE IF proc[p].result = "ok" THEN "toolcheck" ELSE "failed")
    /\ UNCHANGED <<corking, sent, fail, failMade, tool, net, noticed, cleaning, events, hist>>

UpdateFileCollectionStatus(p) ==
    /\ proc[p].pc = "toolupdate"
    /\ coll' = [ver |-> IF coll = None THEN proc[p].ver ELSE coll.ver,
                status |-> proc[p].result]
    /\ Goto(p, IF p = ToolRetrier THEN "idle"
               ELSE IF proc[p].result = "ok" THEN "toolcheck" ELSE "failed")
    /\ UNCHANGED <<corking, sent, fail, failMade, tool, net, noticed, cleaning, events, hist>>

\* The loop of sendToolchain: is the tool chain in the cache of an earlier
\* version (isToolChainChanged), and then, is it finished (isToolChainFinished)?
Changed == coll # None /\ coll.ver # tool

CheckToolChain(j) ==
    /\ \/ proc[j].pc = "toolcheck" /\ Goto(j, IF Changed THEN "toolclear" ELSE "toolfinish")
       \/ /\ proc[j].pc = "toolfinish" /\ ~CollIs(Terminated)
          /\ Goto(j, "toolclear")
       \/ /\ proc[j].pc = "toolfinish" /\ CollIs(Terminated)
          /\ proc' = [proc EXCEPT ![j].pc = "file", ![j].file = Input, ![j].retry = FALSE]
    /\ UNCHANGED <<corking, caches, tool, net, noticed, cleaning, events, hist>>

\* A tool chain of an earlier version is cleared, and sending starts over with
\* the present one.
ClearOldFileCollection(j) ==
    /\ proc[j].pc = "toolclear"
    /\ coll' = IF Changed THEN None ELSE coll
    /\ overlapped' = (overlapped \/ (Changed /\ ~CollIs({"ok"})))
    /\ proc' = [proc EXCEPT ![j].pc = "tool", ![j].ver = tool]
    /\ UNCHANGED <<corking, sent, fail, failMade, tool, net, noticed, cleaning, events,
                   crossed, refused>>

ToolChange ==
    /\ Event
    /\ tool < MaxVersion /\ tool' = tool + 1
    /\ UNCHANGED <<corking, caches, net, noticed, cleaning, proc, hist>>

-----------------------------------------------------------------------------
(* Sending again (each every few seconds, one call at a time).             *)

RetryFailFiles ==
    /\ proc[FileRetrier].pc = "idle"
    /\ \E f \in File :
         /\ fail[f] = "failed"
         /\ proc' = [proc EXCEPT ![FileRetrier].pc = "file", ![FileRetrier].file = f,
                                 ![FileRetrier].retry = TRUE]
    /\ Amid
    /\ UNCHANGED <<corking, caches, tool, net, noticed, cleaning, events, overlapped, refused>>

RetrySendToolChains ==
    /\ proc[ToolRetrier].pc = "idle"
    /\ failMade /\ CollIs({"failed"})
    /\ proc' = [proc EXCEPT ![ToolRetrier].pc = "tool", ![ToolRetrier].ver = coll.ver]
    /\ Amid
    /\ UNCHANGED <<corking, caches, tool, net, noticed, cleaning, events, overlapped, refused>>

-----------------------------------------------------------------------------
(* What empties the caches.                                                *)

Affected(p) == proc[p].pc \notin AtRest \cup IF p \in Job THEN {"tool", "toolwait"} ELSE {}
Cross == crossed' = (crossed \/ \E p \in Proc : Affected(p))

\* The worker is restarted at the same address and has nothing any more.  Where
\* syncHostToken is the first to see the new token, the caches stay for ever.
Restart ==
    /\ Event
    /\ has' = {} /\ noticed' = FALSE
    /\ UNCHANGED <<corking, caches, tool, cork, batches, cleaning, proc, hist>>

\* confirmWorker finds another token: cleanWorkerCache forgets what is
\* terminated, in one cache after the other (one goroutine of it at a time).
Cleaned(status) == [f \in File |-> IF status[f] \in Terminated THEN "none" ELSE status[f]]

CleanWorkerCache ==
    /\ Cross
    /\ \/ /\ ~noticed /\ cleaning = 0
          /\ noticed' = TRUE /\ cleaning' = 1
          /\ coll' = IF CollIs(Terminated) THEN None ELSE coll
          /\ UNCHANGED <<sent, fail>>
       \/ /\ cleaning = 1 /\ cleaning' = 2
          /\ sent' = Cleaned(sent)
          /\ UNCHANGED <<noticed, coll, fail>>
       \/ /\ cleaning = 2 /\ cleaning' = 0
          /\ fail' = Cleaned(fail)
          /\ UNCHANGED <<noticed, coll, sent>>
    /\ UNCHANGED <<corking, failMade, tool, net, proc, events, overlapped, refused>>

\* All workers are released: cleanFileCache.  It takes a lock for each cache; a
\* call in between would count as crossed, as one under way here does.
CleanFileCache ==
    /\ Event /\ Cross
    /\ sent' = Unsent /\ fail' = Unsent /\ failMade' = FALSE /\ coll' = None
    /\ cork' = <<>>
    /\ UNCHANGED <<corking, tool, batches, has, noticed, cleaning, proc, overlapped, refused>>

-----------------------------------------------------------------------------

Step(p) ==
    \/ CheckFileCollection(p) \/ WaitCollection(p) \/ CheckFile(p) \/ WaitFile(p)
    \/ UpdateSendFile(p) \/ UpdateFail(p) \/ UpdateFileCollectionStatus(p)

Next ==
    \/ \E j \in Job : Start(j) \/ CheckToolChain(j) \/ ClearOldFileCollection(j)
    \/ \E p \in Proc : Step(p)
    \/ SendCork \/ \E S \in batches : Send(S)
    \/ RetryFailFiles \/ RetrySendToolChains
    \/ ToolChange \/ Restart \/ CleanWorkerCache \/ CleanFileCache

Spec == Init /\ [][Next]_vars

\* Goroutines go on, calls of the worker end, tickers tick.
Fairness ==
    /\ \A p \in Proc : WF_vars(Step(p))
    /\ \A j \in Job : WF_vars(Start(j) \/ CheckToolChain(j) \/ ClearOldFileCollection(j))
    /\ WF_vars(SendCork \/ \E S \in batches : Send(S))
    /\ WF_vars(RetryFailFiles) /\ WF_vars(RetrySendToolChains)

FairSpec == Spec /\ Fairness

-----------------------------------------------------------------------------
(* Properties.  crossed: the caches were emptied while calls were under     *)
(* way, or calls began between the steps of that.  overlapped: a tool chain *)
(* was cleared from the cache while it was being sent or to be sent again,  *)
(* which takes two changes of it.  refused: a batch of files was refused by *)
(* the worker and is recorded as sent all the same.                         *)

Sending(p, F) == proc[p].pc \in {"queued", "send"} /\ proc[p].file \in F

\* No two callers send one file to the worker at once, nor two versions of the
\* tool chain, which have one path there: jobs, and the retriers that look into
\* the other cache, find the mark of the one who sends.
OneSender ==
    crossed \/ overlapped
    \/ \A F \in {{Input}, Version} : \A p, q \in Proc :
         Sending(p, F) /\ Sending(q, F) => p = q

\* A job that goes on to its execution has its input file and a tool chain at
\* the worker: none of the caches promises what is not there, whoever sent it,
\* failed to, or sent it again; unless the worker was just restarted.
JobHasItsFiles ==
    [][\A j \in Job :
         proc[j].pc # "done" /\ proc'[j].pc = "done" =>
           \/ crossed \/ refused \/ ~noticed
           \/ Input \in has /\ has \cap Version # {}]_vars

\* Every call for a job returns: no waiter misses the end of the sending it
\* waits for, and the tool chain comes to rest however it changes (mgr.go:2110:
\* who waits for one that was cleared "just wait for sending again").
EveryCallReturns == <>[](crossed \/ \A j \in Job : proc[j].pc \in {"done", "failed"})

\* Nothing else keeps a call for ever: all return but those that wait for a tool
\* chain whose record was removed, and which nobody sends again.
OnlyForgottenWaits ==
    <>[](\/ crossed
         \/ \A j \in Job : \/ proc[j].pc \in {"done", "failed"}
                           \/ proc[j].pc = "toolwait" /\ coll = None)

\* What could not be sent is sent in the end, so that the worker does not stay
\* banned: no file and no tool chain remains failed, or being sent again.
FailedIsRepaired ==
    <>[](\/ crossed \/ refused
         \/ /\ \A f \in File : fail[f] \in {"none", "ok"}
            /\ coll = None \/ CollIs({"ok"}))
=============================================================================
