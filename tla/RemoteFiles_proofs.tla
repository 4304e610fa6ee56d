------------------------- MODULE RemoteFiles_proofs -------------------------
(***************************************************************************)
(* OneSender and JobHasItsFiles of RemoteFiles, for any number of jobs,      *)
(* versions and events.                                                     *)
(*                                                                         *)
(* A caller that is to send leaves a mark, in what was sent or in what      *)
(* failed, and in the tool chain, and it alone takes it away.  That a mark  *)
(* in one cache keeps off those who look into another follows from how the *)
(* caches are tied: a file that failed was sent, and the file of a tool      *)
(* chain that failed is of the version in the cache, not finished there.    *)
(*                                                                         *)
(* That a job has its files when it goes on is about what the caches record *)
(* of the worker (HasInv): "ok" is true of it while the controller knows     *)
(* the running worker, and the mark of a call that goes on is true too.      *)
(***************************************************************************)
EXTENDS RemoteFiles, SequenceTheorems, TLAPS

\* What a caller does with a file once it is not idle, waiting for the tool
\* chain, or done.
Flow == {"file", "filewait", "queued", "send", "update", "updatefail"}
Place == AtRest \cup Flow \cup {"tool", "toolwait", "toolcheck", "toolfinish", "toolclear", "toolupdate"}
FileStatus == {"none", "sending", "ok", "failed"}
Result == {"none", "ok", "failed", "retcode", "error"}

TypeOK ==
    /\ corking \in BOOLEAN
    /\ sent \in [File -> FileStatus] /\ fail \in [File -> FileStatus]
    /\ failMade \in BOOLEAN
    /\ coll \in {None} \cup [ver: Version, status: {"sending"} \cup Result]
    /\ tool \in Version /\ cleaning \in 0..2
    /\ cork \in Seq(Proc) /\ batches \subseteq SUBSET Proc
    /\ proc \in [Proc -> [pc: Place, file: {None} \cup File, ver: {0} \cup Version,
                          retry: BOOLEAN, result: Result]]
    /\ crossed \in BOOLEAN /\ overlapped \in BOOLEAN

\* Each caller that is queued or sends does so once.
BatchInv ==
    /\ \A i \in DOMAIN cork : proc[cork[i]].pc = "queued"
    /\ \A i, j \in DOMAIN cork : cork[i] = cork[j] => i = j
    /\ \A S \in batches : \A p \in S : proc[p].pc = "send"
    /\ \A S, T \in batches : \A p \in S : p \in T => S = T

\* What a caller may be about: the files retrier one file at a time, the others
\* that of the tool chain, and a job its input in the end.
Placed(p) ==
    /\ proc[p].pc \in Flow => proc[p].file \in File
    /\ proc[p].pc = "toolupdate" =>
         proc[p].file = proc[p].ver /\ proc[p].ver \in Version /\ proc[p].result \in {"ok", "failed"}
    /\ p \in Job =>
         /\ proc[p].pc \in Flow => ~proc[p].retry /\ proc[p].file \in {Input, proc[p].ver}
         /\ proc[p].pc # "idle" => proc[p].ver \in Version
    /\ p = ToolRetrier =>
         /\ proc[p].pc \in Flow => proc[p].file = proc[p].ver
         /\ proc[p].pc # "idle" => proc[p].ver \in Version
    /\ p = FileRetrier =>
         /\ proc[p].ver = 0 /\ proc[p].pc \in {"idle"} \cup Flow
         /\ proc[p].pc # "idle" => proc[p].retry

PlaceInv == \A p \in Proc : Placed(p)

\* The one who has to leave the status of a file.
Owns(p, f) ==
    proc[p].pc \in {"queued", "send", "update", "updatefail"} /\ proc[p].file = f

FileInv ==
    /\ \A p \in Proc, f \in File : Owns(p, f) =>
         IF proc[p].retry THEN fail[f] = "sending"
         ELSE /\ fail[f] = "none"
              /\ sent[f] = IF proc[p].pc = "updatefail" THEN "failed" ELSE "sending"
    /\ \A p, q \in Proc, f \in File : Owns(p, f) /\ Owns(q, f) => p = q
    /\ cleaning # 2 => \A f \in File : fail[f] # "none" => sent[f] \in Terminated
    /\ \A f \in File : fail[f] = "sending" => \E p \in Proc : Owns(p, f) /\ proc[p].retry

\* The one who has to leave the status of the tool chain.
OwnsTool(p) ==
    proc[p].pc = "toolupdate" \/ (proc[p].pc \in Flow /\ proc[p].file = proc[p].ver)

Unrepaired == {"failed", "sending"}

\* Who will record a tool chain as sent, or may do so without a look into what
\* failed.
Relies(p) ==
    \/ proc[p].pc = "toolupdate" /\ proc[p].result = "ok"
    \/ proc[p].pc \in {"file", "filewait"} /\ proc[p].file = proc[p].ver /\ ~proc[p].retry

ToolInv ==
    /\ \A p \in Proc : OwnsTool(p) =>
         coll # None /\ coll.status = "sending" /\ coll.ver = proc[p].ver
    /\ \A p, q \in Proc : OwnsTool(p) /\ OwnsTool(q) => p = q
    /\ cleaning = 0 => \A v \in Version : fail[v] \in Unrepaired =>
         coll # None /\ coll.ver = v /\ coll.status \in Unrepaired
    /\ \A p \in Proc : Relies(p) => fail[proc[p].ver] \notin Unrepaired
    /\ proc[ToolRetrier].pc = "tool" =>
         coll # None /\ coll.status = "failed" /\ coll.ver = proc[ToolRetrier].ver

\* While the caches are emptied nobody uses them.
CleanInv == cleaning # 0 => \A p \in Proc : ~Affected(p)

FilesInv ==
    /\ TypeOK /\ BatchInv /\ PlaceInv
    /\ crossed \/ overlapped \/ (CleanInv /\ FileInv /\ ToolInv)

-----------------------------------------------------------------------------
(* What the steps do to a caller, field by field.                          *)

Records == [pc: Place, file: {None} \cup File, ver: {0} \cup Version,
            retry: BOOLEAN, result: Result]

LEMMA RecordOf ==
    ASSUME TypeOK, NEW p \in Proc
    PROVE  /\ proc[p] \in Records
           /\ proc[p] = [pc |-> proc[p].pc, file |-> proc[p].file, ver |-> proc[p].ver,
                         retry |-> proc[p].retry, result |-> proc[p].result]
BY DEF TypeOK, Records

Only(p) == \A q \in Proc : q # p => proc'[q] = proc[q]

\* Only p moves, and to this.
Moves(p, pc, file, ver, retry, result) ==
    /\ Only(p)
    /\ proc'[p].pc = pc /\ proc'[p].file = file /\ proc'[p].ver = ver
    /\ proc'[p].retry = retry /\ proc'[p].result = result

Goes(p, pc) == Moves(p, pc, proc[p].file, proc[p].ver, proc[p].retry, proc[p].result)
Answers(p, pc, result) == Moves(p, pc, proc[p].file, proc[p].ver, proc[p].retry, result)

LEMMA GotoMoves ==
    ASSUME TypeOK, NEW p \in Proc, NEW pc, Goto(p, pc)
    PROVE  Goes(p, pc)
BY DEF TypeOK, Goto, Goes, Moves, Only

LEMMA ReturnMoves ==
    ASSUME TypeOK, NEW p \in Proc, NEW ok \in BOOLEAN, Return(p, ok)
    PROVE  \E pc \in {"toolupdate", "idle", "done", "failed"} :
             /\ Answers(p, pc, IF ok THEN "ok" ELSE "failed")
             /\ pc = "toolupdate" <=> proc[p].file = proc[p].ver
             /\ pc = "idle" <=> p = FileRetrier /\ proc[p].file # proc[p].ver
BY DEF TypeOK, Return, Answers, Moves, Only

LEMMA StartMoves ==
    ASSUME TypeOK, NEW j \in Job, Start(j)
    PROVE  proc[j].pc = "idle"
           /\ Moves(j, "tool", proc[j].file, tool, proc[j].retry, proc[j].result)
BY DEF TypeOK, Start, Moves, Only, Proc

LEMMA SendCollectionMoves ==
    ASSUME TypeOK, NEW p \in Proc, SendCollection(p)
    PROVE  Moves(p, "file", proc[p].ver, proc[p].ver,
                 p = ToolRetrier /\ fail[proc[p].ver] # "none", proc[p].result)
BY DEF TypeOK, SendCollection, Moves, Only

LEMMA SenderMoves ==
    ASSUME TypeOK, NEW p \in Proc, Sender(p)
    PROVE  \/ corking /\ Goes(p, "queued") /\ cork' = Append(cork, p) /\ batches' = batches
           \/ ~corking /\ Goes(p, "send") /\ cork' = cork /\ batches' = batches \cup {{p}}
BY GotoMoves DEF Sender

ToolLoop(j) == CheckToolChain(j) \/ ClearOldFileCollection(j)

LEMMA ToolLoopMoves ==
    ASSUME TypeOK, NEW j \in Job, ToolLoop(j)
    PROVE  \/ /\ proc[j].pc = "toolclear"
              /\ Moves(j, "tool", proc[j].file, tool, proc[j].retry, proc[j].result)
           \/ /\ proc[j].pc = "toolcheck" /\ coll' = coll
              /\ \E pc \in {"toolclear", "toolfinish"} : Goes(j, pc)
           \/ /\ proc[j].pc = "toolfinish" /\ coll' = coll
              /\ \/ Goes(j, "toolclear")
                 \/ Moves(j, "file", Input, proc[j].ver, FALSE, proc[j].result)
<1>1. CASE ClearOldFileCollection(j)
  BY <1>1 DEF TypeOK, ClearOldFileCollection, Moves, Only, Proc
<1>2. CASE proc[j].pc = "toolcheck" /\ Goto(j, IF Changed THEN "toolclear" ELSE "toolfinish") /\ coll' = coll
  <2>1. \E pc \in {"toolclear", "toolfinish"} : Goto(j, pc)
    BY <1>2
  <2> QED  BY <1>2, <2>1, GotoMoves DEF Proc
<1>3. CASE proc[j].pc = "toolfinish" /\ Goto(j, "toolclear") /\ coll' = coll
  BY <1>3, GotoMoves DEF Proc
<1>4. CASE /\ proc[j].pc = "toolfinish" /\ coll' = coll
           /\ proc' = [proc EXCEPT ![j].pc = "file", ![j].file = Input, ![j].retry = FALSE]
  BY <1>4 DEF TypeOK, Moves, Only, Proc
<1> QED  BY <1>1, <1>2, <1>3, <1>4 DEF ToolLoop, CheckToolChain, caches

\* Of the caches it takes at most the tool chain away.
LEMMA ToolLoopKeeps ==
    ASSUME NEW j \in Job, ToolLoop(j)
    PROVE  /\ UNCHANGED <<corking, sent, fail, failMade, tool, cork, batches, has, noticed, cleaning,
                          events, crossed, refused>>
           /\ \/ coll' = coll /\ overlapped' = overlapped
              \/ /\ coll' = IF Changed THEN None ELSE coll
                 /\ overlapped' = (overlapped \/ (Changed /\ ~CollIs({"ok"})))
BY DEF ToolLoop, CheckToolChain, ClearOldFileCollection, caches, net, hist

LEMMA RetryFailFilesMoves ==
    ASSUME TypeOK, RetryFailFiles
    PROVE  /\ proc[FileRetrier].pc = "idle"
           /\ \E f \in File : fail[f] = "failed"
                /\ Moves(FileRetrier, "file", f, proc[FileRetrier].ver, TRUE, proc[FileRetrier].result)
BY DEF TypeOK, RetryFailFiles, Moves, Only, Proc

LEMMA RetrySendToolChainsMoves ==
    ASSUME TypeOK, RetrySendToolChains
    PROVE  /\ proc[ToolRetrier].pc = "idle"
           /\ Moves(ToolRetrier, "tool", proc[ToolRetrier].file, coll.ver,
                    proc[ToolRetrier].retry, proc[ToolRetrier].result)
BY DEF TypeOK, RetrySendToolChains, Moves, Only, Proc

\* Those who are in S move to pc, and keep what they are about.
AllMove(S, pc) ==
    \A p \in Proc :
      /\ p \notin S => proc'[p] = proc[p]
      /\ p \in S => /\ proc'[p].pc = pc /\ proc'[p].file = proc[p].file
                    /\ proc'[p].ver = proc[p].ver /\ proc'[p].retry = proc[p].retry

LEMMA SendCorkMoves ==
    ASSUME TypeOK, SendCork
    PROVE  \E n \in 1..Len(cork) : \E S \in SUBSET Proc :
             /\ S = {cork[i] : i \in 1..n}
             /\ cork' = SubSeq(cork, n + 1, Len(cork))
             /\ batches' = batches \cup {S} /\ AllMove(S, "send")
<1>1. PICK n \in 1..Len(cork) :
        LET S == {cork[i] : i \in 1..n}
        IN  /\ cork' = SubSeq(cork, n + 1, Len(cork))
            /\ batches' = batches \cup {S}
            /\ proc' = [p \in Proc |-> IF p \in S THEN [proc[p] EXCEPT !.pc = "send"]
                                                  ELSE proc[p]]
  BY DEF SendCork
<1> DEFINE S == {cork[i] : i \in 1..n}
<1>2. S \in SUBSET Proc
  BY DEF TypeOK
<1>3. AllMove(S, "send")
  BY <1>1 DEF AllMove, TypeOK
<1> QED  BY <1>1, <1>2, <1>3

LEMMA SendMoves ==
    ASSUME TypeOK, NEW S \in batches, Send(S)
    PROVE  /\ AllMove(S, "update") /\ batches' = batches \ {S}
           /\ \A p \in S : proc'[p].result \in Result
<1>1. PICK r \in {"ok", "retcode", "error"} :
        proc' = [p \in Proc |-> IF p \in S THEN [proc[p] EXCEPT !.pc = "update", !.result = r]
                                           ELSE proc[p]]
  BY DEF Send
<1>2. S \subseteq Proc /\ batches' = batches \ {S}
  BY DEF TypeOK, Send
<1>3. ASSUME NEW p \in Proc
      PROVE  /\ p \notin S => proc'[p] = proc[p]
             /\ p \in S => proc'[p] = [proc[p] EXCEPT !.pc = "update", !.result = r]
  BY <1>1
<1>4. ASSUME NEW p \in Proc, p \in S
      PROVE  /\ proc'[p].pc = "update" /\ proc'[p].file = proc[p].file
             /\ proc'[p].ver = proc[p].ver /\ proc'[p].retry = proc[p].retry
             /\ proc'[p].result = r
  BY <1>3, <1>4, RecordOf
<1>5. AllMove(S, "update")
  BY <1>3, <1>4 DEF AllMove
<1> QED  BY <1>2, <1>4, <1>5 DEF Result

-----------------------------------------------------------------------------
(* Shapes.                                                                 *)

ProcType == [Proc -> [pc: Place, file: {None} \cup File, ver: {0} \cup Version,
                      retry: BOOLEAN, result: Result]]

LEMMA Constants ==
    /\ Input \in File /\ Version \subseteq File /\ Input \notin Version /\ Input # 0
    /\ 0 \notin Version /\ 0 \notin File /\ 1 \in Version
    /\ FileRetrier \in Proc /\ ToolRetrier \in Proc /\ Job \subseteq Proc
    /\ \A p \in Proc : p \in Job \/ p = FileRetrier \/ p = ToolRetrier
BY FilesAssumption DEF File, Version, Proc

LEMMA InitFiles == Init => FilesInv
<1> SUFFICES ASSUME Init
             PROVE  FilesInv
  OBVIOUS
<1> USE Constants DEF Init
<1>1. TypeOK
  <2>1. proc \in ProcType
    <3>1. [pc |-> "idle", file |-> None, ver |-> 0, retry |-> FALSE, result |-> "none"] \in Records
      BY DEF Records, Place, AtRest, Result
    <3> QED  BY <3>1 DEF ProcType, Records
  <2>2. sent \in [File -> FileStatus] /\ fail \in [File -> FileStatus]
    BY DEF Unsent, FileStatus
  <2>3. cork \in Seq(Proc)
    OBVIOUS
  <2>4. failMade \in BOOLEAN /\ crossed \in BOOLEAN /\ overlapped \in BOOLEAN
    BY Zenon
  <2> QED  BY <2>1, <2>2, <2>3, <2>4 DEF TypeOK, ProcType
<1>2. BatchInv /\ PlaceInv
  BY DEF BatchInv, PlaceInv, Placed, Flow
<1>3. FileInv
  BY DEF FileInv, Owns, Unsent
<1>4. ToolInv
  BY DEF ToolInv, OwnsTool, Relies, Flow, Unsent, Unrepaired
<1> QED  BY <1>1, <1>2, <1>3, <1>4 DEF FilesInv, CleanInv

\* A step that gives p another record, of the same shape.
LEMMA MovedType ==
    ASSUME TypeOK, NEW p \in Proc, NEW r \in Records, proc' = [proc EXCEPT ![p] = r]
    PROVE  proc' \in ProcType
BY DEF TypeOK, ProcType, Records

LEMMA GotoType ==
    ASSUME TypeOK, NEW p \in Proc, NEW pc \in Place, Goto(p, pc)
    PROVE  proc' \in ProcType
<1>1. [proc[p] EXCEPT !.pc = pc] \in Records
  BY RecordOf DEF Records
<1> QED  BY <1>1, MovedType DEF Goto

LEMMA ReturnType ==
    ASSUME TypeOK, NEW p \in Proc, NEW ok \in BOOLEAN, Return(p, ok)
    PROVE  proc' \in ProcType
<1>1. PICK pc \in Place, r \in Result : proc' = [proc EXCEPT ![p].pc = pc, ![p].result = r]
  BY DEF Return, Place, AtRest, Result
<1>2. [proc[p] EXCEPT !.pc = pc, !.result = r] \in Records
  BY RecordOf DEF Records
<1>3. proc' = [proc EXCEPT ![p] = [proc[p] EXCEPT !.pc = pc, !.result = r]]
  BY <1>1 DEF TypeOK
<1> QED  BY <1>2, <1>3, MovedType

LEMMA SendCollectionType ==
    ASSUME TypeOK, NEW p \in Proc, proc[p].ver \in Version, SendCollection(p)
    PROVE  proc' \in ProcType
<1> DEFINE b == p = ToolRetrier /\ fail[proc[p].ver] # "none"
<1>1. [proc[p] EXCEPT !.pc = "file", !.file = proc[p].ver, !.retry = b] \in Records
  <2>1. "file" \in Place /\ proc[p].ver \in File /\ b \in BOOLEAN
    BY Constants DEF Place, Flow
  <2> HIDE DEF b
  <2> QED  BY <2>1, RecordOf DEF Records
<1>2. proc' = [proc EXCEPT ![p] = [proc[p] EXCEPT !.pc = "file", !.file = proc[p].ver, !.retry = b]]
  BY DEF SendCollection, TypeOK
<1> QED  BY <1>1, <1>2, MovedType

LEMMA TypeStep ==
    ASSUME TypeOK, PlaceInv, Next
    PROVE  TypeOK'
<1> USE Constants
<1>0. /\ {"idle", "tool", "toolwait", "toolcheck", "toolfinish", "toolclear", "toolupdate", "file", "filewait", "queued",
          "send", "update", "updatefail", "done", "failed"} = Place
      /\ {"none", "ok", "failed", "retcode", "error"} = Result
      /\ {"none", "sending", "ok", "failed"} = FileStatus
  BY DEF Place, Result, FileStatus, Flow, AtRest
<1>1. ASSUME NEW j \in Job, Start(j) PROVE TypeOK'
  <2>1. [proc[j] EXCEPT !.pc = "tool", !.ver = tool] \in Records
    <3>1. tool \in Version
      BY DEF TypeOK
    <3> QED  BY <1>0, <3>1, RecordOf DEF Records
  <2>2. proc' = [proc EXCEPT ![j] = [proc[j] EXCEPT !.pc = "tool", !.ver = tool]]
    BY <1>1 DEF Start, TypeOK
  <2>3. proc' \in ProcType
    BY <2>1, <2>2, MovedType
  <2> QED  BY <1>1, <2>3 DEF Start, TypeOK, ProcType, caches, net, hist
<1>2. ASSUME NEW j \in Job, ToolLoop(j) PROVE TypeOK'
  <2>1. /\ [proc[j] EXCEPT !.pc = "tool", !.ver = tool] \in Records
        /\ [proc[j] EXCEPT !.pc = "file", !.file = Input, !.retry = FALSE] \in Records
        /\ \A pc \in {"toolclear", "toolfinish"} : [proc[j] EXCEPT !.pc = pc] \in Records
    <3>1. tool \in Version
      BY DEF TypeOK
    <3>2. [proc[j] EXCEPT !.pc = "tool", !.ver = tool] \in Records
      BY <1>0, <3>1, RecordOf DEF Records
    <3>3. [proc[j] EXCEPT !.pc = "file", !.file = Input, !.retry = FALSE] \in Records
      BY <1>0, RecordOf DEF Records
    <3>4. \A pc \in {"toolclear", "toolfinish"} : [proc[j] EXCEPT !.pc = pc] \in Records
      BY <1>0, RecordOf DEF Records
    <3> QED  BY <3>2, <3>3, <3>4
  <2>2. \/ proc' = [proc EXCEPT ![j] = [proc[j] EXCEPT !.pc = "tool", !.ver = tool]]
        \/ proc' = [proc EXCEPT ![j] = [proc[j] EXCEPT !.pc = "file", !.file = Input, !.retry = FALSE]]
        \/ \E pc \in {"toolclear", "toolfinish"} : proc' = [proc EXCEPT ![j] = [proc[j] EXCEPT !.pc = pc]]
    BY <1>2 DEF ToolLoop, CheckToolChain, ClearOldFileCollection, Goto, TypeOK
  <2>3. proc' \in ProcType
    BY <2>1, <2>2, MovedType
  <2>4. overlapped' \in BOOLEAN /\ coll' \in {coll, None}
    BY <1>2, ToolLoopKeeps DEF TypeOK
  <2> QED  BY <1>2, <2>3, <2>4, ToolLoopKeeps DEF TypeOK, ProcType
<1>3. ASSUME NEW p \in Proc, CheckFileCollection(p) PROVE TypeOK'
  <2>1. proc[p].ver \in Version
    BY <1>3 DEF CheckFileCollection, PlaceInv, Placed, Flow
  <2>2. proc' \in ProcType
    BY <1>0, <1>3, <2>1, GotoType, SendCollectionType DEF CheckFileCollection
  <2>3. coll' \in {coll} \cup [ver: Version, status: {"sending"} \cup Result]
    BY <1>3, <2>1 DEF CheckFileCollection, TypeOK
  <2>4. crossed' \in BOOLEAN
    BY <1>3 DEF CheckFileCollection, Amid, TypeOK
  <2> QED  BY <1>3, <2>2, <2>3, <2>4 DEF CheckFileCollection, TypeOK, ProcType, net
<1>4. ASSUME NEW p \in Proc, WaitCollection(p) PROVE TypeOK'
  <2>1. proc' \in ProcType
    BY <1>0, <1>4, GotoType DEF WaitCollection
  <2>2. crossed' \in BOOLEAN
    BY <1>4 DEF WaitCollection, Amid, TypeOK
  <2> QED  BY <1>4, <2>1, <2>2 DEF WaitCollection, TypeOK, ProcType, net, caches
<1>5. ASSUME NEW p \in Proc, CheckFile(p) PROVE TypeOK'
  <2>1. proc' \in ProcType
    BY <1>0, <1>5, GotoType, ReturnType DEF CheckFile, Sender
  <2>2. proc[p].file \in File
    BY <1>5 DEF CheckFile, PlaceInv, Placed, Flow
  <2>3. /\ sent' \in [File -> FileStatus] /\ fail' \in [File -> FileStatus]
        /\ failMade' \in {failMade, TRUE}
    <3>1. /\ sent' = sent \/ sent' = [sent EXCEPT ![proc[p].file] = "sending"]
          /\ fail' = fail \/ fail' = [fail EXCEPT ![proc[p].file] = "sending"]
          /\ failMade' \in {failMade, TRUE}
      BY <1>5 DEF CheckFile
    <3> QED  BY <1>0, <3>1 DEF TypeOK
  <2>4. cork' \in Seq(Proc) /\ batches' \subseteq SUBSET Proc
    <3>1. /\ cork' = cork \/ cork' = Append(cork, p)
          /\ batches' = batches \/ batches' = batches \cup {{p}}
      BY <1>5 DEF CheckFile, Sender
    <3>2. Append(cork, p) \in Seq(Proc)
      BY DEF TypeOK
    <3>3. {p} \in SUBSET Proc
      OBVIOUS
    <3>4. cork \in Seq(Proc) /\ batches \subseteq SUBSET Proc
      BY DEF TypeOK
    <3> QED  BY <3>1, <3>2, <3>3, <3>4
  <2> QED  BY <1>5, <2>1, <2>3, <2>4 DEF CheckFile, TypeOK, ProcType, hist
<1>6. ASSUME NEW p \in Proc, WaitFile(p) PROVE TypeOK'
  <2>1. proc' \in ProcType
    BY <1>6, ReturnType DEF WaitFile
  <2> QED  BY <1>6, <2>1 DEF WaitFile, TypeOK, ProcType, net, caches, hist
<1>7. ASSUME NEW p \in Proc, UpdateSendFile(p) PROVE TypeOK'
  <2>1. proc' \in ProcType
    BY <1>0, <1>7, GotoType, ReturnType DEF UpdateSendFile
  <2>2. sent' \in [File -> FileStatus]
    BY <1>0, <1>7 DEF UpdateSendFile, Status, TypeOK
  <2> QED  BY <1>7, <2>1, <2>2 DEF UpdateSendFile, TypeOK, ProcType, net, hist
<1>8. ASSUME NEW p \in Proc, UpdateFail(p) PROVE TypeOK'
  <2>1. proc' \in ProcType
    BY <1>8, ReturnType DEF UpdateFail
  <2>2. fail' \in [File -> FileStatus]
    BY <1>0, <1>8 DEF UpdateFail, Status, TypeOK
  <2> QED  BY <1>8, <2>1, <2>2 DEF UpdateFail, TypeOK, ProcType, net, hist
<1>9. ASSUME NEW p \in Proc, UpdateFileCollectionStatus(p) PROVE TypeOK'
  <2>1. proc' \in ProcType
    BY <1>0, <1>9, GotoType DEF UpdateFileCollectionStatus
  <2>2. proc[p].ver \in Version /\ proc[p].result \in Result
    BY <1>0, <1>9 DEF UpdateFileCollectionStatus, PlaceInv, Placed
  <2>3. coll' \in [ver: Version, status: {"sending"} \cup Result]
    BY <1>9, <2>2 DEF UpdateFileCollectionStatus, TypeOK
  <2> QED  BY <1>9, <2>1, <2>3 DEF UpdateFileCollectionStatus, TypeOK, ProcType, net, hist
<1>10. CASE SendCork
  <2>1. PICK n \in 1..Len(cork), S \in SUBSET Proc :
          /\ cork' = SubSeq(cork, n + 1, Len(cork)) /\ batches' = batches \cup {S}
          /\ proc' = [p \in Proc |-> IF p \in S THEN [proc[p] EXCEPT !.pc = "send"] ELSE proc[p]]
    <3>1. PICK n \in 1..Len(cork) :
            LET S == {cork[i] : i \in 1..n}
            IN  /\ cork' = SubSeq(cork, n + 1, Len(cork))
                /\ batches' = batches \cup {S}
                /\ proc' = [p \in Proc |-> IF p \in S THEN [proc[p] EXCEPT !.pc = "send"]
                                                      ELSE proc[p]]
      BY <1>10 DEF SendCork
    <3>2. {cork[i] : i \in 1..n} \in SUBSET Proc
      BY DEF TypeOK
    <3> QED  BY <3>1, <3>2
  <2>2. ASSUME NEW p \in Proc
        PROVE  [proc[p] EXCEPT !.pc = "send"] \in Records
    BY <1>0, RecordOf DEF Records
  <2>3. proc' \in ProcType
    BY <2>1, <2>2, RecordOf DEF ProcType, Records
  <2>4. cork' \in Seq(Proc)
    BY <2>1 DEF TypeOK
  <2> QED  BY <1>10, <2>1, <2>3, <2>4 DEF SendCork, TypeOK, ProcType, caches, hist
<1>11. ASSUME NEW S \in batches, Send(S) PROVE TypeOK'
  <2>1. PICK r \in {"ok", "retcode", "error"} :
          proc' = [p \in Proc |-> IF p \in S THEN [proc[p] EXCEPT !.pc = "update", !.result = r]
                                             ELSE proc[p]]
    BY <1>11 DEF Send
  <2>2. ASSUME NEW p \in Proc
        PROVE  [proc[p] EXCEPT !.pc = "update", !.result = r] \in Records
    BY <1>0, RecordOf DEF Records
  <2>3. proc' \in ProcType
    BY <2>1, <2>2, RecordOf DEF ProcType, Records
  <2> QED  BY <1>11, <2>3 DEF Send, TypeOK, ProcType, caches
<1>12. CASE RetryFailFiles
  <2>1. PICK f \in File :
          proc' = [proc EXCEPT ![FileRetrier].pc = "file", ![FileRetrier].file = f,
                               ![FileRetrier].retry = TRUE]
    BY <1>12 DEF RetryFailFiles
  <2>2. [proc[FileRetrier] EXCEPT !.pc = "file", !.file = f, !.retry = TRUE] \in Records
    BY <1>0, RecordOf DEF Records
  <2>3. proc' = [proc EXCEPT ![FileRetrier] =
                   [proc[FileRetrier] EXCEPT !.pc = "file", !.file = f, !.retry = TRUE]]
    BY <2>1 DEF TypeOK
  <2>4. proc' \in ProcType
    BY <2>2, <2>3, MovedType
  <2>5. crossed' \in BOOLEAN
    BY <1>12 DEF RetryFailFiles, Amid, TypeOK
  <2> QED  BY <1>12, <2>4, <2>5 DEF RetryFailFiles, TypeOK, ProcType, caches, net
<1>13. CASE RetrySendToolChains
  <2>1. coll.ver \in Version
    BY <1>13 DEF RetrySendToolChains, CollIs, TypeOK
  <2>2. [proc[ToolRetrier] EXCEPT !.pc = "tool", !.ver = coll.ver] \in Records
    BY <1>0, <2>1, RecordOf DEF Records
  <2>3. proc' = [proc EXCEPT ![ToolRetrier] =
                   [proc[ToolRetrier] EXCEPT !.pc = "tool", !.ver = coll.ver]]
    BY <1>13 DEF RetrySendToolChains, TypeOK
  <2>4. proc' \in ProcType
    BY <2>2, <2>3, MovedType
  <2>5. crossed' \in BOOLEAN
    BY <1>13 DEF RetrySendToolChains, Amid, TypeOK
  <2> QED  BY <1>13, <2>4, <2>5 DEF RetrySendToolChains, TypeOK, ProcType, caches, net
<1>14. CASE ToolChange
  <2>1. tool' \in Version
    BY <1>14, FilesAssumption DEF ToolChange, Version, TypeOK
  <2> QED  BY <1>14, <2>1 DEF ToolChange, TypeOK, caches, net, hist
<1>15. CASE Restart
  BY <1>15 DEF Restart, TypeOK, caches, hist
<1>16. CASE CleanWorkerCache
  <2>1. /\ sent' \in [File -> FileStatus] /\ fail' \in [File -> FileStatus]
        /\ coll' \in {coll, None} /\ cleaning' \in 0..2
    BY <1>0, <1>16 DEF CleanWorkerCache, Cleaned, TypeOK
  <2>2. crossed' \in BOOLEAN
    BY <1>16 DEF CleanWorkerCache, Cross, TypeOK
  <2> QED  BY <1>16, <2>1, <2>2 DEF CleanWorkerCache, TypeOK, net
<1>17. CASE CleanFileCache
  <2>1. sent' \in [File -> FileStatus] /\ fail' \in [File -> FileStatus] /\ cork' \in Seq(Proc)
    BY <1>0, <1>17 DEF CleanFileCache, Unsent
  <2>2. crossed' \in BOOLEAN
    BY <1>17 DEF CleanFileCache, Cross, TypeOK
  <2> QED  BY <1>17, <2>1, <2>2 DEF CleanFileCache, TypeOK
<1> QED  BY <1>1, <1>2, <1>3, <1>4, <1>5, <1>6, <1>7, <1>8, <1>9, <1>10, <1>11, <1>12, <1>13,
            <1>14, <1>15, <1>16, <1>17 DEF Next, Step, ToolLoop

-----------------------------------------------------------------------------
(* Queue and batches.                                                      *)

LEMMA CorkIn ==
    ASSUME TypeOK
    PROVE  /\ \A i \in DOMAIN cork : cork[i] \in Proc
           /\ \A S \in batches : S \subseteq Proc
           /\ DOMAIN cork = 1..Len(cork) /\ Len(cork) \in Nat
BY DEF TypeOK

\* One who is neither queued nor sending may move.
LEMMA BatchStays ==
    ASSUME TypeOK, BatchInv, NEW p \in Proc, proc[p].pc \notin {"queued", "send"}, Only(p),
           cork' = cork, batches' = batches
    PROVE  BatchInv'
BY CorkIn DEF BatchInv, Only

LEMMA BatchStep ==
    ASSUME TypeOK, BatchInv, Next
    PROVE  BatchInv'
<1> USE Constants, CorkIn
<1>1. ASSUME NEW j \in Job, Start(j) PROVE BatchInv'
  BY <1>1, StartMoves, BatchStays DEF Start, net, Moves
<1>2. ASSUME NEW j \in Job, ToolLoop(j) PROVE BatchInv'
  BY <1>2, ToolLoopMoves, ToolLoopKeeps, BatchStays DEF Goes, Moves
<1>3. ASSUME NEW p \in Proc, CheckFileCollection(p) PROVE BatchInv'
  <2>1. Only(p)
    BY <1>3, GotoMoves, SendCollectionMoves DEF CheckFileCollection, Goes, Moves
  <2> QED  BY <1>3, <2>1, BatchStays DEF CheckFileCollection, net
<1>4. ASSUME NEW p \in Proc, WaitCollection(p) PROVE BatchInv'
  BY <1>4, GotoMoves, BatchStays DEF WaitCollection, net, Goes, Moves
<1>5. ASSUME NEW p \in Proc, CheckFile(p) PROVE BatchInv'
  <2>1. CASE Sender(p)
    <3>1. CASE corking
      <4>1. Goes(p, "queued") /\ cork' = Append(cork, p) /\ batches' = batches
        BY <2>1, <3>1, SenderMoves
      <4>2. /\ Len(cork') = Len(cork) + 1 /\ DOMAIN cork' = 1..Len(cork')
            /\ \A i \in DOMAIN cork : cork'[i] = cork[i]
            /\ cork'[Len(cork) + 1] = p
        BY <4>1 DEF TypeOK
      <4>3. \A i \in DOMAIN cork : cork[i] # p
        BY <1>5 DEF CheckFile, BatchInv
      <4>4. \A S \in batches : p \notin S
        BY <1>5 DEF CheckFile, BatchInv
      <4> QED  BY <4>1, <4>2, <4>3, <4>4 DEF BatchInv, Goes, Moves, Only
    <3>2. CASE ~corking
      <4>1. Goes(p, "send") /\ cork' = cork /\ batches' = batches \cup {{p}}
        BY <2>1, <3>2, SenderMoves
      <4>2. \A i \in DOMAIN cork : cork[i] # p
        BY <1>5 DEF CheckFile, BatchInv
      <4>3. \A S \in batches : p \notin S
        BY <1>5 DEF CheckFile, BatchInv
      <4>4. \A T \in batches' : \A q \in T : proc'[q].pc = "send"
        <5>1. ASSUME NEW T \in batches, NEW q \in T
              PROVE  q # p /\ proc'[q] = proc[q] /\ proc[q].pc = "send"
          BY <4>1, <4>3 DEF BatchInv, Goes, Moves, Only
        <5>2. proc'[p].pc = "send"
          BY <4>1 DEF Goes, Moves
        <5> QED  BY <4>1, <5>1, <5>2
      <4>5. \A T, U \in batches' : \A q \in T : q \in U => T = U
        BY <4>1, <4>3 DEF BatchInv
      <4>6. /\ \A i \in DOMAIN cork' : proc'[cork'[i]].pc = "queued"
            /\ \A i, k \in DOMAIN cork' : cork'[i] = cork'[k] => i = k
        BY <4>1, <4>2 DEF BatchInv, Goes, Moves, Only
      <4> QED  BY <4>4, <4>5, <4>6 DEF BatchInv
    <3> QED  BY <3>1, <3>2
  <2>2. CASE cork' = cork /\ batches' = batches /\ (Goto(p, "filewait") \/ Return(p, FALSE))
    <3>1. Only(p)
      BY <2>2, GotoMoves, ReturnMoves DEF Goes, Answers, Moves
    <3> QED  BY <1>5, <2>2, <3>1, BatchStays DEF CheckFile
  <2> QED  BY <1>5, <2>1, <2>2 DEF CheckFile
<1>6. ASSUME NEW p \in Proc, WaitFile(p) PROVE BatchInv'
  BY <1>6, ReturnMoves, BatchStays DEF WaitFile, net, Answers, Moves
<1>7. ASSUME NEW p \in Proc, UpdateSendFile(p) PROVE BatchInv'
  BY <1>7, GotoMoves, ReturnMoves, BatchStays DEF UpdateSendFile, net, Goes, Answers, Moves
<1>8. ASSUME NEW p \in Proc, UpdateFail(p) PROVE BatchInv'
  BY <1>8, ReturnMoves, BatchStays DEF UpdateFail, net, Answers, Moves
<1>9. ASSUME NEW p \in Proc, UpdateFileCollectionStatus(p) PROVE BatchInv'
  BY <1>9, GotoMoves, BatchStays DEF UpdateFileCollectionStatus, net, Goes, Moves
<1>10. CASE SendCork
  <2>1. PICK n \in 1..Len(cork), S \in SUBSET Proc :
          /\ S = {cork[i] : i \in 1..n}
          /\ cork' = SubSeq(cork, n + 1, Len(cork))
          /\ batches' = batches \cup {S} /\ AllMove(S, "send")
    BY <1>10, SendCorkMoves
  <2>2. /\ Len(cork') = Len(cork) - n /\ DOMAIN cork' = 1..(Len(cork) - n)
        /\ \A i \in DOMAIN cork' : i + n \in DOMAIN cork /\ cork'[i] = cork[i + n]
    BY <2>1 DEF TypeOK
  <2>3. \A i \in DOMAIN cork' : cork'[i] \notin S
    <3>1. ASSUME NEW i \in DOMAIN cork', NEW k \in 1..n, cork[i + n] = cork[k]
          PROVE  FALSE
      BY <2>2, <3>1 DEF BatchInv
    <3> QED  BY <2>1, <2>2, <3>1
  <2>4. \A T \in batches : S \cap T = {}
    BY <2>1 DEF BatchInv
  <2>5. /\ \A i \in DOMAIN cork' : proc'[cork'[i]].pc = "queued"
        /\ \A i, k \in DOMAIN cork' : cork'[i] = cork'[k] => i = k
    <3>1. ASSUME NEW i \in DOMAIN cork'
          PROVE  proc'[cork'[i]].pc = "queued"
      <4>1. cork'[i] \in Proc /\ cork'[i] \notin S /\ proc[cork'[i]].pc = "queued"
        BY <2>2, <2>3 DEF BatchInv
      <4> QED  BY <2>1, <4>1 DEF AllMove
    <3>2. ASSUME NEW i \in DOMAIN cork', NEW k \in DOMAIN cork', cork'[i] = cork'[k]
          PROVE  i = k
      <4>1. i + n = k + n
        BY <2>2, <3>2 DEF BatchInv
      <4> QED  BY <2>2, <4>1
    <3> QED  BY <3>1, <3>2
  <2>6. /\ \A T \in batches' : \A p \in T : proc'[p].pc = "send"
        /\ \A T, U \in batches' : \A p \in T : p \in U => T = U
    <3>1. ASSUME NEW T \in batches, NEW p \in T
          PROVE  proc'[p].pc = "send"
      <4>1. p \in Proc /\ p \notin S /\ proc[p].pc = "send"
        BY <2>4 DEF BatchInv
      <4> QED  BY <2>1, <4>1 DEF AllMove
    <3>2. \A p \in S : proc'[p].pc = "send"
      BY <2>1 DEF AllMove
    <3>3. \A T, U \in batches : \A p \in T : p \in U => T = U
      BY DEF BatchInv
    <3>4. \A T \in batches' : T = S \/ T \in batches
      BY <2>1
    <3> QED  BY <2>4, <3>1, <3>2, <3>3, <3>4
  <2> QED  BY <2>5, <2>6 DEF BatchInv
<1>11. ASSUME NEW S \in batches, Send(S) PROVE BatchInv'
  <2>1. AllMove(S, "update") /\ batches' = batches \ {S} /\ cork' = cork
    BY <1>11, SendMoves DEF Send
  <2>2. \A i \in DOMAIN cork : cork[i] \notin S
    BY DEF BatchInv
  <2> QED  BY <2>1, <2>2 DEF BatchInv, AllMove
<1>12. CASE RetryFailFiles
  BY <1>12, RetryFailFilesMoves, BatchStays DEF RetryFailFiles, net, Moves
<1>13. CASE RetrySendToolChains
  BY <1>13, RetrySendToolChainsMoves, BatchStays DEF RetrySendToolChains, net, Moves
<1>14. CASE ToolChange
  BY <1>14 DEF ToolChange, net, BatchInv
<1>15. CASE Restart
  BY <1>15 DEF Restart, BatchInv
<1>16. CASE CleanWorkerCache
  BY <1>16 DEF CleanWorkerCache, net, BatchInv
<1>17. CASE CleanFileCache
  BY <1>17 DEF CleanFileCache, BatchInv
<1> QED  BY <1>1, <1>2, <1>3, <1>4, <1>5, <1>6, <1>7, <1>8, <1>9, <1>10, <1>11, <1>12, <1>13,
            <1>14, <1>15, <1>16, <1>17 DEF Next, Step, ToolLoop

-----------------------------------------------------------------------------
(* Places.                                                                 *)

LEMMA PlaceStays ==
    ASSUME PlaceInv, NEW p \in Proc, Only(p), Placed(p)'
    PROVE  PlaceInv'
<1>1. ASSUME NEW q \in Proc, q # p
      PROVE  Placed(q)'
  <2>1. proc'[q] = proc[q] /\ Placed(q)
    BY <1>1 DEF Only, PlaceInv
  <2> QED  BY <2>1 DEF Placed
<1> QED  BY <1>1 DEF PlaceInv

LEMMA PlaceAllMove ==
    ASSUME PlaceInv, NEW S, NEW pc \in {"send", "update"}, AllMove(S, pc),
           \A p \in S \cap Proc : proc[p].pc \in Flow
    PROVE  PlaceInv'
<1>1. ASSUME NEW q \in Proc
      PROVE  Placed(q)'
  <2>1. Placed(q)
    BY DEF PlaceInv
  <2>2. CASE q \in S
    BY <2>1, <2>2 DEF Placed, AllMove, Flow
  <2>3. CASE q \notin S
    BY <2>1, <2>3 DEF Placed, AllMove
  <2> QED  BY <2>2, <2>3
<1> QED  BY <1>1 DEF PlaceInv

LEMMA PlaceReturn ==
    ASSUME TypeOK, PlaceInv, NEW p \in Proc, NEW ok \in BOOLEAN, Return(p, ok), proc[p].pc \in Flow
    PROVE  PlaceInv'
<1>1. PICK pc \in {"toolupdate", "idle", "done", "failed"} :
         /\ Answers(p, pc, IF ok THEN "ok" ELSE "failed")
         /\ pc = "toolupdate" <=> proc[p].file = proc[p].ver
         /\ pc = "idle" <=> p = FileRetrier /\ proc[p].file # proc[p].ver
  BY ReturnMoves
<1>2. Placed(p)
  BY DEF PlaceInv
<1>3. p = FileRetrier => pc = "idle"
  BY <1>1, <1>2, Constants DEF Placed
<1>4. pc = "toolupdate" => proc[p].ver \in Version
  BY <1>1, <1>2, <1>3, Constants, FilesAssumption DEF Placed, Flow
<1>5. Placed(p)'
  BY <1>1, <1>2, <1>3, <1>4 DEF Placed, Answers, Moves, Flow
<1> QED  BY <1>1, <1>5, PlaceStays DEF Answers, Moves

LEMMA PlaceGoto ==
    ASSUME TypeOK, PlaceInv, NEW p \in Proc, NEW pc, Goto(p, pc),
           \/ pc \in Flow /\ proc[p].pc \in Flow
           \/ pc \in {"toolwait", "toolcheck", "done", "failed"} /\ p # FileRetrier /\ proc[p].pc # "idle"
           \/ pc = "idle"
    PROVE  PlaceInv'
<1>1. Goes(p, pc) /\ Placed(p)
  BY GotoMoves DEF PlaceInv
<1>2. Placed(p)'
  BY <1>1 DEF Placed, Goes, Moves, Flow
<1> QED  BY <1>1, <1>2, PlaceStays DEF Goes, Moves

LEMMA PlaceStep ==
    ASSUME TypeOK, PlaceInv, BatchInv, Next
    PROVE  PlaceInv'
<1> USE Constants, CorkIn
<1>0. tool \in Version
  BY DEF TypeOK
<1>1. ASSUME NEW j \in Job, Start(j) PROVE PlaceInv'
  <2>1. Moves(j, "tool", proc[j].file, tool, proc[j].retry, proc[j].result)
    BY <1>1, StartMoves
  <2>2. Placed(j)'
    BY <1>0, <2>1, FilesAssumption DEF Moves, Placed, Flow
  <2> QED  BY <2>1, <2>2, PlaceStays DEF Moves
<1>2. ASSUME NEW j \in Job, ToolLoop(j) PROVE PlaceInv'
  <2>1. /\ proc[j].pc \in {"toolcheck", "toolfinish", "toolclear"} /\ Placed(j)
        /\ \/ Moves(j, "tool", proc[j].file, tool, proc[j].retry, proc[j].result)
           \/ \E pc \in {"toolclear", "toolfinish"} : Goes(j, pc)
           \/ Moves(j, "file", Input, proc[j].ver, FALSE, proc[j].result)
    BY <1>2, ToolLoopMoves DEF PlaceInv
  <2>2. Placed(j)'
    BY <1>0, <2>1, FilesAssumption DEF Goes, Moves, Placed, Flow, AtRest
  <2> QED  BY <2>1, <2>2, PlaceStays DEF Goes, Moves
<1>3. ASSUME NEW p \in Proc, CheckFileCollection(p) PROVE PlaceInv'
  <2>1. proc[p].pc = "tool" /\ Placed(p)
    BY <1>3 DEF CheckFileCollection, PlaceInv
  <2>2. CASE SendCollection(p)
    <3>1. Moves(p, "file", proc[p].ver, proc[p].ver,
                p = ToolRetrier /\ fail[proc[p].ver] # "none", proc[p].result)
      BY <2>2, SendCollectionMoves
    <3>2. p # FileRetrier /\ proc[p].ver \in Version /\ (p \in Job => p # ToolRetrier)
      BY <2>1, FilesAssumption DEF Placed, Flow
    <3>3. Placed(p)'
      BY <2>1, <3>1, <3>2 DEF Moves, Placed, Flow
    <3> QED  BY <3>1, <3>3, PlaceStays DEF Moves
  <2>3. CASE Goto(p, "idle") \/ Goto(p, "toolwait")
    <3>1. p # FileRetrier
      BY <2>1 DEF Placed, Flow
    <3> QED  BY <2>1, <2>3, <3>1, PlaceGoto
  <2> QED  BY <1>3, <2>2, <2>3 DEF CheckFileCollection
<1>4. ASSUME NEW p \in Proc, WaitCollection(p) PROVE PlaceInv'
  <2>1. proc[p].pc = "toolwait" /\ Placed(p)
    BY <1>4 DEF WaitCollection, PlaceInv
  <2>2. p # FileRetrier
    BY <2>1 DEF Placed, Flow
  <2> QED  BY <1>4, <2>1, <2>2, PlaceGoto DEF WaitCollection
<1>5. ASSUME NEW p \in Proc, CheckFile(p) PROVE PlaceInv'
  <2>1. proc[p].pc \in Flow /\ {"queued", "send", "filewait"} \subseteq Flow
    BY <1>5 DEF CheckFile, Flow
  <2> QED  BY <1>5, <2>1, PlaceGoto, PlaceReturn DEF CheckFile, Sender
<1>6. ASSUME NEW p \in Proc, WaitFile(p) PROVE PlaceInv'
  BY <1>6, PlaceReturn DEF WaitFile, Flow
<1>7. ASSUME NEW p \in Proc, UpdateSendFile(p) PROVE PlaceInv'
  <2>1. proc[p].pc \in Flow /\ "updatefail" \in Flow
    BY <1>7 DEF UpdateSendFile, Flow
  <2> QED  BY <1>7, <2>1, PlaceGoto, PlaceReturn DEF UpdateSendFile
<1>8. ASSUME NEW p \in Proc, UpdateFail(p) PROVE PlaceInv'
  BY <1>8, PlaceReturn DEF UpdateFail, Flow
<1>9. ASSUME NEW p \in Proc, UpdateFileCollectionStatus(p) PROVE PlaceInv'
  <2>1. proc[p].pc = "toolupdate" /\ Placed(p)
    BY <1>9 DEF UpdateFileCollectionStatus, PlaceInv
  <2>2. p # FileRetrier
    BY <2>1 DEF Placed, Flow
  <2> QED  BY <1>9, <2>1, <2>2, PlaceGoto DEF UpdateFileCollectionStatus
<1>10. CASE SendCork
  <2>1. PICK n \in 1..Len(cork), S \in SUBSET Proc :
          S = {cork[i] : i \in 1..n} /\ AllMove(S, "send")
    BY <1>10, SendCorkMoves
  <2>2. \A p \in S : proc[p].pc \in Flow
    BY <2>1 DEF BatchInv, Flow
  <2> QED  BY <2>1, <2>2, PlaceAllMove
<1>11. ASSUME NEW S \in batches, Send(S) PROVE PlaceInv'
  <2>1. AllMove(S, "update")
    BY <1>11, SendMoves
  <2>2. \A p \in S : proc[p].pc \in Flow
    BY DEF BatchInv, Flow
  <2> QED  BY <2>1, <2>2, PlaceAllMove
<1>12. CASE RetryFailFiles
  <2>1. PICK f \in File :
          Moves(FileRetrier, "file", f, proc[FileRetrier].ver, TRUE, proc[FileRetrier].result)
    BY <1>12, RetryFailFilesMoves
  <2>2. Placed(FileRetrier)
    BY DEF PlaceInv
  <2>3. Placed(FileRetrier)'
    BY <2>1, <2>2, FilesAssumption DEF Moves, Placed, Flow
  <2> QED  BY <2>1, <2>3, PlaceStays DEF Moves
<1>13. CASE RetrySendToolChains
  <2>1. Moves(ToolRetrier, "tool", proc[ToolRetrier].file, coll.ver,
              proc[ToolRetrier].retry, proc[ToolRetrier].result)
    BY <1>13, RetrySendToolChainsMoves
  <2>2. coll.ver \in Version
    BY <1>13 DEF RetrySendToolChains, CollIs, TypeOK
  <2>3. Placed(ToolRetrier)'
    BY <2>1, <2>2, FilesAssumption DEF Moves, Placed, Flow
  <2> QED  BY <2>1, <2>3, PlaceStays DEF Moves
<1>14. CASE ToolChange \/ Restart \/ CleanWorkerCache \/ CleanFileCache
  <2>1. proc' = proc
    BY <1>14 DEF ToolChange, Restart, CleanWorkerCache, CleanFileCache
  <2> QED  BY <2>1 DEF PlaceInv, Placed
<1> QED  BY <1>1, <1>2, <1>3, <1>4, <1>5, <1>6, <1>7, <1>8, <1>9, <1>10, <1>11, <1>12, <1>13,
            <1>14 DEF Next, Step, ToolLoop

\* Nobody begins to use the caches while they are emptied, or crossed says so.
LEMMA CleanStep ==
    ASSUME TypeOK, BatchInv, CleanInv, Next, ~crossed'
    PROVE  CleanInv'
<1> USE Constants, CorkIn
<1>1. ASSUME NEW j \in Job, Start(j) PROVE CleanInv'
  <2>1. Moves(j, "tool", proc[j].file, tool, proc[j].retry, proc[j].result) /\ cleaning' = cleaning
    BY <1>1, StartMoves DEF Start
  <2> QED  BY <2>1 DEF CleanInv, Affected, Moves, Only
<1>2. CASE cleaning' = 0
  BY <1>2 DEF CleanInv
<1>3. ASSUME NEW p \in Proc, cleaning' = cleaning, Affected(p) PROVE CleanInv'
  BY <1>3 DEF CleanInv
<1>4. ASSUME NEW p \in Proc, Amid, cleaning' = cleaning PROVE CleanInv'
  BY <1>4 DEF Amid, CleanInv
<1>5. ASSUME NEW j \in Job, ToolLoop(j) PROVE CleanInv'
  BY <1>3, <1>5, ToolLoopMoves, ToolLoopKeeps DEF Affected, AtRest, Proc
<1>6. ASSUME NEW p \in Proc, Step(p) PROVE CleanInv'
  <2>1. cleaning' = cleaning /\ (Amid \/ Affected(p))
    BY <1>6 DEF Step, CheckFileCollection, WaitCollection, CheckFile, WaitFile, UpdateSendFile,
                UpdateFail, UpdateFileCollectionStatus, Affected, AtRest
  <2> QED  BY <1>3, <1>4, <2>1
<1>7. CASE SendCork
  <2>1. cork # <<>> /\ cleaning' = cleaning
    BY <1>7 DEF SendCork
  <2>2. 1 \in DOMAIN cork
    BY <2>1 DEF TypeOK
  <2>3. Affected(cork[1])
    BY <2>2 DEF BatchInv, Affected, AtRest
  <2> QED  BY <1>3, <2>1, <2>2, <2>3
<1>8. ASSUME NEW S \in batches, Send(S) PROVE CleanInv'
  <2>1. AllMove(S, "update") /\ cleaning' = cleaning
    BY <1>8, SendMoves DEF Send
  <2>2. \A p \in S : Affected(p)
    BY DEF BatchInv, Affected, AtRest
  <2>3. CASE S = {}
    BY <2>1, <2>3 DEF AllMove, CleanInv, Affected
  <2> QED  BY <1>3, <2>1, <2>2, <2>3
<1>9. CASE RetryFailFiles \/ RetrySendToolChains
  BY <1>4, <1>9 DEF RetryFailFiles, RetrySendToolChains
<1>10. CASE ToolChange \/ Restart
  BY <1>10 DEF ToolChange, Restart, CleanInv, Affected
<1>11. CASE CleanWorkerCache \/ CleanFileCache
  <2>1. \A p \in Proc : ~Affected(p)
    BY <1>11 DEF CleanWorkerCache, CleanFileCache, Cross
  <2>2. proc' = proc
    BY <1>11 DEF CleanWorkerCache, CleanFileCache
  <2> QED  BY <2>1, <2>2 DEF CleanInv, Affected
<1> QED  BY <1>1, <1>5, <1>6, <1>7, <1>8, <1>9, <1>10, <1>11 DEF Next, ToolLoop

-----------------------------------------------------------------------------
(* Files.                                                                  *)

Owner == {"queued", "send", "update", "updatefail"}

\* What p owns after a step in which it keeps its file.
KeepsFile(p) == proc'[p].file = proc[p].file /\ proc'[p].retry = proc[p].retry

\* A step that leaves the marks, and those who own them.
LEMMA FileStays ==
    ASSUME TypeOK, FileInv, sent' = sent, fail' = fail, cleaning' # 2 => cleaning # 2,
           \A p \in Proc :
             /\ proc'[p].pc \in Owner <=> proc[p].pc \in Owner
             /\ proc[p].pc \in Owner =>
                  KeepsFile(p) /\ (proc'[p].pc = "updatefail" <=> proc[p].pc = "updatefail")
    PROVE  FileInv'
<1>1. \A p \in Proc, f \in File : Owns(p, f)' <=> Owns(p, f)
  BY DEF Owns, Owner, KeepsFile
<1>2. \A p \in Proc, f \in File : Owns(p, f) =>
        proc'[p].retry = proc[p].retry /\ (proc'[p].pc = "updatefail" <=> proc[p].pc = "updatefail")
  BY DEF Owns, Owner, KeepsFile
<1>3. (\A p \in Proc, f \in File : Owns(p, f) =>
         IF proc[p].retry THEN fail[f] = "sending"
         ELSE /\ fail[f] = "none"
              /\ sent[f] = IF proc[p].pc = "updatefail" THEN "failed" ELSE "sending")'
  BY <1>1, <1>2 DEF FileInv
<1>4. (\A p, q \in Proc, f \in File : Owns(p, f) /\ Owns(q, f) => p = q)'
  BY <1>1 DEF FileInv
<1>5. (cleaning # 2 => \A f \in File : fail[f] # "none" => sent[f] \in Terminated)'
  BY DEF FileInv
<1>6. (\A f \in File : fail[f] = "sending" => \E p \in Proc : Owns(p, f) /\ proc[p].retry)'
  BY <1>1, <1>2 DEF FileInv
<1> QED  BY <1>3, <1>4, <1>5, <1>6 DEF FileInv

\* One who owns no file, before and after, may do anything else.
LEMMA FileStaysOne ==
    ASSUME TypeOK, FileInv, sent' = sent, fail' = fail, cleaning' # 2 => cleaning # 2,
           NEW p \in Proc, Only(p), proc[p].pc \notin Owner, proc'[p].pc \notin Owner
    PROVE  FileInv'
BY FileStays DEF Only, KeepsFile

\* One who takes or has the mark of a file f: what has to hold of it, when all
\* others own other files.
FileOf(p, f) ==
    /\ Owns(p, f) =>
         IF proc[p].retry THEN fail[f] = "sending"
         ELSE /\ fail[f] = "none"
              /\ sent[f] = IF proc[p].pc = "updatefail" THEN "failed" ELSE "sending"
    /\ fail[f] # "none" => sent[f] \in Terminated
    /\ fail[f] = "sending" => Owns(p, f) /\ proc[p].retry

LEMMA FileMoves ==
    ASSUME TypeOK, FileInv, cleaning = 0, cleaning' = 0, NEW p \in Proc, Only(p),
           NEW f \in File, proc[p].file = f, KeepsFile(p),
           \A q \in Proc : q # p => ~Owns(q, f),
           \A g \in File : g # f => sent'[g] = sent[g] /\ fail'[g] = fail[g],
           FileOf(p, f)'
    PROVE  FileInv'
<1>1. \A q \in Proc, g \in File : q # p => (Owns(q, g)' <=> Owns(q, g))
  BY DEF Owns, Only
<1>2. \A g \in File : g # f => ~Owns(p, g) /\ ~Owns(p, g)'
  BY DEF Owns, KeepsFile
<1>3. \A q \in Proc : q # p => ~Owns(q, f)'
  BY <1>1
<1>4. ASSUME NEW q \in Proc, NEW g \in File, Owns(q, g)'
      PROVE  (IF proc[q].retry THEN fail[g] = "sending"
              ELSE /\ fail[g] = "none"
                   /\ sent[g] = IF proc[q].pc = "updatefail" THEN "failed" ELSE "sending")'
  <2>1. CASE q = p
    BY <1>2, <1>4, <2>1 DEF FileOf
  <2>2. CASE q # p
    <3>1. g # f /\ Owns(q, g) /\ proc'[q] = proc[q]
      BY <1>1, <1>3, <1>4, <2>2 DEF Only
    <3> QED  BY <3>1 DEF FileInv
  <2> QED  BY <2>1, <2>2
<1>5. (\A q, r \in Proc, g \in File : Owns(q, g) /\ Owns(r, g) => q = r)'
  BY <1>1, <1>2, <1>3 DEF FileInv
<1>6. (\A g \in File : fail[g] # "none" => sent[g] \in Terminated)'
  BY DEF FileInv, FileOf
<1>7. ASSUME NEW g \in File, fail'[g] = "sending"
      PROVE  \E q \in Proc : Owns(q, g)' /\ proc'[q].retry
  <2>1. CASE g = f
    BY <1>7, <2>1 DEF FileOf
  <2>2. CASE g # f
    <3>1. PICK q \in Proc : Owns(q, g) /\ proc[q].retry
      BY <1>7, <2>2 DEF FileInv
    <3>2. q # p
      BY <1>2, <2>2, <3>1
    <3> QED  BY <1>1, <3>1, <3>2 DEF Only
  <2> QED  BY <2>1, <2>2
<1> QED  BY <1>4, <1>5, <1>6, <1>7 DEF FileInv

LEMMA FileStep ==
    ASSUME TypeOK, BatchInv, PlaceInv, CleanInv, FileInv, Next, ~crossed'
    PROVE  FileInv'
<1> USE Constants, CorkIn
<1>0. \A p \in Proc : Affected(p) => cleaning = 0
  BY DEF CleanInv
<1>1. ASSUME NEW j \in Job, Start(j) PROVE FileInv'
  BY <1>1, StartMoves, FileStaysOne DEF Start, caches, Moves, Owner
<1>2. ASSUME NEW j \in Job, ToolLoop(j) PROVE FileInv'
  BY <1>2, ToolLoopMoves, ToolLoopKeeps, FileStaysOne DEF Goes, Moves, Owner
<1>3. ASSUME NEW p \in Proc, CheckFileCollection(p) PROVE FileInv'
  <2>1. proc[p].pc = "tool" /\ Only(p) /\ proc'[p].pc \in {"idle", "file", "toolwait"}
    BY <1>3, GotoMoves, SendCollectionMoves DEF CheckFileCollection, Goes, Moves
  <2> QED  BY <1>3, <2>1, FileStaysOne DEF CheckFileCollection, Owner
<1>4. ASSUME NEW p \in Proc, WaitCollection(p) PROVE FileInv'
  BY <1>4, GotoMoves, FileStaysOne DEF WaitCollection, caches, Goes, Moves, Owner
<1>5. ASSUME NEW p \in Proc, CheckFile(p) PROVE FileInv'
  <2>0. PICK f \in File : f = proc[p].file
    BY <1>5 DEF CheckFile, PlaceInv, Placed, Flow
  <2>1. proc[p].pc = "file" /\ cleaning = 0 /\ cleaning' = 0
    BY <2>0, <1>0, <1>5 DEF CheckFile, Affected, AtRest
  <2>2. fail[f] # "none" => sent[f] \in Terminated
    BY <2>0, <2>1 DEF FileInv
  <2>3. CASE /\ ~proc[p].retry /\ sent[f] = "none" /\ fail' = fail
             /\ sent' = [sent EXCEPT ![f] = "sending"] /\ Sender(p)
    <3>1. Only(p) /\ KeepsFile(p) /\ proc'[p].pc \in {"queued", "send"}
      BY <2>3, SenderMoves DEF Goes, Moves, KeepsFile
    <3>2. fail[f] = "none" /\ \A q \in Proc : ~Owns(q, f)
      BY <2>0, <2>1, <2>2, <2>3 DEF FileInv, Terminated
    <3>3. sent'[f] = "sending" /\ \A g \in File : g # f => sent'[g] = sent[g]
      BY <2>0, <2>1, <2>3 DEF TypeOK
    <3>4. FileOf(p, f)'
      BY <2>0, <2>3, <3>1, <3>2, <3>3 DEF FileOf, KeepsFile
    <3> QED  BY <2>0, <2>1, <2>3, <3>1, <3>2, <3>3, <3>4, FileMoves
  <2>4. CASE /\ proc[p].retry /\ fail[f] = "failed" /\ sent' = sent
             /\ fail' = [fail EXCEPT ![f] = "sending"] /\ Sender(p)
    <3>1. Only(p) /\ KeepsFile(p) /\ proc'[p].pc \in {"queued", "send"}
      BY <2>4, SenderMoves DEF Goes, Moves, KeepsFile
    <3>2. \A q \in Proc : ~Owns(q, f)
      BY <2>0, <2>1, <2>4 DEF FileInv
    <3>3. fail'[f] = "sending" /\ \A g \in File : g # f => fail'[g] = fail[g]
      BY <2>0, <2>1, <2>4 DEF TypeOK
    <3>4. FileOf(p, f)'
      BY <2>0, <2>2, <2>4, <3>1, <3>3 DEF FileOf, KeepsFile, Owns
    <3> QED  BY <2>0, <2>1, <2>4, <3>1, <3>2, <3>3, <3>4, FileMoves
  <2>5. CASE sent' = sent /\ fail' = fail /\ (Goto(p, "filewait") \/ Return(p, FALSE))
    <3>1. CASE Goto(p, "filewait")
      BY <2>0, <2>1, <2>5, <3>1, GotoMoves, FileStaysOne DEF Goes, Moves, Owner
    <3>2. CASE Return(p, FALSE)
      <4>1. Only(p) /\ proc'[p].pc \notin Owner
        BY <3>2, ReturnMoves DEF Answers, Moves, Owner
      <4> QED  BY <2>1, <2>5, <4>1, FileStaysOne DEF Owner
    <3> QED  BY <2>5, <3>1, <3>2
  <2> QED  BY <1>5, <2>0, <2>3, <2>4, <2>5 DEF CheckFile
<1>6. ASSUME NEW p \in Proc, WaitFile(p) PROVE FileInv'
  <2>1. Only(p) /\ proc'[p].pc \notin Owner
    BY <1>6, ReturnMoves DEF WaitFile, Answers, Moves, Owner
  <2> QED  BY <1>6, <2>1, FileStaysOne DEF WaitFile, caches, Owner
<1>7. ASSUME NEW p \in Proc, UpdateSendFile(p) PROVE FileInv'
  <2>0. PICK f \in File : f = proc[p].file
    BY <1>7 DEF UpdateSendFile, PlaceInv, Placed, Flow
  <2>1. /\ proc[p].pc = "update" /\ cleaning = 0 /\ cleaning' = 0
        /\ Status(p) \in Terminated /\ fail' = fail
    BY <2>0, <1>0, <1>7 DEF UpdateSendFile, Affected, AtRest, Status, Terminated
  <2>2. /\ Owns(p, f) /\ \A q \in Proc : q # p => ~Owns(q, f)
        /\ fail[f] # "none" => sent[f] \in Terminated
        /\ fail[f] = IF proc[p].retry THEN "sending" ELSE "none"
    BY <2>0, <2>1 DEF FileInv, Owns
  <2>3. /\ IF Status(p) = "ok" \/ ~proc[p].retry THEN sent'[f] = Status(p) ELSE sent' = sent
        /\ \A g \in File : g # f => sent'[g] = sent[g]
    BY <2>0, <1>7, <2>1 DEF UpdateSendFile, TypeOK
  <2>4. CASE proc[p].retry \/ Status(p) = "failed"
    <3>1. Goes(p, "updatefail")
      BY <1>7, <2>4, GotoMoves DEF UpdateSendFile, NeedToUpdateFail
    <3>2. Only(p) /\ KeepsFile(p) /\ Owns(p, f)' /\ proc'[p].pc = "updatefail"
      BY <2>0, <3>1 DEF Goes, Moves, KeepsFile, Owns
    <3>3. FileOf(p, f)'
      BY <2>0, <2>1, <2>2, <2>3, <2>4, <3>2 DEF FileOf, KeepsFile
    <3> QED  BY <2>0, <2>1, <2>2, <2>3, <3>2, <3>3, FileMoves
  <2>5. CASE ~proc[p].retry /\ Status(p) # "failed"
    <3>1. Return(p, proc[p].result = "ok")
      BY <2>0, <1>7, <2>5 DEF UpdateSendFile, NeedToUpdateFail
    <3>2. Only(p) /\ KeepsFile(p) /\ proc'[p].pc \notin Owner
      BY <3>1, ReturnMoves DEF Answers, Moves, KeepsFile, Owner
    <3>3. FileOf(p, f)'
      BY <2>0, <2>1, <2>2, <2>5, <3>2 DEF FileOf, Owns, Owner
    <3> QED  BY <2>0, <2>1, <2>2, <2>3, <3>2, <3>3, FileMoves
  <2> QED  BY <2>1, <2>4, <2>5
<1>8. ASSUME NEW p \in Proc, UpdateFail(p) PROVE FileInv'
  <2>0. PICK f \in File : f = proc[p].file
    BY <1>8 DEF UpdateFail, PlaceInv, Placed, Flow
  <2>1. /\ proc[p].pc = "updatefail" /\ cleaning = 0 /\ cleaning' = 0
        /\ Status(p) \in Terminated /\ sent' = sent
    BY <2>0, <1>0, <1>8 DEF UpdateFail, Affected, AtRest, Status, Terminated
  <2>2. /\ Owns(p, f) /\ \A q \in Proc : q # p => ~Owns(q, f)
        /\ sent[f] \in Terminated
    BY <2>0, <2>1 DEF FileInv, Owns, Terminated
  <2>3. fail'[f] = Status(p) /\ \A g \in File : g # f => fail'[g] = fail[g]
    BY <2>0, <1>8, <2>1 DEF UpdateFail, TypeOK
  <2>4. Only(p) /\ KeepsFile(p) /\ proc'[p].pc \notin Owner
    BY <1>8, ReturnMoves DEF UpdateFail, Answers, Moves, KeepsFile, Owner
  <2>5. FileOf(p, f)'
    BY <2>0, <2>1, <2>2, <2>3, <2>4 DEF FileOf, Owns, Owner, Terminated
  <2> QED  BY <2>0, <2>1, <2>2, <2>3, <2>4, <2>5, FileMoves
<1>9. ASSUME NEW p \in Proc, UpdateFileCollectionStatus(p) PROVE FileInv'
  <2>1. Only(p) /\ proc'[p].pc \notin Owner
    BY <1>9, GotoMoves DEF UpdateFileCollectionStatus, Goes, Moves, Owner
  <2> QED  BY <1>9, <2>1, FileStaysOne DEF UpdateFileCollectionStatus, Owner
<1>10. CASE SendCork
  <2>1. PICK n \in 1..Len(cork), S \in SUBSET Proc :
          S = {cork[i] : i \in 1..n} /\ AllMove(S, "send")
    BY <1>10, SendCorkMoves
  <2>2. \A p \in S : proc[p].pc = "queued"
    BY <2>1 DEF BatchInv
  <2>3. sent' = sent /\ fail' = fail /\ cleaning' = cleaning
    BY <1>10 DEF SendCork, caches
  <2> QED  BY <2>1, <2>2, <2>3, FileStays DEF AllMove, KeepsFile, Owner
<1>11. ASSUME NEW S \in batches, Send(S) PROVE FileInv'
  <2>1. AllMove(S, "update")
    BY <1>11, SendMoves
  <2>2. \A p \in S : proc[p].pc = "send"
    BY DEF BatchInv
  <2>3. sent' = sent /\ fail' = fail /\ cleaning' = cleaning
    BY <1>11 DEF Send, caches
  <2> QED  BY <2>1, <2>2, <2>3, FileStays DEF AllMove, KeepsFile, Owner
<1>12. CASE RetryFailFiles
  BY <1>12, RetryFailFilesMoves, FileStaysOne DEF RetryFailFiles, caches, Moves, Owner
<1>13. CASE RetrySendToolChains
  BY <1>13, RetrySendToolChainsMoves, FileStaysOne DEF RetrySendToolChains, caches, Moves, Owner
<1>14. CASE ToolChange \/ Restart
  BY <1>14, FileStays DEF ToolChange, Restart, caches, KeepsFile
<1>15. CASE CleanWorkerCache \/ CleanFileCache
  <2>1. \A p \in Proc : ~Affected(p) /\ proc'[p] = proc[p]
    BY <1>15 DEF CleanWorkerCache, CleanFileCache, Cross
  <2>2. \A p \in Proc : proc[p].pc \notin Owner
    BY <2>1 DEF Affected, AtRest, Owner
  <2>3. \A p \in Proc, f \in File : ~Owns(p, f) /\ ~Owns(p, f)'
    BY <2>1, <2>2 DEF Owns, Owner
  <2>4. \A f \in File : fail[f] # "sending"
    BY <2>3 DEF FileInv
  <2>5. CASE sent' = sent /\ fail' = fail /\ cleaning' = 1
    BY <2>1, <1>15, <2>3, <2>4, <2>5 DEF FileInv, CleanWorkerCache, CleanFileCache
  <2>6. CASE fail' = fail /\ cleaning' = 2
    BY <2>3, <2>4, <2>6 DEF FileInv
  <2>7. CASE \A f \in File : fail'[f] = "none"
    BY <2>3, <2>7 DEF FileInv
  <2>8. CASE fail' = Cleaned(fail)
    <3>1. \A f \in File : fail'[f] = "none"
      BY <2>4, <2>8 DEF Cleaned, Terminated, TypeOK, FileStatus
    <3> QED  BY <2>7, <3>1
  <2> QED  BY <1>15, <2>5, <2>6, <2>7, <2>8 DEF CleanWorkerCache, CleanFileCache, Unsent
<1> QED  BY <1>1, <1>2, <1>3, <1>4, <1>5, <1>6, <1>7, <1>8, <1>9, <1>10, <1>11, <1>12, <1>13,
            <1>14, <1>15 DEF Next, Step, ToolLoop

-----------------------------------------------------------------------------
(* The tool chain.                                                         *)

LEMMA OwnersOfTool ==
    ASSUME TypeOK, PlaceInv, NEW p \in Proc
    PROVE  /\ Relies(p) => OwnsTool(p)
           /\ OwnsTool(p) => proc[p].ver \in Version /\ p # FileRetrier
<1>1. Placed(p) /\ proc[p].ver \in {0} \cup Version
  BY DEF PlaceInv, TypeOK
<1>2. Relies(p) => OwnsTool(p)
  BY DEF Relies, OwnsTool, Flow
<1>3. OwnsTool(p) => proc[p].ver \in Version
  BY <1>1, Constants DEF OwnsTool, Placed
<1> QED  BY <1>1, <1>2, <1>3, Constants DEF Placed

\* The status of the tool chain stays, and p alone moves: it takes over no tool
\* chain, and lets fail no file but its own.
LEMMA ToolStays ==
    ASSUME TypeOK, PlaceInv, ToolInv, coll' = coll, cleaning' = 0 => cleaning = 0,
           NEW p \in Proc, Only(p),
           OwnsTool(p)' => OwnsTool(p) /\ proc'[p].ver = proc[p].ver,
           Relies(p)' => fail'[proc'[p].ver] \notin Unrepaired,
           p = ToolRetrier /\ proc'[p].pc = "tool" =>
             coll # None /\ coll.status = "failed" /\ coll.ver = proc'[p].ver,
           \A v \in Version : fail'[v] \in Unrepaired =>
             fail[v] \in Unrepaired \/ (OwnsTool(p) /\ proc[p].ver = v)
    PROVE  ToolInv'
<1>1. \A q \in Proc : q # p => /\ proc'[q] = proc[q]
                               /\ OwnsTool(q)' <=> OwnsTool(q)
                               /\ Relies(q)' <=> Relies(q)
  BY DEF Only, OwnsTool, Relies
<1>2. \A q \in Proc : OwnsTool(q)' => OwnsTool(q) /\ proc'[q].ver = proc[q].ver
  BY <1>1
<1>3. (\A q \in Proc : OwnsTool(q) =>
         coll # None /\ coll.status = "sending" /\ coll.ver = proc[q].ver)'
  BY <1>2 DEF ToolInv
<1>4. (\A q, r \in Proc : OwnsTool(q) /\ OwnsTool(r) => q = r)'
  BY <1>2 DEF ToolInv
<1>5. (cleaning = 0 => \A v \in Version : fail[v] \in Unrepaired =>
         coll # None /\ coll.ver = v /\ coll.status \in Unrepaired)'
  BY DEF ToolInv, Unrepaired
<1>6. ASSUME NEW q \in Proc, Relies(q)'
      PROVE  fail'[proc'[q].ver] \notin Unrepaired
  <2>1. CASE q # p
    <3>1. Relies(q) /\ OwnsTool(q) /\ proc[q].ver \in Version /\ proc'[q] = proc[q]
      BY <1>1, <1>6, <2>1, OwnersOfTool
    <3>2. fail[proc[q].ver] \notin Unrepaired /\ ~OwnsTool(p)
      BY <2>1, <3>1 DEF ToolInv
    <3> QED  BY <3>1, <3>2
  <2> QED  BY <1>6, <2>1
<1>7. (proc[ToolRetrier].pc = "tool" =>
         coll # None /\ coll.status = "failed" /\ coll.ver = proc[ToolRetrier].ver)'
  BY <1>1, Constants DEF ToolInv
<1> QED  BY <1>3, <1>4, <1>5, <1>6, <1>7 DEF ToolInv

\* Nobody deals with the tool chain afterwards: a status is as good as what is
\* recorded of its file.
LEMMA ToolIdle ==
    ASSUME \A p \in Proc : ~OwnsTool(p)' /\ ~Relies(p)',
           proc'[ToolRetrier].pc # "tool",
           cleaning' = 0 => \A v \in Version : fail'[v] \in Unrepaired =>
             coll' # None /\ coll'.ver = v /\ coll'.status \in Unrepaired
    PROVE  ToolInv'
BY DEF ToolInv

\* Those who move are about the same, and nothing else changes.
LEMMA ToolStaysAll ==
    ASSUME ToolInv, coll' = coll, fail' = fail, cleaning' = cleaning, NEW S, NEW pc \in {"send", "update"},
           AllMove(S, pc), \A p \in S \cap Proc : proc[p].pc \in Flow
    PROVE  ToolInv'
<1>1. \A p \in Proc : /\ proc'[p].ver = proc[p].ver
                      /\ OwnsTool(p)' => OwnsTool(p)
                      /\ Relies(p)' => Relies(p)
  BY DEF AllMove, OwnsTool, Relies, Flow
<1>2. proc'[ToolRetrier].pc = "tool" => proc[ToolRetrier].pc = "tool"
  BY Constants DEF AllMove
<1> QED  BY <1>1, <1>2, Constants DEF ToolInv

LEMMA ToolReturn ==
    ASSUME TypeOK, PlaceInv, ToolInv, NEW p \in Proc, NEW ok \in BOOLEAN, Return(p, ok),
           proc[p].pc \in Flow, coll' = coll, cleaning' = cleaning,
           ok /\ proc[p].file = proc[p].ver => fail'[proc[p].ver] \notin Unrepaired,
           \A v \in Version : fail'[v] \in Unrepaired =>
             fail[v] \in Unrepaired \/ (OwnsTool(p) /\ proc[p].ver = v)
    PROVE  ToolInv'
<1>1. PICK pc \in {"toolupdate", "idle", "done", "failed"} :
         /\ Answers(p, pc, IF ok THEN "ok" ELSE "failed")
         /\ pc = "toolupdate" <=> proc[p].file = proc[p].ver
  BY ReturnMoves
<1>2. /\ Only(p) /\ proc'[p].pc = pc /\ proc'[p].ver = proc[p].ver
      /\ proc'[p].result = IF ok THEN "ok" ELSE "failed"
  BY <1>1 DEF Answers, Moves
<1>3. OwnsTool(p)' => OwnsTool(p) /\ proc'[p].ver = proc[p].ver
  BY <1>1, <1>2 DEF OwnsTool, Flow
<1>4. Relies(p)' => fail'[proc'[p].ver] \notin Unrepaired
  BY <1>1, <1>2 DEF Relies
<1> QED  BY <1>2, <1>3, <1>4, ToolStays

LEMMA ToolGoto ==
    ASSUME TypeOK, PlaceInv, ToolInv, NEW p \in Proc, NEW pc, Goto(p, pc), coll' = coll,
           cleaning' = cleaning, pc # "tool", pc # "toolupdate",
           pc \in Flow => proc[p].pc \in Flow,
           pc \in {"file", "filewait"} => proc[p].pc \in {"file", "filewait"},
           \A v \in Version : fail'[v] \in Unrepaired => fail[v] \in Unrepaired
    PROVE  ToolInv'
<1>1. /\ Only(p) /\ proc'[p].pc = pc /\ proc'[p].file = proc[p].file
      /\ proc'[p].ver = proc[p].ver /\ proc'[p].retry = proc[p].retry
  BY GotoMoves DEF Goes, Moves
<1>2. OwnsTool(p)' => OwnsTool(p)
  BY <1>1 DEF OwnsTool
<1>3. Relies(p)' => Relies(p)
  BY <1>1 DEF Relies
<1>4. Relies(p)' => fail'[proc'[p].ver] \notin Unrepaired
  BY <1>1, <1>3, OwnersOfTool DEF ToolInv
<1> QED  BY <1>1, <1>2, <1>4, ToolStays

LEMMA ToolStep ==
    ASSUME TypeOK, BatchInv, PlaceInv, CleanInv, FileInv, ToolInv, Next, ~crossed', ~overlapped'
    PROVE  ToolInv'
<1> USE Constants, CorkIn
<1>0. \A p \in Proc : Affected(p) => cleaning = 0
  BY DEF CleanInv
<1>1. ASSUME NEW j \in Job, Start(j) PROVE ToolInv'
  <2>1. /\ Moves(j, "tool", proc[j].file, tool, proc[j].retry, proc[j].result)
        /\ coll' = coll /\ fail' = fail /\ cleaning' = cleaning /\ j # ToolRetrier
    BY <1>1, StartMoves, FilesAssumption DEF Start, caches
  <2>2. ~OwnsTool(j)' /\ ~Relies(j)'
    BY <2>1 DEF Moves, OwnsTool, Relies, Flow
  <2> QED  BY <2>1, <2>2, ToolStays DEF Moves
<1>2. ASSUME NEW j \in Job, ToolLoop(j) PROVE ToolInv'
  <2>1. /\ proc[j].pc \in {"toolcheck", "toolfinish", "toolclear"}
        /\ cleaning = 0 /\ cleaning' = cleaning /\ fail' = fail
        /\ j # ToolRetrier /\ j # FileRetrier /\ proc[j].ver \in Version
    BY <1>0, <1>2, ToolLoopMoves, ToolLoopKeeps, FilesAssumption DEF Affected, AtRest, PlaceInv, Placed
  <2>2. CASE coll' = coll
    <3>1. \/ Moves(j, "tool", proc[j].file, tool, proc[j].retry, proc[j].result)
          \/ \E pc \in {"toolclear", "toolfinish"} : Goes(j, pc)
          \/ Moves(j, "file", Input, proc[j].ver, FALSE, proc[j].result)
      BY <1>2, ToolLoopMoves
    <3>2. Only(j) /\ j # ToolRetrier
      BY <2>1, <3>1 DEF Goes, Moves
    <3>3. ~OwnsTool(j)' /\ ~Relies(j)'
      BY <2>1, <3>1 DEF Goes, Moves, OwnsTool, Relies, Flow
    <3> QED  BY <2>1, <2>2, <3>2, <3>3, ToolStays
  <2>3. CASE coll' # coll
    <3>1. coll' = None /\ CollIs({"ok"})
      BY <1>2, <2>3, ToolLoopKeeps
    <3>2. Moves(j, "tool", proc[j].file, tool, proc[j].retry, proc[j].result)
      BY <1>2, <2>3, ToolLoopMoves
    <3>3. /\ \A p \in Proc : ~OwnsTool(p) /\ ~Relies(p)
          /\ \A v \in Version : fail[v] \notin Unrepaired
          /\ proc[ToolRetrier].pc # "tool"
      BY <2>1, <3>1, OwnersOfTool DEF CollIs, ToolInv, Unrepaired
    <3>4. \A p \in Proc : ~OwnsTool(p)' /\ ~Relies(p)'
      BY <3>2, <3>3 DEF Moves, Only, OwnsTool, Relies, Flow
    <3>5. proc'[ToolRetrier].pc # "tool"
      BY <2>1, <3>2, <3>3 DEF Moves, Only
    <3> QED  BY <2>1, <3>3, <3>4, <3>5, ToolIdle
  <2> QED  BY <2>2, <2>3
<1>3. ASSUME NEW p \in Proc, CheckFileCollection(p) PROVE ToolInv'
  <2>1. /\ proc[p].pc = "tool" /\ cleaning = 0 /\ cleaning' = cleaning /\ fail' = fail
        /\ Placed(p)
    BY <1>3 DEF CheckFileCollection, Amid, CleanInv, PlaceInv
  <2>2. p # FileRetrier /\ proc[p].ver \in Version
    BY <2>1 DEF Placed, Flow
  <2>3. CASE Goto(p, "toolwait") /\ coll' = coll
    BY <2>1, <2>3, ToolGoto DEF Flow
  <2>4. CASE /\ coll = None \/ (p = ToolRetrier /\ CollIs({"failed"}))
             /\ coll' = [ver |-> IF coll = None THEN proc[p].ver ELSE coll.ver, status |-> "sending"]
             /\ (p = ToolRetrier /\ Goto(p, "idle")) \/ SendCollection(p)
    <3>1. /\ p = ToolRetrier => coll # None /\ coll.ver = proc[p].ver
          /\ p # ToolRetrier => coll = None
          /\ \A v \in Version : fail[v] \in Unrepaired => coll # None /\ coll.ver = v
          /\ \A q \in Proc : ~OwnsTool(q) /\ ~Relies(q)
          /\ p # ToolRetrier => proc[ToolRetrier].pc # "tool"
      BY <2>1, <2>4, OwnersOfTool DEF CollIs, ToolInv
    <3>2. coll' # None /\ coll'.ver = proc[p].ver /\ coll'.status = "sending"
      <4>1. coll' = [ver |-> proc[p].ver, status |-> "sending"]
        BY <2>4, <3>1
      <4> QED  BY <2>2, <4>1, FilesAssumption
    <3>3. /\ Only(p) /\ proc'[p].pc \in {"idle", "file"} /\ proc'[p].ver = proc[p].ver
          /\ proc'[p].pc = "file" /\ ~proc'[p].retry =>
               p # ToolRetrier \/ fail[proc[p].ver] = "none"
      <4>1. CASE p = ToolRetrier /\ Goto(p, "idle")
        BY <4>1, GotoMoves DEF Goes, Moves
      <4>2. CASE SendCollection(p)
        <5>1. Moves(p, "file", proc[p].ver, proc[p].ver,
                    p = ToolRetrier /\ fail[proc[p].ver] # "none", proc[p].result)
          BY <4>2, SendCollectionMoves
        <5> QED  BY <5>1 DEF Moves
      <4> QED  BY <2>4, <4>1, <4>2
    <3>4. \A q \in Proc : q # p => ~OwnsTool(q)' /\ ~Relies(q)'
      BY <3>1, <3>3 DEF Only, OwnsTool, Relies
    <3>5. Relies(p)' => fail'[proc'[p].ver] \notin Unrepaired
      <4>1. Relies(p)' => proc'[p].pc = "file" /\ ~proc'[p].retry
        BY <3>3 DEF Relies
      <4> QED  BY <2>1, <2>2, <3>1, <3>3, <4>1 DEF Unrepaired
    <3>6. proc'[ToolRetrier].pc # "tool"
      BY <3>1, <3>3 DEF Only
    <3>7. \A v \in Version : fail'[v] \in Unrepaired => coll'.ver = v
      BY <2>1, <3>1, <3>2
    <3> QED  BY <3>2, <3>3, <3>4, <3>5, <3>6, <3>7 DEF ToolInv, Unrepaired
  <2> QED  BY <1>3, <2>3, <2>4 DEF CheckFileCollection
<1>4. ASSUME NEW p \in Proc, WaitCollection(p) PROVE ToolInv'
  BY <1>4, ToolGoto DEF WaitCollection, caches, Flow
<1>5. ASSUME NEW p \in Proc, CheckFile(p) PROVE ToolInv'
  <2>0. PICK f \in File : f = proc[p].file
    BY <1>5 DEF CheckFile, PlaceInv, Placed, Flow
  <2>1. proc[p].pc = "file" /\ coll' = coll /\ cleaning' = cleaning
    BY <1>5 DEF CheckFile
  <2>2. \A v \in Version : fail'[v] \in Unrepaired => fail[v] \in Unrepaired
    <3>1. fail' = fail \/ (fail[f] = "failed" /\ fail' = [fail EXCEPT ![f] = "sending"])
      BY <1>5, <2>0 DEF CheckFile
    <3> QED  BY <3>1 DEF Unrepaired, TypeOK
  <2>3. CASE Goto(p, "queued") \/ Goto(p, "send") \/ Goto(p, "filewait")
    BY <2>1, <2>2, <2>3, ToolGoto DEF Flow
  <2>4. CASE Return(p, FALSE)
    BY <2>1, <2>2, <2>4, ToolReturn DEF Flow
  <2> QED  BY <1>5, <2>3, <2>4 DEF CheckFile, Sender
<1>6. ASSUME NEW p \in Proc, WaitFile(p) PROVE ToolInv'
  <2> DEFINE status == IF proc[p].retry THEN fail[proc[p].file] ELSE sent[proc[p].file]
  <2>1. /\ proc[p].pc = "filewait" /\ Return(p, status = "ok")
        /\ coll' = coll /\ cleaning' = cleaning /\ fail' = fail
    BY <1>6 DEF WaitFile, caches
  <2>2. status = "ok" /\ proc[p].file = proc[p].ver => fail'[proc[p].ver] \notin Unrepaired
    <3>1. ~proc[p].retry /\ proc[p].file = proc[p].ver => Relies(p)
      BY <2>1 DEF Relies
    <3> QED  BY <2>1, <3>1 DEF ToolInv, Unrepaired
  <2> HIDE DEF status
  <2> QED  BY <2>1, <2>2, ToolReturn DEF Flow
<1>7. ASSUME NEW p \in Proc, UpdateSendFile(p) PROVE ToolInv'
  <2>1. /\ proc[p].pc = "update" /\ proc[p].file \in File
        /\ coll' = coll /\ cleaning' = cleaning /\ fail' = fail
    BY <1>7 DEF UpdateSendFile, PlaceInv, Placed, Flow
  <2>2. CASE Goto(p, "updatefail")
    BY <2>1, <2>2, ToolGoto DEF Flow
  <2>3. CASE ~proc[p].retry /\ Return(p, proc[p].result = "ok")
    <3>1. fail[proc[p].file] = "none"
      BY <2>1, <2>3 DEF FileInv, Owns
    <3>2. proc[p].file = proc[p].ver => fail'[proc[p].ver] \notin Unrepaired
      BY <2>1, <3>1 DEF Unrepaired
    <3> QED  BY <2>1, <2>3, <3>2, ToolReturn DEF Flow
  <2> QED  BY <1>7, <2>2, <2>3 DEF UpdateSendFile, NeedToUpdateFail
<1>8. ASSUME NEW p \in Proc, UpdateFail(p) PROVE ToolInv'
  <2>0. PICK f \in File : f = proc[p].file
    BY <1>8 DEF UpdateFail, PlaceInv, Placed, Flow
  <2>1. /\ proc[p].pc = "updatefail" /\ Return(p, proc[p].result = "ok") /\ Placed(p)
        /\ coll' = coll /\ cleaning' = cleaning
        /\ fail'[f] = Status(p) /\ \A g \in File : g # f => fail'[g] = fail[g]
    BY <1>8, <2>0 DEF UpdateFail, TypeOK, PlaceInv
  <2>2. proc[p].result = "ok" /\ proc[p].file = proc[p].ver => fail'[proc[p].ver] \notin Unrepaired
    BY <2>0, <2>1 DEF Status, Unrepaired
  <2>3. ASSUME NEW v \in Version, fail'[v] \in Unrepaired
        PROVE  fail[v] \in Unrepaired \/ (OwnsTool(p) /\ proc[p].ver = v)
    <3>1. CASE v # f
      BY <2>1, <2>3, <3>1
    <3>2. CASE v = f /\ proc[p].retry
      BY <2>0, <2>1, <3>2 DEF FileInv, Owns, Unrepaired
    <3>3. CASE v = f /\ ~proc[p].retry
      <4>1. p # FileRetrier
        BY <2>1, <3>3 DEF Placed
      <4>2. proc[p].file = proc[p].ver
        BY <2>0, <2>1, <3>3, <4>1 DEF Placed, Flow
      <4> QED  BY <2>0, <2>1, <3>3, <4>2 DEF OwnsTool, Flow
    <3> QED  BY <3>1, <3>2, <3>3
  <2> QED  BY <2>1, <2>2, <2>3, ToolReturn DEF Flow
<1>9. ASSUME NEW p \in Proc, UpdateFileCollectionStatus(p) PROVE ToolInv'
  <2>1. /\ proc[p].pc = "toolupdate" /\ cleaning = 0 /\ fail' = fail /\ OwnsTool(p)
        /\ proc[p].result \in {"ok", "failed"} /\ proc[p].ver \in Version
    BY <1>0, <1>9 DEF UpdateFileCollectionStatus, Affected, AtRest, OwnsTool, PlaceInv, Placed
  <2>2. /\ coll # None /\ coll.status = "sending" /\ coll.ver = proc[p].ver
        /\ \A q \in Proc : q # p => ~OwnsTool(q) /\ ~Relies(q)
        /\ proc[ToolRetrier].pc # "tool"
    BY <2>1, OwnersOfTool DEF ToolInv
  <2>3. coll' # None /\ coll'.ver = proc[p].ver /\ coll'.status = proc[p].result
    <3>1. coll' = [ver |-> proc[p].ver, status |-> proc[p].result]
      BY <1>9, <2>2 DEF UpdateFileCollectionStatus
    <3> QED  BY <2>1, <3>1, FilesAssumption
  <2>4. Only(p) /\ proc'[p].pc \in {"idle", "toolcheck", "failed"}
    BY <1>9, GotoMoves DEF UpdateFileCollectionStatus, Goes, Moves
  <2>5. \A q \in Proc : ~OwnsTool(q)' /\ ~Relies(q)'
    BY <2>2, <2>4 DEF Only, OwnsTool, Relies, Flow
  <2>6. proc'[ToolRetrier].pc # "tool"
    BY <2>2, <2>4 DEF Only
  <2>7. \A v \in Version : fail'[v] \in Unrepaired => coll'.ver = v /\ proc[p].result = "failed"
    <3>1. \A v \in Version : fail[v] \in Unrepaired => v = proc[p].ver
      BY <2>1, <2>2 DEF ToolInv
    <3>2. proc[p].result = "ok" => fail[proc[p].ver] \notin Unrepaired
      BY <2>1 DEF ToolInv, Relies
    <3> QED  BY <2>1, <2>3, <3>1, <3>2
  <2> QED  BY <2>3, <2>5, <2>6, <2>7, ToolIdle DEF Unrepaired
<1>10. CASE SendCork
  <2>1. PICK n \in 1..Len(cork), S \in SUBSET Proc :
          S = {cork[i] : i \in 1..n} /\ AllMove(S, "send")
    BY <1>10, SendCorkMoves
  <2>2. \A p \in S : proc[p].pc \in Flow
    BY <2>1 DEF BatchInv, Flow
  <2> QED  BY <1>10, <2>1, <2>2, ToolStaysAll DEF SendCork, caches
<1>11. ASSUME NEW S \in batches, Send(S) PROVE ToolInv'
  <2>1. AllMove(S, "update")
    BY <1>11, SendMoves
  <2>2. \A p \in S : proc[p].pc \in Flow
    BY DEF BatchInv, Flow
  <2>3. coll' = coll /\ fail' = fail /\ cleaning' = cleaning
    BY <1>11 DEF Send, caches
  <2> QED  BY <2>1, <2>2, <2>3, ToolStaysAll
<1>12. CASE RetryFailFiles
  <2>1. PICK f \in File :
          Moves(FileRetrier, "file", f, proc[FileRetrier].ver, TRUE, proc[FileRetrier].result)
    BY <1>12, RetryFailFilesMoves
  <2>2. proc[FileRetrier].ver = 0
    BY DEF PlaceInv, Placed
  <2>3. ~OwnsTool(FileRetrier)' /\ ~Relies(FileRetrier)'
    BY <2>1, <2>2 DEF Moves, OwnsTool, Relies
  <2> QED  BY <1>12, <2>1, <2>3, ToolStays DEF RetryFailFiles, caches, Moves
<1>13. CASE RetrySendToolChains
  <2>1. Moves(ToolRetrier, "tool", proc[ToolRetrier].file, coll.ver,
              proc[ToolRetrier].retry, proc[ToolRetrier].result)
    BY <1>13, RetrySendToolChainsMoves
  <2>2. ~OwnsTool(ToolRetrier)' /\ ~Relies(ToolRetrier)'
    BY <2>1 DEF Moves, OwnsTool, Relies, Flow
  <2>3. coll # None /\ coll.status = "failed"
    BY <1>13 DEF RetrySendToolChains, CollIs
  <2> QED  BY <1>13, <2>1, <2>2, <2>3, ToolStays DEF RetrySendToolChains, caches, Moves
<1>14. CASE ToolChange \/ Restart
  BY <1>14 DEF ToolChange, Restart, caches, ToolInv, OwnsTool, Relies
<1>15. CASE CleanWorkerCache \/ CleanFileCache
  <2>1. \A p \in Proc : ~Affected(p) /\ proc'[p] = proc[p]
    BY <1>15 DEF CleanWorkerCache, CleanFileCache, Cross
  <2>2. /\ \A p \in Proc : proc[p].pc \notin Flow \cup {"toolupdate"}
        /\ proc[ToolRetrier].pc # "tool"
    BY <2>1, FilesAssumption DEF Affected, AtRest, Flow
  <2>3. \A p \in Proc : ~OwnsTool(p)' /\ ~Relies(p)'
    BY <2>1, <2>2 DEF OwnsTool, Relies, Flow
  <2>4. \A f \in File : fail[f] # "sending"
    BY <2>2 DEF FileInv, Owns, Flow
  <2>5. cleaning' = 0 => \A f \in File : fail'[f] = "none"
    <3>1. CASE CleanFileCache
      BY <3>1 DEF CleanFileCache, Unsent
    <3>2. CASE CleanWorkerCache
      <4>1. cleaning' = 0 => fail' = Cleaned(fail)
        BY <3>2 DEF CleanWorkerCache
      <4> QED  BY <2>4, <4>1 DEF Cleaned, Terminated, TypeOK, FileStatus
    <3> QED  BY <1>15, <3>1, <3>2
  <2> QED  BY <2>1, <2>2, <2>3, <2>5, ToolIdle DEF Unrepaired
<1> QED  BY <1>1, <1>2, <1>3, <1>4, <1>5, <1>6, <1>7, <1>8, <1>9, <1>10, <1>11, <1>12, <1>13,
            <1>14, <1>15 DEF Next, Step, ToolLoop

-----------------------------------------------------------------------------
(* Theorems.                                                               *)

\* What was crossed or overlapped stays so.
LEMMA HistoryStays ==
    ASSUME Next, ~crossed', ~overlapped', TypeOK
    PROVE  ~crossed /\ ~overlapped
BY DEF Next, Step, Start, CheckToolChain, ClearOldFileCollection, CheckFileCollection, WaitCollection,
       CheckFile, WaitFile,
       UpdateSendFile, UpdateFail, UpdateFileCollectionStatus, SendCork, Send, RetryFailFiles,
       RetrySendToolChains, ToolChange, Restart, CleanWorkerCache, CleanFileCache, Amid, Cross,
       hist, TypeOK

LEMMA NextFiles == FilesInv /\ [Next]_vars => FilesInv'
<1> SUFFICES ASSUME FilesInv, [Next]_vars
             PROVE  FilesInv'
  OBVIOUS
<1>0. TypeOK /\ BatchInv /\ PlaceInv
  BY DEF FilesInv
<1>1. CASE Next
  <2>1. TypeOK' /\ BatchInv' /\ PlaceInv'
    BY <1>0, <1>1, TypeStep, BatchStep, PlaceStep
  <2>2. ASSUME ~crossed', ~overlapped'
        PROVE  CleanInv' /\ FileInv' /\ ToolInv'
    <3>1. CleanInv /\ FileInv /\ ToolInv
      BY <1>0, <1>1, <2>2, HistoryStays DEF FilesInv
    <3> QED  BY <1>0, <1>1, <2>2, <3>1, CleanStep, FileStep, ToolStep
  <2> QED  BY <2>1, <2>2 DEF FilesInv
<1>2. CASE UNCHANGED vars
  <2>1. /\ TypeOK' /\ BatchInv' /\ PlaceInv'
    BY <1>0, <1>2 DEF vars, caches, net, hist, TypeOK, BatchInv, PlaceInv, Placed
  <2>2. /\ (CleanInv => CleanInv') /\ (FileInv => FileInv') /\ (ToolInv => ToolInv')
        /\ (crossed => crossed') /\ (overlapped => overlapped')
    BY <1>2 DEF vars, caches, net, hist, CleanInv, Affected, FileInv, Owns, ToolInv, OwnsTool, Relies
  <2> QED  BY <2>1, <2>2, Zenon DEF FilesInv
<1> QED  BY <1>1, <1>2

LEMMA FilesGiveOneSender == FilesInv => OneSender
<1> SUFFICES ASSUME FilesInv, ~crossed, ~overlapped,
                    NEW F \in {{Input}, Version}, NEW p \in Proc, NEW q \in Proc,
                    Sending(p, F), Sending(q, F)
             PROVE  p = q
  BY DEF OneSender
<1> USE Constants
<1>1. TypeOK /\ PlaceInv /\ CleanInv /\ FileInv /\ ToolInv
  BY DEF FilesInv
<1>2. /\ Owns(p, proc[p].file) /\ Owns(q, proc[q].file)
      /\ proc[p].file \in File /\ proc[q].file \in File
      /\ cleaning = 0
  <2>1. Affected(p)
    BY DEF Sending, Affected, AtRest
  <2> QED  BY <1>1, <2>1 DEF Sending, Owns, CleanInv
<1>3. SUFFICES ASSUME proc[p].file # proc[q].file
               PROVE  FALSE
  BY <1>1, <1>2 DEF FileInv
<1>4. proc[p].file \in Version /\ proc[q].file \in Version
  BY <1>3 DEF Sending
<1>5. ASSUME NEW r \in Proc, proc[r].file \in Version, Owns(r, proc[r].file)
      PROVE  coll.ver = proc[r].file /\ (r # FileRetrier => OwnsTool(r))
  <2>1. CASE r = FileRetrier
    <3>1. proc[r].retry
      BY <1>1, <1>5, <2>1 DEF PlaceInv, Placed, Owns
    <3>2. fail[proc[r].file] = "sending"
      BY <1>1, <1>5, <3>1 DEF FileInv
    <3> QED  BY <1>1, <1>2, <1>5, <2>1, <3>2 DEF ToolInv, Unrepaired
  <2>2. CASE r # FileRetrier
    <3>1. proc[r].pc \in Flow /\ proc[r].file = proc[r].ver
      BY <1>1, <1>5, <2>2 DEF PlaceInv, Placed, Owns, Flow
    <3> QED  BY <1>1, <3>1 DEF ToolInv, OwnsTool
  <2> QED  BY <2>1, <2>2
<1> QED  BY <1>2, <1>3, <1>4, <1>5

\* The invariant that ties the marks of the caches to those who left them.
THEOREM FilesAreInvariant == Spec => []FilesInv
BY InitFiles, NextFiles, PTL DEF Spec

\* No two callers send one file to the worker at once, nor two versions of the
\* tool chain, for any number of jobs, versions, failures and restarts (mgr.go
\* checkOrLockSendFile, checkOrLockFileCollection), unless the caches were
\* emptied, or the tool chain cleared, beside a sender.
THEOREM OneSenderAlways == Spec => []OneSender
BY FilesAreInvariant, FilesGiveOneSender, PTL
-----------------------------------------------------------------------------
(* What is at the worker.                                                  *)

ToolThere == has \cap Version # {}

\* A call that goes on knows what is at the worker.
Knows(p) ==
    /\ proc[p].pc \in {"update", "updatefail"} /\ proc[p].result = "ok" => proc[p].file \in has
    /\ proc[p].pc = "toolupdate" /\ proc[p].result = "ok" => ToolThere
    /\ p \in Job /\ (proc[p].pc \in {"toolcheck", "toolfinish"} \/ (proc[p].pc \in Flow /\ proc[p].file = Input)) =>
         ToolThere

\* Only a refused batch is recorded as sent and was not.
RefusedInv ==
    \A p \in Proc : corking /\ proc[p].pc \in {"update", "updatefail"} /\ proc[p].result = "retcode"
                      => refused

\* What is recorded as sent is at the worker, but in the caches that are still
\* to be emptied.
RecordedInv ==
    /\ cleaning # 1 => \A f \in File : sent[f] = "ok" => f \in has
    /\ cleaning = 0 => \A f \in File : fail[f] = "ok" => f \in has
    /\ CollIs({"ok"}) => ToolThere

KnownInv == RecordedInv /\ \A p \in Proc : Knows(p)

HasInv ==
    /\ crossed \/ CleanInv
    /\ RefusedInv
    /\ crossed \/ refused \/ ~noticed \/ KnownInv

LEMMA InitHas == Init => HasInv
<1> SUFFICES ASSUME Init PROVE HasInv
  OBVIOUS
<1>1. \A p \in Proc : proc[p].pc = "idle"
  BY DEF Init
<1>2. CleanInv /\ RefusedInv /\ \A p \in Proc : Knows(p)
  BY <1>1 DEF CleanInv, Affected, AtRest, RefusedInv, Knows, Flow
<1>3. RecordedInv
  BY DEF Init, RecordedInv, Unsent, CollIs
<1> QED  BY <1>2, <1>3 DEF HasInv, KnownInv

LEMMA ReturnEnds ==
    ASSUME TypeOK, NEW p \in Proc, NEW ok \in BOOLEAN, Return(p, ok), proc'[p].pc = "done"
    PROVE  ok /\ p # FileRetrier /\ proc[p].file # proc[p].ver
BY DEF TypeOK, Return

\* One who does not move knows what he knew.
LEMMA KnowsStays ==
    ASSUME NEW p \in Proc, Knows(p), proc'[p] = proc[p], has \subseteq has'
    PROVE  Knows(p)'
<1>1. ToolThere => ToolThere'
  BY DEF ToolThere
<1> QED  BY <1>1 DEF Knows

LEMMA KnowsStaysOne ==
    ASSUME NEW p \in Proc, \A q \in Proc : Knows(q), Only(p), has \subseteq has', Knows(p)'
    PROVE  \A q \in Proc : Knows(q)'
<1>1. ASSUME NEW q \in Proc, q # p PROVE Knows(q)'
  BY <1>1, KnowsStays DEF Only
<1> QED  BY <1>1

\* One who goes on with his file.
LEMMA KnowsFile ==
    ASSUME NEW p \in Proc, Knows(p), proc[p].pc \in Flow, has' = has,
           proc'[p].pc \in {"filewait", "queued", "send", "updatefail"},
           proc'[p].file = proc[p].file,
           proc'[p].pc = "updatefail" => proc[p].pc = "update" /\ proc'[p].result = proc[p].result
    PROVE  Knows(p)'
<1>1. ToolThere' <=> ToolThere
  BY DEF ToolThere
<1> QED  BY <1>1 DEF Knows

\* One who has an answer that his file is there.
LEMMA KnowsReturn ==
    ASSUME TypeOK, PlaceInv, NEW p \in Proc, NEW ok \in BOOLEAN, proc[p].pc \in Flow,
           Return(p, ok), has' = has, ok => proc[p].file \in has, \A q \in Proc : Knows(q)
    PROVE  \A q \in Proc : Knows(q)'
<1> USE Constants
<1>1. PICK pc \in {"toolupdate", "idle", "done", "failed"} :
        /\ Answers(p, pc, IF ok THEN "ok" ELSE "failed")
        /\ pc = "toolupdate" <=> proc[p].file = proc[p].ver
  BY ReturnMoves
<1>2. Only(p) /\ proc'[p].pc = pc /\ proc'[p].result = IF ok THEN "ok" ELSE "failed"
  BY <1>1 DEF Answers, Moves
<1>3. ASSUME pc = "toolupdate", ok PROVE ToolThere'
  <2>1. proc[p].file = proc[p].ver /\ proc[p].file \in has /\ proc[p].file \in File
    BY <1>1, <1>3 DEF PlaceInv, Placed
  <2>2. proc[p].ver \in Version
    BY <2>1 DEF PlaceInv, Placed, Flow
  <2> QED  BY <2>1, <2>2 DEF ToolThere
<1>4. Knows(p)'
  BY <1>2, <1>3 DEF Knows, Flow
<1> QED  BY <1>2, <1>4, KnowsStaysOne

LEMMA RefusedStays ==
    ASSUME Next
    PROVE  corking' = corking /\ (refused => refused')
<1>1. ASSUME NEW S \in batches, Send(S) PROVE corking' = corking /\ (refused => refused')
  <2>1. corking' = corking
    BY <1>1 DEF Send
  <2>2. PICK r \in {"ok", "retcode", "error"} :
          \/ UNCHANGED <<events, refused>>
          \/ refused' = (refused \/ (corking /\ r = "retcode"))
    BY <1>1 DEF Send
  <2>3. CASE UNCHANGED <<events, refused>>
    BY <2>1, <2>3
  <2>4. CASE refused' = (refused \/ (corking /\ r = "retcode"))
    BY <2>1, <2>4, Zenon
  <2> QED  BY <2>2, <2>3, <2>4
<1>2. ASSUME UNCHANGED <<corking, refused>> PROVE corking' = corking /\ (refused => refused')
  BY <1>2
<1>3. ASSUME NEW p \in Proc, Step(p) PROVE UNCHANGED <<corking, refused>>
  BY <1>3 DEF Step, CheckFileCollection, WaitCollection, CheckFile, WaitFile,
              UpdateSendFile, UpdateFail, UpdateFileCollectionStatus, hist
<1>4. ASSUME NEW j \in Job, Start(j) \/ ToolLoop(j) PROVE UNCHANGED <<corking, refused>>
  BY <1>4, ToolLoopKeeps DEF Start, hist
<1>5. ASSUME \/ SendCork \/ RetryFailFiles \/ RetrySendToolChains
             \/ ToolChange \/ Restart \/ CleanWorkerCache \/ CleanFileCache
      PROVE UNCHANGED <<corking, refused>>
  BY <1>5 DEF SendCork, RetryFailFiles, RetrySendToolChains, ToolChange, Restart, CleanWorkerCache,
              CleanFileCache, hist
<1> QED  BY <1>1, <1>2, <1>3, <1>4, <1>5 DEF Next, ToolLoop

LEMMA RefusedStep ==
    ASSUME TypeOK, BatchInv, RefusedInv, Next
    PROVE  RefusedInv'
<1> USE Constants
<1>0. corking' = corking /\ (refused => refused')
  BY RefusedStays
<1>1. ASSUME NEW p \in Proc, Only(p),
             proc'[p].pc \in {"update", "updatefail"} =>
               proc[p].pc \in {"update", "updatefail"} /\ proc'[p].result = proc[p].result
      PROVE  RefusedInv'
  BY <1>0, <1>1 DEF RefusedInv, Only
<1>2. ASSUME NEW j \in Job, Start(j) \/ ToolLoop(j) PROVE RefusedInv'
  <2>1. Only(j) /\ proc'[j].pc \in {"tool", "toolclear", "toolfinish", "file"}
    BY <1>2, StartMoves, ToolLoopMoves DEF Goes, Moves
  <2> QED  BY <1>1, <2>1
<1>3. ASSUME NEW p \in Proc, NEW pc, Goto(p, pc),
             pc \in {"update", "updatefail"} => proc[p].pc \in {"update", "updatefail"}
      PROVE  RefusedInv'
  BY <1>1, <1>3, GotoMoves DEF Goes, Moves
<1>4. ASSUME NEW p \in Proc, NEW ok \in BOOLEAN, Return(p, ok) PROVE RefusedInv'
  BY <1>1, <1>4, ReturnMoves DEF Answers, Moves
<1>5. ASSUME NEW p \in Proc, CheckFileCollection(p) PROVE RefusedInv'
  BY <1>1, <1>3, <1>5, SendCollectionMoves DEF CheckFileCollection, Moves
<1>6. ASSUME NEW p \in Proc, WaitCollection(p) PROVE RefusedInv'
  BY <1>3, <1>6 DEF WaitCollection
<1>7. ASSUME NEW p \in Proc, CheckFile(p) PROVE RefusedInv'
  <2>1. CASE Sender(p)
    BY <1>3, <2>1 DEF Sender
  <2>2. CASE Goto(p, "filewait") \/ Return(p, FALSE)
    BY <1>3, <1>4, <2>2
  <2> QED  BY <1>7, <2>1, <2>2 DEF CheckFile
<1>8. ASSUME NEW p \in Proc, WaitFile(p) PROVE RefusedInv'
  BY <1>4, <1>8 DEF WaitFile
<1>9. ASSUME NEW p \in Proc, UpdateSendFile(p) PROVE RefusedInv'
  BY <1>3, <1>4, <1>9 DEF UpdateSendFile
<1>10. ASSUME NEW p \in Proc, UpdateFail(p) PROVE RefusedInv'
  BY <1>4, <1>10 DEF UpdateFail
<1>11. ASSUME NEW p \in Proc, UpdateFileCollectionStatus(p) PROVE RefusedInv'
  BY <1>3, <1>11 DEF UpdateFileCollectionStatus
<1>12. CASE SendCork
  <2>1. PICK S \in SUBSET Proc : AllMove(S, "send")
    BY <1>12, SendCorkMoves
  <2> QED  BY <1>0, <2>1 DEF RefusedInv, AllMove
<1>13. ASSUME NEW S \in batches, Send(S) PROVE RefusedInv'
  <2>1. PICK r \in {"ok", "retcode", "error"} :
          /\ proc' = [p \in Proc |-> IF p \in S THEN [proc[p] EXCEPT !.pc = "update", !.result = r]
                                                ELSE proc[p]]
          /\ r = "retcode" /\ corking => refused'
    BY <1>13 DEF Send
  <2>2. ASSUME NEW p \in Proc, p \in S PROVE proc'[p].result = r
    <3>1. proc'[p] = [proc[p] EXCEPT !.pc = "update", !.result = r]
      BY <2>1, <2>2
    <3> QED  BY <3>1, RecordOf
  <2>3. \A p \in Proc : p \notin S => proc'[p] = proc[p]
    BY <2>1
  <2> QED  BY <1>0, <2>1, <2>2, <2>3 DEF RefusedInv
<1>14. CASE RetryFailFiles \/ RetrySendToolChains
  <2>1. \/ Only(FileRetrier) /\ proc'[FileRetrier].pc = "file"
        \/ Only(ToolRetrier) /\ proc'[ToolRetrier].pc = "tool"
    BY <1>14, RetryFailFilesMoves, RetrySendToolChainsMoves DEF Moves
  <2> QED  BY <1>1, <2>1
<1>15. CASE proc' = proc
  BY <1>0, <1>15 DEF RefusedInv
<1>16. ToolChange \/ Restart \/ CleanWorkerCache \/ CleanFileCache => proc' = proc
  BY DEF ToolChange, Restart, CleanWorkerCache, CleanFileCache
<1> QED  BY <1>2, <1>5, <1>6, <1>7, <1>8, <1>9, <1>10, <1>11, <1>12, <1>13, <1>14, <1>15, <1>16
         DEF Next, Step, ToolLoop


\* The caches that are recorded go with what is at the worker: for the steps
\* after which no cache says of a file that it is sent but those did before.
LEMMA RecordedStays ==
    ASSUME RecordedInv, has \subseteq has', cleaning' = cleaning,
           \A f \in File : sent'[f] = "ok" => sent[f] = "ok" \/ f \in has,
           \A f \in File : fail'[f] = "ok" => fail[f] = "ok" \/ f \in has,
           CollIs({"ok"})' => CollIs({"ok"}) \/ ToolThere
    PROVE  RecordedInv'
<1>1. ToolThere => ToolThere'
  BY DEF ToolThere
<1> QED  BY <1>1 DEF RecordedInv

LEMMA KnownStep ==
    ASSUME TypeOK, BatchInv, PlaceInv, CleanInv, RefusedInv, KnownInv, Next,
           ~Restart, ~CleanWorkerCache, ~refused'
    PROVE  KnownInv'
<1> USE Constants
<1>0. RecordedInv /\ (\A p \in Proc : Knows(p)) /\ ~refused
  BY RefusedStays DEF KnownInv
<1>1. ASSUME NEW p \in Proc, Only(p), Knows(p)', has' = has, cleaning' = cleaning,
             \A f \in File : sent'[f] = "ok" => sent[f] = "ok" \/ f \in has,
             \A f \in File : fail'[f] = "ok" => fail[f] = "ok" \/ f \in has,
             CollIs({"ok"})' => CollIs({"ok"}) \/ ToolThere
      PROVE  KnownInv'
  BY <1>0, <1>1, RecordedStays, KnowsStaysOne DEF KnownInv
<1>2. ASSUME NEW p \in Proc, NEW ok \in BOOLEAN, proc[p].pc \in Flow,
             Return(p, ok), ok => proc[p].file \in has, has' = has, cleaning' = cleaning,
             \A f \in File : sent'[f] = "ok" => sent[f] = "ok" \/ f \in has,
             \A f \in File : fail'[f] = "ok" => fail[f] = "ok" \/ f \in has,
             coll' = coll
      PROVE  KnownInv'
  <2>1. \A q \in Proc : Knows(q)'
    BY <1>0, <1>2, KnowsReturn
  <2>2. RecordedInv'
    BY <1>0, <1>2, RecordedStays DEF CollIs
  <2> QED  BY <2>1, <2>2 DEF KnownInv
<1>3. ASSUME NEW j \in Job, Start(j) PROVE KnownInv'
  <2>1. Moves(j, "tool", proc[j].file, tool, proc[j].retry, proc[j].result)
        /\ UNCHANGED <<sent, fail, coll, has, cleaning>>
    BY <1>3, StartMoves DEF Start, caches, net
  <2>2. Knows(j)'
    BY <2>1 DEF Knows, Moves, Flow
  <2> QED  BY <1>1, <2>1, <2>2 DEF Moves, CollIs
<1>4. ASSUME NEW j \in Job, ToolLoop(j) PROVE KnownInv'
  <2>1. /\ UNCHANGED <<sent, fail, has, cleaning>> /\ (coll' = coll \/ coll' = None)
        /\ Only(j)
        /\ \/ proc'[j].pc \in {"tool", "toolclear"}
           \/ proc[j].pc \in {"toolcheck", "toolfinish"} /\ proc'[j].pc \in {"toolfinish", "file"}
    BY <1>4, ToolLoopMoves, ToolLoopKeeps DEF Goes, Moves
  <2>2. Knows(j)'
    <3>1. /\ proc[j].pc \in {"toolcheck", "toolfinish"} => ToolThere
          /\ ToolThere => ToolThere'
      BY <1>0, <2>1 DEF Knows, ToolThere
    <3> QED  BY <2>1, <3>1 DEF Knows, Flow
  <2> QED  BY <1>1, <2>1, <2>2 DEF CollIs
<1>5. ASSUME NEW p \in Proc, CheckFileCollection(p) PROVE KnownInv'
  <2>1. /\ UNCHANGED <<sent, fail, has, cleaning>> /\ proc[p].pc = "tool"
        /\ coll' = coll \/ coll'.status = "sending"
    BY <1>5 DEF CheckFileCollection, net
  <2>2. \/ Goes(p, "idle") \/ Goes(p, "toolwait")
        \/ Moves(p, "file", proc[p].ver, proc[p].ver,
                 p = ToolRetrier /\ fail[proc[p].ver] # "none", proc[p].result)
    BY <1>5, GotoMoves, SendCollectionMoves DEF CheckFileCollection
  <2>3. Knows(p)'
    <3>1. p \in Job => proc[p].ver # Input
      BY <2>1 DEF PlaceInv, Placed
    <3> QED  BY <2>2, <3>1 DEF Knows, Goes, Moves, Flow
  <2> QED  BY <1>1, <2>1, <2>2, <2>3 DEF CollIs, Goes, Moves
<1>6. ASSUME NEW p \in Proc, WaitCollection(p) PROVE KnownInv'
  <2>1. UNCHANGED <<sent, fail, coll, has, cleaning>> /\ proc[p].pc = "toolwait"
    BY <1>6 DEF WaitCollection, caches, net
  <2>2. PICK pc \in {"idle", "toolcheck", "failed"} :
          Goes(p, pc) /\ (pc = "toolcheck" => CollIs({"ok"}))
    BY <1>6, GotoMoves DEF WaitCollection, CollIs
  <2>3. Knows(p)'
    <3>1. CollIs({"ok"}) => ToolThere'
      BY <1>0, <2>1 DEF RecordedInv, ToolThere
    <3> QED  BY <2>2, <3>1 DEF Knows, Goes, Moves, Flow
  <2> QED  BY <1>1, <2>1, <2>2, <2>3 DEF CollIs, Goes, Moves
<1>7. ASSUME NEW p \in Proc, CheckFile(p) PROVE KnownInv'
  <2>1. /\ proc[p].pc = "file" /\ UNCHANGED <<coll, has, cleaning>>
        /\ \A f \in File : sent'[f] = "ok" => sent[f] = "ok"
        /\ \A f \in File : fail'[f] = "ok" => fail[f] = "ok"
    BY <1>7 DEF CheckFile, TypeOK
  <2>2. CASE Return(p, FALSE)
    BY <1>2, <2>1, <2>2 DEF Flow
  <2>3. CASE Sender(p) \/ Goto(p, "filewait")
    <3>1. PICK pc \in {"queued", "send", "filewait"} : Goes(p, pc)
      BY <2>3, SenderMoves, GotoMoves
    <3>2. Knows(p)'
      BY <1>0, <2>1, <3>1, KnowsFile DEF Goes, Moves, Flow
    <3> QED  BY <1>1, <2>1, <3>1, <3>2 DEF CollIs, Goes, Moves
  <2> QED  BY <1>7, <2>2, <2>3 DEF CheckFile
<1>8. ASSUME NEW p \in Proc, WaitFile(p) PROVE KnownInv'
  <2>1. UNCHANGED <<sent, fail, coll, has, cleaning>> /\ proc[p].pc = "filewait"
    BY <1>8 DEF WaitFile, caches, net
  <2>2. cleaning = 0 /\ proc[p].file \in File
    BY <2>1 DEF CleanInv, Affected, AtRest, PlaceInv, Placed, Flow
  <2> DEFINE status == IF proc[p].retry THEN fail[proc[p].file] ELSE sent[proc[p].file]
  <2>3. Return(p, status = "ok")
    BY <1>8 DEF WaitFile
  <2>4. status = "ok" => proc[p].file \in has
    BY <1>0, <2>2 DEF RecordedInv
  <2> HIDE DEF status
  <2>5. (status = "ok") \in BOOLEAN /\ proc[p].pc \in Flow
    BY <2>1 DEF Flow
  <2> QED  BY <1>2, <2>1, <2>3, <2>4, <2>5
<1>9. ASSUME NEW p \in Proc, proc[p].pc \in {"update", "updatefail"}, Status(p) = "ok"
      PROVE  proc[p].result = "ok" /\ proc[p].file \in has
  BY <1>0, <1>9 DEF Status, RefusedInv, Knows
<1>10. ASSUME NEW p \in Proc, UpdateSendFile(p) PROVE KnownInv'
  <2>1. /\ UNCHANGED <<fail, coll, has, cleaning>> /\ proc[p].pc = "update"
        /\ \A f \in File : sent'[f] = "ok" => sent[f] = "ok" \/ f \in has
    <3>1. UNCHANGED <<fail, coll, has, cleaning>> /\ proc[p].pc = "update"
      BY <1>10 DEF UpdateSendFile, net
    <3>2. sent' = sent \/ sent' = [sent EXCEPT ![proc[p].file] = Status(p)]
      BY <1>10 DEF UpdateSendFile
    <3>3. \A f \in File : sent'[f] = sent[f] \/ (f = proc[p].file /\ sent'[f] = Status(p))
      BY <3>2 DEF TypeOK
    <3> QED  BY <1>9, <3>1, <3>3
  <2>2. CASE Return(p, proc[p].result = "ok")
    <3>1. proc[p].result = "ok" => proc[p].file \in has
      BY <1>0, <2>1 DEF Knows
    <3>2. (proc[p].result = "ok") \in BOOLEAN /\ proc[p].pc \in Flow
      BY <2>1 DEF Flow
    <3> QED  BY <1>2, <2>1, <2>2, <3>1, <3>2
  <2>3. CASE Goto(p, "updatefail")
    <3>1. Goes(p, "updatefail")
      BY <2>3, GotoMoves
    <3>2. Knows(p)'
      BY <1>0, <2>1, <3>1, KnowsFile DEF Goes, Moves, Flow
    <3> QED  BY <1>1, <2>1, <3>1, <3>2 DEF CollIs, Goes, Moves
  <2> QED  BY <1>10, <2>2, <2>3 DEF UpdateSendFile
<1>11. ASSUME NEW p \in Proc, UpdateFail(p) PROVE KnownInv'
  <2>1. /\ UNCHANGED <<sent, coll, has, cleaning>> /\ proc[p].pc = "updatefail"
        /\ \A f \in File : fail'[f] = "ok" => fail[f] = "ok" \/ f \in has
    <3>1. UNCHANGED <<sent, coll, has, cleaning>> /\ proc[p].pc = "updatefail"
      BY <1>11 DEF UpdateFail, net
    <3>2. \A f \in File : fail'[f] = fail[f] \/ (f = proc[p].file /\ fail'[f] = Status(p))
      BY <1>11 DEF UpdateFail, TypeOK
    <3> QED  BY <1>9, <3>1, <3>2
  <2>2. Return(p, proc[p].result = "ok")
    BY <1>11 DEF UpdateFail
  <2>3. proc[p].result = "ok" => proc[p].file \in has
    BY <1>0, <2>1 DEF Knows
  <2>4. (proc[p].result = "ok") \in BOOLEAN /\ proc[p].pc \in Flow
    BY <2>1 DEF Flow
  <2> QED  BY <1>2, <2>1, <2>2, <2>3, <2>4
<1>12. ASSUME NEW p \in Proc, UpdateFileCollectionStatus(p) PROVE KnownInv'
  <2>1. /\ UNCHANGED <<sent, fail, has, cleaning>> /\ proc[p].pc = "toolupdate"
        /\ coll'.status = proc[p].result
    BY <1>12 DEF UpdateFileCollectionStatus, net
  <2>2. PICK pc \in {"idle", "toolcheck", "failed"} :
          Goes(p, pc) /\ (pc = "toolcheck" => proc[p].result = "ok")
    BY <1>12, GotoMoves DEF UpdateFileCollectionStatus
  <2>3. proc[p].result = "ok" => ToolThere /\ ToolThere'
    BY <1>0, <2>1 DEF Knows, ToolThere
  <2>4. Knows(p)'
    BY <2>2, <2>3 DEF Knows, Goes, Moves, Flow
  <2> QED  BY <1>1, <2>1, <2>2, <2>3, <2>4 DEF CollIs, Goes, Moves
<1>13. ASSUME proc' = proc, has' = has, cleaning' = cleaning,
              \A f \in File : sent'[f] = "ok" => sent[f] = "ok",
              \A f \in File : fail'[f] = "ok" => fail[f] = "ok",
              CollIs({"ok"})' => CollIs({"ok"})
       PROVE  KnownInv'
  <2>1. \A q \in Proc : Knows(q)'
    BY <1>0, <1>13, KnowsStays
  <2> QED  BY <1>0, <1>13, <2>1, RecordedStays DEF KnownInv
<1>14. CASE SendCork
  <2>1. PICK n \in 1..Len(cork), S \in SUBSET Proc :
          S = {cork[i] : i \in 1..n} /\ AllMove(S, "send")
    BY <1>14, SendCorkMoves
  <2>2. UNCHANGED <<sent, fail, coll, has, cleaning>>
    BY <1>14 DEF SendCork, caches
  <2>3. ASSUME NEW q \in Proc PROVE Knows(q)'
    <3>1. CASE q \in S
      <4>1. proc[q].pc = "queued"
        BY <2>1, <3>1, CorkIn DEF BatchInv
      <4> QED  BY <1>0, <2>1, <2>2, <3>1, <4>1, KnowsFile DEF AllMove, Flow
    <3>2. CASE q \notin S
      BY <1>0, <2>1, <2>2, <3>2, KnowsStays DEF AllMove
    <3> QED  BY <3>1, <3>2
  <2> QED  BY <1>0, <2>2, <2>3, RecordedStays DEF KnownInv, CollIs
<1>15. ASSUME NEW S \in batches, Send(S) PROVE KnownInv'
  <2>1. PICK r \in {"ok", "retcode", "error"} :
          /\ proc' = [p \in Proc |-> IF p \in S THEN [proc[p] EXCEPT !.pc = "update", !.result = r]
                                                ELSE proc[p]]
          /\ has \subseteq has' /\ (r = "ok" => {proc[p].file : p \in S} \subseteq has')
    BY <1>15 DEF Send
  <2>2. UNCHANGED <<sent, fail, coll, cleaning>>
    BY <1>15 DEF Send, caches
  <2>3. ASSUME NEW q \in Proc PROVE Knows(q)'
    <3>1. CASE q \in S
      <4>1. proc[q].pc = "send"
        BY <3>1 DEF BatchInv
      <4>2. proc'[q] = [proc[q] EXCEPT !.pc = "update", !.result = r]
        BY <2>1, <3>1
      <4>3. proc'[q].pc = "update" /\ proc'[q].result = r /\ proc'[q].file = proc[q].file
        BY <4>2, RecordOf
      <4>4. r = "ok" => proc[q].file \in has'
        BY <2>1, <3>1
      <4>5. ToolThere => ToolThere'
        BY <2>1 DEF ToolThere
      <4> QED  BY <1>0, <4>1, <4>3, <4>4, <4>5 DEF Knows, Flow
    <3>2. CASE q \notin S
      <4>1. proc'[q] = proc[q]
        BY <2>1, <3>2
      <4> QED  BY <1>0, <2>1, <4>1, KnowsStays
    <3> QED  BY <3>1, <3>2
  <2> QED  BY <1>0, <2>1, <2>2, <2>3, RecordedStays DEF KnownInv, CollIs
<1>16. CASE RetryFailFiles \/ RetrySendToolChains
  <2>1. UNCHANGED <<sent, fail, coll, has, cleaning>>
    BY <1>16 DEF RetryFailFiles, RetrySendToolChains, caches, net
  <2>2. \/ Only(FileRetrier) /\ proc'[FileRetrier].pc = "file"
        \/ Only(ToolRetrier) /\ proc'[ToolRetrier].pc = "tool"
    BY <1>16, RetryFailFilesMoves, RetrySendToolChainsMoves DEF Moves
  <2>3. FileRetrier \notin Job /\ ToolRetrier \notin Job
    BY FilesAssumption
  <2>4. PICK p \in {FileRetrier, ToolRetrier} : Only(p) /\ proc'[p].pc \in {"file", "tool"}
    BY <2>2
  <2>5. p \in Proc /\ Knows(p)'
    BY <2>3, <2>4 DEF Knows
  <2> QED  BY <1>1, <2>1, <2>4, <2>5 DEF CollIs
<1>17. CASE ToolChange
  BY <1>13, <1>17 DEF ToolChange, caches, net, CollIs
<1>18. CASE CleanFileCache
  BY <1>13, <1>18 DEF CleanFileCache, Unsent, CollIs
<1> QED  BY <1>3, <1>4, <1>5, <1>6, <1>7, <1>8, <1>10, <1>11, <1>12, <1>14, <1>15, <1>16, <1>17,
            <1>18 DEF Next, Step, ToolLoop


LEMMA CleanKnows ==
    ASSUME TypeOK, CleanWorkerCache, ~crossed', noticed', noticed => KnownInv
    PROVE  KnownInv'
<1> USE Constants
<1>1. proc' = proc /\ has' = has /\ \A p \in Proc : ~Affected(p)
  BY DEF CleanWorkerCache, Cross, net
<1>2. \A p \in Proc : Knows(p)'
  BY <1>1 DEF Knows, Affected, AtRest, Flow
<1>3. CASE cleaning = 0
  <2>1. cleaning' = 1 /\ coll' = IF CollIs(Terminated) THEN None ELSE coll
    BY <1>3 DEF CleanWorkerCache
  <2>2. ~CollIs({"ok"})'
    BY <2>1 DEF CollIs, Terminated
  <2> QED  BY <1>2, <2>1, <2>2 DEF KnownInv, RecordedInv
<1>4. CASE cleaning # 0
  <2>0. \/ cleaning = 1 /\ cleaning' = 2 /\ sent' = Cleaned(sent)
           /\ UNCHANGED <<noticed, coll, fail>>
        \/ cleaning = 2 /\ cleaning' = 0 /\ fail' = Cleaned(fail)
           /\ UNCHANGED <<noticed, coll, sent>>
    BY <1>4, Zenon DEF CleanWorkerCache
  <2>a. noticed' = noticed /\ coll' = coll /\ cleaning \in {1, 2}
    BY <2>0
  <2>b. cleaning = 1 => cleaning' = 2 /\ sent' = Cleaned(sent) /\ fail' = fail
    BY <2>0
  <2>c. cleaning = 2 => cleaning' = 0 /\ fail' = Cleaned(fail) /\ sent' = sent
    BY <2>0
  <2>1. /\ cleaning \in {1, 2} /\ noticed' = noticed /\ coll' = coll
        /\ cleaning = 1 => cleaning' = 2 /\ sent' = Cleaned(sent) /\ fail' = fail
        /\ cleaning = 2 => cleaning' = 0 /\ fail' = Cleaned(fail) /\ sent' = sent
    BY <2>a, <2>b, <2>c, Zenon
  <2>2. KnownInv
    BY <2>1
  <2>3. \A status : \A f \in File : Cleaned(status)[f] # "ok"
    BY DEF Cleaned, Terminated
  <2>4. CollIs({"ok"})' => ToolThere'
    BY <1>1, <2>1, <2>2 DEF KnownInv, RecordedInv, CollIs, ToolThere
  <2>5. RecordedInv'
    BY <1>1, <2>1, <2>2, <2>3, <2>4 DEF KnownInv, RecordedInv
  <2> QED  BY <1>2, <2>5 DEF KnownInv
<1> QED  BY <1>3, <1>4


LEMMA NoticedStays ==
    ASSUME Next, ~CleanWorkerCache, noticed'
    PROVE  noticed
<1>1. ASSUME NEW p \in Proc, Step(p) PROVE noticed' = noticed
  BY <1>1 DEF Step, CheckFileCollection, WaitCollection, CheckFile, WaitFile,
              UpdateSendFile, UpdateFail, UpdateFileCollectionStatus
<1>2. ASSUME NEW j \in Job, Start(j) \/ ToolLoop(j) PROVE noticed' = noticed
  BY <1>2, ToolLoopKeeps DEF Start
<1>3. ASSUME NEW S \in batches, Send(S) PROVE noticed' = noticed
  BY <1>3 DEF Send
<1>4. SendCork \/ RetryFailFiles \/ RetrySendToolChains \/ ToolChange \/ CleanFileCache
        => noticed' = noticed
  BY DEF SendCork, RetryFailFiles, RetrySendToolChains, ToolChange, CleanFileCache
<1>5. Restart => noticed' = FALSE
  BY DEF Restart
<1> QED  BY <1>1, <1>2, <1>3, <1>4, <1>5 DEF Next, ToolLoop

LEMMA CrossedStays ==
    ASSUME Next, ~crossed'
    PROVE  ~crossed
<1>1. ASSUME NEW p \in Proc, Step(p) PROVE crossed => crossed'
  BY <1>1, Zenon DEF Step, CheckFileCollection, WaitCollection, CheckFile, WaitFile, Amid, hist,
              UpdateSendFile, UpdateFail, UpdateFileCollectionStatus
<1>2. ASSUME NEW j \in Job, Start(j) \/ ToolLoop(j) PROVE crossed => crossed'
  BY <1>2, ToolLoopKeeps DEF Start, hist
<1>3. ASSUME NEW S \in batches, Send(S) PROVE crossed => crossed'
  BY <1>3 DEF Send
<1>4. RetryFailFiles \/ RetrySendToolChains => (crossed => crossed')
  BY Zenon DEF RetryFailFiles, RetrySendToolChains, Amid
<1>5. CleanWorkerCache \/ CleanFileCache => (crossed => crossed')
  BY Zenon DEF CleanWorkerCache, CleanFileCache, Cross
<1>6. SendCork \/ ToolChange \/ Restart => (crossed => crossed')
  BY DEF SendCork, ToolChange, Restart, hist
<1> QED  BY <1>1, <1>2, <1>3, <1>4, <1>5, <1>6 DEF Next, ToolLoop

LEMMA HasStep == FilesInv /\ HasInv /\ [Next]_vars => HasInv'
<1> SUFFICES ASSUME FilesInv, HasInv, [Next]_vars PROVE HasInv'
  OBVIOUS
<1>0. TypeOK /\ BatchInv /\ PlaceInv
  BY DEF FilesInv
<1>1. CASE Next
  <2>1. RefusedInv'
    BY <1>0, <1>1, RefusedStep DEF HasInv
  <2>2. ASSUME ~crossed' PROVE ~crossed /\ CleanInv /\ CleanInv'
    <3>1. ~crossed /\ CleanInv
      BY <1>1, <2>2, CrossedStays DEF HasInv
    <3> QED  BY <1>0, <1>1, <2>2, <3>1, CleanStep
  <2>3. ASSUME ~crossed', ~refused', noticed' PROVE KnownInv'
    <3>1. ~refused /\ (noticed => KnownInv)
      BY <1>1, <2>2, <2>3, RefusedStays DEF HasInv
    <3>2. CASE CleanWorkerCache
      BY <1>0, <2>3, <3>1, <3>2, CleanKnows
    <3>3. CASE ~CleanWorkerCache
      <4>1. noticed /\ ~Restart
        BY <1>1, <2>3, <3>3, NoticedStays DEF Restart
      <4> QED  BY <1>0, <1>1, <2>2, <2>3, <3>1, <3>3, <4>1, KnownStep DEF HasInv
    <3> QED  BY <3>2, <3>3
  <2> QED  BY <2>1, <2>2, <2>3, Zenon DEF HasInv
<1>2. CASE UNCHANGED vars
  <2>1. /\ CleanInv => CleanInv'
        /\ RefusedInv => RefusedInv'
    BY <1>2 DEF vars, caches, net, hist, CleanInv, Affected, RefusedInv
  <2>2. KnownInv => KnownInv'
    BY <1>2 DEF vars, caches, net, hist, KnownInv, RecordedInv, Knows, ToolThere, CollIs
  <2>3. (crossed => crossed') /\ (refused => refused') /\ (~noticed => ~noticed')
    BY <1>2 DEF vars, hist
  <2> QED  BY <2>1, <2>2, <2>3, Zenon DEF HasInv
<1> QED  BY <1>1, <1>2

\* A job ends with the answer about its input.
LEMMA DoneWithInput ==
    ASSUME TypeOK, PlaceInv, BatchInv, Next, NEW j \in Job, proc[j].pc # "done", proc'[j].pc = "done"
    PROVE  /\ proc[j].pc \in Flow /\ proc[j].file = Input
           /\ \/ WaitFile(j) /\ Return(j, sent[Input] = "ok") /\ sent[Input] = "ok"
              \/ /\ proc[j].pc \in {"update", "updatefail"} /\ proc[j].result = "ok"
<1> USE Constants
<1>1. ASSUME NEW p \in Proc, Only(p), proc'[p].pc # "done" PROVE FALSE
  BY <1>1 DEF Only
<1>2. ASSUME NEW k \in Job, Start(k) \/ ToolLoop(k) PROVE FALSE
  <2>1. Only(k) /\ proc'[k].pc \in {"tool", "toolclear", "toolfinish", "file"}
    BY <1>2, StartMoves, ToolLoopMoves DEF Goes, Moves
  <2> QED  BY <1>1, <2>1
<1>3. ASSUME NEW p \in Proc, NEW pc, Goto(p, pc), pc # "done" PROVE FALSE
  BY <1>1, <1>3, GotoMoves DEF Goes, Moves
<1>4. ASSUME NEW p \in Proc, NEW ok \in BOOLEAN, Return(p, ok), proc[p].pc \in Flow
      PROVE  p = j /\ ok /\ proc[j].pc \in Flow /\ proc[j].file = Input
  <2>1. Only(p)
    BY <1>4, ReturnMoves DEF Answers, Moves
  <2>2. p = j
    BY <2>1 DEF Only
  <2>3. ok /\ proc[j].file # proc[j].ver
    BY <1>4, <2>2, ReturnEnds
  <2> QED  BY <1>4, <2>2, <2>3 DEF PlaceInv, Placed
<1>5. ASSUME NEW p \in Proc, CheckFileCollection(p) PROVE FALSE
  BY <1>1, <1>3, <1>5, SendCollectionMoves DEF CheckFileCollection, Moves
<1>6. ASSUME NEW p \in Proc, WaitCollection(p) PROVE FALSE
  BY <1>3, <1>6 DEF WaitCollection
<1>7. ASSUME NEW p \in Proc, CheckFile(p) PROVE FALSE
  <2>1. CASE Sender(p) \/ Goto(p, "filewait")
    BY <1>3, <2>1 DEF Sender
  <2>2. CASE Return(p, FALSE)
    BY <1>4, <1>7, <2>2 DEF CheckFile, Flow
  <2> QED  BY <1>7, <2>1, <2>2 DEF CheckFile
<1>8. ASSUME NEW p \in Proc, UpdateFileCollectionStatus(p) PROVE FALSE
  BY <1>3, <1>8 DEF UpdateFileCollectionStatus
<1>9. CASE SendCork
  <2>1. PICK S \in SUBSET Proc : AllMove(S, "send")
    BY <1>9, SendCorkMoves
  <2> QED  BY <2>1 DEF AllMove
<1>10. ASSUME NEW S \in batches, Send(S) PROVE FALSE
  <2>1. AllMove(S, "update")
    BY <1>10, SendMoves
  <2> QED  BY <2>1 DEF AllMove
<1>11. CASE RetryFailFiles \/ RetrySendToolChains
  <2>1. \/ Only(FileRetrier) /\ proc'[FileRetrier].pc = "file"
        \/ Only(ToolRetrier) /\ proc'[ToolRetrier].pc = "tool"
    BY <1>11, RetryFailFilesMoves, RetrySendToolChainsMoves DEF Moves
  <2> QED  BY <1>1, <2>1
<1>12. ToolChange \/ Restart \/ CleanWorkerCache \/ CleanFileCache => FALSE
  BY DEF ToolChange, Restart, CleanWorkerCache, CleanFileCache
<1>13. ASSUME NEW p \in Proc, UpdateSendFile(p) \/ UpdateFail(p)
       PROVE  /\ proc[j].pc \in Flow /\ proc[j].file = Input
              /\ proc[j].pc \in {"update", "updatefail"} /\ proc[j].result = "ok"
  <2>1. proc[p].pc \in {"update", "updatefail"} /\ (proc[p].result = "ok") \in BOOLEAN
    BY <1>13 DEF UpdateSendFile, UpdateFail
  <2>2. Return(p, proc[p].result = "ok")
    BY <1>3, <1>13 DEF UpdateSendFile, UpdateFail
  <2> QED  BY <1>4, <2>1, <2>2 DEF Flow
<1>14. ASSUME NEW p \in Proc, WaitFile(p)
       PROVE  /\ proc[j].pc \in Flow /\ proc[j].file = Input
              /\ WaitFile(j) /\ Return(j, sent[Input] = "ok") /\ sent[Input] = "ok"
  <2> DEFINE status == IF proc[p].retry THEN fail[proc[p].file] ELSE sent[proc[p].file]
  <2>1. Return(p, status = "ok") /\ proc[p].pc = "filewait"
    BY <1>14 DEF WaitFile
  <2>2. (status = "ok") \in BOOLEAN /\ proc[p].pc \in Flow
    BY <2>1 DEF Flow
  <2>3. p = j /\ status = "ok" /\ proc[j].pc \in Flow /\ proc[j].file = Input
    <3> HIDE DEF status
    <3> QED  BY <1>4, <2>1, <2>2
  <2>4. ~proc[j].retry
    BY <2>3 DEF PlaceInv, Placed
  <2>5. status = sent[Input]
    BY <2>3, <2>4
  <2> HIDE DEF status
  <2> QED  BY <1>14, <2>1, <2>3, <2>5
<1> QED  BY <1>2, <1>5, <1>6, <1>7, <1>8, <1>9, <1>10, <1>11, <1>12, <1>13, <1>14 DEF Next, Step, ToolLoop

LEMMA DoneHasFiles ==
    FilesInv /\ HasInv /\ [Next]_vars =>
      [\A j \in Job : proc[j].pc # "done" /\ proc'[j].pc = "done" =>
         \/ crossed \/ refused \/ ~noticed
         \/ Input \in has /\ has \cap Version # {}]_vars
<1> SUFFICES ASSUME FilesInv, HasInv, Next, NEW j \in Job,
                    proc[j].pc # "done", proc'[j].pc = "done", ~crossed, ~refused, noticed
             PROVE  Input \in has /\ has \cap Version # {}
  OBVIOUS
<1> USE Constants
<1>1. TypeOK /\ PlaceInv /\ BatchInv /\ CleanInv /\ RecordedInv /\ Knows(j)
  BY DEF FilesInv, HasInv, KnownInv
<1>2. /\ proc[j].pc \in Flow /\ proc[j].file = Input
      /\ \/ WaitFile(j) /\ Return(j, sent[Input] = "ok") /\ sent[Input] = "ok"
         \/ /\ proc[j].pc \in {"update", "updatefail"} /\ proc[j].result = "ok"
  BY <1>1, DoneWithInput
<1>3. cleaning = 0
  BY <1>1, <1>2 DEF CleanInv, Affected, AtRest, Flow
<1>4. Input \in has
  BY <1>1, <1>2, <1>3 DEF RecordedInv, Knows
<1>5. has \cap Version # {}
  BY <1>1, <1>2 DEF Knows, ToolThere
<1> QED  BY <1>4, <1>5

\* A record of a cache says of a file that it is at the worker only if it is.
THEOREM HasIsInvariant == Spec => []HasInv
<1>1. FilesInv /\ HasInv /\ [Next]_vars => HasInv'
  BY HasStep
<1> QED  BY <1>1, InitHas, FilesAreInvariant, PTL DEF Spec

\* A job that goes on to its execution has its input file and a tool chain at
\* the worker, for any number of jobs, versions, failures and restarts, unless
\* the caches were emptied beside it, a batch was refused, or the controller
\* does not know yet that the worker was restarted.
THEOREM JobAlwaysHasItsFiles == Spec => JobHasItsFiles
BY FilesAreInvariant, HasIsInvariant, DoneHasFiles, PTL DEF Spec, JobHasItsFiles

=============================================================================
