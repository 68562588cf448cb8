------------------------------ MODULE Recovery ------------------------------
(***************************************************************************)
(* The recovery of pieces a provider has lost: the manager's recovery      *)
(* queue (modular/manager), the executors that run its tasks               *)
(* (modular/executor) and the gateways of the other providers that answer  *)
(* them (modular/gater, admin_handler.go).  A lost segment is decoded from *)
(* DataShards of the pieces its secondary providers hold, which one        *)
(* goroutine per secondary fetches; a lost piece of an object for which    *)
(* this provider is a secondary comes from the primary provider.           *)
(*                                                                         *)
(* A task is a pointer: the queue, a dispatch that has not incremented its *)
(* retry counter yet and the handler of a failure that has popped it share *)
(* one record of the sequence `rtask'.  The requests that report lost pieces *)
(* are in the module Download.                                             *)
(***************************************************************************)
EXTENDS TQueueOps, Sequences

CONSTANTS Segments,     \* the segments of an object this provider is primary of
          ECPieces,     \* pieces of objects it is a secondary of
          Secondaries,  \* the secondary providers of the first object
          OtherContents, \* what a secondary may hold
          DataShards,   \* redundant data chunks
          MaxRetry,     \* TaskMaxRetry of a recovery task
          RecoveryCap,  \* GlobalRecoveryPieceParallel
          Executors,
          MaxTasks,     \* bound: recovery tasks made
          MaxLost       \* bound: pieces the store loses

Pieces == Segments \cup ECPieces

ASSUME PiecesAssumption ==
  Segments \subseteq Nat /\ ECPieces \subseteq Nat /\ Segments \cap ECPieces = {}
Contents == {"good", "bad", "lost"}

ASSUME ContentsAssumption == OtherContents \subseteq Contents
ASSUME ShardsAssumption == IsFiniteSet(Secondaries) /\ DataShards \in 1..Cardinality(Secondaries)
ASSUME RecoveryAssumption ==
  MaxRetry \in Nat \ {0} /\ RecoveryCap \in Nat \ {0} /\ MaxTasks \in Nat /\ MaxLost \in Nat

VARIABLES store,   \* [Pieces -> content of the piece store]: "good", "bad" or "lost"
          others,  \* [Secondaries -> what the secondary holds]: "good", "bad" or "lost"
          rqueue,  \* recoveryQueue: map from task key to position in rtask
          rtask,   \* the tasks made so far: [piece, key, retry, late]
          run,     \* [Executors -> what it is doing]
          fetch,   \* [Executors -> [Secondaries -> state of the goroutine]]
          losses   \* pieces lost so far

recovery == <<store, others, rqueue, rtask, run, fetch, losses>>

\* sources: who has filled in recoveryDataSources; sent: signals in doneCh; done:
\* doneTaskNum; left: totalTaskNum.
NoRun == [pc |-> "idle", id |-> 0, sources |-> {}, sent |-> 0, done |-> 0, left |-> 0,
          retry |-> 0]
NoFetch == [s \in Secondaries |-> "none"]

\* InitRecoverPieceTask.
NewRecoverTask(p, k, retry) == [piece |-> p, key |-> k, retry |-> retry, late |-> FALSE]

\* The key of a task holds its piece and the second it was made in.
RecoverKey(p, second) == 100 * second + p
Second(key) == key \div 100

RecoveryInit ==
  /\ store = [p \in Pieces |-> "good"]
  /\ others \in [Secondaries -> OtherContents]
  /\ rqueue = [k \in {} |-> 0]
  /\ rtask = <<>>
  /\ run = [e \in Executors |-> NoRun]
  /\ fetch = [e \in Executors |-> NoFetch]
  /\ losses = 0

----------------------------------------------------------------------------
(* The manager *)

ExceedRetry(t) == t.retry >= MaxRetry
ExceedTimeout(t) == t.late

\* GCRecoverQueue: the keys the retire callback accepts.
GCRecoverQueue ==
  {k \in DOMAIN rqueue : ExceedRetry(rtask[rqueue[k]]) \/ ExceedTimeout(rtask[rqueue[k]])}

\* FilterUploadingTask.
FilterTask(t) == ~ExceedRetry(t) /\ (ExceedTimeout(t) \/ t.retry = 0)

\* HandleRecoverPieceTask for a task that is neither done nor failed: refuse a key
\* that is queued, else push the task t.
Enqueue(t) ==
  /\ rtask' = Append(rtask, t)
  /\ rqueue' = AfterPush(rqueue, GCRecoverQueue, RecoveryCap, t.key, Len(rtask) + 1)

LastSecond == IF rtask = <<>> THEN 0 ELSE Second(rtask[Len(rtask)].key)

\* A request reports that it could not read p, in the second of the last report or
\* in a later one.
ReportLostPiece(p) ==
  /\ Len(rtask) < MaxTasks
  /\ \E second \in {LastSecond, LastSecond + 1} :
       Enqueue(NewRecoverTask(p, RecoverKey(p, second), 0))
  /\ UNCHANGED <<store, others, run, fetch, losses>>

\* DispatchTask: TopByLimit drops the retired tasks and offers one the filter lets
\* pass.  The order of the offers is the subject of TaskQueue.
DispatchRecovery(e) ==
  LET q == Without(rqueue, GCRecoverQueue)
      offers == {k \in DOMAIN q : FilterTask(rtask[q[k]])}
  IN  /\ run[e].pc = "idle"
      /\ rqueue' = q
      /\ \/ offers = {} /\ q # rqueue /\ UNCHANGED run
         \/ \E k \in offers : run' = [run EXCEPT ![e] = [NoRun EXCEPT !.pc = "asked", !.id = q[k]]]
      /\ UNCHANGED <<store, others, rtask, fetch, losses>>

\* The rest of OnAskTask; the executor gets a copy of the task.
AskRecovery(e) ==
  LET i == run[e].id
  IN  /\ run[e].pc = "asked"
      /\ rtask' = [rtask EXCEPT ![i].retry = @ + 1, ![i].late = FALSE]
      /\ run' = [run EXCEPT ![e].pc = "start", ![e].retry = rtask[i].retry + 1]
      /\ UNCHANGED <<store, others, rqueue, fetch, losses>>

\* A queued task passes its timeout.
RecoveryLate(k) ==
  /\ k \in DOMAIN rqueue /\ ~rtask[rqueue[k]].late
  /\ rtask' = [rtask EXCEPT ![rqueue[k]].late = TRUE]
  /\ UNCHANGED <<store, others, rqueue, run, fetch, losses>>

KeyOf(e) == rtask[run[e].id].key

Idle(e) == run' = [run EXCEPT ![e] = NoRun] /\ fetch' = [fetch EXCEPT ![e] = NoFetch]

\* HandleRecoverPieceTask of the manager for a report with GetRecovered.
ReportRecovered(e) ==
  /\ run[e].pc = "recovered"
  /\ rqueue' = AfterPopByKey(rqueue, GCRecoverQueue, KeyOf(e))
  /\ Idle(e)
  /\ UNCHANGED <<store, others, rtask, losses>>

\* handleFailedRecoverPieceTask pops the task: ErrCanceledTask when it is gone ...
ReportFailed(e) ==
  LET k == KeyOf(e)
  IN  /\ run[e].pc = "failed"
      /\ rqueue' = AfterPopByKey(rqueue, GCRecoverQueue, k)
      /\ IF has(rqueue, GCRecoverQueue, k)
         THEN run' = [run EXCEPT ![e] = [NoRun EXCEPT !.pc = "repush", !.id = rqueue[k]]]
         ELSE run' = [run EXCEPT ![e] = NoRun]
      /\ UNCHANGED <<store, others, rtask, fetch, losses>>

\* Mutant: a task that has failed starts over with its retries.
BugPushRecoveryAgain(e) ==
  LET i == run[e].id
  IN  /\ run[e].pc = "repush"
      /\ rtask' = [rtask EXCEPT ![i].late = FALSE, ![i].retry = 0]
      /\ rqueue' = AfterPush(rqueue, GCRecoverQueue, RecoveryCap, KeyOf(e), i)
      /\ Idle(e)
      /\ UNCHANGED <<store, others, losses>>

\* ... and pushes it again with a new update time, unless it is out of retries.
PushRecoveryAgain(e) ==
  LET i == run[e].id
  IN  /\ run[e].pc = "repush"
      /\ IF ExceedRetry(rtask[i])
         THEN UNCHANGED <<rqueue, rtask>>
         ELSE /\ rtask' = [rtask EXCEPT ![i].late = FALSE]
              /\ rqueue' = AfterPush(rqueue, GCRecoverQueue, RecoveryCap, KeyOf(e), i)
      /\ Idle(e)
      /\ UNCHANGED <<store, others, losses>>

\* A report without error or success is taken for a new task: the copy of the
\* executor is queued again, unless the task still is.
ReportSilent(e) ==
  /\ run[e].pc = "silent"
  /\ IF has(rqueue, GCRecoverQueue, KeyOf(e)) \/ Len(rtask) = MaxTasks
     THEN rqueue' = AfterHas(rqueue, GCRecoverQueue, KeyOf(e)) /\ UNCHANGED rtask
     ELSE Enqueue(NewRecoverTask(rtask[run[e].id].piece, KeyOf(e), run[e].retry))
  /\ Idle(e)
  /\ UNCHANGED <<store, others, losses>>

\* An executor stops, or its report is lost.
LoseRecovery(e) ==
  /\ run[e].pc \notin {"idle", "asked", "repush"}
  /\ Idle(e)
  /\ UNCHANGED <<store, others, rqueue, rtask, losses>>

----------------------------------------------------------------------------
(* The executor: HandleRecoverPieceTask *)

PieceOf(e) == rtask[run[e].id].piece

\* recoverPrimaryHandler and recoverSegmentPiece of a secondary's gateway: an error, or
\* the piece it holds.
SecondaryAnswers(s) == IF others[s] = "lost" THEN {"failed"} ELSE {"failed", "sent"}

\* recoverECPiece of the primary's gateway: the piece it cuts out of its segment or
\* encodes, right or wrong, or an error.
PrimaryAnswers == {"good", "bad", "failed"}

\* The endpoints of the secondaries are looked up and a goroutine is started for
\* each; the error of the lookup is a variable of the inner block, and lost.
RecoverSegment(e) ==
  /\ run[e].pc = "start" /\ PieceOf(e) \in Segments
  /\ \/ /\ run' = [run EXCEPT ![e].pc = "wait", ![e].left = Cardinality(Secondaries)]
        /\ fetch' = [fetch EXCEPT ![e] = [s \in Secondaries |-> "get"]]
     \/ /\ run' = [run EXCEPT ![e].pc = "silent"]
        /\ UNCHANGED fetch
  /\ UNCHANGED <<store, others, rqueue, rtask, losses>>

\* A piece of a secondary: the primary is asked with doRecoveryPiece.
RecoverECPiece(e) ==
  /\ run[e].pc = "start" /\ PieceOf(e) \in ECPieces
  /\ \E answer \in PrimaryAnswers : run' = [run EXCEPT ![e].pc = answer]
  /\ UNCHANGED <<store, others, rqueue, rtask, fetch, losses>>

\* doRecoveryPiece of a goroutine: an error, or the piece of the secondary
\* which is stored and announced in doneCh.
doRecoveryPiece(e, s) ==
  /\ fetch[e][s] = "get"
  /\ fetch' = [fetch EXCEPT ![e][s] = "count"]
  /\ \/ "failed" \in SecondaryAnswers(s) /\ UNCHANGED run
     \/ /\ "sent" \in SecondaryAnswers(s)
        /\ run' = [run EXCEPT ![e].sources = @ \cup {s}, ![e].sent = @ + 1]
  /\ UNCHANGED <<store, others, rqueue, rtask, losses>>

\* The last goroutine to finish sends on quitCh, which has no buffer: it waits for
\* a receiver.
CountDown(e, s) ==
  /\ fetch[e][s] = "count"
  /\ run' = [run EXCEPT ![e].left = @ - 1]
  /\ fetch' = [fetch EXCEPT ![e][s] = IF run[e].left = 1 THEN "quit" ELSE "end"]
  /\ UNCHANGED <<store, others, rqueue, rtask, losses>>

\* The loop receives from doneCh and stops as soon as there is enough ...
RecvDone(e) ==
  /\ run[e].pc = "wait" /\ run[e].sent > 0
  /\ run' = [run EXCEPT ![e].sent = @ - 1, ![e].done = @ + 1,
                        ![e].pc = IF run[e].done + 1 >= DataShards THEN "decode" ELSE "wait"]
  /\ UNCHANGED <<store, others, rqueue, rtask, fetch, losses>>

\* What the goroutines that still run do has no effect any more.
Fetched(e, pc) ==
  /\ run' = [run EXCEPT ![e] = [NoRun EXCEPT !.pc = pc, !.id = run[e].id, !.retry = run[e].retry]]
  /\ fetch' = [fetch EXCEPT ![e] = NoFetch]

\* ... or from quitCh: ErrRecoveryPieceNotEnough, also when signals are still in
\* doneCh, since select takes either.
RecvQuit(e) ==
  /\ run[e].pc = "wait"
  /\ \E s \in Secondaries : fetch[e][s] = "quit"
  /\ Fetched(e, "failed")
  /\ UNCHANGED <<store, others, rqueue, rtask, losses>>

\* DecodeRawSegment: right when every source is right and none is being written;
\* otherwise it may fail or give wrong data.
Decoded(e) ==
  IF (\A s \in run[e].sources : others[s] = "good") /\ (\A s \in Secondaries : fetch[e][s] # "get")
  THEN {"good"} ELSE {"good", "bad", "failed"}

Decode(e) ==
  /\ run[e].pc = "decode"
  /\ \E data \in Decoded(e) : Fetched(e, data)
  /\ UNCHANGED <<store, others, rqueue, rtask, losses>>

\* Mutant: the data is stored without a look at its checksum.
BugCheckRecoveryCheckSum(e) ==
  /\ run[e].pc \in {"good", "bad"}
  /\ run' = [run EXCEPT ![e].pc = "recovered"]
  /\ store' = [store EXCEPT ![PieceOf(e)] = run[e].pc]
  /\ UNCHANGED <<others, rqueue, rtask, fetch, losses>>

\* checkRecoveryCheckSum: the integrity row cannot be read, or the data is wrong.
\* Else PutPiece; a failure to put a segment is lost with the inner err.
StoreRecovered(e) ==
  /\ run[e].pc \in {"good", "bad"}
  /\ \/ run' = [run EXCEPT ![e].pc = "failed"] /\ UNCHANGED store
     \/ /\ run[e].pc = "good"
        /\ run' = [run EXCEPT ![e].pc = "recovered"]
        /\ store' = [store EXCEPT ![PieceOf(e)] = "good"]
     \/ /\ run[e].pc = "good" /\ PieceOf(e) \in Segments
        /\ run' = [run EXCEPT ![e].pc = "silent"] /\ UNCHANGED store
  /\ UNCHANGED <<others, rqueue, rtask, fetch, losses>>

\* The piece store loses a piece.
LosePiece(p) ==
  /\ losses < MaxLost /\ store[p] # "lost"
  /\ losses' = losses + 1
  /\ store' = [store EXCEPT ![p] = "lost"]
  /\ UNCHANGED <<others, rqueue, rtask, run, fetch>>

ExecutorStep(e) ==
  \/ AskRecovery(e) \/ RecoverSegment(e) \/ RecoverECPiece(e)
  \/ \E s \in Secondaries : doRecoveryPiece(e, s) \/ CountDown(e, s)
  \/ RecvDone(e) \/ RecvQuit(e) \/ Decode(e) \/ StoreRecovered(e)
  \/ ReportRecovered(e) \/ ReportFailed(e) \/ PushRecoveryAgain(e) \/ ReportSilent(e)

RecoveryNext ==
  \/ \E e \in Executors : DispatchRecovery(e) \/ ExecutorStep(e) \/ LoseRecovery(e)
  \/ \E k \in DOMAIN rqueue : RecoveryLate(k)
  \/ \E p \in Pieces : LosePiece(p)
=============================================================================
