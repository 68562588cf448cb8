--------------------------- MODULE UploadPipeline ---------------------------
(***************************************************************************)
(* The way of an object through the manager (modular/manager): a client's  *)
(* upload, plain or resumable, then the replication of its pieces to the   *)
(* secondary providers, then the seal transaction.  The manager keeps one  *)
(* queue per stage; executors ask for tasks and report results; the upload *)
(* progress table of the provider's database is written by goroutines that *)
(* nobody waits for.                                                       *)
(*                                                                         *)
(* Each queue operation is atomic (the queue has a mutex); a handler is a  *)
(* sequence of them, and handlers of different requests interleave between *)
(* any two.  A task is a pointer: the queue, the handler that popped it    *)
(* and the dispatch that increments its retry counter share one record of  *)
(* the heap `task'.                                                        *)
(***************************************************************************)
EXTENDS TQueueOps, Sequences

CONSTANTS Objects,       \* object ids; also the key of their plain tasks
          Requests,      \* the uploads clients ask for, see RequestsAssumption
          Attempts,      \* how often a client sends each request
          Handlers,      \* slots for handler goroutines running at the same time
          Executors,     \* executors (one per concurrent task)
          TaskIds,       \* addresses of task records
          MaxRetry,      \* [Stages -> Nat]: TaskMaxRetry of a stage's tasks
          Cap,           \* [Stages -> Nat]: capacity of a stage's queue
          MaxUploading,  \* maxUploadObjectNumber
          Timeouts,      \* the stages whose tasks may pass their timeout
          Watched,       \* the states whose database updates an instance follows:
                         \* the manager reads of the table only whether a row is there
          DbFails,       \* an insert or update of the database may fail
          MaxRestarts,   \* restarts of the manager
          NULL

Stages == {"upload", "resumable", "replicate", "seal"}

ErrorState == [upload |-> "UPLOAD_OBJECT_ERROR", resumable |-> "UPLOAD_OBJECT_ERROR",
               replicate |-> "REPLICATE_OBJECT_ERROR", seal |-> "SEAL_OBJECT_ERROR"]
Final == {"UPLOAD_OBJECT_ERROR", "REPLICATE_OBJECT_ERROR", "SEAL_OBJECT_ERROR",
          "SEAL_OBJECT_DONE"}
States == Final \cup {"INIT_UNSPECIFIED", "REPLICATE_OBJECT_DOING", "SEAL_OBJECT_DOING"}

\* A request names its queue, its task key and its object; `last' tells the part
\* of a resumable upload that completes the object.  The keys of a queue are
\* distinct; a plain upload's key is the object's.
ASSUME RequestsAssumption ==
  \A r \in Requests :
    /\ r \in [stage : {"upload", "resumable"}, key : Nat, o : Objects, last : BOOLEAN]
    /\ r.stage = "upload" => r.key = r.o /\ r.last
    /\ \A s \in Requests : r.stage = s.stage /\ r.key = s.key => r = s
ASSUME ObjectsAssumption == Objects \subseteq Nat /\ IsFiniteSet(Objects)
ASSUME LimitsAssumption ==
  /\ MaxRetry \in [Stages -> Nat] /\ Cap \in [Stages -> Nat \ {0}]
  /\ MaxRetry["upload"] = 0 /\ MaxRetry["resumable"] = 0
  /\ Attempts \in Nat /\ MaxRestarts \in Nat /\ MaxUploading \in Nat
ASSUME WatchedAssumption == Watched \subseteq States
ASSUME ExecutorsAssumption == IsFiniteSet(Executors) /\ Executors # {}
ASSUME NullAssumption == NULL \notin TaskIds /\ TaskIds \subseteq Nat

VARIABLES queue,     \* [Stages -> map from task key to task address]
          task,      \* [TaskIds -> [o, retry, late]]
          h,         \* [Handlers -> state of a handler goroutine]
          ex,        \* [Executors -> what the executor is doing]
          uploading, \* requests whose data an uploader is receiving
          sent,      \* [Requests -> how often it was sent]
          upd,       \* [Objects \X Watched -> number of pending database updates]
          db,        \* [Objects -> task_state of its row, or "none"]
          chain,     \* objects sealed on the chain
          restarts,  \* restarts so far
          accepted,  \* history: objects for which a replicate task was queued
          outcome    \* history: [Objects -> final states handed to the database]

manager == <<queue, task, h>>
history == <<accepted, outcome>>
vars == <<queue, task, h, ex, uploading, sent, upd, db, chain, restarts, accepted, outcome>>

Idle == [pc |-> "idle", f |-> "none", stage |-> "upload", key |-> 0, o |-> 0,
         ok |-> FALSE, next |-> 0, old |-> NULL]
Free == [pc |-> "idle", stage |-> "replicate", o |-> 0, id |-> NULL]

\* InitUploadObjectTask, InitReplicatePieceTask, InitSealObjectTask.
NewTask(o) == [o |-> o, retry |-> 0, late |-> FALSE]

Init ==
  /\ queue = [s \in Stages |-> [k \in {} |-> NULL]]
  /\ task = [i \in TaskIds |-> NewTask(0)]
  /\ h = [i \in Handlers |-> Idle]
  /\ ex = [e \in Executors |-> Free]
  /\ uploading = {}
  /\ sent = [r \in Requests |-> 0]
  /\ upd = [x \in Objects \X Watched |-> 0]
  /\ db = [o \in Objects |-> "none"]
  /\ chain = {}
  /\ restarts = 0
  /\ accepted = {}
  /\ outcome = [o \in Objects |-> {}]

----------------------------------------------------------------------------
(* Tasks *)

Queued(s) == DOMAIN queue[s]
At(s, k) == task[queue[s][k]]

\* Mutant: one dispatch more than the maximum.
BugExceedRetry(s, t) == t.retry > MaxRetry[s]

ExceedRetry(s, t) == t.retry >= MaxRetry[s]
ExceedTimeout(t) == t.late

\* Mutant: a task that has used exactly its retries never expires.
BugExpired(s, t) == ExceedTimeout(t) /\ t.retry > MaxRetry[s]

Expired(s, t) == ExceedTimeout(t) /\ ExceedRetry(s, t)

\* The keys on whose tasks the retire callback of the queue answers true.
GC(s) == {k \in Queued(s) : Expired(s, At(s, k))}

\* FilterUploadingTask: may this task be dispatched?
FilterUploadingTask(s, t) ==
  ~ExceedRetry(s, t) /\ (ExceedTimeout(t) \/ t.retry = 0)

InUse ==
  (UNION {{queue[s][k] : k \in Queued(s)} : s \in Stages})
    \cup {h[i].old : i \in Handlers} \cup {ex[e].id : e \in Executors}

\* The address of a new task record: the first that nothing points to.
New == CHOOSE i \in TaskIds \ InUse : \A j \in TaskIds \ InUse : i <= j

\* A goroutine is started for each update in S; S holds pairs of object and state.
Update(S) ==
  /\ upd' = [x \in Objects \X Watched |-> upd[x] + IF x \in S THEN 1 ELSE 0]
  /\ outcome' = [o \in Objects |-> outcome[o] \cup {s \in Final : <<o, s>> \in S}]

\* What the retire callback of stage s does for each key in K it accepts.
Errors(s, K) == {<<At(s, k).o, ErrorState[s]>> : k \in K}

\* The keys a Push under key k retires: its own, or one of a full queue.
RetiredByPush(s, k) ==
  LET q1 == AfterHas(queue[s], GC(s), k)
  IN  ({k} \cap GC(s)) \cup IF exceed(q1, Cap[s]) THEN Retired(q1, GC(s)) ELSE {}

\* Push of a task whose address is id; rec is the record it then has.
PushErrOf(s, k) == PushErr(queue[s], GC(s), Cap[s], k)
AfterPushOf(s, k, id) ==
  [queue EXCEPT ![s] = AfterPush(queue[s], GC(s), Cap[s], k, id)]

\* The queues TaskUploading finds a key in: the key of a resumable upload differs
\* from all others of the object, and so from all keys of the other queues.
Lookups(s) == IF s = "resumable" THEN <<"resumable">> ELSE <<"upload", "replicate", "seal">>

----------------------------------------------------------------------------
(* Handlers.  A handler is started with some work, and goes through some of *)
(* count, pop, check, act; check is one step per queue it looks into.        *)

Start(i, f, pc, s, k, o, ok) ==
  /\ h[i] = Idle
  /\ h' = [h EXCEPT ![i] = [Idle EXCEPT !.pc = pc, !.f = f, !.stage = s, !.key = k,
                                        !.o = o, !.ok = ok, !.next = 1]]

Stop(i) == h' = [h EXCEPT ![i] = Idle]

\* PreUploadObject asks the manager: HandleCreateUploadObjectTask and
\* HandleCreateResumableUploadObjectTask begin.  An uploader refuses an upload it
\* is working on; a client sends the parts of a resumable upload in order.
BeginUpload(i, r) ==
  /\ sent[r] < Attempts
  /\ r \notin uploading
  /\ \A p \in Requests : (p.stage = "resumable" /\ p.o = r.o /\ p.key < r.key)
                            => sent[p] > 0 /\ p \notin uploading
  /\ Start(i, "create", "count", r.stage, r.key, r.o, TRUE)
  /\ sent' = [sent EXCEPT ![r] = @ + 1]
  /\ UNCHANGED <<queue, task, ex, uploading, upd, db, chain, restarts, accepted, outcome>>

UploadingObjectNumber ==
  Cardinality(Queued("upload")) + Cardinality(Queued("replicate"))
    + Cardinality(Queued("seal")) + Cardinality(Queued("resumable"))

\* ErrExceedTask, or on to TaskUploading.
Count(i) ==
  /\ h[i].pc = "count"
  /\ IF UploadingObjectNumber >= MaxUploading
     THEN Stop(i)
     ELSE h' = [h EXCEPT ![i].pc = "check"]
  /\ UNCHANGED <<queue, task, ex, uploading, sent, upd, db, chain, restarts, accepted, outcome>>

\* PopByKey at the head of the handlers of reports.  A handler of a failure keeps
\* the task it popped; a retired task is gone, and the handler gets nil.
PopByKey(i) ==
  LET s == h[i].stage  k == h[i].key
      gone == {k} \cap GC(s)
  IN  /\ h[i].pc = "pop"
      /\ queue' = [queue EXCEPT ![s] = AfterPopByKey(queue[s], GC(s), k)]
      /\ Update(Errors(s, gone))
      /\ h' = [h EXCEPT ![i].pc = "check",
                        ![i].old = IF h[i].f = "failed" /\ has(queue[s], GC(s), k)
                                   THEN queue[s][k] ELSE NULL]
      /\ UNCHANGED <<task, ex, uploading, sent, db, chain, restarts, accepted>>

\* One lookup of TaskUploading: found (ErrRepeatedTask, the handler ends), or on to
\* the next queue, or all queues have been searched.
TaskUploading(i) ==
  LET s == Lookups(h[i].stage)[h[i].next]  k == h[i].key
  IN  /\ h[i].pc = "check"
      /\ queue' = [queue EXCEPT ![s] = AfterHas(queue[s], GC(s), k)]
      /\ Update(Errors(s, {k} \cap GC(s)))
      /\ IF has(queue[s], GC(s), k) THEN Stop(i)
         ELSE IF h[i].next < Len(Lookups(h[i].stage))
              THEN h' = [h EXCEPT ![i].next = @ + 1]
              ELSE h' = [h EXCEPT ![i].pc = "act"]
      /\ UNCHANGED <<task, ex, uploading, sent, db, chain, restarts, accepted>>

\* The rest of the two create handlers: push, then insert the progress row.
CreatePush(i) ==
  LET s == h[i].stage  k == h[i].key
  IN  /\ h[i].pc = "act" /\ h[i].f = "create"
      /\ task' = [task EXCEPT ![New] = NewTask(h[i].o)]
      /\ queue' = AfterPushOf(s, k, New)
      /\ Update(Errors(s, RetiredByPush(s, k)))
      /\ IF PushErrOf(s, k) # "nil" THEN Stop(i) ELSE h' = [h EXCEPT ![i].pc = "insert"]
      /\ UNCHANGED <<ex, uploading, sent, db, chain, restarts, accepted>>

RequestOf(i) == {r \in Requests : r.stage = h[i].stage /\ r.key = h[i].key}

\* object_id is the primary key: a second row is refused.
Inserted(i) ==
  /\ db[h[i].o] = "none"
  /\ db' = [db EXCEPT ![h[i].o] = "INIT_UNSPECIFIED"]
  /\ uploading' = uploading \cup RequestOf(i)

\* The end of HandleCreateUploadObjectTask.  When the row is refused the client
\* gets an error and the task stays queued.
InsertUploadProgress(i) ==
  /\ h[i].pc = "insert" /\ h[i].stage = "upload"
  /\ \/ Inserted(i)
     \/ (db[h[i].o] # "none" \/ DbFails) /\ UNCHANGED <<db, uploading>>
  /\ Stop(i)
  /\ UNCHANGED <<queue, task, ex, sent, upd, chain, restarts, accepted, outcome>>

\* The end of HandleCreateResumableUploadObjectTask: "Duplicate entry" is no error.
InsertResumableProgress(i) ==
  /\ h[i].pc = "insert" /\ h[i].stage = "resumable"
  /\ \/ Inserted(i)
     \/ db[h[i].o] # "none" /\ uploading' = uploading \cup RequestOf(i) /\ UNCHANGED db
     \/ DbFails /\ UNCHANGED <<db, uploading>>
  /\ Stop(i)
  /\ UNCHANGED <<queue, task, ex, sent, upd, chain, restarts, accepted, outcome>>

\* An upload that succeeded becomes a replicate task, one that failed an error.
QueueReplicate(i) ==
  LET o == h[i].o
      pushed == PushErrOf("replicate", o) = "nil"
      dead == Errors("replicate", RetiredByPush("replicate", o))
  IN  /\ IF h[i].ok
         THEN /\ task' = [task EXCEPT ![New] = NewTask(o)]
              /\ queue' = AfterPushOf("replicate", o, New)
              /\ Update(dead \cup IF pushed THEN {<<o, "REPLICATE_OBJECT_DOING">>} ELSE {})
              /\ accepted' = IF pushed THEN accepted \cup {o} ELSE accepted
         ELSE /\ Update({<<o, "UPLOAD_OBJECT_ERROR">>})
              /\ UNCHANGED <<task, queue, accepted>>
      /\ Stop(i)
      /\ UNCHANGED <<ex, uploading, sent, db, chain, restarts>>

\* The end of HandleDoneUploadObjectTask.
UploadDone(i) ==
  h[i].pc = "act" /\ h[i].f = "done" /\ h[i].stage = "upload" /\ QueueReplicate(i)

\* The end of HandleDoneResumableUploadObjectTask.
ResumableUploadDone(i) ==
  h[i].pc = "act" /\ h[i].f = "done" /\ h[i].stage = "resumable" /\ QueueReplicate(i)

\* The rest of HandleReplicatePieceTask for a success: `ok' tells that the executor
\* has sealed the object too.
Replicated(i) ==
  LET o == h[i].o
      pushed == PushErrOf("seal", o) = "nil"
      dead == Errors("seal", RetiredByPush("seal", o))
  IN  /\ h[i].pc = "act" /\ h[i].f = "replicated"
      /\ IF h[i].ok
         THEN /\ Update({<<o, "SEAL_OBJECT_DONE">>})
              /\ UNCHANGED <<task, queue>>
         ELSE /\ task' = [task EXCEPT ![New] = NewTask(o)]
              /\ queue' = AfterPushOf("seal", o, New)
              /\ Update(dead \cup IF pushed THEN {<<o, "SEAL_OBJECT_DOING">>} ELSE {})
      /\ Stop(i)
      /\ UNCHANGED <<ex, uploading, sent, db, chain, restarts, accepted>>

PushAgain(i) ==
  LET s == h[i].stage
  IN  /\ task' = [task EXCEPT ![h[i].old].late = FALSE]
      /\ queue' = AfterPushOf(s, h[i].key, h[i].old)
      /\ Update(Errors(s, RetiredByPush(s, h[i].key)))

\* Mutant: a task out of retries is dropped without a word.
BugRetry(i) ==
  /\ \/ /\ h[i].old = NULL \/ ExceedRetry(h[i].stage, task[h[i].old])
        /\ UNCHANGED <<task, queue, upd, outcome>>
     \/ /\ h[i].old # NULL /\ ~ExceedRetry(h[i].stage, task[h[i].old])
        /\ PushAgain(i)
  /\ Stop(i)
  /\ UNCHANGED <<ex, uploading, sent, db, chain, restarts, accepted>>

\* The task popped, if any, is pushed again with a new update time, or given up.
Retry(i) ==
  /\ \/ h[i].old = NULL /\ UNCHANGED <<task, queue, upd, outcome>>
     \/ /\ h[i].old # NULL /\ ExceedRetry(h[i].stage, task[h[i].old])
        /\ Update({<<h[i].o, ErrorState[h[i].stage]>>})
        /\ UNCHANGED <<task, queue>>
     \/ /\ h[i].old # NULL /\ ~ExceedRetry(h[i].stage, task[h[i].old])
        /\ PushAgain(i)
  /\ Stop(i)
  /\ UNCHANGED <<ex, uploading, sent, db, chain, restarts, accepted>>

handleFailedReplicatePieceTask(i) ==
  h[i].pc = "act" /\ h[i].f = "failed" /\ h[i].stage = "replicate" /\ Retry(i)

handleFailedSealObjectTask(i) ==
  h[i].pc = "act" /\ h[i].f = "failed" /\ h[i].stage = "seal" /\ Retry(i)

\* The goroutine of HandleSealObjectTask for a success: pop, then update.
Sealed(i) ==
  LET o == h[i].o
  IN  /\ h[i].pc = "sealed"
      /\ queue' = [queue EXCEPT !["seal"] = AfterPopByKey(queue["seal"], GC("seal"), o)]
      /\ Update(Errors("seal", {o} \cap GC("seal")) \cup {<<o, "SEAL_OBJECT_DONE">>})
      /\ Stop(i)
      /\ UNCHANGED <<task, ex, uploading, sent, db, chain, restarts, accepted>>

----------------------------------------------------------------------------
(* The database, uploaders, executors, time and crashes *)

\* Mutant: the update of a failed seal is written with the state of a successful one.
BugSealErrorUpdate(o, s) ==
  /\ upd[<<o, s>>] > 0
  /\ upd' = [upd EXCEPT ![<<o, s>>] = @ - 1]
  /\ db' = IF db[o] = "none" THEN db ELSE [db EXCEPT ![o] = "SEAL_OBJECT_DONE"]
  /\ UNCHANGED <<queue, task, h, ex, uploading, sent, chain, restarts, accepted, outcome>>

\* A goroutine's UpdateUploadProgress: an error when there is no row.
UpdateUploadProgress(o, s) ==
  /\ upd[<<o, s>>] > 0
  /\ upd' = [upd EXCEPT ![<<o, s>>] = @ - 1]
  /\ \/ db' = IF db[o] = "none" THEN db ELSE [db EXCEPT ![o] = s]
     \/ DbFails /\ UNCHANGED db
  /\ UNCHANGED <<queue, task, h, ex, uploading, sent, chain, restarts, accepted, outcome>>

\* The end of HandleUploadObjectTask and HandleResumableUploadObjectTask in the
\* uploader: only the last part of a resumable upload is reported.
FinishUpload(i, r, ok) ==
  /\ r \in uploading
  /\ uploading' = uploading \ {r}
  /\ IF r.last THEN Start(i, "done", "pop", r.stage, r.key, r.o, ok) ELSE UNCHANGED h
  /\ UNCHANGED <<queue, task, ex, sent, upd, db, chain, restarts, accepted, outcome>>

\* An uploader stops, or its report is lost.
LoseUpload(r) ==
  /\ r \in uploading
  /\ uploading' = uploading \ {r}
  /\ UNCHANGED <<queue, task, h, ex, sent, upd, db, chain, restarts, accepted, outcome>>

Dispatched == {"replicate", "seal"}
Backup == {x \in Dispatched \X Objects :
             /\ x[2] \in Queued(x[1]) \ GC(x[1])
             /\ FilterUploadingTask(x[1], At(x[1], x[2]))}

\* DispatchTask looks into the queues under the manager's mutex.  The order in
\* which a queue offers its tasks is the subject of TaskQueue; here PickUpTask
\* may get any of them.
DispatchTask(e) ==
  /\ ex[e] = Free
  /\ queue' = [s \in Stages |->
                 IF s \in Dispatched THEN Without(queue[s], GC(s)) ELSE queue[s]]
  /\ Update(UNION {Errors(s, GC(s)) : s \in Dispatched})
  /\ \/ Backup = {} /\ UNCHANGED ex
     \/ \E x \in Backup :
          ex' = [ex EXCEPT ![e] = [pc |-> "asked", stage |-> x[1], o |-> x[2],
                                   id |-> queue[x[1]][x[2]]]]
  /\ UNCHANGED <<task, h, uploading, sent, db, chain, restarts, accepted>>

\* The rest of OnAskTask, outside the mutex; then the task goes to the executor.
OnAskTask(e) ==
  /\ ex[e].pc = "asked"
  /\ task' = [task EXCEPT ![ex[e].id].retry = @ + 1, ![ex[e].id].late = FALSE]
  /\ ex' = [ex EXCEPT ![e].pc = "running", ![e].id = NULL]
  /\ UNCHANGED <<queue, h, uploading, sent, upd, db, chain, restarts, accepted, outcome>>

\* The executor's HandleReplicatePieceTask and its report.  After replicating it
\* sends the seal transaction and waits for the seal; when it stops waiting the
\* transaction may still succeed.
HandleReplicatePieceTask(e, i, result) ==
  /\ ex[e].pc = "running" /\ ex[e].stage = "replicate"
  /\ ex' = [ex EXCEPT ![e] = Free]
  /\ \/ /\ result = "error"
        /\ UNCHANGED chain
     \/ /\ result = "unsealed"
        /\ chain' \in {chain, chain \cup {ex[e].o}}
     \/ /\ result = "sealed"
        /\ chain' = chain \cup {ex[e].o}
  /\ IF result = "error"
     THEN Start(i, "failed", "pop", "replicate", ex[e].o, ex[e].o, FALSE)
     ELSE Start(i, "replicated", "pop", "replicate", ex[e].o, ex[e].o, result = "sealed")
  /\ UNCHANGED <<queue, task, uploading, sent, upd, db, restarts, accepted, outcome>>

\* The executor's HandleSealObjectTask and its report.
HandleSealObjectTask(e, i, result) ==
  /\ ex[e].pc = "running" /\ ex[e].stage = "seal"
  /\ ex' = [ex EXCEPT ![e] = Free]
  /\ \/ /\ result = "error"
        /\ chain' \in {chain, chain \cup {ex[e].o}}
        /\ Start(i, "failed", "pop", "seal", ex[e].o, ex[e].o, FALSE)
     \/ /\ result = "sealed"
        /\ chain' = chain \cup {ex[e].o}
        /\ Start(i, "sealed", "sealed", "seal", ex[e].o, ex[e].o, TRUE)
  /\ UNCHANGED <<queue, task, uploading, sent, upd, db, restarts, accepted, outcome>>

\* An executor stops, or its report is lost.
LoseTask(e) ==
  /\ ex[e].pc = "running"
  /\ ex' = [ex EXCEPT ![e] = Free]
  /\ UNCHANGED <<queue, task, h, uploading, sent, upd, db, chain, restarts, accepted, outcome>>

\* A queued task passes its timeout.
Late(s, k) ==
  /\ s \in Timeouts /\ k \in Queued(s) /\ ~At(s, k).late
  /\ task' = [task EXCEPT ![queue[s][k]].late = TRUE]
  /\ UNCHANGED <<queue, h, ex, uploading, sent, upd, db, chain, restarts, accepted, outcome>>

\* The manager stops and starts again: queues and goroutines are gone, the call of
\* LoadTaskFromDB is commented out.
Restart ==
  /\ restarts < MaxRestarts
  /\ restarts' = restarts + 1
  /\ queue' = [s \in Stages |-> [k \in {} |-> NULL]]
  /\ task' = [i \in TaskIds |-> NewTask(0)]
  /\ h' = [i \in Handlers |-> Idle]
  /\ ex' = [e \in Executors |-> IF ex[e].pc = "asked" THEN Free ELSE ex[e]]
  /\ upd' = [x \in Objects \X Watched |-> 0]
  /\ UNCHANGED <<uploading, sent, db, chain, accepted, outcome>>

HandlerStep(i) ==
  \/ Count(i) \/ PopByKey(i) \/ TaskUploading(i) \/ CreatePush(i)
  \/ InsertUploadProgress(i) \/ InsertResumableProgress(i)
  \/ UploadDone(i) \/ ResumableUploadDone(i) \/ Replicated(i)
  \/ handleFailedReplicatePieceTask(i) \/ handleFailedSealObjectTask(i) \/ Sealed(i)

Next ==
  \/ \E i \in Handlers : HandlerStep(i)
  \/ \E i \in Handlers, r \in Requests : BeginUpload(i, r)
  \/ \E i \in Handlers, r \in Requests, ok \in BOOLEAN : FinishUpload(i, r, ok)
  \/ \E r \in Requests : LoseUpload(r)
  \/ \E o \in Objects, s \in Watched : UpdateUploadProgress(o, s)
  \/ \E e \in Executors : DispatchTask(e) \/ OnAskTask(e) \/ LoseTask(e)
  \/ \E e \in Executors, i \in Handlers, res \in {"error", "unsealed", "sealed"} :
       HandleReplicatePieceTask(e, i, res)
  \/ \E e \in Executors, i \in Handlers, res \in {"error", "sealed"} :
       HandleSealObjectTask(e, i, res)
  \/ \E s \in Stages, k \in UNION {Queued(t) : t \in Stages} : Late(s, k)
  \/ Restart

Spec == Init /\ [][Next]_vars

----------------------------------------------------------------------------
(* Properties *)

\* A handler that has taken the task of o out of its queue and not decided yet.
Holds(i, o) ==
  /\ h[i].o = o /\ h[i].pc \in {"check", "act"}
  /\ h[i].f = "replicated" \/ (h[i].f = "failed" /\ h[i].old # NULL)

\* Between accepting an upload and handing a final state to the database, the
\* manager never forgets the object: pops, checks and pushes of the handlers of
\* late, repeated and contradictory reports always leave it in a queue or with a
\* handler (manage_task.go: pop, TaskUploading, push). A restarted manager starts
\* with empty queues, so this is about one life of the manager.
NoObjectLost ==
  restarts = 0 => \A o \in accepted :
    \/ outcome[o] # {}
    \/ o \in Queued("replicate") \cup Queued("seal")
    \/ \E i \in Handlers : Holds(i, o)

\* The table says SEAL_OBJECT_DONE only of objects that are sealed on the chain,
\* whatever reports arrive late or after a retry (HandleReplicatePieceTask and
\* HandleSealObjectTask do not compare a report with the queued task).
SealDoneIsSealed == \A o \in Objects : db[o] = "SEAL_OBJECT_DONE" => o \in chain

Lifecycle == INSTANCE ObjectLifecycle WITH sealed <- chain, told <- outcome, row <- db

\* The queues, retries, lost and repeated reports, restarts and detached updates of
\* the manager (manage_task.go, manager.go) implement the promise ObjectLifecycle:
\* only accepted objects are sealed, a seal is announced only when the chain has it,
\* a row takes a final state only after it was announced, and nothing is taken back.
ImplementsLifecycle == Lifecycle!Spec

\* A task's retry counter passes its maximum at most by the dispatches that were
\* between DispatchTask and IncRetry at the same time (OnAskTask increments the
\* counter after DispatchTask has released the manager's mutex).
RetryBounded ==
  \A s \in Dispatched : \A k \in Queued(s) :
    At(s, k).retry <= MaxRetry[s] + Cardinality(Executors) - 1

RunEnds(e) ==
  \/ \E i \in Handlers, res \in {"error", "unsealed", "sealed"} :
       HandleReplicatePieceTask(e, i, res)
  \/ \E i \in Handlers, res \in {"error", "sealed"} : HandleSealObjectTask(e, i, res)
  \/ LoseTask(e)

\* Goroutines run, executors poll the manager for ever and end or lose what they
\* run, and time passes.
Fairness ==
  /\ \A i \in Handlers : WF_vars(HandlerStep(i))
  /\ \A e \in Executors :
       WF_vars(DispatchTask(e)) /\ WF_vars(OnAskTask(e)) /\ WF_vars(RunEnds(e))
  /\ \A s \in Dispatched, o \in Objects : WF_vars(Late(s, o))

FairSpec == Spec /\ Fairness

\* Every accepted upload is sealed or given up with an error: lost executors,
\* failures and timeouts use up the retries, and an expired task is retired by the
\* next dispatch (FilterUploadingTask, GCReplicatePieceQueue, GCSealObjectQueue).
EveryUploadConcludes == \A o \in Objects : o \in accepted ~> outcome[o] # {}

=============================================================================
