------------------------------ MODULE GCObject ------------------------------
(***************************************************************************)
(* Garbage collection of the objects that were deleted on the chain: the   *)
(* manager cuts the chain into ranges of blocks and queues one GCObjectTask*)
(* per range; executors ask for a task, list the deleted objects of its    *)
(* range at the metadata service, delete their pieces one object after the *)
(* other and report their progress, which the manager puts into its queue  *)
(* and its database.                                                       *)
(*                                                                         *)
(* A handler of the manager is as many steps as it takes critical sections *)
(* of the queue and statements of the database.  Executors are slow, crash,*)
(* and lose reports; the metadata lags behind the chain.                   *)
(*                                                                         *)
(* ReportTask of the client returns a decoded error, which errors.Is never *)
(* finds equal to manager.ErrCanceledTask: an executor does not notice that*)
(* its task is canceled.                                                   *)
(***************************************************************************)
EXTENDS Integers, FiniteSets, TQueueOps

CONSTANTS
  Executors,
  Objects,        \* object ids
  DeleteAt,       \* the block in which an object is deleted
  Interval,       \* gcObjectBlockInterval
  SafeDistance,   \* gcSafeBlockDistance
  QueueCap,       \* capacity of gcObjectQueue
  ListLimit,      \* DeletedObjectsDefaultSize
  MaxHeight,      \* bound: blocks of the chain
  MaxFails,       \* bound: failed calls, lost reports, crashes and slow executors
  MaxRestarts,    \* bound: restarts of the manager
  NULL

ASSUME ObjectsAssumption ==
  /\ Objects \subseteq Nat /\ IsFiniteSet(Objects)
  /\ DeleteAt \in [Objects -> Nat]
ASSUME NumbersAssumption ==
  {Interval, SafeDistance, QueueCap, ListLimit, MaxHeight, MaxFails, MaxRestarts} \subseteq Nat
ASSUME NullAssumption == NULL \notin Nat \X Nat

VARIABLES
  height,         \* blocks of the chain
  synced,         \* the last block the metadata service knows
  gcBlockHeight,  \* the first block of the next range
  queue,          \* gcObjectQueue: task by key
  inserting,      \* the key whose progress row the event loop is about to insert
  rows,           \* the table of gc progress: current block by key
  ex,             \* what each executor does
  collected,      \* objects whose pieces are deleted
  leaked,         \* objects whose deletion failed
  finished,       \* history: keys of tasks that were reported as finished
  fails, restarts

manager == <<gcBlockHeight, queue, inserting, restarts>>
store == <<collected, leaked>>
gcVars == <<height, synced, manager, rows, ex, store, finished, fails>>

\* GfSpGCObjectTask: its range begins at k[2]; k[1] stands for its create time.
Start(k) == k[2]
End(k) == k[2] + Interval
InRange(o, k) == DeleteAt[o] \in Start(k) .. End(k)

\* The tasks there can be: ranges follow each other, far enough behind the chain.
Ranges ==
  {k \in (0 .. MaxRestarts) \X (0 .. MaxHeight) :
     Start(k) % (Interval + 1) = 0 /\ End(k) + SafeDistance <= MaxHeight}

\* A task in the queue: the progress, and whether its retry counter is 0.
Task(cur, last, free) == [cur |-> cur, last |-> last, free |-> free]

\* Mutant: the latest block first.
BugBefore(o, p) == DeleteAt[o] > DeleteAt[p] \/ (DeleteAt[o] = DeleteAt[p] /\ o < p)

\* update_at, object_id asc.
Before(o, p) == DeleteAt[o] < DeleteAt[p] \/ (DeleteAt[o] = DeleteAt[p] /\ o < p)

Idle == [pc |-> "idle", key |-> NULL, cur |-> 0, last |-> 0, todo |-> {}, next |-> "idle"]

GCInit ==
  /\ height = 0 /\ synced = 0
  /\ gcBlockHeight = 0
  /\ queue = <<>> /\ inserting = NULL /\ rows = <<>>
  /\ ex = [e \in Executors |-> Idle]
  /\ collected = {} /\ leaked = {} /\ finished = {}
  /\ fails = 0 /\ restarts = 0

Fail == fails < MaxFails /\ fails' = fails + 1

----------------------------------------------------------------------------
(* The surroundings *)

NewBlock ==
  /\ height < MaxHeight
  /\ height' = height + 1
  /\ UNCHANGED <<synced, manager, rows, ex, store, finished, fails>>

Sync ==
  /\ synced < height
  /\ synced' = synced + 1
  /\ UNCHANGED <<height, manager, rows, ex, store, finished, fails>>

----------------------------------------------------------------------------
(* The manager *)

FarEnough(end) == end + SafeDistance <= height

\* gcObjectTicker: the next range is far enough behind the chain.  A task that does
\* not fit is made again at a later tick.
GCTick ==
  LET end == gcBlockHeight + Interval
      k == <<restarts, gcBlockHeight>>
  IN  /\ inserting = NULL
      /\ FarEnough(end)
      /\ PushErr(queue, {}, QueueCap, k) = "nil"
      /\ queue' = AfterPush(queue, {}, QueueCap, k, Task(0, 0, TRUE))
      /\ gcBlockHeight' = end + 1
      /\ inserting' = k
      /\ UNCHANGED <<height, synced, restarts, rows, ex, store, finished, fails>>

\* The row is inserted after the task is queued.
InsertGCObjectProgress ==
  /\ inserting # NULL
  /\ inserting' = NULL
  /\ \/ rows' = With(rows, inserting, 0) /\ UNCHANGED fails
     \/ Fail /\ UNCHANGED rows
  /\ UNCHANGED <<height, synced, gcBlockHeight, queue, restarts, ex, store, finished>>

\* Mutant: an expired task stays taken.
BugResetGCObjectTask(k) == FALSE /\ UNCHANGED gcVars

\* A task whose timeout has passed is free again at the next look into the queue,
\* whether its executor is gone or only slow.
ResetGCObjectTask(k) ==
  /\ ~queue[k].free
  /\ queue' = [queue EXCEPT ![k].free = TRUE]
  /\ IF \E e \in Executors : ex[e].key = k
     THEN Fail ELSE UNCHANGED fails
  /\ UNCHANGED <<height, synced, gcBlockHeight, inserting, restarts, rows, ex, store, finished>>

Run(k) == [Idle EXCEPT !.pc = "list", !.key = k, !.cur = queue[k].cur, !.last = queue[k].last]

\* DispatchTask and, after the mutex, IncRetry: every executor of E asks before the
\* first of them has counted the retry.
DispatchTask(E, k) ==
  /\ queue[k].free
  /\ \A e \in E : ex[e].pc = "idle"
  /\ ex' = [e \in Executors |-> IF e \in E THEN Run(k) ELSE ex[e]]
  /\ queue' = [queue EXCEPT ![k].free = FALSE]
  /\ UNCHANGED <<height, synced, gcBlockHeight, inserting, restarts, rows, store, finished, fails>>

\* The manager starts again: no task is loaded, and the ranges begin at block 0.  The
\* reports it was handling fail.
Restart ==
  /\ restarts < MaxRestarts
  /\ restarts' = restarts + 1
  /\ queue' = <<>> /\ gcBlockHeight' = 0 /\ inserting' = NULL
  /\ ex' = [e \in Executors |-> IF ex[e].pc \in {"pop", "push", "update"}
                                THEN [ex[e] EXCEPT !.pc = ex[e].next] ELSE ex[e]]
  /\ UNCHANGED <<height, synced, rows, store, finished, fails>>

----------------------------------------------------------------------------
(* The executor *)

Step(e, f) == ex' = [ex EXCEPT ![e] = f]

\* The executor calls ReportTask and goes on with next.
Reporting(x, next) == [x EXCEPT !.pc = "report", !.next = next]

\* The first ListLimit objects of the range.
Listed(k) ==
  LET S == {o \in Objects : InRange(o, k)}
  IN  {o \in S : Cardinality({p \in S : Before(p, o)}) < ListLimit}

\* Objects of the blocks before the current one are skipped.
Skip(o, x) == DeleteAt[o] < x.cur

\* ListDeletedObjectsByBlockNumberRange.  The metadata may fail or be behind the end
\* of the range: the progress is reported as it is, to try again later.
ListDeletedObjects(e) ==
  LET x == ex[e]
  IN  /\ x.pc = "list"
      /\ \/ /\ synced >= End(x.key)
            /\ Step(e, [x EXCEPT !.pc = "gc", !.todo = {o \in Listed(x.key) : ~Skip(o, x)}])
            /\ UNCHANGED fails
         \/ synced < End(x.key) /\ Step(e, Reporting(x, "again")) /\ UNCHANGED fails
         \/ Fail /\ Step(e, Reporting(x, "again"))
      /\ UNCHANGED <<height, synced, manager, rows, store, finished>>

\* The first object that is left: its pieces and its integrity row are deleted, an
\* error being ignored, and the progress is reported.  The storage parameters may be
\* out of reach.
DeletePieces(e) ==
  LET x == ex[e]
  IN  /\ x.pc = "gc"
      /\ \E o \in x.todo :
           /\ \A p \in x.todo \ {o} : Before(o, p)
           /\ \/ /\ collected' = collected \cup {o}
                 /\ Step(e, Reporting([x EXCEPT !.todo = @ \ {o}, !.cur = DeleteAt[o], !.last = o], "gc"))
                 /\ UNCHANGED <<leaked, fails>>
              \/ /\ Fail
                 /\ leaked' = leaked \cup {o}
                 /\ Step(e, Reporting([x EXCEPT !.todo = @ \ {o}, !.cur = DeleteAt[o], !.last = o], "gc"))
                 /\ UNCHANGED collected
              \/ Fail /\ Step(e, Reporting(x, "again")) /\ UNCHANGED store
      /\ UNCHANGED <<height, synced, manager, rows, finished>>

\* Mutant: the deferred function does not ask whether the loop got through.
BugSucceed(e) ==
  LET x == ex[e]
  IN  /\ x.pc = "gc"
      /\ Step(e, Reporting([x EXCEPT !.cur = End(x.key) + 1], "again"))
      /\ UNCHANGED <<height, synced, manager, rows, store, finished, fails>>

\* Every object is done: the current block is set behind the range.
Succeed(e) ==
  LET x == ex[e]
  IN  /\ x.pc = "gc" /\ x.todo = {}
      /\ Step(e, Reporting([x EXCEPT !.cur = End(x.key) + 1], "again"))
      /\ UNCHANGED <<height, synced, manager, rows, store, finished, fails>>

\* AskTask reports the task once more when its handler has returned.
ReportAgain(e) ==
  /\ ex[e].pc = "again"
  /\ Step(e, Reporting(ex[e], "done"))
  /\ UNCHANGED <<height, synced, manager, rows, store, finished, fails>>

Finish(e) ==
  /\ ex[e].pc = "done"
  /\ Step(e, Idle)
  /\ UNCHANGED <<height, synced, manager, rows, store, finished, fails>>

\* An executor that crashes forgets its task.  A report under way is handled.
ExecutorCrash(e) ==
  /\ ex[e].pc \in {"list", "gc", "report", "again"}
  /\ Fail
  /\ Step(e, Idle)
  /\ UNCHANGED <<height, synced, manager, rows, store, finished>>

----------------------------------------------------------------------------
(* HandleGCObjectTask of the manager, on the report of e *)

Returned(e) == Step(e, [ex[e] EXCEPT !.pc = ex[e].next])

\* Has.  The report may not reach the manager.
ReportTask(e) ==
  /\ ex[e].pc = "report"
  /\ \/ ex[e].key \in DOMAIN queue /\ Step(e, [ex[e] EXCEPT !.pc = "pop"]) /\ UNCHANGED fails
     \/ ex[e].key \notin DOMAIN queue /\ Returned(e) /\ UNCHANGED fails
     \/ Fail /\ Returned(e)
  /\ UNCHANGED <<height, synced, manager, rows, store, finished>>

IsFinished(x) == x.cur > End(x.key)

\* The progress in the queue is ahead of the reported one.
IsStale(x) ==
  LET t == queue[x.key]
  IN  t.cur > x.cur \/ (t.cur = x.cur /\ t.last > x.last)

\* PopByKey, and for a finished task DeleteGCObjectProgress.  A task that is not there
\* any more is canceled; so is a report that is behind, but the task is popped by then.
PopTask(e) ==
  LET x == ex[e]
  IN  /\ x.pc = "pop"
      /\ queue' = AfterPopByKey(queue, {}, x.key)
      /\ \/ /\ IsFinished(x)
            /\ finished' = finished \cup {x.key}
            /\ \/ rows' = Without(rows, {x.key}) /\ UNCHANGED fails
               \/ Fail /\ UNCHANGED rows
            /\ Returned(e)
         \/ /\ ~IsFinished(x)
            /\ IF x.key \in DOMAIN queue /\ ~IsStale(x)
               THEN Step(e, [x EXCEPT !.pc = "push"]) ELSE Returned(e)
            /\ UNCHANGED <<rows, finished, fails>>
      /\ UNCHANGED <<height, synced, gcBlockHeight, inserting, restarts, store>>

\* The reported task takes the place of the popped one; an error is only logged.
PushTask(e) ==
  LET x == ex[e]
  IN  /\ x.pc = "push"
      /\ queue' = AfterPush(queue, {}, QueueCap, x.key, Task(x.cur, x.last, FALSE))
      /\ Step(e, [x EXCEPT !.pc = "update"])
      /\ UNCHANGED <<height, synced, gcBlockHeight, inserting, restarts, rows, store, finished, fails>>

UpdateGCObjectProgress(e) ==
  LET x == ex[e]
  IN  /\ x.pc = "update"
      /\ \/ /\ rows' = [k \in DOMAIN rows |-> IF k = x.key THEN x.cur ELSE rows[k]]
            /\ UNCHANGED fails
         \/ Fail /\ UNCHANGED rows
      /\ Returned(e)
      /\ UNCHANGED <<height, synced, manager, store, finished>>

----------------------------------------------------------------------------
Execute(e) ==
  \/ ListDeletedObjects(e) \/ DeletePieces(e) \/ Succeed(e) \/ ReportAgain(e) \/ Finish(e)
  \/ ReportTask(e) \/ PopTask(e) \/ PushTask(e) \/ UpdateGCObjectProgress(e)

GCNext ==
  \/ NewBlock \/ Sync
  \/ GCTick \/ InsertGCObjectProgress \/ Restart
  \/ \E k \in DOMAIN queue :
       \/ ResetGCObjectTask(k)
       \/ \E E \in (SUBSET Executors) \ {{}} : DispatchTask(E, k)
  \/ \E e \in Executors : Execute(e) \/ ExecutorCrash(e)

GCSpec == GCInit /\ [][GCNext]_gcVars

\* The chain grows, the metadata follows it, tickers tick, timeouts pass and executors
\* ask and work; topByLimit takes the queued tasks in turn.  Failures, crashes and
\* restarts need not happen.
GCFairSpec ==
  /\ GCSpec
  /\ WF_gcVars(NewBlock) /\ WF_gcVars(Sync)
  /\ WF_gcVars(GCTick) /\ WF_gcVars(InsertGCObjectProgress)
  /\ \A k \in Ranges :
       /\ WF_gcVars(k \in DOMAIN queue /\ ResetGCObjectTask(k))
       /\ SF_gcVars(k \in DOMAIN queue /\ \E e \in Executors : DispatchTask({e}, k))
  /\ \A e \in Executors : WF_gcVars(Execute(e))
----------------------------------------------------------------------------
(* Properties *)

Progress == 0 .. MaxHeight + 1
Handled == collected \cup leaked

\* "remove all the pieces of the deleted objects from piece store": when a task is
\* reported as finished, by whichever of its executors and after whatever crashes and
\* resumptions, the executors have been through every object of its range.
FinishedIsCollected ==
  \A k \in finished, o \in Objects : InRange(o, k) => o \in Handled

\* The progress in the database can be resumed from: nothing before its block is left.
\* Reports of two executors of a task may be written in any order.
RowIsTruthful ==
  \A k \in DOMAIN rows, o \in Objects :
    InRange(o, k) /\ DeleteAt[o] < rows[k] => o \in Handled

\* No two executors work on one task.
NoSharedTask ==
  \A e, f \in Executors : e # f /\ ex[e].key # NULL => ex[e].key # ex[f].key

\* "GC is used to delete objects whose metadata on Greenfield chain has already been
\* deleted": every deleted object gets its turn, through failures, crashes, lost
\* reports and a restart of the manager.  It takes that a task is never with two
\* executors at once: a report of the slower one is behind, and makes the manager drop
\* the task that the faster one may still have to hand on.
EveryObjectCollected ==
  []NoSharedTask => <>[](\A o \in Objects : height >= DeleteAt[o] => o \in Handled)
=============================================================================
