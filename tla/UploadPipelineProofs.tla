------------------------ MODULE UploadPipelineProofs ------------------------
(***************************************************************************)
(* For every set of objects, requests, handlers and executors, every       *)
(* capacity and every retry limit: the progress table claims a seal only   *)
(* of an object that is sealed on the chain, and the manager implements    *)
(* its promise ObjectLifecycle, and retries a task at most as often as the *)
(* limit and the dispatches in progress allow.                             *)
(***************************************************************************)
EXTENDS UploadPipeline, TLAPS

DONE == "SEAL_OBJECT_DONE"

Fields == {"pc", "f", "stage", "key", "o", "ok", "next", "old"}

\* What SealInv needs to know of a handler: it is a record, and it will write
\* SEAL_OBJECT_DONE only for a sealed object.
GoodHandler(r, sealed) ==
  /\ r = [x \in Fields |-> r[x]]
  /\ r.stage \in Stages
  /\ r.pc # "idle" => r.next \in 1..Len(Lookups(r.stage))
  /\ r.f = "replicated" /\ r.ok = TRUE => r.o \in sealed
  /\ r.pc = "sealed" => r.o \in sealed

\* The claim of a seal is followed from the report to the table: a handler that
\* will write SEAL_OBJECT_DONE, a goroutine that has it to write, and the row.
SealInv ==
  /\ h = [i \in Handlers |-> h[i]]
  /\ \A i \in Handlers : GoodHandler(h[i], chain)
  /\ upd \in [Objects \X Watched -> Nat]
  /\ db \in [Objects -> States \cup {"none"}]
  /\ \A o \in Objects : DONE \in Watched /\ upd[<<o, DONE>>] > 0 => o \in chain
  /\ \A o \in Objects : db[o] = DONE => o \in chain

\* Retiring a task never records a seal (the GC callbacks of manager.go write errors).
LEMMA ErrorsAreErrors ==
  ASSUME NEW s \in Stages, NEW K, NEW o
  PROVE  <<o, DONE>> \notin Errors(s, K)
BY DEF Errors, ErrorState, Stages, DONE

\* Starting update goroutines keeps the part of the invariant about updates when
\* the seals among them are real.
LEMMA UpdateKeeps ==
  ASSUME SealInv, NEW S, Update(S), chain \subseteq chain',
         \A o \in Objects : <<o, DONE>> \in S => o \in chain'
  PROVE  /\ upd' \in [Objects \X Watched -> Nat]
         /\ \A o \in Objects : DONE \in Watched /\ upd'[<<o, DONE>>] > 0 => o \in chain'
<1>1. upd \in [Objects \X Watched -> Nat] BY Zenon DEF SealInv
<1>2. upd' = [x \in Objects \X Watched |-> upd[x] + IF x \in S THEN 1 ELSE 0] BY Zenon DEF Update
<1>3. upd' \in [Objects \X Watched -> Nat] BY <1>1, <1>2
<1>4. ASSUME NEW o \in Objects, DONE \in Watched, upd'[<<o, DONE>>] > 0
      PROVE  o \in chain'
  <2>1. <<o, DONE>> \in Objects \X Watched BY <1>4, Zenon
  <2>2. upd'[<<o, DONE>>] = upd[<<o, DONE>>] + IF <<o, DONE>> \in S THEN 1 ELSE 0 BY <1>2, <2>1, Zenon
  <2>3. CASE <<o, DONE>> \in S BY <2>3, Zenon
  <2>4. CASE <<o, DONE>> \notin S
    <3>1. upd[<<o, DONE>>] \in Nat BY <1>1, <2>1, Zenon
    <3>2. upd[<<o, DONE>>] > 0 BY <2>2, <2>4, <3>1, <1>4
    <3>3. o \in chain BY <3>2, <1>4, Zenon DEF SealInv
    <3> QED BY <3>3, Zenon
  <2> QED BY <2>3, <2>4, Zenon
<1> QED BY <1>3, <1>4, Zenon

\* A slot that is emptied, started or moved on keeps the part about handlers.
LEMMA SlotKeeps ==
  ASSUME SealInv, NEW i \in Handlers, NEW r, h' = [h EXCEPT ![i] = r],
         GoodHandler(r, chain'), chain \subseteq chain'
  PROVE  /\ h' = [j \in Handlers |-> h'[j]]
         /\ \A j \in Handlers : GoodHandler(h'[j], chain')
<1>1. h = [j \in Handlers |-> h[j]] BY Zenon DEF SealInv
<1>2. h' = [j \in Handlers |-> IF j = i THEN r ELSE h[j]] BY <1>1, Zenon
<1>3. ASSUME NEW j \in Handlers, j # i PROVE GoodHandler(h[j], chain')
  BY <1>3, Zenon DEF SealInv, GoodHandler
<1> QED BY <1>2, <1>3, Zenon

LEMMA IdleIsGood == \A S : GoodHandler(Idle, S)
BY Zenon DEF GoodHandler, Idle, Fields, Stages

LEMMA InitSeal == Init => SealInv
<1> SUFFICES ASSUME Init PROVE SealInv BY Zenon
<1>1. h = [i \in Handlers |-> h[i]] /\ \A i \in Handlers : GoodHandler(h[i], chain)
  BY IdleIsGood, Zenon DEF Init
<1>2. upd \in [Objects \X Watched -> Nat]
      /\ \A o \in Objects : DONE \in Watched /\ upd[<<o, DONE>>] > 0 => o \in chain
  BY DEF Init
<1>3. db \in [Objects -> States \cup {"none"}] /\ \A o \in Objects : db[o] = DONE => o \in chain
  BY Zenon DEF Init, DONE
<1> QED BY <1>1, <1>2, <1>3, Zenon DEF SealInv

\* Moving on to another place than "sealed" keeps a handler good.
LEMMA MovesKeep ==
  ASSUME NEW r, NEW S, GoodHandler(r, S), r.pc # "idle"
  PROVE  /\ GoodHandler([r EXCEPT !.pc = "check"], S)
         /\ GoodHandler([r EXCEPT !.pc = "act"], S)
         /\ GoodHandler([r EXCEPT !.pc = "insert"], S)
         /\ r.next < Len(Lookups(r.stage)) => GoodHandler([r EXCEPT !.next = @ + 1], S)
         /\ \A id : GoodHandler([r EXCEPT !.pc = "check", !.old = id], S)
<1>1. r.next \in 1..Len(Lookups(r.stage)) BY Zenon DEF GoodHandler
<1>2. Len(Lookups(r.stage)) \in Nat BY Zenon DEF Lookups
<1>3. ASSUME r.next < Len(Lookups(r.stage)) PROVE GoodHandler([r EXCEPT !.next = @ + 1], S)
  <2> DEFINE q == [r EXCEPT !.next = @ + 1]
  <2>1. /\ q = [x \in Fields |-> q[x]]
        /\ q.pc = r.pc /\ q.f = r.f /\ q.stage = r.stage /\ q.o = r.o /\ q.ok = r.ok
        /\ q.next = r.next + 1
    BY Zenon DEF GoodHandler, Fields
  <2> HIDE DEF q
  <2>2. q.next \in 1..Len(Lookups(q.stage)) BY <1>1, <1>2, <1>3, <2>1
  <2>3. GoodHandler(q, S) BY <2>1, <2>2, Zenon DEF GoodHandler
  <2> QED BY <2>3, Zenon DEF q
<1> QED BY <1>1, <1>3, Zenon DEF GoodHandler, Fields

\* The parts of the invariant, to put together again after a step.
LEMMA Assemble ==
  ASSUME h' = [j \in Handlers |-> h'[j]],
         \A j \in Handlers : GoodHandler(h'[j], chain'),
         upd' \in [Objects \X Watched -> Nat],
         \A o \in Objects : DONE \in Watched /\ upd'[<<o, DONE>>] > 0 => o \in chain',
         db' \in [Objects -> States \cup {"none"}],
         \A o \in Objects : db'[o] = DONE => o \in chain'
  PROVE  SealInv'
BY Zenon DEF SealInv

\* A step that leaves the handlers alone.
LEMMA SameHandlers ==
  ASSUME SealInv, h' = h, chain \subseteq chain'
  PROVE  /\ h' = [j \in Handlers |-> h'[j]]
         /\ \A j \in Handlers : GoodHandler(h'[j], chain')
BY Zenon DEF SealInv, GoodHandler

\* A step that leaves the pending updates alone.
LEMMA SameUpdates ==
  ASSUME SealInv, upd' = upd, chain \subseteq chain'
  PROVE  /\ upd' \in [Objects \X Watched -> Nat]
         /\ \A o \in Objects : DONE \in Watched /\ upd'[<<o, DONE>>] > 0 => o \in chain'
BY Zenon DEF SealInv

\* A step that leaves the table alone.
LEMMA SameTable ==
  ASSUME SealInv, db' = db, chain \subseteq chain'
  PROVE  /\ db' \in [Objects -> States \cup {"none"}]
         /\ \A o \in Objects : db'[o] = DONE => o \in chain'
BY Zenon DEF SealInv

\* The seals among the updates S are real.
Honest(S) == \A o \in Objects : <<o, DONE>> \in S => o \in chain

\* A step of a handler starts no update, or updates whose seals are real.
LEMMA HandlerUpdates ==
  ASSUME SealInv, NEW i \in Handlers, HandlerStep(i)
  PROVE  (upd' = upd /\ outcome' = outcome) \/ \E S : Update(S) /\ Honest(S)
<1>g. GoodHandler(h[i], chain) BY Zenon DEF SealInv
<1>s. h[i].stage \in Stages BY <1>g, Zenon DEF GoodHandler
<1>e. \A s \in Stages : \A K : Honest(Errors(s, K)) BY ErrorsAreErrors, Zenon DEF Honest
<1>1. CASE Count(i) \/ InsertUploadProgress(i) \/ InsertResumableProgress(i)
  BY <1>1, Zenon DEF Count, InsertUploadProgress, InsertResumableProgress
<1>2. CASE PopByKey(i) BY <1>2, <1>s, <1>e, Zenon DEF PopByKey
<1>3. CASE TaskUploading(i)
  <2>1. h[i].pc # "idle" BY <1>3, Zenon DEF TaskUploading
  <2>2. Lookups(h[i].stage)[h[i].next] \in Stages BY <2>1, <1>g DEF GoodHandler, Lookups, Stages
  <2> QED BY <1>3, <2>2, <1>e, Zenon DEF TaskUploading
<1>4. CASE CreatePush(i) BY <1>4, <1>s, <1>e, Zenon DEF CreatePush
<1>5. CASE UploadDone(i) \/ ResumableUploadDone(i)
  <2>1. QueueReplicate(i) BY <1>5, Zenon DEF UploadDone, ResumableUploadDone
  <2>2. \/ \E K : Update(Errors("replicate", K) \cup {<<h[i].o, "REPLICATE_OBJECT_DOING">>})
        \/ \E K : Update(Errors("replicate", K) \cup {})
        \/ Update({<<h[i].o, "UPLOAD_OBJECT_ERROR">>})
    BY <2>1, Zenon DEF QueueReplicate
  <2>3. \A K : Honest(Errors("replicate", K)) BY <1>e, Zenon DEF Stages
  <2>4. \A o : /\ <<o, DONE>> # <<h[i].o, "REPLICATE_OBJECT_DOING">>
               /\ <<o, DONE>> # <<h[i].o, "UPLOAD_OBJECT_ERROR">>
    BY Zenon DEF DONE
  <2>5. CASE \E K : Update(Errors("replicate", K) \cup {<<h[i].o, "REPLICATE_OBJECT_DOING">>})
    BY <2>3, <2>4, <2>5, Zenon DEF Honest
  <2>6. CASE \E K : Update(Errors("replicate", K) \cup {}) BY <2>3, <2>6, Zenon DEF Honest
  <2>7. CASE Update({<<h[i].o, "UPLOAD_OBJECT_ERROR">>}) BY <2>4, <2>7 DEF Honest
  <2> QED BY <2>2, <2>5, <2>6, <2>7, Zenon
<1>6. CASE Replicated(i)
  <2>1. \/ \E K : Update(Errors("seal", K) \cup {<<h[i].o, "SEAL_OBJECT_DOING">>})
        \/ \E K : Update(Errors("seal", K) \cup {})
        \/ h[i].ok = TRUE /\ h[i].f = "replicated" /\ Update({<<h[i].o, DONE>>})
    BY <1>6, Zenon DEF Replicated, DONE
  <2>2. \A K : Honest(Errors("seal", K)) BY <1>e, Zenon DEF Stages
  <2>3. \A o : <<o, DONE>> # <<h[i].o, "SEAL_OBJECT_DOING">> BY Zenon DEF DONE
  <2>4. h[i].ok = TRUE /\ h[i].f = "replicated" => h[i].o \in chain BY <1>g, Zenon DEF GoodHandler
  <2>5. CASE \E K : Update(Errors("seal", K) \cup {<<h[i].o, "SEAL_OBJECT_DOING">>})
    BY <2>2, <2>3, <2>5, Zenon DEF Honest
  <2>6. CASE \E K : Update(Errors("seal", K) \cup {}) BY <2>2, <2>6, Zenon DEF Honest
  <2>7. CASE h[i].ok = TRUE /\ h[i].f = "replicated" /\ Update({<<h[i].o, DONE>>})
    BY <2>4, <2>7 DEF Honest
  <2> QED BY <2>1, <2>5, <2>6, <2>7, Zenon
<1>7. CASE handleFailedReplicatePieceTask(i) \/ handleFailedSealObjectTask(i)
  <2>1. Retry(i) BY <1>7, Zenon DEF handleFailedReplicatePieceTask, handleFailedSealObjectTask
  <2>2. \/ upd' = upd /\ outcome' = outcome
        \/ Update({<<h[i].o, ErrorState[h[i].stage]>>})
        \/ \E K : Update(Errors(h[i].stage, K))
    BY <2>1, Zenon DEF Retry, PushAgain
  <2>3. Honest({<<h[i].o, ErrorState[h[i].stage]>>})
    BY <1>s DEF Honest, ErrorState, Stages, DONE
  <2> QED BY <2>2, <2>3, <1>s, <1>e, Zenon
<1>8. CASE Sealed(i)
  <2>1. PICK K : Update(Errors("seal", K) \cup {<<h[i].o, DONE>>}) BY <1>8, Zenon DEF Sealed, DONE
  <2>2. h[i].o \in chain BY <1>8, <1>g, Zenon DEF Sealed, GoodHandler
  <2>3. Honest(Errors("seal", K) \cup {<<h[i].o, DONE>>}) BY <2>2, <1>e, Zenon DEF Honest, Stages
  <2> QED BY <2>1, <2>3, Zenon
<1> QED BY <1>1, <1>2, <1>3, <1>4, <1>5, <1>6, <1>7, <1>8, Zenon DEF HandlerStep

\* A step of a handler ends it, or moves it on with the work it was given.
LEMMA HandlerMoves ==
  ASSUME SealInv, NEW i \in Handlers, HandlerStep(i)
  PROVE  /\ h[i].pc # "idle"
         /\ \/ Stop(i)
            \/ h' = [h EXCEPT ![i] = [h[i] EXCEPT !.pc = "check"]]
            \/ h' = [h EXCEPT ![i] = [h[i] EXCEPT !.pc = "act"]]
            \/ h' = [h EXCEPT ![i] = [h[i] EXCEPT !.pc = "insert"]]
            \/ \E id : h' = [h EXCEPT ![i] = [h[i] EXCEPT !.pc = "check", !.old = id]]
            \/ /\ h[i].next < Len(Lookups(h[i].stage))
               /\ h' = [h EXCEPT ![i] = [h[i] EXCEPT !.next = @ + 1]]
<1>1. CASE Count(i) BY <1>1, Zenon DEF Count
<1>2. CASE PopByKey(i) BY <1>2, Zenon DEF PopByKey
<1>3. CASE TaskUploading(i) BY <1>3, Zenon DEF TaskUploading
<1>4. CASE CreatePush(i) BY <1>4, Zenon DEF CreatePush
<1>5. CASE InsertUploadProgress(i) \/ InsertResumableProgress(i)
  BY <1>5, Zenon DEF InsertUploadProgress, InsertResumableProgress
<1>6. CASE UploadDone(i) \/ ResumableUploadDone(i)
  BY <1>6, Zenon DEF UploadDone, ResumableUploadDone, QueueReplicate
<1>7. CASE Replicated(i) BY <1>7, Zenon DEF Replicated
<1>8. CASE handleFailedReplicatePieceTask(i) \/ handleFailedSealObjectTask(i)
  BY <1>8, Zenon DEF handleFailedReplicatePieceTask, handleFailedSealObjectTask, Retry
<1>9. CASE Sealed(i) BY <1>9, Zenon DEF Sealed
<1> QED BY <1>1, <1>2, <1>3, <1>4, <1>5, <1>6, <1>7, <1>8, <1>9, Zenon DEF HandlerStep

\* A step of a handler leaves the chain alone and the table too, or inserts a row.
LEMMA HandlerRows ==
  ASSUME NEW i \in Handlers, HandlerStep(i)
  PROVE  /\ chain' = chain
         /\ \/ db' = db
            \/ db[h[i].o] = "none" /\ db' = [db EXCEPT ![h[i].o] = "INIT_UNSPECIFIED"]
               /\ accepted' = accepted /\ outcome' = outcome
BY Zenon DEF HandlerStep, Count, PopByKey, TaskUploading, CreatePush, InsertUploadProgress,
     InsertResumableProgress, Inserted, UploadDone, ResumableUploadDone, QueueReplicate,
     Replicated, handleFailedReplicatePieceTask, handleFailedSealObjectTask, Retry, Sealed

\* The steps of a handler.
LEMMA HandlerKeeps ==
  ASSUME SealInv, NEW i \in Handlers, HandlerStep(i)
  PROVE  SealInv'
<1> USE SealInv
<1>g. GoodHandler(h[i], chain) BY Zenon DEF SealInv
<1>c. chain' = chain BY HandlerRows, Zenon
<1>1. /\ h' = [j \in Handlers |-> h'[j]]
      /\ \A j \in Handlers : GoodHandler(h'[j], chain')
  <2>1. PICK r : h' = [h EXCEPT ![i] = r] /\ GoodHandler(r, chain)
    BY HandlerMoves, MovesKeep, IdleIsGood, <1>g, Zenon DEF Stop
  <2> QED BY <2>1, <1>c, SlotKeeps, Zenon
<1>2. /\ upd' \in [Objects \X Watched -> Nat]
      /\ \A o \in Objects : DONE \in Watched /\ upd'[<<o, DONE>>] > 0 => o \in chain'
  BY <1>c, HandlerUpdates, UpdateKeeps, SameUpdates, Zenon DEF Honest
<1>3. /\ db' \in [Objects -> States \cup {"none"}]
      /\ \A o \in Objects : db'[o] = DONE => o \in chain'
  <2>1. CASE db' = db BY <2>1, <1>c, SameTable, Zenon
  <2>2. CASE db' = [db EXCEPT ![h[i].o] = "INIT_UNSPECIFIED"]
    BY <2>2, <1>c, Zenon DEF SealInv, States, DONE
  <2> QED BY <2>1, <2>2, HandlerRows, Zenon
<1> QED BY <1>1, <1>2, <1>3, Assemble, Zenon

\* Handing work to a free slot.
LEMMA StartKeeps ==
  ASSUME SealInv, NEW i \in Handlers, NEW f, NEW pc, NEW s \in Stages, NEW k, NEW o, NEW ok,
         Start(i, f, pc, s, k, o, ok), chain \subseteq chain',
         f = "replicated" /\ ok = TRUE => o \in chain',
         pc = "sealed" => o \in chain'
  PROVE  /\ h' = [j \in Handlers |-> h'[j]]
         /\ \A j \in Handlers : GoodHandler(h'[j], chain')
<1> DEFINE r == [Idle EXCEPT !.pc = pc, !.f = f, !.stage = s, !.key = k,
                             !.o = o, !.ok = ok, !.next = 1]
<1>a. r = [x \in Fields |-> r[x]] BY Zenon DEF Idle, Fields
<1>b. r.pc = pc /\ r.f = f /\ r.stage = s /\ r.o = o /\ r.ok = ok /\ r.next = 1 BY Zenon DEF Idle
<1>c. 1 \in 1..Len(Lookups(s)) BY DEF Lookups
<1> HIDE DEF r
<1>1. GoodHandler(r, chain') BY <1>a, <1>b, <1>c, Zenon DEF GoodHandler
<1>2. h' = [h EXCEPT ![i] = r] BY Zenon DEF Start, r
<1> QED BY <1>1, <1>2, SlotKeeps, Zenon

\* Every step keeps the invariant.
LEMMA StepKeeps == SealInv /\ [Next]_vars => SealInv'
<1> SUFFICES ASSUME SealInv, [Next]_vars PROVE SealInv' BY Zenon
<1> USE SealInv
<1>1. ASSUME NEW i \in Handlers, HandlerStep(i) PROVE SealInv' BY <1>1, HandlerKeeps, Zenon
<1>2. ASSUME NEW i \in Handlers, NEW r \in Requests, BeginUpload(i, r) PROVE SealInv'
  <2>1. chain' = chain /\ upd' = upd /\ db' = db BY <1>2, Zenon DEF BeginUpload
  <2>2. r.stage \in Stages BY RequestsAssumption, Zenon DEF Stages
  <2>3. Start(i, "create", "count", r.stage, r.key, r.o, TRUE) BY <1>2, Zenon DEF BeginUpload
  <2>4. /\ h' = [j \in Handlers |-> h'[j]]
        /\ \A j \in Handlers : GoodHandler(h'[j], chain')
    <3>1. "create" # "replicated" /\ "count" # "sealed" BY Zenon
    <3>2. chain \subseteq chain' BY <2>1, Zenon
    <3> QED BY <3>1, <3>2, <2>2, <2>3, StartKeeps, Zenon
  <2> QED BY <2>1, <2>4, SameUpdates, SameTable, Assemble, Zenon
<1>3. ASSUME NEW i \in Handlers, NEW r \in Requests, NEW ok \in BOOLEAN, FinishUpload(i, r, ok)
      PROVE  SealInv'
  <2>1. chain' = chain /\ upd' = upd /\ db' = db BY <1>3, Zenon DEF FinishUpload
  <2>2. r.stage \in Stages BY RequestsAssumption, Zenon DEF Stages
  <2>3. h' = h \/ Start(i, "done", "pop", r.stage, r.key, r.o, ok) BY <1>3, Zenon DEF FinishUpload
  <2>4. /\ h' = [j \in Handlers |-> h'[j]]
        /\ \A j \in Handlers : GoodHandler(h'[j], chain')
    <3>1. CASE h' = h BY <3>1, <2>1, SameHandlers, Zenon
    <3>2. CASE Start(i, "done", "pop", r.stage, r.key, r.o, ok)
      <4>1. "done" # "replicated" /\ "pop" # "sealed" BY Zenon
      <4>2. chain \subseteq chain' BY <2>1, Zenon
      <4> QED BY <3>2, <4>1, <4>2, <2>2, StartKeeps, Zenon
    <3> QED BY <2>3, <3>1, <3>2, Zenon
  <2> QED BY <2>1, <2>4, SameUpdates, SameTable, Assemble, Zenon
<1>4. ASSUME NEW o \in Objects, NEW s \in Watched, UpdateUploadProgress(o, s) PROVE SealInv'
  <2>1. chain' = chain /\ h' = h BY <1>4, Zenon DEF UpdateUploadProgress
  <2>2. upd[<<o, s>>] > 0 /\ upd' = [upd EXCEPT ![<<o, s>>] = @ - 1]
    BY <1>4, Zenon DEF UpdateUploadProgress
  <2>3. \A x \in Objects \X Watched : upd[x] \in Nat BY Zenon DEF SealInv
  <2>4. <<o, s>> \in Objects \X Watched BY Zenon
  <2>5. upd[<<o, s>>] \in Nat /\ upd[<<o, s>>] - 1 \in Nat BY <2>2, <2>3, <2>4
  <2>6. upd' \in [Objects \X Watched -> Nat] BY <2>2, <2>5, Zenon DEF SealInv
  <2>7. \A p \in Objects : DONE \in Watched /\ upd'[<<p, DONE>>] > 0 => upd[<<p, DONE>>] > 0
    BY <2>2, <2>3, <2>4, Zenon DEF SealInv
  <2>8. db' = db \/ db' = [db EXCEPT ![o] = s] BY <1>4, Zenon DEF UpdateUploadProgress
  <2>9. db' \in [Objects -> States \cup {"none"}]
    BY <2>8, WatchedAssumption, Zenon DEF SealInv
  <2>10. \A p \in Objects : db'[p] = DONE => p \in chain
    BY <2>8, <2>2, Zenon DEF SealInv
  <2> QED BY <2>1, <2>6, <2>7, <2>9, <2>10, SameHandlers, Assemble, Zenon DEF SealInv
<1>5. ASSUME NEW e \in Executors, DispatchTask(e) PROVE SealInv'
  <2>1. chain' = chain /\ h' = h /\ db' = db BY <1>5, Zenon DEF DispatchTask
  <2>2. Update(UNION {Errors(s, GC(s)) : s \in Dispatched}) BY <1>5, Zenon DEF DispatchTask
  <2>3. \A o \in Objects : <<o, DONE>> \notin UNION {Errors(s, GC(s)) : s \in Dispatched}
    BY ErrorsAreErrors, Zenon DEF Dispatched, Stages
  <2> QED BY <2>1, <2>2, <2>3, SameHandlers, UpdateKeeps, SameTable, Assemble, Zenon
<1>6. ASSUME NEW e \in Executors, NEW i \in Handlers, NEW res, HandleReplicatePieceTask(e, i, res)
      PROVE  SealInv'
  <2>1. chain \subseteq chain' /\ upd' = upd /\ db' = db BY <1>6, Zenon DEF HandleReplicatePieceTask
  <2>2. res = "sealed" => ex[e].o \in chain' BY <1>6, Zenon DEF HandleReplicatePieceTask
  <2>3. \/ Start(i, "failed", "pop", "replicate", ex[e].o, ex[e].o, FALSE)
        \/ Start(i, "replicated", "pop", "replicate", ex[e].o, ex[e].o, res = "sealed")
    BY <1>6, Zenon DEF HandleReplicatePieceTask
  <2> QED BY <2>1, <2>2, <2>3, StartKeeps, SameUpdates, SameTable, Assemble, Zenon DEF Stages
<1>7. ASSUME NEW e \in Executors, NEW i \in Handlers, NEW res, HandleSealObjectTask(e, i, res)
      PROVE  SealInv'
  <2>1. chain \subseteq chain' /\ upd' = upd /\ db' = db BY <1>7, Zenon DEF HandleSealObjectTask
  <2>2. \/ Start(i, "failed", "pop", "seal", ex[e].o, ex[e].o, FALSE)
        \/ ex[e].o \in chain' /\ Start(i, "sealed", "sealed", "seal", ex[e].o, ex[e].o, TRUE)
    BY <1>7, Zenon DEF HandleSealObjectTask
  <2>3. /\ h' = [j \in Handlers |-> h'[j]]
        /\ \A j \in Handlers : GoodHandler(h'[j], chain')
    <3>1. "seal" \in Stages BY Zenon DEF Stages
    <3>2. CASE Start(i, "failed", "pop", "seal", ex[e].o, ex[e].o, FALSE)
      <4>1. "failed" # "replicated" /\ "pop" # "sealed" BY Zenon
      <4> QED BY <3>1, <3>2, <4>1, <2>1, StartKeeps, Zenon
    <3>3. CASE ex[e].o \in chain' /\ Start(i, "sealed", "sealed", "seal", ex[e].o, ex[e].o, TRUE)
      <4>1. "sealed" # "replicated" BY Zenon
      <4> QED BY <3>1, <3>3, <4>1, <2>1, StartKeeps, Zenon
    <3> QED BY <2>2, <3>2, <3>3, Zenon
  <2> QED BY <2>1, <2>3, SameUpdates, SameTable, Assemble, Zenon
<1>8. CASE Restart
  <2>1. chain' = chain /\ db' = db BY <1>8, Zenon DEF Restart
  <2>2. /\ h' = [j \in Handlers |-> h'[j]]
        /\ \A j \in Handlers : GoodHandler(h'[j], chain')
    BY <1>8, IdleIsGood, Zenon DEF Restart
  <2>3. /\ upd' \in [Objects \X Watched -> Nat]
        /\ \A o \in Objects : DONE \in Watched /\ upd'[<<o, DONE>>] > 0 => o \in chain'
    BY <1>8 DEF Restart
  <2> QED BY <2>1, <2>2, <2>3, SameTable, Assemble, Zenon
<1>9. CASE UNCHANGED <<h, upd, db, chain>>
  BY <1>9, SameHandlers, SameUpdates, SameTable, Assemble, Zenon
<1>10. ASSUME NEW r \in Requests, LoseUpload(r) PROVE SealInv'
  BY <1>9, <1>10, Zenon DEF LoseUpload
<1>11. ASSUME NEW e \in Executors, OnAskTask(e) \/ LoseTask(e) PROVE SealInv'
  BY <1>9, <1>11, Zenon DEF OnAskTask, LoseTask
<1>12. ASSUME NEW s, NEW k, Late(s, k) PROVE SealInv'
  BY <1>9, <1>12, Zenon DEF Late
<1>13. CASE UNCHANGED vars BY <1>9, <1>13, Zenon DEF vars
<1> QED
  BY <1>1, <1>2, <1>3, <1>4, <1>5, <1>6, <1>7, <1>8, <1>10, <1>11, <1>12, <1>13, Zenon DEF Next

\* For all parameters, every row that says SEAL_OBJECT_DONE is of an object sealed on
\* the chain: no late, repeated or contradictory report and no restart makes
\* HandleReplicatePieceTask or HandleSealObjectTask record a seal that is not there.
THEOREM SealsAreReal == Spec => []SealDoneIsSealed
<1>1. SealInv => SealDoneIsSealed BY Zenon DEF SealInv, SealDoneIsSealed, DONE
<1> QED BY <1>1, InitSeal, StepKeeps, PTL DEF Spec

----------------------------------------------------------------------------
(* The refinement. *)

\* What was announced: final states only, a seal only of a sealed object, and every
\* final state that a goroutine has to write.
Announced ==
  /\ outcome \in [Objects -> SUBSET Final]
  /\ \A o \in Objects : DONE \in outcome[o] => o \in chain
  /\ \A o \in Objects, s \in Watched \cap Final : upd[<<o, s>>] > 0 => s \in outcome[o]

\* Where a handler stands in the life of its object: only the stages after the
\* upload are about accepted objects.
OnPath(r, A) ==
  /\ r.pc # "idle" => r.o \in Objects
  /\ r.f \in {"create", "done"} => r.stage \in {"upload", "resumable"}
  /\ r.f \in {"replicated", "failed"} => r.o \in A /\ r.key \in A

ExFields == {"pc", "stage", "o", "id"}

\* The executors that have a task, or are being given one, work on accepted objects.
ExOnPath(f, A) ==
  /\ f = [e \in Executors |-> f[e]]
  /\ \A e \in Executors : /\ f[e] = [x \in ExFields |-> f[e][x]]
                          /\ f[e].pc # "idle" => f[e].o \in A

\* Replicate and seal tasks are about accepted objects wherever they are: in a queue,
\* with an executor, or in a report.
Path ==
  /\ accepted \subseteq Objects
  /\ queue = [s \in Stages |-> queue[s]]
  /\ \A s \in Dispatched : DOMAIN queue[s] \subseteq accepted
  /\ \A i \in Handlers : OnPath(h[i], accepted)
  /\ ExOnPath(ex, accepted)

LifeInv == SealInv /\ Announced /\ Path

LEMMA InitLife == Init => Announced /\ Path
<1> SUFFICES ASSUME Init PROVE Announced /\ Path BY Zenon
<1>1. Announced BY DEF Init, Announced
<1>2. OnPath(Idle, {}) BY Zenon DEF OnPath, Idle
<1>3. Free = [x \in ExFields |-> Free[x]] /\ Free.pc = "idle" BY Zenon DEF Free, ExFields
<1>4. queue = [s \in Stages |-> queue[s]] /\ \A s \in Dispatched : DOMAIN queue[s] \subseteq accepted
  BY Zenon DEF Init, Dispatched, Stages
<1>5. Path BY <1>2, <1>3, <1>4, Zenon DEF Init, Path, ExOnPath
<1> QED BY <1>1, <1>5, Zenon

\* Starting honest updates announces what they say.
LEMMA UpdateAnnounces ==
  ASSUME SealInv, Announced, chain' = chain, NEW S, Update(S), Honest(S)
  PROVE  Announced' /\ Lifecycle!Announce
<1>1. outcome' = [o \in Objects |-> outcome[o] \cup {s \in Final : <<o, s>> \in S}]
  BY Zenon DEF Update
<1>2. outcome' \in [Objects -> SUBSET Final] BY <1>1, Zenon DEF Announced
<1>3. \A o \in Objects : DONE \in outcome'[o] => o \in chain
  BY <1>1, Zenon DEF Announced, Honest
<1>4. \A o \in Objects : outcome[o] \subseteq outcome'[o] BY <1>1, Zenon
<1>5. ASSUME NEW o \in Objects, NEW s \in Watched \cap Final, upd'[<<o, s>>] > 0
      PROVE  s \in outcome'[o]
  <2>1. <<o, s>> \in Objects \X Watched BY Zenon
  <2>2. upd'[<<o, s>>] = upd[<<o, s>>] + IF <<o, s>> \in S THEN 1 ELSE 0
    BY <2>1, Zenon DEF Update
  <2>3. CASE <<o, s>> \in S BY <2>3, <1>1, Zenon
  <2>4. CASE <<o, s>> \notin S
    <3>1. upd[<<o, s>>] \in Nat BY <2>1, Zenon DEF SealInv
    <3>2. upd[<<o, s>>] > 0 BY <2>2, <2>4, <3>1, <1>5
    <3> QED BY <3>2, <1>4, Zenon DEF Announced
  <2> QED BY <2>3, <2>4, Zenon
<1>6. Announced' BY <1>2, <1>3, <1>5, Zenon DEF Announced
<1>7. Lifecycle!Announce BY <1>2, <1>3, <1>4, Zenon DEF Lifecycle!Announce, DONE
<1> QED BY <1>6, <1>7, Zenon

LEMMA SameAnnounced ==
  ASSUME Announced, chain \subseteq chain', UNCHANGED <<upd, outcome>>
  PROVE  Announced'
BY Zenon DEF Announced

\* The keys a Push leaves in a queue.
LEMMA PushedKeys ==
  ASSUME NEW q, NEW S, NEW cap, NEW k, NEW t
  PROVE  /\ DOMAIN AfterPush(q, S, cap, k, t) \subseteq DOMAIN q \cup {k}
         /\ PushErr(q, S, cap, k) # "nil" => DOMAIN AfterPush(q, S, cap, k, t) \subseteq DOMAIN q
BY Zenon DEF AfterPush, AfterHas, Retired, With, Without

\* Changing one queue keeps the part about queues when its keys are accepted.
LEMMA QueueKeeps ==
  ASSUME Path, accepted \subseteq accepted', NEW s, NEW q, queue' = [queue EXCEPT ![s] = q],
         s \in Dispatched => DOMAIN q \subseteq accepted'
  PROVE  /\ queue' = [t \in Stages |-> queue'[t]]
         /\ \A t \in Dispatched : DOMAIN queue'[t] \subseteq accepted'
<1>1. queue = [t \in Stages |-> queue[t]] BY Zenon DEF Path
<1>2. queue' = [t \in Stages |-> IF t = s THEN q ELSE queue[t]] BY <1>1, Zenon
<1>3. \A t \in Dispatched : t \in Stages BY Zenon DEF Dispatched, Stages
<1>4. \A t \in Dispatched : DOMAIN queue[t] \subseteq accepted BY Zenon DEF Path
<1> QED BY <1>2, <1>3, <1>4, Zenon

LEMMA SameQueues ==
  ASSUME Path, accepted \subseteq accepted', queue' = queue
  PROVE  /\ queue' = [t \in Stages |-> queue'[t]]
         /\ \A t \in Dispatched : DOMAIN queue'[t] \subseteq accepted'
BY Zenon DEF Path

\* The queues after a step of a handler.
LEMMA HandlerQueues ==
  ASSUME LifeInv, NEW i \in Handlers, HandlerStep(i)
  PROVE  /\ accepted \subseteq accepted' /\ accepted' \subseteq Objects
         /\ accepted' # accepted => accepted' = accepted \cup {h[i].o} /\ h[i].o \in Objects
         /\ queue' = [s \in Stages |-> queue'[s]]
         /\ \A s \in Dispatched : DOMAIN queue'[s] \subseteq accepted'
<1>p. h[i].pc # "idle" BY HandlerMoves, Zenon DEF LifeInv
<1>o. OnPath(h[i], accepted) BY Zenon DEF LifeInv, Path
<1>b. h[i].o \in Objects BY <1>p, <1>o, Zenon DEF OnPath
<1>a. accepted \subseteq Objects /\ Path BY Zenon DEF LifeInv, Path
<1>q. \A s \in Dispatched : DOMAIN queue[s] \subseteq accepted BY Zenon DEF LifeInv, Path
<1>1. CASE Count(i) \/ InsertUploadProgress(i) \/ InsertResumableProgress(i)
  <2>1. queue' = queue /\ accepted' = accepted
    BY <1>1, Zenon DEF Count, InsertUploadProgress, InsertResumableProgress
  <2> QED BY <2>1, <1>a, SameQueues, Zenon
<1>2. CASE PopByKey(i) \/ TaskUploading(i) \/ Sealed(i)
  <2>1. accepted' = accepted BY <1>2, Zenon DEF PopByKey, TaskUploading, Sealed
  <2>2. PICK s, K : queue' = [queue EXCEPT ![s] = Without(queue[s], K)]
    BY <1>2, Zenon DEF PopByKey, TaskUploading, Sealed, AfterPopByKey, AfterHas
  <2>3. DOMAIN Without(queue[s], K) \subseteq DOMAIN queue[s] BY Zenon DEF Without
  <2> QED BY <2>1, <2>2, <2>3, <1>a, <1>q, QueueKeeps, Zenon
<1>3. CASE CreatePush(i)
  <2>1. accepted' = accepted /\ h[i].f = "create" BY <1>3, Zenon DEF CreatePush
  <2>2. PICK q : queue' = [queue EXCEPT ![h[i].stage] = q] BY <1>3, Zenon DEF CreatePush, AfterPushOf
  <2>3. h[i].stage \notin Dispatched BY <2>1, <1>o, Zenon DEF OnPath, Dispatched
  <2> QED BY <2>1, <2>2, <2>3, <1>a, QueueKeeps, Zenon
<1>4. CASE UploadDone(i) \/ ResumableUploadDone(i)
  <2>1. QueueReplicate(i) BY <1>4, Zenon DEF UploadDone, ResumableUploadDone
  <2>2. CASE UNCHANGED <<queue, accepted>> BY <2>2, <1>a, SameQueues, Zenon
  <2>3. CASE ~UNCHANGED <<queue, accepted>>
    <3>1. /\ queue' = AfterPushOf("replicate", h[i].o, New)
          /\ accepted' = IF PushErrOf("replicate", h[i].o) = "nil"
                         THEN accepted \cup {h[i].o} ELSE accepted
      BY <2>1, <2>3, Zenon DEF QueueReplicate
    <3>2. PICK q : /\ queue' = [queue EXCEPT !["replicate"] = q]
                   /\ q = AfterPush(queue["replicate"], GC("replicate"), Cap["replicate"], h[i].o, New)
      BY <3>1, Zenon DEF AfterPushOf
    <3>3. DOMAIN queue["replicate"] \subseteq accepted BY <1>q, Zenon DEF Dispatched
    <3>4. DOMAIN q \subseteq accepted'
      BY <3>1, <3>2, <3>3, PushedKeys DEF PushErrOf
    <3>5. accepted \subseteq accepted' /\ accepted' \subseteq Objects
          /\ (accepted' # accepted => accepted' = accepted \cup {h[i].o})
      BY <3>1, <1>a, <1>b, Zenon
    <3> QED BY <3>2, <3>4, <3>5, <1>a, <1>b, QueueKeeps, Zenon
  <2> QED BY <2>2, <2>3, Zenon
<1>5. CASE Replicated(i)
  <2>1. accepted' = accepted /\ h[i].o \in accepted
    BY <1>5, <1>o, Zenon DEF Replicated, OnPath
  <2>2. queue' = queue \/ queue' = AfterPushOf("seal", h[i].o, New) BY <1>5, Zenon DEF Replicated
  <2>3. CASE queue' = queue BY <2>1, <2>3, <1>a, SameQueues, Zenon
  <2>4. CASE queue' = AfterPushOf("seal", h[i].o, New)
    <3>1. PICK q : /\ queue' = [queue EXCEPT !["seal"] = q]
                   /\ q = AfterPush(queue["seal"], GC("seal"), Cap["seal"], h[i].o, New)
      BY <2>4, Zenon DEF AfterPushOf
    <3>2. DOMAIN queue["seal"] \subseteq accepted BY <1>q, Zenon DEF Dispatched
    <3>3. DOMAIN q \subseteq accepted' BY <2>1, <3>1, <3>2, PushedKeys
    <3> QED BY <2>1, <3>1, <3>3, <1>a, QueueKeeps, Zenon
  <2> QED BY <2>2, <2>3, <2>4, Zenon
<1>6. CASE handleFailedReplicatePieceTask(i) \/ handleFailedSealObjectTask(i)
  <2>1. Retry(i) /\ h[i].f = "failed"
    BY <1>6, Zenon DEF handleFailedReplicatePieceTask, handleFailedSealObjectTask
  <2>2. accepted' = accepted /\ h[i].key \in accepted BY <2>1, <1>o, Zenon DEF Retry, OnPath
  <2>3. queue' = queue \/ queue' = AfterPushOf(h[i].stage, h[i].key, h[i].old)
    BY <2>1, Zenon DEF Retry, PushAgain
  <2>4. CASE queue' = queue BY <2>2, <2>4, <1>a, SameQueues, Zenon
  <2>5. CASE queue' = AfterPushOf(h[i].stage, h[i].key, h[i].old)
    <3> DEFINE s == h[i].stage
    <3>1. PICK q : /\ queue' = [queue EXCEPT ![s] = q]
                   /\ q = AfterPush(queue[s], GC(s), Cap[s], h[i].key, h[i].old)
      BY <2>5, Zenon DEF AfterPushOf
    <3>2. DOMAIN q \subseteq DOMAIN queue[s] \cup {h[i].key} BY <3>1, PushedKeys
    <3>3. s \in Dispatched => DOMAIN q \subseteq accepted' BY <2>2, <3>2, <1>q, Zenon
    <3> QED BY <2>2, <3>1, <3>3, <1>a, QueueKeeps, Zenon
  <2> QED BY <2>3, <2>4, <2>5, Zenon
<1> QED BY <1>1, <1>2, <1>3, <1>4, <1>5, <1>6, Zenon DEF HandlerStep

\* One slot changes; the other handlers stay on the path.
LEMMA SlotOnPath ==
  ASSUME LifeInv, accepted \subseteq accepted', NEW i \in Handlers, NEW r,
         h' = [h EXCEPT ![i] = r], OnPath(r, accepted')
  PROVE  \A j \in Handlers : OnPath(h'[j], accepted')
<1>1. h = [j \in Handlers |-> h[j]] BY Zenon DEF LifeInv, SealInv
<1>2. h' = [j \in Handlers |-> IF j = i THEN r ELSE h[j]] BY <1>1, Zenon
<1>3. \A j \in Handlers : OnPath(h[j], accepted') BY Zenon DEF LifeInv, Path, OnPath
<1> QED BY <1>2, <1>3, Zenon

LEMMA IdleOnPath == \A A : OnPath(Idle, A)
BY Zenon DEF OnPath, Idle

SameWork(r, q) == r.f = q.f /\ r.stage = q.stage /\ r.o = q.o /\ r.key = q.key

\* A handler that moves on keeps the work it was given.
LEMMA MovesKeepWork ==
  ASSUME NEW q, NEW S, GoodHandler(q, S)
  PROVE  /\ SameWork([q EXCEPT !.pc = "check"], q)
         /\ SameWork([q EXCEPT !.pc = "act"], q)
         /\ SameWork([q EXCEPT !.pc = "insert"], q)
         /\ SameWork([q EXCEPT !.next = @ + 1], q)
         /\ \A id : SameWork([q EXCEPT !.pc = "check", !.old = id], q)
<1>1. q = [x \in Fields |-> q[x]] BY Zenon DEF GoodHandler
<1> QED BY <1>1, Zenon DEF SameWork, Fields

\* A step of a handler keeps the path and announces, accepts, inserts or changes
\* nothing that ObjectLifecycle sees.
LEMMA HandlerLife ==
  ASSUME LifeInv, NEW i \in Handlers, HandlerStep(i)
  PROVE  Announced' /\ Path' /\ [Lifecycle!Next]_(Lifecycle!vars)
<1>s. SealInv /\ Announced /\ Path BY Zenon DEF LifeInv
<1>c. chain' = chain BY HandlerRows, Zenon
<1>o. OnPath(h[i], accepted) /\ h[i].pc # "idle" BY <1>s, HandlerMoves, Zenon DEF Path
<1>b. h[i].o \in Objects BY <1>o, Zenon DEF OnPath
<1>1. Announced' /\ (outcome' = outcome \/ Lifecycle!Announce)
  BY <1>s, <1>c, HandlerUpdates, UpdateAnnounces, SameAnnounced, Zenon
<1>2. Path'
  <2>1. \A j \in Handlers : OnPath(h'[j], accepted')
    <3>1. GoodHandler(h[i], chain) BY <1>s, Zenon DEF SealInv
    <3>2. PICK r : /\ h' = [h EXCEPT ![i] = r]
                   /\ r = Idle \/ SameWork(r, h[i])
      BY <1>s, <3>1, HandlerMoves, MovesKeepWork, Zenon DEF Stop
    <3>3. OnPath(r, accepted') BY <3>2, <1>o, HandlerQueues, IdleOnPath, Zenon DEF OnPath, SameWork
    <3> QED BY <3>2, <3>3, HandlerQueues, SlotOnPath, Zenon
  <2>2. ex' = ex
    BY Zenon DEF HandlerStep, Count, PopByKey, TaskUploading, CreatePush, InsertUploadProgress,
       InsertResumableProgress, UploadDone, ResumableUploadDone, QueueReplicate,
       Replicated, handleFailedReplicatePieceTask, handleFailedSealObjectTask, Retry, Sealed
  <2>3. ExOnPath(ex', accepted') BY <2>2, <1>s, HandlerQueues, Zenon DEF Path, ExOnPath
  <2> QED BY <2>1, <2>3, HandlerQueues, Zenon DEF Path
<1>3. [Lifecycle!Next]_(Lifecycle!vars)
  <2>1. CASE db' = db
    <3>1. CASE outcome' = outcome /\ accepted' = accepted
      BY <2>1, <3>1, <1>c, Zenon DEF Lifecycle!vars
    <3>2. outcome' = outcome => Lifecycle!Announce
      BY <1>s, Zenon DEF Announced, Lifecycle!Announce, DONE
    <3>3. CASE accepted' = accepted
      <4>1. Lifecycle!Conclude BY <2>1, <3>2, <3>3, <1>1, <1>c, Zenon DEF Lifecycle!Conclude
      <4> QED BY <4>1, Zenon DEF Lifecycle!Next
    <3>4. CASE accepted' # accepted
      <4>1. Lifecycle!Accept
        BY <2>1, <3>2, <3>4, <1>1, <1>c, HandlerQueues, Zenon DEF Lifecycle!Accept
      <4> QED BY <4>1, Zenon DEF Lifecycle!Next
    <3> QED BY <3>3, <3>4, Zenon
  <2>2. CASE /\ db[h[i].o] = "none" /\ db' = [db EXCEPT ![h[i].o] = "INIT_UNSPECIFIED"]
             /\ accepted' = accepted /\ outcome' = outcome
    <3>1. Lifecycle!Open BY <2>2, <1>b, <1>c, Zenon DEF Lifecycle!Open
    <3> QED BY <3>1, Zenon DEF Lifecycle!Next
  <2> QED BY <2>1, <2>2, HandlerRows, Zenon
<1> QED BY <1>1, <1>2, <1>3, Zenon

\* Handing work to a free slot.
LEMMA StartOnPath ==
  ASSUME LifeInv, NEW i \in Handlers, NEW f, NEW pc, NEW s, NEW k, NEW o \in Objects, NEW ok,
         Start(i, f, pc, s, k, o, ok), accepted' = accepted,
         f \in {"create", "done"} => s \in {"upload", "resumable"},
         f \in {"replicated", "failed"} => o \in accepted /\ k \in accepted
  PROVE  \A j \in Handlers : OnPath(h'[j], accepted')
<1> DEFINE r == [Idle EXCEPT !.pc = pc, !.f = f, !.stage = s, !.key = k,
                             !.o = o, !.ok = ok, !.next = 1]
<1>1. r.f = f /\ r.stage = s /\ r.o = o /\ r.key = k BY Zenon DEF Idle
<1>2. h' = [h EXCEPT ![i] = r] BY Zenon DEF Start
<1> HIDE DEF r
<1>3. OnPath(r, accepted') BY <1>1, Zenon DEF OnPath
<1> QED BY <1>2, <1>3, SlotOnPath, Zenon

\* The parts of Path, to put together again after a step.
LEMMA AssemblePath ==
  ASSUME Path, accepted' = accepted,
         queue' = queue \/ (/\ queue' = [t \in Stages |-> queue'[t]]
                            /\ \A t \in Dispatched : DOMAIN queue'[t] \subseteq accepted),
         h' = h \/ \A j \in Handlers : OnPath(h'[j], accepted'),
         \/ ex' = ex
         \/ \E e, v : /\ ex' = [ex EXCEPT ![e] = v]
                      /\ v = [x \in ExFields |-> v[x]]
                      /\ v.pc # "idle" => v.o \in accepted
  PROVE  Path'
<1>1. ExOnPath(ex', accepted')
  <2>1. CASE ex' = ex BY <2>1, Zenon DEF Path
  <2>2. ASSUME NEW e, NEW v, ex' = [ex EXCEPT ![e] = v],
               v = [x \in ExFields |-> v[x]], v.pc # "idle" => v.o \in accepted
        PROVE  ExOnPath(ex', accepted')
    <3>1. ex' = [d \in Executors |-> IF d = e THEN v ELSE ex[d]] BY <2>2, Zenon DEF Path, ExOnPath
    <3> QED BY <3>1, <2>2 DEF Path, ExOnPath
  <2> QED BY <2>1, <2>2, Zenon
<1>2. /\ queue' = [t \in Stages |-> queue'[t]]
      /\ \A t \in Dispatched : DOMAIN queue'[t] \subseteq accepted'
  BY SameQueues, Zenon
<1>3. \A j \in Handlers : OnPath(h'[j], accepted') BY Zenon DEF Path
<1> QED BY <1>1, <1>2, <1>3, Zenon DEF Path

LEMMA FreeIsFree == Free = [x \in ExFields |-> Free[x]] /\ Free.pc = "idle"
BY Zenon DEF Free, ExFields

\* Every step keeps the invariant and is a step of ObjectLifecycle, or none it sees.
LEMMA StepLife == LifeInv /\ [Next]_vars => Announced' /\ Path' /\ [Lifecycle!Next]_(Lifecycle!vars)
<1> SUFFICES ASSUME LifeInv, [Next]_vars
             PROVE  Announced' /\ Path' /\ [Lifecycle!Next]_(Lifecycle!vars)
  BY Zenon
<1>s. SealInv /\ Announced /\ Path BY Zenon DEF LifeInv
<1>a. accepted \subseteq Objects BY <1>s, Zenon DEF Path
\* A step that changes nothing ObjectLifecycle sees.
<1>q. ASSUME UNCHANGED <<accepted, chain, outcome, db, upd>>
      PROVE  Announced' /\ [Lifecycle!Next]_(Lifecycle!vars)
  BY <1>q, <1>s, SameAnnounced, Zenon DEF Lifecycle!vars
<1>1. ASSUME NEW i \in Handlers, HandlerStep(i)
      PROVE  Announced' /\ Path' /\ [Lifecycle!Next]_(Lifecycle!vars)
  BY <1>1, HandlerLife, Zenon
<1>2. ASSUME NEW i \in Handlers, NEW r \in Requests, BeginUpload(i, r)
      PROVE  Announced' /\ Path' /\ [Lifecycle!Next]_(Lifecycle!vars)
  <2>1. UNCHANGED <<accepted, chain, outcome, db, upd, queue, ex>> BY <1>2, Zenon DEF BeginUpload
  <2>2. Start(i, "create", "count", r.stage, r.key, r.o, TRUE) BY <1>2, Zenon DEF BeginUpload
  <2>3. r.stage \in {"upload", "resumable"} /\ r.o \in Objects BY RequestsAssumption, Zenon
  <2>4. \A j \in Handlers : OnPath(h'[j], accepted')
    <3>1. "create" \notin {"replicated", "failed"} BY Zenon
    <3> QED BY <2>1, <2>2, <2>3, <3>1, StartOnPath, Zenon
  <2> QED BY <2>1, <2>4, <1>q, <1>s, AssemblePath, Zenon
<1>3. ASSUME NEW i \in Handlers, NEW r \in Requests, NEW ok \in BOOLEAN, FinishUpload(i, r, ok)
      PROVE  Announced' /\ Path' /\ [Lifecycle!Next]_(Lifecycle!vars)
  <2>1. UNCHANGED <<accepted, chain, outcome, db, upd, queue, ex>> BY <1>3, Zenon DEF FinishUpload
  <2>2. h' = h \/ Start(i, "done", "pop", r.stage, r.key, r.o, ok) BY <1>3, Zenon DEF FinishUpload
  <2>3. r.stage \in {"upload", "resumable"} /\ r.o \in Objects BY RequestsAssumption, Zenon
  <2>4. h' = h \/ \A j \in Handlers : OnPath(h'[j], accepted')
    <3>1. "done" \notin {"replicated", "failed"} BY Zenon
    <3> QED BY <2>1, <2>2, <2>3, <3>1, StartOnPath, Zenon
  <2> QED BY <2>1, <2>4, <1>q, <1>s, AssemblePath, Zenon
<1>4. ASSUME NEW o \in Objects, NEW s \in Watched, UpdateUploadProgress(o, s)
      PROVE  Announced' /\ Path' /\ [Lifecycle!Next]_(Lifecycle!vars)
  <2>1. UNCHANGED <<accepted, chain, outcome, queue, h, ex>> BY <1>4, Zenon DEF UpdateUploadProgress
  <2>2. upd[<<o, s>>] > 0 /\ upd' = [upd EXCEPT ![<<o, s>>] = @ - 1]
    BY <1>4, Zenon DEF UpdateUploadProgress
  <2>3. \A x \in Objects \X Watched : upd[x] \in Nat BY <1>s, Zenon DEF SealInv
  <2>4. \A x \in Objects \X Watched : upd'[x] > 0 => upd[x] > 0
    BY <2>2, <2>3, <1>s, Zenon DEF SealInv
  <2>5. Announced'
    <3>1. ASSUME NEW p \in Objects, NEW t \in Watched \cap Final, upd'[<<p, t>>] > 0
          PROVE  t \in outcome[p]
      <4>1. <<p, t>> \in Objects \X Watched BY Zenon
      <4> QED BY <3>1, <4>1, <2>4, <1>s, Zenon DEF Announced
    <3> QED BY <3>1, <2>1, <1>s, Zenon DEF Announced
  <2>6. db' = db \/ (db[o] # "none" /\ db' = [db EXCEPT ![o] = s])
    BY <1>4, Zenon DEF UpdateUploadProgress
  <2>7. [Lifecycle!Next]_(Lifecycle!vars)
    <3>1. CASE db' = db BY <3>1, <2>1, Zenon DEF Lifecycle!vars
    <3>2. CASE db[o] # "none" /\ db' = [db EXCEPT ![o] = s]
      <4>1. s \in Final => s \in outcome[o] BY <2>2, <1>s, Zenon DEF Announced
      <4>2. s \in States BY WatchedAssumption, Zenon
      <4>3. Lifecycle!Record BY <2>1, <3>2, <4>1, <4>2, Zenon DEF Lifecycle!Record
      <4> QED BY <4>3, Zenon DEF Lifecycle!Next
    <3> QED BY <2>6, <3>1, <3>2, Zenon
  <2> QED BY <2>1, <2>5, <2>7, <1>s, AssemblePath, Zenon
<1>5. ASSUME NEW e \in Executors, DispatchTask(e)
      PROVE  Announced' /\ Path' /\ [Lifecycle!Next]_(Lifecycle!vars)
  <2>1. UNCHANGED <<accepted, chain, db, h>> BY <1>5, Zenon DEF DispatchTask
  <2>2. PICK S : Update(S) /\ Honest(S)
    <3>1. Update(UNION {Errors(s, GC(s)) : s \in Dispatched}) BY <1>5, Zenon DEF DispatchTask
    <3>2. Honest(UNION {Errors(s, GC(s)) : s \in Dispatched})
      BY ErrorsAreErrors, Zenon DEF Honest, Dispatched, Stages
    <3> QED BY <3>1, <3>2, Zenon
  <2>3. Announced' /\ Lifecycle!Announce BY <2>1, <2>2, <1>s, UpdateAnnounces, Zenon
  <2>4. Lifecycle!Next BY <2>1, <2>3, Zenon DEF Lifecycle!Conclude, Lifecycle!Next
  <2>5. /\ queue' = [t \in Stages |-> queue'[t]]
        /\ \A t \in Dispatched : DOMAIN queue'[t] \subseteq accepted
    <3>1. queue' = [s \in Stages |->
                      IF s \in Dispatched THEN Without(queue[s], GC(s)) ELSE queue[s]]
      BY <1>5, Zenon DEF DispatchTask
    <3>2. \A s \in Dispatched : s \in Stages /\ DOMAIN queue[s] \subseteq accepted
      BY <1>s, Zenon DEF Path, Dispatched, Stages
    <3>3. \A s \in Dispatched : DOMAIN Without(queue[s], GC(s)) \subseteq DOMAIN queue[s]
      BY Zenon DEF Without
    <3> QED BY <3>1, <3>2, <3>3, Zenon
  <2>6. \/ ex' = ex
        \/ \E d, v : /\ ex' = [ex EXCEPT ![d] = v]
                     /\ v = [x \in ExFields |-> v[x]]
                     /\ v.pc # "idle" => v.o \in accepted
    <3>1. CASE ex' = ex BY <3>1, Zenon
    <3>2. CASE \E x \in Backup :
                 ex' = [ex EXCEPT ![e] = [pc |-> "asked", stage |-> x[1], o |-> x[2],
                                          id |-> queue[x[1]][x[2]]]]
      <4>1. PICK x \in Backup :
                 ex' = [ex EXCEPT ![e] = [pc |-> "asked", stage |-> x[1], o |-> x[2],
                                          id |-> queue[x[1]][x[2]]]]
        BY <3>2, Zenon
      <4>2. x[2] \in accepted
        <5>1. x[1] \in Dispatched /\ x[2] \in DOMAIN queue[x[1]] BY Zenon DEF Backup, Queued
        <5> QED BY <5>1, <1>s, Zenon DEF Path
      <4> DEFINE v == [pc |-> "asked", stage |-> x[1], o |-> x[2], id |-> queue[x[1]][x[2]]]
      <4>3. v = [y \in ExFields |-> v[y]] /\ v.o = x[2] BY Zenon DEF ExFields
      <4>4. ex' = [ex EXCEPT ![e] = v] BY <4>1, Zenon
      <4> HIDE DEF v
      <4> QED BY <4>2, <4>3, <4>4, Zenon
    <3> QED BY <1>5, <3>1, <3>2, Zenon DEF DispatchTask
  <2>7. Path' BY <2>1, <2>5, <2>6, <1>s, AssemblePath, Zenon
  <2> QED BY <2>3, <2>4, <2>7, Zenon
<1>6. ASSUME NEW e \in Executors, OnAskTask(e) \/ LoseTask(e)
      PROVE  Announced' /\ Path' /\ [Lifecycle!Next]_(Lifecycle!vars)
  <2>1. UNCHANGED <<accepted, chain, outcome, db, upd, queue, h>>
    BY <1>6, Zenon DEF OnAskTask, LoseTask
  <2>2. \E v : /\ ex' = [ex EXCEPT ![e] = v]
               /\ v = [x \in ExFields |-> v[x]]
               /\ v.pc # "idle" => v.o \in accepted
    <3>1. CASE LoseTask(e) BY <3>1, FreeIsFree, Zenon DEF LoseTask
    <3>2. CASE OnAskTask(e)
      <4> DEFINE v == [ex[e] EXCEPT !.pc = "running", !.id = NULL]
      <4>1. ex[e] = [x \in ExFields |-> ex[e][x]] /\ (ex[e].pc # "idle" => ex[e].o \in accepted)
        BY <1>s, Zenon DEF Path, ExOnPath
      <4>2. v = [x \in ExFields |-> v[x]] /\ v.o = ex[e].o BY <4>1, Zenon DEF ExFields
      <4>3. ex' = [ex EXCEPT ![e] = v] /\ ex[e].pc = "asked" BY <3>2, Zenon DEF OnAskTask
      <4> HIDE DEF v
      <4> QED BY <4>1, <4>2, <4>3, Zenon
    <3> QED BY <1>6, <3>1, <3>2, Zenon
  <2> QED BY <2>1, <2>2, <1>q, <1>s, AssemblePath, Zenon
<1>7. ASSUME NEW e \in Executors, NEW i \in Handlers, NEW res,
             HandleReplicatePieceTask(e, i, res) \/ HandleSealObjectTask(e, i, res)
      PROVE  Announced' /\ Path' /\ [Lifecycle!Next]_(Lifecycle!vars)
  <2>1. UNCHANGED <<accepted, outcome, db, upd, queue>> /\ ex[e].pc = "running"
        /\ ex' = [ex EXCEPT ![e] = Free]
    BY <1>7, Zenon DEF HandleReplicatePieceTask, HandleSealObjectTask
  <2>2. ex[e].o \in accepted BY <2>1, <1>s, Zenon DEF Path, ExOnPath
  <2>3. chain' = chain \/ chain' = chain \cup {ex[e].o}
    BY <1>7, Zenon DEF HandleReplicatePieceTask, HandleSealObjectTask
  <2>4. PICK f, pc, s, ok : /\ f = "failed" \/ f = "replicated" \/ f = "sealed"
                            /\ Start(i, f, pc, s, ex[e].o, ex[e].o, ok)
    <3>1. \/ \E ok : Start(i, "failed", "pop", "replicate", ex[e].o, ex[e].o, ok)
          \/ \E ok : Start(i, "replicated", "pop", "replicate", ex[e].o, ex[e].o, ok)
          \/ \E ok : Start(i, "failed", "pop", "seal", ex[e].o, ex[e].o, ok)
          \/ \E ok : Start(i, "sealed", "sealed", "seal", ex[e].o, ex[e].o, ok)
      BY <1>7, Zenon DEF HandleReplicatePieceTask, HandleSealObjectTask
    <3> QED BY <3>1, Zenon
  <2>5. \A j \in Handlers : OnPath(h'[j], accepted')
    <3>1. f \notin {"create", "done"} BY <2>4, Zenon
    <3>2. ex[e].o \in Objects BY <2>2, <1>a, Zenon
    <3>3. accepted' = accepted BY <2>1, Zenon
    <3> QED BY <2>2, <2>4, <3>1, <3>2, <3>3, StartOnPath, Zenon
  <2>6. Path' BY <2>1, <2>5, <1>s, FreeIsFree, AssemblePath, Zenon
  <2>7. Announced' BY <2>1, <2>3, <1>s, SameAnnounced, Zenon
  <2>8. [Lifecycle!Next]_(Lifecycle!vars)
    <3>1. CASE chain' = chain BY <3>1, <2>1, Zenon DEF Lifecycle!vars
    <3>2. CASE chain' = chain \cup {ex[e].o}
      <4>1. Lifecycle!Seal BY <3>2, <2>1, <2>2, Zenon DEF Lifecycle!Seal
      <4> QED BY <4>1, Zenon DEF Lifecycle!Next
    <3> QED BY <2>3, <3>1, <3>2, Zenon
  <2> QED BY <2>6, <2>7, <2>8, Zenon
<1>8. CASE Restart
  <2>1. UNCHANGED <<accepted, chain, outcome, db>> BY <1>8, Zenon DEF Restart
  <2>2. Announced'
    <3>1. upd' = [x \in Objects \X Watched |-> 0] BY <1>8, Zenon DEF Restart
    <3>2. ASSUME NEW o \in Objects, NEW s \in Watched \cap Final PROVE ~ (upd'[<<o, s>>] > 0)
      <4>1. <<o, s>> \in Objects \X Watched BY Zenon
      <4>2. upd'[<<o, s>>] = 0 BY <3>1, <4>1, Zenon
      <4> QED BY <4>2
    <3> QED BY <2>1, <3>2, <1>s, Zenon DEF Announced
  <2>3. [Lifecycle!Next]_(Lifecycle!vars) BY <2>1, Zenon DEF Lifecycle!vars
  <2>4. \A j \in Handlers : OnPath(h'[j], accepted') BY <1>8, IdleOnPath, Zenon DEF Restart
  <2>5. /\ queue' = [t \in Stages |-> queue'[t]]
        /\ \A t \in Dispatched : DOMAIN queue'[t] \subseteq accepted'
    BY <1>8, Zenon DEF Restart, Dispatched, Stages
  <2>6. ExOnPath(ex', accepted')
    <3>1. ex' = [e \in Executors |-> IF ex[e].pc = "asked" THEN Free ELSE ex[e]]
      BY <1>8, Zenon DEF Restart
    <3> QED BY <3>1, <2>1, <1>s, FreeIsFree, Zenon DEF Path, ExOnPath
  <2>7. Path' BY <2>1, <2>4, <2>5, <2>6, <1>a, Zenon DEF Path
  <2> QED BY <2>2, <2>3, <2>7, Zenon
<1>9. CASE UNCHANGED <<accepted, chain, outcome, db, upd, queue, h, ex>>
  BY <1>9, <1>q, <1>s, AssemblePath, Zenon
<1>10. ASSUME NEW r \in Requests, LoseUpload(r)
       PROVE  Announced' /\ Path' /\ [Lifecycle!Next]_(Lifecycle!vars)
  BY <1>9, <1>10, Zenon DEF LoseUpload
<1>11. ASSUME NEW s, NEW k, Late(s, k)
       PROVE  Announced' /\ Path' /\ [Lifecycle!Next]_(Lifecycle!vars)
  BY <1>9, <1>11, Zenon DEF Late
<1>12. CASE UNCHANGED vars BY <1>9, <1>12, Zenon DEF vars
<1> QED
  BY <1>1, <1>2, <1>3, <1>4, <1>5, <1>6, <1>7, <1>8, <1>10, <1>11, <1>12, Zenon DEF Next

\* For all parameters the manager implements its promise: with queues, retirement,
\* retries, lost and repeated reports, restarts and detached writes of the progress
\* table (manage_task.go, manager.go), only accepted objects are sealed, a seal is
\* announced only when the chain has it, and a row takes a final state only after it
\* was announced.
THEOREM ManagerKeepsItsPromise == Spec => ImplementsLifecycle
<1>1. Init => Lifecycle!Init BY Zenon DEF Init, Lifecycle!Init
<1>2. Init => LifeInv BY InitSeal, InitLife, Zenon DEF LifeInv
<1>3. LifeInv /\ [Next]_vars => LifeInv' /\ [Lifecycle!Next]_(Lifecycle!vars)
  BY StepKeeps, StepLife, Zenon DEF LifeInv
<1> QED BY <1>1, <1>2, <1>3, PTL DEF Spec, ImplementsLifecycle, Lifecycle!Spec

----------------------------------------------------------------------------
(* The retries. *)

TaskFields == {"o", "retry", "late"}

\* The task records.
Heap ==
  /\ task = [i \in TaskIds |-> task[i]]
  /\ \A i \in TaskIds : task[i] = [x \in TaskFields |-> task[i][x]] /\ task[i].retry \in Nat

\* The executors that were given the task record i and have not counted the try yet.
Asked(f, i) == {e \in Executors : f[e].pc = "asked" /\ f[e].id = i}

\* The task records of a stage: those in its queue and those its handlers have popped.
Vals(q) == {q[k] : k \in DOMAIN q}
Olds(g, s) == {g[i].old : i \in {j \in Handlers : g[j].stage = s}} \ {NULL}
Refs(q, g, s) == Vals(q[s]) \cup Olds(g, s)

\* A task record has one stage, and its tries, counted or not yet, are within the bound:
\* DispatchTask gives out only a record that has tries left, so the first that passes
\* the maximum was given out when at most the other executors had one not counted.
Tries ==
  /\ \A s \in Stages : Refs(queue, h, s) \subseteq TaskIds
  /\ \A s, t \in Stages : s # t => Refs(queue, h, s) \cap Refs(queue, h, t) = {}
  /\ \A s \in Stages : \A i \in Refs(queue, h, s) :
       task[i].retry + Cardinality(Asked(ex, i)) <= MaxRetry[s] + Cardinality(Executors) - 1
  /\ \A e \in Executors : ex[e].pc = "asked" => ex[e].id \in TaskIds

\* The heap has a first free address, as the heap of a Go program has.
AddressFree == \E i \in TaskIds \ InUse : \A j \in TaskIds \ InUse : i <= j

LEMMA NewIsFree ==
  ASSUME AddressFree
  PROVE  New \in TaskIds \ InUse
BY Zenon DEF AddressFree, New

\* What is used of the number of executors; it holds because they are finitely many.
Sizes(E) ==
  /\ \A S \in SUBSET E : Cardinality(S) \in Nat /\ Cardinality(S) <= Cardinality(E)
  /\ \A S \in SUBSET E : \A x \in S : Cardinality(S \ {x}) = Cardinality(S) - 1
  /\ Cardinality({}) = 0 /\ (E # {} => Cardinality(E) # 0)

LEMMA AskedSize ==
  ASSUME Sizes(Executors), NEW f, NEW i
  PROVE  /\ Cardinality(Asked(f, i)) \in Nat
         /\ Cardinality(Asked(f, i)) <= Cardinality(Executors)
         /\ Cardinality(Executors) \in Nat \ {0}
<1>1. Asked(f, i) \in SUBSET Executors /\ Executors \in SUBSET Executors BY Zenon DEF Asked
<1>2. Executors # {} BY ExecutorsAssumption, Zenon
<1> QED BY <1>1, <1>2, Zenon DEF Sizes

\* A step that adds no record to a stage, counts no try and gives out no task.
LEMMA FewerRefs ==
  ASSUME Tries, \A s \in Stages : Refs(queue', h', s) \subseteq Refs(queue, h, s),
         \A i \in TaskIds : task'[i].retry = task[i].retry,
         \A i : Asked(ex', i) = Asked(ex, i),
         \A e \in Executors : ex'[e].pc = "asked" => ex'[e].id \in TaskIds
  PROVE  Tries'
<1>1. \A s \in Stages : Refs(queue', h', s) \subseteq TaskIds BY Zenon DEF Tries
<1>2. \A s, t \in Stages : s # t => Refs(queue', h', s) \cap Refs(queue', h', t) = {}
  BY Zenon DEF Tries
<1>3. ASSUME NEW s \in Stages, NEW i \in Refs(queue', h', s)
      PROVE  task'[i].retry + Cardinality(Asked(ex', i))
               <= MaxRetry[s] + Cardinality(Executors) - 1
  <2>1. i \in Refs(queue, h, s) /\ i \in TaskIds BY <1>1, Zenon
  <2>2. task'[i].retry = task[i].retry /\ Asked(ex', i) = Asked(ex, i) BY <2>1, Zenon
  <2> QED BY <2>1, <2>2, Zenon DEF Tries
<1> QED BY <1>1, <1>2, <1>3, Zenon DEF Tries

\* A step that adds a new record to a stage.
LEMMA OneRefMore ==
  ASSUME Sizes(Executors), Tries, NEW n \in TaskIds \ InUse, NEW z \in Stages,
         Refs(queue', h', z) \subseteq Refs(queue, h, z) \cup {n},
         \A s \in Stages \ {z} : Refs(queue', h', s) \subseteq Refs(queue, h, s),
         \A i \in TaskIds \ {n} : task'[i].retry = task[i].retry,
         task'[n].retry = 0, ex' = ex
  PROVE  Tries'
<1>1. \A s \in Stages : Refs(queue', h', s) \subseteq TaskIds BY Zenon DEF Tries
<1>n. n \in TaskIds /\ n \notin InUse BY Zenon
<1>2. ASSUME NEW s \in Stages PROVE n \notin Refs(queue, h, s)
  <2>1. Vals(queue[s]) \in {{queue[t][k] : k \in Queued(t)} : t \in Stages}
    BY Zenon DEF Vals, Queued
  <2>2. Vals(queue[s]) \subseteq InUse BY <2>1, Zenon DEF InUse
  <2>3. Olds(h, s) \subseteq InUse BY Zenon DEF Olds, InUse
  <2> QED BY <1>n, <2>2, <2>3, Zenon DEF Refs
<1>3. ASSUME NEW s \in Stages, NEW t \in Stages, s # t,
             NEW x \in Refs(queue', h', s), x \in Refs(queue', h', t)
      PROVE  FALSE
  <2>1. CASE s = z
    <3>1. x \in Refs(queue, h, t) BY <1>3, <2>1, Zenon
    <3>2. x \in Refs(queue, h, s) BY <1>2, <2>1, <3>1, Zenon
    <3> QED BY <1>3, <3>1, <3>2, Zenon DEF Tries
  <2>2. CASE s # z
    <3>1. x \in Refs(queue, h, s) BY <2>2, Zenon
    <3>2. x # n BY <1>2, <3>1, Zenon
    <3>3. x \in Refs(queue, h, t) BY <1>3, <3>2, Zenon
    <3> QED BY <1>3, <3>1, <3>3, Zenon DEF Tries
  <2> QED BY <2>1, <2>2, Zenon
<1>4. Asked(ex, n) = {}
  <2>1. \A e \in Executors : ex[e].id \in InUse BY Zenon DEF InUse
  <2> QED BY <1>n, <2>1, Zenon DEF Asked
<1>5. ASSUME NEW s \in Stages, NEW i \in Refs(queue', h', s)
      PROVE  task'[i].retry + Cardinality(Asked(ex', i))
               <= MaxRetry[s] + Cardinality(Executors) - 1
  <2>1. CASE i = n
    <3>1. task'[i].retry = 0 /\ Cardinality(Asked(ex', i)) = 0
      BY <2>1, <1>4, Zenon DEF Sizes
    <3>2. MaxRetry[s] \in Nat BY LimitsAssumption, Zenon
    <3>3. Cardinality(Executors) \in Nat \ {0} BY AskedSize, Zenon
    <3> QED BY <3>1, <3>2, <3>3
  <2>2. CASE i # n
    <3>0. Refs(queue', h', s) \subseteq Refs(queue, h, s) \cup {n} BY Zenon
    <3>1. i \in Refs(queue, h, s) /\ i \in TaskIds \ {n} BY <1>1, <1>5, <2>2, <3>0, Zenon
    <3>2. task'[i].retry = task[i].retry BY <3>1, Zenon
    <3> QED BY <3>1, <3>2, Zenon DEF Tries
  <2> QED BY <2>1, <2>2, Zenon
<1>6. \A e \in Executors : ex'[e].pc = "asked" => ex'[e].id \in TaskIds BY Zenon DEF Tries
<1> QED BY <1>1, <1>3, <1>5, <1>6, Zenon DEF Tries

\* The records in a queue after its operations.
LEMMA ValsWithout ==
  ASSUME NEW q, NEW S
  PROVE  Vals(Without(q, S)) \subseteq Vals(q)
BY Zenon DEF Vals, Without

LEMMA ValsWith ==
  ASSUME NEW q, NEW k, NEW t
  PROVE  Vals(With(q, k, t)) \subseteq Vals(q) \cup {t}
BY Zenon DEF Vals, With

LEMMA ValsPush ==
  ASSUME NEW q, NEW S, NEW cap, NEW k, NEW t
  PROVE  Vals(AfterPush(q, S, cap, k, t)) \subseteq Vals(q) \cup {t}
<1> DEFINE q1 == AfterHas(q, S, k)
           q2 == IF exceed(q1, cap) THEN Without(q1, Retired(q1, S)) ELSE q1
<1>1. Vals(q1) \subseteq Vals(q) BY ValsWithout, Zenon DEF AfterHas
<1>2. Vals(q2) \subseteq Vals(q1) BY ValsWithout, Zenon
<1>3. AfterPush(q, S, cap, k, t) \in {With(q2, k, t), q1} BY Zenon DEF AfterPush
<1> HIDE DEF q1, q2
<1> QED BY <1>1, <1>2, <1>3, ValsWith, Zenon

\* The records of the stages after one queue and one handler changed.
LEMMA RefsAfter ==
  ASSUME LifeInv, NEW i \in Handlers, NEW r, h' = [h EXCEPT ![i] = r],
         r.old = NULL \/ (r.old = h[i].old /\ r.stage = h[i].stage),
         NEW z \in Stages, NEW q, queue' = [queue EXCEPT ![z] = q],
         NEW X, Vals(q) \subseteq Vals(queue[z]) \cup X
  PROVE  /\ Refs(queue', h', z) \subseteq Refs(queue, h, z) \cup X
         /\ \A s \in Stages \ {z} : Refs(queue', h', s) \subseteq Refs(queue, h, s)
<1>1. queue = [s \in Stages |-> queue[s]] BY Zenon DEF LifeInv, Path
<1>2. h = [j \in Handlers |-> h[j]] BY Zenon DEF LifeInv, SealInv
<1>3. \A s \in Stages : queue'[s] = IF s = z THEN q ELSE queue[s] BY <1>1, Zenon
<1>4. \A j \in Handlers : h'[j] = IF j = i THEN r ELSE h[j] BY <1>2, Zenon
<1>5. ASSUME NEW s \in Stages, NEW x \in Olds(h', s)
      PROVE  x \in Olds(h, s)
  <2>1. PICK j \in Handlers : h'[j].stage = s /\ x = h'[j].old /\ x # NULL
    BY <1>5, Zenon DEF Olds
  <2>2. h[j].stage = s /\ x = h[j].old BY <1>4, <2>1, Zenon
  <2> QED BY <2>1, <2>2, Zenon DEF Olds
<1>6. /\ Vals(queue'[z]) \subseteq Vals(queue[z]) \cup X
      /\ \A s \in Stages \ {z} : Vals(queue'[s]) = Vals(queue[s])
  BY <1>3, Zenon
<1> QED BY <1>5, <1>6, Zenon DEF Refs

\* The same when the queues stay as they are.
LEMMA RefsOfSlot ==
  ASSUME LifeInv, NEW i \in Handlers, NEW r, h' = [h EXCEPT ![i] = r],
         r.old = NULL \/ (r.old = h[i].old /\ r.stage = h[i].stage), queue' = queue
  PROVE  \A s \in Stages : Refs(queue', h', s) \subseteq Refs(queue, h, s)
<1>1. queue = [s \in Stages |-> queue[s]] BY Zenon DEF LifeInv, Path
<1>2. "seal" \in Stages BY Zenon DEF Stages
<1>3. queue' = [queue EXCEPT !["seal"] = queue["seal"]] BY <1>1, <1>2, Zenon
<1>4. /\ Refs(queue', h', "seal") \subseteq Refs(queue, h, "seal") \cup {}
      /\ \A s \in Stages \ {"seal"} : Refs(queue', h', s) \subseteq Refs(queue, h, s)
  BY <1>2, <1>3, RefsAfter, ZenonT(30)
<1> QED BY <1>4, Zenon

\* A new record, and a record whose time changes.
LEMMA HeapAfterNew ==
  ASSUME Heap, NEW n \in TaskIds, NEW o, task' = [task EXCEPT ![n] = NewTask(o)]
  PROVE  /\ Heap' /\ task'[n].retry = 0
         /\ \A i \in TaskIds \ {n} : task'[i].retry = task[i].retry
<1>1. NewTask(o) = [x \in TaskFields |-> NewTask(o)[x]] /\ NewTask(o).retry = 0
  BY DEF NewTask, TaskFields
<1>2. \A i \in TaskIds : task'[i] = IF i = n THEN NewTask(o) ELSE task[i] BY Zenon DEF Heap
<1>3. task' = [i \in TaskIds |-> task'[i]] BY Zenon DEF Heap
<1>4. 0 \in Nat OBVIOUS
<1> QED BY <1>1, <1>2, <1>3, <1>4, Zenon DEF Heap

LEMMA HeapAfterTime ==
  ASSUME Heap, NEW n \in TaskIds, NEW b, task' = [task EXCEPT ![n].late = b]
  PROVE  Heap' /\ \A i \in TaskIds : task'[i].retry = task[i].retry
<1> DEFINE q == task[n]  v == [q EXCEPT !.late = b]
<1>1. q = [x \in TaskFields |-> q[x]] /\ q.retry \in Nat BY Zenon DEF Heap
<1>2. task' = [task EXCEPT ![n] = v] BY Zenon
<1> HIDE DEF q
<1>3. v = [x \in TaskFields |-> v[x]] BY <1>1
<1>4. v.retry = q.retry BY <1>1 DEF TaskFields
<1> HIDE DEF v
<1>5. \A i \in TaskIds : task'[i] = IF i = n THEN v ELSE task[i] BY <1>2, Zenon DEF Heap
<1>6. task' = [i \in TaskIds |-> task'[i]] BY <1>2, Zenon DEF Heap
<1>7. task[n] = q BY Zenon DEF q
<1>8. ASSUME NEW i \in TaskIds
      PROVE  /\ task'[i] = [x \in TaskFields |-> task'[i][x]]
             /\ task'[i].retry \in Nat /\ task'[i].retry = task[i].retry
  BY <1>1, <1>3, <1>4, <1>5, <1>7, Zenon DEF Heap
<1> QED BY <1>6, <1>8, Zenon DEF Heap

\* A handler that has not just popped a task has the one it had, or none.
LEMMA SlotAfter ==
  ASSUME SealInv, NEW i \in Handlers,
         \/ Stop(i)
         \/ h' = [h EXCEPT ![i] = [h[i] EXCEPT !.pc = "check"]]
         \/ h' = [h EXCEPT ![i] = [h[i] EXCEPT !.pc = "act"]]
         \/ h' = [h EXCEPT ![i] = [h[i] EXCEPT !.pc = "insert"]]
         \/ h' = [h EXCEPT ![i] = [h[i] EXCEPT !.next = @ + 1]]
  PROVE  \E r : /\ h' = [h EXCEPT ![i] = r]
                /\ r.old = NULL \/ (r.old = h[i].old /\ r.stage = h[i].stage)
<1> DEFINE q == h[i]
<1>1. q = [x \in Fields |-> q[x]] BY Zenon DEF SealInv, GoodHandler
<1>2. Idle.old = NULL BY DEF Idle
<1>3. CASE Stop(i) BY <1>2, <1>3, Zenon DEF Stop
<1> HIDE DEF q
<1>4. /\ [q EXCEPT !.pc = "check"].old = q.old /\ [q EXCEPT !.pc = "check"].stage = q.stage
      /\ [q EXCEPT !.pc = "act"].old = q.old /\ [q EXCEPT !.pc = "act"].stage = q.stage
      /\ [q EXCEPT !.pc = "insert"].old = q.old /\ [q EXCEPT !.pc = "insert"].stage = q.stage
      /\ [q EXCEPT !.next = @ + 1].old = q.old /\ [q EXCEPT !.next = @ + 1].stage = q.stage
  BY <1>1 DEF Fields
<1> QED BY <1>3, <1>4, Zenon DEF q

\* The steps of a handler that push a new task.
LEMMA PushTries ==
  ASSUME Sizes(Executors), LifeInv, Tries, Heap, AddressFree, NEW i \in Handlers, NEW z \in Stages,
         NEW k, NEW o, queue' = AfterPushOf(z, k, New),
         task' = [task EXCEPT ![New] = NewTask(o)], ex' = ex,
         NEW r, h' = [h EXCEPT ![i] = r],
         r.old = NULL \/ (r.old = h[i].old /\ r.stage = h[i].stage)
  PROVE  Tries' /\ Heap'
<1>1. PICK n \in TaskIds \ InUse : n = New BY NewIsFree, Zenon
<1>q. PICK q : q = AfterPush(queue[z], GC(z), Cap[z], k, n) BY Zenon
<1>2. queue' = [queue EXCEPT ![z] = q] BY <1>1, <1>q, Zenon DEF AfterPushOf
<1>3. Vals(q) \subseteq Vals(queue[z]) \cup {n} BY <1>q, ValsPush, Zenon
<1>4. /\ Refs(queue', h', z) \subseteq Refs(queue, h, z) \cup {n}
      /\ \A s \in Stages \ {z} : Refs(queue', h', s) \subseteq Refs(queue, h, s)
  BY <1>2, <1>3, RefsAfter, ZenonT(30)
<1>5. task' = [task EXCEPT ![n] = NewTask(o)] /\ n \in TaskIds BY <1>1, Zenon
<1>6. /\ Heap' /\ task'[n].retry = 0
      /\ \A j \in TaskIds \ {n} : task'[j].retry = task[j].retry
  BY <1>5, HeapAfterNew, Zenon
<1>7. Tries' BY <1>1, <1>4, <1>6, OneRefMore, Zenon
<1> QED BY <1>6, <1>7, Zenon

\* The steps of a handler that only take tasks out of a queue.
LEMMA PopTries ==
  ASSUME LifeInv, Tries, Heap, NEW i \in Handlers, NEW z \in Stages, NEW S,
         queue' = [queue EXCEPT ![z] = Without(queue[z], S)] \/ queue' = queue,
         task' = task, ex' = ex, NEW r, h' = [h EXCEPT ![i] = r],
         r.old = NULL \/ (r.old = h[i].old /\ r.stage = h[i].stage)
  PROVE  Tries' /\ Heap'
<1>1. \A s \in Stages : Refs(queue', h', s) \subseteq Refs(queue, h, s)
  <2>1. CASE queue' = queue BY <2>1, RefsOfSlot, Zenon
  <2>2. CASE queue' = [queue EXCEPT ![z] = Without(queue[z], S)]
    <3>q. PICK q : q = Without(queue[z], S) BY Zenon
    <3>x. PICK X : X = {} BY Zenon
    <3>1. Vals(q) \subseteq Vals(queue[z]) \cup X BY <3>q, ValsWithout, Zenon
    <3>2. queue' = [queue EXCEPT ![z] = q] BY <2>2, <3>q, Zenon
    <3>3. /\ Refs(queue', h', z) \subseteq Refs(queue, h, z) \cup X
          /\ \A s \in Stages \ {z} : Refs(queue', h', s) \subseteq Refs(queue, h, s)
      BY <3>1, <3>2, RefsAfter, ZenonT(30)
    <3> QED BY <3>x, <3>3, Zenon
  <2> QED BY <2>1, <2>2, Zenon
<1>2. \A j \in TaskIds : task'[j].retry = task[j].retry BY Zenon
<1>3. \A e \in Executors : ex'[e].pc = "asked" => ex'[e].id \in TaskIds BY Zenon DEF Tries
<1>4. \A j : Asked(ex', j) = Asked(ex, j) BY Zenon
<1>5. Heap' BY Zenon DEF Heap
<1> QED BY <1>1, <1>2, <1>3, <1>4, <1>5, FewerRefs, Zenon

\* The pop of a handler: a task it keeps is one of its stage.
LEMMA PopByKeyTries ==
  ASSUME LifeInv, Tries, Heap, NEW i \in Handlers, PopByKey(i)
  PROVE  Tries' /\ Heap'
<1> DEFINE z == h[i].stage  k == h[i].key  g == h[i]
           q == AfterPopByKey(queue[z], GC(z), k)
           id == IF h[i].f = "failed" /\ has(queue[z], GC(z), k) THEN queue[z][k] ELSE NULL
           r == [g EXCEPT !.pc = "check", !.old = id]
<1>1. z \in Stages /\ g = [x \in Fields |-> g[x]] BY Zenon DEF LifeInv, SealInv, GoodHandler
<1>2. Vals(q) \subseteq Vals(queue[z]) BY ValsWithout, Zenon DEF AfterPopByKey
<1>3. id = NULL \/ id \in Vals(queue[z]) BY Zenon DEF has, Vals
<1>4. /\ queue' = [queue EXCEPT ![z] = q] /\ h' = [h EXCEPT ![i] = r]
      /\ task' = task /\ ex' = ex
  BY Zenon DEF PopByKey
<1>5. g = h[i] /\ g.stage = z BY Zenon
<1> HIDE DEF z, k, g, q, id
<1>6. r.old = id /\ r.stage = z BY <1>1, <1>5 DEF Fields
<1> HIDE DEF r
<1>7. queue = [s \in Stages |-> queue[s]] BY Zenon DEF LifeInv, Path
<1>8. h = [j \in Handlers |-> h[j]] BY Zenon DEF LifeInv, SealInv
<1>9. \A s \in Stages : queue'[s] = IF s = z THEN q ELSE queue[s] BY <1>4, <1>7, Zenon
<1>10. \A j \in Handlers : h'[j] = IF j = i THEN r ELSE h[j] BY <1>4, <1>8, Zenon
<1>11. \A s \in Stages : Vals(queue'[s]) \subseteq Vals(queue[s]) BY <1>2, <1>9, Zenon
<1>12. ASSUME NEW s \in Stages, NEW x \in Olds(h', s)
       PROVE  x \in Refs(queue, h, s)
  <2>1. PICK j \in Handlers : h'[j].stage = s /\ x = h'[j].old /\ x # NULL
    BY <1>12, Zenon DEF Olds
  <2>2. CASE j = i BY <1>3, <1>6, <1>10, <2>1, <2>2, Zenon DEF Refs
  <2>3. CASE j # i
    <3>1. h[j].stage = s /\ x = h[j].old BY <1>10, <2>1, <2>3, Zenon
    <3> QED BY <2>1, <3>1, Zenon DEF Olds, Refs
  <2> QED BY <2>2, <2>3, Zenon
<1>13. \A s \in Stages : Refs(queue', h', s) \subseteq Refs(queue, h, s)
  BY <1>11, <1>12, Zenon DEF Refs
<1>14. \A j \in TaskIds : task'[j].retry = task[j].retry BY <1>4, Zenon
<1>15. \A e \in Executors : ex'[e].pc = "asked" => ex'[e].id \in TaskIds
  BY <1>4, Zenon DEF Tries
<1>16. \A j : Asked(ex', j) = Asked(ex, j) BY <1>4, Zenon
<1>17. Heap' BY <1>4, Zenon DEF Heap
<1> QED BY <1>13, <1>14, <1>15, <1>16, <1>17, FewerRefs, Zenon

\* A failed task that is pushed again stays in its stage.
LEMMA RetryTries ==
  ASSUME LifeInv, Tries, Heap, NEW i \in Handlers, Retry(i)
  PROVE  Tries' /\ Heap'
<1>r. PICK r : r = Idle BY Zenon
<1>1. h' = [h EXCEPT ![i] = r] /\ ex' = ex BY <1>r, Zenon DEF Retry, Stop
<1>2. r.old = NULL BY <1>r DEF Idle
<1>o. r.old = NULL \/ (r.old = h[i].old /\ r.stage = h[i].stage) BY <1>2, Zenon
<1>3. CASE task' = task /\ queue' = queue
  <2>1. "seal" \in Stages BY Zenon DEF Stages
  <2> QED BY <1>1, <1>2, <1>3, <2>1, PopTries, Zenon
<1>4. CASE h[i].old # NULL /\ PushAgain(i)
  <2>1. PICK z \in Stages : z = h[i].stage BY Zenon DEF LifeInv, SealInv, GoodHandler
  <2>2. PICK id : id = h[i].old BY Zenon
  <2>3. id \in Refs(queue, h, z) BY <1>4, <2>1, <2>2, Zenon DEF Refs, Olds
  <2>4. id \in TaskIds BY <2>3, Zenon DEF Tries
  <2>q. PICK q : q = AfterPush(queue[z], GC(z), Cap[z], h[i].key, id) BY Zenon
  <2>5. queue' = [queue EXCEPT ![z] = q] /\ task' = [task EXCEPT ![id].late = FALSE]
    BY <1>4, <2>1, <2>2, <2>q, Zenon DEF PushAgain, AfterPushOf
  <2>6. Vals(q) \subseteq Vals(queue[z]) \cup {id} BY <2>q, ValsPush, Zenon
  <2>7. /\ Refs(queue', h', z) \subseteq Refs(queue, h, z) \cup {id}
        /\ \A s \in Stages \ {z} : Refs(queue', h', s) \subseteq Refs(queue, h, s)
    BY <1>1, <1>o, <2>5, <2>6, RefsAfter, ZenonT(30)
  <2>8. \A s \in Stages : Refs(queue', h', s) \subseteq Refs(queue, h, s)
    BY <2>3, <2>7, Zenon
  <2>9. Heap' /\ \A j \in TaskIds : task'[j].retry = task[j].retry
    BY <2>4, <2>5, HeapAfterTime, Zenon
  <2>10. \A e \in Executors : ex'[e].pc = "asked" => ex'[e].id \in TaskIds
    BY <1>1, Zenon DEF Tries
  <2>11. \A j : Asked(ex', j) = Asked(ex, j) BY <1>1, Zenon
  <2> QED BY <2>8, <2>9, <2>10, <2>11, FewerRefs, Zenon
<1> QED BY <1>3, <1>4, Zenon DEF Retry

LEMMA HandlerTries ==
  ASSUME Sizes(Executors), LifeInv, Tries, Heap, AddressFree, NEW i \in Handlers, HandlerStep(i)
  PROVE  Tries' /\ Heap'
<1>s. /\ "upload" \in Stages /\ "replicate" \in Stages /\ "seal" \in Stages
      /\ "resumable" \in Stages
  BY Zenon DEF Stages
<1>h. h[i].stage \in Stages BY Zenon DEF LifeInv, SealInv, GoodHandler
<1>1. CASE PopByKey(i) BY <1>1, PopByKeyTries, Zenon
<1>2. CASE handleFailedReplicatePieceTask(i) \/ handleFailedSealObjectTask(i)
  BY <1>2, RetryTries, Zenon DEF handleFailedReplicatePieceTask, handleFailedSealObjectTask
<1>3. CASE Count(i) \/ TaskUploading(i) \/ CreatePush(i) \/ InsertUploadProgress(i)
           \/ InsertResumableProgress(i) \/ UploadDone(i) \/ ResumableUploadDone(i)
           \/ Replicated(i) \/ Sealed(i)
  <2>0. \/ Stop(i)
        \/ h' = [h EXCEPT ![i] = [h[i] EXCEPT !.pc = "check"]]
        \/ h' = [h EXCEPT ![i] = [h[i] EXCEPT !.pc = "act"]]
        \/ h' = [h EXCEPT ![i] = [h[i] EXCEPT !.pc = "insert"]]
        \/ h' = [h EXCEPT ![i] = [h[i] EXCEPT !.next = @ + 1]]
    BY <1>3, Zenon DEF Count, TaskUploading, CreatePush, InsertUploadProgress,
      InsertResumableProgress, UploadDone, ResumableUploadDone, QueueReplicate,
      Replicated, Sealed
  <2>r. PICK r : /\ h' = [h EXCEPT ![i] = r]
                 /\ r.old = NULL \/ (r.old = h[i].old /\ r.stage = h[i].stage)
    BY <2>0, SlotAfter, Zenon DEF LifeInv
  <2>1. CASE queue' = queue /\ task' = task /\ ex' = ex BY <1>s, <2>1, <2>r, PopTries, Zenon
  <2>2. CASE Count(i) \/ InsertUploadProgress(i) \/ InsertResumableProgress(i)
    BY <2>1, <2>2, Zenon DEF Count, InsertUploadProgress, InsertResumableProgress
  <2>3. CASE TaskUploading(i)
    <3>1. PICK z : z = Lookups(h[i].stage)[h[i].next] BY Zenon
    <3>2. z \in Stages
      <4>1. h[i].next \in 1..Len(Lookups(h[i].stage))
        BY <2>3, HandlerMoves, Zenon DEF LifeInv, SealInv, GoodHandler, HandlerStep
      <4> QED BY <3>1, <4>1 DEF Lookups, Stages
    <3>3. PICK S : S = {h[i].key} \cap GC(z) BY Zenon
    <3>4. /\ queue' = [queue EXCEPT ![z] = Without(queue[z], S)]
          /\ task' = task /\ ex' = ex
      BY <2>3, <3>1, <3>3, Zenon DEF TaskUploading, AfterHas
    <3> QED BY <2>r, <3>2, <3>4, PopTries, Zenon
  <2>4. CASE CreatePush(i) BY <1>h, <2>r, <2>4, PushTries, Zenon DEF CreatePush
  <2>5. ASSUME NEW z \in Stages, NEW o, queue' = AfterPushOf(z, o, New),
               task' = [task EXCEPT ![New] = NewTask(o)], ex' = ex
        PROVE  Tries' /\ Heap'
    BY <2>5, <2>r, PushTries, Zenon
  <2>6. CASE UploadDone(i) \/ ResumableUploadDone(i)
    <3>1. QueueReplicate(i) BY <2>6, Zenon DEF UploadDone, ResumableUploadDone
    <3> QED BY <1>s, <2>1, <2>5, <3>1, Zenon DEF QueueReplicate
  <2>7. CASE Replicated(i) BY <1>s, <2>1, <2>5, <2>7, Zenon DEF Replicated
  <2>8. CASE Sealed(i) BY <1>s, <2>r, <2>8, PopTries, Zenon DEF Sealed, AfterPopByKey
  <2> QED BY <1>3, <2>2, <2>3, <2>4, <2>6, <2>7, <2>8, Zenon
<1> QED BY <1>1, <1>2, <1>3, Zenon DEF HandlerStep

\* An executor that neither gives out nor counts a try.
LEMMA AskedSame ==
  ASSUME Path, Tries, NEW e \in Executors, ex[e].pc # "asked", NEW v, v.pc # "asked",
         ex' = [ex EXCEPT ![e] = v]
  PROVE  /\ \A j : Asked(ex', j) = Asked(ex, j)
         /\ \A c \in Executors : ex'[c].pc = "asked" => ex'[c].id \in TaskIds
<1>1. ex = [c \in Executors |-> ex[c]] BY Zenon DEF Path, ExOnPath
<1>2. \A c \in Executors : ex'[c] = IF c = e THEN v ELSE ex[c] BY <1>1, Zenon
<1>3. ASSUME NEW j PROVE Asked(ex', j) = Asked(ex, j) BY <1>2, Zenon DEF Asked
<1> QED BY <1>2, <1>3, Zenon DEF Tries

\* The start of a handler.
LEMMA StartRefs ==
  ASSUME LifeInv, NEW i \in Handlers, NEW f, NEW p, NEW s, NEW k, NEW o, NEW ok,
         Start(i, f, p, s, k, o, ok), queue' = queue
  PROVE  \A t \in Stages : Refs(queue', h', t) \subseteq Refs(queue, h, t)
<1> DEFINE r == [Idle EXCEPT !.pc = p, !.f = f, !.stage = s, !.key = k,
                             !.o = o, !.ok = ok, !.next = 1]
<1>1. r.old = NULL BY DEF Idle
<1>2. h' = [h EXCEPT ![i] = r] BY Zenon DEF Start
<1> HIDE DEF r
<1> QED BY <1>1, <1>2, RefsOfSlot, Zenon

\* Only a task with a try left is given out.
LEMMA DispatchTries ==
  ASSUME Sizes(Executors), LifeInv, Tries, Heap, NEW e \in Executors, DispatchTask(e)
  PROVE  Tries'
<1>q. queue = [s \in Stages |-> queue[s]] /\ ex = [c \in Executors |-> ex[c]]
  BY Zenon DEF LifeInv, Path, ExOnPath
<1>1. h' = h /\ task' = task /\ ex[e].pc # "asked" BY FreeIsFree DEF DispatchTask
<1>2. ASSUME NEW s \in Stages PROVE Refs(queue', h', s) \subseteq Refs(queue, h, s)
  <2>1. queue'[s] = Without(queue[s], GC(s)) \/ queue'[s] = queue[s] BY Zenon DEF DispatchTask
  <2>2. Vals(queue'[s]) \subseteq Vals(queue[s]) BY <2>1, ValsWithout, Zenon
  <2> QED BY <1>1, <2>2, Zenon DEF Refs
<1>3. \A j \in TaskIds : task'[j].retry = task[j].retry BY <1>1, Zenon
<1>4. CASE ex' = ex
  <2>1. /\ \A j : Asked(ex', j) = Asked(ex, j)
        /\ \A c \in Executors : ex'[c].pc = "asked" => ex'[c].id \in TaskIds
    BY <1>4, Zenon DEF Tries
  <2> QED BY <1>2, <1>3, <2>1, FewerRefs, Zenon
<1>5. ASSUME NEW x \in Backup,
             ex' = [ex EXCEPT ![e] = [pc |-> "asked", stage |-> x[1], o |-> x[2],
                                      id |-> queue[x[1]][x[2]]]]
      PROVE  Tries'
  <2>1. PICK z : z = x[1] BY Zenon
  <2>2. PICK id : id = queue[x[1]][x[2]] BY Zenon
  <2>3. z \in Stages BY <2>1 DEF Backup, Dispatched, Stages
  <2>4. id \in Vals(queue[z]) /\ ~ExceedRetry(z, task[id])
    BY <2>1, <2>2, Zenon DEF Backup, Vals, Queued, FilterUploadingTask, At
  <2>5. id \in Refs(queue, h, z) /\ id \in TaskIds BY <2>3, <2>4, Zenon DEF Refs, Tries
  <2>6. \A c \in Executors : c # e => ex'[c] = ex[c] BY <1>5, <1>q, Zenon
  <2>7. ex'[e].pc = "asked" /\ ex'[e].id = id BY <1>5, <1>q, <2>2
  <2>8. \A c \in Executors : ex'[c].pc = "asked" => ex'[c].id \in TaskIds
    BY <2>5, <2>6, <2>7, Zenon DEF Tries
  <2>9. \A s \in Stages : Refs(queue', h', s) \subseteq TaskIds BY <1>2, Zenon DEF Tries
  <2>10. \A s, t \in Stages : s # t => Refs(queue', h', s) \cap Refs(queue', h', t) = {}
    BY <1>2, Zenon DEF Tries
  <2>11. ASSUME NEW s \in Stages, NEW j \in Refs(queue', h', s)
         PROVE  task'[j].retry + Cardinality(Asked(ex', j))
                  <= MaxRetry[s] + Cardinality(Executors) - 1
    <3>1. j \in Refs(queue, h, s) BY <1>2, <2>11, Zenon
    <3>2. j \in TaskIds BY <3>1, Zenon DEF Tries
    <3>3. CASE j = id
      <4>1. s = z BY <2>3, <2>5, <3>1, <3>3, Zenon DEF Tries
      <4>2. task[j].retry \in Nat /\ MaxRetry[s] \in Nat
        BY <3>2, LimitsAssumption, Zenon DEF Heap
      <4>3. ~(task[j].retry >= MaxRetry[s]) BY <2>4, <3>3, <4>1, Zenon DEF ExceedRetry
      <4>4. /\ Cardinality(Asked(ex', j)) \in Nat /\ Cardinality(Executors) \in Nat
            /\ Cardinality(Asked(ex', j)) <= Cardinality(Executors)
        BY AskedSize, Zenon
      <4>5. \A a, b, c, d \in Nat : ~(a >= c) /\ b <= d => a + b <= c + d - 1 OBVIOUS
      <4>6. task'[j].retry = task[j].retry BY <1>1, Zenon
      <4> QED BY <4>2, <4>3, <4>4, <4>5, <4>6, Zenon
    <3>4. CASE j # id
      <4>1. Asked(ex', j) = Asked(ex, j) BY <1>1, <2>6, <2>7, <3>4, Zenon DEF Asked
      <4> QED BY <1>1, <3>1, <4>1, Zenon DEF Tries
    <3> QED BY <3>3, <3>4, Zenon
  <2> QED BY <2>8, <2>9, <2>10, <2>11, Zenon DEF Tries
<1> QED BY <1>4, <1>5, Zenon DEF DispatchTask

\* Counting a try: one counted more, one not yet counted less.
LEMMA OnAskTries ==
  ASSUME Sizes(Executors), LifeInv, Tries, Heap, NEW e \in Executors, OnAskTask(e)
  PROVE  Tries' /\ Heap'
<1>1. PICK id \in TaskIds : id = ex[e].id BY Zenon DEF OnAskTask, Tries
<1>2. PICK v : v = [ex[e] EXCEPT !.pc = "running", !.id = NULL] BY Zenon
<1>3. PICK w : w = [task[id] EXCEPT !.retry = @ + 1, !.late = FALSE] BY Zenon
<1>4. /\ queue' = queue /\ h' = h /\ ex' = [ex EXCEPT ![e] = v]
      /\ task' = [task EXCEPT ![id] = w] /\ ex[e].pc = "asked"
  BY <1>1, <1>2, <1>3, Zenon DEF OnAskTask
<1>5. v.pc = "running"
  <2>1. ex[e] = [x \in ExFields |-> ex[e][x]] BY Zenon DEF LifeInv, Path, ExOnPath
  <2> QED BY <1>2, <2>1 DEF ExFields
<1>6. /\ w = [x \in TaskFields |-> w[x]] /\ w.retry = task[id].retry + 1
      /\ task[id].retry \in Nat /\ w.retry \in Nat
  <2> DEFINE q == task[id]
  <2>1. q = [x \in TaskFields |-> q[x]] /\ q.retry \in Nat BY Zenon DEF Heap
  <2>2. w = [q EXCEPT !.retry = @ + 1, !.late = FALSE] BY <1>3, Zenon
  <2> HIDE DEF q
  <2>3. PICK u : u = [q EXCEPT !.retry = @ + 1] BY Zenon
  <2>4. u = [x \in TaskFields |-> u[x]] BY <2>1, <2>3
  <2>5. w = [u EXCEPT !.late = FALSE] BY <2>2, <2>3, Zenon
  <2>6. w = [x \in TaskFields |-> w[x]] BY <2>4, <2>5
  <2>7. w.retry = q.retry + 1 BY <2>1, <2>2 DEF TaskFields
  <2>8. w.retry \in Nat BY <2>1, <2>7
  <2> QED BY <2>1, <2>6, <2>7, <2>8, Zenon DEF q
<1>7. \A c \in Executors : ex'[c] = IF c = e THEN v ELSE ex[c]
  BY <1>4, Zenon DEF LifeInv, Path, ExOnPath
<1>8. \A j \in TaskIds : task'[j] = IF j = id THEN w ELSE task[j] BY <1>4, Zenon DEF Heap
<1>9. Heap'
  <2>1. task' = [j \in TaskIds |-> task'[j]] BY <1>4, Zenon DEF Heap
  <2> QED BY <1>6, <1>8, <2>1, Zenon DEF Heap
<1>10. Asked(ex', id) = Asked(ex, id) \ {e} /\ e \in Asked(ex, id)
  BY <1>1, <1>4, <1>5, <1>7, Zenon DEF Asked
<1>11. \A j : j # id => Asked(ex', j) = Asked(ex, j)
  BY <1>1, <1>4, <1>5, <1>7, Zenon DEF Asked
<1>12. Cardinality(Asked(ex', id)) = Cardinality(Asked(ex, id)) - 1
  <2>1. Asked(ex, id) \in SUBSET Executors BY Zenon DEF Asked
  <2> QED BY <1>10, <2>1, Zenon DEF Sizes
<1>13. ASSUME NEW s \in Stages, NEW j \in Refs(queue', h', s)
       PROVE  task'[j].retry + Cardinality(Asked(ex', j))
                <= MaxRetry[s] + Cardinality(Executors) - 1
  <2>1. j \in Refs(queue, h, s) BY <1>4, <1>13, Zenon
  <2>2. j \in TaskIds BY <2>1, Zenon DEF Tries
  <2>3. task[j].retry + Cardinality(Asked(ex, j)) <= MaxRetry[s] + Cardinality(Executors) - 1
    BY <2>1, Zenon DEF Tries
  <2>4. CASE j = id
    <3>1. Cardinality(Asked(ex, id)) \in Nat BY AskedSize, Zenon
    <3>2. \A a, b \in Nat : (a + 1) + (b - 1) = a + b OBVIOUS
    <3>3. (task[id].retry + 1) + (Cardinality(Asked(ex, id)) - 1)
            = task[id].retry + Cardinality(Asked(ex, id))
      BY <1>6, <3>1, <3>2, Zenon
    <3>4. task'[j].retry = task[id].retry + 1 BY <1>6, <1>8, <2>4, Zenon
    <3> QED BY <1>12, <2>3, <2>4, <3>3, <3>4, Zenon
  <2>5. CASE j # id BY <1>8, <1>11, <2>2, <2>3, <2>5, Zenon
  <2> QED BY <2>4, <2>5, Zenon
<1>14. \A c \in Executors : ex'[c].pc = "asked" => ex'[c].id \in TaskIds
  BY <1>5, <1>7, Zenon DEF Tries
<1>15. /\ \A s \in Stages : Refs(queue', h', s) \subseteq TaskIds
       /\ \A s, t \in Stages : s # t => Refs(queue', h', s) \cap Refs(queue', h', t) = {}
  BY <1>4, Zenon DEF Tries
<1> QED BY <1>9, <1>13, <1>14, <1>15, Zenon DEF Tries

\* A manager that has just started knows no task.
Started ==
  /\ queue = [s \in Stages |-> [k \in {} |-> NULL]]
  /\ task = [i \in TaskIds |-> NewTask(0)]
  /\ h = [i \in Handlers |-> Idle]
  /\ \A e \in Executors : ex[e].pc # "asked"

LEMMA NoTasks == Started => Tries /\ Heap
<1> SUFFICES ASSUME Started PROVE Tries /\ Heap BY Zenon
<1> USE DEF Started
<1>1. Idle.old = NULL BY DEF Idle
<1>2. \A s \in Stages : Refs(queue, h, s) = {} BY <1>1, Zenon DEF Refs, Vals, Olds
<1>3. /\ NewTask(0) = [x \in TaskFields |-> NewTask(0)[x]] /\ NewTask(0).retry = 0
      /\ 0 \in Nat
  BY DEF NewTask, TaskFields
<1>4. Heap BY <1>3, Zenon DEF Heap
<1> QED BY <1>2, <1>4, Zenon DEF Tries

LEMMA StepTries ==
  ASSUME Sizes(Executors), LifeInv, Tries, Heap, AddressFree, [Next]_vars
  PROVE  Tries' /\ Heap'
<1>p. Path BY Zenon DEF LifeInv
<1>0. ASSUME task' = task, \A s \in Stages : Refs(queue', h', s) \subseteq Refs(queue, h, s),
             /\ \A j : Asked(ex', j) = Asked(ex, j)
             /\ \A c \in Executors : ex'[c].pc = "asked" => ex'[c].id \in TaskIds
      PROVE  Tries' /\ Heap'
  <2>1. \A j \in TaskIds : task'[j].retry = task[j].retry BY <1>0, Zenon
  <2>2. Heap' BY <1>0, Zenon DEF Heap
  <2> QED BY <1>0, <2>1, <2>2, FewerRefs, Zenon
<1>e. ex' = ex => /\ \A j : Asked(ex', j) = Asked(ex, j)
                  /\ \A c \in Executors : ex'[c].pc = "asked" => ex'[c].id \in TaskIds
  BY Zenon DEF Tries
<1>q. queue' = queue /\ h' = h =>
        \A s \in Stages : Refs(queue', h', s) \subseteq Refs(queue, h, s)
  BY Zenon
<1>1. ASSUME NEW i \in Handlers, HandlerStep(i) PROVE Tries' /\ Heap'
  BY <1>1, HandlerTries, Zenon
<1>2. ASSUME NEW i \in Handlers, NEW r \in Requests, BeginUpload(i, r) PROVE Tries' /\ Heap'
  BY <1>0, <1>2, <1>e, StartRefs, Zenon DEF BeginUpload
<1>3. ASSUME NEW i \in Handlers, NEW r \in Requests, NEW ok \in BOOLEAN, FinishUpload(i, r, ok)
      PROVE  Tries' /\ Heap'
  BY <1>0, <1>3, <1>e, <1>q, StartRefs, Zenon DEF FinishUpload
<1>4. CASE UNCHANGED <<queue, task, h, ex>> BY <1>0, <1>4, <1>e, <1>q, Zenon
<1>5. ASSUME NEW r \in Requests, LoseUpload(r) PROVE Tries' /\ Heap'
  BY <1>4, <1>5, Zenon DEF LoseUpload
<1>6. ASSUME NEW o \in Objects, NEW s \in Watched, UpdateUploadProgress(o, s)
      PROVE  Tries' /\ Heap'
  BY <1>4, <1>6, Zenon DEF UpdateUploadProgress
<1>7. ASSUME NEW e \in Executors, DispatchTask(e) PROVE Tries' /\ Heap'
  <2>1. Heap' BY <1>7, Zenon DEF DispatchTask, Heap
  <2> QED BY <1>7, <2>1, DispatchTries, Zenon
<1>8. ASSUME NEW e \in Executors, OnAskTask(e) PROVE Tries' /\ Heap'
  BY <1>8, OnAskTries, Zenon
<1>9. ASSUME NEW e \in Executors, ex[e].pc = "running", ex' = [ex EXCEPT ![e] = Free]
      PROVE  /\ \A j : Asked(ex', j) = Asked(ex, j)
             /\ \A c \in Executors : ex'[c].pc = "asked" => ex'[c].id \in TaskIds
  <2>1. PICK v : v = Free BY Zenon
  <2>2. v.pc # "asked" /\ ex[e].pc # "asked" BY <1>9, <2>1, FreeIsFree
  <2> QED BY <1>9, <1>p, <2>1, <2>2, AskedSame, Zenon
<1>10. ASSUME NEW e \in Executors, LoseTask(e) PROVE Tries' /\ Heap'
  BY <1>0, <1>9, <1>10, <1>q, Zenon DEF LoseTask
<1>11. ASSUME NEW e \in Executors, NEW i \in Handlers, NEW res, HandleReplicatePieceTask(e, i, res)
       PROVE  Tries' /\ Heap'
  <2>1. PICK o : o = ex[e].o BY Zenon
  <2>2. \/ Start(i, "failed", "pop", "replicate", o, o, FALSE)
        \/ Start(i, "replicated", "pop", "replicate", o, o, res = "sealed")
    BY <1>11, <2>1, Zenon DEF HandleReplicatePieceTask
  <2>3. /\ queue' = queue /\ task' = task /\ ex[e].pc = "running"
        /\ ex' = [ex EXCEPT ![e] = Free]
    BY <1>11, Zenon DEF HandleReplicatePieceTask
  <2>4. \A s \in Stages : Refs(queue', h', s) \subseteq Refs(queue, h, s)
    BY <2>2, <2>3, StartRefs, Zenon
  <2> QED BY <1>0, <1>9, <2>3, <2>4, Zenon
<1>12. ASSUME NEW e \in Executors, NEW i \in Handlers, NEW res, HandleSealObjectTask(e, i, res)
       PROVE  Tries' /\ Heap'
  <2>1. PICK o : o = ex[e].o BY Zenon
  <2>2. \/ Start(i, "failed", "pop", "seal", o, o, FALSE)
        \/ Start(i, "sealed", "sealed", "seal", o, o, TRUE)
    BY <1>12, <2>1, Zenon DEF HandleSealObjectTask
  <2>3. /\ queue' = queue /\ task' = task /\ ex[e].pc = "running"
        /\ ex' = [ex EXCEPT ![e] = Free]
    BY <1>12, Zenon DEF HandleSealObjectTask
  <2>4. \A s \in Stages : Refs(queue', h', s) \subseteq Refs(queue, h, s)
    BY <2>2, <2>3, StartRefs, Zenon
  <2> QED BY <1>0, <1>9, <2>3, <2>4, Zenon
<1>13. ASSUME NEW s \in Stages, NEW k, Late(s, k) PROVE Tries' /\ Heap'
  <2>1. PICK id : id = queue[s][k] BY Zenon
  <2>2. id \in TaskIds BY <1>13, <2>1, Zenon DEF Late, Queued, Tries, Refs, Vals
  <2>3. /\ task' = [task EXCEPT ![id].late = TRUE]
        /\ queue' = queue /\ h' = h /\ ex' = ex
    BY <1>13, <2>1, Zenon DEF Late
  <2>4. Heap' /\ \A j \in TaskIds : task'[j].retry = task[j].retry
    BY <2>2, <2>3, HeapAfterTime, Zenon
  <2> QED BY <1>e, <1>q, <2>3, <2>4, FewerRefs, Zenon
<1>14. CASE Restart
  <2>1. \A e \in Executors : ex'[e].pc # "asked" BY <1>14, FreeIsFree DEF Restart
  <2>2. /\ queue' = [s \in Stages |-> [k \in {} |-> NULL]]
        /\ task' = [i \in TaskIds |-> NewTask(0)] /\ h' = [i \in Handlers |-> Idle]
    BY <1>14, Zenon DEF Restart
  <2>3. Started' BY <2>1, <2>2, Zenon DEF Started
  <2>4. (Started => Tries /\ Heap)' BY NoTasks, PTL
  <2> QED BY <2>3, <2>4, Zenon
<1>15. CASE UNCHANGED vars BY <1>4, <1>15, Zenon DEF vars
<1> QED
  BY <1>1, <1>2, <1>3, <1>5, <1>6, <1>7, <1>8, <1>10, <1>11, <1>12, <1>13, <1>14, <1>15,
    ZenonT(30) DEF Next

F == INSTANCE FiniteSetTheorems

LEMMA ExecutorSizes == Sizes(Executors)
<1>1. \A S : Cardinality(S) = F!Cardinality(S) BY Zenon DEF Cardinality, F!Cardinality
<1>2. F!IsFiniteSet(Executors)
  BY ExecutorsAssumption, Zenon DEF IsFiniteSet, F!IsFiniteSet
<1>3. \A S \in SUBSET Executors : /\ F!IsFiniteSet(S) /\ F!Cardinality(S) \in Nat
                                  /\ F!Cardinality(S) <= F!Cardinality(Executors)
  BY <1>2, F!FS_Subset, F!FS_CardinalityType, Zenon
<1>4. \A S \in SUBSET Executors : \A x \in S :
        F!Cardinality(S \ {x}) = F!Cardinality(S) - 1
  BY <1>3, F!FS_RemoveElement, Zenon
<1>5. F!Cardinality({}) = 0 /\ (Executors # {} => F!Cardinality(Executors) # 0)
  BY <1>2, F!FS_EmptySet, Zenon
<1> QED BY <1>1, <1>3, <1>4, <1>5, Zenon DEF Sizes

\* For all numbers of executors, handlers, objects and queue sizes, whatever reports
\* are late, lost or repeated: the retry counter of a queued task passes its maximum at
\* most by the dispatches between DispatchTask and IncRetry at the same time, one for
\* each executor but one (OnAskTask counts after the manager's mutex is released).
\* New tasks get an address nothing points to, as they do in Go as long as there is
\* memory.
THEOREM RetriesAreBounded == Spec /\ []AddressFree => []RetryBounded
<1>1. Init => LifeInv /\ Tries /\ Heap
  <2> SUFFICES ASSUME Init PROVE LifeInv /\ Tries /\ Heap BY Zenon
  <2>1. LifeInv BY InitSeal, InitLife, Zenon DEF LifeInv
  <2>2. \A e \in Executors : ex[e].pc # "asked" BY FreeIsFree DEF Init
  <2>3. Tries /\ Heap BY <2>2, NoTasks, Zenon DEF Init, Started
  <2> QED BY <2>1, <2>3, Zenon
<1>2. LifeInv /\ [Next]_vars => LifeInv' BY StepKeeps, StepLife, Zenon DEF LifeInv
<1>3. LifeInv /\ Tries /\ Heap /\ AddressFree /\ [Next]_vars => Tries' /\ Heap'
  BY ExecutorSizes, StepTries, Zenon
<1>4. Tries /\ Heap => RetryBounded
  <2> SUFFICES ASSUME Tries, Heap, NEW s \in Dispatched, NEW k \in Queued(s)
               PROVE  At(s, k).retry <= MaxRetry[s] + Cardinality(Executors) - 1
    BY Zenon DEF RetryBounded
  <2>1. s \in Stages BY DEF Dispatched, Stages
  <2>2. PICK i : i = queue[s][k] BY Zenon
  <2>3. i \in Refs(queue, h, s) BY <2>2, Zenon DEF Refs, Vals, Queued
  <2>4. i \in TaskIds /\ task[i].retry \in Nat /\ MaxRetry[s] \in Nat
    BY <2>1, <2>3, LimitsAssumption, Zenon DEF Tries, Heap
  <2>5. Cardinality(Asked(ex, i)) \in Nat /\ Cardinality(Executors) \in Nat
    BY ExecutorSizes, AskedSize, Zenon
  <2>6. task[i].retry + Cardinality(Asked(ex, i)) <= MaxRetry[s] + Cardinality(Executors) - 1
    BY <2>1, <2>3, Zenon DEF Tries
  <2>7. \A a, b, c, d \in Nat : a + b <= c + d - 1 => a <= c + d - 1 OBVIOUS
  <2> QED BY <2>2, <2>4, <2>5, <2>6, <2>7, Zenon DEF At
<1> QED BY <1>1, <1>2, <1>3, <1>4, PTL DEF Spec
=============================================================================
