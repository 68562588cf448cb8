------------------------------ MODULE Download ------------------------------
(***************************************************************************)
(* Reading an object: the gateway's handlers (modular/gater,               *)
(* object_handler.go and admin_handler.go), the downloader                 *)
(* (modular/downloader, base/gfspapp/download_server.go) with its piece    *)
(* cache and its counters, the read quota of a bucket                      *)
(* (store/sqldb/traffic.go) and, through the module Recovery, what happens *)
(* when a piece cannot be read.                                            *)
(*                                                                         *)
(* A request is a process.  It is of one of three kinds: "object" is       *)
(* getObjectHandler, which asks the downloader for one piece after the     *)
(* other and writes each to the client; "universal" is the handler of the  *)
(* universal endpoint, which asks for the whole object; "challenge" is     *)
(* getChallengeInfoHandler.  The quota check is a sequence of database     *)
(* statements without a transaction, one step each.                        *)
(***************************************************************************)
EXTENDS Recovery, FiniteSetsExt

CONSTANTS Requests,
          Asks,             \* what a request may ask for, see AsksAssumption
          PayloadSize, MaxSegmentSize,
          ChargedQuotas,    \* the values ChargedReadQuota of the bucket may take
          FreeQuota,        \* bucketFreeQuota
          DownloadParallel, ChallengeParallel,
          CacheSize,        \* entries of pieceCache
          MaxTicks,         \* RecoveryTimeOutSeconds / RecoveryCheckInterval
          DbFails           \* a statement of the quota check may fail

SegmentPieceCount ==
  PayloadSize \div MaxSegmentSize + IF PayloadSize % MaxSegmentSize > 0 THEN 1 ELSE 0

ASSUME SizeAssumption ==
  /\ PayloadSize \in Nat \ {0} /\ MaxSegmentSize \in Nat \ {0}
  /\ Segments = 0 .. SegmentPieceCount - 1
\* A range is asked for with its first and last byte; a last byte of -1 stands for
\* an open range.  The universal endpoint reads the whole object: its isRange is never
\* set.  A challenge names a piece.
ASSUME AsksAssumption ==
  \A a \in Asks : \/ a.kind = "object" /\ a.low \in Nat /\ a.high \in Int
                  \/ a.kind = "universal" /\ a.low = 0 /\ a.high = -1
                  \/ a.kind = "challenge" /\ a.piece \in Nat
ASSUME QuotaAssumption ==
  ChargedQuotas \subseteq Nat /\ FreeQuota \in Nat /\ DbFails \in BOOLEAN
ASSUME ParallelAssumption ==
  /\ DownloadParallel \in Nat /\ ChallengeParallel \in Nat
  /\ CacheSize \in Nat \ {0} /\ MaxTicks \in Nat

VARIABLES req,         \* [Requests -> state of the request]
          charged,     \* ChargedReadQuota of the bucket on the chain
          traffic,     \* the bucket's row of this month: [consumed, quota], or none
          cache,       \* pieceCache: keys, the least recently used one first
          downloading, challenging,
          granted      \* history: the largest quota the bucket has had

reading == <<req, charged, traffic, cache, downloading, challenging, granted>>
vars == <<store, others, rqueue, rtask, run, fetch, losses,
          req, charged, traffic, cache, downloading, challenging, granted>>

NoRow == [consumed |-> -1, quota |-> -1]

\* idx: the piece being read; again: tryDownloadAfterRecovery is running; quota and
\* seen: what the quota check knows; cut: a piece was cut a second time after its
\* recovery.
NoRequest ==
  [pc |-> "new", ask |-> [kind |-> "none"], idx |-> 0, again |-> FALSE, ticks |-> 0,
   quota |-> 0, seen |-> NoRow, body |-> <<>>, cut |-> FALSE]

Init ==
  /\ RecoveryInit
  /\ req = [r \in Requests |-> NoRequest]
  /\ charged \in ChargedQuotas
  /\ traffic = NoRow
  /\ cache = <<>>
  /\ downloading = 0 /\ challenging = 0
  /\ granted = charged + FreeQuota

----------------------------------------------------------------------------
(* Pieces and ranges *)

SegmentPieceSize(seg) ==
  IF seg = SegmentPieceCount - 1 THEN PayloadSize - seg * MaxSegmentSize ELSE MaxSegmentSize

\* The requested range after parseRange and the checks of getObjectHandler.
High(a) == IF a.high < 0 \/ a.high >= PayloadSize THEN PayloadSize - 1 ELSE a.high
ValidRange(a) == a.low <= High(a)

\* The last byte of a segment, were it full.
End(seg) == (seg + 1) * MaxSegmentSize - 1

\* The segments the loop of SplitToSegmentPieceInfos takes: it skips those before
\* the range and breaks after the first that reaches its end.
Taken(low, high) ==
  {seg \in Segments : /\ low <= End(seg)
                      /\ \A t \in Segments : t < seg => low > End(t) \/ high > End(t)}

\* Mutant: a range that starts inside a segment is read from the segment's start.
BugPieceInfo(seg, low, high) ==
  LET to == IF high <= End(seg) THEN high ELSE End(seg)
  IN  [piece |-> seg, offset |-> 0, length |-> to - seg * MaxSegmentSize + 1]

SegmentPieceInfo(seg, low, high) ==
  LET from == IF low > seg * MaxSegmentSize THEN low ELSE seg * MaxSegmentSize
      to == IF high <= End(seg) THEN high ELSE End(seg)
  IN  [piece |-> seg, offset |-> from - seg * MaxSegmentSize, length |-> to - from + 1]

SplitToSegmentPieceInfos(low, high) ==
  LET T == Taken(low, high)
  IN  [i \in 1 .. Cardinality(T) |-> SegmentPieceInfo(Min(T) + i - 1, low, high)]

\* The bytes low .. high of the object; a byte is its position.
Bytes(low, high) == [i \in 1 .. high - low + 1 |-> low + i - 1]

\* GetPiece of the piece store: `length' bytes from `offset' of the segment.
Data(info) ==
  LET from == info.piece * MaxSegmentSize + info.offset
  IN  Bytes(from, from + info.length - 1)

\* The tasks of a request: the object task holds the range, ...
DownloadObjectTask(a) == [low |-> a.low, high |-> High(a)]

\* GetSize.
Size(a) == DownloadObjectTask(a).high - DownloadObjectTask(a).low + 1

Infos(r) ==
  LET task == DownloadObjectTask(req[r].ask) IN SplitToSegmentPieceInfos(task.low, task.high)

\* ... the piece task the piece that is read now, and the challenge task a piece.
DownloadPieceTask(r) == Infos(r)[req[r].idx]
ChallengePieceTask(r) == req[r].ask.piece

\* getObjectHandler cuts the data it reads after a recovery once more, as if it were
\* the whole segment: the result, or <<-1>> when the slice is out of bounds (or ends
\* in bytes that are not of the object).
CutAgain(info) ==
  LET d == Data(info)
      rest == SubSeq(d, info.offset + 1, Len(d))
  IN  IF info.offset > Len(d) THEN <<-1>>
      ELSE IF info.offset + info.length < SegmentPieceSize(info.piece)
           THEN IF info.length > Len(rest) THEN <<-1>> ELSE SubSeq(rest, 1, info.length)
           ELSE rest

----------------------------------------------------------------------------
(* Requests *)

Goto(r, pc) == req' = [req EXCEPT ![r].pc = pc]

\* A request of a client: the bucket and the object are read from the chain.
Begin(r, a, pc) ==
  /\ req[r].pc = "new"
  /\ req' = [req EXCEPT ![r] = [NoRequest EXCEPT !.pc = pc, !.ask = a, !.idx = 1,
                                                 !.quota = charged + FreeQuota]]

\* The heads of the three handlers: an error before anything is read, or on.
getObject(r, a) ==
  a.kind = "object" /\ (Begin(r, a, "error") \/ (ValidRange(a) /\ Begin(r, a, "call")))
getObjectByUniversalEndpoint(r, a) ==
  a.kind = "universal" /\ (Begin(r, a, "error") \/ Begin(r, a, "call"))
getChallengeInfo(r, a) ==
  a.kind = "challenge" /\ (Begin(r, a, "error") \/ Begin(r, a, "challenge"))

\* A call of the downloader has failed.  Only getObjectHandler goes on: it takes the
\* piece for lost, and in tryDownloadAfterRecovery it waits for the next tick.
AfterFailure(r) ==
  IF req[r].ask.kind # "object" THEN "error" ELSE IF req[r].again THEN "wait" ELSE "report"

\* The quota is checked for a whole object and with the first piece.
EnableCheck(r) == req[r].ask.kind = "universal" \/ req[r].idx = 1

\* GetObject and GetPiece of the client, GfSpDownloadObject and GfSpDownloadPiece of
\* the server: no connection or no resources, or on to the quota check.
Call(r) ==
  /\ req[r].pc = "call"
  /\ \/ Goto(r, AfterFailure(r))
     \/ Goto(r, IF EnableCheck(r) THEN "row" ELSE "gate")

----------------------------------------------------------------------------
(* CheckQuotaAndAddReadRecord, one statement at a time *)

\* An error of the database lets the request go (PreDownloadObject, PreDownloadPiece).
LetGo(r) == Goto(r, "gate") /\ UNCHANGED traffic

GetBucketTraffic(r) ==
  /\ req[r].pc = "row"
  /\ \/ /\ req' = [req EXCEPT ![r].seen = traffic,
                              ![r].pc = IF traffic = NoRow THEN "insert" ELSE "update"]
        /\ UNCHANGED traffic
     \/ DbFails /\ LetGo(r)

\* The row of a new month; bucket and month are its primary key.
InsertBucketTraffic(r) ==
  LET row == [consumed |-> 0, quota |-> req[r].quota]
  IN  /\ req[r].pc = "insert"
      /\ \/ /\ traffic = NoRow
            /\ traffic' = row
            /\ req' = [req EXCEPT ![r].seen = row, ![r].pc = "update"]
         \/ (traffic # NoRow \/ DbFails) /\ LetGo(r)

\* The quota of the row follows the chain; an update with zero writes nothing.
UpdateQuota(r) ==
  LET differs == req[r].seen.quota # req[r].quota
  IN  /\ req[r].pc = "update"
      /\ \/ /\ traffic' = IF differs /\ req[r].quota # 0
                          THEN [traffic EXCEPT !.quota = req[r].quota] ELSE traffic
            /\ Goto(r, "check")
         \/ DbFails /\ differs /\ LetGo(r)

\* Mutant: the check ignores what this request reads.
BugEnoughQuota(r) == req[r].seen.consumed <= req[r].quota

\* The check is made on the row as it was read.
EnoughQuota(r) == req[r].seen.consumed + Size(req[r].ask) <= req[r].quota

CheckQuota(r) ==
  /\ req[r].pc = "check"
  /\ \/ /\ ~EnoughQuota(r)
        /\ Goto(r, AfterFailure(r)) /\ UNCHANGED traffic
     \/ /\ EnoughQuota(r)
        /\ traffic' = [traffic EXCEPT !.consumed = req[r].seen.consumed + Size(req[r].ask)]
        /\ Goto(r, "record")
     \/ EnoughQuota(r) /\ DbFails /\ LetGo(r)

\* The record is written, or an error of the database lets the request go.
InsertReadRecord(r) ==
  /\ req[r].pc = "record"
  /\ Goto(r, "gate")
  /\ UNCHANGED traffic

QuotaStep(r) ==
  \/ GetBucketTraffic(r) \/ InsertBucketTraffic(r) \/ UpdateQuota(r) \/ CheckQuota(r)
  \/ InsertReadRecord(r)

----------------------------------------------------------------------------
(* HandleDownloadPieceTask, HandleDownloadObjectTask and HandleChallengePiece *)

\* The LRU cache after an entry was looked up, and after one was added.
Touch(c, info) == Append(SelectSeq(c, LAMBDA x : x # info), info)

AddToCache(c, info) ==
  LET c1 == Touch(c, info) IN IF Len(c1) > CacheSize THEN Tail(c1) ELSE c1

\* The counter is incremented, then compared.
Admitted(counter, parallel) == counter + 1 < parallel

Enter(r) ==
  /\ req[r].pc = "gate"
  /\ downloading' = downloading + 1
  /\ Goto(r, IF Admitted(downloading, DownloadParallel) THEN "fetch" ELSE "refused")
  /\ UNCHANGED cache

\* ErrExceedRequest; the deferred decrement is a step of its own.
Refuse(r) ==
  /\ req[r].pc = "refused"
  /\ downloading' = downloading - 1
  /\ Goto(r, AfterFailure(r))
  /\ UNCHANGED cache

\* The piece is written to the client, and the next one is asked for.
Write(r, data) ==
  LET last == req[r].idx = Len(Infos(r))
  IN  req' = [req EXCEPT
        ![r].body = @ \o data, ![r].idx = @ + 1, ![r].again = FALSE, ![r].ticks = 0,
        ![r].cut = @ \/ (req[r].again /\ DownloadPieceTask(r).offset > 0),
        ![r].pc = IF last THEN "done" ELSE "call"]

InCache(info) == \E i \in 1 .. Len(cache) : cache[i] = info

\* One piece for getObjectHandler: from the cache, which it does not fill, or from
\* the piece store.
FetchPiece(r) ==
  LET task == DownloadPieceTask(r)
      data == IF req[r].again THEN CutAgain(task) ELSE Data(task)
  IN  /\ req[r].pc = "fetch" /\ req[r].ask.kind = "object"
      /\ downloading' = downloading - 1
      /\ cache' = IF InCache(task) THEN Touch(cache, task) ELSE cache
      /\ IF InCache(task) \/ store[task.piece] # "lost"
         THEN IF data = <<-1>> THEN Goto(r, "aborted") ELSE Write(r, data)
         ELSE Goto(r, AfterFailure(r))

\* One piece of the whole object, which is sent when its last piece has been read.
FetchObjectPiece(r) ==
  LET task == DownloadPieceTask(r)
      last == req[r].idx = Len(Infos(r))
      found == InCache(task) \/ store[task.piece] # "lost"
  IN  /\ req[r].pc = "fetch" /\ req[r].ask.kind = "universal"
      /\ IF found
         THEN req' = [req EXCEPT ![r].body = @ \o Data(task), ![r].idx = @ + 1,
                                 ![r].pc = IF last THEN "done" ELSE "fetch"]
         ELSE req' = [req EXCEPT ![r].body = <<>>, ![r].pc = "error"]
      /\ cache' = IF InCache(task) THEN Touch(cache, task)
                  ELSE IF found THEN AddToCache(cache, task) ELSE cache
      /\ downloading' = IF found /\ ~last THEN downloading ELSE downloading - 1

DownloadStep(r) == Enter(r) \/ Refuse(r) \/ FetchPiece(r) \/ FetchObjectPiece(r)

\* HandleChallengePiece admits a challenge ...
EnterChallenge(r) ==
  /\ req[r].pc = "challenge"
  /\ challenging' = challenging + 1
  /\ Goto(r, IF Admitted(challenging, ChallengeParallel) THEN "answer" ELSE "unanswered")
  /\ UNCHANGED recovery

LeaveChallenge(r, pc) == challenging' = challenging - 1 /\ Goto(r, pc)

\* ... and answers it, or refuses, without an integrity row, or for a piece the object
\* does not have.
AnswerChallenge(r) ==
  /\ \/ req[r].pc = "answer" /\ ChallengePieceTask(r) \in Pieces
        /\ store[ChallengePieceTask(r)] # "lost" /\ LeaveChallenge(r, "done")
     \/ req[r].pc = "answer" /\ LeaveChallenge(r, "error")
     \/ req[r].pc = "unanswered" /\ LeaveChallenge(r, "error")
  /\ UNCHANGED recovery

\* recoverChallengePiece: the piece is lost, and reported; the report may be lost too.
RecoverChallengePiece(r) ==
  /\ req[r].pc = "answer" /\ ChallengePieceTask(r) \in Pieces
  /\ store[ChallengePieceTask(r)] = "lost"
  /\ LeaveChallenge(r, "error")
  /\ ReportLostPiece(ChallengePieceTask(r))

ChallengeStep(r) == EnterChallenge(r) \/ AnswerChallenge(r) \/ RecoverChallengePiece(r)

----------------------------------------------------------------------------
(* getObjectHandler when a piece cannot be read *)

\* A recovery task is reported to the manager; nobody looks at the answer.
ReportLost(r) ==
  /\ req[r].pc = "report"
  /\ Goto(r, "wait")
  /\ ReportLostPiece(DownloadPieceTask(r).piece) \/ UNCHANGED recovery

\* Mutant: the timeout starts again with every tick.
BugTick(r) ==
  /\ req[r].pc = "wait"
  /\ req' = [req EXCEPT ![r].pc = "call", ![r].again = TRUE]

\* tryDownloadAfterRecovery: the piece is asked for again at every tick, with the
\* task of the first try, until the time is over.  The error is a variable of the
\* loop: the response ends without one.
Tick(r) ==
  /\ req[r].pc = "wait" /\ req[r].ticks < MaxTicks
  /\ req' = [req EXCEPT ![r].pc = "call", ![r].again = TRUE, ![r].ticks = @ + 1]

GiveUp(r) ==
  /\ req[r].pc = "wait"
  /\ Goto(r, "short")

----------------------------------------------------------------------------

\* The owner of the bucket buys another quota.
ChangeQuota ==
  /\ charged' \in ChargedQuotas
  /\ granted' = IF charged' + FreeQuota > granted THEN charged' + FreeQuota ELSE granted
  /\ UNCHANGED <<req, traffic, cache, downloading, challenging>>
  /\ UNCHANGED recovery

RequestStep(r) ==
  \/ /\ \/ \E a \in Asks :
             getObject(r, a) \/ getObjectByUniversalEndpoint(r, a) \/ getChallengeInfo(r, a)
        \/ Call(r) \/ Tick(r) \/ GiveUp(r)
     /\ UNCHANGED <<charged, traffic, cache, downloading, challenging, granted>>
     /\ UNCHANGED recovery
  \/ /\ QuotaStep(r)
     /\ UNCHANGED <<charged, cache, downloading, challenging, granted>>
     /\ UNCHANGED recovery
  \/ /\ DownloadStep(r)
     /\ UNCHANGED <<charged, traffic, challenging, granted>>
     /\ UNCHANGED recovery
  \/ /\ ChallengeStep(r)
     /\ UNCHANGED <<charged, traffic, cache, downloading, granted>>
  \/ /\ ReportLost(r)
     /\ UNCHANGED <<charged, traffic, cache, downloading, challenging, granted>>

Next ==
  \/ \E r \in Requests : RequestStep(r)
  \/ ChangeQuota
  \/ RecoveryNext /\ UNCHANGED reading

Spec == Init /\ [][Next]_vars

\* The handlers run on, an executor keeps asking for tasks and time goes by.
Fairness ==
  /\ \A r \in Requests : WF_vars(req[r].pc # "new" /\ RequestStep(r))
  /\ \A e \in Executors : WF_vars(ExecutorStep(e) /\ UNCHANGED reading)
  /\ \A e \in Executors : WF_vars(DispatchRecovery(e) /\ UNCHANGED reading)
  /\ WF_vars((\E k \in DOMAIN rqueue : RecoveryLate(k)) /\ UNCHANGED reading)

FairSpec == Spec /\ Fairness

----------------------------------------------------------------------------
(* Properties *)

Ended == {"done", "error", "short", "aborted"}

\* checkRecoveryCheckSum: whatever the other providers hold or answer, and in whatever
\* order the goroutines of a recovery end, no wrong data gets into the piece store.
NeverStoresBadPiece == \A p \in Pieces : store[p] # "bad"

\* SplitToSegmentPieceInfos and the loop of getObjectHandler: the client has received
\* the first bytes of the range it asked for, in order, and all of them when the
\* request is done; an exception are the pieces cut a second time after a recovery.
BodyIsRange ==
  \A r \in Requests :
    req[r].ask.kind \in {"object", "universal"} /\ req[r].pc # "error" /\ ~req[r].cut =>
      LET range == Bytes(req[r].ask.low, High(req[r].ask))
      IN  /\ Len(req[r].body) <= Len(range)
          /\ req[r].body = SubSeq(range, 1, Len(req[r].body))
          /\ req[r].pc = "done" => req[r].body = range

\* CheckQuotaAndAddReadRecord: however the statements of concurrent reads interleave
\* and whenever the quota changes, the row never says that more was read than the
\* largest quota the bucket has had.
ConsumedWithinGrant == traffic.consumed <= granted

\* tryDownloadAfterRecovery gives up: every request is answered.
EveryRequestEnds ==
  \A r \in Requests : req[r].pc # "new" ~> req[r].pc \in Ended

\* The recovery queue: once nobody reports lost pieces any more, the queue empties
\* and the executors come to rest; a task that fails, or is lost with its executor,
\* is not tried for ever.
RecoveryComesToRest ==
  <>[](DOMAIN rqueue = {} /\ \A e \in Executors : run[e].pc = "idle")
=============================================================================
