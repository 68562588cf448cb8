---------------------------- MODULE UploadStream ----------------------------
(***************************************************************************)
(* The upload of one object to the primary provider: the streaming gRPC    *)
(* server (base/gfspapp/upload_server.go), the uploader that cuts the data *)
(* into segments (modular/uploader), and the integrity table of the        *)
(* provider's database (store/sqldb/object_integrity.go).                  *)
(*                                                                         *)
(* A request has two goroutines: the producer receives messages and writes *)
(* them to a pipe, the consumer reads segments from the pipe and stores    *)
(* them.  They share the variables err and span of the handler.  A message *)
(* carries one segment.  What segment i hashes to is the pair of i and of  *)
(* the contents that were sent for it.                                     *)
(***************************************************************************)
EXTENDS Integers, Sequences, FiniteSets

CONSTANTS
  Requests,     \* upload requests of clients, in all
  Plain,        \* the PutObject requests; the others are resumable
  Wrong,        \* the requests that may carry other data than the object was created with
  NSeg,         \* segments of the object
  LastPartial,  \* the last segment is not full
  MaxRunning,   \* bound: requests at the same time
  MaxFails,     \* bound: calls that fail, streams that break and crashes of the uploader
  NULL

ASSUME RequestsAssumption == Plain \subseteq Requests /\ Wrong \subseteq Requests
ASSUME BoundsAssumption ==
  NSeg \in Nat \ {0} /\ LastPartial \in BOOLEAN
    /\ MaxRunning \in Nat /\ MaxFails \in Nat
ASSUME NullAssumption == NULL \notin 0 .. NSeg - 1

VARIABLES
  rq,        \* the handler of each request: its two goroutines and their variables
  pieces,    \* the piece store: the contents under each segment piece key
  row,       \* the row of the integrity table, or NULL
  uq,        \* keys in the queues of the uploader
  mq,        \* keys in the upload queues of the manager
  progress,  \* the upload progress row exists
  reported,  \* history: requests reported to the manager without an error
  fails      \* failures so far

world == <<pieces, row, uq, mq, progress, reported>>
vars  == <<rq, pieces, row, uq, mq, progress, reported, fails>>

Segments == 0 .. NSeg - 1
Contents(r) == rq[r].data
Sum(i, c) == <<i, c>>

\* The checksums whose integrity hash is that of the object on the chain.
Expected == [i \in 1 .. NSeg |-> Sum(i - 1, "good")]

NewHandler == [data |-> "good", off |-> 0, end |-> 0, complete |-> FALSE, sent |-> 0, seg |-> 0,
               prod |-> "none", cons |-> "none", pipe |-> "open", err |-> FALSE, span |-> FALSE,
               sums |-> <<>>, signed |-> FALSE, ok |-> TRUE, answer |-> "none"]

\* The task keys: of a PutObject, or of a part with its offset.
Key(r) == IF r \in Plain THEN <<"object", 0>> ELSE <<"part", rq[r].off>>

Init ==
  /\ rq = [r \in Requests |-> NewHandler]
  /\ pieces = [i \in Segments |-> "none"]
  /\ row = NULL
  /\ uq = {} /\ mq = {} /\ progress = FALSE /\ reported = {}
  /\ fails = 0

\* The handler of r is x from now on.
Set(r, x) == rq' = [rq EXCEPT ![r] = x]

MayFail(r, x) == fails < MaxFails /\ fails' = fails + 1 /\ Set(r, x)

----------------------------------------------------------------------------
(* The client *)

Running(r) == rq[r].prod \notin {"none", "end"} \/ rq[r].cons \notin {"none", "wait", "done"}

\* queryResumeOffsetHandler: the client continues after the segments whose
\* checksums are in the table.
ResumeOffset == IF row = NULL THEN 0 ELSE Len(row.sums)

\* Requests overlap, but for one that carries wrong data.
MayBegin(data) ==
  LET R == {q \in Requests : Running(q)}
  IN  Cardinality(R) < MaxRunning /\ \A q \in R : "bad" \notin {rq[q].data, data}

\* A request with the segments from..to-1; the last part says that it completes.
Begin(r, from, to) ==
  /\ rq[r].cons = "none"
  /\ \E data \in {"good"} \cup (IF r \in Wrong THEN {"bad"} ELSE {}) :
       /\ MayBegin(data)
       /\ Set(r, [rq[r] EXCEPT !.data = data, !.off = from, !.end = to, !.complete = (to = NSeg),
                           !.sent = from, !.seg = from, !.prod = "recv", !.cons = "wait"])
  /\ UNCHANGED <<world, fails>>

PutObject(r) == r \in Plain /\ Begin(r, 0, NSeg)

ResumablePutObject(r) ==
  /\ r \notin Plain
  /\ \E to \in ResumeOffset + 1 .. NSeg : Begin(r, ResumeOffset, to)

----------------------------------------------------------------------------
(* The producer *)

\* The first close of the pipe counts.
Closed(r, how) == IF rq[r].pipe = "open" THEN how ELSE rq[r].pipe

\* The next stream.Recv yields a message, not io.EOF.
MoreData(r) == rq[r].sent < rq[r].end

\* The producer fails: it sets err, closes the pipe with the error and returns.
GiveUp(r) == [rq[r] EXCEPT !.err = TRUE, !.prod = "end", !.pipe = Closed(r, "error")]

\* stream.Recv, which sets err in every case.  The handler having returned, the
\* context is cancelled and the stream is closed.
Recv(r) ==
  /\ rq[r].prod = "recv"
  /\ \/ /\ rq[r].cons = "done"
        /\ Set(r, [rq[r] EXCEPT !.prod = "end"])
        /\ UNCHANGED fails
     \/ /\ rq[r].cons # "done" /\ MoreData(r)
        /\ Set(r, [rq[r] EXCEPT !.err = FALSE,
                             !.prod = IF rq[r].sent = rq[r].off THEN "reserve" ELSE "write"])
        /\ UNCHANGED fails
     \/ /\ rq[r].cons # "done" /\ ~MoreData(r)
        /\ Set(r, [rq[r] EXCEPT !.err = FALSE, !.prod = "end", !.pipe = Closed(r, "eof")])
        /\ UNCHANGED fails
     \/ rq[r].cons # "done" /\ MayFail(r, GiveUp(r))
  /\ UNCHANGED world

\* ReserveResource, on the first message.
ReserveResource(r) ==
  /\ rq[r].prod = "reserve"
  /\ \/ Set(r, [rq[r] EXCEPT !.span = TRUE, !.prod = "pre"]) /\ UNCHANGED fails
     \/ MayFail(r, GiveUp(r))
  /\ UNCHANGED world

\* PreUploadObject: is a task with this key running here?
PreUploadObject(r) ==
  /\ rq[r].prod = "pre"
  /\ Set(r, IF Key(r) \in uq THEN GiveUp(r) ELSE [rq[r] EXCEPT !.prod = "create"])
  /\ UNCHANGED <<world, fails>>

\* CreateUploadObject and CreateResumableUploadObject: the manager takes the task
\* into its queue and creates the progress row.  A row that is there already is an
\* error for a plain upload only; the task stays in the queue then.
CreateUploadObject(r) ==
  /\ rq[r].prod = "create"
  /\ \/ /\ Key(r) \in mq
        /\ Set(r, GiveUp(r))
        /\ UNCHANGED <<mq, progress, fails>>
     \/ /\ Key(r) \notin mq
        /\ mq' = mq \cup {Key(r)}
        /\ progress' = TRUE
        /\ Set(r, IF r \in Plain /\ progress THEN GiveUp(r) ELSE [rq[r] EXCEPT !.prod = "signal"])
        /\ UNCHANGED fails
     \/ MayFail(r, GiveUp(r)) /\ UNCHANGED <<mq, progress>>
  /\ UNCHANGED <<pieces, row, uq, reported>>

\* initCh <- struct{}{}: the two goroutines meet.
Signal(r) ==
  /\ rq[r].prod = "signal" /\ rq[r].cons = "wait"
  /\ Set(r, [rq[r] EXCEPT !.prod = "write", !.cons = "push"])
  /\ UNCHANGED <<world, fails>>

\* pWrite.Write returns an error, which is ignored, when the pipe is closed.
WriteFails(r) ==
  /\ rq[r].prod = "write" /\ rq[r].pipe # "open"
  /\ Set(r, [rq[r] EXCEPT !.prod = "recv", !.sent = @ + 1])
  /\ UNCHANGED <<world, fails>>

----------------------------------------------------------------------------
(* The consumer *)

\* HandleUploadObjectTask has an error: the deferred report is next.
Failed(r) == [rq[r] EXCEPT !.ok = FALSE, !.cons = "report"]

\* The push into the uploader's queue; the report is not deferred yet.
Push(r) ==
  /\ rq[r].cons = "push"
  /\ \/ /\ Key(r) \in uq
        /\ Set(r, [rq[r] EXCEPT !.ok = FALSE, !.cons = "return"])
        /\ UNCHANGED <<uq, fails>>
     \/ /\ Key(r) \notin uq
        /\ uq' = uq \cup {Key(r)}
        /\ Set(r, [rq[r] EXCEPT !.cons = "read"])
        /\ UNCHANGED fails
     \/ MayFail(r, [rq[r] EXCEPT !.ok = FALSE, !.cons = "return"]) /\ UNCHANGED uq
  /\ UNCHANGED <<pieces, row, mq, progress, reported>>

Partial(i) == LastPartial /\ i = NSeg - 1

\* What follows the last segment: a plain upload, or the last part, is signed.
AtEOF(r) == IF r \in Plain THEN "sign" ELSE IF rq[r].complete THEN "load" ELSE "report"

\* StreamReadAt takes a segment from the pipe; after one that is not full it reads
\* on to the end of the stream ("more").
Read(r) ==
  /\ rq[r].cons = "read"
  /\ \/ /\ rq[r].pipe = "open" /\ rq[r].prod = "write"
        /\ Set(r, [rq[r] EXCEPT !.prod = "recv", !.sent = @ + 1,
                             !.cons = IF Partial(rq[r].sent) THEN "more" ELSE "put"])
     \/ rq[r].pipe = "eof" /\ Set(r, [rq[r] EXCEPT !.cons = AtEOF(r)])
     \/ rq[r].pipe = "error" /\ Set(r, Failed(r))
  /\ UNCHANGED <<world, fails>>

ReadMore(r) ==
  /\ rq[r].cons = "more"
  /\ \/ rq[r].pipe = "eof" /\ Set(r, [rq[r] EXCEPT !.cons = "put"])
     \/ rq[r].pipe = "error" /\ Set(r, Failed(r))
  /\ UNCHANGED <<world, fails>>

\* After a segment is stored and its checksum recorded.
AfterSegment(r) == IF Partial(rq[r].seg) THEN AtEOF(r) ELSE "read"

\* PutPiece under the key of segment segIdx.
PutPiece(r) ==
  /\ rq[r].cons = "put"
  /\ \/ /\ pieces' = [pieces EXCEPT ![rq[r].seg] = Contents(r)]
        /\ Set(r, IF r \in Plain
                  THEN [rq[r] EXCEPT !.sums = Append(@, Sum(rq[r].seg, Contents(r))),
                                     !.seg = @ + 1, !.cons = AfterSegment(r)]
                  ELSE [rq[r] EXCEPT !.cons = "get"])
        /\ UNCHANGED fails
     \/ MayFail(r, Failed(r)) /\ UNCHANGED pieces
  /\ UNCHANGED <<row, uq, mq, progress, reported>>

\* AppendObjectChecksumIntegrity reads the row ...
AppendGet(r) ==
  /\ rq[r].cons = "get"
  /\ LET new == Sum(rq[r].seg, Contents(r))
     IN  \/ /\ Set(r, IF row = NULL
                      THEN [rq[r] EXCEPT !.sums = <<new>>, !.signed = FALSE, !.cons = "create"]
                      ELSE [rq[r] EXCEPT !.sums = Append(row.sums, new), !.signed = row.signed,
                                         !.cons = "delete"])
            /\ UNCHANGED fails
         \/ MayFail(r, Failed(r))
  /\ UNCHANGED world

\* ... deletes it, an error being ignored ...
AppendDelete(r) ==
  /\ rq[r].cons = "delete"
  /\ \/ row' = NULL /\ Set(r, [rq[r] EXCEPT !.cons = "create"]) /\ UNCHANGED fails
     \/ MayFail(r, [rq[r] EXCEPT !.cons = "create"]) /\ UNCHANGED row
  /\ UNCHANGED <<pieces, uq, mq, progress, reported>>

\* SetObjectIntegrity: an insert; a row that is there already is left as it is.
SetObjectIntegrity(new) == row' = IF row = NULL THEN new ELSE row

\* ... and inserts it again.
AppendSet(r) ==
  /\ rq[r].cons = "create"
  /\ \/ /\ SetObjectIntegrity([sums |-> rq[r].sums, signed |-> rq[r].signed])
        /\ Set(r, [rq[r] EXCEPT !.seg = @ + 1, !.cons = AfterSegment(r)])
        /\ UNCHANGED fails
     \/ MayFail(r, Failed(r)) /\ UNCHANGED row
  /\ UNCHANGED <<pieces, uq, mq, progress, reported>>

\* The last part of a resumable upload reads all checksums.
GetObjectIntegrity(r) ==
  /\ rq[r].cons = "load"
  /\ \/ Set(r, IF row = NULL THEN Failed(r)
                            ELSE [rq[r] EXCEPT !.sums = row.sums, !.cons = "sign"])
        /\ UNCHANGED fails
     \/ MayFail(r, Failed(r))
  /\ UNCHANGED world

\* Mutant: the integrity hash is not compared.
BugIntegrityEqual(sums) == Len(sums) = NSeg

\* bytes.Equal of the integrity hash and the checksum of the object on the chain.
IntegrityEqual(sums) == sums = Expected

\* SignIntegrityHash, and the comparison of the hash with the object's.
SignIntegrityHash(r) ==
  /\ rq[r].cons = "sign"
  /\ \/ /\ Set(r, IF IntegrityEqual(rq[r].sums) THEN [rq[r] EXCEPT !.cons = "save"]
                                                  ELSE Failed(r))
        /\ UNCHANGED fails
     \/ MayFail(r, Failed(r))
  /\ UNCHANGED world

\* Mutant: the task is reported before its row is saved.
BugSaveIntegrity(r) ==
  /\ rq[r].cons = "save"
  /\ reported' = reported \cup {r}
  /\ mq' = mq \ {Key(r)} /\ uq' = uq \ {Key(r)}
  /\ \/ /\ SetObjectIntegrity([sums |-> rq[r].sums, signed |-> TRUE])
        /\ Set(r, [rq[r] EXCEPT !.cons = "return"])
        /\ UNCHANGED fails
     \/ MayFail(r, [rq[r] EXCEPT !.ok = FALSE, !.cons = "return"]) /\ UNCHANGED row
  /\ UNCHANGED <<pieces, progress>>

SaveIntegrity(r) ==
  /\ rq[r].cons = "save"
  /\ \/ /\ SetObjectIntegrity([sums |-> rq[r].sums, signed |-> TRUE])
        /\ Set(r, [rq[r] EXCEPT !.cons = "report"])
        /\ UNCHANGED fails
     \/ MayFail(r, Failed(r)) /\ UNCHANGED row
  /\ UNCHANGED <<pieces, uq, mq, progress, reported>>

\* The reports without an error.
Outcome(r) == IF rq[r].ok THEN {r} ELSE {}

\* The deferred calls: ReportTask, for a part only the last, then PopByKey.
ReportTask(r) ==
  /\ rq[r].cons = "report"
  /\ uq' = uq \ {Key(r)}
  /\ \/ /\ r \in Plain \/ rq[r].complete
        /\ mq' = mq \ {Key(r)}
        /\ reported' = reported \cup Outcome(r)
        /\ Set(r, [rq[r] EXCEPT !.cons = "return"])
        /\ UNCHANGED fails
     \/ /\ r \notin Plain /\ ~rq[r].complete
        /\ Set(r, [rq[r] EXCEPT !.cons = "return"])
        /\ UNCHANGED <<mq, reported, fails>>
     \/ MayFail(r, [rq[r] EXCEPT !.cons = "return"]) /\ UNCHANGED <<mq, reported>>
  /\ UNCHANGED <<pieces, row, progress>>

\* The local variables of HandleUploadObjectTask are gone.
NoLocals(x) == [x EXCEPT !.seg = 0, !.sums = <<>>, !.signed = FALSE]

\* Mutant: the pipe is left open.
BugReturn(r) ==
  /\ rq[r].cons = "return"
  /\ Set(r, NoLocals([rq[r] EXCEPT !.cons = "answer", !.err = ~rq[r].ok]))
  /\ UNCHANGED <<world, fails>>

\* err = HandleUploadObjectTask(...), and the pipe is closed on an error ...
Return(r) ==
  /\ rq[r].cons = "return"
  /\ Set(r, NoLocals([rq[r] EXCEPT !.cons = "answer", !.err = ~rq[r].ok,
                                   !.pipe = IF rq[r].ok THEN @ ELSE Closed(r, "error")]))
  /\ UNCHANGED <<world, fails>>

\* ... the deferred function releases the span, answers what err says by then, and
\* cancels the context.
SendAndClose(r) ==
  /\ rq[r].cons = "answer"
  /\ Set(r, [rq[r] EXCEPT !.cons = "done", !.span = FALSE,
                          !.answer = IF rq[r].err THEN "error" ELSE "ok"])
  /\ UNCHANGED <<world, fails>>

----------------------------------------------------------------------------
(* The surroundings *)

\* The manager retires a task of its queue that has expired.
GCUploadObjectQueue(k) ==
  /\ mq' = mq \ {k}
  /\ UNCHANGED <<rq, pieces, row, uq, progress, reported, fails>>

\* The uploader crashes and starts again; its queues are empty.
Crash ==
  /\ fails < MaxFails /\ fails' = fails + 1
  /\ rq' = [r \in Requests |->
              IF rq[r].cons = "none" THEN rq[r]
              ELSE IF rq[r].cons = "done" THEN [rq[r] EXCEPT !.prod = "end"]
              ELSE [NewHandler EXCEPT !.prod = "end", !.cons = "done", !.answer = "lost"]]
  /\ uq' = {}
  /\ UNCHANGED <<pieces, row, mq, progress, reported>>

----------------------------------------------------------------------------
Producer(r) ==
  \/ Recv(r) \/ ReserveResource(r) \/ PreUploadObject(r) \/ CreateUploadObject(r)
  \/ Signal(r) \/ WriteFails(r)

Consumer(r) ==
  \/ Push(r) \/ Read(r) \/ ReadMore(r) \/ PutPiece(r)
  \/ AppendGet(r) \/ AppendDelete(r) \/ AppendSet(r)
  \/ GetObjectIntegrity(r) \/ SignIntegrityHash(r) \/ SaveIntegrity(r)
  \/ ReportTask(r) \/ Return(r) \/ SendAndClose(r)

Next ==
  \/ \E r \in Requests : PutObject(r) \/ ResumablePutObject(r)
  \/ \E r \in Requests : Producer(r)
  \/ \E r \in Requests : Consumer(r)
  \/ \E k \in mq : GCUploadObjectQueue(k)
  \/ Crash

Spec == Init /\ [][Next]_vars

\* Both goroutines are scheduled as long as they can run; clients, failures,
\* timeouts and crashes are not assumed to happen.
FairSpec == Spec /\ \A r \in Requests : WF_vars(Producer(r)) /\ WF_vars(Consumer(r))
----------------------------------------------------------------------------
(* Properties *)

\* An upload that the manager is told has succeeded is stored: from then on the
\* piece store holds, under every segment key, the data that the object was created
\* with.  Parts, retries, failed calls and crashes have left nothing else there.
SuccessIsStored ==
  reported # {} => \A i \in Segments : pieces[i] = "good"

\* An upload that its client is told has failed is not handed to the manager as a
\* success, so it is not replicated and sealed behind the client's back.
ErrorIsNotAccepted ==
  \A r \in Requests : rq[r].answer = "error" => r \notin reported

\* Every request that passed the checks of PreUploadObject is answered in the end, its
\* span is released, and its producer does not stay behind in Write.
AdmittedConcludes ==
  <>[](\A r \in Requests :
         /\ rq[r].cons \in {"none", "wait", "done"}
         /\ rq[r].cons = "done" => rq[r].prod = "end" /\ ~rq[r].span)
=============================================================================
