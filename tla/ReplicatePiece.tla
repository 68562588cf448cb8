--------------------------- MODULE ReplicatePiece ---------------------------
(***************************************************************************)
(* Replication of one object to secondary storage providers: the loop of   *)
(* modular/executor/execute_replicate.go over approvals, the handlers of   *)
(* modular/receiver on each secondary, what they keep in their database    *)
(* and piece store, the seal on the chain, and the confirmation of the     *)
(* seal by each secondary, which deletes what it holds needlessly.         *)
(*                                                                         *)
(* A run is one execution of HandleReplicatePieceTask.  The manager may    *)
(* dispatch the task again after a failure or a timeout, so runs follow    *)
(* each other or overlap.  A piece is named by the secondary, the replica  *)
(* and the segment; its data is right whenever it is there, because the    *)
(* receiver compares its checksum with the one in the signed task.         *)
(***************************************************************************)
EXTENDS Integers, Sequences, FiniteSets

CONSTANTS
  Runs,      \* executions of the replicate task of the object
  SPs,       \* secondary storage providers
  NReplica,  \* data chunks and parity chunks
  NSegment,  \* segments of the object
  Offers,    \* lists of approvals the P2P module may return to each run
  EC,        \* the redundancy type of the object is EC, not whole segments
  MaxFails,  \* bound on failing calls and crashes
  NULL

ASSUME ReplicateAssumption ==
  /\ NReplica \in Nat \ {0} /\ NSegment \in Nat \ {0} /\ MaxFails \in Nat
  /\ EC \in BOOLEAN
  /\ Offers \in [Runs -> SUBSET Seq(SPs)] /\ NULL \notin SPs \cup Runs \cup Nat

Replicas == 1..NReplica
Segments == 1..NSegment
Keys == SPs \X Replicas \X Segments

VARIABLES
  run,      \* the executor side of every run
  rx,       \* HandleReceivePieceTask in progress: its stage, per piece
  dn,       \* HandleDoneReceivePieceTask in progress: secondary and replica
  rows,     \* piece_hash tables: checksums of received pieces
  pieces,   \* piece stores of the secondaries
  integ,    \* integrity_meta tables: the replica whose checksums the row holds
  confirm,  \* receive queues of the secondaries' managers
  sealed,   \* secondaries of the object on the chain, NULL before the seal
  fails,    \* failures and crashes so far
  lost,     \* history: pieces whose row was written and whose PutPiece failed
  signed    \* history: replicas a secondary has answered for

vars == <<run, rx, dn, rows, pieces, integ, confirm, sealed, fails, lost, signed>>
secondary == <<rx, dn, rows, pieces, integ, confirm, lost, signed>>

\* Key under which a piece is stored: without the replica for whole segments.
PieceKey(k) == <<k[1], IF EC THEN k[2] ELSE 0, k[3]>>

NewRun == [pc |-> "idle", backup |-> << >>, at |-> [r \in Replicas |-> NULL],
           record |-> {}, seg |-> 0, left |-> {}, sent |-> {}]

Init ==
  /\ run = [e \in Runs |-> NewRun]
  /\ rx = [k \in Keys |-> "none"]
  /\ rows = {} /\ pieces = {} /\ lost = {} /\ signed = {}
  /\ dn = {} /\ confirm = {}
  /\ integ = [s \in SPs |-> NULL]
  /\ sealed = NULL
  /\ fails = 0

\* One more call fails or one more process crashes.
Fail == fails < MaxFails /\ fails' = fails + 1
Works == UNCHANGED fails

----------------------------------------------------------------------------
(* The executor: HandleReplicatePieceTask *)

Set(e, f) == run' = [run EXCEPT ![e] = f]

Todo(e) == Replicas \ run[e].record

\* A run ends with an error, or because its executor crashes.
EndRun == [NewRun EXCEPT !.pc = "end"]

\* AskReplicatePieceApproval: fewer approvals than replicas are an error.
AskReplicatePieceApproval(e, offer) ==
  /\ run[e].pc = "idle"
  /\ Set(e, IF Len(offer) < NReplica THEN EndRun
            ELSE [run[e] EXCEPT !.pc = "reset", !.backup = offer])
  /\ UNCHANGED <<secondary, sealed, fails>>

\* The next approvals go, in order, to the replicas that are not recorded.
Assigned(x, todo) ==
  [r \in Replicas |->
     IF r \in todo THEN x.backup[Cardinality({q \in todo : q <= r})] ELSE x.at[r]]

Waiting(e) == run[e].left \cup run[e].sent # {}

\* At the start, and when all replicas of a round have been asked.
resetApprovals(e) ==
  /\ run[e].pc = "reset" \/ (run[e].pc = "done" /\ ~Waiting(e))
  /\ LET todo == Todo(e)
         n == Cardinality(todo)
     IN Set(e, IF n = 0 THEN [run[e] EXCEPT !.pc = "seal", !.backup = << >>]
               ELSE IF Len(run[e].backup) < n THEN EndRun
               ELSE [run[e] EXCEPT !.pc = "piece", !.seg = 0, !.at = Assigned(run[e], todo),
                                   !.backup = SubSeq(@, n + 1, Len(@))])
  /\ UNCHANGED <<secondary, sealed, fails>>

\* All goroutines of a segment are done: GetPiece of the next one and start of its
\* goroutines, or the end of the segments.
GetPiece(e) ==
  /\ run[e].pc = "piece" /\ ~Waiting(e)
  /\ \/ /\ Works
        /\ Set(e, IF run[e].seg = NSegment
                  THEN [run[e] EXCEPT !.pc = "done", !.left = Todo(e)]
                  ELSE [run[e] EXCEPT !.seg = @ + 1, !.left = Todo(e)])
     \/ Fail /\ run[e].seg < NSegment /\ Set(e, EndRun)
  /\ UNCHANGED <<secondary, sealed>>

Key(e, r) == <<run[e].at[r], r, run[e].seg>>

Drop(x, r) == [x EXCEPT !.left = @ \ {r}, !.sent = @ \ {r}]

\* doReplicatePiece: the piece reaches the receiver, which refuses it when the same
\* piece is in its queue, or the signer, the connection or the gateway fails.  The
\* caller ignores the error.
ReplicatePieceToSecondary(e, r) ==
  /\ run[e].pc = "piece" /\ r \in run[e].left
  /\ \/ /\ Works /\ rx[Key(e, r)] = "none"
        /\ rx' = [rx EXCEPT ![Key(e, r)] = "queued"]
        /\ Set(e, [run[e] EXCEPT !.left = @ \ {r}, !.sent = @ \cup {r}])
     \/ Works /\ rx[Key(e, r)] # "none" /\ Set(e, Drop(run[e], r)) /\ UNCHANGED rx
     \/ Fail /\ Set(e, Drop(run[e], r)) /\ UNCHANGED rx
  /\ UNCHANGED <<dn, rows, pieces, integ, confirm, lost, signed, sealed>>

\* The connection breaks; the handler goes on.
PieceBroken(e, r) ==
  /\ Fail /\ run[e].pc = "piece" /\ r \in run[e].sent
  /\ Set(e, Drop(run[e], r))
  /\ UNCHANGED <<secondary, sealed>>

----------------------------------------------------------------------------
(* A secondary: HandleReceivePieceTask *)

\* Mutant: the goroutine of a piece does not signal its wait group.
BugReturn(k) == rx' = [rx EXCEPT ![k] = "none"] /\ UNCHANGED run

\* The handler ends and answers the run that waits for it, if it has not given up.
Return(k) ==
  /\ rx' = [rx EXCEPT ![k] = "none"]
  /\ run' = [e \in Runs |->
               IF run[e].pc = "piece" /\ k[2] \in run[e].sent /\ Key(e, k[2]) = k
               THEN Drop(run[e], k[2]) ELSE run[e]]

\* SetReplicatePieceChecksum: an existing row is kept.
SetReplicatePieceChecksum(k) ==
  /\ rx[k] = "queued"
  /\ \/ /\ Works /\ rows' = rows \cup {k}
        /\ rx' = [rx EXCEPT ![k] = "rowed"] /\ UNCHANGED run
     \/ Fail /\ Return(k) /\ UNCHANGED rows
  /\ UNCHANGED <<dn, pieces, integ, confirm, sealed, lost, signed>>

\* PutPiece, after the row, and the end of the handler.
PutPiece(k) ==
  /\ rx[k] = "rowed"
  /\ Return(k)
  /\ \/ Works /\ pieces' = pieces \cup {PieceKey(k)} /\ UNCHANGED lost
     \/ Fail /\ lost' = lost \cup {k} /\ UNCHANGED pieces
  /\ UNCHANGED <<dn, rows, integ, confirm, sealed, signed>>

----------------------------------------------------------------------------
(* HandleDoneReceivePieceTask, and doneReplicatePiece that calls it *)

\* Mutant: any checksum row of the replica is enough.
BugAllRows(d) == \E p \in Segments : <<d[1], d[2], p>> \in rows

\* GetAllReplicatePieceChecksum finds a row for every segment.
AllRows(d) == \A p \in Segments : <<d[1], d[2], p>> \in rows

\* Mutant: the row is updated, so that nothing is written when there is none.
BugSetObjectIntegrity(d) == integ' = [integ EXCEPT ![d[1]] = IF @ = NULL THEN @ ELSE d[2]]

\* SetObjectIntegrity: the row is keyed by the object, and an existing one is kept.
SetObjectIntegrity(d) == integ' = [integ EXCEPT ![d[1]] = IF @ = NULL THEN d[2] ELSE @]

\* The replicas are asked one after another.  The call fails when the same task is in
\* the receiver's queue or a checksum is missing, or when the connection, the signer or
\* the database fails; otherwise the integrity hash is signed and recorded.
doneReplicatePiece(e, r) ==
  /\ run[e].pc = "done" /\ run[e].sent = {}
  /\ r \in run[e].left /\ \A q \in run[e].left : r <= q
  /\ LET d == <<run[e].at[r], r>>
         ok == d \notin dn /\ AllRows(d)
     IN \/ /\ Works /\ ok
           /\ SetObjectIntegrity(d)
           /\ dn' = dn \cup {d} /\ signed' = signed \cup {d}
           /\ Set(e, [run[e] EXCEPT !.left = @ \ {r}, !.sent = {r}])
        \/ /\ (Works /\ ~ok) \/ Fail
           /\ Set(e, Drop(run[e], r)) /\ UNCHANGED <<dn, integ, signed>>
  /\ UNCHANGED <<rx, rows, pieces, confirm, lost, sealed>>

\* The run that waits for the handler of d, if it has not given up, records the replica.
Recorded(d) ==
  run' = [e \in Runs |->
            IF run[e].pc = "done" /\ d[2] \in run[e].sent /\ run[e].at[d[2]] = d[1]
            THEN [Drop(run[e], d[2]) EXCEPT !.record = @ \cup {d[2]}] ELSE run[e]]

\* DeleteAllReplicatePieceChecksum deletes the rows in order and stops at an error.
FirstRows(d, n) == {<<d[1], d[2], p>> : p \in 1..n}

\* The checksum rows are deleted, the manager gets the report and queues the task for
\* confirmation, and the caller is answered; errors of the first two are ignored.
DoneReturns(d) ==
  /\ d \in dn /\ dn' = dn \ {d}
  /\ Recorded(d)
  /\ \/ Works /\ rows' = rows \ FirstRows(d, NSegment) /\ confirm' = confirm \cup {d}
     \/ /\ Fail /\ confirm' = confirm \cup {d}
        /\ \E n \in 0..(NSegment - 1) : rows' = rows \ FirstRows(d, n)
     \/ Fail /\ rows' = rows \ FirstRows(d, NSegment) /\ UNCHANGED confirm
  /\ UNCHANGED <<rx, pieces, integ, sealed, lost, signed>>

\* The connection breaks; the handler goes on.
DoneBroken(e, r) ==
  /\ Fail /\ run[e].pc = "done" /\ r \in run[e].sent
  /\ Set(e, Drop(run[e], r))
  /\ UNCHANGED <<secondary, sealed>>

----------------------------------------------------------------------------
(* The seal and its confirmation *)

\* sealObject, at once or by a later seal task of the manager: the chain accepts the
\* first message.
SealObject(e) ==
  /\ run[e].pc = "seal"
  /\ sealed' = IF sealed = NULL THEN run[e].at ELSE sealed
  /\ Set(e, EndRun)
  /\ UNCHANGED <<secondary, fails>>

\* The confirmation runs out of retries, is retired from the queue, or is lost when the
\* manager restarts.
ConfirmDropped(d) ==
  /\ d \in confirm /\ confirm' = confirm \ {d}
  /\ UNCHANGED <<run, rx, dn, rows, pieces, integ, sealed, fails, lost, signed>>

\* The secondary on the chain for this replica is another one.
Mismatch(d) == sealed[d[2]] # d[1]

\* HandleReceivePieceTask of the executor: a secondary that is not the one on the chain
\* for this replica deletes the integrity row of the object and the pieces; it counts
\* these with the maximal payload size in the place of the segment size, which gives one.
\* Errors are ignored, and the task stays when its report is lost.
ConfirmSealed(d) ==
  /\ d \in confirm /\ sealed # NULL
  /\ \E failed \in {"nothing", "report", "integrity", "piece"} :
       /\ IF failed = "nothing" THEN Works ELSE Fail
       /\ confirm' = IF failed = "report" THEN confirm ELSE confirm \ {d}
       /\ integ' = IF Mismatch(d) /\ failed # "integrity"
                   THEN [integ EXCEPT ![d[1]] = NULL] ELSE integ
       /\ pieces' = IF Mismatch(d) /\ failed # "piece"
                    THEN pieces \ {PieceKey(<<d[1], d[2], 1>>)} ELSE pieces
  /\ UNCHANGED <<run, rx, dn, rows, sealed, lost, signed>>

----------------------------------------------------------------------------
(* Crashes *)

\* An executor crashes, or its seal fails for good; handlers go on.
ExecutorCrash(e) ==
  /\ Fail /\ run[e].pc \notin {"idle", "end"}
  /\ Set(e, EndRun)
  /\ UNCHANGED <<secondary, sealed>>

\* A receiver crashes in the middle of its handlers; their callers get errors.
ReceiverCrash(s) ==
  /\ Fail
  /\ rx' = [k \in Keys |-> IF k[1] = s THEN "none" ELSE rx[k]]
  /\ dn' = {d \in dn : d[1] # s}
  /\ lost' = lost \cup {k \in Keys : k[1] = s /\ rx[k] = "rowed"}
  /\ run' = [e \in Runs |->
       [run[e] EXCEPT !.sent = {r \in @ : run[e].at[r] # s}]]
  /\ UNCHANGED <<rows, pieces, integ, confirm, sealed, signed>>
----------------------------------------------------------------------------
RunStep(e) ==
  \/ \E offer \in Offers[e] : AskReplicatePieceApproval(e, offer)
  \/ resetApprovals(e)
  \/ GetPiece(e)
  \/ \E r \in Replicas : ReplicatePieceToSecondary(e, r)
  \/ \E r \in Replicas : doneReplicatePiece(e, r)
  \/ SealObject(e)

HandlerStep ==
  \/ \E k \in Keys : SetReplicatePieceChecksum(k) \/ PutPiece(k)
  \/ \E d \in SPs \X Replicas : DoneReturns(d)

ConfirmStep ==
  \E d \in SPs \X Replicas : ConfirmDropped(d) \/ ConfirmSealed(d)

Next ==
  \/ \E e \in Runs : RunStep(e)
  \/ HandlerStep
  \/ ConfirmStep
  \/ \E e \in Runs, r \in Replicas : PieceBroken(e, r) \/ DoneBroken(e, r)
  \/ \E e \in Runs : ExecutorCrash(e)
  \/ \E s \in SPs : ReceiverCrash(s)

Spec == Init /\ [][Next]_vars

\* The goroutines of executors and receivers run; nothing has to break or to crash.
Fairness == (\A e \in Runs : WF_vars(RunStep(e))) /\ WF_vars(HandlerStep)

FairSpec == Spec /\ Fairness

----------------------------------------------------------------------------
(* Properties *)

RunState ==
  [pc : {"idle", "reset", "piece", "done", "seal", "end"}, backup : Seq(SPs),
   at : [Replicas -> SPs \cup {NULL}], record : SUBSET Replicas, seg : 0..NSegment,
   left : SUBSET Replicas, sent : SUBSET Replicas]

\* Every variable has its type; a run waits only for replicas it has not recorded, and
\* every replica has a secondary while pieces are sent (handleReplicatePiece).
TypeOK ==
  /\ run \in [Runs -> RunState]
  /\ \A e \in Runs :
       /\ run[e].left \cup run[e].sent \subseteq Todo(e)
       /\ run[e].pc \in {"piece", "done", "seal"} => run[e].at \in [Replicas -> SPs]
  /\ rx \in [Keys -> {"none", "queued", "rowed"}]
  /\ dn \subseteq SPs \X Replicas
  /\ rows \subseteq Keys
  /\ pieces \subseteq SPs \X (Replicas \cup {0}) \X Segments
  /\ integ \in [SPs -> Replicas \cup {NULL}]
  /\ confirm \subseteq SPs \X Replicas
  /\ sealed \in [Replicas -> SPs] \cup {NULL}
  /\ fails \in 0..MaxFails
  /\ lost \subseteq Keys
  /\ signed \subseteq SPs \X Replicas

\* A secondary named in the seal of an EC object holds every piece of its replica,
\* except those whose PutPiece failed after their checksum was recorded, or is still
\* in progress (receive_task.go: SetReplicatePieceChecksum before PutPiece, the check
\* of all checksums, and the deletion in execute_task.go, which must spare it).
SealedIsStored ==
  EC /\ sealed # NULL =>
    \A r \in Replicas, p \in Segments :
      LET k == <<sealed[r], r, p>>
      IN PieceKey(k) \in pieces \/ rx[k] = "rowed" \/ k \in lost

\* A secondary named in the seal keeps an integrity row of the replica it is named
\* for, provided that it has never answered for another replica of the object
\* (SetObjectIntegrity before the answer, DeleteObjectIntegrity of a mismatch only).
IntegrityKept ==
  sealed # NULL =>
    \A r \in Replicas :
      (\A q \in Replicas : <<sealed[r], q>> \in signed => q = r) => integ[sealed[r]] = r

\* Every run ends, whatever fails: each round uses up approvals, every goroutine
\* signals its wait group and every handler leaves its queue.
RunsConclude ==
  <>[](/\ \A e \in Runs : run[e].pc = "end"
       /\ \A k \in Keys : rx[k] = "none"
       /\ dn = {})
=============================================================================
