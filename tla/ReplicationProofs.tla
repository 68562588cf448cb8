------------------------- MODULE ReplicationProofs -------------------------
(***************************************************************************)
(* Proofs about the replication of an object.                              *)
(*                                                                         *)
(* ReplicatePiece, for every number of runs, secondaries, replicas,        *)
(* segments and failures and every list of approvals: the types, and that  *)
(* a secondary named in the seal keeps the pieces and the integrity row of *)
(* its replica.                                                            *)
(*                                                                         *)
(* P2PApproval, which finds the secondaries, for any number of calls,      *)
(* objects and nodes and any size of the channels: the types with the      *)
(* bounds of channels and results, no send on a closed channel, and that a *)
(* call that waits for responses is the one that gets them.                *)
(***************************************************************************)
EXTENDS ReplicatePiece, P2PApproval, FiniteSetTheorems, TLAPS

Stored(k) == PieceKey(k) \in pieces \/ rx[k] = "rowed" \/ k \in lost

\* The seal names another secondary, whose confirmation may delete things.
Discarded(d) == sealed # NULL /\ sealed[d[2]] # d[1]

\* What a run has recorded is in the set S of the answers; its record is well-formed.
RunGood(S, x) ==
  /\ x \in RunState
  /\ x.left \cup x.sent \subseteq Replicas \ x.record
  /\ x.pc \in {"piece", "done", "seal"} => x.at \in [Replicas -> SPs]
  /\ \A r \in x.record : <<x.at[r], r>> \in S
  /\ x.pc = "seal" => x.record = Replicas

RunsGood(S, f) == f \in [Runs -> RunState] /\ \A e \in Runs : RunGood(S, f[e])

\* Handlers, confirmations, the seal and integrity rows come from answers; a secondary
\* that answered for one replica only has the row of that replica.
AnswerInv ==
  /\ dn \subseteq signed
  /\ confirm \subseteq signed
  /\ sealed # NULL => \A r \in Replicas : <<sealed[r], r>> \in signed
  /\ \A s \in SPs : integ[s] # NULL => <<s, integ[s]>> \in signed
  /\ \A d \in signed :
       (\A q \in Replicas : <<d[1], q>> \in signed => q = d[2])
         => integ[d[1]] = d[2] \/ Discarded(d)

\* A checksum row or an answer stands for pieces that are stored.
PieceInv ==
  EC =>
    /\ \A k \in rows : Stored(k) \/ Discarded(<<k[1], k[2]>>)
    /\ \A d \in signed, p \in Segments : Stored(<<d[1], d[2], p>>) \/ Discarded(d)

\* The part of TypeOK that is not about runs.
SecondaryType ==
  /\ rx \in [Keys -> {"none", "queued", "rowed"}]
  /\ dn \subseteq SPs \X Replicas
  /\ rows \subseteq Keys
  /\ pieces \subseteq SPs \X (Replicas \cup {0}) \X Segments
  /\ integ \in [SPs -> Replicas \cup {NULL}]
  /\ confirm \subseteq SPs \X Replicas
  /\ sealed \in [Replicas -> SPs] \cup {NULL}
  /\ fails \in 0..MaxFails
  /\ lost \subseteq Keys
  /\ signed \subseteq SPs \X Replicas

\* The inductive invariant.
IInv == SecondaryType /\ RunsGood(signed, run) /\ AnswerInv /\ PieceInv

----------------------------------------------------------------------------
(* Runs *)

LEMMA NewGood == \A S : RunGood(S, NewRun) /\ RunGood(S, EndRun)
<1>1. 0 \in 0..NSegment /\ << >> \in Seq(SPs)
  BY ReplicateAssumption
<1>2. [r \in Replicas |-> NULL] \in [Replicas -> SPs \cup {NULL}]
  BY Zenon
<1>3. NewRun \in RunState
  BY <1>1, <1>2, Zenon DEF NewRun, RunState
<1>4. EndRun \in RunState /\ EndRun.pc = "end" /\ EndRun.left = {} /\ EndRun.sent = {}
                          /\ EndRun.record = {}
  BY <1>3, Zenon DEF EndRun, NewRun, RunState
<1> QED
  BY <1>3, <1>4, Zenon DEF NewRun, RunGood

LEMMA DropGood ==
  ASSUME NEW S, NEW x, RunGood(S, x), NEW r
  PROVE  RunGood(S, Drop(x, r))
<1>1. Drop(x, r) \in RunState
  BY Zenon DEF RunGood, RunState, Drop
<1>2. /\ Drop(x, r).left \subseteq x.left /\ Drop(x, r).sent \subseteq x.sent
      /\ Drop(x, r).record = x.record /\ Drop(x, r).at = x.at /\ Drop(x, r).pc = x.pc
  BY Zenon DEF RunGood, RunState, Drop
<1> QED
  BY <1>1, <1>2, Zenon DEF RunGood

LEMMA SetGood ==
  ASSUME NEW S, RunsGood(S, run), NEW e \in Runs, NEW x, RunGood(S, x), Set(e, x)
  PROVE  RunsGood(S, run')
<1>1. x \in RunState
  BY Zenon DEF RunGood
<1> QED
  BY <1>1, Zenon DEF RunsGood, Set

LEMMA MoreAnswers ==
  ASSUME NEW S, NEW T, S \subseteq T
  PROVE  /\ \A x : RunGood(S, x) => RunGood(T, x)
         /\ \A f : RunsGood(S, f) => RunsGood(T, f)
<1>1. \A x : RunGood(S, x) => RunGood(T, x)
  BY Zenon DEF RunGood
<1> QED
  BY <1>1, Zenon DEF RunsGood

LEMMA AskGood ==
  ASSUME NEW S, RunsGood(S, run), NEW e \in Runs, NEW offer \in Offers[e],
         AskReplicatePieceApproval(e, offer)
  PROVE  RunsGood(S, run')
<1>1. offer \in Seq(SPs)
  BY ReplicateAssumption, Zenon
<1>2. RunGood(S, run[e])
  BY Zenon DEF RunsGood
<1>3. RunGood(S, [run[e] EXCEPT !.pc = "reset", !.backup = offer])
  BY <1>1, <1>2, Zenon DEF RunGood, RunState
<1> QED
  BY <1>3, NewGood, SetGood, Zenon DEF AskReplicatePieceApproval

\* The approvals suffice, so that every replica to do gets one of them.
LEMMA AssignedType ==
  ASSUME NEW x \in RunState, NEW todo \in SUBSET Replicas, Cardinality(todo) <= Len(x.backup)
  PROVE  /\ \A r \in todo : Assigned(x, todo)[r] \in SPs
         /\ \A r \in Replicas \ todo : Assigned(x, todo)[r] = x.at[r]
         /\ Assigned(x, todo) \in [Replicas -> SPs \cup {NULL}]
<1>1. IsFiniteSet(Replicas)
  BY FS_Interval, ReplicateAssumption DEF Replicas
<1>2. IsFiniteSet(todo)
  BY <1>1, FS_Subset, Zenon
<1>3. ASSUME NEW r \in todo
      PROVE  x.backup[Cardinality({q \in todo : q <= r})] \in SPs
  <2> DEFINE Q == {q \in todo : q <= r}
  <2>1. r \in Replicas /\ r <= r
    BY DEF Replicas
  <2>2. Q \subseteq todo /\ r \in Q
    BY <2>1, Zenon
  <2>3. IsFiniteSet(Q) /\ Cardinality(Q) <= Cardinality(todo)
    BY <1>2, <2>2, FS_Subset, Zenon
  <2>4. Cardinality(Q) \in Nat /\ Cardinality(Q) # 0 /\ Cardinality(todo) \in Nat
    BY <1>2, <2>2, <2>3, FS_CardinalityType, FS_EmptySet, Zenon
  <2>5. Cardinality(Q) \in 1..Len(x.backup)
    <3>1. x.backup \in Seq(SPs)
      BY Zenon DEF RunState
    <3>2. Len(x.backup) \in Nat
      BY <3>1
    <3> HIDE DEF Q
    <3> QED
      BY <2>3, <2>4, <3>2
  <2> HIDE DEF Q
  <2>6. x.backup \in Seq(SPs)
    BY Zenon DEF RunState
  <2>7. x.backup[Cardinality(Q)] \in SPs
    BY <2>5, <2>6
  <2> QED
    BY <2>7, Zenon DEF Q
<1>4. \A r \in todo : Assigned(x, todo)[r] \in SPs
  BY <1>3, Zenon DEF Assigned
<1>5. \A r \in Replicas \ todo : Assigned(x, todo)[r] = x.at[r]
  BY Zenon DEF Assigned
<1>6. x.at \in [Replicas -> SPs \cup {NULL}]
  BY Zenon DEF RunState
<1>7. Assigned(x, todo) = [r \in Replicas |-> Assigned(x, todo)[r]]
  BY Zenon DEF Assigned
<1> QED
  BY <1>4, <1>5, <1>6, <1>7, Zenon

LEMMA ResetGood ==
  ASSUME NEW S \in SUBSET (SPs \X Replicas), RunsGood(S, run), NEW e \in Runs, resetApprovals(e)
  PROVE  RunsGood(S, run')
<1> DEFINE x == run[e]
           todo == Todo(e)
           n == Cardinality(todo)
           y == [x EXCEPT !.pc = "seal", !.backup = << >>]
           z == [x EXCEPT !.pc = "piece", !.seg = 0, !.at = Assigned(x, todo),
                          !.backup = SubSeq(@, n + 1, Len(@))]
<1>1. RunGood(S, x) /\ x \in RunState
  BY Zenon DEF RunsGood, RunGood
<1>2. todo \subseteq Replicas /\ x.record \subseteq Replicas /\ x.record = Replicas \ todo
  BY <1>1, Zenon DEF Todo, RunState
<1>3. IsFiniteSet(todo) /\ n \in Nat
  <2>1. IsFiniteSet(Replicas)
    BY FS_Interval, ReplicateAssumption DEF Replicas
  <2> HIDE DEF todo
  <2>2. IsFiniteSet(todo)
    BY <1>2, <2>1, FS_Subset, Zenon
  <2> QED
    BY <2>2, FS_CardinalityType, Zenon
<1>4. CASE n = 0
  <2>1. x.record = Replicas
    BY <1>2, <1>3, <1>4, FS_EmptySet, Zenon
  <2>e. << >> \in Seq(SPs)
    OBVIOUS
  <2>2. /\ y \in RunState /\ y.pc = "seal" /\ y.record = x.record /\ y.at = x.at
        /\ y.left = x.left /\ y.sent = x.sent
    BY <1>1, <2>e, Zenon DEF RunState
  <2>3. x.at \in [Replicas -> SPs]
    <3>1. \A r \in Replicas : <<x.at[r], r>> \in S
      BY <1>1, <2>1, Zenon DEF RunGood
    <3>2. \A r \in Replicas : x.at[r] \in SPs
      BY <3>1, Zenon
    <3>3. x.at \in [Replicas -> SPs \cup {NULL}]
      BY <1>1, Zenon DEF RunState
    <3> QED
      BY <3>2, <3>3, Zenon
  <2>4. RunGood(S, y)
    BY <1>1, <2>1, <2>2, <2>3, Zenon DEF RunGood
  <2> QED
    BY <1>4, <2>4, SetGood, Zenon DEF resetApprovals
<1>5. CASE n # 0 /\ Len(x.backup) < n
  BY <1>5, NewGood, SetGood, Zenon DEF resetApprovals
<1>6. CASE n # 0 /\ ~(Len(x.backup) < n)
  <2>1. x.backup \in Seq(SPs) /\ Len(x.backup) \in Nat
    BY <1>1 DEF RunState
  <2>2. n <= Len(x.backup)
    BY <1>3, <1>6, <2>1
  <2>3. /\ \A r \in todo : Assigned(x, todo)[r] \in SPs
        /\ \A r \in x.record : Assigned(x, todo)[r] = x.at[r]
        /\ Assigned(x, todo) \in [Replicas -> SPs \cup {NULL}]
    BY <1>1, <1>2, <2>2, AssignedType
  <2>4. \A r \in x.record : <<x.at[r], r>> \in S /\ x.at[r] \in SPs
    BY <1>1, Zenon DEF RunGood
  <2>5. Assigned(x, todo) \in [Replicas -> SPs]
    BY <1>2, <2>3, <2>4, Zenon
  <2>6. SubSeq(x.backup, n + 1, Len(x.backup)) \in Seq(SPs)
    BY <1>3, <2>1
  <2>7. 0 \in 0..NSegment
    BY ReplicateAssumption
  <2> HIDE DEF todo, n
  <2>8. /\ z \in RunState /\ z.pc = "piece" /\ z.at = Assigned(x, todo)
        /\ z.record = x.record /\ z.left = x.left /\ z.sent = x.sent
    BY <1>1, <2>3, <2>6, <2>7, Zenon DEF RunState
  <2>9. RunGood(S, z)
    BY <1>1, <2>3, <2>4, <2>5, <2>8, Zenon DEF RunGood
  <2> QED
    BY <1>6, <2>9, SetGood, Zenon DEF resetApprovals, todo, n
<1> QED
  BY <1>4, <1>5, <1>6, Zenon

LEMMA GetPieceGood ==
  ASSUME NEW S, RunsGood(S, run), NEW e \in Runs, GetPiece(e)
  PROVE  RunsGood(S, run')
<1> DEFINE x == run[e]
           y == [x EXCEPT !.pc = "done", !.left = Todo(e)]
           z == [x EXCEPT !.seg = @ + 1, !.left = Todo(e)]
<1>1. RunGood(S, x) /\ x \in RunState /\ x.seg \in 0..NSegment /\ x.pc = "piece"
  BY Zenon DEF RunsGood, RunGood, RunState, GetPiece
<1>2. Todo(e) = Replicas \ x.record
  BY Zenon DEF Todo
<1>3. RunGood(S, y)
  BY <1>1, <1>2, Zenon DEF RunGood, RunState
<1>4. ASSUME x.seg # NSegment PROVE RunGood(S, z)
  <2>1. x.seg + 1 \in 0..NSegment
    BY <1>1, <1>4, ReplicateAssumption
  <2> QED
    BY <1>1, <1>2, <2>1, Zenon DEF RunGood, RunState
<1> QED
  BY <1>3, <1>4, NewGood, SetGood, Zenon DEF GetPiece

\* A call has begun: its replica waits for the answer.
LEMMA SendGood ==
  ASSUME NEW S, NEW x, RunGood(S, x), NEW r \in x.left, NEW old \in SUBSET x.sent
  PROVE  RunGood(S, [x EXCEPT !.left = @ \ {r}, !.sent = old \cup {r}])
<1> DEFINE y == [x EXCEPT !.left = @ \ {r}, !.sent = old \cup {r}]
<1>1. x \in RunState /\ x.left \subseteq Replicas /\ x.sent \subseteq Replicas
  BY Zenon DEF RunGood, RunState
<1>2. y \in RunState
  BY <1>1, Zenon DEF RunState
<1>3. /\ y.left \subseteq x.left /\ y.sent \subseteq x.sent \cup x.left
      /\ y.record = x.record /\ y.at = x.at /\ y.pc = x.pc
  BY <1>1, Zenon DEF RunState
<1> QED
  BY <1>2, <1>3, Zenon DEF RunGood

LEMMA ReturnGood ==
  ASSUME NEW S, RunsGood(S, run), NEW k, Return(k)
  PROVE  RunsGood(S, run')
<1>1. \A e \in Runs : RunGood(S, run'[e])
  BY DropGood, Zenon DEF RunsGood, Return
<1>2. \A e \in Runs : run'[e] \in RunState
  BY <1>1, Zenon DEF RunGood
<1> QED
  BY <1>1, <1>2, Zenon DEF RunsGood, Return

LEMMA RecordedGood ==
  ASSUME NEW S \in SUBSET (SPs \X Replicas), RunsGood(S, run), NEW d \in S, Recorded(d)
  PROVE  RunsGood(S, run')
<1>1. ASSUME NEW e \in Runs PROVE RunGood(S, run'[e])
  <2> DEFINE x == run[e]
             y == Drop(x, d[2])
             z == [y EXCEPT !.record = @ \cup {d[2]}]
  <2>x. RunGood(S, x)
    BY Zenon DEF RunsGood
  <2>y. RunGood(S, y)
    BY <2>x, DropGood, Zenon
  <2>1. RunGood(S, x) /\ RunGood(S, y) /\ x \in RunState /\ y \in RunState
    BY <2>x, <2>y, Zenon DEF RunGood
  <2>2. d = <<d[1], d[2]>> /\ d[2] \in Replicas
    OBVIOUS
  <2>3. y.at = x.at /\ y.pc = x.pc /\ d[2] \notin y.left \cup y.sent
    BY <2>1, Zenon DEF Drop, RunState
  <2>4. CASE x.pc = "done" /\ d[2] \in x.sent /\ x.at[d[2]] = d[1]
    <3> HIDE DEF y
    <3>1. z \in RunState
      BY <2>1, <2>2, Zenon DEF RunState
    <3>2. /\ z.left = y.left /\ z.sent = y.sent /\ z.at = y.at /\ z.pc = "done"
          /\ z.record = y.record \cup {d[2]}
      BY <2>1, <2>3, <2>4, Zenon DEF RunState
    <3>3. RunGood(S, z)
      BY <2>1, <2>2, <2>3, <2>4, <3>1, <3>2, Zenon DEF RunGood
    <3> QED
      BY <2>4, <3>3, Zenon DEF Recorded, y
  <2> QED
    BY <2>1, <2>4, Zenon DEF Recorded
<1>2. \A e \in Runs : run'[e] \in RunState
  BY <1>1, Zenon DEF RunGood
<1> QED
  BY <1>1, <1>2, Zenon DEF RunsGood, Recorded

----------------------------------------------------------------------------
(* What the parts of the invariant are preserved by *)

LEMMA FailType ==
  ASSUME fails \in 0..MaxFails, Fail \/ Works
  PROVE  fails' \in 0..MaxFails
  BY ReplicateAssumption DEF Fail, Works

\* Answers are untouched when no answer is given and nothing is sealed or deleted.
LEMMA AnswersKept ==
  ASSUME AnswerInv, UNCHANGED <<integ, sealed, signed>>,
         dn' \subseteq dn, confirm' \subseteq confirm \cup dn
  PROVE  AnswerInv'
<1>1. dn' \subseteq signed' /\ confirm' \subseteq signed'
  BY Zenon DEF AnswerInv
<1> QED
  BY <1>1, Zenon DEF AnswerInv, Discarded

\* Nothing that was stored may go, and a new row needs its piece.
LEMMA PiecesKept ==
  ASSUME PieceInv, UNCHANGED <<sealed, signed>>, rows \subseteq Keys,
         signed \subseteq SPs \X Replicas,
         \A k \in Keys : Stored(k) => Stored(k)',
         \A k \in rows' : k \in rows \/ Stored(k)'
  PROVE  PieceInv'
<1> SUFFICES ASSUME EC
             PROVE  /\ \A k \in rows' : Stored(k)' \/ Discarded(<<k[1], k[2]>>)'
                    /\ \A d \in signed', p \in Segments :
                         Stored(<<d[1], d[2], p>>)' \/ Discarded(d)'
  BY Zenon DEF PieceInv
<1>1. \A d : Discarded(d)' <=> Discarded(d)
  BY Zenon DEF Discarded
<1>2. ASSUME NEW k \in rows' PROVE Stored(k)' \/ Discarded(<<k[1], k[2]>>)'
  BY <1>1, <1>2, Zenon DEF PieceInv
<1>3. ASSUME NEW d \in signed', NEW p \in Segments
      PROVE  Stored(<<d[1], d[2], p>>)' \/ Discarded(d)'
  <2>1. <<d[1], d[2], p>> \in Keys
    BY <1>3, Zenon DEF Keys
  <2> QED
    BY <1>1, <1>3, <2>1, Zenon DEF PieceInv
<1> QED
  BY <1>2, <1>3, Zenon

\* Steps of a run alone.
LEMMA RunOnly ==
  ASSUME IInv, UNCHANGED <<secondary, sealed>>, RunsGood(signed, run'), Fail \/ Works
  PROVE  IInv'
<1>1. SecondaryType'
  BY FailType, Zenon DEF IInv, SecondaryType, secondary
<1>2. AnswerInv'
  BY AnswersKept, Zenon DEF IInv, secondary
<1>3. PieceInv'
  <2>1. \A k : Stored(k)' <=> Stored(k)
    BY Zenon DEF Stored, PieceKey, secondary
  <2> QED
    BY <2>1, PiecesKept, Zenon DEF IInv, SecondaryType, secondary
<1>4. RunsGood(signed, run)'
  BY Zenon DEF secondary
<1> QED
  BY <1>1, <1>2, <1>3, <1>4, Zenon DEF IInv

LEMMA InitHolds == Init => IInv
<1> SUFFICES ASSUME Init PROVE IInv
  BY Zenon
<1>1. SecondaryType
  BY ReplicateAssumption DEF Init, SecondaryType
<1>2. RunsGood(signed, run)
  <2>1. \A e \in Runs : RunGood(signed, run[e]) /\ run[e] \in RunState
    BY NewGood, Zenon DEF Init, RunGood
  <2> QED
    BY <2>1, Zenon DEF Init, RunsGood
<1>3. AnswerInv /\ PieceInv
  BY Zenon DEF Init, AnswerInv, PieceInv
<1> QED
  BY <1>1, <1>2, <1>3, Zenon DEF IInv

----------------------------------------------------------------------------
(* One lemma per kind of step *)

LEMMA RunStepsHold ==
  ASSUME IInv, NEW e \in Runs,
         \/ \E offer \in Offers[e] : AskReplicatePieceApproval(e, offer)
         \/ resetApprovals(e)
         \/ GetPiece(e)
         \/ \E r \in Replicas : PieceBroken(e, r) \/ DoneBroken(e, r)
         \/ ExecutorCrash(e)
  PROVE  IInv'
<1>1. /\ RunsGood(signed, run) /\ RunGood(signed, run[e])
      /\ signed \in SUBSET (SPs \X Replicas)
  BY Zenon DEF IInv, RunsGood, SecondaryType
<1>2. ASSUME NEW offer \in Offers[e], AskReplicatePieceApproval(e, offer) PROVE IInv'
  BY <1>1, <1>2, AskGood, RunOnly, Zenon DEF AskReplicatePieceApproval, Works
<1>3. ASSUME resetApprovals(e) PROVE IInv'
  BY <1>1, <1>3, ResetGood, RunOnly, Zenon DEF resetApprovals, Works
<1>4. ASSUME GetPiece(e) PROVE IInv'
  BY <1>1, <1>4, GetPieceGood, RunOnly, Zenon DEF GetPiece
<1>5. ASSUME NEW r \in Replicas, PieceBroken(e, r) \/ DoneBroken(e, r) PROVE IInv'
  <2>1. RunGood(signed, Drop(run[e], r)) /\ Set(e, Drop(run[e], r))
    BY <1>1, <1>5, DropGood, Zenon DEF PieceBroken, DoneBroken
  <2>2. RunsGood(signed, run')
    BY <1>1, <2>1, SetGood, Zenon
  <2> QED
    BY <1>5, <2>2, RunOnly, Zenon DEF PieceBroken, DoneBroken
<1>6. ASSUME ExecutorCrash(e) PROVE IInv'
  <2>1. RunsGood(signed, run')
    BY <1>1, <1>6, NewGood, SetGood, Zenon DEF ExecutorCrash
  <2> QED
    BY <1>6, <2>1, RunOnly, Zenon DEF ExecutorCrash
<1> QED
  BY <1>2, <1>3, <1>4, <1>5, <1>6, Zenon

LEMMA ReplicateHolds ==
  ASSUME IInv, NEW e \in Runs, NEW r \in Replicas, ReplicatePieceToSecondary(e, r)
  PROVE  IInv'
<1>1. /\ RunsGood(signed, run) /\ RunGood(signed, run[e]) /\ r \in run[e].left
      /\ run[e].sent \in SUBSET run[e].sent
  BY Zenon DEF IInv, RunsGood, ReplicatePieceToSecondary
<1>2. /\ RunGood(signed, Drop(run[e], r))
      /\ RunGood(signed, [run[e] EXCEPT !.left = @ \ {r}, !.sent = @ \cup {r}])
  <2>1. RunGood(signed, Drop(run[e], r))
    BY <1>1, DropGood, Zenon
  <2>2. RunGood(signed, [run[e] EXCEPT !.left = @ \ {r}, !.sent = run[e].sent \cup {r}])
    BY <1>1, SendGood, Zenon
  <2> QED
    BY <2>1, <2>2, Zenon
<1>3. RunsGood(signed, run')
  BY <1>1, <1>2, SetGood, Zenon DEF ReplicatePieceToSecondary
<1>4. /\ rx' \in [Keys -> {"none", "queued", "rowed"}]
      /\ \A k \in Keys : rx[k] = "rowed" => rx'[k] = "rowed"
  BY Zenon DEF IInv, SecondaryType, ReplicatePieceToSecondary
<1>5. SecondaryType'
  BY <1>4, FailType, Zenon DEF IInv, SecondaryType, ReplicatePieceToSecondary
<1>6. AnswerInv'
  BY AnswersKept, Zenon DEF IInv, ReplicatePieceToSecondary
<1>7. PieceInv'
  <2>1. \A k \in Keys : Stored(k) => Stored(k)'
    BY <1>4, Zenon DEF Stored, PieceKey, ReplicatePieceToSecondary
  <2> QED
    BY <2>1, PiecesKept, Zenon DEF IInv, SecondaryType, ReplicatePieceToSecondary
<1>8. RunsGood(signed, run)'
  BY <1>3, Zenon DEF ReplicatePieceToSecondary
<1> QED
  BY <1>5, <1>6, <1>7, <1>8, Zenon DEF IInv

LEMMA ChecksumHolds ==
  ASSUME IInv, NEW k \in Keys, SetReplicatePieceChecksum(k)
  PROVE  IInv'
<1>1. RunsGood(signed, run')
  BY ReturnGood, Zenon DEF IInv, SetReplicatePieceChecksum
<1>2. /\ rx' \in [Keys -> {"none", "queued", "rowed"}]
      /\ \A j \in Keys : rx[j] = "rowed" => rx'[j] = "rowed"
      /\ \A j \in rows' : j \in rows \/ (j \in Keys /\ rx'[j] = "rowed")
  BY Zenon DEF IInv, SecondaryType, SetReplicatePieceChecksum, Return
<1>3. SecondaryType'
  BY <1>2, FailType, Zenon DEF IInv, SecondaryType, SetReplicatePieceChecksum
<1>4. AnswerInv'
  BY AnswersKept, Zenon DEF IInv, SetReplicatePieceChecksum
<1>5. PieceInv'
  <2>1. /\ \A j \in Keys : Stored(j) => Stored(j)'
        /\ \A j \in rows' : j \in rows \/ Stored(j)'
    BY <1>2, Zenon DEF Stored, PieceKey, SetReplicatePieceChecksum
  <2> QED
    BY <2>1, PiecesKept, Zenon DEF IInv, SecondaryType, SetReplicatePieceChecksum
<1>6. RunsGood(signed, run)'
  BY <1>1, Zenon DEF SetReplicatePieceChecksum
<1> QED
  BY <1>3, <1>4, <1>5, <1>6, Zenon DEF IInv

LEMMA PutPieceHolds ==
  ASSUME IInv, NEW k \in Keys, PutPiece(k)
  PROVE  IInv'
<1>1. RunsGood(signed, run')
  BY ReturnGood, Zenon DEF IInv, PutPiece
<1>2. /\ rx' \in [Keys -> {"none", "queued", "rowed"}]
      /\ \A j \in Keys : j # k => rx'[j] = rx[j]
  BY Zenon DEF IInv, SecondaryType, PutPiece, Return
<1>3. PieceKey(k) \in SPs \X (Replicas \cup {0}) \X Segments
  BY Zenon DEF Keys, PieceKey
<1>4. SecondaryType'
  BY <1>2, <1>3, FailType, Zenon DEF IInv, SecondaryType, PutPiece
<1>5. AnswerInv'
  BY AnswersKept, Zenon DEF IInv, PutPiece
<1>6. PieceInv'
  <2>1. Stored(k)'
    BY Zenon DEF Stored, PieceKey, PutPiece
  <2>2. \A j \in Keys : Stored(j) => Stored(j)'
    BY <1>2, <2>1, Zenon DEF Stored, PieceKey, PutPiece
  <2> QED
    BY <2>2, PiecesKept, Zenon DEF IInv, SecondaryType, PutPiece
<1>7. RunsGood(signed, run)'
  BY <1>1, Zenon DEF PutPiece
<1> QED
  BY <1>4, <1>5, <1>6, <1>7, Zenon DEF IInv

LEMMA DoneReturnsHolds ==
  ASSUME IInv, NEW d \in SPs \X Replicas, DoneReturns(d)
  PROVE  IInv'
<1>1. d \in signed /\ signed \in SUBSET (SPs \X Replicas)
  BY Zenon DEF IInv, AnswerInv, SecondaryType, DoneReturns
<1>2. RunsGood(signed, run')
  BY <1>1, RecordedGood, Zenon DEF IInv, DoneReturns
<1>3. rows' \subseteq rows /\ dn' \subseteq dn /\ confirm' \subseteq confirm \cup dn
  BY Zenon DEF DoneReturns
<1>4. SecondaryType'
  BY <1>3, FailType, Zenon DEF IInv, SecondaryType, DoneReturns
<1>5. AnswerInv'
  BY <1>3, AnswersKept, Zenon DEF IInv, DoneReturns
<1>6. PieceInv'
  <2>1. \A j : Stored(j)' <=> Stored(j)
    BY Zenon DEF Stored, PieceKey, DoneReturns
  <2> QED
    BY <1>3, <2>1, PiecesKept, Zenon DEF IInv, SecondaryType, DoneReturns
<1>7. RunsGood(signed, run)'
  BY <1>2, Zenon DEF DoneReturns
<1> QED
  BY <1>4, <1>5, <1>6, <1>7, Zenon DEF IInv

\* A secondary gives an answer: every piece has its row, and the integrity row is
\* written unless there is one already.
LEMMA AnswerGiven ==
  ASSUME IInv, NEW d \in SPs \X Replicas, AllRows(d), SetObjectIntegrity(d),
         dn' = dn \cup {d}, signed' = signed \cup {d},
         UNCHANGED <<rx, rows, pieces, confirm, lost, sealed>>
  PROVE  AnswerInv' /\ PieceInv'
<1>1. d = <<d[1], d[2]>> /\ d[1] \in SPs /\ d[2] \in Replicas
  OBVIOUS
<1>2. \A j : (Discarded(j)' <=> Discarded(j)) /\ (Stored(j)' <=> Stored(j))
  BY Zenon DEF Discarded, Stored, PieceKey
<1>3. /\ \A s \in SPs : s # d[1] => integ'[s] = integ[s]
      /\ integ[d[1]] # NULL => integ'[d[1]] = integ[d[1]]
      /\ integ[d[1]] = NULL => integ'[d[1]] = d[2]
  BY <1>1, Zenon DEF IInv, SecondaryType, SetObjectIntegrity
<1>4. \A s \in SPs : integ'[s] # NULL => <<s, integ'[s]>> \in signed'
  BY <1>1, <1>3, Zenon DEF IInv, AnswerInv
<1>5. ASSUME NEW c \in signed', \A q \in Replicas : <<c[1], q>> \in signed' => q = c[2]
      PROVE  integ'[c[1]] = c[2] \/ Discarded(c)
  <2>1. c[1] \in SPs /\ c[2] \in Replicas /\ c = <<c[1], c[2]>>
    BY <1>5 DEF IInv, SecondaryType
  <2>2. CASE c[1] = d[1]
    <3>1. c = d
      BY <1>1, <1>5, <2>1, <2>2, Zenon
    <3>2. integ[d[1]] # NULL => integ[d[1]] = d[2]
      <4>1. integ[d[1]] # NULL => integ[d[1]] \in Replicas /\ <<d[1], integ[d[1]]>> \in signed
        BY <1>1, Zenon DEF IInv, AnswerInv, SecondaryType
      <4> QED
        BY <1>5, <3>1, <4>1, Zenon
    <3> QED
      BY <1>3, <3>1, <3>2, Zenon
  <2>3. CASE c[1] # d[1]
    <3>1. c \in signed /\ \A q \in Replicas : <<c[1], q>> \in signed => q = c[2]
      BY <1>5, <2>3, Zenon
    <3>2. integ[c[1]] = c[2] \/ Discarded(c)
      BY <3>1, Zenon DEF IInv, AnswerInv
    <3> QED
      BY <1>3, <2>1, <2>3, <3>2, Zenon
  <2> QED
    BY <2>2, <2>3, Zenon
<1>6. AnswerInv'
  <2>1. \A c \in signed' :
          (\A q \in Replicas : <<c[1], q>> \in signed' => q = c[2])
            => integ'[c[1]] = c[2] \/ Discarded(c)'
    BY <1>2, <1>5, Zenon
  <2>2. dn' \subseteq signed' /\ confirm' \subseteq signed'
    BY Zenon DEF IInv, AnswerInv
  <2>3. sealed' # NULL => \A r \in Replicas : <<sealed'[r], r>> \in signed'
    BY Zenon DEF IInv, AnswerInv
  <2> QED
    BY <1>4, <2>1, <2>2, <2>3, Zenon DEF AnswerInv
<1>7. PieceInv'
  <2> SUFFICES ASSUME EC
               PROVE  /\ \A k \in rows' : Stored(k)' \/ Discarded(<<k[1], k[2]>>)'
                      /\ \A c \in signed', p \in Segments :
                           Stored(<<c[1], c[2], p>>)' \/ Discarded(c)'
    BY Zenon DEF PieceInv
  <2>1. \A k \in rows : Stored(k) \/ Discarded(<<k[1], k[2]>>)
    BY Zenon DEF IInv, PieceInv
  <2>2. ASSUME NEW c \in signed', NEW p \in Segments
        PROVE  Stored(<<c[1], c[2], p>>) \/ Discarded(c)
    <3>1. CASE c \in signed
      BY <2>2, <3>1, Zenon DEF IInv, PieceInv
    <3>2. CASE c = d
      <4>1. <<d[1], d[2], p>> \in rows
        BY <2>2, Zenon DEF AllRows
      <4> QED
        BY <1>1, <2>1, <3>2, <4>1, Zenon
    <3> QED
      BY <2>2, <3>1, <3>2, Zenon
  <2> QED
    BY <1>2, <2>1, <2>2, Zenon
<1> QED
  BY <1>6, <1>7, Zenon

LEMMA DoneHolds ==
  ASSUME IInv, NEW e \in Runs, NEW r \in Replicas, doneReplicatePiece(e, r)
  PROVE  IInv'
<1> DEFINE d == <<run[e].at[r], r>>
           ok == d \notin dn /\ AllRows(d)
           x == [run[e] EXCEPT !.left = @ \ {r}, !.sent = {r}]
<1>1. /\ RunsGood(signed, run) /\ RunGood(signed, run[e]) /\ r \in run[e].left
      /\ run[e].pc = "done" /\ run[e].sent = {}
  BY Zenon DEF IInv, RunsGood, doneReplicatePiece
<1>2. d \in SPs \X Replicas
  BY <1>1, Zenon DEF RunGood
<1>3. CASE /\ Works /\ ok /\ SetObjectIntegrity(d)
           /\ dn' = dn \cup {d} /\ signed' = signed \cup {d} /\ Set(e, x)
  <2>1. RunGood(signed, x)
    <3>1. RunGood(signed, [run[e] EXCEPT !.left = @ \ {r}, !.sent = {} \cup {r}])
      BY <1>1, SendGood, Zenon
    <3> QED
      BY <3>1, Zenon
  <2>2. RunsGood(signed', run')
    BY <1>1, <1>3, <2>1, MoreAnswers, SetGood
  <2>3. AnswerInv' /\ PieceInv'
    <3> HIDE DEF d
    <3> QED
      BY <1>2, <1>3, AnswerGiven, Zenon DEF doneReplicatePiece
  <2>4. integ' \in [SPs -> Replicas \cup {NULL}]
    BY <1>2, <1>3, Zenon DEF IInv, SecondaryType, SetObjectIntegrity
  <2>5. SecondaryType'
    <3> HIDE DEF d
    <3> QED
      BY <1>2, <1>3, <2>4, FailType, Zenon DEF IInv, SecondaryType, doneReplicatePiece
  <2> QED
    BY <2>2, <2>3, <2>5, Zenon DEF IInv
<1>4. CASE /\ (Works /\ ~ok) \/ Fail
           /\ Set(e, Drop(run[e], r)) /\ UNCHANGED <<dn, integ, signed>>
  <2>1. RunsGood(signed, run')
    BY <1>1, <1>4, DropGood, SetGood, Zenon
  <2>2. UNCHANGED <<secondary, sealed>>
    BY <1>4, Zenon DEF doneReplicatePiece, secondary
  <2> QED
    BY <1>4, <2>1, <2>2, RunOnly, Zenon
<1> QED
  BY <1>3, <1>4, Zenon DEF doneReplicatePiece

LEMMA SealHolds ==
  ASSUME IInv, NEW e \in Runs, SealObject(e)
  PROVE  IInv'
<1>1. RunsGood(signed, run) /\ RunGood(signed, run[e]) /\ run[e].pc = "seal"
  BY Zenon DEF IInv, RunsGood, SealObject
<1>2. /\ run[e].at \in [Replicas -> SPs]
      /\ \A r \in Replicas : <<run[e].at[r], r>> \in signed
  BY <1>1, Zenon DEF RunGood
<1>3. RunsGood(signed, run')
  BY <1>1, NewGood, SetGood, Zenon DEF SealObject
<1>4. SecondaryType'
  BY <1>2, Zenon DEF IInv, SecondaryType, SealObject, secondary
<1>5. \A d : Discarded(d) => Discarded(d)'
  BY Zenon DEF Discarded, SealObject
<1>6. AnswerInv'
  <2>1. sealed' # NULL => \A r \in Replicas : <<sealed'[r], r>> \in signed'
    BY <1>2, Zenon DEF IInv, AnswerInv, SealObject, secondary
  <2> QED
    BY <1>5, <2>1, Zenon DEF IInv, AnswerInv, SealObject, secondary
<1>7. PieceInv'
  <2>1. \A k : Stored(k)' <=> Stored(k)
    BY Zenon DEF Stored, PieceKey, SealObject, secondary
  <2> QED
    BY <1>5, <2>1, Zenon DEF IInv, PieceInv, SealObject, secondary
<1>8. RunsGood(signed, run)'
  BY <1>3, Zenon DEF SealObject, secondary
<1> QED
  BY <1>4, <1>6, <1>7, <1>8, Zenon DEF IInv

LEMMA DroppedHolds ==
  ASSUME IInv, NEW d \in SPs \X Replicas, ConfirmDropped(d)
  PROVE  IInv'
<1>1. SecondaryType'
  BY Zenon DEF IInv, SecondaryType, ConfirmDropped
<1>2. AnswerInv'
  BY AnswersKept, Zenon DEF IInv, ConfirmDropped
<1>3. PieceInv'
  <2>1. \A k : Stored(k)' <=> Stored(k)
    BY Zenon DEF Stored, PieceKey, ConfirmDropped
  <2> QED
    BY <2>1, PiecesKept, Zenon DEF IInv, SecondaryType, ConfirmDropped
<1>4. RunsGood(signed, run)'
  BY Zenon DEF IInv, ConfirmDropped
<1> QED
  BY <1>1, <1>2, <1>3, <1>4, Zenon DEF IInv

\* Only a mismatch deletes, and what it deletes is discarded: the row belongs to a
\* secondary that answered for this replica, the piece is of this replica.
LEMMA ConfirmHolds ==
  ASSUME IInv, NEW d \in SPs \X Replicas, ConfirmSealed(d)
  PROVE  IInv'
<1>1. d = <<d[1], d[2]>> /\ d[1] \in SPs /\ d[2] \in Replicas /\ d \in signed /\ sealed # NULL
  BY DEF IInv, AnswerInv, ConfirmSealed
<1>2. /\ confirm' \subseteq confirm
      /\ integ' = integ \/ (Mismatch(d) /\ integ' = [integ EXCEPT ![d[1]] = NULL])
      /\ \/ pieces' = pieces
         \/ Mismatch(d) /\ pieces' = pieces \ {PieceKey(<<d[1], d[2], 1>>)}
      /\ UNCHANGED <<run, rx, dn, rows, sealed, lost, signed>>
      /\ Fail \/ Works
  BY Zenon DEF ConfirmSealed
<1>3. Mismatch(d) => Discarded(d)
  BY <1>1, Zenon DEF Mismatch, Discarded
<1>4. \A c : Discarded(c)' <=> Discarded(c)
  BY <1>2, Zenon DEF Discarded
<1>5. SecondaryType'
  <2>1. integ' \in [SPs -> Replicas \cup {NULL}]
    BY <1>2, Zenon DEF IInv, SecondaryType
  <2> QED
    BY <1>2, <2>1, FailType, Zenon DEF IInv, SecondaryType
<1>6. AnswerInv'
  <2>1. \A s \in SPs : integ'[s] = integ[s] \/ (s = d[1] /\ integ'[s] = NULL /\ Mismatch(d))
    BY <1>2, Zenon DEF IInv, SecondaryType
  <2>2. \A s \in SPs : integ'[s] # NULL => <<s, integ'[s]>> \in signed'
    BY <1>2, <2>1, Zenon DEF IInv, AnswerInv
  <2>3. ASSUME NEW c \in signed, \A q \in Replicas : <<c[1], q>> \in signed => q = c[2]
        PROVE  integ'[c[1]] = c[2] \/ Discarded(c)
    <3>1. c[1] \in SPs /\ c = <<c[1], c[2]>>
      BY <2>3 DEF IInv, SecondaryType
    <3>2. integ[c[1]] = c[2] \/ Discarded(c)
      BY <2>3, Zenon DEF IInv, AnswerInv
    <3>3. CASE c[1] = d[1] /\ Mismatch(d)
      <4>1. c = d
        BY <1>1, <2>3, <3>1, <3>3, Zenon
      <4> QED
        BY <1>3, <3>3, <4>1, Zenon
    <3>4. CASE ~(c[1] = d[1] /\ Mismatch(d))
      BY <2>1, <3>1, <3>2, <3>4, Zenon
    <3> QED
      BY <3>3, <3>4, Zenon
  <2>4. dn' \subseteq signed' /\ confirm' \subseteq signed'
    BY <1>2, Zenon DEF IInv, AnswerInv
  <2>5. sealed' # NULL => \A r \in Replicas : <<sealed'[r], r>> \in signed'
    BY <1>2, Zenon DEF IInv, AnswerInv
  <2>6. \A c \in signed' :
          (\A q \in Replicas : <<c[1], q>> \in signed' => q = c[2])
            => integ'[c[1]] = c[2] \/ Discarded(c)'
    BY <1>2, <1>4, <2>3, Zenon
  <2> QED
    BY <2>2, <2>4, <2>5, <2>6, Zenon DEF AnswerInv
<1>7. PieceInv'
  <2> SUFFICES ASSUME EC
               PROVE  /\ \A k \in rows' : Stored(k)' \/ Discarded(<<k[1], k[2]>>)'
                      /\ \A c \in signed', p \in Segments :
                           Stored(<<c[1], c[2], p>>)' \/ Discarded(c)'
    BY Zenon DEF PieceInv
  <2>1. ASSUME NEW k \in Keys, Stored(k)
        PROVE  Stored(k)' \/ Discarded(<<k[1], k[2]>>)
    <3>1. PieceKey(k) = <<k[1], k[2], k[3]>> /\ PieceKey(<<d[1], d[2], 1>>) = <<d[1], d[2], 1>>
      BY Zenon DEF PieceKey
    <3>2. CASE PieceKey(k) \in pieces
      <4>1. \/ PieceKey(k) \in pieces'
            \/ Mismatch(d) /\ PieceKey(k) = PieceKey(<<d[1], d[2], 1>>)
        BY <1>2, <3>2, Zenon
      <4>2. PieceKey(k)' = PieceKey(k)
        BY Zenon DEF PieceKey
      <4>3. CASE PieceKey(k) \in pieces'
        BY <4>2, <4>3, Zenon DEF Stored
      <4>4. CASE Mismatch(d) /\ PieceKey(k) = PieceKey(<<d[1], d[2], 1>>)
        <5>1. k[1] = d[1] /\ k[2] = d[2]
          BY <3>1, <4>4
        <5> QED
          BY <1>1, <1>3, <4>4, <5>1, Zenon
      <4> QED
        BY <4>1, <4>3, <4>4, Zenon
    <3>3. CASE PieceKey(k) \notin pieces
      BY <1>2, <2>1, <3>3, Zenon DEF Stored
    <3> QED
      BY <3>2, <3>3, Zenon
  <2>2. \A k \in rows : Stored(k)' \/ Discarded(<<k[1], k[2]>>)
    BY <2>1, Zenon DEF IInv, PieceInv, SecondaryType
  <2>3. ASSUME NEW c \in signed, NEW p \in Segments
        PROVE  Stored(<<c[1], c[2], p>>)' \/ Discarded(c)
    <3>1. <<c[1], c[2], p>> \in Keys /\ c = <<c[1], c[2]>>
      BY <2>3 DEF IInv, SecondaryType, Keys
    <3>2. Stored(<<c[1], c[2], p>>) \/ Discarded(c)
      BY <2>3, Zenon DEF IInv, PieceInv
    <3>3. Stored(<<c[1], c[2], p>>) => Stored(<<c[1], c[2], p>>)' \/ Discarded(<<c[1], c[2]>>)
      BY <2>1, <3>1, Zenon
    <3> QED
      BY <3>1, <3>2, <3>3, Zenon
  <2> QED
    BY <1>2, <1>4, <2>2, <2>3, Zenon
<1>8. RunsGood(signed, run)'
  BY <1>2, Zenon DEF IInv
<1> QED
  BY <1>5, <1>6, <1>7, <1>8, Zenon DEF IInv

LEMMA ReceiverCrashHolds ==
  ASSUME IInv, NEW s \in SPs, ReceiverCrash(s)
  PROVE  IInv'
<1>1. RunsGood(signed, run')
  <2>1. ASSUME NEW e \in Runs PROVE RunGood(signed, run'[e])
    <3> DEFINE x == run[e]
               y == [x EXCEPT !.sent = {r \in @ : x.at[r] # s}]
    <3>1. RunGood(signed, x) /\ x \in RunState
      BY Zenon DEF IInv, RunsGood, RunGood
    <3>2. /\ y \in RunState /\ y.sent \subseteq x.sent /\ y.left = x.left
          /\ y.record = x.record /\ y.at = x.at /\ y.pc = x.pc
      BY <3>1, Zenon DEF RunState
    <3>3. RunGood(signed, y)
      BY <3>1, <3>2, Zenon DEF RunGood
    <3> QED
      BY <3>3, Zenon DEF ReceiverCrash
  <2>2. \A e \in Runs : run'[e] \in RunState
    BY <2>1, Zenon DEF RunGood
  <2> QED
    BY <2>1, <2>2, Zenon DEF RunsGood, ReceiverCrash
<1>2. /\ rx' \in [Keys -> {"none", "queued", "rowed"}]
      /\ \A k \in Keys : rx[k] = "rowed" => rx'[k] = "rowed" \/ k \in lost'
      /\ dn' \subseteq dn /\ lost \subseteq lost' /\ lost' \subseteq Keys
  BY Zenon DEF IInv, SecondaryType, ReceiverCrash
<1>3. SecondaryType'
  BY <1>2, FailType, Zenon DEF IInv, SecondaryType, ReceiverCrash
<1>4. AnswerInv'
  BY <1>2, AnswersKept, Zenon DEF IInv, ReceiverCrash
<1>5. PieceInv'
  <2>1. \A k \in Keys : Stored(k) => Stored(k)'
    BY <1>2, Zenon DEF Stored, PieceKey, ReceiverCrash
  <2> QED
    BY <2>1, PiecesKept, Zenon DEF IInv, SecondaryType, ReceiverCrash
<1>6. RunsGood(signed, run)'
  BY <1>1, Zenon DEF ReceiverCrash
<1> QED
  BY <1>3, <1>4, <1>5, <1>6, Zenon DEF IInv

LEMMA NextHolds == IInv /\ [Next]_vars => IInv'
<1> SUFFICES ASSUME IInv, [Next]_vars PROVE IInv'
  BY Zenon
<1>1. ASSUME NEW e \in Runs, RunStep(e) PROVE IInv'
  BY <1>1, RunStepsHold, ReplicateHolds, DoneHolds, SealHolds, Zenon DEF RunStep
<1>2. ASSUME HandlerStep PROVE IInv'
  BY <1>2, ChecksumHolds, PutPieceHolds, DoneReturnsHolds, Zenon DEF HandlerStep
<1>3. ASSUME ConfirmStep PROVE IInv'
  BY <1>3, DroppedHolds, ConfirmHolds, Zenon DEF ConfirmStep
<1>4. ASSUME NEW e \in Runs, NEW r \in Replicas, PieceBroken(e, r) \/ DoneBroken(e, r)
      PROVE  IInv'
  BY <1>4, RunStepsHold, Zenon
<1>5. ASSUME NEW e \in Runs, ExecutorCrash(e) PROVE IInv'
  BY <1>5, RunStepsHold, Zenon
<1>6. ASSUME NEW s \in SPs, ReceiverCrash(s) PROVE IInv'
  BY <1>6, ReceiverCrashHolds, Zenon
<1>7. ASSUME UNCHANGED vars PROVE IInv'
  <2>1. UNCHANGED <<secondary, sealed>> /\ RunsGood(signed, run') /\ Works
    BY <1>7, Zenon DEF vars, secondary, Works, IInv
  <2> QED
    BY <2>1, RunOnly, Zenon
<1> QED
  BY <1>1, <1>2, <1>3, <1>4, <1>5, <1>6, <1>7, Zenon DEF Next

LEMMA Invariance == Spec => []IInv
  BY InitHolds, NextHolds, PTL DEF Spec

----------------------------------------------------------------------------
(* The results *)

\* Every variable has its type, a run waits only for replicas it has not recorded, and
\* resetApprovals gives every replica a secondary before pieces are sent.
THEOREM TypeCorrect == Spec => []TypeOK
<1>1. IInv => TypeOK
  BY Zenon DEF IInv, SecondaryType, RunsGood, RunGood, TypeOK, Todo
<1> QED
  BY <1>1, Invariance, PTL

\* A secondary named in the seal of an EC object holds every piece of its replica,
\* unless the receiver's PutPiece failed or is going on after the checksum was recorded:
\* GetAllReplicatePieceChecksum guards the answer, and the deletion after a mismatch
\* spares the sealed replica.
THEOREM SealedPiecesAreStored == Spec => []SealedIsStored
<1>1. IInv => SealedIsStored
  <2> SUFFICES ASSUME IInv, EC, sealed # NULL, NEW r \in Replicas, NEW p \in Segments
               PROVE  Stored(<<sealed[r], r, p>>)
    BY Zenon DEF SealedIsStored, Stored
  <2>1. <<sealed[r], r>> \in signed
    BY Zenon DEF IInv, AnswerInv
  <2>2. ~Discarded(<<sealed[r], r>>)
    BY Zenon DEF Discarded
  <2> QED
    BY <2>1, <2>2, Zenon DEF IInv, PieceInv
<1> QED
  BY <1>1, Invariance, PTL

\* A secondary named in the seal that has answered for one replica only keeps the
\* integrity row of this replica: SetObjectIntegrity comes before the answer, and only
\* the confirmation of a replica sealed with another secondary deletes the row.
THEOREM SealedIntegrityIsKept == Spec => []IntegrityKept
<1>1. IInv => IntegrityKept
  <2> SUFFICES ASSUME IInv, sealed # NULL, NEW r \in Replicas,
                      \A q \in Replicas : <<sealed[r], q>> \in signed => q = r
               PROVE  integ[sealed[r]] = r
    BY Zenon DEF IntegrityKept
  <2> DEFINE d == <<sealed[r], r>>
  <2>1. d \in signed
    BY Zenon DEF IInv, AnswerInv
  <2>2. ~Discarded(d)
    BY Zenon DEF Discarded
  <2>3. (\A q \in Replicas : <<d[1], q>> \in signed => q = d[2])
          => integ[d[1]] = d[2] \/ Discarded(d)
    BY <2>1, Zenon DEF IInv, AnswerInv
  <2> QED
    BY <2>2, <2>3, Zenon
<1> QED
  BY <1>1, Invariance, PTL

----------------------------------------------------------------------------
(* The approvals. *)

CallType == [pc : Labels, todo : SUBSET Nodes, accept : Seq(Approvals), ok : BOOLEAN]

\* The parts of P2PTypeOK.  A call that still reads, or will, can accept one more approval.
CallsOK ==
  /\ rq \in [Requests -> CallType]
  /\ \A r \in Requests : Len(rq[r].accept) <= MaxAccept
  /\ \A r \in Requests :
       rq[r].pc \notin {"cancel", "pop", "done"} => Len(rq[r].accept) < MaxAccept
ChannelsOK ==
  /\ response \in [Objects -> Requests \cup {Nil}]
  /\ buf \in [Requests -> Seq(Approvals)]
  /\ \A r \in Requests : Len(buf[r]) <= ChannelSize
  /\ closed \subseteq Requests
  /\ mux \in [m : Approvals, c : Requests] \cup {Nil}
NetOK ==
  /\ asked \subseteq Requests \X Nodes
  /\ resp \subseteq Approvals /\ ready \subseteq Approvals
  /\ height \in 0 .. MaxHeight
QueueOK == queue \subseteq Objects

TypeInv == CallsOK /\ ChannelsOK /\ NetOK /\ QueueOK

\* The calls that wait and the map agree; only calls that have left it have a closed
\* channel, and a handler that waits has found its channel in the map.
RegisterInv ==
  /\ \A r \in Requests : Collecting(r) => response[Obj[r]] = r
  /\ \A o \in Objects :
       response[o] # Nil => Obj[response[o]] = o /\ Collecting(response[o])
  /\ \A r \in closed : rq[r].pc \in {"pop", "done"}
  /\ mux # Nil => response[Obj[mux.c]] = mux.c

P2PInv == TypeInv /\ RegisterInv

LEMMA ObjOf == \A r \in Requests : Obj[r] \in Objects
BY Zenon DEF Objects

LEMMA TypeParts == TypeInv => P2PTypeOK
BY Zenon DEF TypeInv, CallsOK, ChannelsOK, NetOK, QueueOK, CallType, P2PTypeOK

LEMMA P2PInitHolds == P2PInit => P2PInv
<1> SUFFICES ASSUME P2PInit PROVE P2PInv
  BY Zenon
<1>1. NewCall \in CallType /\ NewCall.pc = "idle" /\ NewCall.accept = << >>
  BY DEF NewCall, CallType, Labels
<1>2. rq \in [Requests -> CallType] /\ buf \in [Requests -> Seq(Approvals)]
  BY <1>1 DEF P2PInit
<1>3. Len(<< >>) = 0 /\ 0 < MaxAccept /\ 0 <= MaxAccept /\ 0 <= ChannelSize
        /\ 0 \in 0 .. MaxHeight
  BY ApprovalAssumption
<1>4. \A r \in Requests : rq[r].pc = "idle" /\ rq[r].accept = << >> /\ buf[r] = << >>
  BY <1>1, Zenon DEF P2PInit
<1>5. CallsOK
  BY <1>2, <1>3, <1>4, Zenon DEF CallsOK
<1>6. ChannelsOK
  BY <1>2, <1>3, <1>4, Zenon DEF P2PInit, ChannelsOK
<1>7. NetOK /\ QueueOK
  BY <1>3, Zenon DEF P2PInit, NetOK, QueueOK
<1>8. RegisterInv
  BY <1>4, Zenon DEF P2PInit, RegisterInv, Collecting
<1> QED
  BY <1>5, <1>6, <1>7, <1>8, Zenon DEF P2PInv, TypeInv

----------------------------------------------------------------------------
(* Calls *)

Late == {"cancel", "pop", "done"}

\* What it takes to change the record of one call.
LEMMA CallChange ==
  ASSUME CallsOK, NEW r \in Requests, NEW x \in CallType,
         rq' = [rq EXCEPT ![r] = x],
         Len(x.accept) <= MaxAccept,
         x.pc \notin Late => Len(x.accept) < MaxAccept
  PROVE  /\ CallsOK'
         /\ rq'[r] = x
         /\ \A y \in Requests \ {r} : rq'[y] = rq[y]
<1>1. rq' \in [Requests -> CallType] /\ rq'[r] = x
        /\ \A y \in Requests \ {r} : rq'[y] = rq[y]
  BY Zenon DEF CallsOK
<1> QED
  BY <1>1, Zenon DEF CallsOK, Late

LEMMA GotoCall ==
  ASSUME CallsOK, NEW r \in Requests, NEW pc \in Labels, Goto(r, pc),
         rq[r].pc \notin Late \/ pc \in Late
  PROVE  /\ CallsOK'
         /\ rq'[r].pc = pc
         /\ \A y \in Requests \ {r} : rq'[y] = rq[y]
<1> DEFINE x == [rq[r] EXCEPT !.pc = pc]
<1>1. rq[r] \in CallType /\ rq' = [rq EXCEPT ![r] = x]
  BY Zenon DEF CallsOK, Goto
<1>2. x \in CallType /\ x.pc = pc /\ x.accept = rq[r].accept
  BY <1>1, Zenon DEF CallType
<1>3. Len(x.accept) <= MaxAccept /\ (x.pc \notin Late => Len(x.accept) < MaxAccept)
  BY <1>2, Zenon DEF CallsOK, Late
<1> HIDE DEF x
<1> QED
  BY <1>1, <1>2, <1>3, CallChange, Zenon

\* A call that moves on without registering or leaving keeps the agreement.
LEMMA MoveRegister ==
  ASSUME TypeInv, RegisterInv, NEW r \in Requests,
         \A y \in Requests \ {r} : rq'[y].pc = rq[y].pc,
         UNCHANGED <<response, closed, mux>>,
         Collecting(r)' <=> Collecting(r),
         rq[r].pc \in {"pop", "done"} => rq'[r].pc \in {"pop", "done"}
  PROVE  RegisterInv'
<1>1. \A y \in Requests : Collecting(y)' <=> Collecting(y)
  BY Zenon DEF Collecting
<1>2. closed \subseteq Requests /\ \A o \in Objects : response[o] \in Requests \cup {Nil}
  BY Zenon DEF TypeInv, ChannelsOK
<1>3. \A y \in Requests : rq[y].pc \in {"pop", "done"} => rq'[y].pc \in {"pop", "done"}
  BY Zenon
<1> HIDE DEF Collecting
<1>4. \A y \in Requests : Collecting(y)' => response'[Obj[y]] = y
  BY <1>1, Zenon DEF RegisterInv
<1>5. \A o \in Objects :
        response'[o] # Nil => Obj[response'[o]] = o /\ Collecting(response[o])'
  BY <1>1, <1>2, Zenon DEF RegisterInv
<1>6. \A y \in closed' : rq'[y].pc \in {"pop", "done"}
  BY <1>2, <1>3, Zenon DEF RegisterInv
<1>7. mux' # Nil => response'[Obj[mux'.c]] = mux'.c
  BY Zenon DEF RegisterInv
<1>8. \A o \in Objects : response'[o] = response[o]
  BY Zenon
<1> QED
  BY <1>4, <1>5, <1>6, <1>7, <1>8, Zenon DEF RegisterInv, Collecting

LEMMA HangKeeps ==
  ASSUME P2PInv, NEW r \in Requests, hangApprovalRequest(r)
  PROVE  P2PInv'
<1> USE DEF P2PInv, TypeInv
<1>1. Obj[r] \in Objects
  BY ObjOf, Zenon
<1>2. CASE response[Obj[r]] # Nil
  <2>1. Goto(r, "pop") /\ rq[r].pc = "hang" /\ "pop" \in Labels /\ UNCHANGED response
    BY <1>2, Zenon DEF hangApprovalRequest, At, Labels
  <2>2. CallsOK' /\ rq'[r].pc = "pop" /\ \A y \in Requests \ {r} : rq'[y] = rq[y]
    BY <2>1, GotoCall, Zenon DEF Late
  <2>3. RegisterInv'
    BY <2>1, <2>2, MoveRegister, Zenon DEF Collecting, hangApprovalRequest
  <2> QED
    BY <2>1, <2>2, <2>3, Zenon DEF hangApprovalRequest, ChannelsOK, NetOK, QueueOK, net
<1>3. CASE response[Obj[r]] = Nil
  <2>1. /\ Goto(r, "sign") /\ rq[r].pc = "hang" /\ "sign" \in Labels
        /\ response' = [response EXCEPT ![Obj[r]] = r]
    BY <1>3, Zenon DEF hangApprovalRequest, At, Labels
  <2>2. CallsOK' /\ rq'[r].pc = "sign" /\ \A y \in Requests \ {r} : rq'[y] = rq[y]
    BY <2>1, GotoCall, Zenon DEF Late
  <2>3. ChannelsOK'
    BY <2>1, Zenon DEF hangApprovalRequest, ChannelsOK
  <2>4. /\ response'[Obj[r]] = r
        /\ \A o \in Objects \ {Obj[r]} : response'[o] = response[o]
    BY <1>1, <2>1, Zenon DEF ChannelsOK
  <2>5. \A y \in Requests : Collecting(y) => Obj[y] # Obj[r]
    BY <1>3, ApprovalAssumption DEF RegisterInv
  <2>6. \A y \in Requests \ {r} : Collecting(y)' <=> Collecting(y)
    BY <2>2, Zenon DEF Collecting
  <2>7. ~Collecting(r) /\ Collecting(r)'
    BY <2>1, <2>2, Zenon DEF Collecting
  <2>8. \A y \in Requests : Collecting(y)' => response'[Obj[y]] = y
    BY <2>4, <2>5, <2>6, ObjOf, Zenon DEF RegisterInv
  <2>9. \A o \in Objects : response'[o] # Nil =>
          Obj[response'[o]] = o /\ response'[o] \in Requests
            /\ rq'[response'[o]].pc \in {"sign", "send", "collect", "cancel"}
    <3> SUFFICES ASSUME NEW o \in Objects, response'[o] # Nil
                 PROVE  Obj[response'[o]] = o /\ response'[o] \in Requests
                          /\ rq'[response'[o]].pc \in {"sign", "send", "collect", "cancel"}
      BY Zenon
    <3>1. CASE o = Obj[r]
      BY <2>2, <2>4, <3>1, Zenon
    <3>2. CASE o # Obj[r]
      <4>1. response'[o] = response[o] /\ response[o] \in Requests
        BY <2>4, <3>2, Zenon DEF ChannelsOK
      <4>2. Obj[response[o]] = o /\ Collecting(response[o])
        BY <4>1, Zenon DEF RegisterInv
      <4>3. response[o] # r
        BY <2>7, <4>2, Zenon
      <4> QED BY <2>2, <4>1, <4>2, <4>3, Zenon DEF Collecting
    <3> QED BY <3>1, <3>2, Zenon
  <2>10. \A y \in closed' : rq'[y].pc \in {"pop", "done"}
    BY <2>1, <2>2, Zenon DEF RegisterInv, ChannelsOK, hangApprovalRequest
  <2>11. mux' = Nil
    BY Zenon DEF hangApprovalRequest
  <2>12. RegisterInv'
    BY <2>8, <2>9, <2>10, <2>11, Zenon DEF RegisterInv, Collecting
  <2> QED
    BY <2>2, <2>3, <2>12, Zenon DEF hangApprovalRequest, NetOK, QueueOK, net
<1> QED BY <1>2, <1>3, Zenon

LEMMA CancelKeeps ==
  ASSUME P2PInv, NEW r \in Requests, cancelApprovalRequest(r)
  PROVE  P2PInv'
<1> USE DEF P2PInv, TypeInv
<1>1. Obj[r] \in Objects
  BY ObjOf, Zenon
<1>2. Collecting(r) /\ response[Obj[r]] = r /\ r # Nil
  BY ApprovalAssumption, Zenon DEF cancelApprovalRequest, At, Collecting, RegisterInv
<1>3. /\ Goto(r, "pop") /\ rq[r].pc = "cancel" /\ "pop" \in Labels
      /\ response' = [response EXCEPT ![Obj[r]] = Nil]
      /\ closed' = closed \cup {r}
      /\ UNCHANGED <<queue, buf, mux, net, sps, height>> /\ mux = Nil
  BY <1>2, Zenon DEF cancelApprovalRequest, At, Labels
<1>4. CallsOK' /\ rq'[r].pc = "pop" /\ \A y \in Requests \ {r} : rq'[y] = rq[y]
  BY <1>3, GotoCall, Zenon DEF Late
<1>5. ChannelsOK'
  BY <1>3, Zenon DEF ChannelsOK
<1>6. /\ response'[Obj[r]] = Nil
      /\ \A o \in Objects \ {Obj[r]} : response'[o] = response[o]
  BY <1>1, <1>3, Zenon DEF ChannelsOK
<1>7. \A y \in Requests \ {r} : Collecting(y) => Obj[y] # Obj[r]
  BY <1>2, Zenon DEF RegisterInv
<1>8. ~Collecting(r)' /\ \A y \in Requests \ {r} : Collecting(y)' <=> Collecting(y)
  BY <1>4, Zenon DEF Collecting
<1>9. \A y \in Requests : Collecting(y)' => response'[Obj[y]] = y
  BY <1>6, <1>7, <1>8, ObjOf, Zenon DEF RegisterInv
<1>10. \A o \in Objects : response'[o] # Nil =>
         Obj[response'[o]] = o
           /\ rq'[response'[o]].pc \in {"sign", "send", "collect", "cancel"}
  <2> SUFFICES ASSUME NEW o \in Objects, response'[o] # Nil
               PROVE  Obj[response'[o]] = o
                        /\ rq'[response'[o]].pc \in {"sign", "send", "collect", "cancel"}
    BY Zenon
  <2>1. response'[o] = response[o] /\ o # Obj[r] /\ response[o] \in Requests
    BY <1>6, Zenon DEF ChannelsOK
  <2>2. Obj[response[o]] = o /\ Collecting(response[o])
    BY <2>1, Zenon DEF RegisterInv
  <2>3. response[o] # r
    BY <2>1, <2>2, Zenon
  <2> QED BY <1>4, <2>1, <2>2, <2>3, Zenon DEF Collecting
<1>11. \A y \in closed' : rq'[y].pc \in {"pop", "done"}
  BY <1>3, <1>4, Zenon DEF RegisterInv, ChannelsOK
<1>12. RegisterInv'
  BY <1>3, <1>9, <1>10, <1>11, Zenon DEF RegisterInv, Collecting
<1> QED
  BY <1>3, <1>4, <1>5, <1>12, Zenon DEF NetOK, QueueOK, net

\* The other steps of a call.
LEMMA MovesKeep ==
  ASSUME P2PInv, NEW r \in Requests,
         \/ Has(r) \/ Push(r) \/ SignReplicatePieceApproval(r)
         \/ broadcast(r) \/ Timeout(r) \/ PopByKey(r)
  PROVE  P2PInv'
<1> USE DEF P2PInv, TypeInv
<1>1. Obj[r] \in Objects /\ rq[r] \in CallType
  BY ObjOf, Zenon DEF CallsOK
<1>2. UNCHANGED protocol
  BY Zenon DEF Has, Push, SignReplicatePieceApproval, broadcast, Timeout, PopByKey
<1>3. ChannelsOK' /\ UNCHANGED <<response, closed, mux>>
  BY <1>2, Zenon DEF protocol, ChannelsOK
<1>4. NetOK'
  BY <1>1 DEF Has, Push, SignReplicatePieceApproval, broadcast, Timeout, PopByKey, net, NetOK,
     CallType
<1>5. QueueOK'
  BY <1>1, Zenon DEF Has, Push, SignReplicatePieceApproval, broadcast, Timeout, PopByKey, QueueOK
<1> SUFFICES CallsOK' /\ RegisterInv'
  BY <1>3, <1>4, <1>5, Zenon
<1>6. ASSUME NEW pc \in Labels, Goto(r, pc),
             rq[r].pc \notin Late \/ pc \in {"pop", "done"},
             Collecting(r) <=> pc \in {"sign", "send", "collect", "cancel"}
      PROVE  CallsOK' /\ RegisterInv'
  <2>1. CallsOK' /\ rq'[r].pc = pc /\ \A y \in Requests \ {r} : rq'[y] = rq[y]
    BY <1>6, GotoCall, Zenon DEF Late
  <2>2. RegisterInv'
    BY <1>3, <1>6, <2>1, MoveRegister, Zenon DEF Collecting, Late
  <2> QED BY <2>1, <2>2, Zenon
<1>7. ASSUME NEW x \in CallType, rq' = [rq EXCEPT ![r] = x],
             x.accept = rq[r].accept, x.pc \notin Late => rq[r].pc \notin Late,
             rq[r].pc \in {"pop", "done"} => x.pc \in {"pop", "done"},
             Collecting(r) <=> x.pc \in {"sign", "send", "collect", "cancel"}
      PROVE  CallsOK' /\ RegisterInv'
  <2>1. Len(x.accept) <= MaxAccept /\ (x.pc \notin Late => Len(x.accept) < MaxAccept)
    BY <1>7, Zenon DEF CallsOK, Late
  <2>2. CallsOK' /\ rq'[r] = x /\ \A y \in Requests \ {r} : rq'[y] = rq[y]
    BY <1>7, <2>1, CallChange, Zenon
  <2>3. RegisterInv'
    BY <1>3, <1>7, <2>2, MoveRegister, Zenon DEF Collecting
  <2> QED BY <2>2, <2>3, Zenon
<1>8. CASE Has(r)
  BY <1>6, <1>8, Zenon DEF Has, At, Labels, Late, Collecting
<1>9. CASE Push(r)
  BY <1>6, <1>9, Zenon DEF Push, At, Labels, Late, Collecting
<1>10. CASE SignReplicatePieceApproval(r)
  <2>1. CASE SignFails(r)
    BY <1>6, <1>10, <2>1, Zenon DEF SignReplicatePieceApproval, SignFails, At, Labels, Late, Collecting
  <2>2. CASE rq' = [rq EXCEPT ![r].pc = "send", ![r].todo = Nodes, ![r].ok = TRUE]
    <3> DEFINE x == [rq[r] EXCEPT !.pc = "send", !.todo = Nodes, !.ok = TRUE]
    <3>1. x \in CallType /\ x.accept = rq[r].accept /\ x.pc = "send"
      BY <1>1, Zenon DEF CallType, Labels
    <3>2. rq' = [rq EXCEPT ![r] = x]
      BY <2>2, <1>1, Zenon DEF CallsOK
    <3>3. rq[r].pc = "sign"
      BY <1>10, Zenon DEF SignReplicatePieceApproval, At
    <3> HIDE DEF x
    <3> QED BY <1>7, <3>1, <3>2, <3>3, Zenon DEF Late, Collecting
  <2> QED BY <1>10, <2>1, <2>2, Zenon DEF SignReplicatePieceApproval
<1>11. CASE broadcast(r)
  <2>0. rq[r].pc = "send"
    BY <1>11, Zenon DEF broadcast, At
  <2>1. CASE Goto(r, "collect")
    BY <1>6, <2>0, <2>1, Zenon DEF Labels, Late, Collecting
  <2>2. ASSUME NEW n, rq' = [rq EXCEPT ![r].todo = @ \ {n}] PROVE CallsOK' /\ RegisterInv'
    <3> DEFINE x == [rq[r] EXCEPT !.todo = @ \ {n}]
    <3>1. x \in CallType /\ x.accept = rq[r].accept /\ x.pc = "send"
      BY <1>1, <2>0, Zenon DEF CallType
    <3>2. rq' = [rq EXCEPT ![r] = x]
      BY <2>2, <1>1, Zenon DEF CallsOK
    <3> HIDE DEF x
    <3> QED BY <1>7, <2>0, <3>1, <3>2, Zenon DEF Late, Collecting
  <2> QED BY <1>11, <2>1, <2>2, Zenon DEF broadcast
<1>12. CASE Timeout(r)
  BY <1>6, <1>12, Zenon DEF Timeout, At, Labels, Late, Collecting
<1>13. CASE PopByKey(r)
  <2>1. PICK b \in BOOLEAN : rq' = [rq EXCEPT ![r] = [rq[r] EXCEPT !.pc = "done", !.ok = b]]
    <3>1. rq' = [rq EXCEPT ![r] = [rq[r] EXCEPT !.pc = "done",
                                    !.ok = rq[r].ok /\ Len(rq[r].accept) >= MinAccept]]
      BY <1>13, Zenon DEF PopByKey
    <3>2. (rq[r].ok /\ Len(rq[r].accept) >= MinAccept) \in BOOLEAN
      BY Zenon
    <3> QED BY <3>1, <3>2, Zenon
  <2> DEFINE x == [rq[r] EXCEPT !.pc = "done", !.ok = b]
  <2>2. x \in CallType /\ x.accept = rq[r].accept /\ x.pc = "done"
    BY <1>1, Zenon DEF CallType, Labels
  <2>3. rq' = [rq EXCEPT ![r] = x] /\ rq[r].pc = "pop"
    BY <1>13, <2>1, Zenon DEF PopByKey, At
  <2> HIDE DEF x
  <2> QED BY <1>7, <2>2, <2>3, Zenon DEF Late, Collecting
<1> QED
  BY <1>8, <1>9, <1>10, <1>11, <1>12, <1>13, Zenon

LEMMA ReadKeeps ==
  ASSUME P2PInv, NEW r \in Requests, ReadApproval(r)
  PROVE  P2PInv'
<1> USE DEF P2PInv, TypeInv
<1>1. /\ rq[r] \in CallType /\ rq[r].pc = "collect" /\ Len(rq[r].accept) < MaxAccept
      /\ buf[r] \in Seq(Approvals) /\ buf[r] # << >> /\ Len(buf[r]) <= ChannelSize
      /\ rq[r].accept \in Seq(Approvals)
  BY Zenon DEF ReadApproval, At, CallsOK, ChannelsOK, CallType
<1>2. /\ Head(buf[r]) \in Approvals /\ Tail(buf[r]) \in Seq(Approvals)
      /\ Len(Tail(buf[r])) <= ChannelSize
  BY <1>1, ApprovalAssumption
<1>3. ChannelsOK' /\ UNCHANGED <<response, closed, mux>>
  BY <1>2, Zenon DEF ReadApproval, ChannelsOK
<1>4. NetOK' /\ QueueOK'
  BY Zenon DEF ReadApproval, net, NetOK, QueueOK
<1>5. CASE UNCHANGED rq
  <2>1. CallsOK'
    BY <1>5, Zenon DEF CallsOK
  <2>2. RegisterInv'
    BY <1>3, <1>5, MoveRegister, Zenon DEF Collecting
  <2> QED BY <1>3, <1>4, <2>1, <2>2, Zenon
<1>6. CASE ~UNCHANGED rq
  <2> DEFINE acc == Append(rq[r].accept, Head(buf[r]))
  <2>1. acc \in Seq(Approvals) /\ Len(acc) = Len(rq[r].accept) + 1
    BY <1>1, <1>2
  <2>2. Len(acc) \in Nat /\ Len(acc) <= MaxAccept /\ (~Enough(acc) => Len(acc) < MaxAccept)
    <3>1. Len(rq[r].accept) \in Nat
      BY <1>1
    <3> HIDE DEF acc
    <3>2. Len(acc) \in Nat /\ Len(acc) <= MaxAccept
      BY <1>1, <2>1, <3>1, ApprovalAssumption, SMTT(60)
    <3> QED BY <3>2, ApprovalAssumption DEF Enough
  <2> DEFINE x == [rq[r] EXCEPT !.accept = acc,
                                !.pc = IF Enough(acc) THEN "cancel" ELSE rq[r].pc]
  <2>3. rq' = [rq EXCEPT ![r] = x]
    BY <1>6, Zenon DEF ReadApproval
  <2> HIDE DEF acc
  <2>4. /\ x \in CallType /\ x.accept = acc
        /\ x.pc = IF Enough(acc) THEN "cancel" ELSE "collect"
    BY <1>1, <2>1, Zenon DEF CallType, Labels
  <2> HIDE DEF x
  <2>5. CallsOK' /\ rq'[r] = x /\ \A y \in Requests \ {r} : rq'[y] = rq[y]
    BY <2>2, <2>3, <2>4, CallChange, Zenon DEF Late
  <2>6. RegisterInv'
    BY <1>1, <1>3, <2>4, <2>5, MoveRegister, Zenon DEF Collecting
  <2> QED BY <1>3, <1>4, <2>5, <2>6, Zenon
<1> QED BY <1>5, <1>6, Zenon

----------------------------------------------------------------------------
(* Responses *)

\* Only the mutex and the network change, and whoever takes the mutex has a channel of
\* the map.
LEMMA HandlerRegister ==
  ASSUME RegisterInv, UNCHANGED <<rq, response, closed>>,
         mux' # Nil => response[Obj[mux'.c]] = mux'.c
  PROVE  RegisterInv'
BY Zenon DEF RegisterInv, Collecting

LEMMA NotifyKeeps ==
  ASSUME P2PInv, NEW m \in ready, notifyApprovalResponse(m)
  PROVE  P2PInv'
<1> USE DEF P2PInv, TypeInv
<1> DEFINE c == response[Obj[m.r]]
<1>1. m \in Approvals /\ m.r \in Requests /\ Obj[m.r] \in Objects
  BY ObjOf, Zenon DEF NetOK, Approvals
<1>2. c \in Requests \cup {Nil} /\ (c # Nil => response[Obj[c]] = c)
  BY <1>1, Zenon DEF ChannelsOK, RegisterInv
<1>3. CallsOK' /\ NetOK' /\ QueueOK' /\ UNCHANGED <<rq, response, closed>>
  BY Zenon DEF notifyApprovalResponse, CallsOK, NetOK, QueueOK, protocol, Registered
<1>4. CASE c = Nil
  <2>1. UNCHANGED protocol
    BY <1>4, Zenon DEF notifyApprovalResponse
  <2>2. ChannelsOK' /\ mux' = mux
    BY <2>1, Zenon DEF protocol, ChannelsOK
  <2> QED BY <1>3, <2>2, HandlerRegister, Zenon DEF RegisterInv
<1>5. CASE c # Nil /\ Full(c)
  <2>1. mux' = [m |-> m, c |-> c] /\ UNCHANGED <<response, buf, closed>>
    BY <1>5, Zenon DEF notifyApprovalResponse
  <2>2. mux' \in [m : Approvals, c : Requests] /\ mux'.c = c
    BY <1>1, <1>2, <1>5, <2>1, Zenon
  <2>3. ChannelsOK'
    BY <2>1, <2>2, Zenon DEF ChannelsOK
  <2> QED BY <1>2, <1>3, <1>5, <2>2, <2>3, HandlerRegister, Zenon
<1>6. CASE c # Nil /\ ~Full(c)
  <2>1. buf' = [buf EXCEPT ![c] = Append(buf[c], m)] /\ UNCHANGED <<closed, mux, response>>
    BY <1>6, <1>3, Zenon DEF notifyApprovalResponse
  <2>2. c \in Requests /\ buf[c] \in Seq(Approvals)
    BY <1>2, <1>6, Zenon DEF ChannelsOK
  <2>3. Append(buf[c], m) \in Seq(Approvals) /\ Len(Append(buf[c], m)) <= ChannelSize
    <3>1. Len(buf[c]) < ChannelSize /\ ChannelSize \in Nat
      BY <1>6, <2>2, ApprovalAssumption DEF Full
    <3> HIDE DEF c
    <3> QED BY <1>1, <2>2, <3>1
  <2> HIDE DEF c
  <2>4. ChannelsOK'
    BY <2>1, <2>2, <2>3, Zenon DEF ChannelsOK
  <2> QED BY <1>3, <2>1, <2>4, HandlerRegister, Zenon DEF RegisterInv
<1> QED BY <1>4, <1>5, <1>6, Zenon

LEMMA UnblockKeeps ==
  ASSUME P2PInv, Unblock
  PROVE  P2PInv'
<1> USE DEF P2PInv, TypeInv
<1>1. CallsOK' /\ NetOK' /\ QueueOK' /\ UNCHANGED <<rq, response, closed>> /\ mux' = Nil
  BY Zenon DEF Unblock, CallsOK, NetOK, QueueOK, net
<1>2. mux.m \in Approvals /\ mux.c \in Requests /\ buf[mux.c] \in Seq(Approvals)
  BY Zenon DEF Unblock, ChannelsOK
<1>3. /\ Append(buf[mux.c], mux.m) \in Seq(Approvals)
      /\ Len(Append(buf[mux.c], mux.m)) <= ChannelSize
  BY <1>2, ApprovalAssumption DEF Full, Unblock
<1>4. buf' = [buf EXCEPT ![mux.c] = Append(buf[mux.c], mux.m)]
  BY Zenon DEF Unblock
<1>5. ChannelsOK'
  BY <1>1, <1>2, <1>3, <1>4, Zenon DEF ChannelsOK
<1> QED BY <1>1, <1>5, HandlerRegister, Zenon

\* What happens outside the map of channels.
LEMMA OutsideKeeps ==
  ASSUME P2PInv,
         \/ \E r \in Requests, n \in Nodes : onGetApprovalRequest(r, n)
         \/ \E m \in resp : onGetApprovalResponse(m)
         \/ \E S \in SpLists : UpdateSp(S)
         \/ NewBlock
         \/ UNCHANGED p2pVars
  PROVE  P2PInv'
<1> USE DEF P2PInv, TypeInv
<1>1. UNCHANGED <<queue, rq, response, buf, closed, mux>>
  BY Zenon DEF onGetApprovalRequest, onGetApprovalResponse, UpdateSp, NewBlock, p2pVars, protocol
<1>2. CallsOK' /\ ChannelsOK' /\ QueueOK'
  BY <1>1, Zenon DEF CallsOK, ChannelsOK, QueueOK
<1>3. RegisterInv'
  BY <1>1, HandlerRegister, Zenon DEF RegisterInv
<1>4. ASSUME NEW r \in Requests, NEW n \in Nodes, onGetApprovalRequest(r, n) PROVE NetOK'
  <2>1. height \in Nat /\ height + Expired \in Nat
    <3>1. height \in Nat BY DEF NetOK
    <3>2. Expired \in Nat BY ApprovalAssumption, Zenon
    <3> QED BY <3>1, <3>2
  <2>2. [r |-> r, node |-> n, expired |-> height + Expired] \in Approvals
    BY <2>1, Zenon DEF Approvals
  <2> QED BY <1>4, <2>2, Zenon DEF onGetApprovalRequest, NetOK
<1>5. ASSUME NEW m \in resp, onGetApprovalResponse(m) PROVE NetOK'
  BY <1>5, Zenon DEF onGetApprovalResponse, NetOK
<1>6. ASSUME NEW S \in SpLists, UpdateSp(S) PROVE NetOK'
  BY <1>6, Zenon DEF UpdateSp, NetOK, net
<1>7. ASSUME NewBlock PROVE NetOK'
  BY <1>7, ApprovalAssumption DEF NewBlock, NetOK, net
<1>8. ASSUME UNCHANGED p2pVars PROVE NetOK'
  BY <1>8, Zenon DEF p2pVars, NetOK
<1> QED BY <1>2, <1>3, <1>4, <1>5, <1>6, <1>7, <1>8, Zenon

LEMMA StepKeeps == P2PInv /\ [P2PNext]_p2pVars => P2PInv'
<1> SUFFICES ASSUME P2PInv, [P2PNext]_p2pVars PROVE P2PInv'
  BY Zenon
<1>1. ASSUME NEW r \in Requests, Has(r) \/ CallStep(r) PROVE P2PInv'
  BY <1>1, HangKeeps, CancelKeeps, MovesKeep, ReadKeeps, Zenon DEF CallStep
<1>2. ASSUME NEW m \in ready, notifyApprovalResponse(m) PROVE P2PInv'
  BY <1>2, NotifyKeeps, Zenon
<1> QED
  BY <1>1, <1>2, UnblockKeeps, OutsideKeeps, Zenon DEF P2PNext

LEMMA P2PInvariance == P2PSpec => []P2PInv
BY P2PInitHolds, StepKeeps, PTL DEF P2PSpec

----------------------------------------------------------------------------

\* Every variable has its type, no call accepts more approvals than it asked for and no
\* channel of the protocol holds more than its size.
THEOREM P2PTypeCorrect == P2PSpec => []P2PTypeOK
<1>1. P2PInv => P2PTypeOK
  BY TypeParts, Zenon DEF P2PInv
<1> QED BY <1>1, P2PInvariance, PTL

\* notifyApprovalResponse never sends on a channel that cancelApprovalRequest has closed.
THEOREM ChannelsStayOpen == P2PSpec => []NoSendOnClosed
<1>1. P2PInv => NoSendOnClosed
  <2> SUFFICES ASSUME P2PInv PROVE NoSendOnClosed
    BY Zenon
  <2>1. \A o \in Objects : response[o] \notin closed
    BY ApprovalAssumption DEF P2PInv, TypeInv, ChannelsOK, RegisterInv, Collecting
  <2>2. mux # Nil => mux.c \notin closed
    <3> SUFFICES ASSUME mux # Nil PROVE mux.c \notin closed
      BY Zenon
    <3>1. mux.c \in Requests /\ response[Obj[mux.c]] = mux.c
      BY Zenon DEF P2PInv, TypeInv, ChannelsOK, RegisterInv
    <3> QED BY <2>1, <3>1, ObjOf, Zenon
  <2> QED BY <2>1, <2>2, Zenon DEF NoSendOnClosed
<1> QED BY <1>1, P2PInvariance, PTL

\* While a call of GetSecondaryReplicatePieceApproval waits, its channel is the one in the
\* map: no other call for the object replaces or removes it.
THEOREM WaitersAreRegistered == P2PSpec => []WaiterIsRegistered
<1>1. P2PInv => WaiterIsRegistered
  BY Zenon DEF P2PInv, RegisterInv, WaiterIsRegistered
<1> QED BY <1>1, P2PInvariance, PTL
=============================================================================
