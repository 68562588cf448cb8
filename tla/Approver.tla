------------------------------ MODULE Approver ------------------------------
(***************************************************************************)
(* The approver behind getApprovalHandler: an ask for the approval of a    *)
(* new bucket or object looks for the approval of an earlier ask in a      *)
(* queue of tasks, or else makes one out of the last known block height    *)
(* and has it signed.  Every call on a queue is one critical section       *)
(* (TQueueOps); the handler makes several.                                 *)
(***************************************************************************)
EXTENDS Auth, TQueueOps

CONSTANTS
  ApprovalTimeoutHeight,   \* the number of blocks an approval is good for
  ApprovalExpiredTimeout,  \* DefaultApprovalExpiredTimeout, in block intervals
  Lag,                     \* how far the known height may be behind
  Cap                      \* the capacity of a queue

\* The defaults are 100 blocks, and 40 seconds with a block every 2 seconds.
ASSUME ApproverAssumption ==
  /\ {ApprovalTimeoutHeight, ApprovalExpiredTimeout, Lag, StartTime, MaxTime} \subseteq Nat
  /\ ApprovalExpiredTimeout + Lag < ApprovalTimeoutHeight

VARIABLES
  height,    \* currentBlockHeight; 0 until the chain has been asked
  queue,     \* bucketQueue and objectQueue
  ask        \* per request: its task, the task popped, when the approver had it

approverVars == <<height, queue, ask>>
vars == <<authVars, approverVars>>

Whats == {"bucket", "object"}

\* An ask is for the approval of a bucket or of an object.
ASSUME LoadsAssumption ==
  \A load \in Loads, i \in Requests : load[i].kind = "approve" => load[i].what \in Whats

\* A task: when it was made, and of its approval the height it expires, what was
\* signed (0: nothing), and whether the height was unknown when it was set.
NoTask == [made |-> 0, exp |-> 0, sig |-> 0, blind |-> FALSE]

NoAsk == [task |-> NoTask, shadow |-> NoTask, at |-> 0]

ApproverInit ==
  /\ height = 0
  /\ queue = [w \in Whats |-> << >>]
  /\ ask = [i \in Requests |-> NoAsk]

Key(i) == rq[i].name
Queue(i) == queue[rq[i].what]

\* Mutant: the age of a task in the queue is not looked at.
BugGCApprovalQueue(w) == {}

\* The tasks GCApprovalQueue gives up: by their age alone, not by their height.
GCApprovalQueue(w) ==
  {k \in DOMAIN queue[w] : queue[w][k].made + ApprovalExpiredTimeout < now}

SetQueue(i, q) == queue' = [queue EXCEPT ![rq[i].what] = q]
Goto(i, pc) == rq' = [rq EXCEPT ![i].pc = pc]

\* The ask ends with an error, or with its approval.
RefuseAsk(i) == Goto(i, "refused") /\ ask' = [ask EXCEPT ![i] = NoAsk]
AnswerAsk(i) == Goto(i, "answered") /\ ask' = [ask EXCEPT ![i].shadow = NoTask]

------------------------------------------------------------------------------
\* The gateway makes the task of a verified ask, or of one whose signature is not
\* for VerifyAuthentication (NeedVerifyAuthentication: only V1 signatures are) ...
InitApprovalTask(i) ==
  /\ \/ rq[i].pc = "reserve"
     \/ rq[i].kind = "approve" /\ rq[i].pc = "idle" /\ rq[i].op = "none"
  /\ ask' = [ask EXCEPT ![i].task.made = now]
  /\ held' = [held EXCEPT ![i] = {}]
  /\ Goto(i, "rpc")
  /\ UNCHANGED queue

\* ... and calls the approver, which reserves resources or is overloaded.
GfSpAskApproval(i) ==
  /\ rq[i].pc = "rpc"
  /\ (Goto(i, "has") /\ UNCHANGED ask) \/ RefuseAsk(i)
  /\ UNCHANGED <<held, queue>>

\* Is there an approval for the same name?
Has(i) ==
  LET gc == GCApprovalQueue(rq[i].what)
      new == IF rq[i].what = "bucket" THEN "count" ELSE "height"
  IN  /\ rq[i].pc = "has"
      /\ SetQueue(i, AfterHas(Queue(i), gc, Key(i)))
      /\ Goto(i, IF has(Queue(i), gc, Key(i)) THEN "pop" ELSE new)
      /\ UNCHANGED <<held, ask>>

\* It is taken out, and its approval becomes the answer.
PopByKey(i) ==
  LET gc == GCApprovalQueue(rq[i].what)
      shadow == Queue(i)[Key(i)]
  IN  /\ rq[i].pc = "pop" /\ has(Queue(i), gc, Key(i))
      /\ SetQueue(i, AfterPopByKey(Queue(i), gc, Key(i)))
      /\ ask' = [ask EXCEPT ![i].shadow = shadow, ![i].at = now,
                            ![i].task = [shadow EXCEPT !.made = ask[i].task.made]]
      /\ Goto(i, "back")
      /\ UNCHANGED held

\* Another ask took it, or it grew old, since Has: the type assertion on nil panics
\* and nothing recovers.  The approver starts anew and its callers get an error.
PopNothing(i) ==
  /\ rq[i].pc = "pop" /\ ~ has(Queue(i), GCApprovalQueue(rq[i].what), Key(i))
  /\ queue' = [w \in Whats |-> << >>]
  /\ rq' = [j \in Requests |->
              IF rq[j].pc \in {"has", "pop", "back", "count", "height", "sign", "push"}
              THEN [rq[j] EXCEPT !.pc = "refused"] ELSE rq[j]]
  /\ UNCHANGED <<held, ask>>

\* It is put back; the error of Push is ignored.
PushBack(i) ==
  /\ rq[i].pc = "back"
  /\ SetQueue(i, AfterPush(Queue(i), GCApprovalQueue(rq[i].what), Cap, Key(i), ask[i].shadow))
  /\ AnswerAsk(i)
  /\ UNCHANGED held

\* The account may own as many buckets as accountBucketNumber says.
GetUserBucketsCount(i) ==
  /\ rq[i].pc = "count"
  /\ (Goto(i, "height") /\ UNCHANGED ask) \/ RefuseAsk(i)
  /\ UNCHANGED <<held, queue>>

\* Mutant: the task is shared before it is signed.
BugSetExpiredHeight(i) ==
  LET t == [ask[i].task EXCEPT !.exp = height + ApprovalTimeoutHeight, !.blind = height = 0]
  IN  /\ rq[i].pc = "height"
      /\ ask' = [ask EXCEPT ![i].task = t, ![i].at = now]
      /\ SetQueue(i, AfterPush(Queue(i), GCApprovalQueue(rq[i].what), Cap, Key(i), t))
      /\ Goto(i, "sign")
      /\ UNCHANGED held

SetExpiredHeight(i) ==
  /\ rq[i].pc = "height"
  /\ ask' = [ask EXCEPT ![i].task.exp = height + ApprovalTimeoutHeight,
                        ![i].task.blind = height = 0, ![i].at = now]
  /\ Goto(i, "sign")
  /\ UNCHANGED <<held, queue>>

\* The signer signs the approval with its expired height, or fails.
SignApproval(i) ==
  /\ rq[i].pc = "sign"
  /\ \/ Goto(i, "push") /\ ask' = [ask EXCEPT ![i].task.sig = ask[i].task.exp]
     \/ RefuseAsk(i)
  /\ UNCHANGED <<held, queue>>

\* The task is kept for later asks; a full queue or a repeated task is ignored.
Push(i) ==
  /\ rq[i].pc = "push"
  /\ SetQueue(i, AfterPush(Queue(i), GCApprovalQueue(rq[i].what), Cap, Key(i), ask[i].task))
  /\ AnswerAsk(i)
  /\ UNCHANGED held

AskStep(i) ==
  /\ \/ InitApprovalTask(i) \/ GfSpAskApproval(i) \/ Has(i) \/ PopByKey(i)
     \/ PushBack(i) \/ GetUserBucketsCount(i) \/ SetExpiredHeight(i)
     \/ SignApproval(i) \/ Push(i)
  /\ UNCHANGED <<now, facts, changes, row, updates, height>>

Panic(i) ==
  /\ PopNothing(i)
  /\ height' = 0
  /\ UNCHANGED <<now, facts, changes, row, updates>>

\* The event loop asks a node of the chain, which is at most Lag blocks behind or
\* fails (0); the known height only grows (SetCurrentBlockHeight).
EventLoop ==
  /\ \E i \in Requests : rq[i].kind = "approve" /\ Live(i)
  /\ \E current \in 0..now :
       /\ current > height /\ now - current <= Lag
       /\ height' = current
  /\ UNCHANGED <<authVars, queue, ask>>

\* A block interval passes.  A known height falls behind by at most Lag: every so
\* often the event loop reaches a node that is up to date.
Tick ==
  /\ now < MaxTime
  /\ height = 0 \/ now + 1 - height <= Lag
  /\ \E i \in Requests : Live(i)
  /\ now' = now + 1
  /\ UNCHANGED <<facts, changes, row, updates, rq, held, approverVars>>

------------------------------------------------------------------------------
Init == AuthInit /\ ApproverInit

Next ==
  \/ \E i \in Requests : (AuthStep(i) /\ UNCHANGED approverVars) \/ AskStep(i) \/ Panic(i)
  \/ ChainChanges /\ UNCHANGED approverVars
  \/ EventLoop
  \/ Tick

Spec == Init /\ [][Next]_vars

\* An approval handed out, new or from the queue, has not expired on the chain at
\* the moment the approver had it, unless the height was unknown when it was made:
\* the queue gives tasks up by their age in seconds (GCApprovalQueue), while the
\* approval expires by height.
AnswerNotExpired ==
  \A i \in Requests : rq[i].pc = "answered" /\ ~ ask[i].task.blind =>
    ask[i].at < ask[i].task.exp

\* Every approval handed out and every task in a queue carries a signature of its
\* own expired height, whichever asks for the same name were in progress together
\* (HandleCreateBucketApprovalTask and HandleCreateObjectApprovalTask).
AnswerSigned ==
  /\ \A i \in Requests : rq[i].pc = "answered" =>
       ask[i].task.sig = ask[i].task.exp /\ ask[i].task.sig # 0
  /\ \A w \in Whats : \A k \in DOMAIN queue[w] :
       queue[w][k].sig = queue[w][k].exp /\ queue[w][k].sig # 0
=============================================================================
