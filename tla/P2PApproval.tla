---------------------------- MODULE P2PApproval ----------------------------
(***************************************************************************)
(* Collecting the approvals of secondary providers (modular/p2p): a call   *)
(* of HandleReplicatePieceApproval registers a channel for its object,     *)
(* broadcasts a request to the known nodes and reads responses until it    *)
(* has enough or its time is over.  Responses arrive in handlers of their  *)
(* own, which find the channel in a map and send to it under the mutex of  *)
(* the map.                                                                *)
(*                                                                         *)
(* The mutex matters between steps only when its holder waits for a place  *)
(* in a full channel; then it is kept in `mux'.  A provider may have       *)
(* several nodes.  A message that is lost is one that is never delivered.  *)
(***************************************************************************)
EXTENDS Integers, Sequences, FiniteSets

CONSTANTS
  Requests,     \* calls of HandleReplicatePieceApproval
  Obj,          \* the object of each call
  Nodes,        \* other p2p nodes
  SpOf,         \* the provider of each node
  Self,         \* the operator address of this provider
  SpLists,      \* lists of providers the database may return
  MinAccept,    \* min and max of the calls
  MaxAccept,
  ChannelSize,  \* ResponseChannelSize
  Parallel,     \* capacity of replicateApprovalQueue
  Expired,      \* blocks for which an approval is valid
  MaxHeight,    \* bound: blocks of the chain
  Nil

Objects == {Obj[r] : r \in Requests}

ASSUME ApprovalAssumption ==
  /\ Nil \notin Requests
  /\ MaxAccept \in Nat \ {0}
  /\ {MinAccept, ChannelSize, Parallel, Expired, MaxHeight} \subseteq Nat

VARIABLES
  queue,     \* objects in replicateApprovalQueue
  rq,        \* the goroutine of each call
  response,  \* the map of the approval protocol: the call whose channel is registered
  buf,       \* what is in the channel of each call
  closed,    \* the calls whose channel is closed
  mux,       \* the handler that holds the mutex and waits: its message and channel
  asked,     \* requests under way to nodes
  resp,      \* responses under way
  ready,     \* responses that passed the checks of onGetApprovalResponse
  sps,       \* providers for which checkSP holds
  height

protocol == <<response, buf, closed, mux>>
net  == <<asked, resp, ready>>
p2pVars == <<queue, rq, response, buf, closed, mux, asked, resp, ready, sps, height>>

NewCall == [pc |-> "idle", todo |-> {}, accept |-> << >>, ok |-> FALSE]

P2PInit ==
  /\ queue = {} /\ rq = [r \in Requests |-> NewCall]
  /\ response = [o \in Objects |-> Nil]
  /\ buf = [r \in Requests |-> << >>] /\ closed = {} /\ mux = Nil
  /\ asked = {} /\ resp = {} /\ ready = {}
  /\ sps = {} /\ height = 0

At(r, pc) == rq[r].pc = pc
Goto(r, pc) == rq' = [rq EXCEPT ![r].pc = pc]

----------------------------------------------------------------------------
(* HandleReplicatePieceApproval *)

\* Has: a repeated request is refused.
Has(r) ==
  /\ At(r, "idle")
  /\ Goto(r, IF Obj[r] \in queue THEN "done" ELSE "push")
  /\ UNCHANGED <<queue, protocol, net, sps, height>>

\* Push refuses a repeated task and one too many.
Push(r) ==
  /\ At(r, "push")
  /\ IF Obj[r] \in queue \/ Cardinality(queue) >= Parallel
       THEN Goto(r, "done") /\ UNCHANGED queue
       ELSE Goto(r, "hang") /\ queue' = queue \cup {Obj[r]}
  /\ UNCHANGED <<protocol, net, sps, height>>

\* The channel of the call is registered unless there is one for the object.
hangApprovalRequest(r) ==
  /\ At(r, "hang") /\ mux = Nil
  /\ IF response[Obj[r]] # Nil
       THEN Goto(r, "pop") /\ UNCHANGED response
       ELSE Goto(r, "sign") /\ response' = [response EXCEPT ![Obj[r]] = r]
  /\ UNCHANGED <<queue, buf, closed, mux, net, sps, height>>

\* Mutant: an early return before the deferred cancelApprovalRequest.
BugSignFails(r) == Goto(r, "pop")

\* The deferred cancelApprovalRequest runs.
SignFails(r) == Goto(r, "cancel")

\* The request is signed.
SignReplicatePieceApproval(r) ==
  /\ At(r, "sign")
  /\ \/ SignFails(r)
     \/ rq' = [rq EXCEPT ![r].pc = "send", ![r].todo = Nodes, ![r].ok = TRUE]
  /\ UNCHANGED <<queue, protocol, net, sps, height>>

\* broadcast and sendToPeer: one node after the other.  A node without an address, or
\* that cannot be reached, never gets the request.
broadcast(r) ==
  /\ At(r, "send")
  /\ \/ /\ rq[r].todo = {} /\ Goto(r, "collect") /\ UNCHANGED asked
     \/ \E n \in rq[r].todo :
          /\ rq' = [rq EXCEPT ![r].todo = @ \ {n}]
          /\ asked' = asked \cup {<<r, n>>}
  /\ UNCHANGED <<queue, protocol, resp, ready, sps, height>>

\* Mutant: one approval too many.
BugEnough(accept) == Len(accept) > MaxAccept

\* len(accept) >= expectedAccept.
Enough(accept) == Len(accept) >= MaxAccept

\* The call reads an approval from its channel; it discards an expired one, unless it
\* does not get the height of the chain.
ReadApproval(r) ==
  /\ At(r, "collect") /\ buf[r] # << >>
  /\ LET accept == Append(rq[r].accept, Head(buf[r]))
     IN  \/ rq' = [rq EXCEPT ![r].accept = accept,
                             ![r].pc = IF Enough(accept) THEN "cancel" ELSE @]
         \/ Head(buf[r]).expired < height /\ UNCHANGED rq
  /\ buf' = [buf EXCEPT ![r] = Tail(@)]
  /\ UNCHANGED <<queue, response, closed, mux, net, sps, height>>

\* approvalCtx is done.
Timeout(r) ==
  /\ At(r, "collect")
  /\ Goto(r, "cancel")
  /\ UNCHANGED <<queue, protocol, net, sps, height>>

\* Mutant: without the mutex.
BugcancelApprovalRequest(r) ==
  /\ At(r, "cancel")
  /\ response' = [response EXCEPT ![Obj[r]] = Nil]
  /\ closed' = closed \cup {r}
  /\ Goto(r, "pop")
  /\ UNCHANGED <<queue, buf, mux, net, sps, height>>

\* The channel is removed from the map and closed.
cancelApprovalRequest(r) ==
  /\ At(r, "cancel") /\ mux = Nil
  /\ IF response[Obj[r]] = Nil
       THEN UNCHANGED <<response, closed>>
       ELSE /\ closed' = closed \cup {response[Obj[r]]}
            /\ response' = [response EXCEPT ![Obj[r]] = Nil]
  /\ Goto(r, "pop")
  /\ UNCHANGED <<queue, buf, mux, net, sps, height>>

\* The deferred PopByKey; the call returns approvals when it has enough of them.
PopByKey(r) ==
  /\ At(r, "pop")
  /\ queue' = queue \ {Obj[r]}
  /\ rq' = [rq EXCEPT ![r].pc = "done",
                      ![r].ok = @ /\ Len(rq[r].accept) >= MinAccept]
  /\ UNCHANGED <<protocol, net, sps, height>>

----------------------------------------------------------------------------
(* Responses *)

\* onGetApprovalRequest of the other node, which runs the same code: it signs an
\* approval that is valid for some blocks and sends it.
onGetApprovalRequest(r, n) ==
  /\ <<r, n>> \in asked
  /\ asked' = asked \ {<<r, n>>}
  /\ resp' = resp \cup {[r |-> r, node |-> n, expired |-> height + Expired]}
  /\ UNCHANGED <<queue, rq, protocol, ready, sps, height>>

\* A response of no known provider, or of this one, is dropped.
onGetApprovalResponse(m) ==
  /\ m \in resp
  /\ resp' = resp \ {m}
  /\ ready' = IF SpOf[m.node] \in sps \ {Self} THEN ready \cup {m} ELSE ready
  /\ UNCHANGED <<queue, rq, protocol, asked, sps, height>>

Full(c) == Len(buf[c]) >= ChannelSize

\* Mutant: a channel is good for one response.
BugRegistered(o) == response' = [response EXCEPT ![o] = Nil]

\* A delivery leaves the channel in the map.
Registered(o) == UNCHANGED response

\* The channel of the object is looked up and sent to under the mutex.  If it is full
\* the handler waits and keeps the mutex.
notifyApprovalResponse(m) ==
  /\ m \in ready /\ mux = Nil
  /\ ready' = ready \ {m}
  /\ LET c == response[Obj[m.r]]
     IN  IF c = Nil THEN UNCHANGED protocol
         ELSE IF Full(c)
           THEN mux' = [m |-> m, c |-> c] /\ UNCHANGED <<response, buf, closed>>
           ELSE /\ buf' = [buf EXCEPT ![c] = Append(@, m)]
                /\ Registered(Obj[m.r])
                /\ UNCHANGED <<closed, mux>>
  /\ UNCHANGED <<queue, rq, asked, resp, sps, height>>

\* A place in the channel is free again.
Unblock ==
  /\ mux # Nil /\ ~Full(mux.c)
  /\ buf' = [buf EXCEPT ![mux.c] = Append(@, mux.m)]
  /\ mux' = Nil
  /\ UNCHANGED <<queue, rq, response, closed, net, sps, height>>

\* eventLoop of the module: the providers of the database replace the old ones.
UpdateSp(S) ==
  /\ sps' = S
  /\ UNCHANGED <<queue, rq, protocol, net, height>>

NewBlock ==
  /\ height < MaxHeight /\ height' = height + 1
  /\ UNCHANGED <<queue, rq, protocol, net, sps>>

----------------------------------------------------------------------------
CallStep(r) ==
  \/ Push(r) \/ hangApprovalRequest(r) \/ SignReplicatePieceApproval(r)
  \/ broadcast(r) \/ ReadApproval(r) \/ Timeout(r)
  \/ cancelApprovalRequest(r) \/ PopByKey(r)

P2PNext ==
  \/ \E r \in Requests : Has(r) \/ CallStep(r)
  \/ \E r \in Requests, n \in Nodes : onGetApprovalRequest(r, n)
  \/ \E m \in resp : onGetApprovalResponse(m)
  \/ \E m \in ready : notifyApprovalResponse(m)
  \/ Unblock
  \/ \E S \in SpLists : UpdateSp(S)
  \/ NewBlock

P2PSpec == P2PInit /\ [][P2PNext]_p2pVars

\* A call that has begun runs and its timeout comes, and a handler with the mutex goes on
\* when it can.  Nothing is assumed of nodes and messages.
P2PFairSpec == P2PSpec /\ (\A r \in Requests : WF_p2pVars(CallStep(r))) /\ WF_p2pVars(Unblock)

----------------------------------------------------------------------------
(* Properties *)

Labels == {"idle", "push", "hang", "sign", "send", "collect", "cancel", "pop", "done"}
Approvals == [r : Requests, node : Nodes, expired : Nat]

\* Every variable has its type; no call accepts more approvals than it asked for, and no
\* channel holds more than its size.
P2PTypeOK ==
  /\ queue \subseteq Objects
  /\ rq \in [Requests -> [pc : Labels, todo : SUBSET Nodes, accept : Seq(Approvals),
                          ok : BOOLEAN]]
  /\ response \in [Objects -> Requests \cup {Nil}]
  /\ buf \in [Requests -> Seq(Approvals)]
  /\ \A r \in Requests : Len(rq[r].accept) <= MaxAccept /\ Len(buf[r]) <= ChannelSize
  /\ closed \subseteq Requests
  /\ mux \in [m : Approvals, c : Requests] \cup {Nil}
  /\ asked \subseteq Requests \X Nodes
  /\ resp \subseteq Approvals /\ ready \subseteq Approvals
  /\ height \in 0 .. MaxHeight

\* A send on a closed channel panics: whoever waits for a place in a channel keeps the
\* mutex, so that cancelApprovalRequest does not close it, and the map has no closed one.
NoSendOnClosed ==
  /\ mux # Nil => mux.c \notin closed
  /\ \A o \in Objects : response[o] \notin closed

Collecting(r) == rq[r].pc \in {"sign", "send", "collect", "cancel"}

\* The responses for an object reach the call that waits for them, until it cancels, and
\* no two calls wait for the same object, whatever calls are repeated at the same time.
WaiterIsRegistered == \A r \in Requests : Collecting(r) => response[Obj[r]] = r

\* A handler waits for a call that will never read again, and the call for its mutex.
Stuck == mux # Nil /\ rq[mux.c].pc = "cancel"

\* "blocking goroutine until timeout or collect expect accept approval response number":
\* every call returns and leaves nothing in the queue and the map.  The one exception is
\* a response for which there is no place after the call has stopped reading.
CallsReturn ==
  <>[](\/ Stuck
       \/ /\ \A r \in Requests : rq[r].pc \in {"idle", "done"}
          /\ queue = {} /\ \A o \in Objects : response[o] = Nil)
=============================================================================
