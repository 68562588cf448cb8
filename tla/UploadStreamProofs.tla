------------------------- MODULE UploadStreamProofs -------------------------
(***************************************************************************)
(* Proofs about UploadStream.  Most of the inductive invariant is about    *)
(* one handler: how far its producer and its consumer are, what the pipe   *)
(* between them holds, and which checksums it has.  The rest relates the   *)
(* handlers to the integrity table and to the piece store.                 *)
(***************************************************************************)
EXTENDS UploadStream, TLAPS

Data == {"good", "bad"}
ProdStates == {"none", "recv", "reserve", "pre", "create", "signal", "write", "end"}
ConsStates == {"none", "wait", "push", "read", "more", "put", "get", "delete", "create", "load",
               "sign", "save", "report", "return", "answer", "done"}

Checksums == Seq(Nat \X Data)

Handler ==
  [data : Data, off : Nat, end : Nat, complete : BOOLEAN, sent : Nat, seg : Nat,
   prod : ProdStates, cons : ConsStates, pipe : {"open", "eof", "error"}, err : BOOLEAN,
   span : BOOLEAN, sums : Checksums, signed : BOOLEAN, ok : BOOLEAN,
   answer : {"none", "ok", "error", "lost"}]

\* The consumer has a segment that it has not recorded yet.
InSegment == {"put", "get", "delete", "create"}

\* The goroutines of a request and the pipe between them.
PipeOK(x) ==
  /\ x.cons = "none" => x.prod = "none" /\ x.pipe = "open" /\ x.answer = "none" /\ x.ok
  /\ x.prod \notin {"none", "end"} /\ x.pipe # "open" => x.cons \in {"answer", "done"}
  /\ x.pipe = "eof" => x.prod = "end"
  /\ x.cons = "wait" => x.prod # "write" /\ x.prod # "none" /\ x.sent = x.off
  /\ x.cons \in {"wait", "push", "read"} => x.sent = x.seg
  /\ x.cons \in InSegment \cup {"more"} => x.sent = x.seg + 1
  /\ x.cons \in InSegment /\ Partial(x.seg) => x.pipe = "eof"

\* What is known once the consumer has come to the end of the stream.
EndOK(x) ==
  /\ x.cons \in {"sign", "load", "save"} => x.pipe = "eof"
  /\ x.cons \in {"report", "return"} /\ x.ok => x.pipe = "eof"
  /\ x.cons = "answer" /\ x.ok => x.prod = "end" /\ ~ x.err
  /\ x.answer = "error" => x.cons = "done" /\ ~ x.ok

\* The checksums a request has gathered.
SumsOK(r, x) ==
  /\ x.cons \in {"none", "wait", "push", "answer", "done"} => x.sums = << >>
  /\ x.cons \in {"get", "delete", "create", "load"} => r \notin Plain
  /\ x.cons = "save" => x.sums = Expected
  /\ x.cons = "report" /\ x.ok /\ (r \in Plain \/ x.complete) => x.sums = Expected
  /\ x.data = "bad" => r \in Wrong

HandlerOK(r, x) == x \in Handler /\ PipeOK(x) /\ EndOK(x) /\ SumsOK(r, x)

Handlers == rq \in [Requests -> Handler] /\ \A r \in Requests : HandlerOK(r, rq[r])

RowOK == row # NULL => row.sums \in Checksums /\ row.signed \in BOOLEAN

Reports ==
  /\ reported \subseteq Requests
  /\ \A r \in reported : rq[r].ok /\ rq[r].cons \in {"return", "answer", "done"}

\* The first part of the inductive invariant.
HandlersInv == Handlers /\ RowOK /\ Reports

Runs(x) == x.prod \notin {"none", "end"} \/ x.cons \notin {"none", "wait", "done"}

\* The manager has taken the task of the request, and its data is being stored.
Created(x) == x.prod = "signal" \/ x.cons \notin {"none", "wait", "done"}

AllBad(sums) == \A n \in 1..Len(sums) : sums[n][2] = "bad"

\* The segments recorded as good are in the piece store p.
Vouched(p, sums) ==
  \A n \in 1..Len(sums) :
    sums[n][2] = "good" /\ sums[n][1] \in Segments => p[sums[n][1]] = "good"

PiecesOK(p) == p = [i \in Segments |-> p[i]]

Progress ==
  /\ progress \in BOOLEAN
  /\ row # NULL \/ reported # {} => progress
  /\ \A r \in Requests : Created(rq[r]) => progress

\* A request with wrong data runs alone, and stores it only before anything has been
\* recorded.
Alone ==
  \A r \in Requests : rq[r].data = "bad" =>
    /\ AllBad(rq[r].sums)
    /\ Created(rq[r]) => row = NULL /\ reported = {}
    /\ Runs(rq[r]) => \A q \in Requests \ {r} : ~ Runs(rq[q])

Recorded ==
  /\ PiecesOK(pieces)
  /\ row # NULL => Vouched(pieces, row.sums)
  /\ \A r \in Requests :
       /\ Vouched(pieces, rq[r].sums)
       /\ rq[r].cons = "get" /\ rq[r].seg \in Segments => pieces[rq[r].seg] = "good"
  /\ SuccessIsStored

\* The inductive invariant.
StreamInv == HandlersInv /\ Progress /\ Alone /\ Recorded

------------------------------------------------------------------------------
(* The handler that takes a step *)

\* A step of the handler of r, and of no other.
Moves(r) ==
  /\ rq' = [rq EXCEPT ![r] = rq'[r]]
  /\ HandlerOK(r, rq'[r])
  /\ rq'[r].data = rq[r].data
  /\ Runs(rq[r])

\* A step of the producer leaves what the consumer has.
Produces(r) ==
  /\ Moves(r)
  /\ rq'[r].ok = rq[r].ok /\ rq'[r].sums = rq[r].sums /\ rq'[r].seg = rq[r].seg
  /\ \/ rq'[r].cons = rq[r].cons
     \/ rq[r].prod = "signal" /\ rq[r].cons = "wait" /\ rq'[r].cons = "push"

\* A step of the consumer, before it returns, that gathers no checksum.
Consumes(r) ==
  /\ Moves(r)
  /\ rq'[r].sums = rq[r].sums
  /\ rq[r].cons \notin {"none", "wait", "return", "answer", "done"}
  /\ rq'[r].cons \notin {"get", "answer", "done"}

LEMMA Update ==
  ASSUME NEW r \in Requests, Handlers, NEW x, Set(r, x), HandlerOK(r, x), x.data = rq[r].data,
         Runs(rq[r])
  PROVE  Moves(r) /\ rq'[r] = x
BY Zenon DEF Handlers, Set, Moves

LEMMA GiveUpProduces ==
  ASSUME NEW r \in Requests, Handlers, rq[r].prod \notin {"none", "end"}, Set(r, GiveUp(r))
  PROVE  Produces(r) /\ rq'[r].prod = "end"
<1> DEFINE y == rq[r]
           x == GiveUp(r)
<1>1. y \in Handler /\ PipeOK(y) /\ EndOK(y) /\ SumsOK(r, y) /\ y.prod \notin {"none", "end"}
  BY Zenon DEF Handlers, HandlerOK
<1>2. /\ x \in Handler
      /\ x.err = TRUE /\ x.prod = "end" /\ x.pipe = IF y.pipe = "open" THEN "error" ELSE y.pipe
      /\ x.data = y.data /\ x.off = y.off /\ x.complete = y.complete
      /\ x.sent = y.sent /\ x.seg = y.seg /\ x.cons = y.cons /\ x.sums = y.sums /\ x.ok = y.ok
      /\ x.answer = y.answer
  BY <1>1, Zenon DEF GiveUp, Closed, Handler, ProdStates
<1> HIDE DEF x, y
<1>3. PipeOK(x)
  BY <1>1, <1>2, Zenon DEF PipeOK, InSegment
<1>4. EndOK(x)
  BY <1>1, <1>2, Zenon DEF PipeOK, EndOK, InSegment
<1>5. SumsOK(r, x)
  BY <1>1, <1>2, Zenon DEF SumsOK
<1>6. Moves(r) /\ rq'[r] = x
  BY <1>1, <1>2, <1>3, <1>4, <1>5, Update, Zenon DEF HandlerOK, Runs, x, y
<1> QED BY <1>2, <1>6, Zenon DEF Produces, y

LEMMA FailedConsumes ==
  ASSUME NEW r \in Requests, Handlers, Set(r, Failed(r)),
         rq[r].cons \notin {"none", "wait", "push", "report", "return", "answer", "done"}
  PROVE  Consumes(r)
<1> DEFINE y == rq[r]
           x == Failed(r)
<1>1. /\ y \in Handler /\ PipeOK(y) /\ EndOK(y) /\ SumsOK(r, y) /\ Runs(y)
      /\ y.cons \notin {"none", "wait", "push", "report", "return", "answer", "done"}
  BY Zenon DEF Handlers, HandlerOK, Runs
<1>2. x = [y EXCEPT !.ok = FALSE, !.cons = "report"]
  BY Zenon DEF Failed
<1> HIDE DEF x, y
<1>3. x \in Handler /\ x.data = y.data /\ x.sums = y.sums /\ x.cons = "report"
  BY <1>1, <1>2, Zenon DEF Handler, ConsStates
<1>4. PipeOK(x)
  BY <1>1, <1>2, Zenon DEF Handler, PipeOK, InSegment
<1>5. EndOK(x)
  BY <1>1, <1>2, Zenon DEF Handler, EndOK
<1>6. SumsOK(r, x)
  BY <1>1, <1>2, Zenon DEF Handler, SumsOK
<1>7. Moves(r) /\ rq'[r] = x
  BY <1>1, <1>3, <1>4, <1>5, <1>6, Update, Zenon DEF HandlerOK, x, y
<1> QED BY <1>1, <1>3, <1>7, Zenon DEF Consumes, y

LEMMA RecvProduces ==
  ASSUME NEW r \in Requests, Handlers, Recv(r)
  PROVE  Produces(r) /\ (Created(rq'[r]) => Created(rq[r]))
<1> DEFINE y == rq[r]
<1>1. /\ y \in Handler /\ PipeOK(y) /\ EndOK(y) /\ SumsOK(r, y)
      /\ y.prod = "recv" /\ Runs(y)
  BY Zenon DEF Handlers, HandlerOK, Recv, Runs
<1> HIDE DEF y
<1>2. CASE y.cons = "done" /\ Set(r, [y EXCEPT !.prod = "end"])
  <2> DEFINE x == [y EXCEPT !.prod = "end"]
  <2>0. "end" \in ProdStates
    BY <1>1, <1>2, Zenon DEF Handler, ProdStates, ConsStates
  <2>1. x \in Handler /\ x.data = y.data
    BY <1>1, <1>2, <2>0, Zenon DEF Handler
  <2>2. PipeOK(x)
    BY <1>1, <1>2, BoundsAssumption, <2>0, Zenon DEF Handler, PipeOK, InSegment, EndOK, Partial
  <2>3. EndOK(x)
    BY <1>1, <1>2, <2>0, Zenon DEF Handler, PipeOK, EndOK, InSegment
  <2>4. SumsOK(r, x)
    BY <1>1, <1>2, <2>0, Zenon DEF Handler, SumsOK
  <2>5. Set(r, x)
    BY <1>2, Zenon
  <2> HIDE DEF x
  <2>6. Moves(r) /\ rq'[r] = x
    BY <1>1, <2>1, <2>2, <2>3, <2>4, <2>5, Update, Zenon DEF HandlerOK, y
  <2> QED BY <1>1, <1>2, <2>6, Zenon DEF Handler, x, Produces, Created, y
<1>3. CASE y.cons # "done" /\ Set(r, [y EXCEPT !.err = FALSE,
           !.prod = IF y.sent = y.off THEN "reserve" ELSE "write"])
  <2> DEFINE x == [y EXCEPT !.err = FALSE, !.prod = IF y.sent = y.off THEN "reserve" ELSE "write"]
  <2>0. (IF y.sent = y.off THEN "reserve" ELSE "write") \in ProdStates
    BY <1>1, <1>3, Zenon DEF Handler, ProdStates, ConsStates
  <2>1. x \in Handler /\ x.data = y.data
    BY <1>1, <1>3, <2>0, Zenon DEF Handler
  <2>2. PipeOK(x)
    BY <1>1, <1>3, BoundsAssumption, <2>0, Zenon DEF Handler, PipeOK, InSegment, EndOK, Partial
  <2>3. EndOK(x)
    BY <1>1, <1>3, <2>0, Zenon DEF Handler, PipeOK, EndOK, InSegment
  <2>4. SumsOK(r, x)
    BY <1>1, <1>3, <2>0, Zenon DEF Handler, SumsOK
  <2>5. Set(r, x)
    BY <1>3, Zenon
  <2> HIDE DEF x
  <2>6. Moves(r) /\ rq'[r] = x
    BY <1>1, <2>1, <2>2, <2>3, <2>4, <2>5, Update, Zenon DEF HandlerOK, y
  <2> QED BY <1>1, <1>3, <2>6, Zenon DEF Handler, x, Produces, Created, y
<1>4. CASE y.cons # "done" /\ Set(r, [y EXCEPT !.err = FALSE, !.prod = "end", !.pipe = Closed(r,
           "eof")])
  <2> DEFINE x == [y EXCEPT !.err = FALSE, !.prod = "end", !.pipe = Closed(r, "eof")]
  <2>0. /\ "end" \in ProdStates
        /\ Closed(r, "eof") \in {"open", "eof", "error"}
    BY <1>1, <1>4, Zenon DEF Handler, ProdStates, ConsStates, Closed, y
  <2>1. x \in Handler /\ x.data = y.data
    BY <1>1, <1>4, <2>0, Zenon DEF Handler
  <2>2. PipeOK(x)
    BY <1>1, <1>4, BoundsAssumption, <2>0, Zenon DEF Handler, PipeOK, InSegment, EndOK, Partial, Closed, y
  <2>3. EndOK(x)
    BY <1>1, <1>4, <2>0, Zenon DEF Handler, PipeOK, EndOK, InSegment, Closed, y
  <2>4. SumsOK(r, x)
    BY <1>1, <1>4, <2>0, Zenon DEF Handler, SumsOK, Closed, y
  <2>5. Set(r, x)
    BY <1>4, Zenon
  <2> HIDE DEF x
  <2>6. Moves(r) /\ rq'[r] = x
    BY <1>1, <2>1, <2>2, <2>3, <2>4, <2>5, Update, Zenon DEF HandlerOK, y
  <2> QED BY <1>1, <1>4, <2>6, Zenon DEF Handler, x, Produces, Created, Closed, y
<1>5. CASE Set(r, GiveUp(r))
  BY <1>1, <1>5, GiveUpProduces, Zenon DEF y, Created, Produces
<1> QED BY <1>2, <1>3, <1>4, <1>5, Zenon DEF Recv, y, MayFail

LEMMA ReserveResourceProduces ==
  ASSUME NEW r \in Requests, Handlers, ReserveResource(r)
  PROVE  Produces(r) /\ (Created(rq'[r]) => Created(rq[r]))
<1> DEFINE y == rq[r]
<1>1. /\ y \in Handler /\ PipeOK(y) /\ EndOK(y) /\ SumsOK(r, y)
      /\ y.prod = "reserve" /\ Runs(y)
  BY Zenon DEF Handlers, HandlerOK, ReserveResource, Runs
<1> HIDE DEF y
<1>2. CASE Set(r, [y EXCEPT !.span = TRUE, !.prod = "pre"])
  <2> DEFINE x == [y EXCEPT !.span = TRUE, !.prod = "pre"]
  <2>0. "pre" \in ProdStates
    BY <1>1, <1>2, Zenon DEF Handler, ProdStates, ConsStates
  <2>1. x \in Handler /\ x.data = y.data
    BY <1>1, <1>2, <2>0, Zenon DEF Handler
  <2>2. PipeOK(x)
    BY <1>1, <1>2, BoundsAssumption, <2>0, Zenon DEF Handler, PipeOK, InSegment, EndOK, Partial
  <2>3. EndOK(x)
    BY <1>1, <1>2, <2>0, Zenon DEF Handler, PipeOK, EndOK, InSegment
  <2>4. SumsOK(r, x)
    BY <1>1, <1>2, <2>0, Zenon DEF Handler, SumsOK
  <2>5. Set(r, x)
    BY <1>2, Zenon
  <2> HIDE DEF x
  <2>6. Moves(r) /\ rq'[r] = x
    BY <1>1, <2>1, <2>2, <2>3, <2>4, <2>5, Update, Zenon DEF HandlerOK, y
  <2> QED BY <1>1, <1>2, <2>6, Zenon DEF Handler, x, Produces, Created, y
<1>3. CASE Set(r, GiveUp(r))
  BY <1>1, <1>3, GiveUpProduces, Zenon DEF y, Created, Produces
<1> QED BY <1>2, <1>3, Zenon DEF ReserveResource, y, MayFail

LEMMA PreUploadObjectProduces ==
  ASSUME NEW r \in Requests, Handlers, PreUploadObject(r)
  PROVE  Produces(r) /\ (Created(rq'[r]) => Created(rq[r]))
<1> DEFINE y == rq[r]
<1>1. /\ y \in Handler /\ PipeOK(y) /\ EndOK(y) /\ SumsOK(r, y)
      /\ y.prod = "pre" /\ Runs(y)
  BY Zenon DEF Handlers, HandlerOK, PreUploadObject, Runs
<1> HIDE DEF y
<1>2. CASE Set(r, [y EXCEPT !.prod = "create"])
  <2> DEFINE x == [y EXCEPT !.prod = "create"]
  <2>0. "create" \in ProdStates
    BY <1>1, <1>2, Zenon DEF Handler, ProdStates, ConsStates
  <2>1. x \in Handler /\ x.data = y.data
    BY <1>1, <1>2, <2>0, Zenon DEF Handler
  <2>2. PipeOK(x)
    BY <1>1, <1>2, BoundsAssumption, <2>0, Zenon DEF Handler, PipeOK, InSegment, EndOK, Partial
  <2>3. EndOK(x)
    BY <1>1, <1>2, <2>0, Zenon DEF Handler, PipeOK, EndOK, InSegment
  <2>4. SumsOK(r, x)
    BY <1>1, <1>2, <2>0, Zenon DEF Handler, SumsOK
  <2>5. Set(r, x)
    BY <1>2, Zenon
  <2> HIDE DEF x
  <2>6. Moves(r) /\ rq'[r] = x
    BY <1>1, <2>1, <2>2, <2>3, <2>4, <2>5, Update, Zenon DEF HandlerOK, y
  <2> QED BY <1>1, <1>2, <2>6, Zenon DEF Handler, x, Produces, Created, y
<1>3. CASE Set(r, GiveUp(r))
  BY <1>1, <1>3, GiveUpProduces, Zenon DEF y, Created, Produces
<1> QED BY <1>2, <1>3, Zenon DEF PreUploadObject, y, MayFail

LEMMA CreateUploadObjectProduces ==
  ASSUME NEW r \in Requests, Handlers, CreateUploadObject(r)
  PROVE  Produces(r)
<1> DEFINE y == rq[r]
<1>1. /\ y \in Handler /\ PipeOK(y) /\ EndOK(y) /\ SumsOK(r, y)
      /\ y.prod = "create" /\ Runs(y)
  BY Zenon DEF Handlers, HandlerOK, CreateUploadObject, Runs
<1> HIDE DEF y
<1>2. CASE Set(r, [y EXCEPT !.prod = "signal"])
  <2> DEFINE x == [y EXCEPT !.prod = "signal"]
  <2>0. "signal" \in ProdStates
    BY <1>1, <1>2, Zenon DEF Handler, ProdStates, ConsStates
  <2>1. x \in Handler /\ x.data = y.data
    BY <1>1, <1>2, <2>0, Zenon DEF Handler
  <2>2. PipeOK(x)
    BY <1>1, <1>2, BoundsAssumption, <2>0, Zenon DEF Handler, PipeOK, InSegment, EndOK, Partial
  <2>3. EndOK(x)
    BY <1>1, <1>2, <2>0, Zenon DEF Handler, PipeOK, EndOK, InSegment
  <2>4. SumsOK(r, x)
    BY <1>1, <1>2, <2>0, Zenon DEF Handler, SumsOK
  <2>5. Set(r, x)
    BY <1>2, Zenon
  <2> HIDE DEF x
  <2>6. Moves(r) /\ rq'[r] = x
    BY <1>1, <2>1, <2>2, <2>3, <2>4, <2>5, Update, Zenon DEF HandlerOK, y
  <2> QED BY <1>1, <1>2, <2>6, Zenon DEF Handler, x, Produces, y
<1>3. CASE Set(r, GiveUp(r))
  BY <1>1, <1>3, GiveUpProduces, Zenon DEF y
<1> QED BY <1>2, <1>3, Zenon DEF CreateUploadObject, y, MayFail

LEMMA SignalProduces ==
  ASSUME NEW r \in Requests, Handlers, Signal(r)
  PROVE  Produces(r) /\ (Created(rq'[r]) => Created(rq[r]))
<1> DEFINE y == rq[r]
<1>1. /\ y \in Handler /\ PipeOK(y) /\ EndOK(y) /\ SumsOK(r, y)
      /\ y.prod = "signal" /\ Runs(y)
  BY Zenon DEF Handlers, HandlerOK, Signal, Runs
<1> HIDE DEF y
<1>2. CASE y.cons = "wait" /\ Set(r, [y EXCEPT !.prod = "write", !.cons = "push"])
  <2> DEFINE x == [y EXCEPT !.prod = "write", !.cons = "push"]
  <2>0. /\ "write" \in ProdStates
        /\ "push" \in ConsStates
    BY <1>1, <1>2, Zenon DEF Handler, ProdStates, ConsStates
  <2>1. x \in Handler /\ x.data = y.data
    BY <1>1, <1>2, <2>0, Zenon DEF Handler
  <2>2. PipeOK(x)
    BY <1>1, <1>2, BoundsAssumption, <2>0, Zenon DEF Handler, PipeOK, InSegment, EndOK, Partial
  <2>3. EndOK(x)
    BY <1>1, <1>2, <2>0, Zenon DEF Handler, PipeOK, EndOK, InSegment
  <2>4. SumsOK(r, x)
    BY <1>1, <1>2, <2>0, Zenon DEF Handler, SumsOK
  <2>5. Set(r, x)
    BY <1>2, Zenon
  <2> HIDE DEF x
  <2>6. Moves(r) /\ rq'[r] = x
    BY <1>1, <2>1, <2>2, <2>3, <2>4, <2>5, Update, Zenon DEF HandlerOK, y
  <2> QED BY <1>1, <1>2, <2>6, Zenon DEF Handler, x, Produces, Created, y
<1> QED BY <1>2, Zenon DEF Signal, y, MayFail

LEMMA WriteFailsProduces ==
  ASSUME NEW r \in Requests, Handlers, WriteFails(r)
  PROVE  Produces(r) /\ (Created(rq'[r]) => Created(rq[r]))
<1> DEFINE y == rq[r]
<1>1. /\ y \in Handler /\ PipeOK(y) /\ EndOK(y) /\ SumsOK(r, y)
      /\ y.prod = "write" /\ Runs(y)
  BY Zenon DEF Handlers, HandlerOK, WriteFails, Runs
<1> HIDE DEF y
<1>2. CASE y.pipe # "open" /\ Set(r, [y EXCEPT !.prod = "recv", !.sent = y.sent + 1])
  <2> DEFINE x == [y EXCEPT !.prod = "recv", !.sent = y.sent + 1]
  <2>0. /\ y.sent \in Nat /\ y.sent + 1 \in Nat
        /\ "recv" \in ProdStates
    BY <1>1, <1>2 DEF Handler, ProdStates, ConsStates
  <2>1. x \in Handler /\ x.data = y.data
    BY <1>1, <1>2, <2>0, Zenon DEF Handler
  <2>2. PipeOK(x)
    BY <1>1, <1>2, BoundsAssumption, <2>0, Zenon DEF Handler, PipeOK, InSegment, EndOK, Partial
  <2>3. EndOK(x)
    BY <1>1, <1>2, <2>0, Zenon DEF Handler, PipeOK, EndOK, InSegment
  <2>4. SumsOK(r, x)
    BY <1>1, <1>2, <2>0, Zenon DEF Handler, SumsOK
  <2>5. Set(r, x)
    BY <1>2, Zenon
  <2> HIDE DEF x
  <2>6. Moves(r) /\ rq'[r] = x
    BY <1>1, <2>1, <2>2, <2>3, <2>4, <2>5, Update, Zenon DEF HandlerOK, y
  <2> QED BY <1>1, <1>2, <2>6, Zenon DEF Handler, x, Produces, Created, y
<1> QED BY <1>2, Zenon DEF WriteFails, y, MayFail

LEMMA PushConsumes ==
  ASSUME NEW r \in Requests, Handlers, Push(r)
  PROVE  Consumes(r)
<1> DEFINE y == rq[r]
<1>1. /\ y \in Handler /\ PipeOK(y) /\ EndOK(y) /\ SumsOK(r, y)
      /\ y.cons = "push" /\ Runs(y)
  BY Zenon DEF Handlers, HandlerOK, Push, Runs
<1> HIDE DEF y
<1>2. CASE Set(r, [y EXCEPT !.ok = FALSE, !.cons = "return"])
  <2> DEFINE x == [y EXCEPT !.ok = FALSE, !.cons = "return"]
  <2>0. "return" \in ConsStates
    BY <1>1, <1>2, Zenon DEF Handler, ProdStates, ConsStates
  <2>1. x \in Handler /\ x.data = y.data
    BY <1>1, <1>2, <2>0, Zenon DEF Handler
  <2>2. PipeOK(x)
    BY <1>1, <1>2, BoundsAssumption, <2>0, Zenon DEF Handler, PipeOK, InSegment, EndOK, Partial
  <2>3. EndOK(x)
    BY <1>1, <1>2, <2>0, Zenon DEF Handler, PipeOK, EndOK, InSegment
  <2>4. SumsOK(r, x)
    BY <1>1, <1>2, <2>0, Zenon DEF Handler, SumsOK
  <2>5. Set(r, x)
    BY <1>2, Zenon
  <2> HIDE DEF x
  <2>6. Moves(r) /\ rq'[r] = x
    BY <1>1, <2>1, <2>2, <2>3, <2>4, <2>5, Update, Zenon DEF HandlerOK, y
  <2> QED BY <1>1, <1>2, <2>6, Zenon DEF Handler, x, Consumes, y
<1>3. CASE Set(r, [y EXCEPT !.cons = "read"])
  <2> DEFINE x == [y EXCEPT !.cons = "read"]
  <2>0. "read" \in ConsStates
    BY <1>1, <1>3, Zenon DEF Handler, ProdStates, ConsStates
  <2>1. x \in Handler /\ x.data = y.data
    BY <1>1, <1>3, <2>0, Zenon DEF Handler
  <2>2. PipeOK(x)
    BY <1>1, <1>3, BoundsAssumption, <2>0, Zenon DEF Handler, PipeOK, InSegment, EndOK, Partial
  <2>3. EndOK(x)
    BY <1>1, <1>3, <2>0, Zenon DEF Handler, PipeOK, EndOK, InSegment
  <2>4. SumsOK(r, x)
    BY <1>1, <1>3, <2>0, Zenon DEF Handler, SumsOK
  <2>5. Set(r, x)
    BY <1>3, Zenon
  <2> HIDE DEF x
  <2>6. Moves(r) /\ rq'[r] = x
    BY <1>1, <2>1, <2>2, <2>3, <2>4, <2>5, Update, Zenon DEF HandlerOK, y
  <2> QED BY <1>1, <1>3, <2>6, Zenon DEF Handler, x, Consumes, y
<1> QED BY <1>2, <1>3, Zenon DEF Push, y, MayFail

LEMMA ReadConsumes ==
  ASSUME NEW r \in Requests, Handlers, Read(r)
  PROVE  Consumes(r)
<1> DEFINE y == rq[r]
<1>1. /\ y \in Handler /\ PipeOK(y) /\ EndOK(y) /\ SumsOK(r, y)
      /\ y.cons = "read" /\ Runs(y)
  BY Zenon DEF Handlers, HandlerOK, Read, Runs
<1> HIDE DEF y
<1>2. CASE y.pipe = "open" /\ y.prod = "write" /\ Set(r, [y EXCEPT !.prod = "recv",
           !.sent = y.sent + 1, !.cons = IF Partial(y.sent) THEN "more" ELSE "put"])
  <2> DEFINE x == [y EXCEPT !.prod = "recv", !.sent = y.sent + 1,
                  !.cons = IF Partial(y.sent) THEN "more" ELSE "put"]
  <2>0. /\ y.sent \in Nat /\ y.sent + 1 \in Nat
        /\ "recv" \in ProdStates
        /\ (IF Partial(y.sent) THEN "more" ELSE "put") \in ConsStates
    BY <1>1, <1>2 DEF Handler, ProdStates, ConsStates
  <2>1. x \in Handler /\ x.data = y.data
    BY <1>1, <1>2, <2>0, Zenon DEF Handler
  <2>2. PipeOK(x)
    BY <1>1, <1>2, BoundsAssumption, <2>0, Zenon DEF Handler, PipeOK, InSegment, EndOK, Partial
  <2>3. EndOK(x)
    BY <1>1, <1>2, <2>0, Zenon DEF Handler, PipeOK, EndOK, InSegment
  <2>4. SumsOK(r, x)
    BY <1>1, <1>2, <2>0, Zenon DEF Handler, SumsOK
  <2>5. Set(r, x)
    BY <1>2, Zenon
  <2> HIDE DEF x
  <2>6. Moves(r) /\ rq'[r] = x
    BY <1>1, <2>1, <2>2, <2>3, <2>4, <2>5, Update, Zenon DEF HandlerOK, y
  <2> QED BY <1>1, <1>2, <2>6, Zenon DEF Handler, x, Consumes, y
<1>3. CASE y.pipe = "eof" /\ Set(r, [y EXCEPT !.cons = AtEOF(r)])
  <2> DEFINE x == [y EXCEPT !.cons = AtEOF(r)]
  <2>0. AtEOF(r) \in ConsStates
    BY <1>1, <1>3, Zenon DEF Handler, ProdStates, ConsStates, AtEOF, y
  <2>1. x \in Handler /\ x.data = y.data
    BY <1>1, <1>3, <2>0, Zenon DEF Handler
  <2>2. PipeOK(x)
    BY <1>1, <1>3, BoundsAssumption, <2>0, Zenon DEF Handler, PipeOK, InSegment, EndOK, Partial, AtEOF, y
  <2>3. EndOK(x)
    BY <1>1, <1>3, <2>0, Zenon DEF Handler, PipeOK, EndOK, InSegment, AtEOF, y
  <2>4. SumsOK(r, x)
    BY <1>1, <1>3, <2>0, Zenon DEF Handler, SumsOK, AtEOF, y
  <2>5. Set(r, x)
    BY <1>3, Zenon
  <2> HIDE DEF x
  <2>6. Moves(r) /\ rq'[r] = x
    BY <1>1, <2>1, <2>2, <2>3, <2>4, <2>5, Update, Zenon DEF HandlerOK, y
  <2> QED BY <1>1, <1>3, <2>6, Zenon DEF Handler, x, Consumes, AtEOF, y
<1>4. CASE Set(r, Failed(r))
  BY <1>1, <1>4, FailedConsumes, Zenon DEF y
<1> QED BY <1>2, <1>3, <1>4, Zenon DEF Read, y, MayFail

LEMMA ReadMoreConsumes ==
  ASSUME NEW r \in Requests, Handlers, ReadMore(r)
  PROVE  Consumes(r)
<1> DEFINE y == rq[r]
<1>1. /\ y \in Handler /\ PipeOK(y) /\ EndOK(y) /\ SumsOK(r, y)
      /\ y.cons = "more" /\ Runs(y)
  BY Zenon DEF Handlers, HandlerOK, ReadMore, Runs
<1> HIDE DEF y
<1>2. CASE y.pipe = "eof" /\ Set(r, [y EXCEPT !.cons = "put"])
  <2> DEFINE x == [y EXCEPT !.cons = "put"]
  <2>0. "put" \in ConsStates
    BY <1>1, <1>2, Zenon DEF Handler, ProdStates, ConsStates
  <2>1. x \in Handler /\ x.data = y.data
    BY <1>1, <1>2, <2>0, Zenon DEF Handler
  <2>2. PipeOK(x)
    BY <1>1, <1>2, BoundsAssumption, <2>0, Zenon DEF Handler, PipeOK, InSegment, EndOK, Partial
  <2>3. EndOK(x)
    BY <1>1, <1>2, <2>0, Zenon DEF Handler, PipeOK, EndOK, InSegment
  <2>4. SumsOK(r, x)
    BY <1>1, <1>2, <2>0, Zenon DEF Handler, SumsOK
  <2>5. Set(r, x)
    BY <1>2, Zenon
  <2> HIDE DEF x
  <2>6. Moves(r) /\ rq'[r] = x
    BY <1>1, <2>1, <2>2, <2>3, <2>4, <2>5, Update, Zenon DEF HandlerOK, y
  <2> QED BY <1>1, <1>2, <2>6, Zenon DEF Handler, x, Consumes, y
<1>3. CASE Set(r, Failed(r))
  BY <1>1, <1>3, FailedConsumes, Zenon DEF y
<1> QED BY <1>2, <1>3, Zenon DEF ReadMore, y, MayFail

\* PutPiece and AppendObjectChecksumIntegrity gather a checksum.
Stores(r) ==
  /\ Moves(r)
  /\ rq[r].cons = "put" /\ rq'[r].cons \notin {"get", "answer", "done"}
  /\ rq'[r].sums = Append(rq[r].sums, Sum(rq[r].seg, rq[r].data))

Hands(r) ==
  /\ Moves(r)
  /\ rq[r].cons = "put" /\ rq'[r].cons = "get"
  /\ rq'[r].sums = rq[r].sums /\ rq'[r].seg = rq[r].seg

Gets(r) ==
  /\ Moves(r)
  /\ rq[r].cons = "get" /\ rq'[r].cons \in {"delete", "create"}
  /\ rq'[r].sums = IF row = NULL THEN <<Sum(rq[r].seg, rq[r].data)>>
                   ELSE Append(row.sums, Sum(rq[r].seg, rq[r].data))

Loads(r) ==
  /\ Moves(r)
  /\ rq[r].cons = "load" /\ rq'[r].cons = "sign"
  /\ row # NULL /\ rq'[r].sums = row.sums

Returns(r) ==
  /\ Moves(r)
  /\ rq[r].cons \in {"return", "answer"} /\ rq'[r].cons \in {"answer", "done"}
  /\ rq'[r].ok = rq[r].ok /\ rq'[r].sums = << >>

LEMMA PutPieceSteps ==
  ASSUME NEW r \in Requests, Handlers, PutPiece(r)
  PROVE  Stores(r) \/ Hands(r) \/ Consumes(r)
<1> DEFINE y == rq[r]
<1>1. /\ y \in Handler /\ PipeOK(y) /\ EndOK(y) /\ SumsOK(r, y)
      /\ y.cons = "put" /\ Runs(y)
  BY Zenon DEF Handlers, HandlerOK, PutPiece, Runs
<1> HIDE DEF y
<1>2. CASE r \in Plain /\ Set(r, [y EXCEPT !.sums = Append(y.sums, Sum(y.seg, y.data)),
           !.seg = y.seg + 1, !.cons = AfterSegment(r)])
  <2> DEFINE x == [y EXCEPT !.sums = Append(y.sums, Sum(y.seg, y.data)), !.seg = y.seg + 1,
                  !.cons = AfterSegment(r)]
  <2>0. /\ y.seg \in Nat /\ y.seg + 1 \in Nat
        /\ AfterSegment(r) \in ConsStates
        /\ Append(y.sums, Sum(y.seg, y.data)) \in Checksums
    BY <1>1, <1>2 DEF Handler, ProdStates, ConsStates, AfterSegment, AtEOF, Partial, y, Checksums,
       Data, Sum
  <2>1. x \in Handler /\ x.data = y.data
    BY <1>1, <1>2, <2>0, Zenon DEF Handler
  <2>2. PipeOK(x)
    BY <1>1, <1>2, BoundsAssumption, <2>0, Zenon DEF Handler, PipeOK, InSegment, EndOK, Partial,
       AfterSegment, AtEOF, Partial, y
  <2>3. EndOK(x)
    BY <1>1, <1>2, <2>0, Zenon DEF Handler, PipeOK, EndOK, InSegment, AfterSegment, AtEOF, Partial, y
  <2>4. SumsOK(r, x)
    BY <1>1, <1>2, <2>0, Zenon DEF Handler, SumsOK, AfterSegment, AtEOF, Partial, y
  <2>5. Set(r, x)
    BY <1>2, Zenon
  <2> HIDE DEF x
  <2>6. Moves(r) /\ rq'[r] = x
    BY <1>1, <2>1, <2>2, <2>3, <2>4, <2>5, Update, Zenon DEF HandlerOK, y
  <2> QED BY <1>1, <1>2, <2>6, Zenon DEF Handler, x, Consumes, Stores, Hands, AfterSegment, AtEOF,
             Partial, y
<1>3. CASE r \notin Plain /\ Set(r, [y EXCEPT !.cons = "get"])
  <2> DEFINE x == [y EXCEPT !.cons = "get"]
  <2>0. "get" \in ConsStates
    BY <1>1, <1>3, Zenon DEF Handler, ProdStates, ConsStates
  <2>1. x \in Handler /\ x.data = y.data
    BY <1>1, <1>3, <2>0, Zenon DEF Handler
  <2>2. PipeOK(x)
    BY <1>1, <1>3, BoundsAssumption, <2>0, Zenon DEF Handler, PipeOK, InSegment, EndOK, Partial
  <2>3. EndOK(x)
    BY <1>1, <1>3, <2>0, Zenon DEF Handler, PipeOK, EndOK, InSegment
  <2>4. SumsOK(r, x)
    BY <1>1, <1>3, <2>0, Zenon DEF Handler, SumsOK
  <2>5. Set(r, x)
    BY <1>3, Zenon
  <2> HIDE DEF x
  <2>6. Moves(r) /\ rq'[r] = x
    BY <1>1, <2>1, <2>2, <2>3, <2>4, <2>5, Update, Zenon DEF HandlerOK, y
  <2> QED BY <1>1, <1>3, <2>6, Zenon DEF Handler, x, Consumes, Stores, Hands, y
<1>4. CASE Set(r, Failed(r))
  BY <1>1, <1>4, FailedConsumes, Zenon DEF y
<1> QED BY <1>2, <1>3, <1>4, Zenon DEF PutPiece, y, MayFail, Contents

LEMMA AppendGetSteps ==
  ASSUME NEW r \in Requests, Handlers, AppendGet(r), RowOK
  PROVE  Gets(r) \/ Consumes(r)
<1> DEFINE y == rq[r]
<1>1. /\ y \in Handler /\ PipeOK(y) /\ EndOK(y) /\ SumsOK(r, y)
      /\ y.cons = "get" /\ Runs(y)
      /\ row # NULL => row.sums \in Checksums /\ row.signed \in BOOLEAN
  BY RowOK, Zenon DEF Handlers, HandlerOK, AppendGet, Runs, RowOK
<1> HIDE DEF y
<1>2. CASE row = NULL /\ Set(r, [y EXCEPT !.sums = <<Sum(y.seg, y.data)>>, !.signed = FALSE,
           !.cons = "create"])
  <2> DEFINE x == [y EXCEPT !.sums = <<Sum(y.seg, y.data)>>, !.signed = FALSE, !.cons = "create"]
  <2>0. /\ "create" \in ConsStates
        /\ <<Sum(y.seg, y.data)>> \in Checksums
    BY <1>1, <1>2 DEF Handler, ProdStates, ConsStates, Checksums, Data, Sum
  <2>1. x \in Handler /\ x.data = y.data
    BY <1>1, <1>2, <2>0, Zenon DEF Handler
  <2>2. PipeOK(x)
    BY <1>1, <1>2, BoundsAssumption, <2>0, Zenon DEF Handler, PipeOK, InSegment, EndOK, Partial
  <2>3. EndOK(x)
    BY <1>1, <1>2, <2>0, Zenon DEF Handler, PipeOK, EndOK, InSegment
  <2>4. SumsOK(r, x)
    BY <1>1, <1>2, <2>0, Zenon DEF Handler, SumsOK
  <2>5. Set(r, x)
    BY <1>2, Zenon
  <2> HIDE DEF x
  <2>6. Moves(r) /\ rq'[r] = x
    BY <1>1, <2>1, <2>2, <2>3, <2>4, <2>5, Update, Zenon DEF HandlerOK, y
  <2> QED BY <1>1, <1>2, <2>6, Zenon DEF Handler, x, Consumes, Gets, y
<1>3. CASE row # NULL /\ Set(r, [y EXCEPT !.sums = Append(row.sums, Sum(y.seg, y.data)),
           !.signed = row.signed, !.cons = "delete"])
  <2> DEFINE x == [y EXCEPT !.sums = Append(row.sums, Sum(y.seg, y.data)), !.signed = row.signed,
                  !.cons = "delete"]
  <2>0. /\ "delete" \in ConsStates
        /\ Append(row.sums, Sum(y.seg, y.data)) \in Checksums
    BY <1>1, <1>3 DEF Handler, ProdStates, ConsStates, Checksums, Data, Sum
  <2>1. x \in Handler /\ x.data = y.data
    BY <1>1, <1>3, <2>0, Zenon DEF Handler
  <2>2. PipeOK(x)
    BY <1>1, <1>3, BoundsAssumption, <2>0, Zenon DEF Handler, PipeOK, InSegment, EndOK, Partial
  <2>3. EndOK(x)
    BY <1>1, <1>3, <2>0, Zenon DEF Handler, PipeOK, EndOK, InSegment
  <2>4. SumsOK(r, x)
    BY <1>1, <1>3, <2>0, Zenon DEF Handler, SumsOK
  <2>5. Set(r, x)
    BY <1>3, Zenon
  <2> HIDE DEF x
  <2>6. Moves(r) /\ rq'[r] = x
    BY <1>1, <2>1, <2>2, <2>3, <2>4, <2>5, Update, Zenon DEF HandlerOK, y
  <2> QED BY <1>1, <1>3, <2>6, Zenon DEF Handler, x, Consumes, Gets, y
<1>4. CASE Set(r, Failed(r))
  BY <1>1, <1>4, FailedConsumes, Zenon DEF y
<1> QED BY <1>2, <1>3, <1>4, Zenon DEF AppendGet, y, MayFail, Contents

LEMMA AppendDeleteSteps ==
  ASSUME NEW r \in Requests, Handlers, AppendDelete(r)
  PROVE  Consumes(r)
<1> DEFINE y == rq[r]
<1>1. /\ y \in Handler /\ PipeOK(y) /\ EndOK(y) /\ SumsOK(r, y)
      /\ y.cons = "delete" /\ Runs(y)
  BY Zenon DEF Handlers, HandlerOK, AppendDelete, Runs
<1> HIDE DEF y
<1>2. CASE Set(r, [y EXCEPT !.cons = "create"])
  <2> DEFINE x == [y EXCEPT !.cons = "create"]
  <2>0. "create" \in ConsStates
    BY <1>1, <1>2, Zenon DEF Handler, ProdStates, ConsStates
  <2>1. x \in Handler /\ x.data = y.data
    BY <1>1, <1>2, <2>0, Zenon DEF Handler
  <2>2. PipeOK(x)
    BY <1>1, <1>2, BoundsAssumption, <2>0, Zenon DEF Handler, PipeOK, InSegment, EndOK, Partial
  <2>3. EndOK(x)
    BY <1>1, <1>2, <2>0, Zenon DEF Handler, PipeOK, EndOK, InSegment
  <2>4. SumsOK(r, x)
    BY <1>1, <1>2, <2>0, Zenon DEF Handler, SumsOK
  <2>5. Set(r, x)
    BY <1>2, Zenon
  <2> HIDE DEF x
  <2>6. Moves(r) /\ rq'[r] = x
    BY <1>1, <2>1, <2>2, <2>3, <2>4, <2>5, Update, Zenon DEF HandlerOK, y
  <2> QED BY <1>1, <1>2, <2>6, Zenon DEF Handler, x, Consumes, y
<1> QED BY <1>2, Zenon DEF AppendDelete, y, MayFail

LEMMA AppendSetSteps ==
  ASSUME NEW r \in Requests, Handlers, AppendSet(r)
  PROVE  Consumes(r)
<1> DEFINE y == rq[r]
<1>1. /\ y \in Handler /\ PipeOK(y) /\ EndOK(y) /\ SumsOK(r, y)
      /\ y.cons = "create" /\ Runs(y)
  BY Zenon DEF Handlers, HandlerOK, AppendSet, Runs
<1> HIDE DEF y
<1>2. CASE Set(r, [y EXCEPT !.seg = y.seg + 1, !.cons = AfterSegment(r)])
  <2> DEFINE x == [y EXCEPT !.seg = y.seg + 1, !.cons = AfterSegment(r)]
  <2>0. /\ y.seg \in Nat /\ y.seg + 1 \in Nat
        /\ AfterSegment(r) \in ConsStates
    BY <1>1, <1>2 DEF Handler, ProdStates, ConsStates, AfterSegment, AtEOF, Partial, y
  <2>1. x \in Handler /\ x.data = y.data
    BY <1>1, <1>2, <2>0, Zenon DEF Handler
  <2>2. PipeOK(x)
    BY <1>1, <1>2, BoundsAssumption, <2>0, Zenon DEF Handler, PipeOK, InSegment, EndOK, Partial,
       AfterSegment, AtEOF, Partial, y
  <2>3. EndOK(x)
    BY <1>1, <1>2, <2>0, Zenon DEF Handler, PipeOK, EndOK, InSegment, AfterSegment, AtEOF, Partial, y
  <2>4. SumsOK(r, x)
    BY <1>1, <1>2, <2>0, Zenon DEF Handler, SumsOK, AfterSegment, AtEOF, Partial, y
  <2>5. Set(r, x)
    BY <1>2, Zenon
  <2> HIDE DEF x
  <2>6. Moves(r) /\ rq'[r] = x
    BY <1>1, <2>1, <2>2, <2>3, <2>4, <2>5, Update, Zenon DEF HandlerOK, y
  <2> QED BY <1>1, <1>2, <2>6, Zenon DEF Handler, x, Consumes, AfterSegment, AtEOF, Partial, y
<1>3. CASE Set(r, Failed(r))
  BY <1>1, <1>3, FailedConsumes, Zenon DEF y
<1> QED BY <1>2, <1>3, Zenon DEF AppendSet, y, MayFail

LEMMA GetObjectIntegritySteps ==
  ASSUME NEW r \in Requests, Handlers, GetObjectIntegrity(r), RowOK
  PROVE  Loads(r) \/ Consumes(r)
<1> DEFINE y == rq[r]
<1>1. /\ y \in Handler /\ PipeOK(y) /\ EndOK(y) /\ SumsOK(r, y)
      /\ y.cons = "load" /\ Runs(y)
      /\ row # NULL => row.sums \in Checksums /\ row.signed \in BOOLEAN
  BY RowOK, Zenon DEF Handlers, HandlerOK, GetObjectIntegrity, Runs, RowOK
<1> HIDE DEF y
<1>2. CASE row # NULL /\ Set(r, [y EXCEPT !.sums = row.sums, !.cons = "sign"])
  <2> DEFINE x == [y EXCEPT !.sums = row.sums, !.cons = "sign"]
  <2>0. "sign" \in ConsStates
    BY <1>1, <1>2, Zenon DEF Handler, ProdStates, ConsStates
  <2>1. x \in Handler /\ x.data = y.data
    BY <1>1, <1>2, <2>0, Zenon DEF Handler
  <2>2. PipeOK(x)
    BY <1>1, <1>2, BoundsAssumption, <2>0, Zenon DEF Handler, PipeOK, InSegment, EndOK, Partial
  <2>3. EndOK(x)
    BY <1>1, <1>2, <2>0, Zenon DEF Handler, PipeOK, EndOK, InSegment
  <2>4. SumsOK(r, x)
    BY <1>1, <1>2, <2>0, Zenon DEF Handler, SumsOK
  <2>5. Set(r, x)
    BY <1>2, Zenon
  <2> HIDE DEF x
  <2>6. Moves(r) /\ rq'[r] = x
    BY <1>1, <2>1, <2>2, <2>3, <2>4, <2>5, Update, Zenon DEF HandlerOK, y
  <2> QED BY <1>1, <1>2, <2>6, Zenon DEF Handler, x, Consumes, Loads, y
<1>3. CASE Set(r, Failed(r))
  BY <1>1, <1>3, FailedConsumes, Zenon DEF y
<1> QED BY <1>2, <1>3, Zenon DEF GetObjectIntegrity, y, MayFail

LEMMA SignIntegrityHashSteps ==
  ASSUME NEW r \in Requests, Handlers, SignIntegrityHash(r)
  PROVE  Consumes(r)
<1> DEFINE y == rq[r]
<1>1. /\ y \in Handler /\ PipeOK(y) /\ EndOK(y) /\ SumsOK(r, y)
      /\ y.cons = "sign" /\ Runs(y)
  BY Zenon DEF Handlers, HandlerOK, SignIntegrityHash, Runs
<1> HIDE DEF y
<1>2. CASE y.sums = Expected /\ Set(r, [y EXCEPT !.cons = "save"])
  <2> DEFINE x == [y EXCEPT !.cons = "save"]
  <2>0. "save" \in ConsStates
    BY <1>1, <1>2, Zenon DEF Handler, ProdStates, ConsStates
  <2>1. x \in Handler /\ x.data = y.data
    BY <1>1, <1>2, <2>0, Zenon DEF Handler
  <2>2. PipeOK(x)
    BY <1>1, <1>2, BoundsAssumption, <2>0, Zenon DEF Handler, PipeOK, InSegment, EndOK, Partial
  <2>3. EndOK(x)
    BY <1>1, <1>2, <2>0, Zenon DEF Handler, PipeOK, EndOK, InSegment
  <2>4. SumsOK(r, x)
    BY <1>1, <1>2, <2>0, Zenon DEF Handler, SumsOK
  <2>5. Set(r, x)
    BY <1>2, Zenon
  <2> HIDE DEF x
  <2>6. Moves(r) /\ rq'[r] = x
    BY <1>1, <2>1, <2>2, <2>3, <2>4, <2>5, Update, Zenon DEF HandlerOK, y
  <2> QED BY <1>1, <1>2, <2>6, Zenon DEF Handler, x, Consumes, y
<1>3. CASE Set(r, Failed(r))
  BY <1>1, <1>3, FailedConsumes, Zenon DEF y
<1> QED BY <1>2, <1>3, Zenon DEF SignIntegrityHash, y, MayFail, IntegrityEqual

LEMMA SaveIntegritySteps ==
  ASSUME NEW r \in Requests, Handlers, SaveIntegrity(r)
  PROVE  Consumes(r)
<1> DEFINE y == rq[r]
<1>1. /\ y \in Handler /\ PipeOK(y) /\ EndOK(y) /\ SumsOK(r, y)
      /\ y.cons = "save" /\ Runs(y)
  BY Zenon DEF Handlers, HandlerOK, SaveIntegrity, Runs
<1> HIDE DEF y
<1>2. CASE Set(r, [y EXCEPT !.cons = "report"])
  <2> DEFINE x == [y EXCEPT !.cons = "report"]
  <2>0. "report" \in ConsStates
    BY <1>1, <1>2, Zenon DEF Handler, ProdStates, ConsStates
  <2>1. x \in Handler /\ x.data = y.data
    BY <1>1, <1>2, <2>0, Zenon DEF Handler
  <2>2. PipeOK(x)
    BY <1>1, <1>2, BoundsAssumption, <2>0, Zenon DEF Handler, PipeOK, InSegment, EndOK, Partial
  <2>3. EndOK(x)
    BY <1>1, <1>2, <2>0, Zenon DEF Handler, PipeOK, EndOK, InSegment
  <2>4. SumsOK(r, x)
    BY <1>1, <1>2, <2>0, Zenon DEF Handler, SumsOK
  <2>5. Set(r, x)
    BY <1>2, Zenon
  <2> HIDE DEF x
  <2>6. Moves(r) /\ rq'[r] = x
    BY <1>1, <2>1, <2>2, <2>3, <2>4, <2>5, Update, Zenon DEF HandlerOK, y
  <2> QED BY <1>1, <1>2, <2>6, Zenon DEF Handler, x, Consumes, y
<1>3. CASE Set(r, Failed(r))
  BY <1>1, <1>3, FailedConsumes, Zenon DEF y
<1> QED BY <1>2, <1>3, Zenon DEF SaveIntegrity, y, MayFail

LEMMA ReportTaskSteps ==
  ASSUME NEW r \in Requests, Handlers, ReportTask(r)
  PROVE  Consumes(r) /\ rq'[r].cons = "return" /\ rq'[r].ok = rq[r].ok
<1> DEFINE y == rq[r]
<1>1. /\ y \in Handler /\ PipeOK(y) /\ EndOK(y) /\ SumsOK(r, y)
      /\ y.cons = "report" /\ Runs(y)
  BY Zenon DEF Handlers, HandlerOK, ReportTask, Runs
<1> HIDE DEF y
<1>2. CASE Set(r, [y EXCEPT !.cons = "return"])
  <2> DEFINE x == [y EXCEPT !.cons = "return"]
  <2>0. "return" \in ConsStates
    BY <1>1, <1>2, Zenon DEF Handler, ProdStates, ConsStates
  <2>1. x \in Handler /\ x.data = y.data
    BY <1>1, <1>2, <2>0, Zenon DEF Handler
  <2>2. PipeOK(x)
    BY <1>1, <1>2, BoundsAssumption, <2>0, Zenon DEF Handler, PipeOK, InSegment, EndOK, Partial
  <2>3. EndOK(x)
    BY <1>1, <1>2, <2>0, Zenon DEF Handler, PipeOK, EndOK, InSegment
  <2>4. SumsOK(r, x)
    BY <1>1, <1>2, <2>0, Zenon DEF Handler, SumsOK
  <2>5. Set(r, x)
    BY <1>2, Zenon
  <2> HIDE DEF x
  <2>6. Moves(r) /\ rq'[r] = x
    BY <1>1, <2>1, <2>2, <2>3, <2>4, <2>5, Update, Zenon DEF HandlerOK, y
  <2> QED BY <1>1, <1>2, <2>6, Zenon DEF Handler, x, Consumes, y
<1> QED BY <1>2, Zenon DEF ReportTask, y, MayFail

LEMMA ReturnSteps ==
  ASSUME NEW r \in Requests, Handlers, Return(r)
  PROVE  Returns(r)
<1> DEFINE y == rq[r]
<1>1. /\ y \in Handler /\ PipeOK(y) /\ EndOK(y) /\ SumsOK(r, y)
      /\ y.cons = "return" /\ Runs(y)
  BY Zenon DEF Handlers, HandlerOK, Return, Runs
<1> HIDE DEF y
<1>2. CASE Set(r, NoLocals([y EXCEPT !.cons = "answer", !.err = ~ y.ok,
           !.pipe = IF y.ok THEN y.pipe ELSE Closed(r, "error")]))
  <2> DEFINE x == NoLocals([y EXCEPT !.cons = "answer", !.err = ~ y.ok,
                  !.pipe = IF y.ok THEN y.pipe ELSE Closed(r, "error")])
  <2>0. /\ "answer" \in ConsStates
        /\ Closed(r, "error") \in {"open", "eof", "error"}
        /\ << >> \in Checksums
    BY <1>1, <1>2 DEF Handler, ProdStates, ConsStates, NoLocals, Closed, y, Checksums, Data, Sum
  <2>1. x \in Handler /\ x.data = y.data
    BY <1>1, <1>2, <2>0, Zenon DEF Handler, NoLocals
  <2>2. PipeOK(x)
    BY <1>1, <1>2, BoundsAssumption, <2>0, Zenon DEF Handler, PipeOK, InSegment, EndOK, Partial,
       NoLocals, Closed, y
  <2>3. EndOK(x)
    BY <1>1, <1>2, <2>0, Zenon DEF Handler, PipeOK, EndOK, InSegment, NoLocals, Closed, y
  <2>4. SumsOK(r, x)
    BY <1>1, <1>2, <2>0, Zenon DEF Handler, SumsOK, NoLocals, Closed, y
  <2>5. Set(r, x)
    BY <1>2, Zenon
  <2> HIDE DEF x
  <2>6. Moves(r) /\ rq'[r] = x
    BY <1>1, <2>1, <2>2, <2>3, <2>4, <2>5, Update, Zenon DEF HandlerOK, y
  <2> QED BY <1>1, <1>2, <2>6, Zenon DEF Handler, x, Returns, NoLocals, Closed, y
<1> QED BY <1>2, Zenon DEF Return, y, MayFail

LEMMA SendAndCloseSteps ==
  ASSUME NEW r \in Requests, Handlers, SendAndClose(r)
  PROVE  Returns(r)
<1> DEFINE y == rq[r]
<1>1. /\ y \in Handler /\ PipeOK(y) /\ EndOK(y) /\ SumsOK(r, y)
      /\ y.cons = "answer" /\ Runs(y)
  BY Zenon DEF Handlers, HandlerOK, SendAndClose, Runs
<1> HIDE DEF y
<1>2. CASE Set(r, [y EXCEPT !.cons = "done", !.span = FALSE,
           !.answer = IF y.err THEN "error" ELSE "ok"])
  <2> DEFINE x == [y EXCEPT !.cons = "done", !.span = FALSE,
                  !.answer = IF y.err THEN "error" ELSE "ok"]
  <2>0. "done" \in ConsStates
    BY <1>1, <1>2, Zenon DEF Handler, ProdStates, ConsStates
  <2>1. x \in Handler /\ x.data = y.data
    BY <1>1, <1>2, <2>0, Zenon DEF Handler
  <2>2. PipeOK(x)
    BY <1>1, <1>2, BoundsAssumption, <2>0, Zenon DEF Handler, PipeOK, InSegment, EndOK, Partial
  <2>3. EndOK(x)
    BY <1>1, <1>2, <2>0, Zenon DEF Handler, PipeOK, EndOK, InSegment
  <2>4. SumsOK(r, x)
    BY <1>1, <1>2, <2>0, Zenon DEF Handler, SumsOK
  <2>5. Set(r, x)
    BY <1>2, Zenon
  <2> HIDE DEF x
  <2>6. Moves(r) /\ rq'[r] = x
    BY <1>1, <2>1, <2>2, <2>3, <2>4, <2>5, Update, Zenon DEF HandlerOK, y
  <2> QED BY <1>1, <1>2, <2>6, Zenon DEF Handler, SumsOK, x, Returns, y
<1> QED BY <1>2, Zenon DEF SendAndClose, y, MayFail

------------------------------------------------------------------------------
(* The first part of the invariant *)

\* A request of a client begins.
Begins(r) ==
  /\ rq' = [rq EXCEPT ![r] = rq'[r]]
  /\ HandlerOK(r, rq'[r])
  /\ rq[r].cons = "none" /\ rq'[r].cons = "wait" /\ rq'[r].prod = "recv"
  /\ rq'[r].sums = << >>
  /\ MayBegin(rq'[r].data)

LEMMA BeginBegins ==
  ASSUME NEW r \in Requests, Handlers, NEW from \in Nat, NEW to \in Nat, Begin(r, from, to)
  PROVE  Begins(r)
<1> DEFINE y == rq[r]
<1>1. y \in Handler /\ PipeOK(y) /\ EndOK(y) /\ SumsOK(r, y) /\ y.cons = "none"
  BY Zenon DEF Handlers, HandlerOK, Begin
<1>2. PICK data \in {"good"} \cup (IF r \in Wrong THEN {"bad"} ELSE {}) :
        /\ MayBegin(data)
        /\ Set(r, [y EXCEPT !.data = data, !.off = from, !.end = to, !.complete = (to = NSeg),
                            !.sent = from, !.seg = from, !.prod = "recv", !.cons = "wait"])
  BY Zenon DEF Begin
<1> DEFINE x == [y EXCEPT !.data = data, !.off = from, !.end = to, !.complete = (to = NSeg),
                          !.sent = from, !.seg = from, !.prod = "recv", !.cons = "wait"]
<1>3. Set(r, x)
  BY <1>2, Zenon
<1> HIDE DEF y
<1>4. data \in Data /\ (data = "bad" => r \in Wrong)
  BY <1>2, Zenon DEF Data
<1>5. /\ x \in Handler /\ x.data = data /\ x.cons = "wait" /\ x.prod = "recv"
  <2>1. "recv" \in ProdStates /\ "wait" \in ConsStates /\ (to = NSeg) \in BOOLEAN
    BY Zenon DEF ProdStates, ConsStates
  <2> QED BY <1>1, <1>4, <2>1, Zenon DEF Handler
<1>6. PipeOK(x)
  BY <1>1, Zenon DEF Handler, PipeOK, InSegment
<1>7. EndOK(x)
  BY <1>1, Zenon DEF Handler, PipeOK, EndOK
<1>8. SumsOK(r, x) /\ x.sums = << >>
  BY <1>1, <1>4, Zenon DEF Handler, SumsOK
<1> HIDE DEF x
<1> QED BY <1>1, <1>2, <1>3, <1>5, <1>6, <1>7, <1>8, Zenon DEF Begins, HandlerOK, Handlers, Set, y

LEMMA ClientBegins ==
  ASSUME NEW r \in Requests, HandlersInv, PutObject(r) \/ ResumablePutObject(r)
  PROVE  Begins(r) /\ UNCHANGED world
<1>1. ResumeOffset \in Nat
  BY DEF HandlersInv, RowOK, ResumeOffset, Checksums
<1>2. NSeg \in Nat /\ (\A to \in ResumeOffset + 1 .. NSeg : to \in Nat)
  BY <1>1, BoundsAssumption
<1>3. CASE PutObject(r)
  BY <1>2, <1>3, BeginBegins, Zenon DEF PutObject, HandlersInv, Begin
<1>4. CASE ResumablePutObject(r)
  <2>1. PICK to \in ResumeOffset + 1 .. NSeg : Begin(r, ResumeOffset, to)
    BY <1>4, Zenon DEF ResumablePutObject
  <2> QED BY <1>1, <1>2, <2>1, BeginBegins, Zenon DEF HandlersInv, Begin
<1> QED BY <1>3, <1>4, Zenon

LEMMA HandlersKept ==
  ASSUME NEW r \in Requests, Handlers, Moves(r) \/ Begins(r)
  PROVE  Handlers' /\ \A q \in Requests \ {r} : rq'[q] = rq[q]
BY Zenon DEF Handlers, Moves, Begins, HandlerOK

LEMMA ReportsKept ==
  ASSUME NEW r \in Requests, HandlersInv, Moves(r) \/ Begins(r),
    reported' \subseteq reported \cup {r},
         r \in reported' => rq'[r].ok /\ rq'[r].cons \in {"return", "answer", "done"}
  PROVE  Reports'
BY HandlersKept, Zenon DEF HandlersInv, Reports

LEMMA RowNull == RowOK /\ row' = NULL => RowOK'
BY Zenon DEF RowOK

LEMMA RowSet ==
  ASSUME RowOK, NEW sums \in Checksums, NEW signed \in BOOLEAN,
         SetObjectIntegrity([sums |-> sums, signed |-> signed])
  PROVE  RowOK'
BY Zenon DEF RowOK, SetObjectIntegrity

LEMMA ProducerSteps ==
  ASSUME NEW r \in Requests, Handlers, Producer(r)
  PROVE  Produces(r) /\ UNCHANGED <<pieces, row, reported>>
<1>1. Produces(r)
  BY RecvProduces, ReserveResourceProduces, PreUploadObjectProduces, CreateUploadObjectProduces,
     SignalProduces, WriteFailsProduces, Zenon DEF Producer
<1> QED BY <1>1, Zenon DEF Producer, Recv, ReserveResource, PreUploadObject, CreateUploadObject, Signal,
                    WriteFails, world

LEMMA ProducerKeepsHandlers ==
  ASSUME NEW r \in Requests, HandlersInv, Producer(r)
  PROVE  HandlersInv'
<1>1. Produces(r) /\ Moves(r) /\ UNCHANGED <<pieces, row, reported>>
  BY ProducerSteps, Zenon DEF Produces, HandlersInv
<1>2. Handlers'
  BY <1>1, HandlersKept, Zenon DEF HandlersInv
<1>3. RowOK'
  BY <1>1, Zenon DEF HandlersInv, RowOK
<1>4. Reports'
  BY <1>1, ReportsKept, Zenon DEF HandlersInv, Reports, Produces
<1> QED BY <1>2, <1>3, <1>4, Zenon DEF HandlersInv

\* The steps of a consumer, apart from what they do to the table and the pieces.
Consumers(r) ==
  Consumes(r) \/ Stores(r) \/ Hands(r) \/ Gets(r) \/ Loads(r) \/ Returns(r)

LEMMA ConsumerSteps ==
  ASSUME NEW r \in Requests, HandlersInv, Consumer(r)
  PROVE  Consumers(r)
BY PushConsumes, ReadConsumes, ReadMoreConsumes, PutPieceSteps, AppendGetSteps,
   AppendDeleteSteps, AppendSetSteps, GetObjectIntegritySteps, SignIntegrityHashSteps,
   SaveIntegritySteps, ReportTaskSteps, ReturnSteps, SendAndCloseSteps, Zenon
   DEF HandlersInv, Consumer, Consumers

LEMMA ConsumerRow ==
  ASSUME NEW r \in Requests, HandlersInv, Consumer(r)
  PROVE  \/ UNCHANGED row
         \/ row' = NULL
         \/ /\ rq[r].cons = "create"
            /\ SetObjectIntegrity([sums |-> rq[r].sums, signed |-> rq[r].signed])
         \/ /\ rq[r].cons = "save"
            /\ SetObjectIntegrity([sums |-> rq[r].sums, signed |-> TRUE])
BY Zenon DEF Consumer, Push, Read, ReadMore, PutPiece, AppendGet, AppendDelete, AppendSet,
   GetObjectIntegrity, SignIntegrityHash, SaveIntegrity, ReportTask, Return, SendAndClose, world

LEMMA ConsumerReported ==
  ASSUME NEW r \in Requests, HandlersInv, Consumer(r)
  PROVE  \/ UNCHANGED reported
         \/ ReportTask(r) /\ reported' = reported \cup Outcome(r)
              /\ (r \in Plain \/ rq[r].complete) /\ UNCHANGED <<row, pieces>>
BY Zenon DEF Consumer, Push, Read, ReadMore, PutPiece, AppendGet, AppendDelete, AppendSet,
   GetObjectIntegrity, SignIntegrityHash, SaveIntegrity, ReportTask, Return, SendAndClose, world

LEMMA ConsumerKeepsHandlers ==
  ASSUME NEW r \in Requests, HandlersInv, Consumer(r)
  PROVE  HandlersInv'
<1>1. Consumers(r) /\ Moves(r)
  BY ConsumerSteps, Zenon DEF Consumers, Consumes, Stores, Hands, Gets, Loads, Returns
<1>2. Handlers'
  BY <1>1, HandlersKept, Zenon DEF HandlersInv
<1>3. RowOK'
  <2>1. rq[r].sums \in Checksums /\ rq[r].signed \in BOOLEAN
    BY Zenon DEF HandlersInv, Handlers, Handler
  <2> QED BY <2>1, ConsumerRow, RowSet, RowNull, Zenon DEF HandlersInv, RowOK
<1>4. Reports'
  <2>1. CASE UNCHANGED reported
    <3>1. r \in reported => rq[r].ok /\ rq[r].cons \in {"return", "answer", "done"}
      BY Zenon DEF HandlersInv, Reports
    <3>2. r \in reported => Returns(r)
      BY <1>1, <3>1, Zenon DEF Consumers, Consumes, Stores, Hands, Gets, Loads
    <3> QED BY <1>1, <2>1, <3>1, <3>2, ReportsKept, Zenon DEF Returns
  <2>2. CASE ReportTask(r) /\ reported' = reported \cup Outcome(r)
    <3>1. rq'[r].cons = "return" /\ rq'[r].ok = rq[r].ok /\ rq[r].cons = "report"
      BY <2>2, ReportTaskSteps, Zenon DEF HandlersInv, ReportTask
    <3>2. r \in reported' => rq[r].ok
      BY <2>2, <3>1, Zenon DEF HandlersInv, Reports, Outcome
    <3> QED BY <1>1, <2>2, <3>1, <3>2, ReportsKept, Zenon DEF Outcome
  <2> QED BY <2>1, <2>2, ConsumerReported, Zenon
<1> QED BY <1>2, <1>3, <1>4, Zenon DEF HandlersInv

LEMMA CrashHandlers ==
  ASSUME Handlers, Crash
  PROVE  /\ Handlers'
         /\ \A r \in Requests :
              /\ ~ Runs(rq'[r]) /\ ~ Created(rq'[r]) /\ rq'[r].sums = << >> /\ rq'[r].cons # "get"
              /\ rq[r].cons = "done" => rq'[r].ok = rq[r].ok /\ rq'[r].cons = "done"
              /\ rq[r].cons \notin {"none", "done"} => rq'[r].ok /\ rq'[r].cons = "done"
<1> DEFINE x(r) == IF rq[r].cons = "none" THEN rq[r]
                   ELSE IF rq[r].cons = "done" THEN [rq[r] EXCEPT !.prod = "end"]
                   ELSE [NewHandler EXCEPT !.prod = "end", !.cons = "done", !.answer = "lost"]
<1>1. rq' = [r \in Requests |-> x(r)]
  BY Zenon DEF Crash
<1> SUFFICES ASSUME NEW r \in Requests
             PROVE  /\ HandlerOK(r, x(r))
                    /\ ~ Runs(x(r)) /\ ~ Created(x(r)) /\ x(r).sums = << >> /\ x(r).cons # "get"
                    /\ rq[r].cons = "done" => x(r).ok = rq[r].ok /\ x(r).cons = "done"
                    /\ rq[r].cons \notin {"none", "done"} => x(r).ok /\ x(r).cons = "done"
  BY <1>1, Zenon DEF Handlers, HandlerOK
<1> DEFINE y == rq[r]
<1>2. y \in Handler /\ PipeOK(y) /\ EndOK(y) /\ SumsOK(r, y)
  BY Zenon DEF Handlers, HandlerOK
<1>3. CASE y.cons = "none"
  BY <1>2, <1>3, Zenon DEF HandlerOK, PipeOK, SumsOK, Runs, Created
<1>4. CASE y.cons = "done"
  <2> DEFINE z == [y EXCEPT !.prod = "end"]
  <2>1. x(r) = z
    BY <1>4, Zenon
  <2> HIDE DEF y
  <2>2. z \in Handler /\ z.ok = y.ok /\ z.cons = "done" /\ z.prod = "end" /\ z.sums = y.sums
    BY <1>2, <1>4, Zenon DEF Handler, ProdStates
  <2>3. PipeOK(z)
    BY <1>2, <1>4, Zenon DEF Handler, PipeOK, InSegment
  <2>4. EndOK(z)
    BY <1>2, <1>4, Zenon DEF Handler, EndOK
  <2>5. SumsOK(r, z) /\ y.sums = << >>
    BY <1>2, <1>4, Zenon DEF Handler, SumsOK
  <2> HIDE DEF z
  <2> QED BY <1>4, <2>1, <2>2, <2>3, <2>4, <2>5, Zenon DEF HandlerOK, Runs, Created, y
<1>5. CASE y.cons \notin {"none", "done"}
  <2> DEFINE z == [NewHandler EXCEPT !.prod = "end", !.cons = "done", !.answer = "lost"]
  <2>1. x(r) = z
    BY <1>5, Zenon
  <2>2. z \in Handler /\ z.ok /\ z.cons = "done" /\ z.prod = "end" /\ z.sums = << >>
    <3>1. << >> \in Checksums /\ 0 \in Nat /\ "good" \in Data
      BY DEF Checksums, Data
    <3> QED BY <3>1, Zenon DEF NewHandler, Handler, ProdStates, ConsStates
  <2>3. PipeOK(z)
    BY Zenon DEF NewHandler, PipeOK, InSegment
  <2>4. EndOK(z)
    BY Zenon DEF NewHandler, EndOK
  <2>5. SumsOK(r, z)
    BY Zenon DEF NewHandler, SumsOK
  <2> HIDE DEF z
  <2> QED BY <1>5, <2>1, <2>2, <2>3, <2>4, <2>5, Zenon DEF HandlerOK, Runs, Created, y
<1> QED BY <1>3, <1>4, <1>5, Zenon

LEMMA InitHandlers == Init => HandlersInv
<1> SUFFICES ASSUME Init
             PROVE  HandlersInv
  BY Zenon
<1>1. NewHandler \in Handler
  BY DEF NewHandler, Handler, ProdStates, ConsStates, Data, Checksums
<1>2. PipeOK(NewHandler) /\ EndOK(NewHandler)
  BY Zenon DEF NewHandler, PipeOK, EndOK, InSegment
<1>3. \A r \in Requests : SumsOK(r, NewHandler)
  BY Zenon DEF NewHandler, SumsOK
<1> QED BY <1>1, <1>2, <1>3, Zenon DEF Init, HandlersInv, Handlers, HandlerOK, RowOK, Reports

LEMMA HandlersStep == HandlersInv /\ [Next]_vars => HandlersInv'
<1> SUFFICES ASSUME HandlersInv, [Next]_vars
             PROVE  HandlersInv'
  BY Zenon
<1>1. ASSUME NEW r \in Requests, PutObject(r) \/ ResumablePutObject(r)
      PROVE  HandlersInv'
  <2>1. Begins(r) /\ UNCHANGED <<row, reported>>
    BY <1>1, ClientBegins, Zenon DEF world
  <2>2. Handlers'
    BY <2>1, HandlersKept, Zenon DEF HandlersInv
  <2>3. r \notin reported
    BY <2>1, Zenon DEF HandlersInv, Reports, Begins
  <2>4. Reports'
    BY <2>1, <2>3, ReportsKept, Zenon
  <2> QED BY <2>1, <2>2, <2>4, Zenon DEF HandlersInv, RowOK
<1>2. ASSUME NEW r \in Requests, Producer(r)
      PROVE  HandlersInv'
  BY <1>2, ProducerKeepsHandlers, Zenon
<1>3. ASSUME NEW r \in Requests, Consumer(r)
      PROVE  HandlersInv'
  BY <1>3, ConsumerKeepsHandlers, Zenon
<1>4. CASE Crash
  <2>1. Handlers'
    BY <1>4, CrashHandlers, Zenon DEF HandlersInv
  <2>2. RowOK' /\ Reports'
    BY <1>4, CrashHandlers, Zenon DEF HandlersInv, RowOK, Reports, Crash
  <2> QED BY <2>1, <2>2, Zenon DEF HandlersInv
<1>5. CASE UNCHANGED <<rq, row, reported>>
  BY <1>5, Zenon DEF HandlersInv, Handlers, RowOK, Reports
<1> QED BY <1>1, <1>2, <1>3, <1>4, <1>5, Zenon DEF Next, GCUploadObjectQueue, vars

\* For all numbers of requests, segments and failures: the handler that answers an
\* error (SendAndClose in GfSpUploadObject) has reported its task to the manager with
\* that error, or not at all.
THEOREM ErrorIsNotAcceptedHolds == Spec => []ErrorIsNotAccepted
<1>1. HandlersInv => ErrorIsNotAccepted
  BY Zenon DEF HandlersInv, Handlers, HandlerOK, EndOK, Reports, ErrorIsNotAccepted
<1> QED BY <1>1, InitHandlers, HandlersStep, PTL DEF Spec

------------------------------------------------------------------------------
(* What is recorded is stored *)

LEMMA ExpectedGood ==
  /\ ~ AllBad(Expected)
  /\ \A p : Vouched(p, Expected) => \A i \in Segments : p[i] = "good"
<1>1. Len(Expected) = NSeg /\ 1 \in 1..NSeg
  BY BoundsAssumption DEF Expected
<1>2. \A n \in 1..NSeg : Expected[n][1] = n - 1 /\ Expected[n][2] = "good"
  BY BoundsAssumption, Zenon DEF Expected, Sum
<1>3. ~ AllBad(Expected)
  BY <1>1, <1>2, Zenon DEF AllBad
<1>4. ASSUME NEW p, Vouched(p, Expected), NEW i \in Segments
      PROVE  p[i] = "good"
  <2>1. i + 1 \in 1..NSeg /\ (i + 1) - 1 = i
    BY BoundsAssumption DEF Segments
  <2>2. Expected[i + 1][1] = i /\ Expected[i + 1][2] = "good"
    BY <1>2, <2>1, Zenon
  <2> QED BY <1>1, <1>4, <2>1, <2>2, Zenon DEF Vouched
<1> QED BY <1>3, <1>4, Zenon

LEMMA NoneVouched == \A p : Vouched(p, << >>) /\ AllBad(<< >>)
BY DEF Vouched, AllBad

LEMMA BadVouched == \A p, sums : AllBad(sums) => Vouched(p, sums)
BY Zenon DEF Vouched, AllBad

LEMMA AppendLast ==
  ASSUME NEW sums \in Checksums, NEW seg \in Nat, NEW c \in Data
  PROVE  LET t == Append(sums, Sum(seg, c))
         IN  /\ t \in Checksums /\ Len(t) = Len(sums) + 1 /\ Len(sums) \in Nat
             /\ t[Len(sums) + 1][1] = seg /\ t[Len(sums) + 1][2] = c
             /\ \A n \in 1..Len(sums) : t[n] = sums[n]
BY DEF Checksums, Sum

LEMMA VouchedAppend ==
  ASSUME NEW p, NEW sums \in Checksums, NEW seg \in Nat, NEW c \in Data, Vouched(p, sums),
         c = "good" /\ seg \in Segments => p[seg] = "good"
  PROVE  Vouched(p, Append(sums, Sum(seg, c)))
<1> DEFINE t == Append(sums, Sum(seg, c))
<1>1. /\ Len(t) = Len(sums) + 1 /\ Len(sums) \in Nat
      /\ t[Len(sums) + 1][1] = seg /\ t[Len(sums) + 1][2] = c
      /\ \A n \in 1..Len(sums) : t[n] = sums[n]
  BY AppendLast
<1> HIDE DEF t
<1> SUFFICES ASSUME NEW n \in 1..Len(t), t[n][2] = "good", t[n][1] \in Segments
             PROVE  p[t[n][1]] = "good"
  BY Zenon DEF Vouched, t
<1>2. n \in 1..Len(sums) \/ n = Len(sums) + 1
  BY <1>1
<1>3. CASE n \in 1..Len(sums)
  BY <1>1, <1>3, Zenon DEF Vouched
<1>4. CASE n = Len(sums) + 1
  BY <1>1, <1>4, Zenon
<1> QED BY <1>2, <1>3, <1>4, Zenon

LEMMA BadAppend ==
  ASSUME NEW sums \in Checksums, NEW seg \in Nat, AllBad(sums)
  PROVE  AllBad(Append(sums, Sum(seg, "bad")))
<1> DEFINE t == Append(sums, Sum(seg, "bad"))
<1>1. /\ Len(t) = Len(sums) + 1 /\ Len(sums) \in Nat /\ t[Len(sums) + 1][2] = "bad"
      /\ \A n \in 1..Len(sums) : t[n] = sums[n]
  BY AppendLast DEF Data
<1> HIDE DEF t
<1>2. \A n \in 1..Len(t) : n \in 1..Len(sums) \/ n = Len(sums) + 1
  BY <1>1
<1>3. AllBad(t)
  BY <1>1, <1>2, Zenon DEF AllBad
<1> QED BY <1>3, Zenon DEF t

LEMMA FirstVouched ==
  ASSUME NEW p, NEW seg \in Nat, NEW c \in Data,
         c = "good" /\ seg \in Segments => p[seg] = "good"
  PROVE  Vouched(p, <<Sum(seg, c)>>)
BY DEF Vouched, Sum

LEMMA CreatedRuns == \A x : Created(x) => Runs(x)
BY Zenon DEF Created, Runs

\* A step keeps Alone when the handler that takes it keeps its part.
LEMMA AloneMoves ==
  ASSUME NEW r \in Requests, Handlers, Alone, Moves(r),
         rq[r].data = "bad" =>
           AllBad(rq'[r].sums) /\ (Created(rq'[r]) => row' = NULL /\ reported' = {})
  PROVE  Alone'
<1>1. rq'[r].data = rq[r].data /\ Runs(rq[r]) /\ \A q \in Requests \ {r} : rq'[q] = rq[q]
  BY HandlersKept, Zenon DEF Moves
<1> SUFFICES ASSUME NEW q \in Requests, rq'[q].data = "bad"
             PROVE  /\ AllBad(rq'[q].sums)
                    /\ Created(rq'[q]) => row' = NULL /\ reported' = {}
                    /\ Runs(rq'[q]) => \A s \in Requests \ {q} : ~ Runs(rq'[s])
  BY Zenon DEF Alone
<1>2. CASE q = r
  BY <1>1, <1>2, Zenon DEF Alone
<1>3. CASE q # r
  <2>1. ~ Runs(rq[q]) /\ rq'[q] = rq[q] /\ AllBad(rq[q].sums)
    BY <1>1, <1>3, Zenon DEF Alone
  <2> QED BY <2>1, CreatedRuns, Zenon
<1> QED BY <1>2, <1>3, Zenon

\* A step that leaves the piece store keeps Recorded when what it records is there.
LEMMA RecordedMoves ==
  ASSUME NEW r \in Requests, Handlers, Recorded, Moves(r) \/ Begins(r), UNCHANGED pieces,
         row' # NULL => Vouched(pieces, row'.sums),
         Vouched(pieces, rq'[r].sums),
         rq'[r].cons = "get" /\ rq'[r].seg \in Segments => pieces[rq'[r].seg] = "good",
         reported' # {} => \A i \in Segments : pieces[i] = "good"
  PROVE  Recorded'
<1>1. \A q \in Requests \ {r} : rq'[q] = rq[q]
  BY HandlersKept, Zenon
<1>2. \A q \in Requests :
        /\ Vouched(pieces, rq'[q].sums)
        /\ rq'[q].cons = "get" /\ rq'[q].seg \in Segments => pieces[rq'[q].seg] = "good"
  BY <1>1, Zenon DEF Recorded
<1> QED BY <1>2, Zenon DEF Recorded, SuccessIsStored, Segments

LEMMA BeginKeeps ==
  ASSUME NEW r \in Requests, StreamInv, Begins(r), UNCHANGED world
  PROVE  (Progress /\ Alone /\ Recorded)'
<1>1. Handlers /\ Handlers' /\ \A q \in Requests \ {r} : rq'[q] = rq[q]
  BY HandlersKept, Zenon DEF StreamInv, HandlersInv
<1>2. UNCHANGED <<pieces, row, progress, reported>>
  BY Zenon DEF world
<1>3. ~ Created(rq'[r]) /\ rq'[r].sums = << >> /\ rq'[r].cons = "wait"
  BY Zenon DEF Begins, Created
<1>4. Progress'
  BY <1>1, <1>2, <1>3, Zenon DEF StreamInv, Progress
<1>5. \A q \in Requests : Runs(rq[q]) => rq[q].data # "bad" /\ rq'[r].data # "bad"
  BY Zenon DEF Begins, MayBegin, Running, Runs
<1>6. Alone'
  <2> SUFFICES ASSUME NEW q \in Requests, rq'[q].data = "bad"
               PROVE  /\ AllBad(rq'[q].sums)
                      /\ Created(rq'[q]) => row' = NULL /\ reported' = {}
                      /\ Runs(rq'[q]) => \A s \in Requests \ {q} : ~ Runs(rq'[s])
    BY Zenon DEF Alone
  <2>1. CASE q = r
    BY <1>1, <1>3, <1>5, <2>1, NoneVouched, Zenon
  <2>2. CASE q # r
    BY <1>1, <1>2, <1>5, <2>2, CreatedRuns, Zenon DEF StreamInv, Alone
  <2> QED BY <2>1, <2>2, Zenon
<1>7. Recorded'
  BY <1>1, <1>2, <1>3, RecordedMoves, NoneVouched, Zenon DEF StreamInv, Recorded, SuccessIsStored
<1> QED BY <1>4, <1>6, <1>7, Zenon

LEMMA ProducerCreates ==
  ASSUME NEW r \in Requests, Handlers, Producer(r), progress \in BOOLEAN
  PROVE  /\ progress' \in BOOLEAN /\ (progress => progress')
         /\ Created(rq'[r]) => Created(rq[r]) \/ (progress' /\ (r \in Plain => ~ progress))
<1>1. CASE CreateUploadObject(r)
  <2>1. progress' \in BOOLEAN /\ (progress => progress')
    BY <1>1, Zenon DEF CreateUploadObject
  <2>2. CASE Set(r, GiveUp(r))
    <3>1. rq'[r].prod = "end" /\ Produces(r) /\ rq[r].prod = "create"
      BY <1>1, <2>2, GiveUpProduces, Zenon DEF CreateUploadObject
    <3> QED BY <2>1, <3>1, Zenon DEF Produces, Created
  <2>3. CASE progress' = TRUE /\ ~(r \in Plain /\ progress)
    BY <2>1, <2>3, Zenon
  <2> QED BY <1>1, <2>2, <2>3, Zenon DEF CreateUploadObject, MayFail
<1>2. CASE ~ CreateUploadObject(r)
  <2>1. Created(rq'[r]) => Created(rq[r])
    BY <1>2, RecvProduces, ReserveResourceProduces, PreUploadObjectProduces, SignalProduces,
       WriteFailsProduces, Zenon DEF Producer
  <2>2. UNCHANGED progress
    BY <1>2, Zenon DEF Producer, Recv, ReserveResource, PreUploadObject, Signal, WriteFails, world
  <2> QED BY <2>1, <2>2, Zenon
<1> QED BY <1>1, <1>2, Zenon

LEMMA ProducerKeeps ==
  ASSUME Wrong \subseteq Plain, NEW r \in Requests, StreamInv, Producer(r)
  PROVE  (Progress /\ Alone /\ Recorded)'
<1>1. /\ Handlers /\ Produces(r) /\ Moves(r) /\ UNCHANGED <<pieces, row, reported>>
      /\ \A q \in Requests \ {r} : rq'[q] = rq[q]
  BY ProducerSteps, HandlersKept, Zenon DEF StreamInv, HandlersInv, Produces
<1>2. /\ progress' \in BOOLEAN /\ (progress => progress')
      /\ Created(rq'[r]) => Created(rq[r]) \/ (progress' /\ (r \in Plain => ~ progress))
  BY <1>1, ProducerCreates, Zenon DEF StreamInv, Progress
<1>3. Progress'
  BY <1>1, <1>2, Zenon DEF StreamInv, Progress
<1>4. Alone'
  <2>1. rq[r].data = "bad" => r \in Plain
    BY Zenon DEF StreamInv, HandlersInv, Handlers, HandlerOK, SumsOK
  <2>2. rq[r].data = "bad" =>
          AllBad(rq'[r].sums) /\ (Created(rq'[r]) => row' = NULL /\ reported' = {})
    BY <1>1, <1>2, <2>1, Zenon DEF StreamInv, Alone, Progress, Produces
  <2> QED BY <1>1, <2>2, AloneMoves, Zenon DEF StreamInv
<1>5. Recorded'
  <2>1. /\ Vouched(pieces, rq'[r].sums)
        /\ rq'[r].cons = "get" /\ rq'[r].seg \in Segments => pieces[rq'[r].seg] = "good"
    BY <1>1, Zenon DEF StreamInv, Recorded, Produces
  <2> QED BY <1>1, <2>1, RecordedMoves, Zenon DEF StreamInv, Recorded, SuccessIsStored
<1> QED BY <1>3, <1>4, <1>5, Zenon

LEMMA ConsumerPieces ==
  ASSUME NEW r \in Requests, Consumer(r)
  PROVE  /\ rq[r].cons \notin {"none", "wait", "done"} /\ UNCHANGED progress
         /\ \/ UNCHANGED pieces
            \/ /\ rq[r].cons = "put"
               /\ pieces' = [pieces EXCEPT ![rq[r].seg] = rq[r].data]
               /\ UNCHANGED <<row, reported>>
BY Zenon DEF Consumer, Push, Read, ReadMore, PutPiece, AppendGet, AppendDelete, AppendSet,
   GetObjectIntegrity, SignIntegrityHash, SaveIntegrity, ReportTask, Return, SendAndClose, world,
   Contents

\* What the consumer has and writes, of a request that carries wrong data.
LEMMA BadConsumer ==
  ASSUME Wrong \subseteq Plain, NEW r \in Requests, StreamInv, Consumer(r), rq[r].data = "bad"
  PROVE  AllBad(rq'[r].sums) /\ row' = NULL /\ reported' = {}
<1> DEFINE y == rq[r]
<1>1. /\ y \in Handler /\ SumsOK(r, y) /\ AllBad(y.sums) /\ row = NULL /\ reported = {}
      /\ r \in Plain
  BY ConsumerPieces, Zenon DEF StreamInv, HandlersInv, Handlers, HandlerOK, SumsOK, Alone, Created
<1>2. y.cons \notin {"get", "delete", "create", "load", "save"}
  BY <1>1, ExpectedGood, Zenon DEF SumsOK
<1>3. AllBad(rq'[r].sums)
  <2>1. AllBad(Append(y.sums, Sum(y.seg, "bad")))
    BY <1>1, BadAppend, Zenon DEF Handler
  <2> QED BY <1>1, <1>2, <2>1, ConsumerSteps, NoneVouched, Zenon
          DEF StreamInv, Consumers, Consumes, Stores, Hands, Gets, Loads, Returns
<1>4. row' = NULL
  BY <1>1, <1>2, ConsumerRow, Zenon DEF StreamInv
<1>5. reported' = {}
  <2>1. ReportTask(r) => Outcome(r) = {}
    BY <1>1, ExpectedGood, Zenon DEF ReportTask, Outcome, SumsOK
  <2> QED BY <1>1, <2>1, ConsumerReported, Zenon DEF StreamInv
<1> QED BY <1>3, <1>4, <1>5, Zenon

\* The piece store after PutPiece of the data that the object was created with.
LEMMA GoodPut ==
  ASSUME NEW r \in Requests, StreamInv, rq[r].data = "good",
         pieces' = [pieces EXCEPT ![rq[r].seg] = rq[r].data]
  PROVE  /\ PiecesOK(pieces')
         /\ \A i \in Segments : pieces[i] = "good" => pieces'[i] = "good"
         /\ rq[r].seg \in Segments => pieces'[rq[r].seg] = "good"
<1>1. pieces = [i \in Segments |-> pieces[i]]
  BY Zenon DEF StreamInv, Recorded, PiecesOK
<1> QED BY <1>1, Zenon DEF PiecesOK

LEMMA PutKeepsRecorded ==
  ASSUME Wrong \subseteq Plain, NEW r \in Requests, StreamInv, Consumer(r), rq[r].cons = "put",
         pieces' = [pieces EXCEPT ![rq[r].seg] = rq[r].data], UNCHANGED <<row, reported>>
  PROVE  Recorded'
<1> DEFINE y == rq[r]
<1>1. /\ Handlers /\ y \in Handler /\ Moves(r) /\ y.data \in Data /\ y.seg \in Nat
      /\ y.sums \in Checksums
      /\ \A q \in Requests \ {r} : rq'[q] = rq[q]
  BY ConsumerSteps, HandlersKept, Zenon
     DEF StreamInv, HandlersInv, Handlers, Consumers, Consumes, Stores, Hands, Gets, Loads,
         Returns, Handler
<1>2. Stores(r) \/ Hands(r) \/ Consumes(r)
  BY ConsumerSteps, Zenon DEF StreamInv, Consumers, Gets, Loads, Returns
<1>3. CASE y.data = "good"
  <2>1. /\ PiecesOK(pieces')
        /\ \A i \in Segments : pieces[i] = "good" => pieces'[i] = "good"
        /\ y.seg \in Segments => pieces'[y.seg] = "good"
    BY <1>3, GoodPut, Zenon
  <2>0. ASSUME NEW sums, Vouched(pieces, sums)
        PROVE  Vouched(pieces', sums)
    BY <2>0, <2>1, Zenon DEF Vouched
  <2>2. \A q \in Requests : Vouched(pieces', rq[q].sums)
    BY <2>0, Zenon DEF StreamInv, Recorded
  <2>3. Vouched(pieces', Append(y.sums, Sum(y.seg, y.data)))
    BY <1>1, <2>1, <2>2, VouchedAppend, Zenon
  <2>4. Vouched(pieces', rq'[r].sums)
    BY <1>2, <2>2, <2>3, Zenon DEF Stores, Hands, Consumes
  <2>5. \A q \in Requests : Vouched(pieces', rq'[q].sums)
    BY <1>1, <2>2, <2>4, Zenon
  <2>6. \A q \in Requests :
          rq'[q].cons = "get" /\ rq'[q].seg \in Segments => pieces'[rq'[q].seg] = "good"
    <3>1. rq'[r].cons = "get" => rq'[r].seg = y.seg
      BY <1>2, Zenon DEF Stores, Hands, Consumes
    <3>2. \A q \in Requests \ {r} :
            rq[q].cons = "get" /\ rq[q].seg \in Segments => pieces[rq[q].seg] = "good"
      BY Zenon DEF StreamInv, Recorded
    <3> QED BY <1>1, <2>1, <3>1, <3>2
  <2>7. row' # NULL => Vouched(pieces', row'.sums)
    BY <2>0, Zenon DEF StreamInv, Recorded
  <2>8. SuccessIsStored'
    BY <2>1, Zenon DEF StreamInv, Recorded, SuccessIsStored, Segments
  <2> QED BY <2>1, <2>5, <2>6, <2>7, <2>8, Zenon DEF Recorded, Segments
<1>4. CASE y.data = "bad"
  <2>1. AllBad(rq'[r].sums) /\ row' = NULL /\ reported' = {}
    BY <1>4, BadConsumer, Zenon
  <2>2. \A q \in Requests \ {r} : ~ Runs(rq[q])
    BY <1>1, <1>4, Zenon DEF StreamInv, Alone, Moves
  <2>3. \A q \in Requests \ {r} : rq[q].sums = << >> /\ rq[q].cons # "get"
    BY <1>1, <2>2, Zenon DEF Handlers, HandlerOK, SumsOK, Runs
  <2>4. rq'[r].cons # "get"
    <3>1. r \in Plain
      BY <1>1, <1>4, Zenon DEF Handlers, HandlerOK, SumsOK
    <3> QED BY <1>1, <3>1, Zenon DEF Moves, HandlerOK, SumsOK
  <2>5. PiecesOK(pieces')
    <3>1. pieces = [i \in Segments |-> pieces[i]]
      BY Zenon DEF StreamInv, Recorded, PiecesOK
    <3> QED BY <3>1, Zenon DEF PiecesOK
  <2>6. \A q \in Requests : Vouched(pieces', rq'[q].sums) /\ rq'[q].cons # "get"
    BY <1>1, <2>1, <2>3, <2>4, NoneVouched, BadVouched, Zenon
  <2> QED BY <2>1, <2>5, <2>6, Zenon DEF Recorded, SuccessIsStored
<1> QED BY <1>1, <1>3, <1>4, Zenon DEF Data

LEMMA QuietKeepsRecorded ==
  ASSUME Wrong \subseteq Plain, NEW r \in Requests, StreamInv, Consumer(r), UNCHANGED pieces
  PROVE  Recorded'
<1> DEFINE y == rq[r]
<1>1. /\ Handlers /\ Moves(r) /\ Consumers(r) /\ y.data \in Data /\ y.seg \in Nat
      /\ SumsOK(r, y)
      /\ row # NULL => row.sums \in Checksums
  BY ConsumerSteps, Zenon DEF StreamInv, HandlersInv, Handlers, HandlerOK, RowOK, Consumers,
     Consumes,
                       Stores, Hands, Gets, Loads, Returns, Handler
<1>2. Vouched(pieces, y.sums) /\ (row # NULL => Vouched(pieces, row.sums))
  BY Zenon DEF StreamInv, Recorded
<1>3. row' # NULL => Vouched(pieces, row'.sums)
  BY <1>2, ConsumerRow DEF StreamInv, SetObjectIntegrity
<1>4. reported' # {} => \A i \in Segments : pieces[i] = "good"
  <2>1. CASE UNCHANGED reported
    BY <2>1, Zenon DEF StreamInv, Recorded, SuccessIsStored
  <2>2. CASE /\ ReportTask(r) /\ reported' = reported \cup Outcome(r)
             /\ r \in Plain \/ y.complete
    <3>1. y.ok => \A i \in Segments : pieces[i] = "good"
      BY <1>1, <1>2, <2>2, ExpectedGood, Zenon DEF ReportTask, SumsOK
    <3> QED BY <2>2, <3>1, Zenon DEF Outcome, StreamInv, Recorded, SuccessIsStored
  <2> QED BY <2>1, <2>2, ConsumerReported, Zenon DEF StreamInv
<1>5. Vouched(pieces, rq'[r].sums) /\
        (rq'[r].cons = "get" /\ rq'[r].seg \in Segments => pieces[rq'[r].seg] = "good")
  <2>1. CASE Consumes(r) \/ Loads(r) \/ Returns(r)
    BY <1>2, <2>1, NoneVouched, Zenon DEF Consumes, Loads, Returns
  <2>2. CASE Gets(r)
    <3>1. y.cons = "get" /\ (y.seg \in Segments => pieces[y.seg] = "good")
      BY <2>2, Zenon DEF Gets, StreamInv, Recorded
    <3>2. Vouched(pieces, <<Sum(y.seg, y.data)>>)
      BY <1>1, <3>1, FirstVouched, Zenon
    <3>3. row # NULL => Vouched(pieces, Append(row.sums, Sum(y.seg, y.data)))
      BY <1>1, <1>2, <3>1, VouchedAppend, Zenon
    <3> QED BY <2>2, <3>2, <3>3, Zenon DEF Gets
  <2>3. CASE y.cons = "put" /\ (Stores(r) \/ Hands(r))
    <3>1. CASE Set(r, Failed(r))
      BY <1>1, <2>3, <3>1, FailedConsumes, <2>1, Zenon
    <3>2. CASE pieces' = [pieces EXCEPT ![y.seg] = y.data] /\ UNCHANGED <<row, reported>>
      <4>1. Recorded'
        BY <2>3, <3>2, PutKeepsRecorded, Zenon
      <4> QED BY <4>1, Zenon DEF Recorded, Segments
    <3> QED BY <2>3, <3>1, <3>2, Zenon
            DEF Consumer, Push, Read, ReadMore, PutPiece, AppendGet, AppendDelete, AppendSet,
                GetObjectIntegrity, SignIntegrityHash, SaveIntegrity, ReportTask, Return,
                SendAndClose, Contents, MayFail
  <2> QED BY <1>1, <2>1, <2>2, <2>3, Zenon DEF Consumers, Stores, Hands
<1> QED BY <1>1, <1>3, <1>4, <1>5, RecordedMoves, Zenon DEF StreamInv

LEMMA ConsumerKeeps ==
  ASSUME Wrong \subseteq Plain, NEW r \in Requests, StreamInv, Consumer(r)
  PROVE  (Progress /\ Alone /\ Recorded)'
<1>1. /\ Handlers /\ Moves(r) /\ UNCHANGED progress /\ Created(rq[r])
      /\ \A q \in Requests \ {r} : rq'[q] = rq[q]
  BY ConsumerSteps, ConsumerPieces, HandlersKept, Zenon
     DEF StreamInv, HandlersInv, Consumers, Consumes, Stores, Hands, Gets, Loads, Returns, Created
<1>2. progress
  BY <1>1, Zenon DEF StreamInv, Progress
<1>3. Progress'
  BY <1>1, <1>2, Zenon DEF Progress
<1>4. Alone'
  BY <1>1, BadConsumer, AloneMoves, Zenon DEF StreamInv
<1>5. Recorded'
  BY ConsumerPieces, PutKeepsRecorded, QuietKeepsRecorded, Zenon
<1> QED BY <1>3, <1>4, <1>5, Zenon

LEMMA CrashKeeps ==
  ASSUME StreamInv, Crash
  PROVE  (Progress /\ Alone /\ Recorded)'
<1>1. UNCHANGED <<pieces, row, progress, reported>>
  BY Zenon DEF Crash
<1>2. \A r \in Requests :
        ~ Runs(rq'[r]) /\ ~ Created(rq'[r]) /\ rq'[r].sums = << >> /\ rq'[r].cons # "get"
  BY CrashHandlers, Zenon DEF StreamInv, HandlersInv
<1>3. Progress'
  BY <1>1, <1>2, Zenon DEF StreamInv, Progress
<1>4. Alone'
  BY <1>2, NoneVouched, Zenon DEF Alone
<1>5. Recorded'
  BY <1>1, <1>2, NoneVouched, Zenon DEF StreamInv, Recorded, SuccessIsStored, Segments
<1> QED BY <1>3, <1>4, <1>5, Zenon

LEMMA StreamInit == Init => StreamInv
<1> SUFFICES ASSUME Init
             PROVE  Progress /\ Alone /\ Recorded
  BY InitHandlers, Zenon DEF StreamInv
<1>1. /\ rq = [r \in Requests |-> NewHandler] /\ pieces = [i \in Segments |-> "none"]
      /\ row = NULL /\ progress = FALSE /\ reported = {}
  BY Zenon DEF Init
<1>2. ~ Created(NewHandler) /\ NewHandler.sums = << >> /\ NewHandler.cons = "none"
      /\ NewHandler.data = "good"
  BY Zenon DEF NewHandler, Created
<1> QED BY <1>1, <1>2, NoneVouched, Zenon DEF Progress, Alone, Recorded, PiecesOK, SuccessIsStored

LEMMA StreamStep ==
  ASSUME Wrong \subseteq Plain
  PROVE  StreamInv /\ [Next]_vars => StreamInv'
<1> SUFFICES ASSUME StreamInv, [Next]_vars
             PROVE  (Progress /\ Alone /\ Recorded)'
  BY HandlersStep, Zenon DEF StreamInv
<1>1. ASSUME NEW r \in Requests, PutObject(r) \/ ResumablePutObject(r)
      PROVE  (Progress /\ Alone /\ Recorded)'
  BY <1>1, ClientBegins, BeginKeeps, Zenon DEF StreamInv
<1>2. ASSUME NEW r \in Requests, Producer(r)
      PROVE  (Progress /\ Alone /\ Recorded)'
  BY <1>2, ProducerKeeps, Zenon
<1>3. ASSUME NEW r \in Requests, Consumer(r)
      PROVE  (Progress /\ Alone /\ Recorded)'
  BY <1>3, ConsumerKeeps, Zenon
<1>4. CASE UNCHANGED <<rq, pieces, row, progress, reported>>
  BY <1>4, Zenon DEF StreamInv, Progress, Alone, Recorded, SuccessIsStored, Segments
<1> QED BY <1>1, <1>2, <1>3, <1>4, CrashKeeps, Zenon DEF Next, GCUploadObjectQueue, vars

\* For all numbers of requests, segments and failures, when the requests that carry
\* other data than the object was created with are plain ones: once an upload has been
\* reported as a success (HandleUploadObjectTask, HandleResumableUploadObjectTask), the
\* piece store holds the data of the object under every segment key, whatever parts,
\* retries, failed calls and crashes went before or come after.
THEOREM SuccessIsStoredHolds ==
  ASSUME Wrong \subseteq Plain
  PROVE  Spec => []SuccessIsStored
<1>1. StreamInv => SuccessIsStored
  BY Zenon DEF StreamInv, Recorded
<1> QED BY <1>1, StreamInit, StreamStep, PTL DEF Spec
=============================================================================
