--------------------------- MODULE ResourceScope ---------------------------
(***************************************************************************)
(* The resource scopes of base/gfsprcmgr and their callers: the modules of *)
(* the SP, each with a service scope under the system scope, and the       *)
(* goroutines that reserve resources in a span of a service scope for the  *)
(* time they work on a task (executor AskTask, the gRPC servers).          *)
(*                                                                         *)
(* An operation locks the span, then the service, then the system, and     *)
(* holds each lock while it works on the next: it is one step.  A lock     *)
(* that is never released again (see ReserveResources) is kept in "held";  *)
(* an operation that needs it is disabled forever.                         *)
(***************************************************************************)
EXTENDS Resources, FiniteSets, FiniteSetsExt

CONSTANTS
  Services,     \* names passed to OpenService
  Callers,      \* goroutines; the span of a caller is named after it
  Executors,    \* the callers that ask for a task that fits first
  SYS,          \* the system scope
  Owner,        \* the service scope in which a caller begins its spans
  Limits,       \* the limit of each service scope and of SYS
  Stats,        \* the task estimates that callers reserve
  MemoryOps,    \* sizes and priorities for ReserveMemory
  TaskOps,      \* levels for AddTask
  ConnOps,      \* directions for AddConn
  Stoppable,    \* services whose module may be stopped
  MaxRef        \* bound on the spans a service scope counts

ASSUME NamesAssumption ==
  /\ Services \cap Callers = {}
  /\ Executors \subseteq Callers /\ IsFiniteSet(Callers)
  /\ SYS \notin Services \cup Callers
ASSUME OwnerAssumption == Owner \in [Callers -> Services]
ASSUME LimitsAssumption ==
  Limits \in [Services \cup {SYS} -> [LimitKinds -> Nat]]
ASSUME StatsAssumption == Stats \subseteq Counters
ASSUME OpsAssumption ==
  /\ MemoryOps \subseteq Nat \X (0 .. ReservationPriorityAlways)
  /\ TaskOps \subseteq Levels
  /\ ConnOps \subseteq Dirs
  /\ MaxRef \in Nat

VARIABLES
  rc,        \* the counters of every scope
  refCnt,    \* the spans begun and not ended, per service
  pc,        \* what a caller is doing
  hint,      \* the limit a caller read with RemainingResource
  st,        \* what the span of a caller has reserved with ReserveResources
  held,      \* scopes whose mutex is held by a goroutine that waits for itself
  stopped    \* history: services whose module has been stopped

vars == <<rc, refCnt, pc, hint, st, held, stopped>>

Scopes == Services \cup Callers \cup {SYS}
Limit(s) == IF s \in Callers THEN Limits[Owner[s]] ELSE Limits[s]
Chain(p) == {p, Owner[p], SYS}

NoHint == [k \in LimitKinds |-> 0]

\* NewResourceManager and one OpenService per module.
NewResourceManager ==
  /\ rc = [s \in Scopes |-> Zero]
  /\ refCnt = [s \in Services |-> 0]
  /\ pc = [p \in Callers |-> "idle"]
  /\ hint = [p \in Callers |-> NoHint]
  /\ st = [p \in Callers |-> Zero]
  /\ held = {} /\ stopped = {}

Goto(p, l) == pc' = [pc EXCEPT ![p] = l]
Free(p)    == Chain(p) \cap held = {}

----------------------------------------------------------------------------
\* The executor reads what is left, without taking the lock, to ask the manager
\* for a task that fits.
RemainingResource(p) ==
  /\ p \in Executors
  /\ pc[p] = "idle"
  /\ hint' = [hint EXCEPT ![p] = remaining(rc[Owner[p]], Limits[Owner[p]])]
  /\ Goto(p, "asked")
  /\ UNCHANGED <<rc, refCnt, st, held>>

\* The manager has no task for this limit, or the call fails: AskTask returns.
NoTask(p) ==
  /\ pc[p] = "asked"
  /\ hint' = [hint EXCEPT ![p] = NoHint]
  /\ Goto(p, "idle")
  /\ UNCHANGED <<rc, refCnt, st, held>>

\* Mutant: the span is not counted.
BugBeginSpan(p, e) ==
  /\ \/ pc[p] = "asked" /\ NotLess(hint[p], e)
     \/ pc[p] = "idle" /\ p \notin Executors
  /\ Owner[p] \notin held
  /\ rc' = [rc EXCEPT ![p] = Zero]
  /\ st' = [st EXCEPT ![p] = e]
  /\ hint' = [hint EXCEPT ![p] = NoHint]
  /\ Goto(p, "begun")
  /\ UNCHANGED <<refCnt, held>>

\* A span is begun for a task e: a task the manager found to fit the limit, or,
\* in a gRPC server, the task of the request.
BeginSpan(p, e) ==
  /\ \/ pc[p] = "asked" /\ NotLess(hint[p], e)
     \/ pc[p] = "idle" /\ p \notin Executors
  /\ Owner[p] \notin held
  /\ refCnt[Owner[p]] < MaxRef
  /\ refCnt' = [refCnt EXCEPT ![Owner[p]] = @ + 1]
  /\ rc' = [rc EXCEPT ![p] = Zero]
  /\ st' = [st EXCEPT ![p] = e]
  /\ hint' = [hint EXCEPT ![p] = NoHint]
  /\ Goto(p, "begun")
  /\ UNCHANGED held

\* The reservation fails in the span itself: the error is returned and the span
\* is dropped by its caller, still counted by the service.
ReserveFailsInSpan(p) ==
  /\ ~Reserves(rc[p], Limit(p), st[p])
  /\ st' = [st EXCEPT ![p] = Zero]
  /\ rc' = [rc EXCEPT ![p] = Zero]
  /\ Goto(p, "idle")
  /\ UNCHANGED held

\* It fails in the service: the span calls its own ReleaseResources with its own
\* mutex locked and waits for itself.
ReserveFailsInService(p) ==
  LET s == Owner[p]
  IN  /\ Reserves(rc[p], Limit(p), st[p])
      /\ ~Reserves(rc[s], Limit(s), st[p])
      /\ rc' = [rc EXCEPT ![p] = AfterReserve(@, Limit(p), st[p]),
                          ![s] = AfterReserve(@, Limit(s), st[p])]
      /\ held' = held \cup {p}
      /\ Goto(p, "hungInSpan")
      /\ UNCHANGED st

\* It fails in the system: the service does the same, with both locks held.
ReserveFailsInSystem(p) ==
  LET s == Owner[p]
  IN  /\ Reserves(rc[p], Limit(p), st[p])
      /\ Reserves(rc[s], Limit(s), st[p])
      /\ ~Reserves(rc[SYS], Limit(SYS), st[p])
      /\ rc' = [rc EXCEPT ![p]   = AfterReserve(@, Limit(p), st[p]),
                          ![s]   = AfterReserve(@, Limit(s), st[p]),
                          ![SYS] = AfterReserve(@, Limit(SYS), st[p])]
      /\ held' = held \cup {p, s}
      /\ Goto(p, "hungInService")
      /\ UNCHANGED st

ReserveSucceeds(p) ==
  /\ \A s \in Chain(p) : Reserves(rc[s], Limit(s), st[p])
  /\ rc' = [s \in Scopes |-> IF s \in Chain(p) THEN AfterReserve(rc[s], Limit(s), st[p])
                                               ELSE rc[s]]
  /\ Goto(p, "reserved")
  /\ UNCHANGED <<st, held>>

ReserveResources(p) ==
  /\ pc[p] = "begun"
  /\ Free(p)
  /\ \/ ReserveFailsInSpan(p)
     \/ ReserveFailsInService(p)
     \/ ReserveFailsInSystem(p)
     \/ ReserveSucceeds(p)
  /\ UNCHANGED <<refCnt, hint>>

\* Mutant: only what ReserveResources was asked for is given back.
BugDone(p) ==
  /\ pc[p] = "reserved"
  /\ Free(p)
  /\ rc' = [rc EXCEPT ![Owner[p]] = Minus(@, Charge(st[p])),
                      ![SYS] = Minus(@, Charge(st[p])), ![p] = Zero]
  /\ st' = [st EXCEPT ![p] = Zero]
  /\ Goto(p, "ending")
  /\ UNCHANGED <<refCnt, hint, held>>

\* Done: the counters of the span are given back to the service and the system ...
Done(p) ==
  /\ pc[p] = "reserved"
  /\ Free(p)
  /\ rc' = [rc EXCEPT ![Owner[p]] = Minus(@, rc[p]), ![SYS] = Minus(@, rc[p]),
                      ![p] = Zero]
  /\ st' = [st EXCEPT ![p] = Zero]
  /\ Goto(p, "ending")
  /\ UNCHANGED <<refCnt, hint, held>>

\* ... and then, the service unlocked and locked again, the span is uncounted.
DecRef(p) ==
  /\ pc[p] = "ending"
  /\ Owner[p] \notin held
  /\ refCnt' = [refCnt EXCEPT ![Owner[p]] = @ - 1]
  /\ Goto(p, "idle")
  /\ UNCHANGED <<rc, hint, st, held>>

----------------------------------------------------------------------------
\* The operations on a single kind of resource, by a caller within its span.
InSpan(p) ==
  /\ pc[p] = "reserved"
  /\ Free(p)
  /\ UNCHANGED <<refCnt, pc, hint, st, held>>

\* A reservation made in the span, the service and the system, or in none of them.
AllOrNone(p, ok, d) ==
  rc' = IF ok
        THEN [s \in Scopes |-> IF s \in Chain(p) THEN Plus(rc[s], d) ELSE rc[s]]
        ELSE rc

GiveBack(p, d) ==
  rc' = [s \in Scopes |-> IF s \in Chain(p) THEN Minus(rc[s], d) ELSE rc[s]]

ReserveMemory(p, size, prio) ==
  /\ InSpan(p)
  /\ AllOrNone(p, \A s \in Chain(p) : checkMemory(rc[s], Limit(s), size, prio),
               Units("memory", size))

ReleaseMemory(p, size) ==
  /\ InSpan(p)
  /\ rc[p]["memory"] >= size
  /\ GiveBack(p, Units("memory", size))

AddTask(p, level) ==
  /\ InSpan(p)
  /\ AllOrNone(p, \A s \in Chain(p) : addTasks(rc[s], Limit(s), 1, level),
               Units(level, 1))

RemoveTask(p, level) ==
  /\ InSpan(p)
  /\ rc[p][level] > 0
  /\ GiveBack(p, Units(level, 1))

\* A connection refused by the service or the system is taken back, with
\* removeConn, where it was already counted.
AddConn(p, dir) ==
  LET ok(s)   == addConns(rc[s], Limit(s), ConnOf(dir))
      undo(s) == removeConn(Plus(rc[s], ConnOf(dir)), dir)
      s       == Owner[p]
  IN  /\ InSpan(p)
      /\ rc' = IF ~ok(p) THEN rc
               ELSE IF ~ok(s) THEN [rc EXCEPT ![p] = undo(p)]
               ELSE IF ~ok(SYS) THEN [rc EXCEPT ![p] = undo(p), ![s] = undo(s)]
               ELSE [x \in Scopes |-> IF x \in Chain(p) THEN Plus(rc[x], ConnOf(dir))
                                                        ELSE rc[x]]

RemoveConn(p, dir) ==
  /\ InSpan(p)
  /\ rc[p][dir] > 0
  /\ rc' = [s \in Scopes |-> IF s \in Chain(p) THEN removeConn(rc[s], dir) ELSE rc[s]]

\* The Stop of a module releases all that its service scope has reserved.
Release(s) ==
  /\ s \in Stoppable \ stopped
  /\ s \notin held
  /\ rc' = [rc EXCEPT ![s] = Zero, ![SYS] = Minus(@, rc[s])]
  /\ stopped' = stopped \cup {s}
  /\ UNCHANGED <<refCnt, pc, hint, st, held>>

----------------------------------------------------------------------------
Operate ==
  \/ \E p \in Callers : RemainingResource(p)
  \/ \E p \in Callers : NoTask(p)
  \/ \E p \in Callers, e \in Stats : BeginSpan(p, e)
  \/ \E p \in Callers : ReserveResources(p)
  \/ \E p \in Callers : Done(p)
  \/ \E p \in Callers : DecRef(p)
  \/ \E p \in Callers, m \in MemoryOps : ReserveMemory(p, m[1], m[2])
  \/ \E p \in Callers, m \in MemoryOps : ReleaseMemory(p, m[1])
  \/ \E p \in Callers, l \in TaskOps : AddTask(p, l)
  \/ \E p \in Callers, l \in TaskOps : RemoveTask(p, l)
  \/ \E p \in Callers, d \in ConnOps : AddConn(p, d)
  \/ \E p \in Callers, d \in ConnOps : RemoveConn(p, d)

Next ==
  \/ Operate /\ UNCHANGED stopped
  \/ \E s \in Services : Release(s)

Spec == NewResourceManager /\ [][Next]_vars

----------------------------------------------------------------------------
Labels == {"idle", "asked", "begun", "reserved", "ending", "hungInSpan", "hungInService"}

\* Every variable has its type; in particular no counter of a scope is negative.
TypeOK ==
  /\ rc \in [Scopes -> Counters]
  /\ refCnt \in [Services -> 0 .. MaxRef]
  /\ pc \in [Callers -> Labels]
  /\ hint \in [Callers -> [LimitKinds -> Nat]]
  /\ st \in [Callers -> Counters]
  /\ held \subseteq Services \cup Callers
  /\ stopped \subseteq Services

\* However reservations, refusals, undos and releases of concurrent callers
\* interleave, no scope ever counts more of a resource than its limit, per kind
\* and in the totals of tasks and connections.
WithinLimits ==
  \A s \in Scopes :
    /\ \A k \in Kinds : rc[s][k] <= Limit(s)[k]
    /\ TaskTotal(rc[s]) <= Limit(s)["tasks"]
    /\ ConnTotal(rc[s]) <= Limit(s)["conns"]

Sum(S, k) == MapThenSumSet(LAMBDA p : rc[p][k], S)
Spans(s)  == {p \in Callers : Owner[p] = s}

\* The account of one kind: a service counts exactly what its spans have reserved,
\* and the system what all spans have.  A caller that hangs has charged the scopes
\* it had passed and not the one that refused.
AccountsAgree(k) ==
  /\ \A s \in Services :
       LET n == Sum({p \in Spans(s) : pc[p] # "hungInSpan"}, k)
       IN  rc[s][k] <= n /\ (s \notin stopped => rc[s][k] = n)
  /\ LET n == Sum({p \in Callers : pc[p] \notin {"hungInSpan", "hungInService"}}, k)
     IN  rc[SYS][k] <= n /\ (stopped = {} => rc[SYS][k] = n)

\* The accounts of every kind agree.  A module that is stopped under its callers
\* has given back what their spans will give back again: from then on its service
\* and the system count too little, and never too much.
Conservation == \A k \in Kinds : AccountsAgree(k)

\* A service scope is never taken for unused (IsUnused reads refCnt) while a span
\* of it is alive: it counts at least the spans that are begun and not ended.
LiveSpansCounted ==
  \A s \in Services :
    Cardinality({p \in Spans(s) : pc[p] \notin {"idle", "asked"}}) <= refCnt[s]
============================================================================
