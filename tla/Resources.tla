----------------------------- MODULE Resources -----------------------------
(***************************************************************************)
(* The counters of one resource scope (base/gfsprcmgr/resource.go) as pure *)
(* operators.  A counter vector and a ScopeStat are functions from Kinds;  *)
(* a limit also bounds the totals "tasks" and "conns".                     *)
(***************************************************************************)
EXTENDS Integers

Levels == {"high", "medium", "low"}
Dirs   == {"connsIn", "connsOut"}
Kinds  == {"memory", "fd"} \cup Levels \cup Dirs

LimitKinds == Kinds \cup {"tasks", "conns"}

Counters == [Kinds -> Nat]
Zero     == [k \in Kinds |-> 0]

\* n units of one kind.
Units(kind, n) == [k \in Kinds |-> IF k = kind THEN n ELSE 0]

Plus(a, b) == [k \in Kinds |-> a[k] + b[k]]

\* Mutant: no sanity check.
BugMinus(a, b) == [k \in Kinds |-> a[k] - b[k]]

\* releaseMemory, removeTasks and removeConns: a counter that would become
\* negative ("BUG: too many ... released") is set to 0.
Minus(a, b) == [k \in Kinds |-> IF a[k] < b[k] THEN 0 ELSE a[k] - b[k]]

TaskTotal(rc) == rc["high"] + rc["medium"] + rc["low"]
ConnTotal(rc) == rc["connsIn"] + rc["connsOut"]

\* Mutant: the check looks at the memory before the reservation.
BugCheckMemory(rc, lim, size, prio) ==
  rc["memory"] < ((1 + prio) * lim["memory"]) \div 256

\* reserveMemory succeeds: the memory in use stays below the share of the limit
\* that the priority may use.
checkMemory(rc, lim, size, prio) ==
  rc["memory"] + size <= ((1 + prio) * lim["memory"]) \div 256

ReservationPriorityAlways == 255

\* addTask of n tasks of a level succeeds.
addTasks(rc, lim, n, level) ==
  /\ TaskTotal(rc) + n <= lim["tasks"]
  /\ rc[level] + n <= lim[level]

\* addConns of the connections and file descriptors of st succeeds.
addConns(rc, lim, st) ==
  /\ \A d \in Dirs : st[d] > 0 => rc[d] + st[d] <= lim[d]
  /\ ConnTotal(rc) + ConnTotal(st) <= lim["conns"]
  /\ st["fd"] > 0 => rc["fd"] + st["fd"] <= lim["fd"]

\* What addConn(dir) reserves, and what removeConn(dir) gives back: for an inbound
\* connection the code falls through and gives back an outbound one as well.
ConnOf(dir)      == [k \in Kinds |-> IF k \in {dir, "fd"} THEN 1 ELSE 0]
removeConn(rc, dir) ==
  IF dir = "connsIn" THEN Minus(Minus(rc, ConnOf("connsIn")), ConnOf("connsOut"))
                     ELSE Minus(rc, ConnOf("connsOut"))

\* What a successful ReserveResources(st) or ReserveForChild(st) adds: the number
\* of high priority tasks is charged to all three levels.
Charge(st) == [k \in Kinds |-> IF k \in Levels THEN st["high"] ELSE st[k]]

\* The checks of ReserveResources at one scope, in their order; a check sees the
\* counters that the earlier ones have raised.
ReserveUpToMedium(rc, lim, st) ==
  /\ checkMemory(rc, lim, st["memory"], ReservationPriorityAlways)
  /\ addConns(rc, lim, st)
  /\ addTasks(rc, lim, st["high"], "high")
  /\ addTasks(Plus(rc, Units("high", st["high"])), lim, st["high"], "medium")

ReserveLow(rc, lim, st) ==
  addTasks(Plus(rc, Plus(Units("high", st["high"]), Units("medium", st["high"]))),
           lim, st["high"], "low")

Reserves(rc, lim, st) == ReserveUpToMedium(rc, lim, st) /\ ReserveLow(rc, lim, st)

\* The counters of one scope after ReserveResources.  When the last check fails,
\* the undo takes st.NumTasksMedium from a level to which st.NumTasksHigh was added.
AfterReserve(rc, lim, st) ==
  IF Reserves(rc, lim, st) THEN Plus(rc, Charge(st))
  ELSE IF ReserveUpToMedium(rc, lim, st)
  THEN Minus(Plus(rc, Units("medium", st["high"])), Units("medium", st["medium"]))
  ELSE rc

\* remaining(): nothing is reported for connections and file descriptors, the
\* total counts the high level three times, and each level counts the low one.
Rest(limit, used) == IF limit > used THEN limit - used ELSE 0
remaining(rc, lim) ==
  [k \in LimitKinds |->
     IF k = "memory" THEN Rest(lim[k], rc["memory"])
     ELSE IF k = "tasks" THEN Rest(lim[k], 3 * rc["high"])
     ELSE IF k \in Levels THEN Rest(lim[k], rc["low"])
     ELSE 0]

\* limit.NotLess(task.EstimateLimit()), of a task whose estimate is st.
NotLess(limit, st) ==
  /\ \A k \in Kinds : st[k] <= limit[k]
  /\ TaskTotal(st) <= limit["tasks"]
  /\ ConnTotal(st) <= limit["conns"]
=============================================================================
