------------------------ MODULE ResourceScopeProofs ------------------------
(***************************************************************************)
(* Proofs about ResourceScope, for all services, callers, limits and task  *)
(* estimates: no scope passes its limits, no counter becomes negative, and *)
(* a service counts every span that is alive.                              *)
(***************************************************************************)
EXTENDS ResourceScope, FiniteSetTheorems, TLAPS

\* The counters of one scope are within a limit.
Fits(c, lim) ==
  /\ \A k \in Kinds : c[k] <= lim[k]
  /\ TaskTotal(c) <= lim["tasks"]
  /\ ConnTotal(c) <= lim["conns"]

LimitVectors == [LimitKinds -> Nat]

----------------------------------------------------------------------------
(* Counters *)

\* The arithmetic of counters: sums and differences of counters are counters.
LEMMA CountersClosed ==
  /\ Zero \in Counters
  /\ \A k \in Kinds, n \in Nat : Units(k, n) \in Counters
  /\ \A a, b \in Counters : Plus(a, b) \in Counters /\ Minus(a, b) \in Counters
  /\ \A d \in Dirs : ConnOf(d) \in Counters
  /\ \A e \in Counters : Charge(e) \in Counters
BY DEF Zero, Counters, Units, Plus, Minus, ConnOf, Charge, Kinds, Levels, Dirs

\* Nothing reserved is within any limit.
LEMMA ZeroFits == \A lim \in LimitVectors : Fits(Zero, lim)
BY DEF Zero, Fits, LimitVectors, LimitKinds, Kinds, Levels, Dirs, TaskTotal, ConnTotal

\* releaseMemory, removeTasks and removeConns only lower counters.
LEMMA MinusFits ==
  ASSUME NEW a \in Counters, NEW b \in Counters, NEW lim \in LimitVectors, Fits(a, lim)
  PROVE  Fits(Minus(a, b), lim)
<1>1. \A k \in Kinds : Minus(a, b)[k] <= a[k] /\ Minus(a, b)[k] \in Nat /\ a[k] \in Nat
  BY DEF Minus, Counters
<1>2. \A k \in LimitKinds : lim[k] \in Nat
  BY Zenon DEF LimitVectors
<1>3. \A k \in Kinds : Minus(a, b)[k] <= lim[k]
  <2> SUFFICES ASSUME NEW k \in Kinds PROVE Minus(a, b)[k] <= lim[k] BY Zenon
  <2>1. k \in LimitKinds BY Zenon DEF LimitKinds
  <2>2. a[k] <= lim[k] BY Zenon DEF Fits
  <2> QED BY <1>1, <1>2, <2>1, <2>2
<1>4. /\ \A k \in Levels \cup Dirs : k \in Kinds
      /\ {"tasks", "conns"} \subseteq LimitKinds
  BY Zenon DEF Kinds, Levels, Dirs, LimitKinds
<1> DEFINE m == Minus(a, b)
<1> HIDE DEF m
<1>5. TaskTotal(m) <= TaskTotal(a) /\ TaskTotal(m) \in Nat /\ TaskTotal(a) \in Nat
  BY <1>1, <1>4 DEF TaskTotal, Levels, m
<1>6. ConnTotal(m) <= ConnTotal(a) /\ ConnTotal(m) \in Nat /\ ConnTotal(a) \in Nat
  BY <1>1, <1>4 DEF ConnTotal, Dirs, m
<1>7. TaskTotal(a) <= lim["tasks"] /\ ConnTotal(a) <= lim["conns"]
  BY Zenon DEF Fits
<1>8. TaskTotal(m) <= lim["tasks"] /\ ConnTotal(m) <= lim["conns"]
  BY <1>2, <1>4, <1>5, <1>6, <1>7
<1> QED BY <1>3, <1>8, Zenon DEF Fits, m

\* removeConn only lowers counters, the outbound ones included.
LEMMA RemoveConnFits ==
  ASSUME NEW a \in Counters, NEW d \in Dirs, NEW lim \in LimitVectors, Fits(a, lim)
  PROVE  Fits(removeConn(a, d), lim) /\ removeConn(a, d) \in Counters
<1>1. "connsIn" \in Dirs /\ "connsOut" \in Dirs BY Zenon DEF Dirs
<1>2. Minus(a, ConnOf("connsIn")) \in Counters /\ Fits(Minus(a, ConnOf("connsIn")), lim)
  BY <1>1, CountersClosed, MinusFits, Zenon
<1>3. Minus(a, ConnOf("connsOut")) \in Counters /\ Fits(Minus(a, ConnOf("connsOut")), lim)
  BY <1>1, CountersClosed, MinusFits, Zenon
<1>4. /\ Minus(Minus(a, ConnOf("connsIn")), ConnOf("connsOut")) \in Counters
      /\ Fits(Minus(Minus(a, ConnOf("connsIn")), ConnOf("connsOut")), lim)
  BY <1>1, <1>2, CountersClosed, MinusFits, Zenon
<1> QED BY <1>3, <1>4, Zenon DEF removeConn

\* The share of a memory limit that a priority may use is at most the limit.
LEMMA ShareBelowLimit ==
  ASSUME NEW prio \in 0 .. ReservationPriorityAlways, NEW n \in Nat
  PROVE  ((1 + prio) * n) \div 256 <= n
<1>1. 256 * n - (1 + prio) * n = (255 - prio) * n
  BY DEF ReservationPriorityAlways
<1>2. (255 - prio) * n >= 0
  BY DEF ReservationPriorityAlways
<1> DEFINE q == (1 + prio) * n
<1>3. q \in Int /\ q <= 256 * n BY <1>1, <1>2 DEF ReservationPriorityAlways
<1> HIDE DEF q
<1>4. q \div 256 <= n BY <1>3
<1> QED BY <1>4, Zenon DEF q

\* A sum of counters, kind by kind.
LEMMA PlusAt ==
  ASSUME NEW a \in Counters, NEW b \in Counters
  PROVE  \A k \in Kinds : Plus(a, b)[k] = a[k] + b[k] /\ a[k] \in Nat /\ b[k] \in Nat
BY Zenon DEF Plus, Counters

\* "n units of one kind", kind by kind.
LEMMA UnitsAt ==
  ASSUME NEW kind \in Kinds, NEW n \in Nat
  PROVE  \A k \in Kinds : Units(kind, n)[k] = IF k = kind THEN n ELSE 0
BY Zenon DEF Units

\* A vector fits when each of its kinds and its two totals do.
LEMMA FitsWhen ==
  ASSUME NEW c, NEW lim,
         c["memory"] <= lim["memory"], c["fd"] <= lim["fd"],
         c["high"] <= lim["high"], c["medium"] <= lim["medium"], c["low"] <= lim["low"],
         c["connsIn"] <= lim["connsIn"], c["connsOut"] <= lim["connsOut"],
         c["high"] + c["medium"] + c["low"] <= lim["tasks"],
         c["connsIn"] + c["connsOut"] <= lim["conns"]
  PROVE  Fits(c, lim)
BY Zenon DEF Fits, Kinds, Levels, Dirs, TaskTotal, ConnTotal

\* ... and conversely.
LEMMA FitsGives ==
  ASSUME NEW c, NEW lim, Fits(c, lim)
  PROVE  /\ c["memory"] <= lim["memory"] /\ c["fd"] <= lim["fd"]
         /\ c["high"] <= lim["high"] /\ c["medium"] <= lim["medium"] /\ c["low"] <= lim["low"]
         /\ c["connsIn"] <= lim["connsIn"] /\ c["connsOut"] <= lim["connsOut"]
         /\ c["high"] + c["medium"] + c["low"] <= lim["tasks"]
         /\ c["connsIn"] + c["connsOut"] <= lim["conns"]
BY Zenon DEF Fits, Kinds, Levels, Dirs, TaskTotal, ConnTotal

\* Memory that checkMemory lets through fits.
LEMMA MemoryFits ==
  ASSUME NEW a \in Counters, NEW lim \in LimitVectors, Fits(a, lim),
         NEW size \in Nat, NEW prio \in 0 .. ReservationPriorityAlways,
         checkMemory(a, lim, size, prio)
  PROVE  Fits(Plus(a, Units("memory", size)), lim)
<1> DEFINE u == Units("memory", size)
<1>1. "memory" \in Kinds /\ u \in Counters
  BY CountersClosed, Zenon DEF Kinds
<1>2. lim["memory"] \in Nat BY Zenon DEF LimitVectors, LimitKinds, Kinds
<1>3. a["memory"] + size <= lim["memory"]
  <2>1. a["memory"] + size \in Nat BY DEF Counters, Kinds
  <2>2. ((1 + prio) * lim["memory"]) \div 256 <= lim["memory"]
    BY <1>2, ShareBelowLimit, Zenon
  <2> DEFINE share == ((1 + prio) * lim["memory"]) \div 256
  <2>3. share \in Int
    <3>1. (1 + prio) * lim["memory"] \in Int BY <1>2
    <3> QED BY <3>1
  <2>4. a["memory"] + size <= share BY Zenon DEF checkMemory
  <2> HIDE DEF share
  <2>5. share <= lim["memory"] BY <2>2, Zenon DEF share
  <2> QED BY <1>2, <2>1, <2>3, <2>4, <2>5
<1> DEFINE c == Plus(a, u)
<1>4. /\ c["memory"] = a["memory"] + size /\ c["fd"] = a["fd"]
      /\ c["high"] = a["high"] /\ c["medium"] = a["medium"] /\ c["low"] = a["low"]
      /\ c["connsIn"] = a["connsIn"] /\ c["connsOut"] = a["connsOut"]
  <2>1. \A k \in Kinds : c[k] = a[k] + u[k] /\ a[k] \in Nat BY <1>1, PlusAt, Zenon
  <2>2. \A k \in Kinds : u[k] = IF k = "memory" THEN size ELSE 0 BY <1>1, UnitsAt, Zenon
  <2> HIDE DEF c, u
  <2> QED BY <2>1, <2>2 DEF Kinds, Levels, Dirs
<1> HIDE DEF c
<1> QED BY <1>3, <1>4, FitsGives, FitsWhen, Zenon DEF c

\* Tasks that addTasks lets through fit.
LEMMA TasksFit ==
  ASSUME NEW a \in Counters, NEW lim \in LimitVectors, Fits(a, lim),
         NEW n \in Nat, NEW level \in Levels, addTasks(a, lim, n, level)
  PROVE  Fits(Plus(a, Units(level, n)), lim)
<1> DEFINE u == Units(level, n)
<1>1. level \in Kinds /\ u \in Counters
  BY CountersClosed, Zenon DEF Kinds
<1> DEFINE c == Plus(a, u)
<1>2. \A k \in Kinds : c[k] = a[k] + u[k] /\ a[k] \in Nat BY <1>1, PlusAt, Zenon
<1>3. \A k \in Kinds : u[k] = IF k = level THEN n ELSE 0 BY <1>1, UnitsAt, Zenon
<1>4. /\ a["high"] + a["medium"] + a["low"] + n <= lim["tasks"]
      /\ a[level] + n <= lim[level]
  BY Zenon DEF addTasks, TaskTotal
<1> HIDE DEF c, u
<1>5. /\ c["memory"] = a["memory"] /\ c["fd"] = a["fd"]
      /\ c["connsIn"] = a["connsIn"] /\ c["connsOut"] = a["connsOut"]
  BY <1>2, <1>3 DEF Kinds, Levels, Dirs
<1>6. \A l \in Levels : c[l] = IF l = level THEN a[l] + n ELSE a[l]
  <2> SUFFICES ASSUME NEW l \in Levels PROVE c[l] = IF l = level THEN a[l] + n ELSE a[l]
    BY Zenon
  <2>1. l \in Kinds BY Zenon DEF Kinds
  <2>2. c[l] = a[l] + u[l] /\ a[l] \in Nat BY <1>2, <2>1, Zenon
  <2>3. u[l] = IF l = level THEN n ELSE 0 BY <1>3, <2>1, Zenon
  <2> QED BY <2>2, <2>3
<1>7. a["high"] \in Nat /\ a["medium"] \in Nat /\ a["low"] \in Nat
  BY Zenon DEF Counters, Kinds, Levels
<1>8. c["high"] + c["medium"] + c["low"] = a["high"] + a["medium"] + a["low"] + n
  <2>1. /\ c["high"] = IF "high" = level THEN a["high"] + n ELSE a["high"]
        /\ c["medium"] = IF "medium" = level THEN a["medium"] + n ELSE a["medium"]
        /\ c["low"] = IF "low" = level THEN a["low"] + n ELSE a["low"]
    BY <1>6, Zenon DEF Levels
  <2>2. level = "high" \/ level = "medium" \/ level = "low"
    BY Zenon DEF Levels
  <2> QED BY <1>7, <2>1, <2>2
<1>9. c["high"] <= lim["high"] /\ c["medium"] <= lim["medium"] /\ c["low"] <= lim["low"]
  BY <1>4, <1>6, FitsGives, Zenon DEF Levels
<1> QED BY <1>4, <1>5, <1>8, <1>9, FitsGives, FitsWhen, Zenon DEF c, u

\* Connections and file descriptors that addConns lets through fit.
LEMMA ConnsFit ==
  ASSUME NEW a \in Counters, NEW lim \in LimitVectors, Fits(a, lim),
         NEW d \in Dirs, addConns(a, lim, ConnOf(d))
  PROVE  Fits(Plus(a, ConnOf(d)), lim)
<1> DEFINE u == ConnOf(d)
<1>1. u \in Counters BY CountersClosed, Zenon
<1> DEFINE c == Plus(a, u)
<1>2. \A k \in Kinds : c[k] = a[k] + u[k] /\ a[k] \in Nat BY <1>1, PlusAt, Zenon
<1>3. \A k \in Kinds : u[k] = IF k \in {d, "fd"} THEN 1 ELSE 0 BY Zenon DEF ConnOf
<1>4. /\ \A x \in Dirs : u[x] > 0 => a[x] + u[x] <= lim[x]
      /\ a["connsIn"] + a["connsOut"] + (u["connsIn"] + u["connsOut"]) <= lim["conns"]
      /\ u["fd"] > 0 => a["fd"] + u["fd"] <= lim["fd"]
  BY Zenon DEF addConns, ConnTotal
<1> HIDE DEF c, u
<1>5. /\ c["memory"] = a["memory"] /\ c["high"] = a["high"]
      /\ c["medium"] = a["medium"] /\ c["low"] = a["low"]
  BY <1>2, <1>3 DEF Kinds, Levels, Dirs
<1>6. c["fd"] = a["fd"] + 1 /\ u["fd"] = 1
  BY <1>2, <1>3, Zenon DEF Kinds
<1>7. \A x \in Dirs : IF x = d THEN u[x] = 1 /\ c[x] = a[x] + 1 ELSE u[x] = 0 /\ c[x] = a[x]
  BY <1>2, <1>3 DEF Kinds, Dirs
<1>8. a["connsIn"] \in Nat /\ a["connsOut"] \in Nat
  BY Zenon DEF Counters, Kinds, Dirs
<1>9. c["connsIn"] + c["connsOut"] <= lim["conns"]
  BY <1>4, <1>7, <1>8 DEF Dirs
<1>10. c["connsIn"] <= lim["connsIn"] /\ c["connsOut"] <= lim["connsOut"]
  BY <1>4, <1>7, FitsGives DEF Dirs
<1>11. c["fd"] <= lim["fd"] BY <1>4, <1>6
<1>12. /\ c["memory"] <= lim["memory"] /\ c["high"] <= lim["high"]
       /\ c["medium"] <= lim["medium"] /\ c["low"] <= lim["low"]
       /\ c["high"] + c["medium"] + c["low"] <= lim["tasks"]
  BY <1>5, FitsGives, Zenon
<1>13. Fits(c, lim) BY <1>9, <1>10, <1>11, <1>12, FitsWhen, Zenon
<1> QED BY <1>13, Zenon DEF c, u

\* ReserveResources at one scope: whether it goes through, fails early or fails in
\* its last check and is undone, the counters of the scope fit.
LEMMA ReserveFits ==
  ASSUME NEW a \in Counters, NEW lim \in LimitVectors, Fits(a, lim), NEW e \in Counters
  PROVE  AfterReserve(a, lim, e) \in Counters /\ Fits(AfterReserve(a, lim, e), lim)
<1> DEFINE n == e["high"]
<1>1. n \in Nat BY Zenon DEF Counters, Kinds, Levels
<1>2. /\ a["memory"] \in Nat /\ a["fd"] \in Nat /\ a["high"] \in Nat /\ a["medium"] \in Nat
      /\ a["low"] \in Nat /\ a["connsIn"] \in Nat /\ a["connsOut"] \in Nat
  BY Zenon DEF Counters, Kinds, Levels, Dirs
<1>3. /\ e["memory"] \in Nat /\ e["fd"] \in Nat /\ e["connsIn"] \in Nat /\ e["connsOut"] \in Nat
  BY Zenon DEF Counters, Kinds, Levels, Dirs
<1>4. CASE ReserveUpToMedium(a, lim, e)
  <2> DEFINE a1 == Plus(a, Units("high", n))
             a2 == Plus(a, Plus(Units("high", n), Units("medium", n)))
  <2>1. /\ a1["high"] = a["high"] + n /\ a1["medium"] = a["medium"] /\ a1["low"] = a["low"]
    BY <1>1, <1>2 DEF Plus, Units, Kinds, Levels, Dirs
  <2>2. /\ a2["high"] = a["high"] + n /\ a2["medium"] = a["medium"] + n /\ a2["low"] = a["low"]
    BY <1>1, <1>2 DEF Plus, Units, Kinds, Levels, Dirs
  <2>3. /\ addTasks(a, lim, n, "high") /\ addTasks(a1, lim, n, "medium")
    BY <1>4, Zenon DEF ReserveUpToMedium
  <2> HIDE DEF a1
  <2>4. /\ a["high"] + n <= lim["high"] /\ a["medium"] + n <= lim["medium"]
        /\ a["high"] + n + a["medium"] + a["low"] + n <= lim["tasks"]
    BY <2>1, <2>3, Zenon DEF addTasks, TaskTotal
  <2>5. CASE ReserveLow(a, lim, e)
    <3> DEFINE c == Plus(a, Charge(e))
    <3>1. addTasks(a2, lim, n, "low")
      BY <2>5, Zenon DEF ReserveLow
    <3> HIDE DEF a2
    <3>2. /\ a["low"] + n <= lim["low"]
          /\ a["high"] + n + (a["medium"] + n) + a["low"] + n <= lim["tasks"]
      BY <2>2, <3>1, Zenon DEF addTasks, TaskTotal
    <3>3. /\ c["memory"] = a["memory"] + e["memory"] /\ c["fd"] = a["fd"] + e["fd"]
          /\ c["connsIn"] = a["connsIn"] + e["connsIn"]
          /\ c["connsOut"] = a["connsOut"] + e["connsOut"]
          /\ c["high"] = a["high"] + n /\ c["medium"] = a["medium"] + n
          /\ c["low"] = a["low"] + n
      BY Zenon DEF Plus, Charge, Kinds, Levels, Dirs
    <3>4. a["memory"] + e["memory"] <= lim["memory"]
      <4>1. checkMemory(a, lim, e["memory"], ReservationPriorityAlways)
        BY <1>4, Zenon DEF ReserveUpToMedium
      <4>2. lim["memory"] \in Nat BY Zenon DEF LimitVectors, LimitKinds, Kinds
      <4> QED BY <1>2, <1>3, <4>1, <4>2 DEF checkMemory, ReservationPriorityAlways
    <3>5. addConns(a, lim, e) BY <1>4, Zenon DEF ReserveUpToMedium
    <3>6. /\ e["connsIn"] > 0 => a["connsIn"] + e["connsIn"] <= lim["connsIn"]
          /\ e["connsOut"] > 0 => a["connsOut"] + e["connsOut"] <= lim["connsOut"]
          /\ a["connsIn"] + a["connsOut"] + (e["connsIn"] + e["connsOut"]) <= lim["conns"]
          /\ e["fd"] > 0 => a["fd"] + e["fd"] <= lim["fd"]
      BY <3>5, Zenon DEF addConns, Dirs, ConnTotal
    <3>7. /\ a["connsIn"] <= lim["connsIn"] /\ a["connsOut"] <= lim["connsOut"]
          /\ a["fd"] <= lim["fd"]
      BY FitsGives, Zenon
    <3>8. c \in Counters BY CountersClosed, Zenon
    <3> HIDE DEF c
    <3>9. /\ c["fd"] <= lim["fd"] /\ c["connsIn"] <= lim["connsIn"]
          /\ c["connsOut"] <= lim["connsOut"] /\ c["connsIn"] + c["connsOut"] <= lim["conns"]
      BY <1>2, <1>3, <3>3, <3>6, <3>7
    <3>10. /\ c["memory"] <= lim["memory"]
           /\ c["high"] <= lim["high"] /\ c["medium"] <= lim["medium"] /\ c["low"] <= lim["low"]
      BY <2>4, <3>2, <3>3, <3>4, Zenon
    <3>11. c["high"] + c["medium"] + c["low"] <= lim["tasks"]
      BY <1>1, <1>2, <3>2, <3>3
    <3>12. Fits(c, lim) BY <3>9, <3>10, <3>11, FitsWhen, Zenon
    <3> QED BY <1>4, <2>5, <3>8, <3>12, Zenon DEF AfterReserve, Reserves, c
  <2>6. CASE ~ReserveLow(a, lim, e)
    <3> DEFINE c == Plus(a, Units("medium", n))
               d == Units("medium", e["medium"])
    <3>1. "medium" \in Kinds /\ "medium" \in Levels BY Zenon DEF Kinds, Levels
    <3>2. e["medium"] \in Nat BY <3>1, Zenon DEF Counters
    <3>3. c \in Counters /\ d \in Counters BY <1>1, <3>1, <3>2, CountersClosed, Zenon
    <3>4. addTasks(a, lim, n, "medium")
      <4>1. lim["tasks"] \in Nat BY Zenon DEF LimitVectors, LimitKinds
      <4> QED BY <1>1, <1>2, <2>4, <4>1 DEF addTasks, TaskTotal
    <3>5. Fits(c, lim) BY <1>1, <3>1, <3>4, TasksFit, Zenon
    <3> HIDE DEF c, d
    <3>6. Minus(c, d) \in Counters /\ Fits(Minus(c, d), lim)
      BY <3>3, <3>5, MinusFits, CountersClosed, Zenon
    <3> QED BY <1>4, <2>6, <3>6, Zenon DEF AfterReserve, Reserves, c, d
  <2> QED BY <2>5, <2>6, Zenon
<1>5. CASE ~ReserveUpToMedium(a, lim, e)
  BY <1>5, Zenon DEF AfterReserve, Reserves
<1> QED BY <1>4, <1>5, Zenon

----------------------------------------------------------------------------
(* Scopes *)

\* The inductive invariant: every scope has counters that fit its limit, and what a
\* caller asks for is a vector of counters.
LimitInv ==
  /\ rc \in [Scopes -> Counters]
  /\ st \in [Callers -> Counters]
  /\ \A s \in Scopes : Fits(rc[s], Limit(s))

\* A span, its service and the system are three different scopes.
LEMMA ChainOfThree ==
  ASSUME NEW p \in Callers
  PROVE  /\ Owner[p] \in Services /\ Chain(p) \subseteq Scopes
         /\ {p, Owner[p], SYS} \subseteq Scopes
         /\ p # Owner[p] /\ p # SYS /\ Owner[p] # SYS
BY NamesAssumption, OwnerAssumption, Zenon DEF Chain, Scopes

\* Every scope has a limit.
LEMMA LimitIsLimit == \A s \in Scopes : Limit(s) \in LimitVectors
<1> SUFFICES ASSUME NEW s \in Scopes PROVE Limit(s) \in LimitVectors BY Zenon
<1>1. CASE s \in Callers
  <2>1. Owner[s] \in Services BY <1>1, OwnerAssumption, Zenon
  <2> QED BY <1>1, <2>1, LimitsAssumption, Zenon DEF Limit, LimitVectors
<1>2. CASE s \notin Callers
  BY <1>2, LimitsAssumption, Zenon DEF Limit, LimitVectors, Scopes
<1> QED BY <1>1, <1>2, Zenon

\* The counters of a scope in a state of the invariant.
LEMMA At ==
  ASSUME LimitInv, NEW s \in Scopes
  PROVE  rc[s] \in Counters /\ Limit(s) \in LimitVectors /\ Fits(rc[s], Limit(s))
BY LimitIsLimit, Zenon DEF LimitInv

\* A step keeps the invariant when it does so scope by scope.
LEMMA ScopeByScope ==
  ASSUME LimitInv, rc' \in [Scopes -> Counters], st' \in [Callers -> Counters],
         \A s \in Scopes : Fits(rc'[s], Limit(s))
  PROVE  LimitInv'
BY Zenon DEF LimitInv, Limit, Fits, TaskTotal, ConnTotal, Scopes

\* A reservation that all scopes of a chain let through keeps the invariant.
LEMMA AllOrNoneKeeps ==
  ASSUME LimitInv, NEW p \in Callers, NEW d \in Counters, NEW ok \in BOOLEAN,
         ok => \A s \in Chain(p) : Fits(Plus(rc[s], d), Limit(s)),
         AllOrNone(p, ok, d), st' = st
  PROVE  LimitInv'
<1>1. CASE ok
  <2>1. rc' = [s \in Scopes |-> IF s \in Chain(p) THEN Plus(rc[s], d) ELSE rc[s]]
    BY <1>1, Zenon DEF AllOrNone
  <2>2. \A s \in Scopes : (rc'[s] = Plus(rc[s], d) /\ s \in Chain(p)) \/ rc'[s] = rc[s]
    BY <2>1, Zenon
  <2>3. \A s \in Scopes : rc'[s] \in Counters /\ Fits(rc'[s], Limit(s))
    BY <1>1, <2>2, At, CountersClosed, Zenon
  <2>4. rc' \in [Scopes -> Counters] BY <2>1, <2>3, Zenon
  <2> QED BY <2>3, <2>4, ScopeByScope, Zenon DEF LimitInv
<1>2. CASE ~ok
  BY <1>2, ScopeByScope, At, Zenon DEF AllOrNone, LimitInv
<1> QED BY <1>1, <1>2, Zenon

\* Giving counters back in all scopes of a chain keeps the invariant.
LEMMA GiveBackKeeps ==
  ASSUME LimitInv, NEW p \in Callers, NEW d \in Counters, GiveBack(p, d), st' = st
  PROVE  LimitInv'
<1>1. rc' = [s \in Scopes |-> IF s \in Chain(p) THEN Minus(rc[s], d) ELSE rc[s]]
  BY Zenon DEF GiveBack
<1>2. \A s \in Scopes : rc'[s] = Minus(rc[s], d) \/ rc'[s] = rc[s]
  BY <1>1, Zenon
<1>3. \A s \in Scopes : rc'[s] \in Counters /\ Fits(rc'[s], Limit(s))
  <2> SUFFICES ASSUME NEW s \in Scopes PROVE rc'[s] \in Counters /\ Fits(rc'[s], Limit(s))
    BY Zenon
  <2>1. rc[s] \in Counters /\ Limit(s) \in LimitVectors /\ Fits(rc[s], Limit(s))
    BY At, Zenon
  <2>2. Minus(rc[s], d) \in Counters /\ Fits(Minus(rc[s], d), Limit(s))
    BY <2>1, CountersClosed, MinusFits, Zenon
  <2> QED BY <1>2, <2>1, <2>2, Zenon
<1>4. rc' \in [Scopes -> Counters] BY <1>1, <1>3, Zenon
<1> QED BY <1>3, <1>4, ScopeByScope, Zenon DEF LimitInv

\* ReserveResources, in each of its four outcomes.
LEMMA ReserveKeeps ==
  ASSUME LimitInv, NEW p \in Callers, ReserveResources(p)
  PROVE  LimitInv'
<1>0. st[p] \in Counters BY Zenon DEF LimitInv
<1>1. DOMAIN rc = Scopes /\ rc' = [s \in Scopes |-> rc'[s]]
  BY Zenon DEF LimitInv, ReserveResources, ReserveFailsInSpan, ReserveFailsInService,
         ReserveFailsInSystem, ReserveSucceeds
<1>2. \A s \in Scopes : \/ rc'[s] = rc[s] \/ rc'[s] = Zero
                        \/ rc'[s] = AfterReserve(rc[s], Limit(s), st[p])
  <2>1. CASE ReserveFailsInSpan(p)
    BY <2>1, <1>1, ChainOfThree, Zenon DEF ReserveFailsInSpan
  <2>2. CASE ReserveFailsInService(p)
    BY <2>2, <1>1, ChainOfThree, Zenon DEF ReserveFailsInService
  <2>3. CASE ReserveFailsInSystem(p)
    BY <2>3, <1>1, ChainOfThree, Zenon DEF ReserveFailsInSystem
  <2>4. CASE ReserveSucceeds(p)
    BY <2>4, Zenon DEF ReserveSucceeds
  <2> QED BY <2>1, <2>2, <2>3, <2>4, Zenon DEF ReserveResources
<1>3. \A s \in Scopes : rc'[s] \in Counters /\ Fits(rc'[s], Limit(s))
  BY <1>0, <1>2, At, ReserveFits, ZeroFits, CountersClosed
<1>4. rc' \in [Scopes -> Counters] BY <1>1, <1>3, Zenon
<1>5. st' \in [Callers -> Counters]
  BY CountersClosed, Zenon DEF LimitInv, ReserveResources, ReserveFailsInSpan,
     ReserveFailsInService, ReserveFailsInSystem, ReserveSucceeds
<1> QED BY <1>3, <1>4, <1>5, ScopeByScope, Zenon

\* The counters of a span are cleared when it begins.
LEMMA BeginKeeps ==
  ASSUME LimitInv, NEW p \in Callers, NEW e \in Stats, BeginSpan(p, e)
  PROVE  LimitInv'
<1>1. rc' = [rc EXCEPT ![p] = Zero] /\ st' = [st EXCEPT ![p] = e]
  BY Zenon DEF BeginSpan
<1>2. rc' \in [Scopes -> Counters] /\ st' \in [Callers -> Counters]
  BY <1>1, CountersClosed, StatsAssumption, Zenon DEF LimitInv
<1>3. \A s \in Scopes : rc'[s] = rc[s] \/ rc'[s] = Zero
  BY <1>1, Zenon DEF LimitInv
<1>4. \A s \in Scopes : Fits(rc'[s], Limit(s))
  BY <1>3, At, ZeroFits, Zenon
<1> QED BY <1>2, <1>4, ScopeByScope, Zenon

\* Done takes the counters of the span from the service and the system.
LEMMA DoneKeeps ==
  ASSUME LimitInv, NEW p \in Callers, Done(p)
  PROVE  LimitInv'
<1>1. /\ rc' = [rc EXCEPT ![Owner[p]] = Minus(@, rc[p]), ![SYS] = Minus(@, rc[p]), ![p] = Zero]
      /\ st' = [st EXCEPT ![p] = Zero]
  BY Zenon DEF Done
<1>2. DOMAIN rc = Scopes /\ rc' = [s \in Scopes |-> rc'[s]]
  BY <1>1, Zenon DEF LimitInv
<1>3. \A s \in Scopes : rc'[s] = rc[s] \/ rc'[s] = Zero \/ rc'[s] = Minus(rc[s], rc[p])
  BY <1>1, <1>2, ChainOfThree, Zenon
<1>4. rc[p] \in Counters BY ChainOfThree, At, Zenon
<1>5. \A s \in Scopes : rc'[s] \in Counters /\ Fits(rc'[s], Limit(s))
  <2> SUFFICES ASSUME NEW s \in Scopes PROVE rc'[s] \in Counters /\ Fits(rc'[s], Limit(s))
    BY Zenon
  <2>1. rc[s] \in Counters /\ Limit(s) \in LimitVectors /\ Fits(rc[s], Limit(s)) BY At, Zenon
  <2>2. Minus(rc[s], rc[p]) \in Counters BY <1>4, <2>1, CountersClosed, Zenon
  <2>3. Fits(Minus(rc[s], rc[p]), Limit(s)) BY <1>4, <2>1, MinusFits, Zenon
  <2>4. Zero \in Counters /\ Fits(Zero, Limit(s)) BY <2>1, ZeroFits, CountersClosed, Zenon
  <2> QED BY <1>3, <2>1, <2>2, <2>3, <2>4, Zenon
<1>6. rc' \in [Scopes -> Counters] BY <1>2, <1>5, Zenon
<1>7. st' \in [Callers -> Counters] BY <1>1, CountersClosed, Zenon DEF LimitInv
<1> QED BY <1>5, <1>6, <1>7, ScopeByScope, Zenon

\* The stop of a module takes the counters of its service from the system.
LEMMA ReleaseKeeps ==
  ASSUME LimitInv, NEW x \in Services, Release(x)
  PROVE  LimitInv'
<1>1. /\ rc' = [rc EXCEPT ![x] = Zero, ![SYS] = Minus(@, rc[x])]
      /\ st' = st
  BY Zenon DEF Release
<1>2. DOMAIN rc = Scopes /\ rc' = [s \in Scopes |-> rc'[s]]
  BY <1>1, Zenon DEF LimitInv
<1>3. x \in Scopes /\ x # SYS BY NamesAssumption, Zenon DEF Scopes
<1>4. \A s \in Scopes : rc'[s] = rc[s] \/ rc'[s] = Zero \/ rc'[s] = Minus(rc[s], rc[x])
  BY <1>1, <1>2, <1>3, Zenon
<1>5. rc[x] \in Counters BY <1>3, At, Zenon
<1>6. \A s \in Scopes : rc'[s] \in Counters /\ Fits(rc'[s], Limit(s))
  <2> SUFFICES ASSUME NEW s \in Scopes PROVE rc'[s] \in Counters /\ Fits(rc'[s], Limit(s))
    BY Zenon
  <2>1. rc[s] \in Counters /\ Limit(s) \in LimitVectors /\ Fits(rc[s], Limit(s)) BY At, Zenon
  <2>2. Minus(rc[s], rc[x]) \in Counters BY <1>5, <2>1, CountersClosed, Zenon
  <2>3. Fits(Minus(rc[s], rc[x]), Limit(s)) BY <1>5, <2>1, MinusFits, Zenon
  <2>4. Zero \in Counters /\ Fits(Zero, Limit(s)) BY <2>1, ZeroFits, CountersClosed, Zenon
  <2> QED BY <1>4, <2>1, <2>2, <2>3, <2>4, Zenon
<1>7. rc' \in [Scopes -> Counters] BY <1>2, <1>6, Zenon
<1> QED BY <1>1, <1>6, <1>7, ScopeByScope, Zenon DEF LimitInv

\* A connection that is counted, or counted and taken back where a later scope
\* refuses it.
LEMMA AddConnKeeps ==
  ASSUME LimitInv, NEW p \in Callers, NEW d \in Dirs, AddConn(p, d)
  PROVE  LimitInv'
<1> DEFINE ok(s) == addConns(rc[s], Limit(s), ConnOf(d))
<1>1. st' = st BY Zenon DEF AddConn, InSpan
<1>2. DOMAIN rc = Scopes /\ rc' = [s \in Scopes |-> rc'[s]]
  BY Zenon DEF LimitInv, AddConn
<1>3. \A s \in Scopes :
        \/ rc'[s] = rc[s]
        \/ ok(s) /\ rc'[s] = Plus(rc[s], ConnOf(d))
        \/ ok(s) /\ rc'[s] = removeConn(Plus(rc[s], ConnOf(d)), d)
  <2>1. CASE ~ok(p) BY <2>1, Zenon DEF AddConn
  <2>2. CASE ok(p) /\ ~ok(Owner[p])
    BY <1>2, <2>2, ChainOfThree, Zenon DEF AddConn
  <2>3. CASE ok(p) /\ ok(Owner[p]) /\ ~ok(SYS)
    BY <1>2, <2>3, ChainOfThree, Zenon DEF AddConn
  <2>4. CASE ok(p) /\ ok(Owner[p]) /\ ok(SYS)
    <3>1. \A s \in Chain(p) : ok(s) BY <2>4, Zenon DEF Chain
    <3>2. rc' = [x \in Scopes |-> IF x \in Chain(p) THEN Plus(rc[x], ConnOf(d)) ELSE rc[x]]
      BY <2>4, Zenon DEF AddConn
    <3> HIDE DEF ok
    <3> QED BY <3>1, <3>2, Zenon
  <2> QED BY <2>1, <2>2, <2>3, <2>4, Zenon
<1>4. \A s \in Scopes : ok(s) => /\ Plus(rc[s], ConnOf(d)) \in Counters
                                 /\ Fits(Plus(rc[s], ConnOf(d)), Limit(s))
  BY At, ConnsFit, CountersClosed, Zenon
<1> HIDE DEF ok
<1>5. \A s \in Scopes : rc'[s] \in Counters /\ Fits(rc'[s], Limit(s))
  BY <1>3, <1>4, At, RemoveConnFits, Zenon
<1>6. rc' \in [Scopes -> Counters] BY <1>2, <1>5, Zenon
<1> QED BY <1>1, <1>5, <1>6, ScopeByScope, Zenon DEF LimitInv

\* A connection given back in all scopes of a chain.
LEMMA RemoveConnKeeps ==
  ASSUME LimitInv, NEW p \in Callers, NEW d \in Dirs, RemoveConn(p, d)
  PROVE  LimitInv'
<1>1. rc' = [s \in Scopes |-> IF s \in Chain(p) THEN removeConn(rc[s], d) ELSE rc[s]]
  BY Zenon DEF RemoveConn
<1>2. \A s \in Scopes : rc'[s] = removeConn(rc[s], d) \/ rc'[s] = rc[s]
  BY <1>1, Zenon
<1>3. \A s \in Scopes : rc'[s] \in Counters /\ Fits(rc'[s], Limit(s))
  BY <1>2, At, RemoveConnFits, Zenon
<1>4. rc' \in [Scopes -> Counters] BY <1>1, <1>3, Zenon
<1> QED BY <1>3, <1>4, ScopeByScope, Zenon DEF LimitInv, RemoveConn, InSpan

\* Every step of every caller keeps the invariant.
LEMMA StepKeepsLimits == LimitInv /\ [Next]_vars => LimitInv'
<1> SUFFICES ASSUME LimitInv, [Next]_vars PROVE LimitInv' BY Zenon
<1>1. ASSUME rc' = rc, st' = st PROVE LimitInv'
  BY <1>1, ScopeByScope, At, Zenon DEF LimitInv
<1>2. CASE UNCHANGED vars BY <1>1, <1>2, Zenon DEF vars
<1>3. ASSUME NEW p \in Callers, RemainingResource(p) \/ NoTask(p) \/ DecRef(p)
      PROVE  LimitInv'
  BY <1>1, <1>3, Zenon DEF RemainingResource, NoTask, DecRef
<1>4. ASSUME NEW p \in Callers, NEW m \in MemoryOps, ReserveMemory(p, m[1], m[2])
      PROVE  LimitInv'
  <2> DEFINE ok == \A s \in Chain(p) : checkMemory(rc[s], Limit(s), m[1], m[2])
  <2>1. m[1] \in Nat /\ m[2] \in 0 .. ReservationPriorityAlways BY OpsAssumption, Zenon
  <2>2. Units("memory", m[1]) \in Counters BY <2>1, CountersClosed, Zenon DEF Kinds
  <2>3. AllOrNone(p, ok, Units("memory", m[1])) /\ st' = st
    BY <1>4, Zenon DEF ReserveMemory, InSpan
  <2>4. ok => \A s \in Chain(p) : Fits(Plus(rc[s], Units("memory", m[1])), Limit(s))
    BY <2>1, MemoryFits, At, ChainOfThree, Zenon
  <2>5. ok \in BOOLEAN BY Zenon
  <2> HIDE DEF ok
  <2> QED BY <2>2, <2>3, <2>4, <2>5, AllOrNoneKeeps, Zenon
<1>5. ASSUME NEW p \in Callers, NEW l \in TaskOps, AddTask(p, l)
      PROVE  LimitInv'
  <2> DEFINE ok == \A s \in Chain(p) : addTasks(rc[s], Limit(s), 1, l)
  <2>1. l \in Levels /\ l \in Kinds BY OpsAssumption, Zenon DEF Kinds
  <2>2. Units(l, 1) \in Counters BY <2>1, CountersClosed, Zenon
  <2>3. AllOrNone(p, ok, Units(l, 1)) /\ st' = st
    BY <1>5, Zenon DEF AddTask, InSpan
  <2>4. ok => \A s \in Chain(p) : Fits(Plus(rc[s], Units(l, 1)), Limit(s))
    BY <2>1, TasksFit, At, ChainOfThree, Zenon
  <2>5. ok \in BOOLEAN BY Zenon
  <2> HIDE DEF ok
  <2> QED BY <2>2, <2>3, <2>4, <2>5, AllOrNoneKeeps, Zenon
<1>6. ASSUME NEW p \in Callers, NEW m \in MemoryOps, ReleaseMemory(p, m[1])
      PROVE  LimitInv'
  <2>1. Units("memory", m[1]) \in Counters BY CountersClosed, OpsAssumption, Zenon DEF Kinds
  <2> QED BY <1>6, <2>1, GiveBackKeeps, Zenon DEF ReleaseMemory, InSpan
<1>7. ASSUME NEW p \in Callers, NEW l \in TaskOps, RemoveTask(p, l)
      PROVE  LimitInv'
  <2>1. Units(l, 1) \in Counters BY CountersClosed, OpsAssumption, Zenon DEF Kinds
  <2> QED BY <1>7, <2>1, GiveBackKeeps, Zenon DEF RemoveTask, InSpan
<1>8. ASSUME NEW p \in Callers, NEW d \in ConnOps, AddConn(p, d) \/ RemoveConn(p, d)
      PROVE  LimitInv'
  BY <1>8, OpsAssumption, AddConnKeeps, RemoveConnKeeps, Zenon
<1> QED BY <1>2, <1>3, <1>4, <1>5, <1>6, <1>7, <1>8, BeginKeeps, ReserveKeeps, DoneKeeps,
           ReleaseKeeps, Zenon DEF Next, Operate

\* With nothing reserved, every scope is within its limit.
LEMMA InitLimits == NewResourceManager => LimitInv
<1> SUFFICES ASSUME NewResourceManager PROVE LimitInv BY Zenon
<1>1. rc \in [Scopes -> Counters] /\ st \in [Callers -> Counters]
  BY CountersClosed, Zenon DEF NewResourceManager
<1>2. \A s \in Scopes : rc[s] = Zero BY Zenon DEF NewResourceManager
<1>3. \A s \in Scopes : Fits(rc[s], Limit(s)) BY <1>2, ZeroFits, LimitIsLimit, Zenon
<1> QED BY <1>1, <1>3, Zenon DEF LimitInv

\* However the reservations of concurrent callers, their refusals, their undos and
\* the releases at the stop of a module interleave, no scope passes its limits.
THEOREM LimitsRespected == Spec => []WithinLimits
<1>1. NewResourceManager => LimitInv BY InitLimits, Zenon
<1>2. LimitInv => WithinLimits BY Zenon DEF LimitInv, WithinLimits, Fits
<1> QED BY <1>1, <1>2, StepKeepsLimits, PTL DEF Spec

----------------------------------------------------------------------------
(* References *)

Live(s) == {p \in Spans(s) : pc[p] \notin {"idle", "asked"}}

\* The inductive invariant behind the type invariant: that a reference count is not
\* negative depends on its counting the spans that are alive.
RefInv ==
  /\ LimitInv
  /\ refCnt \in [Services -> 0 .. MaxRef]
  /\ pc \in [Callers -> Labels]
  /\ hint \in [Callers -> LimitVectors]
  /\ held \subseteq Services \cup Callers
  /\ \A s \in Services : Cardinality(Live(s)) <= refCnt[s]

\* There are finitely many spans.
LEMMA LiveFinite == \A s : IsFiniteSet(Live(s)) /\ IsFiniteSet(Live(s)')
<1>1. IsFiniteSet(Callers) BY NamesAssumption, Zenon
<1>2. \A s : Live(s) \subseteq Callers /\ Live(s)' \subseteq Callers BY Zenon DEF Live, Spans
<1> QED BY <1>1, <1>2, FS_Subset, Zenon

\* RemainingResource yields a limit.
LEMMA RemainingIsLimit ==
  ASSUME NEW a \in Counters, NEW lim \in LimitVectors
  PROVE  remaining(a, lim) \in LimitVectors
<1>1. \A k \in LimitKinds, n \in Nat : Rest(lim[k], n) \in Nat
  BY DEF Rest, LimitVectors
<1>2. a["memory"] \in Nat /\ a["high"] \in Nat /\ a["low"] \in Nat
  BY Zenon DEF Counters, Kinds, Levels
<1>3. 3 * a["high"] \in Nat BY <1>2
<1> SUFFICES ASSUME NEW k \in LimitKinds
             PROVE  remaining(a, lim)[k] \in Nat
  BY Zenon DEF remaining, LimitVectors
<1>4. remaining(a, lim)[k] = IF k = "memory" THEN Rest(lim[k], a["memory"])
                             ELSE IF k = "tasks" THEN Rest(lim[k], 3 * a["high"])
                             ELSE IF k \in Levels THEN Rest(lim[k], a["low"])
                             ELSE 0
  BY Zenon DEF remaining
<1> QED BY <1>1, <1>2, <1>3, <1>4

\* A step that does not make a span alive and leaves the counts alone.
LEMMA NoNewSpan ==
  ASSUME RefInv, LimitInv', refCnt' = refCnt, pc' \in [Callers -> Labels],
         hint' \in [Callers -> LimitVectors], held' \subseteq Services \cup Callers,
         \A q \in Callers : pc'[q] \notin {"idle", "asked"} => pc[q] \notin {"idle", "asked"}
  PROVE  RefInv'
<1> SUFFICES ASSUME NEW s \in Services PROVE Cardinality(Live(s)') <= refCnt[s]
  BY Zenon DEF RefInv
<1>1. Live(s)' \subseteq Live(s) BY Zenon DEF Live, Spans
<1>2. Cardinality(Live(s)') <= Cardinality(Live(s)) BY <1>1, LiveFinite, FS_Subset, Zenon
<1>3. Cardinality(Live(s)) \in Nat /\ Cardinality(Live(s)') \in Nat
  BY LiveFinite, FS_CardinalityType, Zenon
<1>4. refCnt[s] \in Nat /\ Cardinality(Live(s)) <= refCnt[s]
  BY OpsAssumption DEF RefInv
<1> QED BY <1>2, <1>3, <1>4

\* BeginSpan counts the span it makes alive.
LEMMA BeginCounts ==
  ASSUME RefInv, LimitInv', NEW p \in Callers, NEW e \in Stats, BeginSpan(p, e)
  PROVE  RefInv'
<1>1. Owner[p] \in Services BY ChainOfThree, Zenon
<1>2. /\ refCnt[Owner[p]] < MaxRef
      /\ refCnt' = [refCnt EXCEPT ![Owner[p]] = @ + 1]
      /\ pc' = [pc EXCEPT ![p] = "begun"] /\ hint' = [hint EXCEPT ![p] = NoHint]
      /\ held' = held
  BY Zenon DEF BeginSpan, Goto
<1>3. pc' \in [Callers -> Labels] BY <1>2, Zenon DEF RefInv, Labels
<1>4. hint' \in [Callers -> LimitVectors] BY <1>2, Zenon DEF RefInv, NoHint, LimitVectors
<1>5. refCnt' \in [Services -> 0 .. MaxRef]
  <2>1. refCnt[Owner[p]] + 1 \in 0 .. MaxRef BY <1>1, <1>2, OpsAssumption, SMTT(60) DEF RefInv
  <2> QED BY <1>2, <2>1, Zenon DEF RefInv
<1>6. ASSUME NEW s \in Services PROVE Cardinality(Live(s)') <= refCnt'[s]
  <2>1. Cardinality(Live(s)) <= refCnt[s] /\ refCnt[s] \in Nat
    BY OpsAssumption DEF RefInv
  <2>2. CASE s = Owner[p]
    <3>1. Live(s)' \subseteq Live(s) \cup {p} BY <1>2, Zenon DEF Live, Spans, RefInv
    <3>2. IsFiniteSet(Live(s) \cup {p}) /\
          (Cardinality(Live(s) \cup {p}) = Cardinality(Live(s)) \/
           Cardinality(Live(s) \cup {p}) = Cardinality(Live(s)) + 1)
      BY LiveFinite, FS_AddElement, Zenon
    <3>3. Cardinality(Live(s)') <= Cardinality(Live(s) \cup {p}) BY <3>1, <3>2, FS_Subset, Zenon
    <3>4. Cardinality(Live(s)) \in Nat /\ Cardinality(Live(s)') \in Nat
      BY LiveFinite, FS_CardinalityType, Zenon
    <3>5. refCnt'[s] = refCnt[s] + 1 BY <1>2, <2>2, Zenon DEF RefInv
    <3> DEFINE a == Cardinality(Live(s))
               b == Cardinality(Live(s)')
               c == Cardinality(Live(s) \cup {p})
               n == refCnt[s]
    <3>6. a <= n /\ n \in Nat /\ b <= c /\ (c = a \/ c = a + 1) /\ a \in Nat /\ b \in Nat
      BY <2>1, <3>2, <3>3, <3>4, Zenon
    <3> HIDE DEF a, b, c, n
    <3>7. b <= n + 1
      BY <3>6
    <3> QED BY <3>5, <3>7, Zenon DEF b, n
  <2>3. CASE s # Owner[p]
    <3>1. Live(s)' = Live(s) BY <1>2, <2>3, Zenon DEF Live, Spans, RefInv
    <3>2. refCnt'[s] = refCnt[s] BY <1>2, <2>3, Zenon DEF RefInv
    <3> QED BY <2>1, <3>1, <3>2, Zenon
  <2> QED BY <2>2, <2>3, Zenon
<1> QED BY <1>2, <1>3, <1>4, <1>5, <1>6, Zenon DEF RefInv

\* DecRef uncounts a span that was alive, so the count was positive.
LEMMA DecRefCounts ==
  ASSUME RefInv, LimitInv', NEW p \in Callers, DecRef(p)
  PROVE  RefInv'
<1>1. Owner[p] \in Services BY ChainOfThree, Zenon
<1>2. /\ pc[p] = "ending" /\ pc' = [pc EXCEPT ![p] = "idle"]
      /\ refCnt' = [refCnt EXCEPT ![Owner[p]] = @ - 1]
      /\ hint' = hint /\ held' = held
  BY Zenon DEF DecRef, Goto
<1>3. pc' \in [Callers -> Labels] BY <1>2, Zenon DEF RefInv, Labels
<1>4. p \in Live(Owner[p]) BY <1>2, Zenon DEF Live, Spans
<1>5. ASSUME NEW s \in Services
      PROVE  Cardinality(Live(s)') <= refCnt'[s] /\ refCnt'[s] \in 0 .. MaxRef
  <2>1. Cardinality(Live(s)) <= refCnt[s] /\ refCnt[s] \in 0 .. MaxRef /\ MaxRef \in Nat
    BY OpsAssumption, Zenon DEF RefInv
  <2>2. Cardinality(Live(s)) \in Nat /\ Cardinality(Live(s)') \in Nat
    BY LiveFinite, FS_CardinalityType, Zenon
  <2>3. CASE s = Owner[p]
    <3>1. Live(s)' = Live(s) \ {p} BY <1>2, Zenon DEF Live, Spans, RefInv
    <3>2. Cardinality(Live(s) \ {p}) = Cardinality(Live(s)) - 1
      BY <1>4, <2>3, LiveFinite, FS_RemoveElement, Zenon
    <3>3. refCnt'[s] = refCnt[s] - 1 BY <1>2, <2>3, Zenon DEF RefInv
    <3> QED BY <2>1, <2>2, <3>1, <3>2, <3>3
  <2>4. CASE s # Owner[p]
    <3>1. Live(s)' = Live(s) BY <1>2, <2>4, Zenon DEF Live, Spans, RefInv
    <3>2. refCnt'[s] = refCnt[s] BY <1>2, <2>4, Zenon DEF RefInv
    <3> QED BY <2>1, <3>1, <3>2, Zenon
  <2> QED BY <2>3, <2>4, Zenon
<1>6. refCnt' \in [Services -> 0 .. MaxRef] BY <1>2, <1>5, Zenon DEF RefInv
<1> QED BY <1>2, <1>3, <1>5, <1>6, Zenon DEF RefInv

\* Every step keeps the counts.
LEMMA StepKeepsCounts == RefInv /\ [Next]_vars => RefInv'
<1> SUFFICES ASSUME RefInv, [Next]_vars PROVE RefInv' BY Zenon
<1>0. LimitInv /\ LimitInv' BY StepKeepsLimits, Zenon DEF RefInv
<1>1. ASSUME refCnt' = refCnt, pc' = pc, hint' = hint, held' = held PROVE RefInv'
  BY <1>0, <1>1, NoNewSpan, Zenon DEF RefInv
<1>2. CASE UNCHANGED vars BY <1>1, <1>2, Zenon DEF vars
<1>3. ASSUME NEW p \in Callers, RemainingResource(p) PROVE RefInv'
  <2>1. Owner[p] \in Scopes /\ Limit(Owner[p]) = Limits[Owner[p]]
    BY ChainOfThree, NamesAssumption, Zenon DEF Limit, Scopes
  <2>2. remaining(rc[Owner[p]], Limits[Owner[p]]) \in LimitVectors
    BY <1>0, <2>1, At, RemainingIsLimit, Zenon
  <2>3. /\ pc' \in [Callers -> Labels] /\ hint' \in [Callers -> LimitVectors]
        /\ refCnt' = refCnt /\ held' = held
    BY <1>3, <2>2, Zenon DEF RemainingResource, Goto, RefInv, Labels
  <2>4. \A q \in Callers : pc'[q] \notin {"idle", "asked"} => pc[q] \notin {"idle", "asked"}
    BY <1>3, Zenon DEF RemainingResource, Goto, RefInv
  <2> QED BY <1>0, <2>3, <2>4, NoNewSpan, Zenon DEF RefInv
<1>4. ASSUME NEW p \in Callers, NoTask(p) PROVE RefInv'
  <2>1. /\ pc' \in [Callers -> Labels] /\ hint' \in [Callers -> LimitVectors]
        /\ refCnt' = refCnt /\ held' = held
    BY <1>4, Zenon DEF NoTask, Goto, RefInv, Labels, NoHint, LimitVectors
  <2>2. \A q \in Callers : pc'[q] \notin {"idle", "asked"} => pc[q] \notin {"idle", "asked"}
    BY <1>4, Zenon DEF NoTask, Goto, RefInv
  <2> QED BY <1>0, <2>1, <2>2, NoNewSpan, Zenon DEF RefInv
<1>5. ASSUME NEW p \in Callers, ReserveResources(p) PROVE RefInv'
  <2>1. pc[p] = "begun" /\ refCnt' = refCnt /\ hint' = hint
    BY <1>5, Zenon DEF ReserveResources
  <2>2. PICK l \in Labels : pc' = [pc EXCEPT ![p] = l]
    BY <1>5, Zenon DEF ReserveResources, ReserveFailsInSpan, ReserveFailsInService,
       ReserveFailsInSystem, ReserveSucceeds, Goto, Labels
  <2>3. held' \subseteq held \cup {p, Owner[p]}
    BY <1>5, Zenon DEF ReserveResources, ReserveFailsInSpan, ReserveFailsInService,
       ReserveFailsInSystem, ReserveSucceeds
  <2>4. held' \subseteq Services \cup Callers
    BY <2>3, ChainOfThree, Zenon DEF RefInv
  <2>5. \A q \in Callers : pc'[q] \notin {"idle", "asked"} => pc[q] \notin {"idle", "asked"}
    BY <2>1, <2>2, Zenon DEF RefInv
  <2> QED BY <1>0, <2>1, <2>2, <2>4, <2>5, NoNewSpan, Zenon DEF RefInv
<1>6. ASSUME NEW p \in Callers, Done(p) PROVE RefInv'
  <2>1. /\ pc' \in [Callers -> Labels] /\ hint' = hint /\ refCnt' = refCnt /\ held' = held
    BY <1>6, Zenon DEF Done, Goto, RefInv, Labels
  <2>2. \A q \in Callers : pc'[q] \notin {"idle", "asked"} => pc[q] \notin {"idle", "asked"}
    BY <1>6, Zenon DEF Done, Goto, RefInv
  <2> QED BY <1>0, <2>1, <2>2, NoNewSpan, Zenon DEF RefInv
<1>7. ASSUME NEW p \in Callers, NEW m,
             \/ ReserveMemory(p, m[1], m[2]) \/ ReleaseMemory(p, m[1])
             \/ AddTask(p, m) \/ RemoveTask(p, m) \/ AddConn(p, m) \/ RemoveConn(p, m)
      PROVE  RefInv'
  BY <1>1, <1>7, Zenon DEF ReserveMemory, ReleaseMemory, AddTask, RemoveTask, AddConn, RemoveConn,
     InSpan
<1>8. ASSUME NEW s \in Services, Release(s) PROVE RefInv'
  BY <1>1, <1>8, Zenon DEF Release
<1> QED BY <1>0, <1>2, <1>3, <1>4, <1>5, <1>6, <1>7, <1>8, BeginCounts, DecRefCounts, Zenon DEF Next, Operate

\* The invariant holds from the start.
LEMMA InitCounts == NewResourceManager => RefInv
<1> SUFFICES ASSUME NewResourceManager PROVE RefInv BY Zenon
<1>1. LimitInv BY InitLimits, Zenon
<1>2. \A s \in Services : Live(s) = {} BY Zenon DEF NewResourceManager, Live, Spans
<1>3. \A s \in Services : Cardinality(Live(s)) = 0 BY <1>2, FS_EmptySet, Zenon
<1> QED BY <1>1, <1>3, OpsAssumption DEF NewResourceManager, RefInv, NoHint, LimitVectors, Labels

\* No counter and no reference count is ever negative: the "BUG: too many ...
\* released" branches keep the counters natural, and DecRef never runs for a span
\* that the service does not count.
THEOREM ScopesTypeCorrect == Spec => []TypeOK
<1> DEFINE Known == stopped \subseteq Services
<1>1. RefInv /\ Known => TypeOK BY Zenon DEF RefInv, LimitInv, TypeOK, LimitVectors
<1>2. NewResourceManager => Known BY Zenon DEF NewResourceManager
<1>3. Known /\ [Next]_vars => Known' BY Zenon DEF Next, Release, vars
<1> HIDE DEF Known
<1> QED BY <1>1, <1>2, <1>3, InitCounts, StepKeepsCounts, PTL DEF Spec

\* IsUnused is never true of a service that has a span alive.
THEOREM LiveSpansAreCounted == Spec => []LiveSpansCounted
<1>1. RefInv => LiveSpansCounted BY Zenon DEF RefInv, LiveSpansCounted, Live
<1> QED BY <1>1, InitCounts, StepKeepsCounts, PTL DEF Spec
=============================================================================
