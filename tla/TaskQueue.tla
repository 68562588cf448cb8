----------------------------- MODULE TaskQueue -----------------------------
(***************************************************************************)
(* One GfSpTQueue / GfSpTQueueWithLimit (base/gfsptqueue) under arbitrary  *)
(* concurrent callers.  Each method holds the queue's mutex from start to  *)
(* end, so a call is one step.  A task is abstracted to its create time;   *)
(* what the two callbacks answer about a queued task changes with time and *)
(* with the task's retry counter, which others update outside the mutex:   *)
(* Age and SetFilterTaskStrategy change the answers between calls.         *)
(***************************************************************************)
EXTENDS TQueueOps

CONSTANTS Keys,    \* task keys
          Times,   \* create times (seconds: two tasks may share one)
          Cap      \* capacity of the queue

ASSUME KeysAssumption == Keys \subseteq Nat /\ IsFiniteSet(Keys)
ASSUME TimesAssumption == Times \subseteq Nat \ {0}
ASSUME CapAssumption == Cap \in Nat \ {0}

VARIABLES tasks,    \* map key -> create time
          current,  \* create time of the last task topped, the scan cursor
          gcSet,    \* a retire callback is set
          dead,     \* queued tasks the retire callback would accept
          hidden,   \* queued tasks the filter callback rejects
          op,       \* history: the last call, its key and what it selected
          waited    \* history: see Waiting below

vars == <<tasks, current, gcSet, dead, hidden, op, waited>>

Queued == DOMAIN tasks

\* The tasks on which t.gcFunc(task) holds; none while no callback is set.
gc == IF gcSet THEN dead ELSE {}

NoOp == [name |-> "none", key |-> 0, time |-> 0, fits |-> Keys]
Done(name, k, t, fits) == op' = [name |-> name, key |-> k, time |-> t, fits |-> fits]

\* Answers about a task that left the queue are forgotten with it.
Forget == /\ dead' = dead \cap DOMAIN tasks'
          /\ hidden' = hidden \cap DOMAIN tasks'

Selected(o) == IF o.name \in {"top", "pop"} THEN {o.time} ELSE {}

\* No other queued task was created in the same second.
Alone(k) == \A x \in Queued \ {k} : tasks[x] # tasks[k]

\* waited[k]: the create times selected while k could have been selected and was
\* not, since it was pushed or last selected.
Waiting ==
  waited' = [k \in Keys |->
    IF /\ k \in Queued \cap DOMAIN tasks'
       /\ Alone(k)
       /\ k \notin hidden \cup hidden' \cup gc \cup gc'
       /\ k \in op'.fits
       /\ ~(op'.name \in {"top", "pop"} /\ op'.key = k)
       /\ ~(op'.name = "nil" /\ op'.key = k)
    THEN waited[k] \cup Selected(op')
    ELSE {}]

NewGfSpTQueue ==
  /\ tasks = [k \in {} |-> 0]
  /\ current = 0
  /\ gcSet = FALSE
  /\ dead = {}
  /\ hidden = {}
  /\ op = NoOp
  /\ waited = [k \in Keys |-> {}]

----------------------------------------------------------------------------
Has(k) ==
  /\ tasks' = AfterHas(tasks, gc, k)
  /\ Forget
  /\ Done("has", k, 0, Keys)
  /\ UNCHANGED <<current, gcSet>>
  /\ Waiting

\* A pushed task may be one the retire callback accepts from the start (d).
Push(k, t, d) ==
  LET ok == PushErr(tasks, gc, Cap, k) = "nil"
  IN  /\ tasks' = AfterPush(tasks, gc, Cap, k, t)
      /\ dead' = ((dead \ {x \in {k} : ok}) \cap DOMAIN tasks') \cup {x \in {k} : ok /\ d}
      /\ hidden' = (hidden \ {x \in {k} : ok}) \cap DOMAIN tasks'
      /\ Done(PushErr(tasks, gc, Cap, k), k, t, Keys)
      /\ UNCHANGED <<current, gcSet>>
      /\ Waiting

PopByKey(k) ==
  /\ tasks' = AfterPopByKey(tasks, gc, k)
  /\ Forget
  /\ Done("popByKey", IF has(tasks, gc, k) THEN k ELSE 0, 0, Keys)
  /\ UNCHANGED <<current, gcSet>>
  /\ Waiting

\* backupTasks: the tasks that are not retired, fit the limit and pass the filter.
Backup(fits) == ((Queued \ gc) \cap fits) \ hidden

\* Mutant: the search finds the cursor itself again.
BugIndex(S) ==
  LET after == {k \in S : tasks[k] >= current}
      pool  == IF after = {} THEN S ELSE after
  IN  {k \in pool : \A x \in pool : tasks[k] <= tasks[x]}

\* The create time sort.Search finds: the first after the cursor, or, past the
\* end, the first of all.
Index(S) ==
  LET after == {k \in S : tasks[k] > current}
      pool  == IF after = {} THEN S ELSE after
  IN  {k \in pool : \A x \in pool : tasks[k] <= tasks[x]}

\* topByLimit: sort.Slice is unstable and the map is iterated in random order,
\* so any of the tasks that share the found create time is returned.  The tasks
\* collected in gcTasks are removed on return, whatever is returned.
topByLimit(fits, name) ==
  IF Backup(fits) = {}
  THEN /\ tasks' = Without(tasks, gc)
       /\ UNCHANGED current
       /\ Done("empty", 0, 0, fits)
  ELSE \E k \in Index(Backup(fits)) :
         /\ tasks' = Without(tasks, gc \cup {x \in {k} : name = "pop"})
         /\ current' = tasks[k]
         /\ Done(name, k, tasks[k], fits)

TopByLimit(fits) ==
  /\ topByLimit(fits, "top")
  /\ Forget
  /\ UNCHANGED gcSet
  /\ Waiting

PopByLimit(fits) ==
  /\ topByLimit(fits, "pop")
  /\ Forget
  /\ UNCHANGED gcSet
  /\ Waiting

\* Top and Pop of the queue without limits.
Top == TopByLimit(Keys)
Pop == PopByLimit(Keys)

SetRetireTaskStrategy ==
  /\ gcSet' = TRUE
  /\ op' = NoOp
  /\ UNCHANGED <<tasks, current, dead, hidden>>
  /\ Waiting

\* The filter callback is set, or its answer on a queued task changes.
SetFilterTaskStrategy(k) ==
  /\ k \in Queued
  /\ hidden' = IF k \in hidden THEN hidden \ {k} ELSE hidden \cup {k}
  /\ op' = NoOp
  /\ UNCHANGED <<tasks, current, gcSet, dead>>
  /\ Waiting

\* A queued task runs out of time or retries.
Age(k) ==
  /\ k \in Queued \ dead
  /\ dead' = dead \cup {k}
  /\ op' = NoOp
  /\ UNCHANGED <<tasks, current, gcSet, hidden>>
  /\ Waiting

----------------------------------------------------------------------------
Next ==
  \/ \E k \in Keys : Has(k)
  \/ \E k \in Keys, t \in Times, d \in BOOLEAN : Push(k, t, d)
  \/ \E k \in Keys : PopByKey(k)
  \/ Top
  \/ Pop
  \/ \E fits \in SUBSET Keys : TopByLimit(fits)
  \/ \E fits \in SUBSET Keys : PopByLimit(fits)
  \/ SetRetireTaskStrategy
  \/ \E k \in Keys : SetFilterTaskStrategy(k)
  \/ \E k \in Keys : Age(k)

Spec == NewGfSpTQueue /\ [][Next]_vars

----------------------------------------------------------------------------
\* Every variable has its type: the queue maps keys to create times, the cursor
\* is 0 or the create time of some task, and the callbacks' answers concern
\* queued tasks only.
TypeOK ==
  /\ Queued \subseteq Keys
  /\ tasks \in [Queued -> Times]
  /\ current \in Times \cup {0}
  /\ gcSet \in BOOLEAN
  /\ dead \subseteq Queued
  /\ hidden \subseteq Queued
  /\ waited \in [Keys -> SUBSET Times]

\* Push admits a task into a full queue only in the place of one it retires, so
\* however calls interleave the queue never holds more tasks than its capacity.
CapacityInv == Cardinality(Queued) <= Cap

\* A task leaves the queue in two ways only: the retire callback accepts it, or
\* it is handed to the caller of Pop, PopByLimit or PopByKey.  The lookups has()
\* hidden in the other calls drop nothing else.
NoLiveTaskLost ==
  [][\A k \in Queued \ DOMAIN tasks' :
        \/ k \in gc
        \/ op'.name \in {"pop", "popByKey"} /\ op'.key = k]_vars

\* The cursor makes Top and Pop a round robin: while a task could be selected,
\* is alone in its second and is passed over, no create time is selected twice.
BoundedBypass ==
  [][\A k \in Keys :
        waited'[k] # {} => Selected(op') \cap waited[k] = {}]_vars

============================================================================
