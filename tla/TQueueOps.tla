----------------------------- MODULE TQueueOps -----------------------------
(***************************************************************************)
(* The critical sections of GfSpTQueue and GfSpTQueueWithLimit as          *)
(* operators.  Every exported method of the two queues runs under the      *)
(* queue's mutex, so each is one atomic function of the map of queued      *)
(* tasks.  An operator is given                                            *)
(*   q    the map from task keys to tasks (a function),                    *)
(*   gc   the keys on whose tasks the retire callback gcFunc answers true  *)
(*        at this moment ({} when no callback is set),                     *)
(*   cap  the capacity.                                                    *)
(* Task keys are numbers, ordered  as maps.SortKeys orders the key strings.*)
(* The modules of the components that own queues (manager, receiver,       *)
(* approver) use these operators too.                                      *)
(***************************************************************************)
EXTENDS Integers, FiniteSets

\* The map without the keys in S: the effect of Go's delete on a map.
Without(q, S) == [k \in DOMAIN q \ S |-> q[k]]

\* The map with task t stored under key k.
With(q, k, t) == [x \in DOMAIN q \cup {k} |-> IF x = k THEN t ELSE q[x]]

\* has(key): a task the retire callback accepts is not there ...
has(q, gc, k) == k \in DOMAIN q /\ k \notin gc

\* Mutant: a lookup drops the task whether or not it is retired.
BugAfterHas(q, gc, k) == Without(q, {k})

\* ... and looking for it has removed it.
AfterHas(q, gc, k) == Without(q, {k} \cap gc)

\* Mutant: one task too many.
BugExceed(q, cap) == Cardinality(DOMAIN q) > cap

\* The queue is full.
exceed(q, cap) == Cardinality(DOMAIN q) >= cap

\* The one task a Push into a full queue retires: the first in key order.
Retired(q, gc) ==
  LET dead == DOMAIN q \cap gc
  IN  {k \in dead : \A x \in dead : k <= x}

\* The error Push returns.
PushErr(q, gc, cap, k) ==
  IF has(q, gc, k) THEN "ErrTaskRepeated"
  ELSE LET q1 == AfterHas(q, gc, k)
       IN  IF exceed(q1, cap) /\ DOMAIN q1 \cap gc = {}
           THEN "ErrTaskQueueExceed" ELSE "nil"

\* The queue Push leaves behind.
AfterPush(q, gc, cap, k, t) ==
  LET q1 == AfterHas(q, gc, k)
      q2 == IF exceed(q1, cap) THEN Without(q1, Retired(q1, gc)) ELSE q1
  IN  IF PushErr(q, gc, cap, k) = "nil" THEN With(q2, k, t) ELSE q1

\* PopByKey: the task has() still sees is removed; a retired one is removed by
\* the lookup itself, and the caller gets nil.
AfterPopByKey(q, gc, k) == Without(q, {k})
============================================================================
