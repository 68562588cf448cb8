----------------------------- MODULE TaskProofs -----------------------------
(***************************************************************************)
(* What a task queue guarantees for every set of keys and create times and *)
(* every capacity: its type, its capacity, that no live task is lost, and  *)
(* that selection is a round robin.  And what the manager gets from such a *)
(* queue in the collection of deleted objects: a range that is reported as *)
(* finished has been collected, and the stored progress can be resumed     *)
(* from, for any number of executors, objects, failures, slow executors    *)
(* and restarts, provided that the metadata service lists a range          *)
(* completely.                                                             *)
(***************************************************************************)
EXTENDS TaskQueue, GCObject, FiniteSetTheorems, WellFoundedInduction, NaturalsInduction, TLAPS

----------------------------------------------------------------------------
(* The operators on the map of tasks. *)

LEMMA WithoutFacts ==
  ASSUME NEW q, NEW S
  PROVE  /\ DOMAIN Without(q, S) = DOMAIN q \ S
         /\ \A k \in DOMAIN q \ S : Without(q, S)[k] = q[k]
  BY Zenon DEF Without

LEMMA WithFacts ==
  ASSUME NEW q, NEW k, NEW t
  PROVE  /\ DOMAIN With(q, k, t) = DOMAIN q \cup {k}
         /\ With(q, k, t)[k] = t
         /\ \A x \in DOMAIN q \ {k} : With(q, k, t)[x] = q[x]
  BY Zenon DEF With

\* A set of keys that is not empty has a first key.
LEMMA FirstKey ==
  ASSUME NEW S \in SUBSET Nat, S # {}
  PROVE  \E k \in S : \A x \in S : k <= x
<1>1. \E k \in S : \A x \in S : ~(<<x, k>> \in OpToRel(<, Nat))
  BY NatLessThanWellFounded, WFMin, Zenon
<1>2. PICK k \in S : \A x \in S : ~(<<x, k>> \in OpToRel(<, Nat))
  BY <1>1, Zenon
<1>3. \A x \in S : ~(x < k)
  BY <1>2, Zenon DEF OpToRel
<1> QED BY <1>3

\* A Push that succeeds leaves the old tasks, without the pushed key's retired
\* task and the one retired to make room, and the new task.
LEMMA PushFacts ==
  ASSUME NEW q, NEW S, NEW cap, NEW k, NEW t
  PROVE  LET q2 == AfterPush(q, S, cap, k, t)
         IN  /\ DOMAIN q2 \subseteq DOMAIN q \cup {k}
             /\ \A x \in DOMAIN q2 : q2[x] = q[x] \/ (x = k /\ q2[x] = t)
             /\ \A x \in DOMAIN q2 \ {k} : x \in DOMAIN q /\ q2[x] = q[x]
             /\ \A x \in DOMAIN q \ DOMAIN q2 : x \in S
             /\ PushErr(q, S, cap, k) # "nil" => DOMAIN q2 \subseteq DOMAIN q
             /\ PushErr(q, S, cap, k) = "nil" => k \in DOMAIN q2 /\ q2[k] = t
  BY Zenon DEF AfterPush, AfterHas, Retired, With, Without

LEMMA HasFacts ==
  ASSUME NEW q, NEW S, NEW k
  PROVE  /\ DOMAIN AfterHas(q, S, k) \subseteq DOMAIN q
         /\ \A x \in DOMAIN q \ DOMAIN AfterHas(q, S, k) : x \in S
         /\ \A x \in DOMAIN AfterHas(q, S, k) : AfterHas(q, S, k)[x] = q[x]
  BY Zenon DEF AfterHas, Without

----------------------------------------------------------------------------
(* What every step does to the map of tasks. *)

\* The map only shrinks, unless the step is a Push that succeeds.
Shrinks == /\ DOMAIN tasks' \subseteq Queued
           /\ \A x \in DOMAIN tasks' : tasks'[x] = tasks[x]

LEMMA TopShrinks ==
  ASSUME NEW fits, NEW name, topByLimit(fits, name)
  PROVE  /\ tasks' = [x \in DOMAIN tasks' |-> tasks'[x]]
         /\ Shrinks
         /\ \A x \in Queued \ DOMAIN tasks' :
              x \in gc \/ (op'.name = name /\ name = "pop" /\ op'.key = x)
<1>1. CASE Backup(fits) = {}
  BY <1>1, Zenon DEF topByLimit, Shrinks, Without, Queued
<1>2. CASE Backup(fits) # {}
  <2>1. PICK k \in Index(Backup(fits)) :
          /\ tasks' = Without(tasks, gc \cup {x \in {k} : name = "pop"})
          /\ Done(name, k, tasks[k], fits)
    BY <1>2, Zenon DEF topByLimit
  <2> QED BY <2>1, Zenon DEF Shrinks, Without, Queued, Done
<1> QED BY <1>1, <1>2, Zenon

\* An action that shrinks the map and forgets keeps the types of the map and of
\* the callbacks' answers.
LEMMA ShrinkType ==
  ASSUME TypeOK, Shrinks, Forget, tasks' = [x \in DOMAIN tasks' |-> tasks'[x]]
  PROVE  /\ Queued' \subseteq Keys
         /\ tasks' \in [Queued' -> Times]
         /\ dead' \subseteq Queued'
         /\ hidden' \subseteq Queued'
  BY Zenon DEF TypeOK, Shrinks, Forget, Queued

LEMMA WaitingType ==
  ASSUME TypeOK, Waiting, Selected(op') \subseteq Times
  PROVE  waited' \in [Keys -> SUBSET Times]
  BY Zenon DEF TypeOK, Waiting

LEMMA QuietSelectsNothing ==
  ASSUME op'.name \notin {"top", "pop"}
  PROVE  Selected(op') = {}
  BY Zenon DEF Selected

\* What Top and Pop select is a queued task that could be selected.
LEMMA TopSelects ==
  ASSUME TypeOK, NEW fits \in SUBSET Keys, NEW name \in {"top", "pop"}, topByLimit(fits, name)
  PROVE  /\ current' \in Times \cup {0}
         /\ Selected(op') \subseteq Times
<1>1. CASE Backup(fits) = {}
  BY <1>1 DEF topByLimit, Done, Selected, TypeOK
<1>2. CASE Backup(fits) # {}
  <2>1. PICK k \in Index(Backup(fits)) :
          /\ current' = tasks[k]
          /\ Done(name, k, tasks[k], fits)
    BY <1>2, Zenon DEF topByLimit
  <2>2. k \in Queued
    BY <2>1, Zenon DEF Index, Backup
  <2> QED BY <2>1, <2>2, Zenon DEF Done, Selected, TypeOK
<1> QED BY <1>1, <1>2, Zenon

\* The type invariant holds in every state, for every set of keys, every set of
\* create times and every capacity.
THEOREM TypeCorrect == Spec => []TypeOK
<1>1. NewGfSpTQueue => TypeOK
  BY Zenon DEF NewGfSpTQueue, TypeOK, Queued
<1>2. TypeOK /\ [Next]_vars => TypeOK'
  <2> SUFFICES ASSUME TypeOK, [Next]_vars PROVE TypeOK'
    BY Zenon
  <2>1. ASSUME NEW k \in Keys, Has(k) PROVE TypeOK'
    <3>1. Shrinks /\ tasks' = [x \in DOMAIN tasks' |-> tasks'[x]]
      BY <2>1, Zenon DEF Has, AfterHas, Without, Shrinks, Queued
    <3>2. Selected(op') = {}
      BY <2>1, QuietSelectsNothing, Zenon DEF Has, Done
    <3> QED BY <2>1, <3>1, <3>2, ShrinkType, WaitingType, Zenon DEF Has, TypeOK
  <2>2. ASSUME NEW k \in Keys, NEW t \in Times, NEW d \in BOOLEAN, Push(k, t, d) PROVE TypeOK'
    <3>1. tasks' = [x \in DOMAIN tasks' |-> tasks'[x]]
      BY <2>2, Zenon DEF Push, AfterPush, AfterHas, With, Without
    <3>2. Queued' \subseteq Keys /\ tasks' \in [Queued' -> Times]
      BY <2>2, <3>1, PushFacts DEF Push, TypeOK, Queued
    <3>3. dead' \subseteq Queued' /\ hidden' \subseteq Queued'
      BY <2>2, PushFacts DEF Push, Queued
    <3>4. Selected(op') = {}
      BY <2>2, QuietSelectsNothing, Zenon DEF Push, Done, PushErr
    <3> QED BY <2>2, <3>2, <3>3, <3>4, WaitingType, Zenon DEF Push, TypeOK
  <2>3. ASSUME NEW k \in Keys, PopByKey(k) PROVE TypeOK'
    <3>1. Shrinks /\ tasks' = [x \in DOMAIN tasks' |-> tasks'[x]]
      BY <2>3, Zenon DEF PopByKey, AfterPopByKey, Without, Shrinks, Queued
    <3>2. Selected(op') = {}
      BY <2>3, QuietSelectsNothing, Zenon DEF PopByKey, Done
    <3> QED BY <2>3, <3>1, <3>2, ShrinkType, WaitingType, Zenon DEF PopByKey, TypeOK
  <2>4. ASSUME NEW fits \in SUBSET Keys, TopByLimit(fits) PROVE TypeOK'
    BY <2>4, TopShrinks, TopSelects, ShrinkType, WaitingType, Zenon DEF TopByLimit, TypeOK
  <2>5. ASSUME NEW fits \in SUBSET Keys, PopByLimit(fits) PROVE TypeOK'
    BY <2>5, TopShrinks, TopSelects, ShrinkType, WaitingType, Zenon DEF PopByLimit, TypeOK
  <2>6. CASE SetRetireTaskStrategy
    BY <2>6, QuietSelectsNothing, WaitingType, Zenon DEF SetRetireTaskStrategy, TypeOK, Queued, NoOp
  <2>7. ASSUME NEW k \in Keys, SetFilterTaskStrategy(k) PROVE TypeOK'
    BY <2>7, QuietSelectsNothing, WaitingType, Zenon DEF SetFilterTaskStrategy, TypeOK, Queued, NoOp
  <2>8. ASSUME NEW k \in Keys, Age(k) PROVE TypeOK'
    BY <2>8, QuietSelectsNothing, WaitingType, Zenon DEF Age, TypeOK, Queued, NoOp
  <2>9. CASE UNCHANGED vars
    BY <2>9, Zenon DEF vars, TypeOK, Queued
  <2> QED
    BY <2>1, <2>2, <2>3, <2>4, <2>5, <2>6, <2>7, <2>8, <2>9, Zenon DEF Next, Top, Pop
<1> QED BY <1>1, <1>2, PTL DEF Spec

----------------------------------------------------------------------------
(* Capacity *)

LEMMA QueuedFinite ==
  ASSUME TypeOK PROVE IsFiniteSet(Queued) /\ Cardinality(Queued) \in Nat
  BY KeysAssumption, FS_Subset, FS_CardinalityType, Zenon DEF TypeOK

\* A smaller map is no larger.
LEMMA ShrinkCapacity ==
  ASSUME TypeOK, CapacityInv, DOMAIN tasks' \subseteq Queued
  PROVE  CapacityInv'
<1>1. /\ Cardinality(DOMAIN tasks') <= Cardinality(Queued)
      /\ Cardinality(DOMAIN tasks') \in Nat /\ Cardinality(Queued) \in Nat
  BY QueuedFinite, FS_Subset, FS_CardinalityType, Zenon
<1> QED BY <1>1, CapAssumption DEF CapacityInv, Queued

\* A full queue accepts a task in the place of one it retires.
LEMMA PushCapacity ==
  ASSUME TypeOK, CapacityInv, NEW k \in Keys, NEW t, PushErr(tasks, gc, Cap, k) = "nil",
         tasks' = AfterPush(tasks, gc, Cap, k, t)
  PROVE  CapacityInv'
<1> DEFINE q1 == AfterHas(tasks, gc, k)
           q2 == IF exceed(q1, Cap) THEN Without(q1, Retired(q1, gc)) ELSE q1
<1>1. /\ DOMAIN q1 \subseteq Queued
      /\ DOMAIN q1 \subseteq Keys
  BY HasFacts, Zenon DEF Queued, TypeOK
<1>2. /\ IsFiniteSet(DOMAIN q1) /\ Cardinality(DOMAIN q1) \in Nat
      /\ Cardinality(DOMAIN q1) <= Cap
  <2>1. /\ Cardinality(DOMAIN q1) <= Cardinality(Queued)
        /\ IsFiniteSet(DOMAIN q1)
        /\ Cardinality(DOMAIN q1) \in Nat /\ Cardinality(Queued) \in Nat
    BY <1>1, QueuedFinite, FS_Subset, FS_CardinalityType, Zenon
  <2> QED BY <2>1, CapAssumption DEF CapacityInv
<1>3. DOMAIN tasks' = DOMAIN q2 \cup {k}
  BY WithFacts, Zenon DEF AfterPush
<1>4. IsFiniteSet(DOMAIN q2) /\ Cardinality(DOMAIN q2) \in Nat /\ Cardinality(DOMAIN q2) < Cap
  <2>1. CASE ~exceed(q1, Cap)
    BY <2>1, <1>2, CapAssumption DEF exceed
  <2>2. CASE exceed(q1, Cap)
    <3>1. DOMAIN q1 \cap gc # {}
      BY <2>2, Zenon DEF PushErr
    <3>2. PICK x \in DOMAIN q1 \cap gc : \A y \in DOMAIN q1 \cap gc : x <= y
      <4>1. DOMAIN q1 \cap gc \in SUBSET Nat
        BY <1>1, KeysAssumption, Zenon
      <4> QED BY <3>1, <4>1, FirstKey, Zenon
    <3>3. x \in Retired(q1, gc)
      BY <3>2, Zenon DEF Retired
    <3>4. DOMAIN q2 \subseteq DOMAIN q1 \ {x}
      <4>1. DOMAIN Without(q1, Retired(q1, gc)) = DOMAIN q1 \ Retired(q1, gc)
        BY WithoutFacts, Zenon
      <4> QED BY <2>2, <3>3, <4>1, Zenon
    <3>5. /\ IsFiniteSet(DOMAIN q1 \ {x})
          /\ Cardinality(DOMAIN q1 \ {x}) = Cardinality(DOMAIN q1) - 1
      BY <1>2, <3>2, FS_RemoveElement, Zenon
    <3>6. /\ IsFiniteSet(DOMAIN q2)
          /\ Cardinality(DOMAIN q2) <= Cardinality(DOMAIN q1 \ {x})
          /\ Cardinality(DOMAIN q2) \in Nat
      BY <3>4, <3>5, FS_Subset, FS_CardinalityType, Zenon
    <3> HIDE DEF q1, q2
    <3> QED BY <3>5, <3>6, <1>2, CapAssumption
  <2> QED BY <2>1, <2>2, Zenon
<1>5. /\ Cardinality(DOMAIN q2 \cup {k}) <= Cardinality(DOMAIN q2) + 1
      /\ Cardinality(DOMAIN q2 \cup {k}) \in Nat
  <2> HIDE DEF q1, q2
  <2>1. /\ IsFiniteSet(DOMAIN q2 \cup {k})
        /\ Cardinality(DOMAIN q2 \cup {k}) =
             IF k \in DOMAIN q2 THEN Cardinality(DOMAIN q2) ELSE Cardinality(DOMAIN q2) + 1
    BY <1>4, FS_AddElement, Zenon
  <2> QED BY <2>1, <1>4, FS_CardinalityType
<1> HIDE DEF q2
<1>6. Cardinality(DOMAIN tasks') <= Cap
  BY <1>3, <1>4, <1>5, CapAssumption
<1> QED BY <1>6, Zenon DEF CapacityInv, Queued

\* A queue never holds more tasks than its capacity, whatever sequence of calls is
\* made on it and whatever the callbacks answer.
THEOREM CapacityRespected == Spec => []CapacityInv
<1>1. NewGfSpTQueue => CapacityInv
  <2>1. NewGfSpTQueue => Queued = {}
    BY Zenon DEF NewGfSpTQueue, Queued
  <2> QED BY <2>1, FS_EmptySet, CapAssumption DEF CapacityInv
<1>2. TypeOK /\ CapacityInv /\ [Next]_vars => CapacityInv'
  <2> SUFFICES ASSUME TypeOK, CapacityInv, [Next]_vars PROVE CapacityInv'
    BY Zenon
  <2>1. ASSUME NEW k \in Keys, Has(k) PROVE CapacityInv'
    BY <2>1, HasFacts, ShrinkCapacity, Zenon DEF Has, Queued
  <2>2. ASSUME NEW k \in Keys, NEW t \in Times, NEW d \in BOOLEAN, Push(k, t, d) PROVE CapacityInv'
    <3>1. CASE PushErr(tasks, gc, Cap, k) = "nil"
      BY <2>2, <3>1, PushCapacity, Zenon DEF Push
    <3>2. CASE PushErr(tasks, gc, Cap, k) # "nil"
      BY <2>2, <3>2, PushFacts, ShrinkCapacity DEF Push, Queued
    <3> QED BY <3>1, <3>2, Zenon
  <2>3. ASSUME NEW k \in Keys, PopByKey(k) PROVE CapacityInv'
    <3>1. DOMAIN tasks' = DOMAIN tasks \ {k}
      BY <2>3, Zenon DEF PopByKey, AfterPopByKey, Without
    <3> QED BY <3>1, ShrinkCapacity, Zenon DEF Queued
  <2>4. ASSUME NEW fits \in SUBSET Keys, TopByLimit(fits) PROVE CapacityInv'
    BY <2>4, TopShrinks, ShrinkCapacity, Zenon DEF TopByLimit, Shrinks
  <2>5. ASSUME NEW fits \in SUBSET Keys, PopByLimit(fits) PROVE CapacityInv'
    BY <2>5, TopShrinks, ShrinkCapacity, Zenon DEF PopByLimit, Shrinks
  <2>6. ASSUME UNCHANGED tasks PROVE CapacityInv'
    BY <2>6, Zenon DEF CapacityInv, Queued
  <2> QED
    BY <2>1, <2>2, <2>3, <2>4, <2>5, <2>6, Zenon DEF Next, Top, Pop, SetRetireTaskStrategy,
       SetFilterTaskStrategy, Age, vars
<1> QED BY <1>1, <1>2, TypeCorrect, PTL DEF Spec

----------------------------------------------------------------------------
(* No live task is lost *)

\* A task leaves the queue only when the retire callback accepts it or when it is
\* handed to the caller of Pop, PopByLimit or PopByKey.
THEOREM LiveTasksKept == Spec => NoLiveTaskLost
<1> DEFINE Kept == \A k \in Queued \ DOMAIN tasks' :
                     \/ k \in gc
                     \/ op'.name \in {"pop", "popByKey"} /\ op'.key = k
<1>1. TypeOK /\ [Next]_vars => [Kept]_vars
  <2> SUFFICES ASSUME TypeOK, Next PROVE Kept
    BY Zenon
  <2>1. ASSUME NEW k \in Keys, Has(k) PROVE Kept
    BY <2>1, HasFacts, Zenon DEF Has, Queued
  <2>2. ASSUME NEW k \in Keys, NEW t \in Times, NEW d \in BOOLEAN, Push(k, t, d) PROVE Kept
    BY <2>2, PushFacts, Zenon DEF Push, Queued
  <2>3. ASSUME NEW k \in Keys, PopByKey(k) PROVE Kept
    <3>1. DOMAIN tasks' = DOMAIN tasks \ {k}
      BY <2>3, Zenon DEF PopByKey, AfterPopByKey, Without
    <3>2. op'.name = "popByKey" /\ op'.key = IF has(tasks, gc, k) THEN k ELSE 0
      BY <2>3, Zenon DEF PopByKey, Done
    <3> QED BY <3>1, <3>2, Zenon DEF Queued, has
  <2>4. ASSUME NEW fits \in SUBSET Keys, TopByLimit(fits) PROVE Kept
    BY <2>4, TopShrinks, Zenon DEF TopByLimit
  <2>5. ASSUME NEW fits \in SUBSET Keys, PopByLimit(fits) PROVE Kept
    BY <2>5, TopShrinks, Zenon DEF PopByLimit
  <2>6. ASSUME UNCHANGED tasks PROVE Kept
    BY <2>6, Zenon DEF Queued
  <2> QED
    BY <2>1, <2>2, <2>3, <2>4, <2>5, <2>6, Zenon DEF Next, Top, Pop, SetRetireTaskStrategy,
       SetFilterTaskStrategy, Age
<1> QED BY <1>1, TypeCorrect, PTL DEF Spec, NoLiveTaskLost

----------------------------------------------------------------------------
(* Selection is a round robin *)

\* While a task with create time T waits, the cursor first climbs above T, wraps
\* once, and climbs below T: the create times passed over lie behind it.
Passed ==
  \A k \in Queued : waited[k] # {} =>
    /\ current < tasks[k] => \A w \in waited[k] : w <= current \/ w > tasks[k]
    /\ current >= tasks[k] => \A w \in waited[k] : tasks[k] < w /\ w <= current

Bypass ==
  \A k \in Keys : waited'[k] # {} => Selected(op') \cap waited[k] = {}

\* A step that selects nothing leaves the cursor and what was passed over.
LEMMA QuietPassed ==
  ASSUME TypeOK, Passed, Waiting, Selected(op') = {}, current' = current,
         DOMAIN tasks' \subseteq Keys,
         \A k \in Queued \cap DOMAIN tasks' : k \notin gc => tasks'[k] = tasks[k]
  PROVE  Passed' /\ Bypass
<1>1. \A k \in Keys : waited'[k] # {} =>
        /\ k \in Queued /\ k \in DOMAIN tasks' /\ k \notin gc
        /\ waited'[k] = waited[k]
  BY Zenon DEF Waiting
<1>2. ASSUME NEW k \in Queued', waited'[k] # {}
      PROVE  /\ current' < tasks'[k] => \A w \in waited'[k] : w <= current' \/ w > tasks'[k]
             /\ current' >= tasks'[k] => \A w \in waited'[k] : tasks'[k] < w /\ w <= current'
  BY <1>1, <1>2, Zenon DEF Passed, Queued
<1> QED BY <1>2, Zenon DEF Passed, Bypass

\* A step that selects a task passes no create time it passed before.
LEMMA TopPassed ==
  ASSUME TypeOK, Passed, Waiting, NEW fits \in SUBSET Keys, NEW name \in {"top", "pop"},
         topByLimit(fits, name)
  PROVE  Passed' /\ Bypass
<1>1. CASE Backup(fits) = {}
  <2>1. Selected(op') = {} /\ current' = current
    BY <1>1 DEF topByLimit, Done, Selected
  <2>2. /\ DOMAIN tasks' \subseteq Keys
        /\ \A k \in Queued \cap DOMAIN tasks' : tasks'[k] = tasks[k]
    BY TopShrinks, Zenon DEF Shrinks, TypeOK
  <2> QED BY <2>1, <2>2, QuietPassed, Zenon
<1>2. CASE Backup(fits) # {}
  <2>1. PICK j \in Index(Backup(fits)) :
          /\ current' = tasks[j]
          /\ Done(name, j, tasks[j], fits)
    BY <1>2, Zenon DEF topByLimit
  <2>2. j \in Backup(fits) /\ j \in Queued
    BY Zenon DEF Index, Backup
  <2>3. /\ op'.name = name /\ op'.key = j /\ op'.fits = fits
        /\ Selected(op') = {tasks[j]}
    BY <2>1, Zenon DEF Done, Selected
  <2>4. ASSUME NEW k \in Keys, waited'[k] # {}
        PROVE  /\ k \in Queued /\ k \in DOMAIN tasks' /\ tasks'[k] = tasks[k]
               /\ waited'[k] = waited[k] \cup {tasks[j]}
               /\ k \in Backup(fits)
               /\ tasks[j] # tasks[k]
    <3>1. /\ k \in Queued \cap DOMAIN tasks' /\ Alone(k)
          /\ k \notin hidden \cup gc /\ k \in op'.fits
          /\ ~(op'.name \in {"top", "pop"} /\ op'.key = k)
          /\ waited'[k] = waited[k] \cup Selected(op')
      BY <2>4, Zenon DEF Waiting
    <3>2. tasks'[k] = tasks[k]
      BY <3>1, TopShrinks, Zenon DEF Shrinks
    <3>3. k # j /\ tasks[j] # tasks[k]
      BY <3>1, <2>2, <2>3, Zenon DEF Alone
    <3> QED BY <3>1, <3>2, <3>3, <2>3, Zenon DEF Backup
  <2>5. ASSUME NEW k \in Keys, waited'[k] # {}
        PROVE  /\ tasks[j] \notin waited[k]
               /\ tasks[j] < tasks[k] => \A w \in waited'[k] : w <= tasks[j] \/ w > tasks[k]
               /\ tasks[j] >= tasks[k] => \A w \in waited'[k] : tasks[k] < w /\ w <= tasks[j]
    <3>1. /\ k \in Queued /\ k \in Backup(fits) /\ tasks[j] # tasks[k]
          /\ waited'[k] = waited[k] \cup {tasks[j]}
      BY <2>5, <2>4, Zenon
    <3>2. /\ tasks[j] \in Nat /\ tasks[k] \in Nat /\ current \in Nat
          /\ waited[k] \subseteq Nat
      <4>1. tasks[j] \in Times /\ tasks[k] \in Times
        BY <3>1, <2>2, Zenon DEF TypeOK
      <4>2. current \in Times \cup {0} /\ waited[k] \in SUBSET Times
        BY Zenon DEF TypeOK
      <4>3. \A x \in Times : x \in Nat
        BY TimesAssumption, Zenon
      <4>4. current \in Nat
        BY <4>2, <4>3
      <4>5. \A w \in waited[k] : w \in Nat
        BY <4>2, <4>3, Zenon
      <4> QED BY <4>1, <4>3, <4>4, <4>5, Zenon
    <3>3. \/ tasks[j] > current /\ (tasks[k] > current => tasks[j] <= tasks[k])
          \/ tasks[k] <= current /\ tasks[j] <= tasks[k]
      BY <2>2, <3>1, <3>2 DEF Index
    <3>4. waited[k] # {} =>
            /\ current < tasks[k] => \A w \in waited[k] : w <= current \/ w > tasks[k]
            /\ current >= tasks[k] => \A w \in waited[k] : tasks[k] < w /\ w <= current
      BY <3>1, Zenon DEF Passed
    <3>5. tasks[j] \notin waited[k]
      BY <3>1, <3>2, <3>3, <3>4
    <3>6. ASSUME tasks[j] < tasks[k], NEW w \in waited'[k]
          PROVE  w <= tasks[j] \/ w > tasks[k]
      BY <3>1, <3>2, <3>3, <3>4, <3>6
    <3>7. ASSUME tasks[j] >= tasks[k], NEW w \in waited'[k]
          PROVE  tasks[k] < w /\ w <= tasks[j]
      BY <3>1, <3>2, <3>3, <3>4, <3>7
    <3> QED BY <3>5, <3>6, <3>7, Zenon
  <2>6. Bypass
    BY <2>3, <2>5, Zenon DEF Bypass
  <2>7. Queued' \subseteq Keys
    BY TopShrinks, Zenon DEF Shrinks, TypeOK, Queued
  <2>8. Passed'
    <3>1. ASSUME NEW k \in Queued', waited'[k] # {}
          PROVE  /\ current' < tasks'[k] => \A w \in waited'[k] : w <= current' \/ w > tasks'[k]
                 /\ current' >= tasks'[k] => \A w \in waited'[k] : tasks'[k] < w /\ w <= current'
      <4>1. tasks'[k] = tasks[k]
        BY <3>1, <2>4, <2>7, Zenon
      <4> QED BY <3>1, <4>1, <2>1, <2>5, <2>7, Zenon
    <3> QED BY <3>1, Zenon DEF Passed
  <2> QED BY <2>6, <2>8, Zenon
<1> QED BY <1>1, <1>2, Zenon

LEMMA PassedStep ==
  ASSUME TypeOK, Passed, Next
  PROVE  Passed' /\ Bypass
<1>1. ASSUME NEW k \in Keys, Has(k) PROVE Passed' /\ Bypass
  BY <1>1, HasFacts, QuietSelectsNothing, QuietPassed DEF Has, Done, TypeOK, Queued
<1>2. ASSUME NEW k \in Keys, NEW t \in Times, NEW d \in BOOLEAN, Push(k, t, d)
      PROVE  Passed' /\ Bypass
  <2>1. /\ DOMAIN tasks' \subseteq Keys
        /\ \A x \in Queued \cap DOMAIN tasks' : x \notin gc => tasks'[x] = tasks[x]
    <3>1. tasks' = AfterPush(tasks, gc, Cap, k, t)
      BY <1>2, Zenon DEF Push
    <3>2. DOMAIN tasks' \subseteq Keys
      BY <3>1, PushFacts, Zenon DEF TypeOK, Queued
    <3>3. \A x \in DOMAIN tasks' \ {k} : tasks'[x] = tasks[x]
      BY <3>1, PushFacts
    <3>4. k \in Queued /\ k \notin gc => tasks' = Without(tasks, {})
      BY <3>1, SMTT(30) DEF AfterPush, PushErr, has, Queued, AfterHas, Without
    <3> QED BY <3>2, <3>3, <3>4, Zenon DEF Queued, Without
  <2>2. Selected(op') = {}
    BY <1>2, QuietSelectsNothing, Zenon DEF Push, Done, PushErr
  <2> QED BY <1>2, <2>1, <2>2, QuietPassed, Zenon DEF Push
<1>3. ASSUME NEW k \in Keys, PopByKey(k) PROVE Passed' /\ Bypass
  <2>1. /\ DOMAIN tasks' \subseteq Keys
        /\ \A x \in Queued \cap DOMAIN tasks' : tasks'[x] = tasks[x]
    BY <1>3, Zenon DEF PopByKey, AfterPopByKey, Without, TypeOK, Queued
  <2>2. Selected(op') = {}
    BY <1>3, QuietSelectsNothing, Zenon DEF PopByKey, Done
  <2> QED BY <1>3, <2>1, <2>2, QuietPassed, Zenon DEF PopByKey
<1>4. ASSUME NEW fits \in SUBSET Keys, TopByLimit(fits) PROVE Passed' /\ Bypass
  BY <1>4, TopPassed, Zenon DEF TopByLimit
<1>5. ASSUME NEW fits \in SUBSET Keys, PopByLimit(fits) PROVE Passed' /\ Bypass
  BY <1>5, TopPassed, Zenon DEF PopByLimit
<1>6. ASSUME UNCHANGED <<tasks, current>>, op' = NoOp, Waiting PROVE Passed' /\ Bypass
  <2>1. Selected(op') = {}
    BY <1>6, QuietSelectsNothing, Zenon DEF NoOp
  <2> QED BY <1>6, <2>1, QuietPassed, Zenon DEF TypeOK, Queued
<1> QED
  BY <1>1, <1>2, <1>3, <1>4, <1>5, <1>6, Zenon DEF Next, Top, Pop, SetRetireTaskStrategy,
     SetFilterTaskStrategy, Age

\* While a task that is alone in its second could be selected and is passed over,
\* Top and Pop select no create time twice: between two selections of a task every
\* other eligible one is selected.
THEOREM RoundRobin == Spec => BoundedBypass
<1>1. NewGfSpTQueue => Passed
  BY Zenon DEF NewGfSpTQueue, Passed, Queued
<1>2. TypeOK /\ Passed /\ [Next]_vars => Passed'
  <2>1. CASE UNCHANGED vars
    BY <2>1, Zenon DEF vars, Passed, Queued
  <2> QED BY <2>1, PassedStep, Zenon
<1>3. TypeOK /\ Passed /\ [Next]_vars => [Bypass]_vars
  BY PassedStep, Zenon
<1>4. BoundedBypass <=> [][Bypass]_vars
  BY Zenon DEF BoundedBypass, Bypass
<1> QED BY <1>1, <1>2, <1>3, <1>4, TypeCorrect, PTL DEF Spec

----------------------------------------------------------------------------
(* The collection of deleted objects. *)

Key == Nat \X Nat

\* No range has more deleted objects than one answer may hold.
AmpleLimit == \A k \in Key : Listed(k) = {o \in Objects : InRange(o, k)}

TaskType == [cur : Nat, last : Nat, free : BOOLEAN]
Pcs == {"idle", "list", "gc", "report", "pop", "push", "update", "again", "done"}
ExecutorType ==
  [pc : Pcs, key : Key \cup {NULL}, cur : Nat, last : Nat, todo : SUBSET Objects, next : Pcs]

\* Everything of range k before block b is in H.
HandledTo(H, k, b) == \A o \in Objects : InRange(o, k) /\ DeleteAt[o] < b => o \in H

\* Executor record x is in its loop over the listed objects, or will be after a report.
Looping(x) == x.pc = "gc" \/ (x.pc \in {"report", "pop", "push", "update"} /\ x.next = "gc")

\* The progress of an executor is true; in its loop it has handled what is not in its
\* list any more.
Working(H, x) ==
  /\ x.key \in Key
  /\ HandledTo(H, x.key, x.cur)
  /\ Looping(x) => \A o \in Objects : InRange(o, x.key) /\ o \notin x.todo => o \in H

ExecutorOK(H, x) == x \in ExecutorType /\ (x.pc # "idle" => Working(H, x))
QueueOK(H, q) == \A k \in DOMAIN q : k \in Key /\ q[k] \in TaskType /\ HandledTo(H, k, q[k].cur)
RowsOK(H, r) == \A k \in DOMAIN r : k \in Key /\ r[k] \in Nat /\ HandledTo(H, k, r[k])
FinishedOK(H, F) == \A k \in F, o \in Objects : InRange(o, k) => o \in H
Numbers == gcBlockHeight \in Nat /\ restarts \in Nat /\ inserting \in Key \cup {NULL}
ExecutorsOK(H, x) == x \in [Executors -> ExecutorType] /\ \A e \in Executors : ExecutorOK(H, x[e])

\* The progress that the queue, the table and the executors hold is true of the piece
\* store.  This makes FinishedIsCollected and RowIsTruthful inductive.
GCInv ==
  /\ Numbers
  /\ ExecutorsOK(Handled, ex)
  /\ QueueOK(Handled, queue)
  /\ RowsOK(Handled, rows)
  /\ FinishedOK(Handled, finished)

LEMMA IdleOK == \A H : ExecutorOK(H, Idle)
<1>1. Idle \in ExecutorType
  BY Zenon DEF Idle, ExecutorType, Pcs
<1> QED
  BY <1>1, Zenon DEF Idle, ExecutorOK

LEMMA GCInitHolds == GCInit => GCInv
<1> SUFFICES ASSUME GCInit PROVE GCInv
  BY Zenon
<1>1. DOMAIN queue = {} /\ DOMAIN rows = {} /\ finished = {}
  BY DEF GCInit
<1>2. ExecutorsOK(Handled, ex)
  BY IdleOK, Zenon DEF GCInit, ExecutorsOK, ExecutorOK
<1>3. Numbers
  BY Zenon DEF GCInit, Numbers
<1> QED
  BY <1>1, <1>2, <1>3, Zenon DEF GCInv, QueueOK, RowsOK, FinishedOK

----------------------------------------------------------------------------
(* What the pieces of the invariant are preserved by *)

\* More handled objects harm nothing.
LEMMA Grow ==
  ASSUME NEW H, NEW G, H \subseteq G
  PROVE  /\ \A x : ExecutorsOK(H, x) => ExecutorsOK(G, x)
         /\ \A q : QueueOK(H, q) => QueueOK(G, q)
         /\ \A r : RowsOK(H, r) => RowsOK(G, r)
         /\ \A F : FinishedOK(H, F) => FinishedOK(G, F)
<1>1. \A k, b : HandledTo(H, k, b) => HandledTo(G, k, b)
  BY Zenon DEF HandledTo
<1>2. \A x : Working(H, x) => Working(G, x)
  BY <1>1, Zenon DEF Working
<1> QED
  BY <1>1, <1>2, Zenon DEF ExecutorsOK, ExecutorOK, QueueOK, RowsOK, FinishedOK

LEMMA WithoutOK ==
  ASSUME NEW H, NEW q, NEW S
  PROVE  /\ QueueOK(H, q) => QueueOK(H, Without(q, S))
         /\ RowsOK(H, q) => RowsOK(H, Without(q, S))
BY Zenon DEF QueueOK, RowsOK, Without

LEMMA WithOK ==
  ASSUME NEW H, NEW q, NEW k \in Key, NEW t
  PROVE  /\ QueueOK(H, q) /\ t \in TaskType /\ HandledTo(H, k, t.cur) => QueueOK(H, With(q, k, t))
         /\ RowsOK(H, q) /\ t \in Nat /\ HandledTo(H, k, t) => RowsOK(H, With(q, k, t))
BY Zenon DEF QueueOK, RowsOK, With

LEMMA PushOK ==
  ASSUME NEW H, NEW q, NEW k \in Key, NEW t \in TaskType,
         QueueOK(H, q), HandledTo(H, k, t.cur)
  PROVE  QueueOK(H, AfterPush(q, {}, QueueCap, k, t))
<1> DEFINE q1 == Without(q, {k} \cap {})
           q2 == IF exceed(q1, QueueCap) THEN Without(q1, Retired(q1, {})) ELSE q1
<1>1. QueueOK(H, q1)
  BY WithoutOK, Zenon
<1>2. QueueOK(H, Without(q1, Retired(q1, {})))
  <2> HIDE DEF q1
  <2> QED
    BY <1>1, WithoutOK, Zenon
<1>3. QueueOK(H, q2)
  BY <1>1, <1>2, Zenon
<1>4. QueueOK(H, With(q2, k, t))
  <2> HIDE DEF q2
  <2> QED
    BY <1>3, WithOK, Zenon
<1>5. AfterPush(q, {}, QueueCap, k, t) \in {With(q2, k, t), q1}
  BY Zenon DEF AfterPush, AfterHas
<1> QED
  BY <1>1, <1>4, <1>5, Zenon

\* A step of one executor.
LEMMA StepOK ==
  ASSUME NEW e \in Executors, NEW f, ExecutorsOK(Handled, ex), Handled \subseteq Handled',
         Step(e, f), ExecutorOK(Handled', f)
  PROVE  ExecutorsOK(Handled', ex')
<1>1. ExecutorsOK(Handled', ex)
  BY Grow, Zenon
<1> QED
  BY <1>1, Zenon DEF ExecutorsOK, Step, ExecutorOK

----------------------------------------------------------------------------
(* The executor *)

\* A record that reports with unchanged progress is fine when the executor is.
LEMMA ReportingOK ==
  ASSUME NEW H, NEW x \in ExecutorType, Working(H, x), NEW n \in Pcs,
         n = "gc" => x.pc = "gc"
  PROVE  ExecutorOK(H, Reporting(x, n))
BY Zenon DEF ExecutorOK, Working, Looping, Reporting, ExecutorType, Pcs

\* The list is complete: what is not in it was handled before.
LEMMA ListOK ==
  ASSUME AmpleLimit, GCInv, NEW e \in Executors, ListDeletedObjects(e)
  PROVE  ExecutorsOK(Handled', ex')
<1> DEFINE x == ex[e]
           f == [x EXCEPT !.pc = "gc", !.todo = {o \in Listed(x.key) : ~Skip(o, x)}]
<1>1. Handled' = Handled
  BY Zenon DEF ListDeletedObjects, store, Handled
<1>2. x \in ExecutorType /\ x.pc = "list" /\ Working(Handled, x)
  BY Zenon DEF GCInv, ExecutorsOK, ExecutorOK, ListDeletedObjects
<1>3. ExecutorOK(Handled, Reporting(x, "again"))
  BY <1>2, ReportingOK, Zenon DEF Pcs
<1>4. Listed(x.key) = {o \in Objects : InRange(o, x.key)}
  BY <1>2, Zenon DEF AmpleLimit, Working
<1>5. f \in ExecutorType /\ f.pc = "gc" /\ f.key = x.key /\ f.cur = x.cur
      /\ f.todo = {o \in Listed(x.key) : ~Skip(o, x)}
  BY <1>2, <1>4, Zenon DEF ExecutorType, Pcs
<1>6. ASSUME NEW o \in Objects, InRange(o, f.key), o \notin f.todo PROVE o \in Handled
  <2>1. Skip(o, x)
    BY <1>4, <1>5, <1>6, Zenon
  <2> QED
    BY <2>1, <1>2, <1>5, <1>6, Zenon DEF Skip, Working, HandledTo
<1>7. ExecutorOK(Handled, f)
  <2> HIDE DEF f
  <2> QED
    BY <1>2, <1>5, <1>6, Zenon DEF ExecutorOK, Working
<1>8. Step(e, f) \/ Step(e, Reporting(x, "again"))
  BY Zenon DEF ListDeletedObjects
<1> QED
  <2> HIDE DEF f
  <2> QED
    BY <1>1, <1>3, <1>7, <1>8, StepOK, Zenon DEF GCInv

\* The next object is the earliest that is left, so everything before its block is
\* handled.
LEMMA DeleteOK ==
  ASSUME GCInv, NEW e \in Executors, DeletePieces(e)
  PROVE  ExecutorsOK(Handled', ex') /\ Handled \subseteq Handled'
<1> DEFINE x == ex[e]
<1>1. x \in ExecutorType /\ x.pc = "gc" /\ Working(Handled, x)
  BY Zenon DEF GCInv, ExecutorsOK, ExecutorOK, DeletePieces
<1>2. PICK o \in x.todo :
        /\ \A p \in x.todo \ {o} : Before(o, p)
        /\ \/ /\ Handled' = Handled \cup {o}
              /\ Step(e, Reporting([x EXCEPT !.todo = @ \ {o}, !.cur = DeleteAt[o], !.last = o], "gc"))
           \/ Handled' = Handled /\ Step(e, Reporting(x, "again"))
  BY Zenon DEF DeletePieces, Handled, store
<1> DEFINE f == [x EXCEPT !.todo = @ \ {o}, !.cur = DeleteAt[o], !.last = o]
<1>3. o \in Objects /\ o \in Nat /\ DeleteAt[o] \in Nat
  BY <1>1, ObjectsAssumption, Zenon DEF ExecutorType
<1>4. f \in ExecutorType /\ f.pc = "gc" /\ f.key = x.key /\ f.cur = DeleteAt[o] /\ f.todo = x.todo \ {o}
  BY <1>1, <1>3, Zenon DEF ExecutorType
<1>5. CASE Handled' = Handled /\ Step(e, Reporting(x, "again"))
  BY <1>1, <1>5, ReportingOK, StepOK, Zenon DEF GCInv, Pcs
<1>6. CASE Handled' = Handled \cup {o} /\ Step(e, Reporting(f, "gc"))
  <2>1. ASSUME NEW p \in Objects, InRange(p, x.key), DeleteAt[p] < DeleteAt[o] PROVE p \in Handled'
    <3>1. DeleteAt[p] \in Nat
      BY ObjectsAssumption, Zenon
    <3>2. p \notin x.todo
      BY <1>2, <1>3, <2>1, <3>1 DEF Before
    <3> QED
      BY <1>1, <1>6, <2>1, <3>2, Zenon DEF Working, Looping
  <2>2. ASSUME NEW p \in Objects, InRange(p, x.key), p \notin f.todo PROVE p \in Handled'
    BY <1>1, <1>4, <1>6, <2>2, Zenon DEF Working, Looping
  <2>3. Working(Handled', f)
    <3> HIDE DEF f
    <3> QED
      BY <1>1, <1>4, <2>1, <2>2, Zenon DEF Working, HandledTo
  <2>4. ExecutorOK(Handled', Reporting(f, "gc"))
    <3> HIDE DEF f
    <3> QED
      BY <1>4, <2>3, ReportingOK, Zenon DEF Pcs
  <2> HIDE DEF f
  <2> QED
    BY <1>6, <2>4, StepOK, Zenon DEF GCInv
<1> QED
  BY <1>2, <1>5, <1>6, Zenon

LEMMA SucceedOK ==
  ASSUME GCInv, NEW e \in Executors, Succeed(e)
  PROVE  ExecutorsOK(Handled', ex') /\ Handled' = Handled
<1> DEFINE x == ex[e]
           f == [x EXCEPT !.cur = End(x.key) + 1]
<1>1. x \in ExecutorType /\ x.pc = "gc" /\ Working(Handled, x) /\ x.todo = {}
  BY Zenon DEF GCInv, ExecutorsOK, ExecutorOK, Succeed
<1>2. Handled' = Handled
  BY Zenon DEF Succeed, store, Handled
<1>3. End(x.key) + 1 \in Nat
  <2>1. x.key[2] \in Nat
    BY <1>1, Zenon DEF Working, Key
  <2> QED
    BY <2>1, NumbersAssumption DEF End
<1>4. f \in ExecutorType /\ f.pc = "gc" /\ f.key = x.key /\ f.todo = x.todo
  BY <1>1, <1>3, Zenon DEF ExecutorType
<1>5. Working(Handled, f)
  <2> HIDE DEF f
  <2> QED
    BY <1>1, <1>4, Zenon DEF Working, Looping, HandledTo
<1>6. ExecutorOK(Handled, Reporting(f, "again"))
  <2> HIDE DEF f
  <2> QED
    BY <1>4, <1>5, ReportingOK, Zenon DEF Pcs
<1>7. Step(e, Reporting(f, "again"))
  BY Zenon DEF Succeed
<1> HIDE DEF f
<1> QED
  BY <1>2, <1>6, <1>7, StepOK, Zenon DEF GCInv

\* A report that has been handled.
LEMMA ReturnedOK ==
  ASSUME NEW H, NEW x \in ExecutorType, x.pc \in {"report", "pop", "push", "update"}, Working(H, x),
         NEW n \in {x.next, "pop", "push", "update"}
  PROVE  ExecutorOK(H, [x EXCEPT !.pc = n])
<1> DEFINE f == [x EXCEPT !.pc = n]
<1>1. f \in ExecutorType /\ f.pc = n /\ f.next = x.next /\ f.key = x.key /\ f.cur = x.cur /\ f.todo = x.todo
  BY Zenon DEF ExecutorType, Pcs
<1>2. Looping(f) => Looping(x)
  BY <1>1, Zenon DEF Looping
<1>3. ExecutorOK(H, f)
  <2> HIDE DEF f
  <2> QED
    BY <1>1, <1>2, Zenon DEF ExecutorOK, Working
<1> QED
  BY <1>3, Zenon

LEMMA ReportTaskOK ==
  ASSUME GCInv, NEW e \in Executors, ReportTask(e)
  PROVE  GCInv'
<1>1. Handled' = Handled /\ Numbers' /\ queue' = queue /\ rows' = rows /\ finished' = finished
  BY Zenon DEF GCInv, ReportTask, store, Handled, manager, Numbers
<1>2. ex[e] \in ExecutorType /\ ex[e].pc = "report" /\ Working(Handled, ex[e])
  BY Zenon DEF GCInv, ExecutorsOK, ExecutorOK, ReportTask
<1>3. \A n \in {ex[e].next, "pop", "push", "update"} : ExecutorOK(Handled, [ex[e] EXCEPT !.pc = n])
  BY <1>2, ReturnedOK, Zenon
<1>4. PICK n \in {ex[e].next, "pop"} : Step(e, [ex[e] EXCEPT !.pc = n])
  BY Zenon DEF ReportTask, Returned
<1>5. ExecutorsOK(Handled', ex')
  BY <1>1, <1>3, <1>4, StepOK, Zenon DEF GCInv
<1> QED
  BY <1>1, <1>5, Zenon DEF GCInv

LEMMA PopTaskOK ==
  ASSUME GCInv, NEW e \in Executors, PopTask(e)
  PROVE  GCInv'
<1> DEFINE x == ex[e]
<1>1. Handled' = Handled /\ Numbers'
  BY Zenon DEF GCInv, PopTask, store, Handled, Numbers
<1>2. x \in ExecutorType /\ x.pc = "pop" /\ Working(Handled, x)
  BY Zenon DEF GCInv, ExecutorsOK, ExecutorOK, PopTask
<1>3. \A n \in {x.next, "pop", "push", "update"} : ExecutorOK(Handled, [x EXCEPT !.pc = n])
  BY <1>2, ReturnedOK, Zenon
<1>4. PICK n \in {x.next, "push"} : Step(e, [x EXCEPT !.pc = n])
  BY Zenon DEF PopTask, Returned
<1>5. ExecutorsOK(Handled', ex')
  BY <1>1, <1>3, <1>4, StepOK, Zenon DEF GCInv
<1>6. QueueOK(Handled', queue')
  BY <1>1, WithoutOK, Zenon DEF GCInv, PopTask, AfterPopByKey
<1>7. RowsOK(Handled', rows')
  BY <1>1, WithoutOK, Zenon DEF GCInv, PopTask
<1>8. FinishedOK(Handled', finished')
  <2>1. CASE finished' = finished
    BY <1>1, <2>1, Zenon DEF GCInv
  <2>2. CASE IsFinished(x) /\ finished' = finished \cup {x.key}
    <3>1. ASSUME NEW o \in Objects, InRange(o, x.key) PROVE o \in Handled
      <4>1. x.key[2] \in Nat /\ DeleteAt[o] \in Nat /\ x.cur \in Nat /\ Interval \in Nat
        BY <1>2, ObjectsAssumption, NumbersAssumption, Zenon DEF Working, Key, ExecutorType
      <4>2. DeleteAt[o] < x.cur
        BY <2>2, <3>1, <4>1 DEF IsFinished, InRange, Start, End
      <4> QED
        BY <1>2, <3>1, <4>2, Zenon DEF Working, HandledTo
    <3> QED
      BY <1>1, <2>2, <3>1, Zenon DEF GCInv, FinishedOK
  <2> QED
    BY <2>1, <2>2, Zenon DEF PopTask
<1> QED
  BY <1>1, <1>5, <1>6, <1>7, <1>8, Zenon DEF GCInv

LEMMA PushTaskOK ==
  ASSUME GCInv, NEW e \in Executors, PushTask(e)
  PROVE  GCInv'
<1> DEFINE x == ex[e]
           t == Task(x.cur, x.last, FALSE)
<1>1. Handled' = Handled /\ Numbers' /\ rows' = rows /\ finished' = finished
  BY Zenon DEF GCInv, PushTask, store, Handled, Numbers
<1>2. x \in ExecutorType /\ x.pc = "push" /\ Working(Handled, x)
  BY Zenon DEF GCInv, ExecutorsOK, ExecutorOK, PushTask
<1>3. ExecutorOK(Handled, [x EXCEPT !.pc = "update"])
  BY <1>2, ReturnedOK, Zenon
<1>4. ExecutorsOK(Handled', ex')
  BY <1>1, <1>3, StepOK, Zenon DEF GCInv, PushTask
<1>5. t \in TaskType /\ t.cur = x.cur /\ x.key \in Key /\ HandledTo(Handled, x.key, x.cur)
  BY <1>2, Zenon DEF Task, TaskType, ExecutorType, Working
<1>6. QueueOK(Handled, AfterPush(queue, {}, QueueCap, x.key, t))
  <2> HIDE DEF t
  <2> QED
    BY <1>5, PushOK, Zenon DEF GCInv
<1>7. QueueOK(Handled', queue')
  BY <1>1, <1>6, Zenon DEF PushTask
<1> QED
  BY <1>1, <1>4, <1>7, Zenon DEF GCInv

LEMMA UpdateOK ==
  ASSUME GCInv, NEW e \in Executors, UpdateGCObjectProgress(e)
  PROVE  GCInv'
<1> DEFINE x == ex[e]
<1>1. Handled' = Handled /\ Numbers' /\ queue' = queue /\ finished' = finished
  BY Zenon DEF GCInv, UpdateGCObjectProgress, store, Handled, Numbers, manager
<1>2. x \in ExecutorType /\ x.pc = "update" /\ Working(Handled, x)
  BY Zenon DEF GCInv, ExecutorsOK, ExecutorOK, UpdateGCObjectProgress
<1>3. ExecutorOK(Handled, [x EXCEPT !.pc = x.next])
  BY <1>2, ReturnedOK, Zenon
<1>4. ExecutorsOK(Handled', ex')
  BY <1>1, <1>3, StepOK, Zenon DEF GCInv, UpdateGCObjectProgress, Returned
<1>5. x.cur \in Nat /\ HandledTo(Handled, x.key, x.cur)
  BY <1>2, Zenon DEF Working, ExecutorType
<1>6. RowsOK(Handled', rows')
  BY <1>1, <1>5, Zenon DEF GCInv, RowsOK, UpdateGCObjectProgress
<1> QED
  BY <1>1, <1>4, <1>6, Zenon DEF GCInv

\* The steps that leave the manager alone and hand the task on or forget it.
LEMMA QuietOK ==
  ASSUME GCInv, NEW e \in Executors, ReportAgain(e) \/ Finish(e) \/ ExecutorCrash(e)
  PROVE  GCInv'
<1>1. Handled' = Handled /\ Numbers' /\ queue' = queue /\ rows' = rows /\ finished' = finished
  BY Zenon DEF GCInv, ReportAgain, Finish, ExecutorCrash, store, Handled, manager, Numbers
<1>2. CASE ReportAgain(e)
  <2>1. ex[e] \in ExecutorType /\ ex[e].pc = "again" /\ Working(Handled, ex[e])
    BY <1>2, Zenon DEF GCInv, ExecutorsOK, ExecutorOK, ReportAgain
  <2>2. ExecutorOK(Handled, Reporting(ex[e], "done"))
    BY <2>1, ReportingOK, Zenon DEF Pcs
  <2>3. ExecutorsOK(Handled', ex')
    BY <1>1, <1>2, <2>2, StepOK, Zenon DEF GCInv, ReportAgain
  <2> QED
    BY <1>1, <2>3, Zenon DEF GCInv
<1>3. CASE Finish(e) \/ ExecutorCrash(e)
  <2>1. Step(e, Idle)
    BY <1>3, Zenon DEF Finish, ExecutorCrash
  <2>2. ExecutorsOK(Handled', ex')
    BY <1>1, <2>1, IdleOK, StepOK, Zenon DEF GCInv
  <2> QED
    BY <1>1, <2>2, Zenon DEF GCInv
<1> QED
  BY <1>2, <1>3, Zenon

LEMMA NothingBeforeZero == \A H, k : HandledTo(H, k, 0)
BY ObjectsAssumption DEF HandledTo

LEMMA TickOK ==
  ASSUME GCInv, GCTick
  PROVE  GCInv'
<1> DEFINE k == <<restarts, gcBlockHeight>>
           t == Task(0, 0, TRUE)
<1>1. Handled' = Handled /\ ex' = ex /\ rows' = rows /\ finished' = finished
  BY Zenon DEF GCTick, store, Handled
<1>2. k \in Key /\ t \in TaskType /\ t.cur = 0
  BY Zenon DEF GCInv, Numbers, Key, Task, TaskType
<1>3. gcBlockHeight' \in Nat /\ restarts' \in Nat /\ inserting' \in Key
  <2>1. gcBlockHeight \in Nat /\ restarts \in Nat BY Zenon DEF GCInv, Numbers
  <2>2. gcBlockHeight' = gcBlockHeight + Interval + 1 /\ restarts' = restarts /\ inserting' = k
    BY Zenon DEF GCTick
  <2> QED BY <1>2, <2>1, <2>2, NumbersAssumption
<1>4. QueueOK(Handled, AfterPush(queue, {}, QueueCap, k, t))
  <2> HIDE DEF k, t
  <2> QED
    BY <1>2, NothingBeforeZero, PushOK, Zenon DEF GCInv
<1>5. queue' = AfterPush(queue, {}, QueueCap, k, t)
  BY Zenon DEF GCTick
<1> HIDE DEF k, t
<1> QED
  BY <1>1, <1>3, <1>4, <1>5, Zenon DEF GCInv, Numbers

LEMMA InsertOK ==
  ASSUME GCInv, InsertGCObjectProgress
  PROVE  GCInv'
<1>1. Handled' = Handled /\ ex' = ex /\ queue' = queue /\ finished' = finished /\ Numbers'
  BY Zenon DEF InsertGCObjectProgress, store, Handled, GCInv, Numbers
<1>2. inserting \in Key
  BY Zenon DEF InsertGCObjectProgress, GCInv, Numbers
<1>3. RowsOK(Handled, With(rows, inserting, 0))
  BY <1>2, NothingBeforeZero, WithOK, Zenon DEF GCInv
<1>4. RowsOK(Handled', rows')
  BY <1>1, <1>3, Zenon DEF InsertGCObjectProgress, GCInv
<1> QED
  BY <1>1, <1>4, Zenon DEF GCInv

LEMMA FreeOK ==
  ASSUME NEW H, NEW q, QueueOK(H, q), NEW k \in DOMAIN q, NEW b \in BOOLEAN
  PROVE  QueueOK(H, [q EXCEPT ![k].free = b])
BY Zenon DEF QueueOK, TaskType

LEMMA ResetOK ==
  ASSUME GCInv, NEW k \in DOMAIN queue, ResetGCObjectTask(k)
  PROVE  GCInv'
<1>1. Handled' = Handled /\ ex' = ex /\ rows' = rows /\ finished' = finished /\ Numbers'
  BY Zenon DEF ResetGCObjectTask, store, Handled, GCInv, Numbers
<1>2. QueueOK(Handled', queue')
  BY <1>1, FreeOK, Zenon DEF ResetGCObjectTask, GCInv
<1> QED
  BY <1>1, <1>2, Zenon DEF GCInv

\* An executor begins with the progress of the queue, its list still empty.
LEMMA RunOK ==
  ASSUME QueueOK(Handled, queue), NEW k \in DOMAIN queue
  PROVE  ExecutorOK(Handled, Run(k))
<1>1. k \in Key /\ queue[k].cur \in Nat /\ queue[k].last \in Nat /\ HandledTo(Handled, k, queue[k].cur)
  BY Zenon DEF QueueOK, TaskType
<1>2. /\ Run(k) \in ExecutorType
      /\ Run(k).pc = "list" /\ Run(k).key = k /\ Run(k).cur = queue[k].cur
  BY <1>1, Zenon DEF Run, Idle, ExecutorType, Pcs
<1> QED
  BY <1>1, <1>2, Zenon DEF ExecutorOK, Working, Looping

LEMMA DispatchOK ==
  ASSUME GCInv, NEW k \in DOMAIN queue, NEW E \in SUBSET Executors, DispatchTask(E, k)
  PROVE  GCInv'
<1>1. Handled' = Handled /\ rows' = rows /\ finished' = finished /\ Numbers'
  BY Zenon DEF DispatchTask, store, Handled, GCInv, Numbers
<1>2. QueueOK(Handled', queue')
  BY <1>1, FreeOK, Zenon DEF DispatchTask, GCInv
<1>3. ExecutorOK(Handled, Run(k))
  BY RunOK, Zenon DEF GCInv
<1>4. ExecutorsOK(Handled', ex')
  <2>1. \A e \in Executors : ExecutorOK(Handled, IF e \in E THEN Run(k) ELSE ex[e])
    BY <1>3, Zenon DEF GCInv, ExecutorsOK
  <2> QED
    BY <1>1, <2>1, Zenon DEF DispatchTask, ExecutorsOK, ExecutorOK
<1> QED
  BY <1>1, <1>2, <1>4, Zenon DEF GCInv

LEMMA RestartOK ==
  ASSUME GCInv, Restart
  PROVE  GCInv'
<1>1. Handled' = Handled /\ rows' = rows /\ finished' = finished /\ Numbers'
  BY DEF Restart, store, Handled, GCInv, Numbers
<1>2. QueueOK(Handled', queue')
  <2>1. DOMAIN queue' = {}
    BY DEF Restart
  <2> QED
    BY <2>1, Zenon DEF QueueOK
<1> DEFINE f(e) == IF ex[e].pc \in {"pop", "push", "update"}
                   THEN [ex[e] EXCEPT !.pc = ex[e].next] ELSE ex[e]
<1>3. ASSUME NEW e \in Executors PROVE ExecutorOK(Handled, f(e))
  <2>1. CASE ex[e].pc \in {"pop", "push", "update"}
    <3>1. ex[e] \in ExecutorType /\ Working(Handled, ex[e])
      BY <2>1, Zenon DEF GCInv, ExecutorsOK, ExecutorOK
    <3>2. ExecutorOK(Handled, [ex[e] EXCEPT !.pc = ex[e].next])
      BY <2>1, <3>1, ReturnedOK, Zenon
    <3> QED
      BY <2>1, <3>2, Zenon
  <2>2. CASE ex[e].pc \notin {"pop", "push", "update"}
    BY <2>2, Zenon DEF GCInv, ExecutorsOK
  <2> QED
    BY <2>1, <2>2, Zenon
<1>4. ex' = [e \in Executors |-> f(e)]
  BY Zenon DEF Restart
<1>5. ExecutorsOK(Handled', ex')
  <2> HIDE DEF f
  <2> QED
    BY <1>1, <1>3, <1>4, Zenon DEF ExecutorsOK, ExecutorOK
<1> QED
  BY <1>1, <1>2, <1>5, Zenon DEF GCInv

LEMMA GCNextHolds ==
  ASSUME AmpleLimit, GCInv, [GCNext]_gcVars
  PROVE  GCInv'
<1>1. CASE NewBlock \/ Sync \/ UNCHANGED gcVars
  <2>1. UNCHANGED <<manager, rows, ex, store, finished>>
    BY <1>1, Zenon DEF NewBlock, Sync, gcVars
  <2> QED
    BY <2>1, Zenon DEF manager, store, GCInv, Numbers, Handled
<1>2. ASSUME NEW e \in Executors, ListDeletedObjects(e) \/ DeletePieces(e) \/ Succeed(e)
      PROVE  GCInv'
  <2>1. Numbers' /\ queue' = queue /\ rows' = rows /\ finished' = finished
    BY <1>2, Zenon DEF ListDeletedObjects, DeletePieces, Succeed, manager, GCInv, Numbers
  <2>2. Handled \subseteq Handled'
    BY <1>2, Zenon DEF ListDeletedObjects, DeletePieces, Succeed, store, Handled
  <2>3. ExecutorsOK(Handled', ex')
    BY <1>2, ListOK, DeleteOK, SucceedOK, Zenon
  <2>4. QueueOK(Handled', queue) /\ RowsOK(Handled', rows) /\ FinishedOK(Handled', finished)
    BY <2>2, Grow, Zenon DEF GCInv
  <2> QED
    BY <2>1, <2>3, <2>4, Zenon DEF GCInv
<1>3. ASSUME NEW e \in Executors, Execute(e) \/ ExecutorCrash(e)
      PROVE  GCInv'
  BY <1>2, <1>3, QuietOK, ReportTaskOK, PopTaskOK, PushTaskOK, UpdateOK, Zenon DEF Execute
<1>4. ASSUME NEW k \in DOMAIN queue,
             ResetGCObjectTask(k) \/ \E E \in (SUBSET Executors) \ {{}} : DispatchTask(E, k)
      PROVE  GCInv'
  BY <1>4, ResetOK, DispatchOK, Zenon
<1> QED
  BY <1>1, <1>3, <1>4, TickOK, InsertOK, RestartOK, Zenon DEF GCNext

----------------------------------------------------------------------------
(* The theorems *)

\* When every list of the metadata service is complete, a task that is reported as
\* finished has been through every object of its range: HandleGCObjectTask of the
\* executor and of the manager, with any number of executors on a task, lost and late
\* reports, crashes and restarts.
THEOREM FinishedRangesAreCollected == AmpleLimit => (GCSpec => []FinishedIsCollected)
<1> SUFFICES ASSUME AmpleLimit PROVE GCSpec => []FinishedIsCollected
  BY Zenon
<1>1. GCInv => FinishedIsCollected
  BY Zenon DEF GCInv, FinishedOK, FinishedIsCollected
<1>2. GCInv /\ [GCNext]_gcVars => GCInv'
  BY GCNextHolds, Zenon
<1> QED
  BY <1>1, <1>2, GCInitHolds, PTL DEF GCSpec

\* Under the same condition the progress rows can be resumed from: whatever order
\* the reports of several executors are written in, nothing before the current block
\* of a row is left.
THEOREM StoredProgressIsTrue == AmpleLimit => (GCSpec => []RowIsTruthful)
<1> SUFFICES ASSUME AmpleLimit PROVE GCSpec => []RowIsTruthful
  BY Zenon
<1>1. GCInv => RowIsTruthful
  BY Zenon DEF GCInv, RowsOK, HandledTo, RowIsTruthful
<1>2. GCInv /\ [GCNext]_gcVars => GCInv'
  BY GCNextHolds, Zenon
<1> QED
  BY <1>1, <1>2, GCInitHolds, PTL DEF GCSpec
=============================================================================
