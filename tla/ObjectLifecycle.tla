--------------------------- MODULE ObjectLifecycle ---------------------------
(***************************************************************************)
(* What the manager of a storage provider promises about the uploads it    *)
(* accepts, without queues, tasks, retries, executors and goroutines: only *)
(* an accepted object is sealed, a seal is announced only when the chain   *)
(* has it, the upload progress table holds a final state only after it was *)
(* announced, and none of acceptance, seal and announcement is ever taken  *)
(* back.  UploadPipeline implements it.                                    *)
(***************************************************************************)
CONSTANTS Objects,  \* object ids
          States,   \* task states a row of the table may have
          Final     \* the states that conclude an upload

VARIABLES accepted,  \* objects the provider has undertaken to replicate and seal
          sealed,    \* objects sealed on the chain
          told,      \* [Objects -> final states announced for the object]
          row        \* [Objects -> task_state of its row, or "none"]

vars == <<accepted, sealed, told, row>>

Init ==
  /\ accepted = {}
  /\ sealed = {}
  /\ told = [o \in Objects |-> {}]
  /\ row = [o \in Objects |-> "none"]

\* Some final states are announced, perhaps of several objects at once; a seal only
\* of a sealed object.
Announce ==
  /\ told' \in [Objects -> SUBSET Final]
  /\ \A o \in Objects :
       /\ told[o] \subseteq told'[o]
       /\ "SEAL_OBJECT_DONE" \in told'[o] => o \in sealed

\* An upload is accepted; room for it may be made by giving up others.
Accept ==
  /\ \E o \in Objects : accepted' = accepted \cup {o}
  /\ Announce
  /\ UNCHANGED <<sealed, row>>

Conclude == Announce /\ UNCHANGED <<accepted, sealed, row>>

Seal ==
  /\ \E o \in accepted : sealed' = sealed \cup {o}
  /\ UNCHANGED <<accepted, told, row>>

\* The row is inserted once and never removed.
Open ==
  /\ \E o \in Objects : row[o] = "none" /\ row' = [row EXCEPT ![o] = "INIT_UNSPECIFIED"]
  /\ UNCHANGED <<accepted, sealed, told>>

\* A state is written into an existing row: a final one only when announced.
Record ==
  /\ \E o \in Objects, s \in States :
       /\ row[o] # "none"
       /\ s \in Final => s \in told[o]
       /\ row' = [row EXCEPT ![o] = s]
  /\ UNCHANGED <<accepted, sealed, told>>

Next == Accept \/ Conclude \/ Seal \/ Open \/ Record

Spec == Init /\ [][Next]_vars
=============================================================================
