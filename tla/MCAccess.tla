------------------------------ MODULE MCAccess ------------------------------
(* Instances of Access for TLC. *)
EXTENDS Access, Functions, TLC

CONSTANTS r1, r2, r3

Load(kind, op, what, name) == [kind |-> kind, op |-> op, what |-> what, name |-> name]
None == Load("none", "none", "none", 0)
Verify(op) == Load("verify", op, "none", 0)
Register == Load("register", "none", "none", 0)
Signed == Load("signature", "none", "none", 0)
Tx(kind) == Load(kind, "none", "none", 0)
Ask(op, what, name) == Load("approve", op, what, name)

\* One verification of each operation; two registrations of a key and a request
\* signed with one of them; asks for the same and for different names; transactions
\* of both accounts.
Mixes ==
  {<<Verify(op), None, None>> : op \in DOMAIN AuthOps} \cup
  {<<Register, Register, Signed>>,
   <<Ask("none", "bucket", 1), Ask("none", "bucket", 1), Ask("none", "bucket", 1)>>,
   <<Ask("AskCreateBucketApproval", "bucket", 1), Ask("none", "bucket", 2), None>>,
   <<Ask("AskCreateObjectApproval", "object", 1), Ask("none", "object", 1), None>>,
   <<Tx("seal"), Tx("reject"), Tx("discontinue")>>}

\* A mix in every order, so that the requests are interchangeable.
MCLoads ==
  {[r \in Requests |-> mix[p[r]]] : mix \in Mixes, p \in Bijection(Requests, 1..3)}

Symmetry == Permutations(Requests)
=============================================================================
