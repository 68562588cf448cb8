-------------------------------- MODULE Auth --------------------------------
(***************************************************************************)
(* The authenticator and the gateway's use of it: the signature of a       *)
(* request, the off-chain key table (one account, one domain), and         *)
(* VerifyAuthentication, a sequence of queries of a chain that changes     *)
(* meanwhile.  A request does one thing, its kind:                         *)
(*   "register"   asks for a nonce and registers a public key with it,     *)
(*   "signature"  is signed with a registered key (off-chain signature),   *)
(*   "verify"     is signed by the account itself (V1 signature) and goes  *)
(*                through VerifyAuthentication for the operation op,       *)
(*   "approve"    asks for the approval of a new bucket or object (what,   *)
(*                name) after its verification, see Approver.              *)
(* The chain is the set of facts a query can return about the account, the *)
(* bucket and the object of the request in progress.  Time is counted in   *)
(* block intervals.                                                        *)
(***************************************************************************)
EXTENDS Integers, FiniteSets, Sequences

CONSTANTS
  Requests,          \* the requests; the key a request registers has its name
  Loads,             \* the sets of requests that may be made together: functions
                     \* from Requests to [kind, op, what, name]
  MaxExpiryAge,      \* MaxExpiryAgeInSec: the longest life of a key
  SigExpiryAge,      \* OffChainAuthSigExpiryAgeInSec: the longest life of a message
  StartTime, MaxTime,  \* bound: the clock runs from StartTime to MaxTime
  MaxChanges,        \* bound: changes of the chain
  NULL

ASSUME AuthAssumption ==
  {MaxExpiryAge, SigExpiryAge, StartTime, MaxTime, MaxChanges} \subseteq Nat /\ NULL \notin Requests

VARIABLES
  now,       \* the clock, which is also the height of the chain
  facts,     \* what the chain holds
  changes,   \* how often it changed
  row,       \* the row of OffChainAuthKeyTable, or NULL
  updates,   \* the number of updates of the row
  rq,        \* per request: its kind and operation, where it is, what it read
  held       \* per request: the facts and the keys that were current meanwhile

authVars == <<now, facts, changes, row, updates, rq, held>>

------------------------------------------------------------------------------
(* What VerifyAuthentication asks of the chain for each operation: the     *)
(* queries in order, and the facts that must have been seen after each.    *)
(* "absent" facts are nil answers.  "serves" stands for being the primary  *)
(* or one of the secondaries.                                              *)

Account == <<"HasAccount", {"account"}>>

AskCreateBucketApproval == <<Account, <<"QueryBucketInfo", {"nobucket"}>>>>

AskCreateObjectApproval ==
  <<Account, <<"QueryBucketInfo", {"bucket"}>>, <<"QueryObjectInfo", {"noobject"}>>>>

PutObject ==
  <<Account, <<"QueryBucketInfo", {"bucket"}>>,
    <<"QueryObjectInfo", {"object", "mine", "created"}>>,
    <<"VerifyPutObjectPermission", {"permitted"}>>>>

GetUploadingState ==
  <<Account, <<"QueryBucketInfo", {"bucket"}>>,
    <<"QueryObjectInfo", {"object", "mine", "created"}>>,
    <<"VerifyPutObjectPermission", {"permitted"}>>>>

\* Mutant: the state of the object is not looked at.
BugGetObject ==
  <<Account, <<"QueryBucketInfo", {"bucket"}>>,
    <<"QueryObjectInfo", {"object", "mine"}>>,
    <<"QueryPaymentStreamRecord", {"paying"}>>,
    <<"VerifyGetObjectPermission", {"permitted"}>>>>

GetObject ==
  <<Account, <<"QueryBucketInfo", {"bucket"}>>,
    <<"QueryObjectInfo", {"object", "mine", "sealed"}>>,
    <<"QueryPaymentStreamRecord", {"paying"}>>,
    <<"VerifyGetObjectPermission", {"permitted"}>>>>

GetRecoveryPiece ==
  <<Account, <<"QueryBucketInfo", {"bucket"}>>,
    <<"QueryObjectInfo", {"object", "second", "sealed"}>>,
    <<"VerifyGetObjectPermission", {"permitted"}>>>>

GetBucketQuota == <<Account, <<"QueryBucketInfo", {"bucket", "mine", "owner"}>>>>

GetChallengePieceInfo ==
  <<Account, <<"ListBondedValidators", {"bonded"}>>, <<"QueryBucketInfo", {"bucket"}>>,
    <<"QueryObjectInfo", {"object", "serves"}>>>>

AuthOps == [AskCreateBucketApproval |-> AskCreateBucketApproval,
            AskCreateObjectApproval |-> AskCreateObjectApproval,
            PutObject |-> PutObject, GetUploadingState |-> GetUploadingState,
            GetObject |-> GetObject, GetRecoveryPiece |-> GetRecoveryPiece,
            GetBucketQuota |-> GetBucketQuota, ListBucketReadRecord |-> GetBucketQuota,
            GetChallengePieceInfo |-> GetChallengePieceInfo,
            UnKnown |-> <<<<"HasAccount", {"account", "supported"}>>>>]

\* A request is for one of these operations, or for none.
ASSUME OpsAssumption ==
  \A load \in Loads, i \in Requests : load[i].op \in DOMAIN AuthOps \cup {"none"}

\* The facts each query returns (base/gnfd: one request to the chain each).
HasAccount == {"account"}
QueryBucketInfo == {"bucket", "nobucket", "mine", "owner"}
QueryObjectInfo == {"object", "noobject", "created", "sealed", "second"}
ListBondedValidators == {"bonded"}
QueryPaymentStreamRecord == {"paying"}
VerifyGetObjectPermission == {"permitted"}
VerifyPutObjectPermission == {"permitted"}

Answer == [HasAccount |-> HasAccount, QueryBucketInfo |-> QueryBucketInfo,
           QueryObjectInfo |-> QueryObjectInfo, ListBondedValidators |-> ListBondedValidators,
           QueryPaymentStreamRecord |-> QueryPaymentStreamRecord,
           VerifyGetObjectPermission |-> VerifyGetObjectPermission,
           VerifyPutObjectPermission |-> VerifyPutObjectPermission]

\* The two approvals ignore the error of a failed query: the answer is nil.
Ignored(op, q) ==
  CASE op = "AskCreateBucketApproval" /\ q = "QueryBucketInfo" -> {"nobucket"}
    [] op = "AskCreateObjectApproval" /\ q = "QueryBucketInfo" -> {"nobucket"}
    [] op = "AskCreateObjectApproval" /\ q = "QueryObjectInfo" -> {"noobject"}
    [] OTHER -> {}

Meets(seen, must) ==
  must \subseteq seen \cup (IF seen \cap {"mine", "second"} # {} THEN {"serves"} ELSE {})

\* The states of the chain, as far as the operation looks at it.
Consistent(f) ==
  /\ ("bucket" \in f) # ("nobucket" \in f)
  /\ ("object" \in f) # ("noobject" \in f)
  /\ f \cap {"mine", "owner", "object"} # {} => "bucket" \in f
  /\ f \cap {"created", "sealed", "second"} # {} => "object" \in f
  /\ ~ {"created", "sealed"} \subseteq f

Relevant(op) ==
  {"bucket", "nobucket", "object", "noobject"} \cup
    (UNION {AuthOps[op][n][2] : n \in 1..Len(AuthOps[op])}) \cup
    (IF op = "GetChallengePieceInfo" THEN {"mine", "second"} ELSE {})

ChainStates(op) == {f \in SUBSET Relevant(op) : Consistent(f)}

------------------------------------------------------------------------------
Idle(load, i) ==
  [kind |-> load[i].kind, op |-> load[i].op, what |-> load[i].what, name |-> load[i].name,
   pc |-> "idle", phase |-> "none", step |-> 0, seen |-> {},
   nonce |-> 0, cur |-> 0, key |-> NULL, exp |-> 0, till |-> 0, t0 |-> 0]

AuthInit ==
  /\ now = StartTime
  /\ facts = {}
  /\ changes = 0
  /\ row = NULL
  /\ updates = 0
  /\ \E load \in Loads : rq = [i \in Requests |-> Idle(load, i)]
  /\ held = [i \in Requests |-> {}]

Ended == {"allowed", "registered", "accepted", "answered", "refused"}
Live(i) == rq[i].kind \in {"register", "signature", "verify", "approve"} /\ rq[i].pc \notin Ended

\* A request ends with an error response.
Refuse(i) == rq' = [rq EXCEPT ![i].pc = "refused"]

\* Where a verified request goes on.
Verified(i) == IF rq[i].kind = "approve" THEN "reserve" ELSE "allowed"

------------------------------------------------------------------------------
(* VerifyAuthentication.                                                   *)

\* A request with a V1 signature arrives (NewRequestContext, VerifySignature).
\* Verifications only read, so one at a time is looked at, and the chain is
\* looked at while one is in progress.
Arrive(i) ==
  /\ rq[i].kind \in {"verify", "approve"} /\ rq[i].pc = "idle" /\ rq[i].op # "none"
  /\ \A j \in Requests : rq[j].pc # "query"
  /\ \E f \in ChainStates(rq[i].op) :
       /\ facts' = f
       /\ held' = [held EXCEPT ![i] = f]
  /\ rq' = [rq EXCEPT ![i].pc = "query", ![i].step = 1]
  /\ UNCHANGED <<now, changes, row, updates>>

\* One query and the checks made on what it returned; err is a failed request to
\* the chain, which the approvals take for the answer nil.
Query(i, err) ==
  LET op   == rq[i].op
      s    == AuthOps[op][rq[i].step]
      got  == IF err THEN Ignored(op, s[1]) ELSE facts \cap Answer[s[1]]
      seen == rq[i].seen \cup got
      last == rq[i].step = Len(AuthOps[op])
      ok   == Meets(seen, s[2]) /\ (err => got # {})
  IN  /\ rq[i].pc = "query"
      /\ rq' = [rq EXCEPT ![i].pc = IF ~ ok THEN "refused" ELSE IF last THEN Verified(i) ELSE "query",
                          ![i].step = IF ok /\ ~ last THEN @ + 1 ELSE 0,
                          ![i].seen = IF ok /\ ~ last THEN seen ELSE {}]
      /\ held' = [held EXCEPT ![i] = IF ok THEN @ \cup (IF err THEN got ELSE {}) ELSE {}]
      /\ facts' = IF ok /\ ~ last THEN facts ELSE {}
      /\ changes' = IF ok /\ ~ last THEN changes ELSE 0
      /\ UNCHANGED <<now, row, updates>>

\* Transactions change the chain between two queries.
ChainChanges ==
  /\ changes < MaxChanges
  /\ \E i \in Requests :
       /\ rq[i].pc = "query"
       /\ \E f \in ChainStates(rq[i].op) \ {facts} :
            /\ facts' = f
            /\ held' = [held EXCEPT ![i] = @ \cup f]
  /\ changes' = changes + 1
  /\ UNCHANGED <<now, row, updates, rq>>

------------------------------------------------------------------------------
(* The key table.                                                          *)

\* What GetAuthKey's caller does with the row r.
Got(i, r) ==
  CASE rq[i].phase = "nonce" ->        \* requestNonceHandler: the client gets next_nonce
         rq' = [rq EXCEPT ![i].pc = "submit", ![i].nonce = r.next]
    [] rq[i].phase = "update" ->       \* updateUserPublicKeyHandler compares the nonces
         rq' = [rq EXCEPT ![i].pc = IF r.next = rq[i].nonce THEN "age" ELSE "refused",
                          ![i].cur = r.nonce]
    [] OTHER ->                        \* VerifyOffChainSignature
         rq' = [rq EXCEPT ![i].pc = "expiry", ![i].cur = r.key, ![i].till = r.exp]

\* The row is there, or it is not and will be inserted by a second statement.
GetAuthKey(i) ==
  /\ rq[i].pc = "get"
  /\ IF row # NULL THEN Got(i, row) ELSE rq' = [rq EXCEPT ![i].pc = "insert"]
  /\ UNCHANGED <<now, facts, changes, row, updates, held>>

\* The new row expires at once.  Of two inserts the second fails on the primary key.
InsertAuthKey(i) ==
  LET r == [nonce |-> 0, next |-> 1, key |-> NULL, exp |-> now]
  IN  /\ rq[i].pc = "insert"
      /\ IF row = NULL THEN row' = r /\ Got(i, r) ELSE row' = row /\ Refuse(i)
      /\ UNCHANGED <<now, facts, changes, updates, held>>

\* The client asks for the nonce to sign.
RequestNonce(i) ==
  /\ rq[i].kind = "register" /\ rq[i].pc = "idle"
  /\ rq' = [rq EXCEPT ![i].pc = "get", ![i].phase = "nonce"]
  /\ UNCHANGED <<now, facts, changes, row, updates, held>>

\* The client sends its key in the headers, and a message signed with the account that
\* says the same (VerifyPersonalSignature) or not (till: the expiry date in it).
UpdateUserPublicKey(i) ==
  /\ rq[i].pc = "submit"
  /\ \E e \in now..(now + MaxExpiryAge + 1), same \in BOOLEAN :
       rq' = [rq EXCEPT ![i].pc = "get", ![i].phase = "update", ![i].exp = e,
                        ![i].till = IF same THEN e ELSE 0]
  /\ UNCHANGED <<now, facts, changes, row, updates, held>>

\* Domain, key, nonce and expiry date in the signed message are those in the headers.
verifySignedContent(i) == rq[i].till = rq[i].exp

\* The expiry date is checked against the clock, then the headers against the message.
CheckExpiryAge(i) ==
  /\ rq[i].pc = "age"
  /\ rq' = [rq EXCEPT ![i].pc =
       IF rq[i].exp - now \in 0..MaxExpiryAge /\ verifySignedContent(i) THEN "find" ELSE "refused"]
  /\ UNCHANGED <<now, facts, changes, row, updates, held>>

\* UpdateAuthKey first looks for the row with the nonce the handler read ...
FindAuthKey(i) ==
  /\ rq[i].pc = "find"
  /\ rq' = [rq EXCEPT ![i].pc = IF row.nonce = rq[i].cur THEN "write" ELSE "refused"]
  /\ UNCHANGED <<now, facts, changes, row, updates, held>>

\* Mutant: the nonce is counted up from what the row holds.
BugNewRow(i) ==
  [nonce |-> row.next, next |-> row.next + 1, key |-> i, exp |-> rq[i].exp]

NewRow(i) ==
  [nonce |-> rq[i].nonce, next |-> rq[i].nonce + 1, key |-> i, exp |-> rq[i].exp]

\* ... and then updates it by its primary key, which is not the nonce.
UpdateAuthKey(i) ==
  /\ rq[i].pc = "write"
  /\ row' = NewRow(i)
  /\ updates' = updates + 1
  /\ rq' = [rq EXCEPT ![i].pc = "registered"]
  /\ held' = [j \in Requests |->
                IF rq[j].kind = "signature" /\ Live(j) /\ rq[j].pc # "idle"
                THEN held[j] \cup {[key |-> i, exp |-> rq[i].exp]} ELSE held[j]]
  /\ UNCHANGED <<now, facts, changes>>

\* A request signed off-chain with the key k, until m.
ArriveSigned(i) ==
  /\ rq[i].kind = "signature" /\ rq[i].pc = "idle"
  /\ \E k \in {j \in Requests : rq[j].kind = "register"}, m \in now..(now + SigExpiryAge + 1) :
       rq' = [rq EXCEPT ![i].pc = "get", ![i].phase = "signature", ![i].key = k,
                        ![i].exp = m, ![i].t0 = now]
  /\ held' = [held EXCEPT ![i] = IF row = NULL THEN {} ELSE {[key |-> row.key, exp |-> row.exp]}]
  /\ UNCHANGED <<now, facts, changes, row, updates>>

\* Mutant: the expiry of the key is not checked.
BugCheckKeyExpiry(i) ==
  /\ rq[i].pc = "expiry"
  /\ rq' = [rq EXCEPT ![i].pc = "message"]
  /\ UNCHANGED <<now, facts, changes, row, updates, held>>

CheckKeyExpiry(i) ==
  /\ rq[i].pc = "expiry"
  /\ rq' = [rq EXCEPT ![i].pc = IF now <= rq[i].till THEN "message" ELSE "refused"]
  /\ UNCHANGED <<now, facts, changes, row, updates, held>>

\* The signature fits the key read before.
VerifyEddsaSignature(i) == rq[i].cur = rq[i].key

\* The time in the message, and the signature.
VerifyOffChainSignature(i) ==
  /\ rq[i].pc = "message"
  /\ rq' = [rq EXCEPT ![i].pc =
       IF rq[i].exp - now \in 0..SigExpiryAge /\ VerifyEddsaSignature(i)
       THEN "accepted" ELSE "refused"]
  /\ UNCHANGED <<now, facts, changes, row, updates, held>>

\* A statement or a call between the services fails.
AuthFails(i) ==
  /\ rq[i].pc \in {"get", "insert", "find", "write"}
  /\ Refuse(i)
  /\ UNCHANGED <<now, facts, changes, row, updates, held>>

------------------------------------------------------------------------------
AuthStep(i) ==
  \/ Arrive(i) \/ \E err \in BOOLEAN : Query(i, err)
  \/ GetAuthKey(i) \/ InsertAuthKey(i) \/ RequestNonce(i) \/ UpdateUserPublicKey(i)
  \/ CheckExpiryAge(i) \/ FindAuthKey(i) \/ UpdateAuthKey(i)
  \/ ArriveSigned(i) \/ CheckKeyExpiry(i) \/ VerifyOffChainSignature(i) \/ AuthFails(i)

------------------------------------------------------------------------------
\* What the operations are about: reads are of sealed objects, uploads of created
\* ones, approvals of new names, and each is for the SP that serves it.
Requires(op) ==
  CASE op = "AskCreateBucketApproval" -> {"nobucket"}
    [] op = "AskCreateObjectApproval" -> {"bucket", "noobject"}
    [] op \in {"PutObject", "GetUploadingState"} -> {"mine", "created", "permitted"}
    [] op = "GetObject" -> {"mine", "sealed", "paying", "permitted"}
    [] op = "GetRecoveryPiece" -> {"second", "sealed", "permitted"}
    [] op = "GetChallengePieceInfo" -> {"bonded", "object", "serves"}
    [] OTHER -> {"mine", "owner"}

\* A request is allowed only if every fact its operation requires held at some
\* moment while it was being verified, however the chain changed between the
\* queries (VerifyAuthentication; for the approvals a failed query counts as nil).
AllowedOnFacts ==
  \A i \in Requests : rq[i].pc \in {"allowed", "reserve"} =>
    Meets(held[i], {"account"} \cup Requires(rq[i].op))

\* The row of the key table is always one registration as a whole, under the nonce
\* its owner signed, and its nonce never passes the number of updates, although
\* UpdateAuthKey checks the nonce in one statement and writes in another.
RowIsOneRegistration ==
  row # NULL =>
    /\ row.nonce <= updates /\ row.next = row.nonce + 1
    /\ row.nonce > 0 => \E i \in Requests :
         rq[i].pc = "registered" /\ row = [nonce |-> rq[i].nonce, next |-> rq[i].nonce + 1,
                                           key |-> i, exp |-> rq[i].till]

\* An off-chain signature is accepted only from a key that was registered at some
\* moment of the verification and had not expired when the request arrived, while
\* other requests replace the key (VerifyOffChainSignature reads the row once).
AcceptedByLiveKey ==
  \A i \in Requests : rq[i].pc = "accepted" =>
    \E r \in held[i] : r.key = rq[i].key /\ r.exp >= rq[i].t0
=============================================================================
