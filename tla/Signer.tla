------------------------------- MODULE Signer -------------------------------
(***************************************************************************)
(* The transactions of the signer (GreenfieldChainSignClient): calls that  *)
(* seal or reject an object share the nonce of the seal account under      *)
(* sealLock, calls that discontinue a bucket use the gc account under      *)
(* gcLock.  The chain takes a transaction into its pool when its nonce is  *)
(* the account's sequence including the pool, and commits the pool in      *)
(* blocks.                                                                 *)
(***************************************************************************)
EXTENDS Integers, FiniteSets

CONSTANTS
  Calls,               \* the calls made
  BroadcastTxRetry,    \* how often a seal or a rejection is sent
  Free                 \* the holder of a lock nobody holds

ASSUME SignerAssumption == BroadcastTxRetry \in Nat \ {0} /\ Free \notin Calls

VARIABLES
  nonce,     \* sealAccNonce and gcAccNonce
  lock,      \* the holders of sealLock and gcLock
  seq,       \* the chain's committed sequence of each account
  pool,      \* how many transactions of each account are in the pool
  trouble,   \* what has happened to an account that may put its nonce out of step
  call       \* per call: its kind, where it is, its try, its nonce, the result

signerVars == <<nonce, lock, seq, pool, trouble, call>>

Accounts == {"seal", "gc"}
TxKinds == {"seal", "reject", "discontinue"}
AccountOf(c) == IF call[c].kind = "discontinue" THEN "gc" ELSE "seal"

\* A new signer reads the committed sequences; transactions of an earlier one may
\* still be in the pool.
SignerInit(kind) ==
  /\ seq = [a \in Accounts |-> 0]
  /\ pool \in [Accounts -> 0..1]
  /\ (\A c \in Calls : kind[c] \notin TxKinds) => pool = seq
  /\ nonce = seq
  /\ lock = [a \in Accounts |-> Free]
  /\ trouble = [a \in Accounts |-> IF pool[a] = 0 THEN {} ELSE {"behind"}]
  /\ call = [c \in Calls |-> [kind |-> kind[c], pc |-> "idle", try |-> 0, n |-> 0, res |-> "none"]]

Returned == {"sent", "failed"}

\* The call returns, and the deferred Unlock runs.
Return(c, pc) ==
  /\ call' = [call EXCEPT ![c].pc = pc, ![c].try = 0, ![c].n = 0, ![c].res = "none"]
  /\ lock' = [lock EXCEPT ![AccountOf(c)] = Free]

\* The next round of the loop; DiscontinueBucket has none.
Again(c) ==
  IF call[c].kind # "discontinue" /\ call[c].try + 1 < BroadcastTxRetry
  THEN /\ call' = [call EXCEPT ![c].pc = "send", ![c].try = @ + 1, ![c].n = 0, ![c].res = "none"]
       /\ UNCHANGED lock
  ELSE Return(c, "failed")

\* Mutant: the lock is forgotten.
BugLock(c) ==
  /\ call[c].kind \in TxKinds /\ call[c].pc = "idle"
  /\ call' = [call EXCEPT ![c].pc = "send"]
  /\ UNCHANGED <<nonce, lock, seq, pool, trouble>>

\* The key manager or an address of the message is unusable.
NoMessage(c) ==
  /\ call[c].kind \in TxKinds /\ call[c].pc = "idle"
  /\ call' = [call EXCEPT ![c].pc = "failed"]
  /\ UNCHANGED <<nonce, lock, seq, pool, trouble>>

\* The message is made and the lock taken.
Lock(c) ==
  /\ call[c].kind \in TxKinds /\ call[c].pc = "idle"
  /\ lock[AccountOf(c)] = Free
  /\ lock' = [lock EXCEPT ![AccountOf(c)] = c]
  /\ call' = [call EXCEPT ![c].pc = "send"]
  /\ UNCHANGED <<nonce, seq, pool, trouble>>

\* The transaction reaches the chain with the nonce the signer holds, is taken into
\* the pool or is out of sequence; or the node refuses it for another reason; and
\* whatever the chain did, the answer may get lost on its way.
Broadcast(c) ==
  LET a == AccountOf(c)
      fits == nonce[a] = seq[a] + pool[a]
  IN  /\ call[c].pc = "send"
      /\ \/ \E res \in {"ok", "lost"} :
              /\ fits
              /\ pool' = [pool EXCEPT ![a] = @ + 1]
              /\ trouble' = [trouble EXCEPT ![a] = IF res = "lost" THEN @ \cup {"lost"} ELSE @]
              /\ call' = [call EXCEPT ![c].pc = "answer", ![c].n = nonce[a], ![c].res = res]
         \/ \E res \in {"wrong", "other"} :
              /\ res = "wrong" => ~ fits
              /\ call' = [call EXCEPT ![c].pc = "answer", ![c].n = nonce[a], ![c].res = res]
              /\ UNCHANGED <<pool, trouble>>
      /\ UNCHANGED <<nonce, lock, seq>>

\* Mutant: the nonce is counted up whatever the answer.
BugAnswered(c) ==
  /\ call[c].pc = "answer" /\ call[c].res # "wrong"
  /\ nonce' = [nonce EXCEPT ![AccountOf(c)] = call[c].n + 1]
  /\ IF call[c].res = "ok" THEN Return(c, "sent") ELSE Again(c)
  /\ UNCHANGED <<seq, pool, trouble>>

\* Only a transaction known to be in the pool counts the nonce up.
Answered(c) ==
  /\ call[c].pc = "answer" /\ call[c].res # "wrong"
  /\ IF call[c].res = "ok"
     THEN Return(c, "sent") /\ nonce' = [nonce EXCEPT ![AccountOf(c)] = call[c].n + 1]
     ELSE Again(c) /\ UNCHANGED nonce
  /\ UNCHANGED <<seq, pool, trouble>>

\* ErrWrongSequence: wait for the next block, holding the lock.
WaitForNextBlock(c) ==
  /\ call[c].pc = "answer" /\ call[c].res = "wrong"
  /\ call' = [call EXCEPT ![c].pc = "wait", ![c].res = "none"]
  /\ UNCHANGED <<nonce, lock, seq, pool, trouble>>

\* Then take over the committed sequence.
GetNonceOnChain(c) ==
  /\ call[c].pc = "query"
  /\ nonce' = [nonce EXCEPT ![AccountOf(c)] = seq[AccountOf(c)]]
  /\ Again(c)
  /\ UNCHANGED <<seq, pool, trouble>>

\* Asking for the height or the nonce fails, or the caller has gone.
NonceFails(c) ==
  /\ call[c].pc \in {"wait", "query"}
  /\ Return(c, "failed")
  /\ UNCHANGED <<nonce, seq, pool, trouble>>

CallStep(c) ==
  \/ NoMessage(c) \/ Lock(c) \/ Broadcast(c) \/ Answered(c)
  \/ WaitForNextBlock(c) \/ GetNonceOnChain(c) \/ NonceFails(c)

Sending(c) == call[c].kind \in TxKinds /\ call[c].pc \notin Returned

\* A block commits some of the pool; who waits for a block sees it.
Block ==
  /\ \E c \in Calls : Sending(c)
  /\ \E a \in Accounts, k \in 0..1 :
       /\ k <= pool[a]
       /\ seq' = [seq EXCEPT ![a] = @ + k]
       /\ pool' = [pool EXCEPT ![a] = @ - k]
  /\ call' = [c \in Calls |-> IF call[c].pc = "wait" THEN [call[c] EXCEPT !.pc = "query"]
                                                     ELSE call[c]]
  /\ UNCHANGED <<nonce, lock, trouble>>

\* The pool gives up a transaction.
DropTx(a) ==
  /\ \E c \in Calls : Sending(c)
  /\ pool[a] > 0
  /\ pool' = [pool EXCEPT ![a] = @ - 1]
  /\ trouble' = [trouble EXCEPT ![a] = @ \cup {"dropped"}]
  /\ UNCHANGED <<nonce, lock, seq, call>>

SignerNext == (\E c \in Calls : CallStep(c)) \/ Block \/ (\E a \in Accounts : DropTx(a))

SignerSpec ==
  /\ \E kind \in [Calls -> TxKinds] : SignerInit(kind)
  /\ [][SignerNext]_signerVars

\* Whatever calls run together, an account to which nothing has happened (no answer
\* lost, no transaction dropped, none pending at the start) has its next nonce in
\* step with the chain whenever no call holds its lock: the next call's first try is
\* taken (SealObject, RejectUnSealObject, DiscontinueBucket).
NonceInStep ==
  \A a \in Accounts : trouble[a] = {} /\ lock[a] = Free => nonce[a] = seq[a] + pool[a]

\* The signer never counts a nonce the chain has not taken: as long as the pool
\* drops nothing, a cached nonce is at most the chain's, so that a reset after
\* ErrWrongSequence only ever catches up.
NonceNotAhead ==
  \A a \in Accounts : "dropped" \notin trouble[a] => nonce[a] <= seq[a] + pool[a]
=============================================================================
