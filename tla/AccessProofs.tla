---------------------------- MODULE AccessProofs ----------------------------
(***************************************************************************)
(* For every set of requests and calls, every number of tries and every    *)
(* capacity: the signer keeps its nonces in step with the chain, and the   *)
(* approver hands out signed approvals that have not expired.  For every   *)
(* mix of operations, every number of changes of the chain and every       *)
(* length of a key's life: the authenticator lets through only what the    *)
(* chain and the key table bore out while it looked at them.               *)
(***************************************************************************)
EXTENDS Access, TLAPS

----------------------------------------------------------------------------
(* The signer.  The strengthening says what a call that holds a lock knows. *)

CallFields == {"kind", "pc", "try", "n", "res"}
Holding == {"send", "answer", "wait", "query"}

\* The nonce x of an account whose sequence with the pool is sum, to which t has
\* happened and whose lock l holds.
AccountGood(x, sum, t, l) ==
  /\ t = {} /\ l = Free => x = sum
  /\ "dropped" \notin t => x <= sum

\* The record r of call c of such an account.
CallGood(r, c, x, sum, t, l) ==
  r.pc \in Holding =>
    /\ l = c
    /\ r.pc = "answer" /\ r.res = "ok" /\ "dropped" \notin t => r.n + 1 <= sum
    /\ t = {} => \/ r.pc = "send" /\ x = sum
                 \/ r.pc = "answer" /\ r.res = "ok" /\ r.n + 1 = sum
                 \/ r.pc = "answer" /\ r.res = "other" /\ x = sum

SignerType ==
  /\ nonce \in [Accounts -> Nat] /\ seq \in [Accounts -> Nat] /\ pool \in [Accounts -> Nat]
  /\ lock = [a \in Accounts |-> lock[a]]
  /\ trouble = [a \in Accounts |-> trouble[a]]
  /\ call = [c \in Calls |-> call[c]]
  /\ \A c \in Calls : call[c] = [x \in CallFields |-> call[c][x]] /\ call[c].n \in Nat

AccountsGood ==
  \A a \in Accounts : AccountGood(nonce[a], seq[a] + pool[a], trouble[a], lock[a])

CallsGood ==
  \A c \in Calls : LET a == AccountOf(c)
                   IN  CallGood(call[c], c, nonce[a], seq[a] + pool[a], trouble[a], lock[a])

SignerInv == SignerType /\ AccountsGood /\ CallsGood

LEMMA AccountKnown == ASSUME NEW c PROVE AccountOf(c) \in Accounts
BY Zenon DEF AccountOf, Accounts

LEMMA InitSigner == ASSUME NEW kind, SignerInit(kind) PROVE SignerInv
<1>1. /\ nonce \in [Accounts -> Nat] /\ seq \in [Accounts -> Nat] /\ pool \in [Accounts -> Nat]
      /\ \A a \in Accounts : nonce[a] = 0 /\ seq[a] = 0
  BY DEF SignerInit
<1>2. SignerType
  <2>1. \A c \in Calls : call[c] = [x \in CallFields |-> call[c][x]] /\ call[c].n \in Nat
    BY Zenon DEF SignerInit, CallFields
  <2> QED BY <1>1, <2>1, Zenon DEF SignerInit, SignerType
<1>3. AccountsGood
  <2> SUFFICES ASSUME NEW a \in Accounts
               PROVE  AccountGood(nonce[a], seq[a] + pool[a], trouble[a], lock[a])
    BY Zenon DEF AccountsGood
  <2>1. trouble[a] = (IF pool[a] = 0 THEN {} ELSE {"behind"}) /\ pool[a] \in Nat
    BY <1>1, Zenon DEF SignerInit
  <2> QED BY <1>1, <2>1 DEF AccountGood
<1>4. CallsGood BY Zenon DEF SignerInit, CallsGood, CallGood, Holding
<1> QED BY <1>2, <1>3, <1>4, Zenon DEF SignerInv

\* A step of one call: it holds the lock of its account, or nobody does, and only
\* this account changes, to nonce x, pool p, trouble t and lock l; or nothing but
\* the call does.
StepAt(c, r, x, p, t, l) ==
  LET a == AccountOf(c)
  IN  /\ \/ lock[a] \in {c, Free}
         \/ x = nonce[a] /\ p = pool[a] /\ t = trouble[a] /\ l = lock[a]
      /\ call' = [call EXCEPT ![c] = r]
      /\ r = [y \in CallFields |-> r[y]] /\ r.n \in Nat /\ r.kind = call[c].kind
      /\ nonce' = [nonce EXCEPT ![a] = x] /\ x \in Nat
      /\ pool' = [pool EXCEPT ![a] = p] /\ p \in Nat
      /\ seq' = seq
      /\ trouble' = [trouble EXCEPT ![a] = t]
      /\ lock' = [lock EXCEPT ![a] = l]
      /\ AccountGood(x, seq[a] + p, t, l)
      /\ CallGood(r, c, x, seq[a] + p, t, l)

LEMMA OneCall ==
  ASSUME SignerInv, NEW c \in Calls, NEW r, NEW x, NEW p, NEW t, NEW l,
         StepAt(c, r, x, p, t, l)
  PROVE  SignerInv'
<1> DEFINE a == AccountOf(c)
<1>a. a \in Accounts BY AccountKnown, Zenon
<1>t. SignerType BY Zenon DEF SignerInv
<1>1. /\ call' = [d \in Calls |-> IF d = c THEN r ELSE call[d]]
      /\ nonce' = [b \in Accounts |-> IF b = a THEN x ELSE nonce[b]]
      /\ pool' = [b \in Accounts |-> IF b = a THEN p ELSE pool[b]]
      /\ trouble' = [b \in Accounts |-> IF b = a THEN t ELSE trouble[b]]
      /\ lock' = [b \in Accounts |-> IF b = a THEN l ELSE lock[b]]
  BY <1>t, Zenon DEF SignerType, StepAt
<1>s. /\ seq' = seq /\ x \in Nat /\ p \in Nat
      /\ r = [y \in CallFields |-> r[y]] /\ r.n \in Nat /\ r.kind = call[c].kind
      /\ \/ lock[a] \in {c, Free}
         \/ x = nonce[a] /\ p = pool[a] /\ t = trouble[a] /\ l = lock[a]
      /\ AccountGood(x, seq[a] + p, t, l) /\ CallGood(r, c, x, seq[a] + p, t, l)
  BY Zenon DEF StepAt
<1>2. SignerType'
  <2>1. /\ nonce' \in [Accounts -> Nat] /\ seq' \in [Accounts -> Nat] /\ pool' \in [Accounts -> Nat]
    BY <1>1, <1>s, <1>t, Zenon DEF SignerType
  <2>2. /\ lock' = [b \in Accounts |-> lock'[b]]
        /\ trouble' = [b \in Accounts |-> trouble'[b]]
        /\ call' = [d \in Calls |-> call'[d]]
    BY <1>1, Zenon
  <2>3. ASSUME NEW d \in Calls
        PROVE  call'[d] = [y \in CallFields |-> call'[d][y]] /\ call'[d].n \in Nat
    <3>1. CASE d = c BY <3>1, <1>1, <1>s, Zenon
    <3>2. CASE d # c BY <3>2, <1>1, <1>t, Zenon DEF SignerType
    <3> QED BY <3>1, <3>2, Zenon
  <2> QED BY <2>1, <2>2, <2>3, Zenon DEF SignerType
<1>3. AccountsGood' BY <1>1, <1>s, Zenon DEF SignerInv, AccountsGood
<1>4. \A d \in Calls : AccountOf(d)' = AccountOf(d) BY <1>1, <1>s, Zenon DEF AccountOf
<1>5. CallsGood'
  <2> SUFFICES ASSUME NEW d \in Calls
               PROVE  LET b == AccountOf(d)
                      IN  CallGood(call'[d], d, nonce'[b], seq'[b] + pool'[b], trouble'[b], lock'[b])
    BY <1>4, Zenon DEF CallsGood
  <2>1. CASE d = c BY <2>1, <1>1, <1>a, <1>s, Zenon
  <2>2. CASE d # c
    <3>1. call'[d] = call[d] BY <2>2, <1>1, Zenon
    <3>2. AccountOf(d) \in Accounts BY AccountKnown, Zenon
    <3>3. LET b == AccountOf(d)
          IN  CallGood(call[d], d, nonce[b], seq[b] + pool[b], trouble[b], lock[b])
      BY Zenon DEF SignerInv, CallsGood
    <3>4. CASE AccountOf(d) # a BY <3>1, <3>2, <3>3, <3>4, <1>1, <1>s, Zenon
    <3>5. CASE AccountOf(d) = a
      <4>1. CASE lock[a] \in {c, Free}
        <5>1. call[d].pc \notin Holding
          BY <2>2, <3>3, <3>5, <4>1, SignerAssumption, Zenon DEF CallGood
        <5> QED BY <3>1, <5>1, Zenon DEF CallGood
      <4>2. CASE x = nonce[a] /\ p = pool[a] /\ t = trouble[a] /\ l = lock[a]
        BY <3>1, <3>2, <3>3, <3>5, <4>2, <1>1, <1>s, Zenon
      <4> QED BY <4>1, <4>2, <1>s, Zenon
    <3> QED BY <3>4, <3>5, Zenon
  <2> QED BY <2>1, <2>2, Zenon
<1> QED BY <1>2, <1>3, <1>5, Zenon DEF SignerInv

\* What the invariant says of a call and its account.
LEMMA CallFacts ==
  ASSUME SignerInv, NEW c \in Calls
  PROVE  LET a == AccountOf(c)
         IN  /\ a \in Accounts
             /\ nonce[a] \in Nat /\ seq[a] \in Nat /\ pool[a] \in Nat
             /\ AccountGood(nonce[a], seq[a] + pool[a], trouble[a], lock[a])
             /\ CallGood(call[c], c, nonce[a], seq[a] + pool[a], trouble[a], lock[a])
             /\ call[c] = [x \in CallFields |-> call[c][x]] /\ call[c].n \in Nat
             /\ nonce = [nonce EXCEPT ![a] = nonce[a]]
             /\ pool = [pool EXCEPT ![a] = pool[a]]
             /\ trouble = [trouble EXCEPT ![a] = trouble[a]]
             /\ lock = [lock EXCEPT ![a] = lock[a]]
BY AccountKnown, Zenon DEF SignerInv, SignerType, AccountsGood, CallsGood

\* The record of a call after an assignment to its fields.
Rec(q, pc, try, n, res) == [q EXCEPT !.pc = pc, !.try = try, !.n = n, !.res = res]

LEMMA RecFacts ==
  ASSUME NEW q, q = [x \in CallFields |-> q[x]], NEW pc, NEW try, NEW n, NEW res
  PROVE  LET r == Rec(q, pc, try, n, res)
         IN  /\ r = [x \in CallFields |-> r[x]]
             /\ r.kind = q.kind /\ r.pc = pc /\ r.try = try /\ r.n = n /\ r.res = res
BY Zenon DEF Rec, CallFields

\* The deferred unlock, or the next round of the loop: the nonce becomes x, which is
\* in step with the chain if nothing has happened.
LEMMA EndOrAgain ==
  ASSUME SignerInv, NEW c \in Calls, NEW x \in Nat, lock[AccountOf(c)] = c,
         Again(c) \/ (\E pc \in Returned : Return(c, pc)),
         nonce' = [nonce EXCEPT ![AccountOf(c)] = x], UNCHANGED <<seq, pool, trouble>>,
         trouble[AccountOf(c)] = {} => x = seq[AccountOf(c)] + pool[AccountOf(c)],
         "dropped" \notin trouble[AccountOf(c)] => x <= seq[AccountOf(c)] + pool[AccountOf(c)]
  PROVE  SignerInv'
<1> DEFINE a == AccountOf(c)
<1>f. /\ pool[a] \in Nat /\ call[c] = [y \in CallFields |-> call[c][y]]
      /\ pool' = [pool EXCEPT ![a] = pool[a]] /\ trouble' = [trouble EXCEPT ![a] = trouble[a]]
      /\ lock = [lock EXCEPT ![a] = lock[a]] /\ seq' = seq
  BY CallFacts, Zenon
<1>c. call = [d \in Calls |-> call[d]] BY Zenon DEF SignerInv, SignerType
<1>2. ASSUME NEW try, call' = [call EXCEPT ![c] = Rec(call[c], "send", try, 0, "none")], lock' = lock
      PROVE  SignerInv'
  <2> DEFINE r == Rec(call[c], "send", try, 0, "none")
  <2>2. r = [y \in CallFields |-> r[y]] /\ r.kind = call[c].kind /\ r.pc = "send" /\ r.n \in Nat
    BY <1>f, RecFacts
  <2>3. call' = [call EXCEPT ![c] = r] BY <1>2, Zenon
  <2> HIDE DEF r
  <2>4. AccountGood(x, seq[a] + pool[a], trouble[a], c) BY SignerAssumption, Zenon DEF AccountGood
  <2>5. CallGood(r, c, x, seq[a] + pool[a], trouble[a], c) BY <2>2, Zenon DEF CallGood
  <2>6. lock' = [lock EXCEPT ![a] = c] BY <1>2, <1>f, Zenon
  <2>7. StepAt(c, r, x, pool[a], trouble[a], c) BY <2>2, <2>3, <2>4, <2>5, <2>6, <1>f, Zenon DEF StepAt
  <2> QED BY <2>7, OneCall, Zenon
<1>3. ASSUME NEW pc \in Returned, call' = [call EXCEPT ![c] = Rec(call[c], pc, 0, 0, "none")],
             lock' = [lock EXCEPT ![a] = Free]
      PROVE  SignerInv'
  <2> DEFINE r == Rec(call[c], pc, 0, 0, "none")
  <2>2. r = [y \in CallFields |-> r[y]] /\ r.kind = call[c].kind /\ r.pc = pc /\ r.n \in Nat
    BY <1>f, RecFacts
  <2>3. call' = [call EXCEPT ![c] = r] BY <1>3, Zenon
  <2> HIDE DEF r
  <2>4. AccountGood(x, seq[a] + pool[a], trouble[a], Free) BY Zenon DEF AccountGood
  <2>5. CallGood(r, c, x, seq[a] + pool[a], trouble[a], Free)
    BY <2>2, Zenon DEF CallGood, Holding, Returned
  <2>7. StepAt(c, r, x, pool[a], trouble[a], Free) BY <1>3, <2>2, <2>3, <2>4, <2>5, <1>f, Zenon DEF StepAt
  <2> QED BY <2>7, OneCall, Zenon
<1>4. ASSUME NEW pc \in Returned, Return(c, pc) PROVE SignerInv'
  <2>1. call' = [call EXCEPT ![c].pc = pc, ![c].try = 0, ![c].n = 0, ![c].res = "none"]
    BY <1>4, Zenon DEF Return
  <2>2. call' = [call EXCEPT ![c] = Rec(call[c], pc, 0, 0, "none")] BY <2>1, <1>c, Zenon DEF Rec
  <2> QED BY <2>2, <1>3, <1>4, Zenon DEF Return
<1>5. ASSUME Again(c) PROVE SignerInv'
  <2> DEFINE more == call[c].kind # "discontinue" /\ call[c].try + 1 < BroadcastTxRetry
  <2>1. CASE more
    <3> DEFINE try == call[c].try + 1
    <3>1. /\ call' = [call EXCEPT ![c].pc = "send", ![c].try = try, ![c].n = 0, ![c].res = "none"]
          /\ lock' = lock
      BY <1>5, <2>1, Zenon DEF Again
    <3> HIDE DEF try
    <3>2. call' = [call EXCEPT ![c] = Rec(call[c], "send", try, 0, "none")] BY <3>1, <1>c, Zenon DEF Rec
    <3> QED BY <3>1, <3>2, <1>2, Zenon
  <2>2. CASE ~ more BY <1>5, <2>2, <1>4, Zenon DEF Again, Returned
  <2> QED BY <2>1, <2>2, Zenon
<1> QED BY <1>4, <1>5, Zenon

LEMMA CallStepKeeps == ASSUME SignerInv, NEW c \in Calls, CallStep(c) PROVE SignerInv'
<1> DEFINE a == AccountOf(c)
           sum == seq[a] + pool[a]
<1>c. call = [d \in Calls |-> call[d]] BY Zenon DEF SignerInv, SignerType
<1>f. /\ a \in Accounts
      /\ nonce[a] \in Nat /\ seq[a] \in Nat /\ pool[a] \in Nat
      /\ AccountGood(nonce[a], sum, trouble[a], lock[a])
      /\ CallGood(call[c], c, nonce[a], sum, trouble[a], lock[a])
      /\ call[c] = [x \in CallFields |-> call[c][x]] /\ call[c].n \in Nat
  BY CallFacts, Zenon
<1>u. /\ nonce = [nonce EXCEPT ![a] = nonce[a]]
      /\ pool = [pool EXCEPT ![a] = pool[a]]
      /\ trouble = [trouble EXCEPT ![a] = trouble[a]]
      /\ lock = [lock EXCEPT ![a] = lock[a]]
  BY CallFacts, Zenon
<1>1. CASE NoMessage(c)
  <2> DEFINE r == [call[c] EXCEPT !.pc = "failed"]
  <2>1. /\ r = [y \in CallFields |-> r[y]] /\ r.n \in Nat /\ r.kind = call[c].kind
        /\ r.pc = "failed"
    BY <1>f, Zenon DEF CallFields
  <2>2. call' = [call EXCEPT ![c] = r] BY <1>1, <1>c, Zenon DEF NoMessage
  <2> HIDE DEF r
  <2>3. CallGood(r, c, nonce[a], sum, trouble[a], lock[a]) BY <2>1, Zenon DEF CallGood, Holding
  <2>4. nonce' = nonce /\ lock' = lock /\ seq' = seq /\ pool' = pool /\ trouble' = trouble
    BY <1>1, Zenon DEF NoMessage
  <2>5. StepAt(c, r, nonce[a], pool[a], trouble[a], lock[a])
    BY <2>1, <2>2, <2>3, <2>4, <1>f, <1>u, Zenon DEF StepAt
  <2> QED BY <2>5, OneCall, Zenon
<1>2. CASE Lock(c)
  <2> DEFINE r == [call[c] EXCEPT !.pc = "send"]
  <2>1. /\ r = [y \in CallFields |-> r[y]] /\ r.n \in Nat /\ r.kind = call[c].kind
        /\ r.pc = "send"
    BY <1>f, Zenon DEF CallFields
  <2>2. call' = [call EXCEPT ![c] = r] BY <1>2, <1>c, Zenon DEF Lock
  <2> HIDE DEF r
  <2>3. lock[a] = Free /\ lock' = [lock EXCEPT ![a] = c] BY <1>2, Zenon DEF Lock
  <2>4. AccountGood(nonce[a], sum, trouble[a], c) BY <1>f, SignerAssumption, Zenon DEF AccountGood
  <2>5. CallGood(r, c, nonce[a], sum, trouble[a], c)
    BY <2>1, <2>3, <1>f, Zenon DEF CallGood, AccountGood
  <2>6. nonce' = nonce /\ seq' = seq /\ pool' = pool /\ trouble' = trouble BY <1>2, Zenon DEF Lock
  <2>7. StepAt(c, r, nonce[a], pool[a], trouble[a], c)
    BY <2>1, <2>2, <2>3, <2>4, <2>5, <2>6, <1>f, <1>u, Zenon DEF StepAt
  <2> QED BY <2>7, OneCall, Zenon
<1>3. CASE Broadcast(c)
  <2>h. lock[a] = c /\ call[c].pc = "send" /\ c # Free
    BY <1>3, <1>f, SignerAssumption, Zenon DEF Broadcast, CallGood, Holding
  <2> DEFINE r(res) == [call[c] EXCEPT !.pc = "answer", !.n = nonce[a], !.res = res]
  <2>r. ASSUME NEW res
        PROVE  /\ r(res) = [y \in CallFields |-> r(res)[y]] /\ r(res).n \in Nat
               /\ r(res).kind = call[c].kind
               /\ r(res).pc = "answer" /\ r(res).n = nonce[a] /\ r(res).res = res
    BY <1>f, Zenon DEF CallFields
  <2>e. ASSUME NEW res
        PROVE  [call EXCEPT ![c].pc = "answer", ![c].n = nonce[a], ![c].res = res]
                 = [call EXCEPT ![c] = r(res)]
    BY <1>c, Zenon
  <2>u. nonce' = nonce /\ lock' = lock /\ seq' = seq BY <1>3, Zenon DEF Broadcast
  <2>1. ASSUME NEW res \in {"ok", "lost"}, nonce[a] = sum,
               pool' = [pool EXCEPT ![a] = pool[a] + 1],
               trouble' = [trouble EXCEPT ![a] = IF res = "lost" THEN trouble[a] \cup {"lost"}
                                                                 ELSE trouble[a]],
               call' = [call EXCEPT ![c].pc = "answer", ![c].n = nonce[a], ![c].res = res]
        PROVE  SignerInv'
    <3> DEFINE q == r(res)
               t == IF res = "lost" THEN trouble[a] \cup {"lost"} ELSE trouble[a]
    <3>1. /\ q = [y \in CallFields |-> q[y]] /\ q.n \in Nat /\ q.kind = call[c].kind
          /\ q.pc = "answer" /\ q.n = nonce[a] /\ q.res = res
      BY <2>r, Zenon
    <3>2. call' = [call EXCEPT ![c] = q] BY <2>1, <2>e, Zenon
    <3>3. trouble' = [trouble EXCEPT ![a] = t] BY <2>1, Zenon
    <3>4. /\ "dropped" \in t <=> "dropped" \in trouble[a]
          /\ t = {} => trouble[a] = {} /\ res = "ok"
      BY <2>1, Zenon
    <3> HIDE DEF q, r, t
    <3>9. /\ nonce[a] <= seq[a] + (pool[a] + 1)
          /\ nonce[a] + 1 = seq[a] + (pool[a] + 1) /\ nonce[a] + 1 <= seq[a] + (pool[a] + 1)
      <4>1. nonce[a] = seq[a] + pool[a] BY <2>1, Zenon
      <4>2. nonce[a] \in Nat /\ seq[a] \in Nat /\ pool[a] \in Nat BY <1>f, Zenon
      <4> HIDE DEF a
      <4> QED BY <4>1, <4>2
    <3>5. AccountGood(nonce[a], seq[a] + (pool[a] + 1), t, lock[a])
      BY <2>h, <3>9, Zenon DEF AccountGood
    <3>6. CallGood(q, c, nonce[a], seq[a] + (pool[a] + 1), t, lock[a])
      BY <2>h, <2>1, <3>1, <3>4, <3>9, Zenon DEF CallGood
    <3>7. pool[a] + 1 \in Nat BY <1>f
    <3>8. StepAt(c, q, nonce[a], pool[a] + 1, t, lock[a])
      BY <3>1, <3>2, <3>3, <3>5, <3>6, <3>7, <2>h, <2>u, <2>1, <1>f, <1>u, Zenon DEF StepAt
    <3> QED BY <3>8, OneCall, Zenon
  <2>2. ASSUME NEW res \in {"wrong", "other"}, res = "wrong" => nonce[a] # sum,
               pool' = pool, trouble' = trouble,
               call' = [call EXCEPT ![c].pc = "answer", ![c].n = nonce[a], ![c].res = res]
        PROVE  SignerInv'
    <3> DEFINE q == r(res)
    <3>1. /\ q = [y \in CallFields |-> q[y]] /\ q.n \in Nat /\ q.kind = call[c].kind
          /\ q.pc = "answer" /\ q.n = nonce[a] /\ q.res = res
      BY <2>r, Zenon
    <3>2. call' = [call EXCEPT ![c] = q] BY <2>2, <2>e, Zenon
    <3> HIDE DEF q, r
    <3>3. CallGood(q, c, nonce[a], sum, trouble[a], lock[a])
      BY <2>h, <2>2, <3>1, <1>f, Zenon DEF CallGood, Holding
    <3>4. StepAt(c, q, nonce[a], pool[a], trouble[a], lock[a])
      BY <3>1, <3>2, <3>3, <2>h, <2>u, <2>2, <1>f, <1>u, Zenon DEF StepAt
    <3> QED BY <3>4, OneCall, Zenon
  <2> QED BY <1>3, <2>1, <2>2, Zenon DEF Broadcast
<1>4. CASE Answered(c)
  <2>1. lock[a] = c /\ call[c].pc = "answer" /\ seq' = seq /\ pool' = pool /\ trouble' = trouble
    BY <1>4, <1>f, Zenon DEF Answered, CallGood, Holding
  <2>2. CASE call[c].res = "ok"
    <3>1. /\ Return(c, "sent") /\ nonce' = [nonce EXCEPT ![a] = call[c].n + 1]
          /\ "sent" \in Returned
      BY <1>4, <2>2, Zenon DEF Answered, Returned
    <3>2. /\ call[c].n + 1 \in Nat
          /\ trouble[a] = {} => call[c].n + 1 = sum
          /\ "dropped" \notin trouble[a] => call[c].n + 1 <= sum
      <4>1. CallGood(call[c], c, nonce[a], sum, trouble[a], lock[a]) /\ call[c].n \in Nat BY <1>f, Zenon
      <4>2. call[c].n + 1 \in Nat BY <4>1
      <4> QED BY <4>1, <4>2, <2>1, <2>2, Zenon DEF CallGood, Holding
    <3> QED BY <2>1, <3>1, <3>2, EndOrAgain, Zenon
  <2>3. CASE call[c].res # "ok"
    <3>1. Again(c) /\ nonce' = [nonce EXCEPT ![a] = nonce[a]]
      BY <1>4, <2>3, <1>u, Zenon DEF Answered
    <3>2. /\ trouble[a] = {} => nonce[a] = sum
          /\ "dropped" \notin trouble[a] => nonce[a] <= sum
      BY <1>f, <2>1, <2>3, Zenon DEF CallGood, AccountGood, Holding
    <3> QED BY <2>1, <3>1, <3>2, <1>f, EndOrAgain, Zenon
  <2> QED BY <2>2, <2>3, Zenon
<1>5. CASE WaitForNextBlock(c)
  <2> DEFINE r == [call[c] EXCEPT !.pc = "wait", !.res = "none"]
  <2>1. /\ r = [y \in CallFields |-> r[y]] /\ r.n \in Nat /\ r.kind = call[c].kind
        /\ r.pc = "wait"
    BY <1>f, Zenon DEF CallFields
  <2>2. call' = [call EXCEPT ![c] = r] BY <1>5, <1>c, Zenon DEF WaitForNextBlock
  <2> HIDE DEF r
  <2>3. lock[a] = c /\ trouble[a] # {}
    BY <1>5, <1>f, Zenon DEF WaitForNextBlock, CallGood, Holding
  <2>4. CallGood(r, c, nonce[a], sum, trouble[a], lock[a]) BY <2>1, <2>3, Zenon DEF CallGood
  <2>5. nonce' = nonce /\ lock' = lock /\ seq' = seq /\ pool' = pool /\ trouble' = trouble
    BY <1>5, Zenon DEF WaitForNextBlock
  <2>6. StepAt(c, r, nonce[a], pool[a], trouble[a], lock[a])
    BY <2>1, <2>2, <2>4, <2>5, <1>f, <1>u, Zenon DEF StepAt
  <2> QED BY <2>6, OneCall, Zenon
<1>6. CASE GetNonceOnChain(c)
  <2>1. lock[a] = c /\ trouble[a] # {} /\ nonce' = [nonce EXCEPT ![a] = seq[a]]
    BY <1>6, <1>f, Zenon DEF GetNonceOnChain, CallGood, Holding
  <2>2. Again(c) /\ seq' = seq /\ pool' = pool /\ trouble' = trouble
    BY <1>6, Zenon DEF GetNonceOnChain
  <2>3. seq[a] <= sum BY <1>f
  <2> QED BY <2>1, <2>2, <2>3, <1>f, EndOrAgain, Zenon
<1>7. CASE NonceFails(c)
  <2>1. lock[a] = c /\ trouble[a] # {}
    BY <1>7, <1>f, Zenon DEF NonceFails, CallGood, Holding
  <2>2. /\ Return(c, "failed") /\ "failed" \in Returned
        /\ nonce' = [nonce EXCEPT ![a] = nonce[a]]
        /\ seq' = seq /\ pool' = pool /\ trouble' = trouble
    BY <1>7, <1>u, Zenon DEF NonceFails, Returned
  <2>3. "dropped" \notin trouble[a] => nonce[a] <= sum BY <1>f, Zenon DEF AccountGood
  <2> QED BY <2>1, <2>2, <2>3, <1>f, EndOrAgain, Zenon
<1> QED BY <1>1, <1>2, <1>3, <1>4, <1>5, <1>6, <1>7, Zenon DEF CallStep

LEMMA BlockKeeps == ASSUME SignerInv, Block PROVE SignerInv'
<1>t. SignerType BY Zenon DEF SignerInv
<1>1. PICK a \in Accounts, k \in 0..1 :
        k <= pool[a] /\ seq' = [seq EXCEPT ![a] = seq[a] + k] /\ pool' = [pool EXCEPT ![a] = pool[a] - k]
  BY Zenon DEF Block
<1>2. /\ seq' \in [Accounts -> Nat] /\ pool' \in [Accounts -> Nat]
      /\ \A b \in Accounts : seq'[b] + pool'[b] = seq[b] + pool[b]
  BY <1>1, <1>t DEF SignerType
<1>3. nonce' = nonce /\ lock' = lock /\ trouble' = trouble BY Zenon DEF Block
<1>4. call' = [c \in Calls |-> IF call[c].pc = "wait" THEN [call[c] EXCEPT !.pc = "query"]
                                                     ELSE call[c]]
  BY Zenon DEF Block
<1>5. ASSUME NEW c \in Calls
      PROVE  /\ call'[c] = [y \in CallFields |-> call'[c][y]]
             /\ call'[c].n = call[c].n /\ call'[c].kind = call[c].kind /\ call'[c].res = call[c].res
             /\ call'[c].pc = IF call[c].pc = "wait" THEN "query" ELSE call[c].pc
  <2>1. call[c] = [y \in CallFields |-> call[c][y]] BY <1>t, Zenon DEF SignerType
  <2>2. CASE call[c].pc = "wait" BY <2>1, <2>2, <1>4, Zenon DEF CallFields
  <2>3. CASE call[c].pc # "wait" BY <2>1, <2>3, <1>4, Zenon
  <2> QED BY <2>2, <2>3, Zenon
<1>6. call' = [c \in Calls |-> call'[c]] BY <1>4, Zenon
<1> HIDE DEF Block
<1>7. SignerType' BY <1>2, <1>3, <1>5, <1>6, <1>t, Zenon DEF SignerType
<1>8. AccountsGood' BY <1>2, <1>3, Zenon DEF SignerInv, AccountsGood
<1>9. CallsGood'
  <2> SUFFICES ASSUME NEW c \in Calls
               PROVE  LET b == AccountOf(c)
                      IN  CallGood(call'[c], c, nonce'[b], seq'[b] + pool'[b], trouble'[b], lock'[b])
    BY <1>5, Zenon DEF CallsGood, AccountOf
  <2>1. LET b == AccountOf(c)
        IN  CallGood(call[c], c, nonce[b], seq[b] + pool[b], trouble[b], lock[b])
    BY Zenon DEF SignerInv, CallsGood
  <2>2. LET b == AccountOf(c)
        IN  CallGood(call'[c], c, nonce[b], seq[b] + pool[b], trouble[b], lock[b])
    BY <2>1, <1>5, Zenon DEF CallGood, Holding
  <2> QED BY <2>2, <1>2, <1>3, AccountKnown, Zenon
<1> QED BY <1>7, <1>8, <1>9, Zenon DEF SignerInv

LEMMA DropKeeps == ASSUME SignerInv, NEW a \in Accounts, DropTx(a) PROVE SignerInv'
<1>t. SignerType BY Zenon DEF SignerInv
<1>1. /\ pool' = [b \in Accounts |-> IF b = a THEN pool[a] - 1 ELSE pool[b]]
      /\ trouble' = [b \in Accounts |-> IF b = a THEN trouble[a] \cup {"dropped"} ELSE trouble[b]]
      /\ pool' \in [Accounts -> Nat]
  <2>1. pool \in [Accounts -> Nat] /\ pool[a] > 0 /\ pool' = [pool EXCEPT ![a] = pool[a] - 1]
    BY <1>t, Zenon DEF DropTx, SignerType
  <2>2. trouble' = [trouble EXCEPT ![a] = trouble[a] \cup {"dropped"}] BY Zenon DEF DropTx
  <2>3. trouble = [b \in Accounts |-> trouble[b]] BY <1>t, Zenon DEF SignerType
  <2>4. pool' = [b \in Accounts |-> IF b = a THEN pool[a] - 1 ELSE pool[b]] BY <2>1, Zenon
  <2>5. pool' \in [Accounts -> Nat] BY <2>1, <2>4
  <2>6. trouble' = [b \in Accounts |-> IF b = a THEN trouble[a] \cup {"dropped"} ELSE trouble[b]]
    BY <2>2, <2>3, Zenon
  <2> QED BY <2>4, <2>5, <2>6, Zenon
<1>2. nonce' = nonce /\ lock' = lock /\ seq' = seq /\ call' = call BY Zenon DEF DropTx
<1>3. SignerType' BY <1>1, <1>2, <1>t, Zenon DEF SignerType
<1>4. AccountsGood' BY <1>1, <1>2, Zenon DEF SignerInv, AccountsGood, AccountGood
<1>5. CallsGood'
  <2> SUFFICES ASSUME NEW c \in Calls
               PROVE  LET b == AccountOf(c)
                      IN  CallGood(call[c], c, nonce[b], seq[b] + pool'[b], trouble'[b], lock[b])
    BY <1>2, Zenon DEF CallsGood, AccountOf
  <2>1. LET b == AccountOf(c)
        IN  CallGood(call[c], c, nonce[b], seq[b] + pool[b], trouble[b], lock[b])
    BY Zenon DEF SignerInv, CallsGood
  <2>2. CASE AccountOf(c) # a BY <2>1, <2>2, <1>1, AccountKnown, Zenon
  <2>3. CASE AccountOf(c) = a
    <3>1. "dropped" \in trouble'[a] BY <1>1, Zenon
    <3> QED BY <2>1, <2>3, <3>1, Zenon DEF CallGood
  <2> QED BY <2>2, <2>3, Zenon
<1> QED BY <1>3, <1>4, <1>5, Zenon DEF SignerInv

LEMMA SignerSteps == ASSUME SignerInv, SignerNext \/ UNCHANGED signerVars PROVE SignerInv'
<1>1. CASE UNCHANGED signerVars
  BY <1>1, Zenon DEF signerVars, SignerInv, SignerType, AccountsGood, CallsGood, AccountOf
<1>2. CASE SignerNext BY <1>2, CallStepKeeps, BlockKeeps, DropKeeps, Zenon DEF SignerNext
<1> QED BY <1>1, <1>2, Zenon

LEMMA SignerInvShows == SignerInv => NonceInStep /\ NonceNotAhead
BY Zenon DEF SignerInv, AccountsGood, AccountGood, NonceInStep, NonceNotAhead

\* Whatever calls run together and however often each retries, an account to which
\* nothing has happened has its next nonce in step with the chain whenever its lock
\* is free (SealObject, RejectUnSealObject and DiscontinueBucket of the signer).
THEOREM NoncesFollowChain == AccessSpec => []NonceInStep
<1>1. AccessInit => SignerInv BY InitSigner, Zenon DEF AccessInit
<1>2. SignerInv /\ [AccessNext]_<<vars, signerVars>> => SignerInv'
  BY SignerSteps, Zenon DEF AccessNext
<1> QED BY <1>1, <1>2, SignerInvShows, PTL DEF AccessSpec

\* No cached nonce is ahead of a chain that drops nothing from its pool, whatever
\* answers get lost and whichever calls are in progress (the same three methods).
THEOREM NoncesNeverAhead == AccessSpec => []NonceNotAhead
<1>1. AccessInit => SignerInv BY InitSigner, Zenon DEF AccessInit
<1>2. SignerInv /\ [AccessNext]_<<vars, signerVars>> => SignerInv'
  BY SignerSteps, Zenon DEF AccessNext
<1> QED BY <1>1, <1>2, SignerInvShows, PTL DEF AccessSpec

----------------------------------------------------------------------------
(* The approver.  A task that was signed expires ApprovalTimeoutHeight     *)
(* after a height known when it was made, so not before its age retires it *)
(* from the queue.                                                         *)

RqFields == {"kind", "op", "what", "name", "pc", "phase", "step", "seen",
             "nonce", "cur", "key", "exp", "till", "t0"}
AskPcs == {"rpc", "has", "pop", "back", "count", "height", "sign", "push", "answered"}

RqOK(r) ==
  /\ r = [x \in RqFields |-> r[x]]
  /\ r.kind = "approve" => r.what \in Whats
  /\ r.pc \in AskPcs \cup {"reserve"} => r.kind = "approve"

TaskOK(t) ==
  /\ t = [x \in {"made", "exp", "sig", "blind"} |-> t[x]]
  /\ t.made \in Nat /\ t.exp \in Nat /\ t.blind \in BOOLEAN

Fresh(t) == t.exp > 0 /\ (~ t.blind => t.made + ApprovalTimeoutHeight <= t.exp + Lag)

SignedTask(t) == TaskOK(t) /\ Fresh(t) /\ t.sig = t.exp

\* The ask b of a request at pc, at the time clock.
AskOK(pc, b, clock) ==
  /\ b = [x \in {"task", "shadow", "at"} |-> b[x]]
  /\ TaskOK(b.task) /\ b.task.made <= clock /\ b.at \in Nat
  /\ pc \in {"sign", "push", "back", "answered"} =>
       b.task.exp > 0 /\ (~ b.task.blind => b.at < b.task.exp)
  /\ pc \in {"sign", "push"} => Fresh(b.task)
  /\ pc \in {"push", "back", "answered"} => b.task.sig = b.task.exp
  /\ pc = "back" => SignedTask(b.shadow)

RqGood == rq = [i \in Requests |-> rq[i]] /\ \A i \in Requests : RqOK(rq[i])

QueueGood ==
  /\ queue = [w \in Whats |-> queue[w]]
  /\ \A w \in Whats : \A k \in DOMAIN queue[w] : SignedTask(queue[w][k])

AsksGood ==
  /\ ask = [i \in Requests |-> ask[i]]
  /\ \A i \in Requests : AskOK(rq[i].pc, ask[i], now)

ClockGood == now \in Nat /\ height \in Nat /\ (height # 0 => now <= height + Lag)

ApproverInv == RqGood /\ QueueGood /\ AsksGood /\ ClockGood

LEMMA Timing ==
  /\ ApprovalTimeoutHeight \in Nat /\ ApprovalExpiredTimeout \in Nat /\ Lag \in Nat
  /\ StartTime \in Nat /\ ApprovalExpiredTimeout + Lag < ApprovalTimeoutHeight
BY ApproverAssumption, Zenon

LEMMA NoAskOK == ASSUME NEW pc, pc \notin AskPcs, NEW clock \in Nat PROVE AskOK(pc, NoAsk, clock)
<1>1. TaskOK(NoTask) /\ NoTask.made = 0 BY Zenon DEF NoTask, TaskOK
<1>2. /\ NoAsk = [x \in {"task", "shadow", "at"} |-> NoAsk[x]]
      /\ NoAsk.task = NoTask /\ NoAsk.at = 0
  BY Zenon DEF NoAsk
<1>3. pc \notin {"sign", "push", "back", "answered"} BY Zenon DEF AskPcs
<1> QED BY <1>1, <1>2, <1>3 DEF AskOK

LEMMA InitApprover == ASSUME Init PROVE ApproverInv
<1>1. PICK load \in Loads : rq = [i \in Requests |-> Idle(load, i)] BY Zenon DEF Init, AuthInit
<1>2. RqGood
  <2>1. ASSUME NEW i \in Requests PROVE RqOK(rq[i])
    <3>1. rq[i] = Idle(load, i) BY <1>1, Zenon
    <3>2. /\ rq[i] = [x \in RqFields |-> rq[i][x]] /\ rq[i].pc = "idle"
          /\ rq[i].kind = load[i].kind /\ rq[i].what = load[i].what
      <4> DEFINE f == Idle(load, i)
      <4>1. f = [x \in RqFields |-> f[x]] BY Zenon DEF Idle, RqFields
      <4>2. f.pc = "idle" /\ f.kind = load[i].kind /\ f.what = load[i].what BY Zenon DEF Idle
      <4> HIDE DEF f
      <4>3. rq[i] = f BY <3>1, Zenon DEF f
      <4> QED BY <4>1, <4>2, <4>3, Zenon
    <3> QED BY <3>2, LoadsAssumption, Zenon DEF RqOK, AskPcs
  <2>2. rq = [i \in Requests |-> rq[i]] BY <1>1, Zenon
  <2> QED BY <2>1, <2>2, Zenon DEF RqGood
<1>3. QueueGood
  <2>1. queue = [w \in Whats |-> << >>] BY Zenon DEF Init, ApproverInit
  <2>2. DOMAIN << >> = {} OBVIOUS
  <2> QED BY <2>1, <2>2, Zenon DEF QueueGood
<1>4. now = StartTime /\ height = 0 BY Zenon DEF Init, AuthInit, ApproverInit
<1>5. AsksGood
  <2>1. ask = [i \in Requests |-> NoAsk] BY Zenon DEF Init, ApproverInit
  <2>2. \A i \in Requests : rq[i].pc \notin AskPcs BY <1>1, Zenon DEF Idle, AskPcs
  <2> QED BY <2>1, <2>2, <1>4, Timing, NoAskOK, Zenon DEF AsksGood
<1>6. ClockGood BY <1>4, Timing, Zenon DEF ClockGood
<1> QED BY <1>2, <1>3, <1>5, <1>6, Zenon DEF ApproverInv

\* A request takes a step: its record becomes r, its ask b.
LEMMA OneRequest ==
  ASSUME ApproverInv, NEW i \in Requests, NEW r, NEW b,
         rq' = [rq EXCEPT ![i] = r], RqOK(r),
         ask' = [ask EXCEPT ![i] = b], AskOK(r.pc, b, now), now' = now
  PROVE  RqGood' /\ AsksGood'
<1>1. rq' = [j \in Requests |-> IF j = i THEN r ELSE rq[j]] BY Zenon DEF ApproverInv, RqGood
<1>2. ask' = [j \in Requests |-> IF j = i THEN b ELSE ask[j]] BY Zenon DEF ApproverInv, AsksGood
<1>3. RqGood' BY <1>1, Zenon DEF ApproverInv, RqGood
<1>4. AsksGood' BY <1>1, <1>2, Zenon DEF ApproverInv, AsksGood
<1> QED BY <1>3, <1>4, Zenon

\* A verification, a registration or a signature changes the record of its request,
\* and leaves it outside the approver.
LEMMA AuthChanges ==
  ASSUME RqGood, NEW i \in Requests, AuthStep(i)
  PROVE  /\ \E r : rq' = [rq EXCEPT ![i] = r] /\ RqOK(r) /\ r.pc \notin AskPcs
         /\ now' = now
<1>q. /\ rq = [j \in Requests |-> rq[j]] /\ rq[i] = [x \in RqFields |-> rq[i][x]]
      /\ rq[i].kind = "approve" => rq[i].what \in Whats
  BY Zenon DEF RqGood, RqOK
<1>r. ASSUME NEW f, rq' = [rq EXCEPT ![i] = f], f = [x \in RqFields |-> f[x]],
             f.kind = rq[i].kind, f.what = rq[i].what, f.pc \notin AskPcs,
             f.pc = "reserve" => f.kind = "approve"
      PROVE  \E r : rq' = [rq EXCEPT ![i] = r] /\ RqOK(r) /\ r.pc \notin AskPcs
  BY <1>r, <1>q, Zenon DEF RqOK
<1>p. ASSUME NEW pc, pc \notin AskPcs \cup {"reserve"}, rq' = [rq EXCEPT ![i].pc = pc]
      PROVE  \E r : rq' = [rq EXCEPT ![i] = r] /\ RqOK(r) /\ r.pc \notin AskPcs
  <2> DEFINE f == [rq[i] EXCEPT !.pc = pc]
  <2>1. rq' = [rq EXCEPT ![i] = f] BY <1>p, <1>q, Zenon
  <2>2. f = [x \in RqFields |-> f[x]] /\ f.kind = rq[i].kind /\ f.what = rq[i].what /\ f.pc = pc
    BY <1>q, Zenon DEF RqFields
  <2> HIDE DEF f
  <2> QED BY <2>1, <2>2, <1>p, <1>r, Zenon
<1>1. CASE Arrive(i)
  <2> DEFINE f == [rq[i] EXCEPT !.pc = "query", !.step = 1]
  <2>1. rq' = [rq EXCEPT ![i] = f] BY <1>1, <1>q, Zenon DEF Arrive
  <2>2. f = [x \in RqFields |-> f[x]] /\ f.kind = rq[i].kind /\ f.what = rq[i].what /\ f.pc = "query"
    BY <1>q, Zenon DEF RqFields
  <2>3. "query" \notin AskPcs BY Zenon DEF AskPcs
  <2>4. now' = now BY <1>1, Zenon DEF Arrive
  <2> HIDE DEF f
  <2> QED BY <2>1, <2>2, <2>3, <2>4, <1>r, Zenon
<1>2. CASE \E err \in BOOLEAN : Query(i, err)
  <2>1. PICK err \in BOOLEAN : Query(i, err) BY <1>2, Zenon
  <2>2. \E pc, step, seen :
          /\ rq' = [rq EXCEPT ![i].pc = pc, ![i].step = step, ![i].seen = seen]
          /\ pc \in {"refused", "query", Verified(i)}
    BY <2>1, Zenon DEF Query
  <2>3. PICK pc, step, seen :
          /\ rq' = [rq EXCEPT ![i].pc = pc, ![i].step = step, ![i].seen = seen]
          /\ pc \in {"refused", "query", Verified(i)}
    BY <2>2, Zenon
  <2> DEFINE f == [rq[i] EXCEPT !.pc = pc, !.step = step, !.seen = seen]
  <2>4. rq' = [rq EXCEPT ![i] = f] BY <2>3, <1>q, Zenon
  <2>5. f = [x \in RqFields |-> f[x]] /\ f.kind = rq[i].kind /\ f.what = rq[i].what /\ f.pc = pc
    BY <1>q, Zenon DEF RqFields
  <2>6. pc \notin AskPcs /\ (pc = "reserve" => rq[i].kind = "approve")
    BY <2>3, Zenon DEF AskPcs, Verified
  <2>7. now' = now BY <2>1, Zenon DEF Query
  <2> HIDE DEF f
  <2> QED BY <2>4, <2>5, <2>6, <2>7, <1>r, Zenon
<1>g. ASSUME NEW w, Got(i, w)
      PROVE  \E r : rq' = [rq EXCEPT ![i] = r] /\ RqOK(r) /\ r.pc \notin AskPcs
  <2>1. CASE rq[i].phase = "nonce"
    <3> DEFINE f == [rq[i] EXCEPT !.pc = "submit", !.nonce = w.next]
    <3>1. rq' = [rq EXCEPT ![i] = f] BY <2>1, <1>g, <1>q, Zenon DEF Got
    <3>2. f = [x \in RqFields |-> f[x]] /\ f.kind = rq[i].kind /\ f.what = rq[i].what /\ f.pc = "submit"
      BY <1>q, Zenon DEF RqFields
    <3>3. "submit" \notin AskPcs BY Zenon DEF AskPcs
    <3> HIDE DEF f
    <3> QED BY <3>1, <3>2, <3>3, <1>r, Zenon
  <2>2. CASE rq[i].phase = "update"
    <3> DEFINE pc == IF w.next = rq[i].nonce THEN "age" ELSE "refused"
               f == [rq[i] EXCEPT !.pc = pc, !.cur = w.nonce]
    <3>1. rq' = [rq EXCEPT ![i] = f] BY <2>2, <1>g, <1>q, Zenon DEF Got
    <3>2. pc \notin AskPcs \cup {"reserve"} BY Zenon DEF AskPcs
    <3> HIDE DEF pc
    <3>3. f = [x \in RqFields |-> f[x]] /\ f.kind = rq[i].kind /\ f.what = rq[i].what /\ f.pc = pc
      BY <1>q, Zenon DEF RqFields
    <3> HIDE DEF f
    <3> QED BY <3>1, <3>2, <3>3, <1>r, Zenon
  <2>3. CASE rq[i].phase \notin {"nonce", "update"}
    <3> DEFINE f == [rq[i] EXCEPT !.pc = "expiry", !.cur = w.key, !.till = w.exp]
    <3>1. rq' = [rq EXCEPT ![i] = f] BY <2>3, <1>g, <1>q, Zenon DEF Got
    <3>2. f = [x \in RqFields |-> f[x]] /\ f.kind = rq[i].kind /\ f.what = rq[i].what /\ f.pc = "expiry"
      BY <1>q, Zenon DEF RqFields
    <3>3. "expiry" \notin AskPcs BY Zenon DEF AskPcs
    <3> HIDE DEF f
    <3> QED BY <3>1, <3>2, <3>3, <1>r, Zenon
  <2> QED BY <2>1, <2>2, <2>3, Zenon
<1>3. CASE GetAuthKey(i)
  <2>1. "insert" \notin AskPcs \cup {"reserve"} BY Zenon DEF AskPcs
  <2>2. now' = now BY <1>3, Zenon DEF GetAuthKey
  <2> QED BY <1>3, <2>1, <2>2, <1>g, <1>p, Zenon DEF GetAuthKey
<1>4. CASE InsertAuthKey(i)
  <2>1. "refused" \notin AskPcs \cup {"reserve"} BY Zenon DEF AskPcs
  <2>2. now' = now BY <1>4, Zenon DEF InsertAuthKey
  <2>3. (\E w : Got(i, w)) \/ Refuse(i) BY <1>4, Zenon DEF InsertAuthKey
  <2> QED BY <2>1, <2>2, <2>3, <1>g, <1>p, Zenon DEF Refuse
<1>5. CASE RequestNonce(i)
  <2> DEFINE f == [rq[i] EXCEPT !.pc = "get", !.phase = "nonce"]
  <2>1. rq' = [rq EXCEPT ![i] = f] BY <1>5, <1>q, Zenon DEF RequestNonce
  <2>2. f = [x \in RqFields |-> f[x]] /\ f.kind = rq[i].kind /\ f.what = rq[i].what /\ f.pc = "get"
    BY <1>q, Zenon DEF RqFields
  <2>3. "get" \notin AskPcs BY Zenon DEF AskPcs
  <2>4. now' = now BY <1>5, Zenon DEF RequestNonce
  <2> HIDE DEF f
  <2> QED BY <2>1, <2>2, <2>3, <2>4, <1>r, Zenon
<1>6. CASE UpdateUserPublicKey(i)
  <2>1. PICK e, till : rq' = [rq EXCEPT ![i].pc = "get", ![i].phase = "update", ![i].exp = e,
                                       ![i].till = till]
    BY <1>6, Zenon DEF UpdateUserPublicKey
  <2> DEFINE f == [rq[i] EXCEPT !.pc = "get", !.phase = "update", !.exp = e, !.till = till]
  <2>2. rq' = [rq EXCEPT ![i] = f] BY <2>1, <1>q, Zenon
  <2>3. f = [x \in RqFields |-> f[x]] /\ f.kind = rq[i].kind /\ f.what = rq[i].what /\ f.pc = "get"
    BY <1>q, Zenon DEF RqFields
  <2>4. "get" \notin AskPcs BY Zenon DEF AskPcs
  <2>5. now' = now BY <1>6, Zenon DEF UpdateUserPublicKey
  <2> HIDE DEF f
  <2> QED BY <2>2, <2>3, <2>4, <2>5, <1>r, Zenon
<1>7. CASE CheckExpiryAge(i)
  <2>1. (\E pc \in {"find", "refused"} : rq' = [rq EXCEPT ![i].pc = pc]) /\ now' = now
    BY <1>7, Zenon DEF CheckExpiryAge
  <2> QED BY <2>1, <1>p, Zenon DEF AskPcs
<1>8. CASE FindAuthKey(i)
  <2>1. (\E pc \in {"write", "refused"} : rq' = [rq EXCEPT ![i].pc = pc]) /\ now' = now
    BY <1>8, Zenon DEF FindAuthKey
  <2> QED BY <2>1, <1>p, Zenon DEF AskPcs
<1>9. CASE UpdateAuthKey(i)
  <2>1. rq' = [rq EXCEPT ![i].pc = "registered"] /\ now' = now BY <1>9, Zenon DEF UpdateAuthKey
  <2> QED BY <2>1, <1>p, Zenon DEF AskPcs
<1>10. CASE ArriveSigned(i)
  <2>1. PICK k \in {j \in Requests : rq[j].kind = "register"}, m \in now..(now + SigExpiryAge + 1) :
          rq' = [rq EXCEPT ![i].pc = "get", ![i].phase = "signature", ![i].key = k,
                           ![i].exp = m, ![i].t0 = now]
    BY <1>10, Zenon DEF ArriveSigned
  <2> DEFINE f == [rq[i] EXCEPT !.pc = "get", !.phase = "signature", !.key = k, !.exp = m, !.t0 = now]
  <2>2. rq' = [rq EXCEPT ![i] = f] BY <2>1, <1>q, Zenon
  <2>3. f = [x \in RqFields |-> f[x]] /\ f.kind = rq[i].kind /\ f.what = rq[i].what /\ f.pc = "get"
    BY <1>q, Zenon DEF RqFields
  <2>4. "get" \notin AskPcs BY Zenon DEF AskPcs
  <2>5. now' = now BY <1>10, Zenon DEF ArriveSigned
  <2> HIDE DEF f
  <2> QED BY <2>2, <2>3, <2>4, <2>5, <1>r, Zenon
<1>11. CASE CheckKeyExpiry(i)
  <2>1. (\E pc \in {"message", "refused"} : rq' = [rq EXCEPT ![i].pc = pc]) /\ now' = now
    BY <1>11, Zenon DEF CheckKeyExpiry
  <2> QED BY <2>1, <1>p, Zenon DEF AskPcs
<1>12. CASE VerifyOffChainSignature(i)
  <2>1. (\E pc \in {"accepted", "refused"} : rq' = [rq EXCEPT ![i].pc = pc]) /\ now' = now
    BY <1>12, Zenon DEF VerifyOffChainSignature
  <2> QED BY <2>1, <1>p, Zenon DEF AskPcs
<1>13. CASE AuthFails(i)
  <2>1. rq' = [rq EXCEPT ![i].pc = "refused"] /\ now' = now BY <1>13, Zenon DEF AuthFails, Refuse
  <2> QED BY <2>1, <1>p, Zenon DEF AskPcs
<1> QED BY <1>1, <1>2, <1>3, <1>4, <1>5, <1>6, <1>7, <1>8, <1>9, <1>10, <1>11, <1>12, <1>13, Zenon
        DEF AuthStep

LEMMA AuthKeeps ==
  ASSUME ApproverInv, NEW i \in Requests, AuthStep(i), UNCHANGED approverVars
  PROVE  ApproverInv'
<1>1. now' = now /\ ask' = ask /\ queue' = queue /\ height' = height
  BY AuthChanges, Zenon DEF ApproverInv, approverVars
<1>2. PICK r : rq' = [rq EXCEPT ![i] = r] /\ RqOK(r) /\ r.pc \notin AskPcs
  BY AuthChanges, Zenon DEF ApproverInv
<1>3. ask' = [ask EXCEPT ![i] = ask[i]] BY <1>1, Zenon DEF ApproverInv, AsksGood
<1>4. AskOK(r.pc, ask[i], now) BY <1>2, Zenon DEF ApproverInv, AsksGood, AskOK, AskPcs
<1>5. RqGood' /\ AsksGood' BY <1>1, <1>2, <1>3, <1>4, OneRequest, Zenon
<1>6. QueueGood' /\ ClockGood' BY <1>1, Zenon DEF ApproverInv, QueueGood, ClockGood
<1> QED BY <1>5, <1>6, Zenon DEF ApproverInv

\* An ask goes on to pc with b.
LEMMA AskMoves ==
  ASSUME ApproverInv, NEW i \in Requests, NEW pc, NEW b, Goto(i, pc),
         rq[i].kind = "approve" \/ pc = "refused",
         ask' = [ask EXCEPT ![i] = b], AskOK(pc, b, now), now' = now
  PROVE  RqGood' /\ AsksGood'
<1> DEFINE f == [rq[i] EXCEPT !.pc = pc]
<1>q. /\ rq = [j \in Requests |-> rq[j]] /\ rq[i] = [x \in RqFields |-> rq[i][x]]
      /\ rq[i].kind = "approve" => rq[i].what \in Whats
  BY Zenon DEF ApproverInv, RqGood, RqOK
<1>1. rq' = [rq EXCEPT ![i] = f] BY <1>q, Zenon DEF Goto
<1>2. f = [x \in RqFields |-> f[x]] /\ f.kind = rq[i].kind /\ f.what = rq[i].what /\ f.pc = pc
  BY <1>q, Zenon DEF RqFields
<1> HIDE DEF f
<1>3. RqOK(f) BY <1>2, <1>q, Zenon DEF RqOK, AskPcs
<1> QED BY <1>1, <1>2, <1>3, OneRequest, Zenon

\* The queue of a request gets contents that are signed.
LEMMA QueueSet ==
  ASSUME QueueGood, NEW i \in Requests, NEW q, SetQueue(i, q),
         \A k \in DOMAIN q : SignedTask(q[k])
  PROVE  QueueGood'
<1>1. queue' = [w \in Whats |-> IF w = rq[i].what THEN q ELSE queue[w]]
  BY Zenon DEF SetQueue, QueueGood
<1> QED BY <1>1, Zenon DEF QueueGood

LEMMA PushSigned ==
  ASSUME NEW q, \A k \in DOMAIN q : SignedTask(q[k]), NEW gc, NEW cap, NEW key,
         NEW t, SignedTask(t)
  PROVE  \A k \in DOMAIN AfterPush(q, gc, cap, key, t) : SignedTask(AfterPush(q, gc, cap, key, t)[k])
<1> DEFINE q1 == AfterHas(q, gc, key)
           q2 == IF exceed(q1, cap) THEN Without(q1, Retired(q1, gc)) ELSE q1
<1>1. \A k \in DOMAIN q1 : SignedTask(q1[k]) BY Zenon DEF AfterHas, Without
<1> HIDE DEF q1
<1>2. \A k \in DOMAIN q2 : SignedTask(q2[k]) BY <1>1, Zenon DEF Without
<1> HIDE DEF q2
<1>3. \A k \in DOMAIN With(q2, key, t) : SignedTask(With(q2, key, t)[k]) BY <1>2, Zenon DEF With
<1>4. AfterPush(q, gc, cap, key, t) \in {With(q2, key, t), q1} BY Zenon DEF AfterPush, q1, q2
<1> QED BY <1>1, <1>3, <1>4, Zenon

LEMMA AskStepKeeps == ASSUME ApproverInv, NEW i \in Requests, AskStep(i) PROVE ApproverInv'
<1> DEFINE t == ask[i].task
<1>u. now' = now /\ height' = height BY Zenon DEF AskStep
<1>c. ClockGood' BY <1>u, Zenon DEF ApproverInv, ClockGood
<1>a. /\ ask = [j \in Requests |-> ask[j]]
      /\ ask[i] = [x \in {"task", "shadow", "at"} |-> ask[i][x]]
      /\ TaskOK(t) /\ t.made \in Nat /\ t.made <= now /\ ask[i].at \in Nat /\ now \in Nat
      /\ AskOK(rq[i].pc, ask[i], now)
  BY Zenon DEF ApproverInv, AsksGood, AskOK, TaskOK, ClockGood
<1>s. ask = [ask EXCEPT ![i] = ask[i]] BY <1>a, Zenon
<1>w. ASSUME rq[i].pc \in AskPcs \cup {"reserve"} PROVE rq[i].kind = "approve" /\ rq[i].what \in Whats
  BY <1>w, Zenon DEF ApproverInv, RqGood, RqOK
<1>z. ASSUME NEW w \in Whats PROVE \A k \in DOMAIN queue[w] : SignedTask(queue[w][k])
  BY Zenon DEF ApproverInv, QueueGood
<1>n. ASSUME queue' = queue PROVE QueueGood' BY <1>n, Zenon DEF ApproverInv, QueueGood
<1>e. ASSUME RefuseAsk(i) PROVE RqGood' /\ AsksGood'
  <2>1. AskOK("refused", NoAsk, now) BY <1>a, NoAskOK, Zenon DEF AskPcs
  <2> QED BY <1>e, <1>u, <2>1, AskMoves, Zenon DEF RefuseAsk
<1>m. ASSUME NEW pc \in {"has", "pop", "count", "height"}, Goto(i, pc), ask' = ask,
             rq[i].pc \in AskPcs
      PROVE  RqGood' /\ AsksGood'
  <2>1. AskOK(pc, ask[i], now) BY <1>a, Zenon DEF AskOK
  <2>2. ask' = [ask EXCEPT ![i] = ask[i]] BY <1>m, <1>s, Zenon
  <2>3. rq[i].kind = "approve" BY <1>m, <1>w, Zenon
  <2> QED BY <1>m, <1>u, <2>1, <2>2, <2>3, AskMoves, Zenon
<1>h. ASSUME AnswerAsk(i), rq[i].pc \in {"push", "back"} PROVE RqGood' /\ AsksGood'
  <2> DEFINE b == [ask[i] EXCEPT !.shadow = NoTask]
  <2>1. ask' = [ask EXCEPT ![i] = b] /\ Goto(i, "answered") BY <1>h, <1>a, Zenon DEF AnswerAsk
  <2>2. b = [x \in {"task", "shadow", "at"} |-> b[x]] /\ b.task = t /\ b.at = ask[i].at BY <1>a, Zenon
  <2> HIDE DEF b
  <2>3. AskOK("answered", b, now) BY <1>h, <1>a, <2>2, Zenon DEF AskOK
  <2>4. rq[i].kind = "approve" BY <1>h, <1>w, Zenon DEF AskPcs
  <2> QED BY <1>u, <2>1, <2>3, <2>4, AskMoves, Zenon
<1>1. CASE InitApprovalTask(i)
  <2> DEFINE u == [t EXCEPT !.made = now]
             b == [ask[i] EXCEPT !.task = u]
  <2>1. ask' = [ask EXCEPT ![i] = b] BY <1>1, <1>a, Zenon DEF InitApprovalTask
  <2>2. TaskOK(u) /\ u.made = now BY <1>a, Zenon DEF TaskOK
  <2> HIDE DEF u
  <2>3. b = [x \in {"task", "shadow", "at"} |-> b[x]] /\ b.task = u /\ b.at = ask[i].at BY <1>a, Zenon
  <2> HIDE DEF b
  <2>4. AskOK("rpc", b, now) BY <1>a, <2>2, <2>3 DEF AskOK
  <2>5. rq[i].kind = "approve" BY <1>1, <1>w, Zenon DEF InitApprovalTask
  <2>6. Goto(i, "rpc") /\ queue' = queue BY <1>1, Zenon DEF InitApprovalTask
  <2>7. RqGood' /\ AsksGood' BY <1>u, <2>1, <2>4, <2>5, <2>6, AskMoves, Zenon
  <2> QED BY <2>6, <2>7, <1>n, <1>c, Zenon DEF ApproverInv
<1>2. CASE GfSpAskApproval(i)
  <2>1. rq[i].pc \in AskPcs BY <1>2, Zenon DEF GfSpAskApproval, AskPcs
  <2>2. queue' = queue /\ ((Goto(i, "has") /\ ask' = ask) \/ RefuseAsk(i)) BY <1>2, Zenon DEF GfSpAskApproval
  <2>3. RqGood' /\ AsksGood' BY <2>1, <2>2, <1>m, <1>e, Zenon
  <2> QED BY <2>2, <2>3, <1>n, <1>c, Zenon DEF ApproverInv
<1>3. CASE Has(i)
  <2>1. rq[i].pc \in AskPcs BY <1>3, Zenon DEF Has, AskPcs
  <2> DEFINE q == AfterHas(Queue(i), GCApprovalQueue(rq[i].what), Key(i))
  <2>2. /\ SetQueue(i, q) /\ ask' = ask
        /\ \E pc \in {"pop", "count", "height"} : Goto(i, pc)
    BY <1>3, Zenon DEF Has
  <2>3. \A k \in DOMAIN q : SignedTask(q[k]) BY <2>1, <1>w, <1>z, Zenon DEF AfterHas, Without, Queue
  <2> HIDE DEF q
  <2>4. QueueGood' BY <2>2, <2>3, QueueSet, Zenon DEF ApproverInv
  <2>5. RqGood' /\ AsksGood' BY <2>1, <2>2, <1>m, Zenon
  <2> QED BY <2>4, <2>5, <1>c, Zenon DEF ApproverInv
<1>4. CASE PopByKey(i)
  <2> DEFINE gc == GCApprovalQueue(rq[i].what)
             shadow == Queue(i)[Key(i)]
             u == [shadow EXCEPT !.made = t.made]
             b == [ask[i] EXCEPT !.shadow = shadow, !.at = now, !.task = u]
             q == AfterPopByKey(Queue(i), gc, Key(i))
  <2>1. rq[i].pc \in AskPcs BY <1>4, Zenon DEF PopByKey, AskPcs
  <2>2. rq[i].kind = "approve" /\ rq[i].what \in Whats BY <2>1, <1>w, Zenon
  <2>3. Key(i) \in DOMAIN Queue(i) /\ Key(i) \notin gc BY <1>4, Zenon DEF PopByKey, has
  <2>4. SignedTask(shadow) BY <2>2, <2>3, <1>z, Zenon DEF Queue
  <2>5. ~ (shadow.made + ApprovalExpiredTimeout < now) BY <2>3, Zenon DEF GCApprovalQueue, Queue
  <2>6. /\ SetQueue(i, q) /\ Goto(i, "back")
        /\ ask' = [ask EXCEPT ![i].shadow = shadow, ![i].at = now, ![i].task = u]
    BY <1>4, Zenon DEF PopByKey
  <2>7. ask' = [ask EXCEPT ![i] = b] BY <2>6, <1>a, Zenon
  <2>8. \A k \in DOMAIN q : SignedTask(q[k]) BY <2>2, <1>z, Zenon DEF AfterPopByKey, Without, Queue
  <2> HIDE DEF q, gc, shadow
  <2>9. QueueGood' BY <2>6, <2>8, QueueSet, Zenon DEF ApproverInv
  <2>10. TaskOK(u) /\ u.made = t.made /\ u.exp = shadow.exp /\ u.sig = shadow.sig /\ u.blind = shadow.blind
    BY <2>4, <1>a, Zenon DEF SignedTask, TaskOK
  <2> HIDE DEF u
  <2>11. /\ b = [x \in {"task", "shadow", "at"} |-> b[x]]
         /\ b.task = u /\ b.at = now /\ b.shadow = shadow
    BY <1>a, Zenon
  <2> HIDE DEF b
  <2>12. shadow.exp > 0 /\ (~ shadow.blind => now < shadow.exp)
    BY <2>4, <2>5, <1>a, Timing DEF SignedTask, TaskOK, Fresh
  <2>13. shadow.sig = shadow.exp BY <2>4, Zenon DEF SignedTask
  <2>14. AskOK("back", b, now) BY <2>4, <2>10, <2>11, <2>12, <2>13, <1>a, Zenon DEF AskOK
  <2>15. RqGood' /\ AsksGood' BY <2>2, <2>6, <2>7, <2>14, <1>u, AskMoves, Zenon
  <2> QED BY <2>9, <2>15, <1>c, Zenon DEF ApproverInv
<1>5. CASE PushBack(i)
  <2>1. rq[i].pc \in AskPcs /\ rq[i].pc = "back" BY <1>5, Zenon DEF PushBack, AskPcs
  <2>2. rq[i].what \in Whats BY <2>1, <1>w, Zenon
  <2>3. SignedTask(ask[i].shadow) BY <2>1, <1>a, Zenon DEF AskOK
  <2>4. \A k \in DOMAIN Queue(i) : SignedTask(Queue(i)[k]) BY <2>2, <1>z, Zenon DEF Queue
  <2> DEFINE q == AfterPush(Queue(i), GCApprovalQueue(rq[i].what), Cap, Key(i), ask[i].shadow)
  <2>5. SetQueue(i, q) /\ AnswerAsk(i) BY <1>5, Zenon DEF PushBack
  <2>6. \A k \in DOMAIN q : SignedTask(q[k]) BY <2>3, <2>4, PushSigned, Zenon
  <2> HIDE DEF q
  <2>7. QueueGood' BY <2>5, <2>6, QueueSet, Zenon DEF ApproverInv
  <2>8. RqGood' /\ AsksGood' BY <2>1, <2>5, <1>h, Zenon
  <2> QED BY <2>7, <2>8, <1>c, Zenon DEF ApproverInv
<1>6. CASE GetUserBucketsCount(i)
  <2>1. rq[i].pc \in AskPcs BY <1>6, Zenon DEF GetUserBucketsCount, AskPcs
  <2>2. queue' = queue /\ ((Goto(i, "height") /\ ask' = ask) \/ RefuseAsk(i))
    BY <1>6, Zenon DEF GetUserBucketsCount
  <2>3. RqGood' /\ AsksGood' BY <2>1, <2>2, <1>m, <1>e, Zenon
  <2> QED BY <2>2, <2>3, <1>n, <1>c, Zenon DEF ApproverInv
<1>7. CASE SetExpiredHeight(i)
  <2> DEFINE exp == height + ApprovalTimeoutHeight
             blind == height = 0
             u == [t EXCEPT !.exp = exp, !.blind = blind]
             b == [ask[i] EXCEPT !.task = u, !.at = now]
  <2>1. ask' = [ask EXCEPT ![i] = b] BY <1>7, <1>a, Zenon DEF SetExpiredHeight
  <2>2. rq[i].kind = "approve" BY <1>7, <1>w, Zenon DEF SetExpiredHeight, AskPcs
  <2>3. Goto(i, "sign") /\ queue' = queue BY <1>7, Zenon DEF SetExpiredHeight
  <2>4. /\ exp \in Nat /\ exp > 0 /\ blind \in BOOLEAN
        /\ ~ blind => now < exp /\ t.made + ApprovalTimeoutHeight <= exp + Lag
    BY <1>a, Timing DEF ApproverInv, ClockGood
  <2> HIDE DEF exp, blind
  <2>5. TaskOK(u) /\ u.made = t.made /\ u.exp = exp /\ u.blind = blind BY <2>4, <1>a, Zenon DEF TaskOK
  <2> HIDE DEF u
  <2>6. b = [x \in {"task", "shadow", "at"} |-> b[x]] /\ b.task = u /\ b.at = now BY <1>a, Zenon
  <2> HIDE DEF b
  <2>7. AskOK("sign", b, now) BY <2>4, <2>5, <2>6, <1>a, Zenon DEF AskOK, Fresh
  <2>8. RqGood' /\ AsksGood' BY <2>1, <2>2, <2>3, <2>7, <1>u, AskMoves, Zenon
  <2> QED BY <2>3, <2>8, <1>n, <1>c, Zenon DEF ApproverInv
<1>8. CASE SignApproval(i)
  <2>1. rq[i].pc = "sign" /\ rq[i].pc \in AskPcs /\ queue' = queue BY <1>8, Zenon DEF SignApproval, AskPcs
  <2>2. CASE RefuseAsk(i) BY <2>1, <2>2, <1>e, <1>n, <1>c, Zenon DEF ApproverInv
  <2>3. CASE Goto(i, "push") /\ ask' = [ask EXCEPT ![i].task.sig = ask[i].task.exp]
    <3> DEFINE u == [t EXCEPT !.sig = t.exp]
               b == [ask[i] EXCEPT !.task = u]
    <3>1. ask' = [ask EXCEPT ![i] = b] BY <2>3, <1>a, Zenon
    <3>2. TaskOK(u) /\ u.made = t.made /\ u.exp = t.exp /\ u.blind = t.blind /\ u.sig = t.exp
      BY <1>a, Zenon DEF TaskOK
    <3> HIDE DEF u
    <3>3. b = [x \in {"task", "shadow", "at"} |-> b[x]] /\ b.task = u /\ b.at = ask[i].at BY <1>a, Zenon
    <3> HIDE DEF b
    <3>4. AskOK("push", b, now) BY <2>1, <3>2, <3>3, <1>a, Zenon DEF AskOK, Fresh
    <3>5. rq[i].kind = "approve" BY <2>1, <1>w, Zenon
    <3>6. RqGood' /\ AsksGood' BY <2>3, <3>1, <3>4, <3>5, <1>u, AskMoves, Zenon
    <3> QED BY <2>1, <3>6, <1>n, <1>c, Zenon DEF ApproverInv
  <2> QED BY <1>8, <2>2, <2>3, Zenon DEF SignApproval
<1>9. CASE Push(i)
  <2>1. rq[i].pc \in AskPcs /\ rq[i].pc = "push" BY <1>9, Zenon DEF Push, AskPcs
  <2>2. rq[i].what \in Whats BY <2>1, <1>w, Zenon
  <2>3. SignedTask(ask[i].task) BY <2>1, <1>a, Zenon DEF AskOK, SignedTask
  <2>4. \A k \in DOMAIN Queue(i) : SignedTask(Queue(i)[k]) BY <2>2, <1>z, Zenon DEF Queue
  <2> DEFINE q == AfterPush(Queue(i), GCApprovalQueue(rq[i].what), Cap, Key(i), ask[i].task)
  <2>5. SetQueue(i, q) /\ AnswerAsk(i) BY <1>9, Zenon DEF Push
  <2>6. \A k \in DOMAIN q : SignedTask(q[k]) BY <2>3, <2>4, PushSigned, Zenon
  <2> HIDE DEF q
  <2>7. QueueGood' BY <2>5, <2>6, QueueSet, Zenon DEF ApproverInv
  <2>8. RqGood' /\ AsksGood' BY <2>1, <2>5, <1>h, Zenon
  <2> QED BY <2>7, <2>8, <1>c, Zenon DEF ApproverInv
<1> QED BY <1>1, <1>2, <1>3, <1>4, <1>5, <1>6, <1>7, <1>8, <1>9, Zenon DEF AskStep

LEMMA PanicKeeps == ASSUME ApproverInv, NEW i \in Requests, Panic(i) PROVE ApproverInv'
<1>1. /\ queue' = [w \in Whats |-> << >>] /\ ask' = ask /\ height' = 0 /\ now' = now
      /\ rq' = [j \in Requests |->
                  IF rq[j].pc \in {"has", "pop", "back", "count", "height", "sign", "push"}
                  THEN [rq[j] EXCEPT !.pc = "refused"] ELSE rq[j]]
  BY Zenon DEF Panic, PopNothing
<1>2. ASSUME NEW j \in Requests
      PROVE  RqOK(rq'[j]) /\ rq'[j].pc \in {rq[j].pc, "refused"}
  <2>1. RqOK(rq[j]) BY Zenon DEF ApproverInv, RqGood
  <2>2. CASE rq'[j] = rq[j] BY <2>1, <2>2, Zenon
  <2>3. CASE rq'[j] = [rq[j] EXCEPT !.pc = "refused"]
    <3>1. rq[j] = [x \in RqFields |-> rq[j][x]] BY <2>1, Zenon DEF RqOK
    <3>2. /\ rq'[j] = [x \in RqFields |-> rq'[j][x]]
          /\ rq'[j].kind = rq[j].kind /\ rq'[j].what = rq[j].what /\ rq'[j].pc = "refused"
      BY <2>3, <3>1, Zenon DEF RqFields
    <3> QED BY <2>1, <3>2, Zenon DEF RqOK, AskPcs
  <2> QED BY <1>1, <2>2, <2>3, Zenon
<1>3. RqGood'
  <2>1. rq' = [j \in Requests |-> rq'[j]] BY <1>1, Zenon
  <2> QED BY <2>1, <1>2, Zenon DEF RqGood
<1>4. AsksGood'
  <2>1. ASSUME NEW j \in Requests PROVE AskOK(rq'[j].pc, ask[j], now)
    BY <1>2, Zenon DEF ApproverInv, AsksGood, AskOK
  <2> QED BY <2>1, <1>1, Zenon DEF ApproverInv, AsksGood
<1>5. QueueGood'
  <2>1. DOMAIN << >> = {} OBVIOUS
  <2> QED BY <1>1, <2>1, Zenon DEF QueueGood
<1>6. ClockGood' BY <1>1, Zenon DEF ApproverInv, ClockGood
<1> QED BY <1>3, <1>4, <1>5, <1>6, Zenon DEF ApproverInv

LEMMA ClockKeeps == ASSUME ApproverInv, EventLoop \/ Tick PROVE ApproverInv'
<1>1. rq' = rq /\ queue' = queue /\ ask' = ask
  BY Zenon DEF EventLoop, Tick, authVars, approverVars
<1>2. ClockGood' /\ now \in Nat /\ now' \in Nat /\ now <= now'
  <2>1. now \in Nat /\ height \in Nat /\ Lag \in Nat BY Timing, Zenon DEF ApproverInv, ClockGood
  <2>2. CASE EventLoop
    <3>1. PICK current \in 0..now : now - current <= Lag /\ height' = current BY <2>2, Zenon DEF EventLoop
    <3>2. now' = now BY <2>2, Zenon DEF EventLoop, authVars
    <3> QED BY <2>1, <3>1, <3>2 DEF ClockGood
  <2>3. CASE Tick
    <3>1. now' = now + 1 /\ height' = height /\ (height = 0 \/ now + 1 - height <= Lag)
      BY <2>3, Zenon DEF Tick, approverVars
    <3> QED BY <2>1, <3>1 DEF ClockGood
  <2> QED BY <2>2, <2>3, Zenon
<1>3. RqGood' /\ QueueGood' BY <1>1, Zenon DEF ApproverInv, RqGood, QueueGood
<1>4. AsksGood'
  <2>1. ASSUME NEW j \in Requests PROVE AskOK(rq[j].pc, ask[j], now')
    <3>1. AskOK(rq[j].pc, ask[j], now) BY Zenon DEF ApproverInv, AsksGood
    <3>2. ask[j].task.made \in Nat /\ ask[j].task.made <= now BY <3>1, Zenon DEF AskOK, TaskOK
    <3>3. ask[j].task.made <= now' BY <1>2, <3>2
    <3> QED BY <3>1, <3>3, Zenon DEF AskOK
  <2> QED BY <2>1, <1>1, Zenon DEF ApproverInv, AsksGood
<1> QED BY <1>2, <1>3, <1>4, Zenon DEF ApproverInv

LEMMA ApproverSteps == ASSUME ApproverInv, Next \/ UNCHANGED vars PROVE ApproverInv'
<1>1. ASSUME rq' = rq, queue' = queue, ask' = ask, height' = height, now' = now
      PROVE  ApproverInv'
  BY <1>1, Zenon DEF ApproverInv, RqGood, QueueGood, AsksGood, ClockGood
<1>2. CASE UNCHANGED vars BY <1>1, <1>2, Zenon DEF vars, authVars, approverVars
<1>3. CASE ChainChanges /\ UNCHANGED approverVars
  BY <1>1, <1>3, Zenon DEF ChainChanges, approverVars
<1>4. CASE EventLoop \/ Tick BY <1>4, ClockKeeps, Zenon
<1>5. CASE \E i \in Requests : (AuthStep(i) /\ UNCHANGED approverVars) \/ AskStep(i) \/ Panic(i)
  BY <1>5, AuthKeeps, AskStepKeeps, PanicKeeps, Zenon
<1> QED BY <1>2, <1>3, <1>4, <1>5, Zenon DEF Next

LEMMA ApproverInvShows == ApproverInv => AnswerNotExpired /\ AnswerSigned
<1> SUFFICES ASSUME ApproverInv PROVE AnswerNotExpired /\ AnswerSigned
  BY Zenon
<1>1. ASSUME NEW i \in Requests, rq[i].pc = "answered"
      PROVE  /\ ~ ask[i].task.blind => ask[i].at < ask[i].task.exp
             /\ ask[i].task.sig = ask[i].task.exp /\ ask[i].task.sig # 0
  <2>1. AskOK("answered", ask[i], now) BY <1>1, Zenon DEF ApproverInv, AsksGood
  <2>2. /\ ask[i].task.exp \in Nat /\ ask[i].task.exp > 0 /\ ask[i].task.sig = ask[i].task.exp
        /\ ~ ask[i].task.blind => ask[i].at < ask[i].task.exp
    BY <2>1, Zenon DEF AskOK, TaskOK
  <2>3. ask[i].task.sig # 0 BY <2>2
  <2> QED BY <2>2, <2>3, Zenon
<1>2. ASSUME NEW w \in Whats, NEW k \in DOMAIN queue[w]
      PROVE  queue[w][k].sig = queue[w][k].exp /\ queue[w][k].sig # 0
  <2>1. SignedTask(queue[w][k]) BY <1>2, Zenon DEF ApproverInv, QueueGood
  <2>2. /\ queue[w][k].exp \in Nat /\ queue[w][k].exp > 0
        /\ queue[w][k].sig = queue[w][k].exp
    BY <2>1, Zenon DEF SignedTask, TaskOK, Fresh
  <2> QED BY <2>2
<1> QED BY <1>1, <1>2, Zenon DEF AnswerNotExpired, AnswerSigned

\* An approval handed out has not expired on the chain when the approver had it,
\* whenever tasks retire from the queue by their age before an approval made out of
\* the oldest height the event loop may hold expires (SetExpiredHeight,
\* GCApprovalQueue).
THEOREM ApprovalsAreLive == AccessSpec => []AnswerNotExpired
<1>1. AccessInit => ApproverInv BY InitApprover, Zenon DEF AccessInit
<1>2. ApproverInv /\ [AccessNext]_<<vars, signerVars>> => ApproverInv'
  BY ApproverSteps, Zenon DEF AccessNext
<1> QED BY <1>1, <1>2, ApproverInvShows, PTL DEF AccessSpec

\* Every approval handed out and every task in a queue carries a signature of its own
\* expired height (SignApproval before Push, whatever other asks do meanwhile).
THEOREM ApprovalsAreSigned == AccessSpec => []AnswerSigned
<1>1. AccessInit => ApproverInv BY InitApprover, Zenon DEF AccessInit
<1>2. ApproverInv /\ [AccessNext]_<<vars, signerVars>> => ApproverInv'
  BY ApproverSteps, Zenon DEF AccessNext
<1> QED BY <1>1, <1>2, ApproverInvShows, PTL DEF AccessSpec

----------------------------------------------------------------------------
(* The authenticator.  What one request knows, given what was current while *)
(* it was in progress (h), the facts of the chain (F), the row (w), the     *)
(* number of its updates (u) and the time (t).                              *)

RegisterPcs == {"idle", "get", "insert", "submit", "age", "find", "write", "registered", "refused"}
SignaturePcs == {"idle", "get", "insert", "expiry", "message", "accepted", "refused"}
VerifyPcs == {"idle", "query", "allowed", "refused"}
ApprovePcs == {"idle", "query", "reserve", "refused"} \cup AskPcs

\* Which requests are where.
KindOK(r) ==
  /\ r = [x \in RqFields |-> r[x]]
  /\ r.op \in DOMAIN AuthOps \cup {"none"}
  /\ r.kind = "register" => r.pc \in RegisterPcs /\ r.phase \in {"none", "nonce", "update"}
  /\ r.kind = "signature" => r.pc \in SignaturePcs
  /\ r.kind = "verify" => r.pc \in VerifyPcs
  /\ r.kind = "approve" => r.pc \in ApprovePcs
  /\ r.kind \notin {"register", "signature", "verify", "approve"} => r.pc = "idle"

\* A verification has seen what its queries so far must have shown, and all that it has
\* seen has been current.
VerifyOK(r, h, F) ==
  /\ r.pc # "query" => r.seen = {}
  /\ r.pc = "query" =>
       /\ r.op \in DOMAIN AuthOps
       /\ r.step \in 1..Len(AuthOps[r.op])
       /\ r.seen \subseteq h /\ F \subseteq h
       /\ r.step = 1 => r.seen = {}
       /\ \A n \in 1..(r.step - 1) : Meets(r.seen, AuthOps[r.op][n][2])
  /\ r.pc \in {"allowed", "reserve"} => Meets(h, {"account"} \cup Requires(r.op))

\* A registration has a nonce that is at most one ahead of the updates.
RegisterOK(r, u) ==
  /\ r.pc \in {"age", "find", "write", "registered"} => r.phase = "update"
  /\ r.kind = "register" /\ r.pc \in {"get", "insert"} => r.phase \in {"nonce", "update"}
  /\ r.pc = "submit" \/ r.phase = "update" => r.nonce \in Nat /\ 0 < r.nonce /\ r.nonce <= u + 1
  /\ r.phase = "update" => r.exp \in Nat
  /\ r.pc \in {"find", "write", "registered"} => r.till = r.exp

\* The row is known to a request that is about to read it, and what the request has read
\* was the row.
SignatureOK(r, h, w, t) ==
  r.kind = "signature" =>
    /\ r.t0 \in Nat /\ r.t0 <= t
    /\ r.pc # "idle" => r.phase = "signature" /\ r.key \in Requests
    /\ r.pc \in {"get", "insert"} /\ w # NULL =>
         w.key = NULL \/ [key |-> w.key, exp |-> w.exp] \in h
    /\ r.pc \in {"expiry", "message"} =>
         r.till \in Nat /\ (r.cur = NULL \/ [key |-> r.cur, exp |-> r.till] \in h)
    /\ r.pc = "message" => r.t0 <= r.till
    /\ r.pc = "accepted" => \E k \in h : k.key = r.key /\ k.exp >= r.t0

RequestOK(r, h, F, w, u, t) ==
  KindOK(r) /\ VerifyOK(r, h, F) /\ RegisterOK(r, u) /\ SignatureOK(r, h, w, t)

RowOK ==
  row # NULL =>
    /\ row.nonce \in Nat /\ row.exp \in Nat
    /\ RowIsOneRegistration

AuthInv ==
  /\ now \in Nat
  /\ held = [i \in Requests |-> held[i]]
  /\ rq = [i \in Requests |-> rq[i]]
  /\ updates \in Nat
  /\ RowOK
  /\ \A i, j \in Requests : rq[i].pc = "query" /\ rq[j].pc = "query" => i = j
  /\ \A i \in Requests : RequestOK(rq[i], held[i], facts, row, updates, now)

LEMMA MeetsMore == ASSUME NEW S, NEW T, NEW must, S \subseteq T, Meets(S, must) PROVE Meets(T, must)
BY Zenon DEF Meets

\* The checks of an operation together require what the operation is about.
LEMMA Covers ==
  ASSUME NEW op \in DOMAIN AuthOps \ {"UnKnown"}, NEW S,
         \A n \in 1..Len(AuthOps[op]) : Meets(S, AuthOps[op][n][2])
  PROVE  Meets(S, {"account"} \cup Requires(op))
<1>0. op \in {"AskCreateBucketApproval", "AskCreateObjectApproval", "PutObject", "GetUploadingState"
      ,
              "GetObject", "GetRecoveryPiece", "GetBucketQuota", "ListBucketReadRecord",
              "GetChallengePieceInfo"}
  BY Zenon DEF AuthOps
<1>1. CASE op = "AskCreateBucketApproval"
  <2> DEFINE q == AskCreateBucketApproval
  <2>1. AuthOps[op] = q BY <1>1, Zenon DEF AuthOps
  <2>2. /\ Len(q) = 2
        /\ q[1][2] = {"account"}
        /\ q[2][2] = {"nobucket"}
    BY Zenon DEF AskCreateBucketApproval, Account
  <2> HIDE DEF q
  <2>3. 1 \in 1..2 /\ 2 \in 1..2
    OBVIOUS
  <2>4. \A n \in 1..2 : Meets(S, q[n][2])
    BY <2>1, <2>2, Zenon
  <2>5. Meets(S, {"account"}) /\ Meets(S, {"nobucket"})
    <3>1. Meets(S, q[1][2]) /\ Meets(S, q[2][2])
      BY <2>3, <2>4, Zenon
    <3> QED BY <2>2, <3>1, Zenon
  <2>6. Requires(op) = {"nobucket"}
    BY <1>1, Zenon DEF Requires
  <2> QED BY <2>5, <2>6, Zenon DEF Meets
<1>2. CASE op = "AskCreateObjectApproval"
  <2> DEFINE q == AskCreateObjectApproval
  <2>1. AuthOps[op] = q BY <1>2, Zenon DEF AuthOps
  <2>2. /\ Len(q) = 3
        /\ q[1][2] = {"account"}
        /\ q[2][2] = {"bucket"}
        /\ q[3][2] = {"noobject"}
    BY Zenon DEF AskCreateObjectApproval, Account
  <2> HIDE DEF q
  <2>3. 1 \in 1..3 /\ 2 \in 1..3 /\ 3 \in 1..3
    OBVIOUS
  <2>4. \A n \in 1..3 : Meets(S, q[n][2])
    BY <2>1, <2>2, Zenon
  <2>5. Meets(S, {"account"}) /\ Meets(S, {"bucket"}) /\ Meets(S, {"noobject"})
    <3>1. Meets(S, q[1][2]) /\ Meets(S, q[2][2]) /\ Meets(S, q[3][2])
      BY <2>3, <2>4, Zenon
    <3> QED BY <2>2, <3>1, Zenon
  <2>6. Requires(op) = {"bucket", "noobject"}
    BY <1>2, Zenon DEF Requires
  <2> QED BY <2>5, <2>6, Zenon DEF Meets
<1>3. CASE op = "PutObject"
  <2> DEFINE q == PutObject
  <2>1. AuthOps[op] = q BY <1>3, Zenon DEF AuthOps
  <2>2. /\ Len(q) = 4
        /\ q[1][2] = {"account"}
        /\ q[2][2] = {"bucket"}
        /\ q[3][2] = {"object", "mine", "created"}
        /\ q[4][2] = {"permitted"}
    BY Zenon DEF PutObject, Account
  <2> HIDE DEF q
  <2>3. 1 \in 1..4 /\ 2 \in 1..4 /\ 3 \in 1..4 /\ 4 \in 1..4
    OBVIOUS
  <2>4. \A n \in 1..4 : Meets(S, q[n][2])
    BY <2>1, <2>2, Zenon
  <2>5. Meets(S, {"account"}) /\ Meets(S, {"object", "mine", "created"}) /\ Meets(S, {"permitted"})
    <3>1. Meets(S, q[1][2]) /\ Meets(S, q[2][2]) /\ Meets(S, q[3][2]) /\ Meets(S, q[4][2])
      BY <2>3, <2>4, Zenon
    <3> QED BY <2>2, <3>1, Zenon
  <2>6. Requires(op) = {"mine", "created", "permitted"}
    BY <1>3, Zenon DEF Requires
  <2> QED BY <2>5, <2>6, Zenon DEF Meets
<1>4. CASE op = "GetUploadingState"
  <2> DEFINE q == GetUploadingState
  <2>1. AuthOps[op] = q BY <1>4, Zenon DEF AuthOps
  <2>2. /\ Len(q) = 4
        /\ q[1][2] = {"account"}
        /\ q[2][2] = {"bucket"}
        /\ q[3][2] = {"object", "mine", "created"}
        /\ q[4][2] = {"permitted"}
    BY Zenon DEF GetUploadingState, Account
  <2> HIDE DEF q
  <2>3. 1 \in 1..4 /\ 2 \in 1..4 /\ 3 \in 1..4 /\ 4 \in 1..4
    OBVIOUS
  <2>4. \A n \in 1..4 : Meets(S, q[n][2])
    BY <2>1, <2>2, Zenon
  <2>5. Meets(S, {"account"}) /\ Meets(S, {"object", "mine", "created"}) /\ Meets(S, {"permitted"})
    <3>1. Meets(S, q[1][2]) /\ Meets(S, q[2][2]) /\ Meets(S, q[3][2]) /\ Meets(S, q[4][2])
      BY <2>3, <2>4, Zenon
    <3> QED BY <2>2, <3>1, Zenon
  <2>6. Requires(op) = {"mine", "created", "permitted"}
    BY <1>4, Zenon DEF Requires
  <2> QED BY <2>5, <2>6, Zenon DEF Meets
<1>5. CASE op = "GetObject"
  <2> DEFINE q == GetObject
  <2>1. AuthOps[op] = q BY <1>5, Zenon DEF AuthOps
  <2>2. /\ Len(q) = 5
        /\ q[1][2] = {"account"}
        /\ q[2][2] = {"bucket"}
        /\ q[3][2] = {"object", "mine", "sealed"}
        /\ q[4][2] = {"paying"}
        /\ q[5][2] = {"permitted"}
    BY Zenon DEF GetObject, Account
  <2> HIDE DEF q
  <2>3. 1 \in 1..5 /\ 2 \in 1..5 /\ 3 \in 1..5 /\ 4 \in 1..5 /\ 5 \in 1..5
    OBVIOUS
  <2>4. \A n \in 1..5 : Meets(S, q[n][2])
    BY <2>1, <2>2, Zenon
  <2>5. Meets(S, {"account"}) /\ Meets(S, {"object", "mine", "sealed"})
        /\ Meets(S, {"paying"}) /\ Meets(S, {"permitted"})
    <3>1. Meets(S, q[1][2]) /\ Meets(S, q[2][2]) /\ Meets(S, q[3][2]) /\ Meets(S, q[4][2])
          /\ Meets(S, q[5][2])
      BY <2>3, <2>4, Zenon
    <3> QED BY <2>2, <3>1, Zenon
  <2>6. Requires(op) = {"mine", "sealed", "paying", "permitted"}
    BY <1>5, Zenon DEF Requires
  <2> QED BY <2>5, <2>6, Zenon DEF Meets
<1>6. CASE op = "GetRecoveryPiece"
  <2> DEFINE q == GetRecoveryPiece
  <2>1. AuthOps[op] = q BY <1>6, Zenon DEF AuthOps
  <2>2. /\ Len(q) = 4
        /\ q[1][2] = {"account"}
        /\ q[2][2] = {"bucket"}
        /\ q[3][2] = {"object", "second", "sealed"}
        /\ q[4][2] = {"permitted"}
    BY Zenon DEF GetRecoveryPiece, Account
  <2> HIDE DEF q
  <2>3. 1 \in 1..4 /\ 2 \in 1..4 /\ 3 \in 1..4 /\ 4 \in 1..4
    OBVIOUS
  <2>4. \A n \in 1..4 : Meets(S, q[n][2])
    BY <2>1, <2>2, Zenon
  <2>5. Meets(S, {"account"}) /\ Meets(S, {"object", "second", "sealed"}) /\ Meets(S, {"permitted"})
    <3>1. Meets(S, q[1][2]) /\ Meets(S, q[2][2]) /\ Meets(S, q[3][2]) /\ Meets(S, q[4][2])
      BY <2>3, <2>4, Zenon
    <3> QED BY <2>2, <3>1, Zenon
  <2>6. Requires(op) = {"second", "sealed", "permitted"}
    BY <1>6, Zenon DEF Requires
  <2> QED BY <2>5, <2>6, Zenon DEF Meets
<1>7. CASE op = "GetBucketQuota"
  <2> DEFINE q == GetBucketQuota
  <2>1. AuthOps[op] = q BY <1>7, Zenon DEF AuthOps
  <2>2. /\ Len(q) = 2
        /\ q[1][2] = {"account"}
        /\ q[2][2] = {"bucket", "mine", "owner"}
    BY Zenon DEF GetBucketQuota, Account
  <2> HIDE DEF q
  <2>3. 1 \in 1..2 /\ 2 \in 1..2
    OBVIOUS
  <2>4. \A n \in 1..2 : Meets(S, q[n][2])
    BY <2>1, <2>2, Zenon
  <2>5. Meets(S, {"account"}) /\ Meets(S, {"bucket", "mine", "owner"})
    <3>1. Meets(S, q[1][2]) /\ Meets(S, q[2][2])
      BY <2>3, <2>4, Zenon
    <3> QED BY <2>2, <3>1, Zenon
  <2>6. Requires(op) = {"mine", "owner"}
    BY <1>7, Zenon DEF Requires
  <2> QED BY <2>5, <2>6, Zenon DEF Meets
<1>8. CASE op = "ListBucketReadRecord"
  <2> DEFINE q == GetBucketQuota
  <2>1. AuthOps[op] = q BY <1>8, Zenon DEF AuthOps
  <2>2. /\ Len(q) = 2
        /\ q[1][2] = {"account"}
        /\ q[2][2] = {"bucket", "mine", "owner"}
    BY Zenon DEF GetBucketQuota, Account
  <2> HIDE DEF q
  <2>3. 1 \in 1..2 /\ 2 \in 1..2
    OBVIOUS
  <2>4. \A n \in 1..2 : Meets(S, q[n][2])
    BY <2>1, <2>2, Zenon
  <2>5. Meets(S, {"account"}) /\ Meets(S, {"bucket", "mine", "owner"})
    <3>1. Meets(S, q[1][2]) /\ Meets(S, q[2][2])
      BY <2>3, <2>4, Zenon
    <3> QED BY <2>2, <3>1, Zenon
  <2>6. Requires(op) = {"mine", "owner"}
    BY <1>8, Zenon DEF Requires
  <2> QED BY <2>5, <2>6, Zenon DEF Meets
<1>9. CASE op = "GetChallengePieceInfo"
  <2> DEFINE q == GetChallengePieceInfo
  <2>1. AuthOps[op] = q BY <1>9, Zenon DEF AuthOps
  <2>2. /\ Len(q) = 4
        /\ q[1][2] = {"account"}
        /\ q[2][2] = {"bonded"}
        /\ q[3][2] = {"bucket"}
        /\ q[4][2] = {"object", "serves"}
    BY Zenon DEF GetChallengePieceInfo, Account
  <2> HIDE DEF q
  <2>3. 1 \in 1..4 /\ 2 \in 1..4 /\ 3 \in 1..4 /\ 4 \in 1..4
    OBVIOUS
  <2>4. \A n \in 1..4 : Meets(S, q[n][2])
    BY <2>1, <2>2, Zenon
  <2>5. Meets(S, {"account"}) /\ Meets(S, {"bonded"}) /\ Meets(S, {"object", "serves"})
    <3>1. Meets(S, q[1][2]) /\ Meets(S, q[2][2]) /\ Meets(S, q[3][2]) /\ Meets(S, q[4][2])
      BY <2>3, <2>4, Zenon
    <3> QED BY <2>2, <3>1, Zenon
  <2>6. Requires(op) = {"bonded", "object", "serves"}
    BY <1>9, Zenon DEF Requires
  <2> QED BY <2>5, <2>6, Zenon DEF Meets
<1> QED BY <1>0, <1>1, <1>2, <1>3, <1>4, <1>5, <1>6, <1>7, <1>8, <1>9, Zenon

LEMMA OpsNonempty == ASSUME NEW op \in DOMAIN AuthOps PROVE Len(AuthOps[op]) \in Nat /\ Len(AuthOps[op]) >= 1
<1>1. op \in {"AskCreateBucketApproval", "AskCreateObjectApproval", "PutObject", "GetUploadingState",
              "GetObject", "GetRecoveryPiece", "GetBucketQuota", "ListBucketReadRecord",
              "GetChallengePieceInfo", "UnKnown"}
  BY Zenon DEF AuthOps
<1>2. CASE op = "AskCreateBucketApproval" BY <1>2 DEF AuthOps, AskCreateBucketApproval
<1>3. CASE op = "AskCreateObjectApproval" BY <1>3 DEF AuthOps, AskCreateObjectApproval
<1>4. CASE op \in {"PutObject", "GetUploadingState"} BY <1>4 DEF AuthOps, PutObject, GetUploadingState
<1>5. CASE op \in {"GetObject", "GetRecoveryPiece"} BY <1>5 DEF AuthOps, GetObject, GetRecoveryPiece
<1>6. CASE op \in {"GetBucketQuota", "ListBucketReadRecord"} BY <1>6 DEF AuthOps, GetBucketQuota
<1>7. CASE op = "GetChallengePieceInfo" BY <1>7 DEF AuthOps, GetChallengePieceInfo
<1>8. CASE op = "UnKnown" BY <1>8 DEF AuthOps
<1> QED BY <1>1, <1>2, <1>3, <1>4, <1>5, <1>6, <1>7, <1>8, Zenon

\* An operation the authenticator does not know is refused after its only query.
LEMMA UnKnownOnce == Len(AuthOps["UnKnown"]) = 1 /\ AuthOps["UnKnown"][1][1] = "HasAccount"
<1>1. AuthOps["UnKnown"] = <<<<"HasAccount", {"account", "supported"}>>>> BY Zenon DEF AuthOps
<1> QED BY <1>1

LEMMA UnKnownRefused ==
  ASSUME NEW F, Meets(F \cap Answer["HasAccount"], AuthOps["UnKnown"][1][2]) PROVE FALSE
<1>1. AuthOps["UnKnown"][1][2] = {"account", "supported"} BY Zenon DEF AuthOps
<1>2. Answer["HasAccount"] = {"account"} BY Zenon DEF Answer, HasAccount
<1> QED BY <1>1, <1>2, Zenon DEF Meets

LEMMA LastOrEarlier == ASSUME NEW k \in Nat, NEW n \in 1..k PROVE n = k \/ n \in 1..(k - 1)
OBVIOUS

\* A request takes a step: its record becomes f.
LEMMA AuthOne ==
  ASSUME AuthInv, NEW i \in Requests, NEW f, rq' = [rq EXCEPT ![i] = f],
         RowOK', updates' \in Nat, now' \in Nat, held' = [j \in Requests |-> held'[j]],
         f.pc = "query" => \A j \in Requests \ {i} : rq[j].pc # "query",
         RequestOK(f, held'[i], facts', row', updates', now'),
         \A j \in Requests \ {i} : RequestOK(rq[j], held'[j], facts', row', updates', now')
  PROVE  AuthInv'
<1>1. rq' = [j \in Requests |-> IF j = i THEN f ELSE rq[j]] BY Zenon DEF AuthInv
<1>2. \A j, k \in Requests : rq'[j].pc = "query" /\ rq'[k].pc = "query" => j = k
  BY <1>1, Zenon DEF AuthInv
<1>3. \A j \in Requests : RequestOK(rq'[j], held'[j], facts', row', updates', now')
  BY <1>1, Zenon
<1> QED BY <1>1, <1>2, <1>3, Zenon DEF AuthInv

LEMMA RowKept ==
  ASSUME AuthInv, NEW i \in Requests, rq[i].pc # "registered", NEW f,
         rq' = [rq EXCEPT ![i] = f], row' = row, updates' = updates
  PROVE  RowOK'
<1>1. rq' = [j \in Requests |-> IF j = i THEN f ELSE rq[j]] BY Zenon DEF AuthInv
<1>2. \A j \in Requests : rq[j].pc = "registered" => rq'[j] = rq[j] BY <1>1, Zenon
<1> QED BY <1>2, Zenon DEF AuthInv, RowOK, RowIsOneRegistration

\* A step that leaves the key table.
LEMMA AuthMove ==
  ASSUME AuthInv, NEW i \in Requests, rq[i].pc # "registered", NEW f,
         rq' = [rq EXCEPT ![i] = f], NEW h, held' = [held EXCEPT ![i] = h],
         row' = row, updates' = updates, now' = now,
         f.pc = "query" => \A j \in Requests \ {i} : rq[j].pc # "query",
         facts' = facts \/ \A j \in Requests \ {i} : rq[j].pc # "query",
         RequestOK(f, h, facts', row, updates, now)
  PROVE  AuthInv'
<1>1. held' = [j \in Requests |-> IF j = i THEN h ELSE held[j]] BY Zenon DEF AuthInv
<1>2. RowOK' BY RowKept, Zenon
<1>3. ASSUME NEW j \in Requests \ {i}
      PROVE  RequestOK(rq[j], held'[j], facts', row', updates', now')
  <2>1. RequestOK(rq[j], held[j], facts, row, updates, now) /\ held'[j] = held[j]
    BY <1>1, Zenon DEF AuthInv
  <2>2. CASE facts' = facts BY <2>1, <2>2, Zenon
  <2>3. CASE rq[j].pc # "query" BY <2>1, <2>3, Zenon DEF RequestOK, VerifyOK
  <2> QED BY <2>2, <2>3, Zenon
<1> QED BY <1>1, <1>2, <1>3, AuthOne, Zenon DEF AuthInv

\* A step that only changes the record of its request.
LEMMA AuthStays ==
  ASSUME AuthInv, NEW i \in Requests, rq[i].pc # "registered", NEW f,
         rq' = [rq EXCEPT ![i] = f], UNCHANGED <<held, facts, row, updates, now>>,
         f.pc = "query" => rq[i].pc = "query",
         RequestOK(f, held[i], facts, row, updates, now)
  PROVE  AuthInv'
<1>1. held' = [held EXCEPT ![i] = held[i]] BY Zenon DEF AuthInv
<1>2. f.pc = "query" => \A j \in Requests \ {i} : rq[j].pc # "query" BY Zenon DEF AuthInv
<1> QED BY <1>1, <1>2, AuthMove, Zenon

\* The record of a request and what is known of it.
LEMMA AuthFacts ==
  ASSUME AuthInv, NEW i \in Requests
  PROVE  /\ rq = [j \in Requests |-> rq[j]] /\ rq[i] = [x \in RqFields |-> rq[i][x]]
         /\ RequestOK(rq[i], held[i], facts, row, updates, now)
BY Zenon DEF AuthInv, RequestOK, KindOK

\* A request r may move on to pc, with h current meanwhile.
GoesOn(r, pc, h) ==
  /\ r.kind = "register" => pc \in RegisterPcs
  /\ r.kind = "signature" => pc \in SignaturePcs
  /\ r.kind = "verify" => pc \in VerifyPcs
  /\ r.kind = "approve" => pc \in ApprovePcs
  /\ r.kind \in {"register", "signature", "verify", "approve"}
  /\ pc \notin {"get", "submit", "expiry"}
  /\ pc = "insert" => r.pc = "get"
  /\ pc \in {"age", "find", "write", "registered"} => r.phase = "update"
  /\ pc \in {"find", "write", "registered"} => r.till = r.exp
  /\ pc = "message" => r.kind = "signature" /\ r.pc = "expiry" /\ r.t0 <= r.till
  /\ pc = "accepted" => \E k \in h : k.key = r.key /\ k.exp >= r.t0
  /\ r.kind = "signature" => r.pc # "idle"

\* A step that only moves a request on.
LEMMA AuthGoes ==
  ASSUME AuthInv, NEW i \in Requests, rq[i].pc \notin {"registered", "query"}, NEW pc,
         rq' = [rq EXCEPT ![i].pc = pc], UNCHANGED <<held, facts, row, updates, now>>,
         pc \notin {"query", "allowed", "reserve"},
         GoesOn(rq[i], pc, held[i])
  PROVE  AuthInv'
<1> DEFINE r == rq[i]
           f == [r EXCEPT !.pc = pc]
<1>1. /\ rq = [j \in Requests |-> rq[j]] /\ r = [x \in RqFields |-> r[x]]
      /\ RequestOK(r, held[i], facts, row, updates, now)
  BY AuthFacts, Zenon
<1>2. rq' = [rq EXCEPT ![i] = f] BY <1>1, Zenon
<1>3. /\ f = [x \in RqFields |-> f[x]] /\ f.kind = r.kind /\ f.op = r.op
      /\ f.pc = pc /\ f.phase = r.phase /\ f.step = r.step
      /\ f.seen = r.seen /\ f.nonce = r.nonce /\ f.cur = r.cur /\ f.key = r.key /\ f.exp = r.exp
      /\ f.till = r.till /\ f.t0 = r.t0
  BY <1>1, Zenon DEF RqFields
<1> HIDE DEF f
<1>4. KindOK(f) BY <1>1, <1>3, Zenon DEF RequestOK, KindOK, GoesOn
<1>5. VerifyOK(f, held[i], facts) BY <1>1, <1>3, Zenon DEF RequestOK, VerifyOK, GoesOn
<1>6. RegisterOK(f, updates) BY <1>1, <1>3, Zenon DEF RequestOK, RegisterOK, GoesOn
<1>7. SignatureOK(f, held[i], row, now) BY <1>1, <1>3, Zenon DEF RequestOK, SignatureOK, GoesOn
<1> QED BY <1>2, <1>3, <1>4, <1>5, <1>6, <1>7, AuthStays, Zenon DEF RequestOK

\* Which kind of request is where.
LEMMA KindAt ==
  ASSUME NEW r, KindOK(r)
  PROVE  /\ r.pc \in {"age", "find", "write", "submit"} => r.kind = "register"
         /\ r.pc \in {"expiry", "message"} => r.kind = "signature"
         /\ r.pc \in {"get", "insert"} => r.kind \in {"register", "signature"}
         /\ r.pc = "query" => r.kind \in {"verify", "approve"}
         /\ r.pc \in AskPcs \cup {"reserve"} => r.kind = "approve"
<1>1. r.kind \in {"register", "signature", "verify", "approve"} \/ r.pc = "idle" BY Zenon DEF KindOK
<1> QED BY <1>1, Zenon DEF KindOK, RegisterPcs, SignaturePcs, VerifyPcs, ApprovePcs, AskPcs

\* What the caller of GetAuthKey does with a row that was current.
LEMMA GotOK ==
  ASSUME AuthInv, NEW i \in Requests, rq[i].pc \in {"get", "insert"}, NEW w, Got(i, w),
         w.nonce \in Nat, w.nonce <= updates, w.next = w.nonce + 1, w.exp \in Nat,
         rq[i].kind = "signature" => w.key = NULL \/ [key |-> w.key, exp |-> w.exp] \in held[i]
  PROVE  \E f : /\ rq' = [rq EXCEPT ![i] = f] /\ f.pc \notin {"query", "registered"}
                /\ \A v : RequestOK(f, held[i], facts, v, updates, now)
<1> DEFINE r == rq[i]
<1>1. /\ rq = [j \in Requests |-> rq[j]] /\ r = [x \in RqFields |-> r[x]]
      /\ RequestOK(r, held[i], facts, row, updates, now)
  BY AuthFacts, Zenon
<1>2. r.kind \in {"register", "signature"} BY <1>1, KindAt, Zenon DEF RequestOK
<1>3. r.kind = "register" => r.phase \in {"nonce", "update"}
  BY <1>1, Zenon DEF RequestOK, RegisterOK
<1>4. r.kind = "signature" => r.phase = "signature"
  BY <1>1, Zenon DEF RequestOK, SignatureOK
<1>5. updates \in Nat BY Zenon DEF AuthInv
<1>6. CASE r.phase = "nonce"
  <2> DEFINE f == [r EXCEPT !.pc = "submit", !.nonce = w.next]
  <2>1. rq' = [rq EXCEPT ![i].pc = "submit", ![i].nonce = w.next] BY <1>6, Zenon DEF Got
  <2>2. rq' = [rq EXCEPT ![i] = f] BY <2>1, <1>1, Zenon
  <2>3. /\ f = [x \in RqFields |-> f[x]] /\ f.kind = r.kind /\ f.op = r.op
        /\ f.pc = "submit" /\ f.phase = r.phase /\ f.step = r.step
        /\ f.seen = r.seen /\ f.nonce = w.next /\ f.exp = r.exp /\ f.till = r.till
    BY <1>1, Zenon DEF RqFields
  <2> HIDE DEF f
  <2>4. f.kind = "register" BY <1>2, <1>4, <1>6, <2>3, Zenon
  <2>5. KindOK(f) BY <1>1, <2>3, <2>4, Zenon DEF RequestOK, KindOK, RegisterPcs
  <2>6. VerifyOK(f, held[i], facts) BY <1>1, <2>3, Zenon DEF RequestOK, VerifyOK
  <2>7. RegisterOK(f, updates) BY <1>1, <1>5, <1>6, <2>3 DEF RequestOK, RegisterOK
  <2>8. \A v : SignatureOK(f, held[i], v, now) BY <2>4, Zenon DEF SignatureOK
  <2> QED BY <2>2, <2>3, <2>5, <2>6, <2>7, <2>8, Zenon DEF RequestOK
<1>7. CASE r.phase = "update"
  <2> DEFINE pc == IF w.next = r.nonce THEN "age" ELSE "refused"
             f == [r EXCEPT !.pc = pc, !.cur = w.nonce]
  <2>1. rq' = [rq EXCEPT ![i].pc = pc, ![i].cur = w.nonce] BY <1>7, Zenon DEF Got
  <2>2. pc \in {"age", "refused"} BY Zenon
  <2> HIDE DEF pc
  <2>3. rq' = [rq EXCEPT ![i] = f] BY <2>1, <1>1, Zenon
  <2>4. /\ f = [x \in RqFields |-> f[x]] /\ f.kind = r.kind /\ f.op = r.op
        /\ f.pc = pc /\ f.phase = r.phase /\ f.step = r.step
        /\ f.seen = r.seen /\ f.nonce = r.nonce /\ f.exp = r.exp /\ f.till = r.till
    BY <1>1, Zenon DEF RqFields
  <2> HIDE DEF f
  <2>5. f.kind = "register" BY <1>2, <1>4, <1>7, <2>4, Zenon
  <2>6. KindOK(f) BY <1>1, <2>2, <2>4, <2>5, Zenon DEF RequestOK, KindOK, RegisterPcs
  <2>7. VerifyOK(f, held[i], facts) BY <1>1, <2>2, <2>4, Zenon DEF RequestOK, VerifyOK
  <2>8. RegisterOK(f, updates) BY <1>1, <1>5, <1>7, <2>2, <2>4, Zenon DEF RequestOK, RegisterOK
  <2>9. \A v : SignatureOK(f, held[i], v, now) BY <2>5, Zenon DEF SignatureOK
  <2> QED BY <2>2, <2>3, <2>4, <2>6, <2>7, <2>8, <2>9, Zenon DEF RequestOK
<1>8. CASE r.phase = "signature"
  <2> DEFINE f == [r EXCEPT !.pc = "expiry", !.cur = w.key, !.till = w.exp]
  <2>1. rq' = [rq EXCEPT ![i].pc = "expiry", ![i].cur = w.key, ![i].till = w.exp]
    BY <1>8, Zenon DEF Got
  <2>2. rq' = [rq EXCEPT ![i] = f] BY <2>1, <1>1, Zenon
  <2>3. /\ f = [x \in RqFields |-> f[x]] /\ f.kind = r.kind /\ f.op = r.op
        /\ f.pc = "expiry" /\ f.phase = r.phase /\ f.step = r.step
        /\ f.seen = r.seen /\ f.nonce = r.nonce /\ f.cur = w.key /\ f.key = r.key /\ f.exp = r.exp
        /\ f.till = w.exp /\ f.t0 = r.t0
    BY <1>1, Zenon DEF RqFields
  <2> HIDE DEF f
  <2>4. f.kind = "signature" BY <1>2, <1>3, <1>8, <2>3, Zenon
  <2>5. KindOK(f) BY <1>1, <2>3, <2>4, Zenon DEF RequestOK, KindOK, SignaturePcs
  <2>6. VerifyOK(f, held[i], facts) BY <1>1, <2>3, Zenon DEF RequestOK, VerifyOK
  <2>7. RegisterOK(f, updates) BY <1>1, <1>8, <2>3, <2>4, Zenon DEF RequestOK, RegisterOK
  <2>8. ASSUME NEW v PROVE SignatureOK(f, held[i], v, now)
    BY <1>1, <2>3, <2>4, Zenon DEF RequestOK, SignatureOK
  <2> QED BY <2>2, <2>3, <2>5, <2>6, <2>7, <2>8, Zenon DEF RequestOK
<1> QED BY <1>2, <1>3, <1>4, <1>6, <1>7, <1>8, Zenon

\* The row a request reads is known to it.
LEMMA RowFacts ==
  ASSUME AuthInv, row # NULL
  PROVE  row.nonce \in Nat /\ row.nonce <= updates /\ row.next = row.nonce + 1 /\ row.exp \in Nat
BY Zenon DEF AuthInv, RowOK, RowIsOneRegistration

LEMMA GetAuthKeyKeeps ==
  ASSUME AuthInv, NEW i \in Requests, GetAuthKey(i) PROVE AuthInv'
<1> DEFINE r == rq[i]
<1>1. RequestOK(r, held[i], facts, row, updates, now) BY AuthFacts, Zenon
<1>2. r.pc = "get" /\ UNCHANGED <<held, facts, row, updates, now>> BY Zenon DEF GetAuthKey
<1>3. r.kind \in {"register", "signature"} BY <1>1, <1>2, KindAt, Zenon DEF RequestOK
<1>4. CASE row # NULL
  <2>1. Got(i, row) BY <1>4, Zenon DEF GetAuthKey
  <2>2. r.kind = "signature" => row.key = NULL \/ [key |-> row.key, exp |-> row.exp] \in held[i]
    BY <1>1, <1>2, <1>4, Zenon DEF RequestOK, SignatureOK
  <2>3. \E f : /\ rq' = [rq EXCEPT ![i] = f] /\ f.pc \notin {"query", "registered"}
               /\ \A v : RequestOK(f, held[i], facts, v, updates, now)
    BY <1>2, <1>4, <2>1, <2>2, RowFacts, GotOK, Zenon
  <2> QED BY <1>2, <2>3, AuthStays, Zenon
<1>5. CASE row = NULL
  <2>1. rq' = [rq EXCEPT ![i].pc = "insert"] BY <1>5, Zenon DEF GetAuthKey
  <2>2. GoesOn(r, "insert", held[i]) BY <1>2, <1>3, Zenon DEF GoesOn, RegisterPcs, SignaturePcs
  <2> QED BY <1>2, <2>1, <2>2, AuthGoes, Zenon
<1> QED BY <1>4, <1>5, Zenon

\* The new row has no key.
LEMMA InsertAuthKeyKeeps ==
  ASSUME AuthInv, NEW i \in Requests, InsertAuthKey(i) PROVE AuthInv'
<1> DEFINE r == rq[i]
           w == [nonce |-> 0, next |-> 1, key |-> NULL, exp |-> now]
<1>1. RequestOK(r, held[i], facts, row, updates, now) BY AuthFacts, Zenon
<1>2. r.pc = "insert" /\ UNCHANGED <<held, facts, updates, now>> BY Zenon DEF InsertAuthKey
<1>3. r.kind \in {"register", "signature"} BY <1>1, <1>2, KindAt, Zenon DEF RequestOK
<1>4. CASE row = NULL
  <2>1. row' = w /\ Got(i, w) BY <1>4, Zenon DEF InsertAuthKey
  <2>2. w.nonce = 0 /\ w.next = w.nonce + 1 /\ w.key = NULL /\ w.exp = now OBVIOUS
  <2> HIDE DEF w
  <2>3. updates \in Nat /\ now \in Nat /\ w.nonce \in Nat /\ w.nonce <= updates /\ w.exp \in Nat
    BY <2>2 DEF AuthInv
  <2>4. PICK f : /\ rq' = [rq EXCEPT ![i] = f] /\ f.pc \notin {"query", "registered"}
                 /\ \A v : RequestOK(f, held[i], facts, v, updates, now)
    BY <1>2, <2>1, <2>2, <2>3, GotOK, Zenon
  <2>5. RowOK' BY <1>2, <2>1, <2>2, <2>3 DEF RowOK, RowIsOneRegistration
  <2>6. ASSUME NEW j \in Requests \ {i}
        PROVE  RequestOK(rq[j], held[j], facts, w, updates, now)
    <3>1. RequestOK(rq[j], held[j], facts, row, updates, now) BY Zenon DEF AuthInv
    <3> QED BY <3>1, <2>2, Zenon DEF RequestOK, SignatureOK
  <2>7. held' = [j \in Requests |-> held'[j]] BY <1>2, Zenon DEF AuthInv
  <2>8. RequestOK(f, held'[i], facts', row', updates', now') BY <1>2, <2>4, Zenon
  <2>9. \A j \in Requests \ {i} : RequestOK(rq[j], held'[j], facts', row', updates', now')
    BY <1>2, <2>1, <2>6, Zenon
  <2> HIDE DEF r
  <2> QED BY <1>2, <2>3, <2>4, <2>5, <2>7, <2>8, <2>9, AuthOne, Zenon
<1>5. CASE row # NULL
  <2>1. rq' = [rq EXCEPT ![i].pc = "refused"] /\ row' = row BY <1>5, Zenon DEF InsertAuthKey, Refuse
  <2>2. GoesOn(r, "refused", held[i]) BY <1>2, <1>3, Zenon DEF GoesOn, RegisterPcs, SignaturePcs
  <2> QED BY <1>2, <2>1, <2>2, AuthGoes, Zenon
<1> QED BY <1>4, <1>5, Zenon

LEMMA RequestNonceKeeps ==
  ASSUME AuthInv, NEW i \in Requests, RequestNonce(i) PROVE AuthInv'
<1> DEFINE r == rq[i]
           f == [r EXCEPT !.pc = "get", !.phase = "nonce"]
<1>1. /\ rq = [j \in Requests |-> rq[j]] /\ r = [x \in RqFields |-> r[x]]
      /\ RequestOK(r, held[i], facts, row, updates, now)
  BY AuthFacts, Zenon
<1>2. /\ r.pc = "idle" /\ r.kind = "register" /\ UNCHANGED <<held, facts, row, updates, now>>
      /\ rq' = [rq EXCEPT ![i].pc = "get", ![i].phase = "nonce"]
  BY Zenon DEF RequestNonce
<1>3. rq' = [rq EXCEPT ![i] = f] BY <1>1, <1>2, Zenon
<1>4. /\ f = [x \in RqFields |-> f[x]] /\ f.kind = r.kind /\ f.op = r.op
      /\ f.pc = "get" /\ f.phase = "nonce" /\ f.step = r.step
      /\ f.seen = r.seen
  BY <1>1, Zenon DEF RqFields
<1> HIDE DEF f
<1>5. KindOK(f) BY <1>1, <1>2, <1>4, Zenon DEF RequestOK, KindOK, RegisterPcs
<1>6. VerifyOK(f, held[i], facts) BY <1>1, <1>2, <1>4, Zenon DEF RequestOK, VerifyOK
<1>7. RegisterOK(f, updates) BY <1>4, Zenon DEF RegisterOK
<1>8. SignatureOK(f, held[i], row, now) BY <1>2, <1>4, Zenon DEF SignatureOK
<1> QED BY <1>2, <1>3, <1>4, <1>5, <1>6, <1>7, <1>8, AuthStays, Zenon DEF RequestOK

LEMMA UpdateUserPublicKeyKeeps ==
  ASSUME AuthInv, NEW i \in Requests, UpdateUserPublicKey(i) PROVE AuthInv'
<1> DEFINE r == rq[i]
<1>1. /\ rq = [j \in Requests |-> rq[j]] /\ r = [x \in RqFields |-> r[x]]
      /\ RequestOK(r, held[i], facts, row, updates, now)
  BY AuthFacts, Zenon
<1>2. r.pc = "submit" /\ UNCHANGED <<held, facts, row, updates, now>> BY Zenon DEF UpdateUserPublicKey
<1>k. r.kind = "register" BY <1>1, <1>2, KindAt, Zenon DEF RequestOK
<1>e. PICK e \in now..(now + MaxExpiryAge + 1), same \in BOOLEAN :
        rq' = [rq EXCEPT ![i].pc = "get", ![i].phase = "update", ![i].exp = e,
                         ![i].till = IF same THEN e ELSE 0]
  BY Zenon DEF UpdateUserPublicKey
<1> DEFINE till == IF same THEN e ELSE 0
           f == [r EXCEPT !.pc = "get", !.phase = "update", !.exp = e, !.till = till]
<1>n. e \in Nat BY <1>e, AuthAssumption DEF AuthInv
<1> HIDE DEF till
<1>3. rq' = [rq EXCEPT ![i] = f] BY <1>1, <1>e, Zenon DEF till
<1>4. /\ f = [x \in RqFields |-> f[x]] /\ f.kind = r.kind /\ f.op = r.op
      /\ f.pc = "get" /\ f.phase = "update" /\ f.step = r.step
      /\ f.seen = r.seen /\ f.nonce = r.nonce /\ f.exp = e
  BY <1>1, Zenon DEF RqFields
<1> HIDE DEF f
<1>5. KindOK(f) BY <1>1, <1>k, <1>4, Zenon DEF RequestOK, KindOK, RegisterPcs
<1>6. VerifyOK(f, held[i], facts) BY <1>1, <1>2, <1>4, Zenon DEF RequestOK, VerifyOK
<1>7. RegisterOK(f, updates) BY <1>1, <1>2, <1>4, <1>n, Zenon DEF RequestOK, RegisterOK
<1>8. SignatureOK(f, held[i], row, now) BY <1>k, <1>4, Zenon DEF SignatureOK
<1> QED BY <1>2, <1>3, <1>4, <1>5, <1>6, <1>7, <1>8, AuthStays, Zenon DEF RequestOK

\* The steps of a registration or of an off-chain signature that only check.
LEMMA ChecksKeep ==
  ASSUME AuthInv, NEW i \in Requests,
         \/ CheckExpiryAge(i) \/ FindAuthKey(i) \/ CheckKeyExpiry(i)
         \/ VerifyOffChainSignature(i) \/ AuthFails(i)
  PROVE  AuthInv'
<1> DEFINE r == rq[i]
<1>1. RequestOK(r, held[i], facts, row, updates, now) BY AuthFacts, Zenon
<1>2. /\ r.pc \in {"age", "find", "expiry", "message", "get", "insert", "write"}
      /\ UNCHANGED <<held, facts, row, updates, now>>
  BY Zenon DEF CheckExpiryAge, FindAuthKey, CheckKeyExpiry, VerifyOffChainSignature, AuthFails
<1>3. /\ r.pc \in {"age", "find", "write"} => r.kind = "register"
      /\ r.pc \in {"expiry", "message"} => r.kind = "signature"
      /\ r.kind \in {"register", "signature"}
  BY <1>1, <1>2, KindAt, Zenon DEF RequestOK
<1>4. r.pc \in {"age", "find", "write"} => r.phase = "update"
  BY <1>1, Zenon DEF RequestOK, RegisterOK
<1>5. GoesOn(r, "refused", held[i])
  BY <1>2, <1>3, Zenon DEF GoesOn, RegisterPcs, SignaturePcs
<1>6. ASSUME rq' = [rq EXCEPT ![i].pc = "refused"] PROVE AuthInv'
  BY <1>2, <1>5, <1>6, AuthGoes, Zenon
<1>7. CASE CheckExpiryAge(i)
  <2>1. CASE rq' = [rq EXCEPT ![i].pc = "find"] /\ r.till = r.exp
    <3>1. r.pc = "age" BY <1>7, Zenon DEF CheckExpiryAge
    <3>2. GoesOn(r, "find", held[i]) BY <1>3, <1>4, <2>1, <3>1, Zenon DEF GoesOn, RegisterPcs
    <3> QED BY <1>2, <2>1, <3>2, AuthGoes, Zenon
  <2> QED BY <1>6, <1>7, <2>1, Zenon DEF CheckExpiryAge, verifySignedContent
<1>8. CASE FindAuthKey(i)
  <2>1. CASE rq' = [rq EXCEPT ![i].pc = "write"]
    <3>1. r.pc = "find" BY <1>8, Zenon DEF FindAuthKey
    <3>2. r.till = r.exp BY <1>1, <3>1, Zenon DEF RequestOK, RegisterOK
    <3>3. GoesOn(r, "write", held[i]) BY <1>3, <1>4, <3>1, <3>2, Zenon DEF GoesOn, RegisterPcs
    <3> QED BY <1>2, <2>1, <3>3, AuthGoes, Zenon
  <2> QED BY <1>6, <1>8, <2>1, Zenon DEF FindAuthKey
<1>9. CASE CheckKeyExpiry(i)
  <2>1. CASE rq' = [rq EXCEPT ![i].pc = "message"] /\ now <= r.till
    <3>1. r.pc = "expiry" BY <1>9, Zenon DEF CheckKeyExpiry
    <3>2. r.t0 \in Nat /\ r.till \in Nat /\ r.t0 <= now BY <1>1, <1>3, <3>1, Zenon DEF RequestOK, SignatureOK
    <3>3. r.t0 <= r.till BY <2>1, <3>2 DEF AuthInv
    <3>4. GoesOn(r, "message", held[i]) BY <1>3, <3>1, <3>3, Zenon DEF GoesOn, SignaturePcs
    <3> QED BY <1>2, <2>1, <3>4, AuthGoes, Zenon
  <2> QED BY <1>6, <1>9, <2>1, Zenon DEF CheckKeyExpiry
<1>10. CASE VerifyOffChainSignature(i)
  <2>1. CASE rq' = [rq EXCEPT ![i].pc = "accepted"] /\ r.cur = r.key
    <3>1. r.pc = "message" BY <1>10, Zenon DEF VerifyOffChainSignature
    <3>2. /\ r.t0 \in Nat /\ r.till \in Nat /\ r.t0 <= r.till /\ r.key \in Requests
          /\ r.cur = NULL \/ [key |-> r.cur, exp |-> r.till] \in held[i]
      BY <1>1, <1>3, <3>1, Zenon DEF RequestOK, SignatureOK
    <3>3. [key |-> r.cur, exp |-> r.till] \in held[i] BY <2>1, <3>2, AuthAssumption, Zenon
    <3> DEFINE k == [key |-> r.cur, exp |-> r.till]
    <3>4. k \in held[i] /\ k.key = r.key /\ k.exp >= r.t0 BY <2>1, <3>2, <3>3, Zenon
    <3>5. GoesOn(r, "accepted", held[i]) BY <1>3, <3>1, <3>4, Zenon DEF GoesOn, SignaturePcs
    <3> QED BY <1>2, <2>1, <3>5, AuthGoes, Zenon
  <2> QED BY <1>6, <1>10, <2>1, Zenon DEF VerifyOffChainSignature, VerifyEddsaSignature
<1>11. CASE AuthFails(i) BY <1>6, <1>11, Zenon DEF AuthFails, Refuse
<1> QED BY <1>7, <1>8, <1>9, <1>10, <1>11, Zenon

\* A registration replaces the row; every request that has not read it yet knows both.
LEMMA UpdateAuthKeyKeeps ==
  ASSUME AuthInv, NEW i \in Requests, UpdateAuthKey(i) PROVE AuthInv'
<1> DEFINE r == rq[i]
           f == [r EXCEPT !.pc = "registered"]
           k == [key |-> i, exp |-> r.exp]
<1>1. /\ rq = [j \in Requests |-> rq[j]] /\ r = [x \in RqFields |-> r[x]]
      /\ RequestOK(r, held[i], facts, row, updates, now)
  BY AuthFacts, Zenon
<1>2. /\ r.pc = "write" /\ facts' = facts /\ now' = now /\ updates' = updates + 1
      /\ row' = [nonce |-> r.nonce, next |-> r.nonce + 1, key |-> i, exp |-> r.exp]
      /\ rq' = [rq EXCEPT ![i].pc = "registered"]
      /\ held' = [j \in Requests |->
                    IF rq[j].kind = "signature" /\ Live(j) /\ rq[j].pc # "idle"
                    THEN held[j] \cup {k} ELSE held[j]]
  BY Zenon DEF UpdateAuthKey, NewRow
<1>3. r.kind = "register" /\ r.phase = "update" BY <1>1, <1>2, KindAt, Zenon DEF RequestOK, RegisterOK
<1>4. /\ r.nonce \in Nat /\ 0 < r.nonce /\ r.nonce <= updates + 1 /\ r.exp \in Nat
      /\ r.till = r.exp /\ updates \in Nat
  BY <1>1, <1>2, <1>3, Zenon DEF RequestOK, RegisterOK, AuthInv
<1>5. rq' = [rq EXCEPT ![i] = f] BY <1>1, <1>2, Zenon
<1>6. /\ f = [x \in RqFields |-> f[x]] /\ f.kind = r.kind /\ f.op = r.op
      /\ f.pc = "registered" /\ f.phase = r.phase /\ f.step = r.step
      /\ f.seen = r.seen /\ f.nonce = r.nonce /\ f.exp = r.exp /\ f.till = r.till
  BY <1>1, Zenon DEF RqFields
<1> HIDE DEF f
<1>7. RequestOK(f, held'[i], facts', row', updates', now')
  <2>1. KindOK(f) BY <1>1, <1>3, <1>6, Zenon DEF RequestOK, KindOK, RegisterPcs
  <2>2. VerifyOK(f, held'[i], facts) BY <1>1, <1>2, <1>6, Zenon DEF RequestOK, VerifyOK
  <2>3. RegisterOK(f, updates + 1) BY <1>3, <1>4, <1>6 DEF RegisterOK
  <2>4. SignatureOK(f, held'[i], row', now) BY <1>3, <1>6, Zenon DEF SignatureOK
  <2> QED BY <1>2, <2>1, <2>2, <2>3, <2>4, Zenon DEF RequestOK
<1>8. RowOK'
  <2>1. rq'[i] = f BY <1>1, <1>5, Zenon
  <2>2. row'.nonce = r.nonce /\ row'.next = r.nonce + 1 /\ row'.exp = r.exp BY <1>2, Zenon
  <2>3. row' = [nonce |-> f.nonce, next |-> f.nonce + 1, key |-> i, exp |-> f.till]
    BY <1>2, <1>4, <1>6, Zenon
  <2>4. RowIsOneRegistration' BY <1>2, <1>4, <1>6, <2>1, <2>2, <2>3, Zenon DEF RowIsOneRegistration
  <2> QED BY <1>4, <2>2, <2>4, Zenon DEF RowOK
<1>9. ASSUME NEW j \in Requests \ {i}
      PROVE  RequestOK(rq[j], held'[j], facts', row', updates', now')
  <2>1. RequestOK(rq[j], held[j], facts, row, updates, now) BY Zenon DEF AuthInv
  <2>2. held[j] \subseteq held'[j] BY <1>2, Zenon
  <2>3. VerifyOK(rq[j], held'[j], facts)
    <3>1. VerifyOK(rq[j], held[j], facts) BY <2>1, Zenon DEF RequestOK
    <3> QED BY <2>2, <3>1, MeetsMore, Zenon DEF VerifyOK
  <2>4. RegisterOK(rq[j], updates + 1) BY <1>4, <2>1 DEF RequestOK, RegisterOK
  <2>5. SignatureOK(rq[j], held'[j], row', now)
    <3> SUFFICES ASSUME rq[j].kind = "signature" PROVE SignatureOK(rq[j], held'[j], row', now)
      BY Zenon DEF SignatureOK
    <3>1. SignatureOK(rq[j], held[j], row, now) BY <2>1, Zenon DEF RequestOK
    <3>2. rq[j].pc \in {"get", "insert"} => k \in held'[j] BY <1>2, Zenon DEF Live, Ended
    <3>3. k = [key |-> row'.key, exp |-> row'.exp] BY <1>2, Zenon
    <3> HIDE DEF k
    <3> QED BY <2>2, <3>1, <3>2, <3>3, Zenon DEF SignatureOK
  <2> QED BY <1>2, <2>1, <2>3, <2>4, <2>5, Zenon DEF RequestOK
<1>10. held' = [j \in Requests |-> held'[j]] BY <1>2, Zenon
<1>11. updates' \in Nat /\ now' \in Nat BY <1>2, <1>4 DEF AuthInv
<1> HIDE DEF r, k
<1> QED BY <1>5, <1>6, <1>7, <1>8, <1>9, <1>10, <1>11, AuthOne, Zenon

LEMMA ArriveSignedKeeps ==
  ASSUME AuthInv, NEW i \in Requests, ArriveSigned(i) PROVE AuthInv'
<1> DEFINE r == rq[i]
           h == IF row = NULL THEN {} ELSE {[key |-> row.key, exp |-> row.exp]}
<1>1. /\ rq = [j \in Requests |-> rq[j]] /\ r = [x \in RqFields |-> r[x]]
      /\ RequestOK(r, held[i], facts, row, updates, now)
  BY AuthFacts, Zenon
<1>2. /\ r.pc = "idle" /\ r.kind = "signature" /\ UNCHANGED <<facts, row, updates, now>>
      /\ held' = [held EXCEPT ![i] = h]
  BY Zenon DEF ArriveSigned
<1>e. PICK k \in Requests, m \in now..(now + SigExpiryAge + 1) :
        rq' = [rq EXCEPT ![i].pc = "get", ![i].phase = "signature", ![i].key = k,
                         ![i].exp = m, ![i].t0 = now]
  BY Zenon DEF ArriveSigned
<1> DEFINE f == [r EXCEPT !.pc = "get", !.phase = "signature", !.key = k, !.exp = m, !.t0 = now]
<1>3. rq' = [rq EXCEPT ![i] = f] BY <1>1, <1>e, Zenon
<1>4. /\ f = [x \in RqFields |-> f[x]] /\ f.kind = r.kind /\ f.op = r.op
      /\ f.pc = "get" /\ f.phase = "signature" /\ f.step = r.step
      /\ f.seen = r.seen /\ f.key = k /\ f.t0 = now
  BY <1>1, Zenon DEF RqFields
<1> HIDE DEF f
<1>5. KindOK(f) BY <1>1, <1>2, <1>4, Zenon DEF RequestOK, KindOK, SignaturePcs
<1>6. VerifyOK(f, h, facts) BY <1>1, <1>2, <1>4, Zenon DEF RequestOK, VerifyOK
<1>7. RegisterOK(f, updates) BY <1>2, <1>4, Zenon DEF RegisterOK
<1>8. SignatureOK(f, h, row, now)
  <2>1. now \in Nat /\ now <= now BY DEF AuthInv
  <2> QED BY <1>2, <1>4, <2>1, Zenon DEF SignatureOK
<1> HIDE DEF r, h
<1>9. RequestOK(f, h, facts', row, updates, now) BY <1>2, <1>5, <1>6, <1>7, <1>8, Zenon DEF RequestOK
<1>10. rq[i].pc # "registered" /\ f.pc # "query" BY <1>2, <1>4, Zenon DEF r
<1> QED BY <1>2, <1>3, <1>9, <1>10, AuthMove, Zenon

\* A verification begins with nothing seen, while no other is in progress.
LEMMA ArriveKeeps ==
  ASSUME AuthInv, NEW i \in Requests, Arrive(i) PROVE AuthInv'
<1> DEFINE r == rq[i]
           f == [r EXCEPT !.pc = "query", !.step = 1]
<1>1. /\ rq = [j \in Requests |-> rq[j]] /\ r = [x \in RqFields |-> r[x]]
      /\ RequestOK(r, held[i], facts, row, updates, now)
  BY AuthFacts, Zenon
<1>2. /\ r.pc = "idle" /\ r.kind \in {"verify", "approve"} /\ r.op # "none"
      /\ \A j \in Requests : rq[j].pc # "query"
      /\ UNCHANGED <<row, updates, now>>
      /\ rq' = [rq EXCEPT ![i].pc = "query", ![i].step = 1]
  BY Zenon DEF Arrive
<1>h. PICK h : facts' = h /\ held' = [held EXCEPT ![i] = h] BY Zenon DEF Arrive
<1>3. rq' = [rq EXCEPT ![i] = f] BY <1>1, <1>2, Zenon
<1>4. /\ f = [x \in RqFields |-> f[x]] /\ f.kind = r.kind /\ f.op = r.op
      /\ f.pc = "query" /\ f.phase = r.phase /\ f.step = 1
      /\ f.seen = r.seen /\ f.nonce = r.nonce /\ f.exp = r.exp
  BY <1>1, Zenon DEF RqFields
<1> HIDE DEF f
<1>5. KindOK(f) BY <1>1, <1>2, <1>4, Zenon DEF RequestOK, KindOK, VerifyPcs, ApprovePcs
<1>6. VerifyOK(f, h, h)
  <2>1. f.seen = {} BY <1>1, <1>2, <1>4, Zenon DEF RequestOK, VerifyOK
  <2>2. f.op \in DOMAIN AuthOps BY <1>1, <1>2, <1>4, Zenon DEF RequestOK, KindOK
  <2>3. 1 \in 1..Len(AuthOps[f.op]) BY <2>2, OpsNonempty
  <2>4. 1..(f.step - 1) = {} BY <1>4
  <2> QED BY <1>4, <2>1, <2>2, <2>3, <2>4, Zenon DEF VerifyOK
<1>7. RegisterOK(f, updates) BY <1>1, <1>2, <1>4, Zenon DEF RequestOK, RegisterOK
<1>8. SignatureOK(f, h, row, now) BY <1>2, <1>4, Zenon DEF SignatureOK
<1> HIDE DEF r
<1>9. RequestOK(f, h, facts', row, updates, now) BY <1>h, <1>5, <1>6, <1>7, <1>8, Zenon DEF RequestOK
<1>10. rq[i].pc # "registered" BY <1>2, Zenon DEF r
<1> QED BY <1>2, <1>3, <1>h, <1>9, <1>10, AuthMove, Zenon

\* One query: what it returned has been current, or counts as nil, and after the last
\* one everything the operation requires has been seen.
LEMMA QueryKeeps ==
  ASSUME AuthInv, NEW i \in Requests, NEW err \in BOOLEAN, Query(i, err) PROVE AuthInv'
<1> DEFINE r == rq[i]
           op == r.op
           s == AuthOps[op][r.step]
           got == IF err THEN Ignored(op, s[1]) ELSE facts \cap Answer[s[1]]
           seen == r.seen \cup got
           last == r.step = Len(AuthOps[op])
           ok == Meets(seen, s[2]) /\ (err => got # {})
           h == IF ok THEN held[i] \cup (IF err THEN got ELSE {}) ELSE {}
           pc == IF ~ ok THEN "refused" ELSE IF last THEN Verified(i) ELSE "query"
           st == IF ok /\ ~ last THEN r.step + 1 ELSE 0
           sn == IF ok /\ ~ last THEN seen ELSE {}
           f == [r EXCEPT !.pc = pc, !.step = st, !.seen = sn]
<1> HIDE DEF op, s, got, seen, last, ok, h, pc, st, sn, f
<1>1. /\ rq = [j \in Requests |-> rq[j]] /\ r = [x \in RqFields |-> r[x]]
      /\ RequestOK(r, held[i], facts, row, updates, now)
  BY AuthFacts, Zenon
<1>2. /\ r.pc = "query" /\ UNCHANGED <<row, updates, now>>
      /\ rq' = [rq EXCEPT ![i].pc = pc, ![i].step = st, ![i].seen = sn]
      /\ held' = [held EXCEPT ![i] = h]
      /\ facts' = IF ok /\ ~ last THEN facts ELSE {}
  BY <1>1, Zenon DEF Query, op, s, got, seen, last, ok, h, pc, st, sn
<1>3. r.kind \in {"verify", "approve"} BY <1>1, <1>2, KindAt, Zenon DEF RequestOK
<1>4. /\ op \in DOMAIN AuthOps /\ r.step \in 1..Len(AuthOps[op])
      /\ r.seen \subseteq held[i] /\ facts \subseteq held[i]
      /\ r.step = 1 => r.seen = {}
      /\ \A n \in 1..(r.step - 1) : Meets(r.seen, AuthOps[op][n][2])
  BY <1>1, <1>2, Zenon DEF RequestOK, VerifyOK, op
<1>n. /\ r.step \in Nat /\ Len(AuthOps[op]) \in Nat
      /\ 1 <= r.step /\ r.step <= Len(AuthOps[op])
  <2>1. Len(AuthOps[op]) \in Nat BY <1>4, OpsNonempty, Zenon
  <2>2. r.step \in 1..Len(AuthOps[op]) BY <1>4, Zenon
  <2> HIDE DEF r
  <2> QED BY <2>1, <2>2
<1>5. pc \in {"refused", "query", "reserve", "allowed"}
      /\ (pc = "reserve" => r.kind = "approve") /\ (pc = "allowed" => r.kind = "verify")
      /\ (pc = "refused" <=> ~ ok) /\ (pc = "query" <=> ok /\ ~ last)
  BY <1>3, Zenon DEF Verified, pc
<1>6. ok => seen \subseteq h /\ held[i] \subseteq h BY <1>4, Zenon DEF seen, got, h
<1>7. \A n \in 1..(r.step - 1) : Meets(seen, AuthOps[op][n][2])
  BY <1>4, MeetsMore DEF seen
<1>8. ok => \A n \in 1..r.step : Meets(seen, AuthOps[op][n][2])
  <2> SUFFICES ASSUME ok, NEW n \in 1..r.step PROVE Meets(seen, AuthOps[op][n][2])
    BY Zenon
  <2>2. n = r.step \/ n \in 1..(r.step - 1) BY <1>n, LastOrEarlier, Zenon
  <2>3. CASE n = r.step BY <2>3, Zenon DEF ok, s
  <2> QED BY <1>7, <2>2, <2>3, Zenon
<1>9. ok /\ last => Meets(h, {"account"} \cup Requires(op))
  <2> SUFFICES ASSUME ok, last PROVE Meets(h, {"account"} \cup Requires(op))
    BY Zenon
  <2>1. op # "UnKnown"
    <3> SUFFICES ASSUME op = "UnKnown" PROVE FALSE
      BY Zenon
    <3>0. Len(AuthOps[op]) = 1 BY UnKnownOnce, Zenon
    <3>2. r.step = 1 /\ r.seen = {} BY <1>4, <1>n, <3>0
    <3>1. s[1] = "HasAccount" BY <3>2, UnKnownOnce, Zenon DEF s
    <3>3. Ignored(op, s[1]) = {} BY Zenon DEF Ignored
    <3>4. ~ err BY <3>3, Zenon DEF ok, got
    <3>5. seen = facts \cap Answer["HasAccount"] BY <3>1, <3>2, <3>4, Zenon DEF seen, got
    <3>6. Meets(seen, AuthOps["UnKnown"][1][2]) BY <3>2, Zenon DEF ok, s
    <3> QED BY <3>5, <3>6, UnKnownRefused, Zenon
  <2>2. Meets(seen, {"account"} \cup Requires(op)) BY <1>4, <1>8, <2>1, Covers, Zenon DEF last
  <2> QED BY <1>6, <2>2, MeetsMore, Zenon
<1>10. facts' \subseteq facts /\ (pc = "query" => facts' = facts) BY <1>2, <1>5, Zenon
<1>11. /\ pc # "query" => sn = {}
       /\ pc = "query" => sn = seen /\ st = r.step + 1 /\ ok /\ ~ last
       /\ pc \in {"allowed", "reserve"} => ok /\ last
  BY <1>5, Zenon DEF pc, st, sn
<1>12. rq' = [rq EXCEPT ![i] = f] BY <1>1, <1>2, Zenon DEF f
<1>13. /\ f = [x \in RqFields |-> f[x]] /\ f.kind = r.kind /\ f.op = op
       /\ f.pc = pc /\ f.phase = r.phase /\ f.step = st
       /\ f.seen = sn /\ f.nonce = r.nonce /\ f.exp = r.exp
  BY <1>1, Zenon DEF RqFields, f, op
<1>14. KindOK(f) BY <1>1, <1>3, <1>5, <1>13, Zenon DEF RequestOK, KindOK, VerifyPcs, ApprovePcs, op
<1>15. VerifyOK(f, h, facts')
  <2>1. CASE pc = "query"
    <3>1. /\ f.op = op /\ f.step = r.step + 1 /\ f.seen = seen /\ f.pc = "query"
          /\ r.step # Len(AuthOps[op]) /\ facts' = facts
      BY <2>1, <1>10, <1>11, <1>13, Zenon DEF last
    <3>2. seen \subseteq h /\ facts \subseteq h BY <2>1, <1>4, <1>6, <1>11, Zenon
    <3>3. f.step \in 1..Len(AuthOps[op]) /\ f.step # 1 /\ f.step - 1 = r.step
      <4> HIDE DEF r
      <4> QED BY <1>n, <3>1
    <3>4. \A n \in 1..(f.step - 1) : Meets(seen, AuthOps[op][n][2])
      BY <2>1, <1>8, <1>11, <3>3, Zenon
    <3> QED BY <1>4, <3>1, <3>2, <3>3, <3>4, Zenon DEF VerifyOK
  <2>2. CASE pc # "query" BY <2>2, <1>9, <1>11, <1>13, Zenon DEF VerifyOK
  <2> QED BY <2>1, <2>2, Zenon
<1>16. RegisterOK(f, updates)
  <2>1. f.pc \notin {"age", "find", "write", "registered", "submit"} BY <1>5, <1>13, Zenon
  <2> QED BY <1>1, <1>3, <1>13, <2>1, Zenon DEF RequestOK, RegisterOK
<1>17. SignatureOK(f, h, row, now) BY <1>3, <1>13, Zenon DEF SignatureOK
<1>18. RequestOK(f, h, facts', row, updates, now) BY <1>14, <1>15, <1>16, <1>17, Zenon DEF RequestOK
<1>19. \A j \in Requests \ {i} : rq[j].pc # "query" BY <1>2, Zenon DEF AuthInv
<1>20. rq[i].pc # "registered" BY <1>2, Zenon
<1> HIDE DEF r
<1> QED BY <1>2, <1>12, <1>18, <1>19, <1>20, AuthMove, Zenon

LEMMA AuthStepAuth ==
  ASSUME AuthInv, NEW i \in Requests, AuthStep(i) PROVE AuthInv'
BY ArriveKeeps, QueryKeeps, GetAuthKeyKeeps, InsertAuthKeyKeeps, RequestNonceKeeps,
   UpdateUserPublicKeyKeeps, ChecksKeep, UpdateAuthKeyKeeps, ArriveSignedKeeps, Zenon
DEF AuthStep

\* The approver moves an ask on, and forgets what the verification knew.
LEMMA AskStepAuth ==
  ASSUME AuthInv, NEW i \in Requests, AskStep(i) PROVE AuthInv'
<1> DEFINE r == rq[i]
<1>1. /\ rq = [j \in Requests |-> rq[j]] /\ r = [x \in RqFields |-> r[x]]
      /\ RequestOK(r, held[i], facts, row, updates, now)
  BY AuthFacts, Zenon
<1>2. UNCHANGED <<facts, row, updates, now>> BY Zenon DEF AskStep
<1>3. CASE InitApprovalTask(i)
  <2> DEFINE f == [r EXCEPT !.pc = "rpc"]
  <2>1. /\ r.pc \in {"reserve", "idle"} /\ r.kind = "approve" /\ held' = [held EXCEPT ![i] = {}]
        /\ rq' = [rq EXCEPT ![i].pc = "rpc"]
    BY <1>1, <1>3, KindAt, Zenon DEF InitApprovalTask, Goto, RequestOK
  <2>2. rq' = [rq EXCEPT ![i] = f] BY <1>1, <2>1, Zenon
  <2>3. /\ f = [x \in RqFields |-> f[x]] /\ f.kind = r.kind /\ f.op = r.op
        /\ f.pc = "rpc" /\ f.phase = r.phase
        /\ f.seen = r.seen /\ f.nonce = r.nonce /\ f.exp = r.exp
    BY <1>1, Zenon DEF RqFields
  <2> HIDE DEF f
  <2>4. KindOK(f) BY <1>1, <2>1, <2>3, Zenon DEF RequestOK, KindOK, ApprovePcs, AskPcs
  <2>5. VerifyOK(f, {}, facts) BY <1>1, <2>1, <2>3, Zenon DEF RequestOK, VerifyOK
  <2>6. RegisterOK(f, updates) BY <1>1, <2>1, <2>3, Zenon DEF RequestOK, RegisterOK
  <2>7. SignatureOK(f, {}, row, now) BY <2>1, <2>3, Zenon DEF SignatureOK
  <2>8. RequestOK(f, {}, facts', row, updates, now) BY <1>2, <2>4, <2>5, <2>6, <2>7, Zenon DEF RequestOK
  <2>9. rq[i].pc # "registered" /\ f.pc # "query" BY <2>1, <2>3, Zenon
  <2> HIDE DEF r
  <2> QED BY <1>2, <2>1, <2>2, <2>8, <2>9, AuthMove, Zenon
<1>4. ASSUME NEW pc \in AskPcs \cup {"refused"}, rq' = [rq EXCEPT ![i].pc = pc],
             r.pc \in AskPcs, held' = held
      PROVE  AuthInv'
  <2>1. r.kind = "approve" BY <1>1, <1>4, KindAt, Zenon DEF RequestOK
  <2>2. GoesOn(r, pc, held[i]) BY <1>4, <2>1, Zenon DEF GoesOn, ApprovePcs, AskPcs
  <2>3. pc \notin {"query", "allowed", "reserve"} /\ r.pc \notin {"registered", "query"}
    BY <1>4, Zenon DEF AskPcs
  <2> QED BY <1>2, <1>4, <2>2, <2>3, AuthGoes, Zenon
<1>5. CASE GfSpAskApproval(i) BY <1>4, <1>5, Zenon DEF GfSpAskApproval, Goto, RefuseAsk, AskPcs
<1>6. CASE Has(i)
  <2>1. /\ r.pc = "has" /\ held' = held
        /\ \E pc \in {"pop", "count", "height"} : rq' = [rq EXCEPT ![i].pc = pc]
    BY <1>6, Zenon DEF Has, Goto
  <2> QED BY <1>4, <2>1, Zenon DEF AskPcs
<1>7. CASE PopByKey(i) BY <1>4, <1>7, Zenon DEF PopByKey, Goto, AskPcs
<1>8. CASE PushBack(i) BY <1>4, <1>8, Zenon DEF PushBack, AnswerAsk, Goto, AskPcs
<1>9. CASE GetUserBucketsCount(i) BY <1>4, <1>9, Zenon DEF GetUserBucketsCount, Goto, RefuseAsk, AskPcs
<1>10. CASE SetExpiredHeight(i) BY <1>4, <1>10, Zenon DEF SetExpiredHeight, Goto, AskPcs
<1>11. CASE SignApproval(i) BY <1>4, <1>11, Zenon DEF SignApproval, Goto, RefuseAsk, AskPcs
<1>12. CASE Push(i) BY <1>4, <1>12, Zenon DEF Push, AnswerAsk, Goto, AskPcs
<1> QED BY <1>3, <1>5, <1>6, <1>7, <1>8, <1>9, <1>10, <1>11, <1>12, Zenon DEF AskStep

LEMMA PanicAuth ==
  ASSUME AuthInv, NEW i \in Requests, Panic(i) PROVE AuthInv'
<1> DEFINE P == {"has", "pop", "back", "count", "height", "sign", "push"}
<1>1. /\ rq' = [j \in Requests |-> IF rq[j].pc \in P THEN [rq[j] EXCEPT !.pc = "refused"] ELSE rq[j]]
      /\ UNCHANGED <<held, facts, row, updates, now>>
  BY Zenon DEF Panic, PopNothing
<1>2. ASSUME NEW j \in Requests
      PROVE  /\ RequestOK(rq'[j], held[j], facts, row, updates, now)
             /\ rq'[j].pc = "query" => rq[j].pc = "query"
             /\ rq[j].pc = "registered" => rq'[j] = rq[j]
  <2> DEFINE r == rq[j]
             f == [r EXCEPT !.pc = "refused"]
  <2>1. RequestOK(r, held[j], facts, row, updates, now) BY Zenon DEF AuthInv
  <2>2. CASE r.pc \notin P
    <3>1. rq'[j] = r BY <1>1, <2>2, Zenon
    <3> QED BY <2>1, <3>1, Zenon
  <2>3. CASE r.pc \in P
    <3>1. rq'[j] = f BY <1>1, <2>3, Zenon
    <3>2. r = [x \in RqFields |-> r[x]] /\ r.kind = "approve"
      BY <2>1, <2>3, KindAt, Zenon DEF RequestOK, KindOK, AskPcs
    <3>3. /\ f = [x \in RqFields |-> f[x]] /\ f.kind = r.kind /\ f.op = r.op
          /\ f.pc = "refused" /\ f.phase = r.phase
          /\ f.seen = r.seen /\ f.nonce = r.nonce /\ f.exp = r.exp
      BY <3>2, Zenon DEF RqFields
    <3> HIDE DEF f
    <3>4. KindOK(f) BY <2>1, <3>2, <3>3, Zenon DEF RequestOK, KindOK, ApprovePcs
    <3>5. VerifyOK(f, held[j], facts) BY <2>1, <2>3, <3>3, Zenon DEF RequestOK, VerifyOK
    <3>6. RegisterOK(f, updates) BY <2>1, <3>2, <3>3, Zenon DEF RequestOK, RegisterOK
    <3>7. SignatureOK(f, held[j], row, now) BY <3>2, <3>3, Zenon DEF SignatureOK
    <3> QED BY <2>3, <3>1, <3>3, <3>4, <3>5, <3>6, <3>7, Zenon DEF RequestOK
  <2> QED BY <2>2, <2>3, Zenon
<1>3. RowOK' BY <1>1, <1>2, Zenon DEF AuthInv, RowOK, RowIsOneRegistration
<1>4. \A j, k \in Requests : rq'[j].pc = "query" /\ rq'[k].pc = "query" => j = k
  BY <1>2, Zenon DEF AuthInv
<1>5. /\ held' = [j \in Requests |-> held'[j]] /\ updates' \in Nat /\ now' \in Nat
      /\ rq' = [j \in Requests |-> rq'[j]]
  BY <1>1, Zenon DEF AuthInv
<1> QED BY <1>1, <1>2, <1>3, <1>4, <1>5, Zenon DEF AuthInv

\* The chain changes while one verification is in progress, which has then seen both.
LEMMA ChainChangesAuth ==
  ASSUME AuthInv, ChainChanges PROVE AuthInv'
<1>0. PICK i \in Requests :
        rq[i].pc = "query" /\ \E f : facts' = f /\ held' = [held EXCEPT ![i] = held[i] \cup f]
  BY Zenon DEF ChainChanges
<1>1. PICK f : rq[i].pc = "query" /\ facts' = f /\ held' = [held EXCEPT ![i] = held[i] \cup f]
  BY <1>0, Zenon
<1>2. rq' = rq /\ row' = row /\ updates' = updates /\ now' = now BY Zenon DEF ChainChanges
<1>3. held' = [j \in Requests |-> IF j = i THEN held[i] \cup f ELSE held[j]]
  BY <1>1, Zenon DEF AuthInv
<1>4. ASSUME NEW j \in Requests PROVE RequestOK(rq[j], held'[j], f, row, updates, now)
  <2>1. RequestOK(rq[j], held[j], facts, row, updates, now) BY Zenon DEF AuthInv
  <2>2. held[j] \subseteq held'[j] BY <1>3, Zenon
  <2>3. VerifyOK(rq[j], held'[j], f)
    <3>1. VerifyOK(rq[j], held[j], facts) BY <2>1, Zenon DEF RequestOK
    <3>2. rq[j].pc = "query" => f \subseteq held'[j] BY <1>1, <1>3, Zenon DEF AuthInv
    <3> QED BY <2>2, <3>1, <3>2, MeetsMore, Zenon DEF VerifyOK
  <2>4. SignatureOK(rq[j], held'[j], row, now)
    <3>1. SignatureOK(rq[j], held[j], row, now) BY <2>1, Zenon DEF RequestOK
    <3> QED BY <2>2, <3>1, Zenon DEF SignatureOK
  <2> QED BY <2>1, <2>3, <2>4, Zenon DEF RequestOK
<1>5. RowOK' BY <1>2, Zenon DEF AuthInv, RowOK, RowIsOneRegistration
<1>6. held' = [j \in Requests |-> held'[j]] BY <1>3, Zenon
<1> QED BY <1>1, <1>2, <1>4, <1>5, <1>6, Zenon DEF AuthInv

LEMMA ClockAuth ==
  ASSUME AuthInv, EventLoop \/ Tick \/ UNCHANGED authVars PROVE AuthInv'
<1>1. /\ UNCHANGED <<facts, row, updates, rq, held>>
      /\ now' = now \/ now' = now + 1
  BY Zenon DEF EventLoop, Tick, authVars
<1>2. ASSUME NEW j \in Requests PROVE RequestOK(rq[j], held[j], facts, row, updates, now')
  <2>1. RequestOK(rq[j], held[j], facts, row, updates, now) BY Zenon DEF AuthInv
  <2>2. rq[j].t0 \in Nat /\ rq[j].t0 <= now => rq[j].t0 <= now' BY <1>1 DEF AuthInv
  <2>3. SignatureOK(rq[j], held[j], row, now) BY <2>1, Zenon DEF RequestOK
  <2>4. SignatureOK(rq[j], held[j], row, now') BY <2>2, <2>3, Zenon DEF SignatureOK
  <2> QED BY <2>1, <2>4, Zenon DEF RequestOK
<1>3. RowOK' BY <1>1, Zenon DEF AuthInv, RowOK, RowIsOneRegistration
<1> QED BY <1>1, <1>2, <1>3 DEF AuthInv

LEMMA InitAuth == ASSUME AuthInit PROVE AuthInv
<1>1. PICK load \in Loads : rq = [i \in Requests |-> Idle(load, i)] BY Zenon DEF AuthInit
<1>2. /\ now = StartTime /\ facts = {} /\ row = NULL /\ updates = 0
      /\ held = [i \in Requests |-> {}] /\ StartTime \in Nat
  BY AuthAssumption, Zenon DEF AuthInit
<1>3. ASSUME NEW i \in Requests
      PROVE  RequestOK(rq[i], held[i], facts, row, updates, now) /\ rq[i].pc = "idle"
  <2> DEFINE r == rq[i]
  <2>1. r.op \in DOMAIN AuthOps \cup {"none"} BY <1>1, OpsAssumption, Zenon DEF Idle
  <2>2. r.pc = "idle" /\ r.phase = "none" /\ r.seen = {} /\ r.t0 = 0
    BY <1>1, Zenon DEF Idle
  <2>s. r = [x \in RqFields |-> r[x]] BY <1>1, Zenon DEF Idle, RqFields
  <2> HIDE DEF r
  <2>3. KindOK(r)
    BY <2>1, <2>2, <2>s, Zenon DEF KindOK, RegisterPcs, SignaturePcs, VerifyPcs, ApprovePcs
  <2>4. VerifyOK(r, held[i], facts) /\ RegisterOK(r, updates) /\ SignatureOK(r, held[i], row, now)
    BY <1>2, <2>2 DEF VerifyOK, RegisterOK, SignatureOK
  <2> QED BY <2>2, <2>3, <2>4, Zenon DEF RequestOK, r
<1> QED BY <1>1, <1>2, <1>3, Zenon DEF AuthInv, RowOK

LEMMA AuthSteps ==
  ASSUME AuthInv, Next \/ UNCHANGED vars PROVE AuthInv'
BY AuthStepAuth, AskStepAuth, PanicAuth, ChainChangesAuth, ClockAuth, Zenon DEF Next, vars

LEMMA AuthInvShows == AuthInv => AllowedOnFacts /\ RowIsOneRegistration /\ AcceptedByLiveKey
<1> SUFFICES ASSUME AuthInv PROVE AllowedOnFacts /\ RowIsOneRegistration /\ AcceptedByLiveKey
  BY Zenon
<1>1. RowIsOneRegistration BY Zenon DEF AuthInv, RowOK, RowIsOneRegistration
<1>2. AllowedOnFacts BY Zenon DEF AuthInv, RequestOK, VerifyOK, AllowedOnFacts
<1>3. ASSUME NEW i \in Requests, rq[i].pc = "accepted"
      PROVE  \E k \in held[i] : k.key = rq[i].key /\ k.exp >= rq[i].t0
  <2>1. RequestOK(rq[i], held[i], facts, row, updates, now) BY Zenon DEF AuthInv
  <2>2. rq[i].kind = "signature"
    BY <1>3, <2>1, Zenon DEF RequestOK, KindOK, RegisterPcs, VerifyPcs, ApprovePcs, AskPcs
  <2> QED BY <1>3, <2>1, <2>2, Zenon DEF RequestOK, SignatureOK
<1> QED BY <1>1, <1>2, <1>3, Zenon DEF AcceptedByLiveKey

LEMMA AuthInvHolds == AccessSpec => []AuthInv
<1>1. AccessInit => AuthInv BY InitAuth, Zenon DEF AccessInit, Init
<1>2. AuthInv /\ [AccessNext]_<<vars, signerVars>> => AuthInv' BY AuthSteps, Zenon DEF AccessNext
<1> QED BY <1>1, <1>2, PTL DEF AccessSpec

\* A request passes VerifyAuthentication only if every fact its operation requires was
\* true of the chain at some moment of the verification, for every operation, however
\* often the chain changes between the queries and whatever other requests do.
THEOREM VerifiedOnFacts == AccessSpec => []AllowedOnFacts
BY AuthInvHolds, AuthInvShows, PTL

\* The row of the key table is one registration as a whole, however many registrations
\* run together: UpdateAuthKey looks for the nonce in one statement and writes in
\* another, and the nonce that is written is the one its owner signed.
THEOREM RowsAreRegistrations == AccessSpec => []RowIsOneRegistration
BY AuthInvHolds, AuthInvShows, PTL

\* An off-chain signature is accepted only from a key that was registered during the
\* verification and had not expired when the request arrived (VerifyOffChainSignature).
THEOREM AcceptedKeysAreLive == AccessSpec => []AcceptedByLiveKey
BY AuthInvHolds, AuthInvShows, PTL
=============================================================================
