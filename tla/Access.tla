------------------------------- MODULE Access -------------------------------
(***************************************************************************)
(* The services that stand between a request and the chain, together: the  *)
(* authenticator and the approver on one side, the signer's transactions   *)
(* on the other.  A request is of one kind, and a kind of the signer's     *)
(* makes it a call of the signer.                                          *)
(***************************************************************************)
EXTENDS Approver, Signer

AccessInit == Init /\ SignerInit([i \in Requests |-> rq[i].kind])

AccessNext ==
  \/ Next /\ UNCHANGED signerVars
  \/ SignerNext /\ UNCHANGED vars

AccessSpec == AccessInit /\ [][AccessNext]_<<vars, signerVars>>
=============================================================================
