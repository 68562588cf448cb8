-------------------------- MODULE MCReplicatePiece --------------------------
(* Two runs over three secondaries, with approvals in different orders: the *)
(* first run has an approval to spare, the second may get none.             *)
EXTENDS ReplicatePiece, TLC

CONSTANTS a, b, c, e1, e2

MCOffers == (e1 :> {<<b, a, c>>}) @@ (e2 :> {<< >>, <<a, b>>})
=============================================================================
