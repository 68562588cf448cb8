--------------------------- MODULE MCP2PApproval ---------------------------
(* Two calls for one object; two nodes, of different providers, one of which *)
(* comes and goes.                                                          *)
EXTENDS P2PApproval, TLC

CONSTANTS r1, r2, n1, n2, a, b, me

MCObj == (r1 :> 1) @@ (r2 :> 1)
MCSpOf == (n1 :> a) @@ (n2 :> b)
MCSpLists == {{a, b, me}, {b, me}}
=============================================================================
