----------------------------- MODULE MCDownload -----------------------------
(* Two concurrent reads of an object of two segments, for the quota, and a    *)
(* read of one segment with a piece store that loses it, for the recovery.   *)
EXTENDS Download, TLC

\* A range across the segments that starts inside one, a range that does not exist,
\* the whole object, and the challenge of a segment.
QuotaAsks ==
  {[kind |-> "object", low |-> 1, high |-> -1],
   [kind |-> "object", low |-> 2, high |-> 1],
   [kind |-> "universal", low |-> 0, high |-> -1],
   [kind |-> "challenge", piece |-> 1]}

\* The whole object, and a challenge of the piece this provider holds as a secondary.
RecoveryAsks ==
  {[kind |-> "object", low |-> 0, high |-> -1],
   [kind |-> "challenge", piece |-> 7]}

RequestSymmetry == Permutations(Requests)
=============================================================================
