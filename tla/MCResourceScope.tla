-------------------------- MODULE MCResourceScope --------------------------
(* Small instances of ResourceScope. *)
EXTENDS ResourceScope, TLC

CONSTANTS sa, sb, p1, p2, p3

MCServices == {sa, sb}
MCCallers  == {p1, p2, p3}
MCExecutors == {p1, p2}
MCOwner    == p1 :> sa @@ p2 :> sa @@ p3 :> sb

Lim(memory, tasks, high, medium, low, conns) ==
  [k \in LimitKinds |->
     CASE k = "memory" -> memory [] k = "tasks" -> tasks [] k = "high" -> high
       [] k = "medium" -> medium [] k = "low" -> low [] OTHER -> conns]

Stat(memory, high, medium, low) ==
  [k \in Kinds |->
     CASE k = "memory" -> memory [] k = "high" -> high
       [] k = "medium" -> medium [] k = "low" -> low [] OTHER -> 0]

\* A replicate task (high), a seal task (medium), and
\* a low level task too large for a service.
MCStats == {Stat(1, 1, 0, 0), Stat(1, 0, 1, 0), Stat(3, 0, 0, 1)}

\* Limits in which no level runs out before the level above it.
MCLimits == [s \in {sa, sb, SYS} |-> IF s = SYS THEN Lim(2, 6, 2, 2, 2, 1)
                                                ELSE Lim(2, 4, 1, 1, 1, 1)]

MCMemoryOps == {<<1, 152>>}

\* The two callers of one service do the same things.
Symmetry == Permutations(MCExecutors)
=============================================================================
