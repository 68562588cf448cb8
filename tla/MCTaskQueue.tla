---------------------------- MODULE MCTaskQueue ----------------------------
(* Three keys and three create times against a capacity of two: full queues, *)
(* repeated keys, tasks created in the same second and retirement all occur. *)
EXTENDS TaskQueue

MCKeys == 1..3
MCTimes == 1..3
============================================================================
