-------------------------- MODULE MCUploadPipeline --------------------------
(* Instances of UploadPipeline for TLC. *)
EXTENDS UploadPipeline, TLC

CONSTANTS e1, e2, h1, h2

Symmetry == Permutations(Executors) \cup Permutations(Handlers)

\* One plain upload per object.
MCPlain == {[stage |-> "upload", key |-> o, o |-> o, last |-> TRUE] : o \in Objects}

\* An object in two parts: keys 10 o + 1 and 10 o + 2.
MCParts == {[stage |-> "resumable", key |-> 10 * o + p, o |-> o, last |-> p = 2] :
              o \in Objects, p \in {1, 2}}

MCRetryOnce == [upload |-> 0, resumable |-> 0, replicate |-> 1, seal |-> 1]
MCCap == [upload |-> 2, resumable |-> 2, replicate |-> 2, seal |-> 2]
MCCapOne == [s \in Stages |-> 1]
=============================================================================
