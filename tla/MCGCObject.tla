----------------------------- MODULE MCGCObject -----------------------------
EXTENDS GCObject, TLC

CONSTANTS e1, e2

\* Every object in a block of its own.
OwnBlocks == [o \in Objects |-> o]
=============================================================================
