--------------------------- MODULE MCMutationLock ---------------------------
EXTENDS MutationLock, TLC
CONSTANTS k1, c1, c2, c3
\* Three calls compete for one key; no action relates two keys.
MCKeyOf == [c \in Calls |-> k1]
=============================================================================
