------------------------ MODULE MCPostingOperations ------------------------
EXTENDS PostingOperations, TLC
CONSTANTS v1, v2, k1, k2
\* Every intent is v1's: v2 can only open sessions and meddle.
MCKeyViewer == [k \in Keys |-> v1]
\* One intent that is always posted as its viewer, one also as another user.
MCPostAs == [k \in Keys |-> IF k = k1 THEN {v1} ELSE Viewers]
\* One intent that is sent again and again, and one that competes with it.
MCAttemptsReplayed == [k \in Keys |-> IF k = k1 THEN 4 ELSE 2]
\* An intent that is sent twice, for the runs on a single intent.
MCAttemptsSentTwice == [k \in Keys |-> 2]
\* The post of the first intent is deleted once.
MCErasedOnce == [k \in Keys |-> IF k = k1 THEN 1 ELSE 0]
MCSymmetry == Permutations(Sessions) \union Permutations(Ops)
=============================================================================
