------------------------ MODULE MCPostingPersistence ------------------------
EXTENDS PostingPersistence, TLC
CONSTANTS w1, w2, w3, r1
\* Calls of mutate, and calls of getState, differ only in what they write.
CallSymmetry == Permutations(Writers)
=============================================================================
