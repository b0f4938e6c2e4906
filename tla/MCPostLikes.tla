---------------------------- MODULE MCPostLikes ----------------------------
EXTENDS PostLikes, TLC
CONSTANTS i1, i2, v1, v2
\* Sound: the properties are invariants, and treat instances and viewers alike.
Alike == Permutations(Instances) \union Permutations(Viewers)
=============================================================================
