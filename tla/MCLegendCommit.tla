--------------------------- MODULE MCLegendCommit ---------------------------
EXTENDS LegendCommit, TLC
CONSTANTS u1, u2, p1, p2, p3, s1, g1
\* One post of one user and two of another: enough for a tie and an overtaking.
MCAuthor == [p \in Posts |-> IF p = p1 THEN u1 ELSE u2]
\* The client's stage has a context and no scopes; the last post is nowhere by itself.
MCStagedScopes == [s \in Stages |-> {}]
MCScopesOf == [p \in Posts |-> [s \in StageIds |-> IF p = p3 /\ s = p THEN {} ELSE {g1}]]
\* The client's stage is sent with two posts, one of which is also sent with the
\* other's own stage.
MCSentWith == [p \in Posts |-> CASE p = p1 -> {NoStage}
                                 [] p = p2 -> {NoStage, s1}
                                 [] p = p3 -> {s1, p2}]
MCSentAlone == [p \in Posts |-> {NoStage, s1}]
MCUserOrder == [u \in Users |-> IF u = u1 THEN 2 ELSE 1]
MCSymmetry == Permutations(Runs)
=============================================================================
