---------------------------- MODULE Leaderboard ----------------------------
(***************************************************************************)
(* What the legends promise: each post is settled at most once, for scopes *)
(* that are fixed then, and the legend of a scope changes only when the    *)
(* author of the post that is settled has strictly more posts there than   *)
(* the legend has.  LegendCommit implements it.                            *)
(***************************************************************************)
EXTENDS FiniteSets, Naturals

CONSTANTS Posts, Users, Scopes,
          Author,    \* Author[p]: the user that post p counts for
          NoUser

VARIABLES settled,   \* posts that have been settled
          counted,   \* counted[p]: the scopes that post p counts in
          legend     \* legend[g]: the user who leads scope g, or NoUser

\* The posts of user u that count in scope g.
Tally(count, g, u) == Cardinality({p \in Posts : g \in count[p] /\ Author[p] = u})

Init ==
    /\ settled = {}
    /\ counted = [p \in Posts |-> {}]
    /\ legend = [g \in Scopes |-> NoUser]

Overtakes(count, g, u) ==
    legend[g] = NoUser \/ Tally(count, g, u) > Tally(count, g, legend[g])

Settle(p, S) ==
    /\ p \notin settled
    /\ settled' = settled \union {p}
    /\ counted' = [counted EXCEPT ![p] = S]
    /\ legend' = [g \in Scopes |->
                    IF g \in S /\ Overtakes(counted', g, Author[p]) THEN Author[p] ELSE legend[g]]

Next == \E p \in Posts, S \in SUBSET Scopes : Settle(p, S)

Spec == Init /\ [][Next]_<<settled, counted, legend>>
=============================================================================
