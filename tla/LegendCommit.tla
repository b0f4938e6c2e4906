---------------------------- MODULE LegendCommit ----------------------------
(***************************************************************************)
(* Legends of a post: the client stages a post's scopes, finalize commits  *)
(* the stage for the post it has created (resolveFinalizeLegendRewards and *)
(* runLegendsCommit of services/mutations/posting-mutation.service.ts,     *)
(* domains/legends/), and the client polls the post's result document.     *)
(*                                                                         *)
(* A run is one call of runLegendsCommit, with the priming that finalize   *)
(* does before it.  Runs of one post overlap: finalize goes on after a     *)
(* timeout and schedules another one, and every replay of finalize makes   *)
(* one.  All state is in Firestore, so a process that stops is a run that  *)
(* takes no further step.                                                  *)
(***************************************************************************)
EXTENDS Naturals, FiniteSets

CONSTANTS Posts, Users, Scopes,
          Author,          \* Author[p]: the effective author of post p
          Stages,          \* stages that clients create: legstage_<uuid>
          StagedScopes,    \* StagedScopes[s]: the scopes that client stage s is created with
          ScopesOf,        \* ScopesOf[p][s]: the scopes derived from post p, with what it lacks
                           \* filled in from the context of stage s
          SentWith,        \* SentWith[p]: the stage ids that requests send with post p
          Runs,            \* bound on calls of runLegendsCommit
          UserOrder,       \* how localeCompare orders user ids
          TopUsersCap,     \* rows kept in a scope's topUsers
          CloseThreshold,  \* CLOSE_TO_LEADER_THRESHOLD
          NoUser, NoPost, NoStage

\* The stage that processPostCreated makes for post p, legdirect_<p>, is p.
StageIds == Stages \union Posts

\* Any string is taken for a stage id, of a post's own stage too.
Sent == {s \in StageIds : \E p \in Posts : s \in SentWith[p]}

ASSUME LegendAssumption ==
    /\ Author \in [Posts -> Users]
    /\ IsFiniteSet(Posts)
    /\ UserOrder \in [Users -> Nat]
    /\ TopUsersCap \in Nat \ {0} /\ CloseThreshold \in Nat
    /\ NoUser \notin Users /\ NoPost \notin Posts /\ NoStage \notin StageIds
    /\ Stages \intersect Posts = {}

ASSUME StageAssumption ==
    /\ StagedScopes \in [Stages -> SUBSET Scopes]
    /\ ScopesOf \in [Posts -> [StageIds -> SUBSET Scopes]]
    /\ SentWith \in [Posts -> SUBSET (StageIds \union {NoStage})]

VARIABLES
    stage,       \* legendPostStages
    cancelling,  \* stages that cancelStage has read and will write
    processed,   \* processed[p]: the stage in p's processed marker, or NoStage
    counted,     \* counted[p]: the scopes that the marker's transaction counted
    scope,       \* legendScopes; a document exists once it has counted a post
    topUsers,    \* its topUsers: the counts of the users that have a row
    stat,        \* stat[g][u]: count of legendUserStats/{g}_{u}
    award,       \* legendAwards, of all users
    claim,       \* claim[g]: the post in the first claim of scope g, or NoPost
    result,      \* legendPostResults
    run          \* where each run is

ledger == <<processed, counted, scope, topUsers, stat, award, claim>>
legendVars == <<stage, cancelling, ledger, result, run>>

Kinds == {"first", "new_leader", "defended_lead", "rank_up", "close_to_leader"}
Awards == [post : Posts, scope : Scopes, kind : Kinds]

StageRecords ==
    [status : {"absent", "staged", "cancelled", "committed"},
     user : Users \union {NoUser}, scopes : SUBSET Scopes]

ResultRecords ==
    [status : {"absent", "pending", "ready", "none", "error"}, awards : SUBSET Awards]

Places == {"idle", "prime", "stage", "mark", "commit", "badges", "error", "done"}
RunRecords ==
    [at : Places, post : Posts \union {NoPost}, stage : StageIds \union {NoStage},
     awaited : BOOLEAN]
RunAt(place) == [at |-> place, post |-> NoPost, stage |-> NoStage, awaited |-> FALSE]

ScopeRecords == [total : Nat, leader : Users \union {NoUser}, leaderCount : Nat]
NewScope == [total |-> 0, leader |-> NoUser, leaderCount |-> 0]

TypeOK ==
    /\ stage \in [StageIds -> StageRecords]
    /\ cancelling \subseteq StageIds
    /\ processed \in [Posts -> StageIds \union {NoStage}]
    /\ counted \in [Posts -> SUBSET Scopes]
    /\ stat \in [Scopes -> [Users -> Nat]]
    /\ award \subseteq Awards
    /\ claim \in [Scopes -> Posts \union {NoPost}]
    /\ scope \in [Scopes -> ScopeRecords]
    /\ DOMAIN topUsers = Scopes
    /\ \A g \in Scopes : /\ DOMAIN topUsers[g] \subseteq Users
                         /\ topUsers[g] \in [DOMAIN topUsers[g] -> Nat]
    /\ result \in [Posts -> ResultRecords]
    /\ run \in [Runs -> RunRecords]
    /\ \A r \in Runs : run[r].at \in {"idle", "done"} \/ run[r].post \in Posts

Init ==
    /\ stage = [s \in StageIds |-> [status |-> "absent", user |-> NoUser, scopes |-> {}]]
    /\ cancelling = {}
    /\ processed = [p \in Posts |-> NoStage]
    /\ counted = [p \in Posts |-> {}]
    /\ scope = [g \in Scopes |-> NewScope]
    /\ topUsers = [g \in Scopes |-> [u \in {} |-> 0]]
    /\ stat = [g \in Scopes |-> [u \in Users |-> 0]]
    /\ award = {}
    /\ claim = [g \in Scopes |-> NoPost]
    /\ result = [p \in Posts |-> [status |-> "absent", awards |-> {}]]
    /\ run = [r \in Runs |-> RunAt("idle")]

Goto(r, place) == run' = [run EXCEPT ![r].at = place]

-----------------------------------------------------------------------------
(***************************************************************************)
(* Staging and cancelling, by clients.                                     *)
(***************************************************************************)

Staged(u, S) == [status |-> "staged", user |-> u, scopes |-> S]

StagePost(s, u) ==
    /\ s \in Stages /\ stage[s].status = "absent"
    /\ stage' = [stage EXCEPT ![s] = Staged(u, StagedScopes[s])]
    /\ UNCHANGED <<cancelling, ledger, result, run>>

\* cancelStage reads the stage; its owner may cancel what is not committed ...
ReadForCancel(s) ==
    /\ s \in Sent \ cancelling
    /\ stage[s].status \in {"staged", "cancelled"}
    /\ cancelling' = cancelling \union {s}
    /\ UNCHANGED <<stage, ledger, result, run>>

\* ... and then writes, whatever has become of the stage since.
CancelStage(s) ==
    /\ s \in cancelling
    /\ cancelling' = cancelling \ {s}
    /\ stage' = [stage EXCEPT ![s].status = "cancelled"]
    /\ UNCHANGED <<ledger, result, run>>

-----------------------------------------------------------------------------
(***************************************************************************)
(* A run up to its transaction.                                            *)
(***************************************************************************)

\* finalize, or a replay of it, of post p with legendStageId s or without one.
Finalize(r, p, s) ==
    /\ run[r].at = "idle" /\ s \in SentWith[p]
    /\ run' = [run EXCEPT ![r] = [at |-> "prime", post |-> p, stage |-> s, awaited |-> TRUE]]
    /\ UNCHANGED <<stage, cancelling, ledger, result>>

\* The result document is set to pending, whatever it was; a failure is ignored.
SetPending(p) ==
    \/ result' = [result EXCEPT ![p] = [status |-> "pending", awards |-> {}]]
    \/ UNCHANGED result

BeginWork(s) == IF s = NoStage THEN "stage" ELSE "mark"

Prime(r) ==
    /\ run[r].at = "prime"
    /\ SetPending(run[r].post)
    /\ Goto(r, BeginWork(run[r].stage))
    /\ UNCHANGED <<stage, cancelling, ledger>>

\* finalize has waited long enough for run r: it schedules run q, and answers.
SyncTimeout(r, q) ==
    /\ run[r].awaited /\ run[r].at \notin {"idle", "prime", "done"}
    /\ run[q].at = "idle"
    /\ run' = [run EXCEPT ![r].awaited = FALSE,
                          ![q] = [run[r] EXCEPT !.at = BeginWork(run[r].stage), !.awaited = FALSE]]
    /\ UNCHANGED <<stage, cancelling, ledger, result>>

\* Without a stage, processPostCreated reads the post and makes a stage, over
\* one that an earlier run has made.  A post that is not found ends the run.
CreateStage(r) ==
    /\ run[r].at = "stage"
    /\ \/ LET p == run[r].post
          IN  stage' = [stage EXCEPT ![p] = Staged(Author[p], ScopesOf[p][p])] /\ Goto(r, "mark")
       \/ UNCHANGED stage /\ Goto(r, "error")
       \/ UNCHANGED stage /\ run' = [run EXCEPT ![r] = RunAt("done")]
    /\ UNCHANGED <<cancelling, ledger, result>>

MarkPending(r) ==
    /\ run[r].at = "mark"
    /\ SetPending(run[r].post)
    /\ Goto(r, "commit")
    /\ UNCHANGED <<stage, cancelling, ledger>>

-----------------------------------------------------------------------------
(***************************************************************************)
(* What one post does to one scope: the leader, the top users, the award.  *)
(***************************************************************************)

\* Mutant: a tie takes the lead.
LeadsWithTie(g, u) == scope[g].leader \in {NoUser, u} \/ stat[g][u] + 1 >= scope[g].leaderCount

\* Mutant: the count from before the post is compared.
LeadsLate(g, u) == scope[g].leader \in {NoUser, u} \/ stat[g][u] > scope[g].leaderCount

\* With its next count, user u leads scope g: a tie keeps the leader.
Leads(g, u) == scope[g].leader \in {NoUser, u} \/ stat[g][u] + 1 > scope[g].leaderCount

\* sortTopUsersStable: by count, then by user id.
Before(rows, u, v) ==
    rows[u] > rows[v] \/ (rows[u] = rows[v] /\ UserOrder[u] < UserOrder[v])

Rank(rows, u) == 1 + Cardinality({v \in DOMAIN rows : Before(rows, v, u)})

CapTopUsers(rows) == [u \in {v \in DOMAIN rows : Rank(rows, v) <= TopUsersCap} |-> rows[u]]

\* Mutant: a row that is there already is kept.
MergeTopUsersStale(rows, u, n, leader, leaderCount) ==
    CapTopUsers([v \in DOMAIN rows \union {u, leader} |->
                   IF v \in DOMAIN rows THEN rows[v] ELSE IF v = u THEN n ELSE leaderCount])

\* The rows that are there and the author's new one; the leader's is raised to
\* the leader's count.
MergeTopUsers(rows, u, n, leader, leaderCount) ==
    LET merged == [v \in DOMAIN rows \union {u} |-> IF v = u THEN n ELSE rows[v]]
        Kept(v) == v \in DOMAIN merged /\ (v # leader \/ merged[v] > leaderCount)
    IN  CapTopUsers([v \in DOMAIN merged \union {leader} |->
                       IF Kept(v) THEN merged[v] ELSE leaderCount])

NextScope(g, u) ==
    [total |-> scope[g].total + 1,
     leader |-> IF Leads(g, u) THEN u ELSE scope[g].leader,
     leaderCount |-> IF Leads(g, u) THEN stat[g][u] + 1 ELSE scope[g].leaderCount]

NextTopUsers(g, u) ==
    MergeTopUsers(topUsers[g], u, stat[g][u] + 1, NextScope(g, u).leader, NextScope(g, u).leaderCount)

\* Mutant: the scope is new when it is new to the author.
IsFirstOfAuthor(g, u) == stat[g][u] = 0

IsFirst(g, u) == scope[g].total = 0

\* User u has risen among the top users, or is in the first three for the first
\* time, without being the first of them.
RanksUp(rows, next, u) ==
    /\ u \in DOMAIN next /\ Rank(next, u) # 1
    /\ IF u \in DOMAIN rows
       THEN Rank(next, u) < Rank(rows, u) \/ (Rank(next, u) <= 3 /\ Rank(rows, u) > 3)
       ELSE Rank(next, u) <= 3

\* decideAward: what user u is awarded in scope g for a post: one award, or none.
AwardKinds(g, u) ==
    LET next == NextScope(g, u)
        behind == next.leaderCount - (stat[g][u] + 1)
    IN  IF IsFirst(g, u) THEN {"first"}
        ELSE IF next.leader = u /\ scope[g].leader # u THEN {"new_leader"}
        ELSE IF next.leader = u THEN {"defended_lead"}
        ELSE IF RanksUp(topUsers[g], NextTopUsers(g, u), u) THEN {"rank_up"}
        ELSE IF 0 < behind /\ behind <= CloseThreshold THEN {"close_to_leader"}
        ELSE {}

AwardsOf(p, S) ==
    {a \in Awards : a.post = p /\ a.scope \in S /\ a.kind \in AwardKinds(a.scope, Author[p])}

-----------------------------------------------------------------------------
(***************************************************************************)
(* The transaction.  Firestore's are serializable, so it is one step; what *)
(* the hydrated post says of its eligibility is read before it.            *)
(***************************************************************************)

Stage(r) == IF run[r].stage = NoStage THEN run[r].post ELSE run[r].stage

\* Mutant: the marker is not read.
MayCommitAgain(r) ==
    /\ run[r].at = "commit"
    /\ stage[Stage(r)].status = "staged" /\ stage[Stage(r)].user = Author[run[r].post]

\* Mutant: the status of the stage is not looked at.
MayCommitAnyStage(r) ==
    /\ run[r].at = "commit" /\ processed[run[r].post] = NoStage
    /\ stage[Stage(r)].user = Author[run[r].post]

MayCommit(r) ==
    /\ run[r].at = "commit" /\ processed[run[r].post] = NoStage
    /\ stage[Stage(r)].status = "staged" /\ stage[Stage(r)].user = Author[run[r].post]

AlreadyProcessed(r) ==
    /\ run[r].at = "commit" /\ processed[run[r].post] # NoStage
    /\ Goto(r, "badges")
    /\ UNCHANGED <<stage, cancelling, ledger, result>>

\* A stage that is missing, of another user, used, cancelled or expired, a post
\* that is not ready, or Firestore: the transaction throws and writes nothing,
\* not even the expired mark.
CommitThrows(r) ==
    /\ run[r].at = "commit"
    /\ Goto(r, "error")
    /\ UNCHANGED <<stage, cancelling, ledger, result>>

\* The marker and the stage, as both outcomes write them.
Settle(r) ==
    /\ processed' = [processed EXCEPT ![run[r].post] = Stage(r)]
    /\ stage' = [stage EXCEPT ![Stage(r)].status = "committed"]
    /\ Goto(r, "badges")
    /\ UNCHANGED cancelling

SetResult(p, status, awards) ==
    result' = [result EXCEPT ![p] = [status |-> status, awards |-> awards]]

\* Mutant: a post that is not eligible is not marked, so it may be again.
CommitIneligibleUnmarked(r) ==
    /\ MayCommit(r)
    /\ Goto(r, "badges")
    /\ SetResult(run[r].post, "none", {})
    /\ UNCHANGED <<stage, cancelling, ledger>>

\* The post is private, hidden or deleted.
CommitIneligible(r) ==
    /\ MayCommit(r)
    /\ Settle(r)
    /\ SetResult(run[r].post, "none", {})
    /\ UNCHANGED <<counted, scope, topUsers, stat, award, claim>>

\* The scopes of the stage or, when it has none, of the post with the stage's context.
CommitScopes(r) ==
    IF stage[Stage(r)].scopes # {} THEN stage[Stage(r)].scopes
    ELSE ScopesOf[run[r].post][Stage(r)]

CommitEligible(r) ==
    LET p == run[r].post
        u == Author[p]
        S == CommitScopes(r)
        awards == AwardsOf(p, S)
    IN  /\ MayCommit(r)
        /\ Settle(r)
        /\ counted' = [counted EXCEPT ![p] = S]
        /\ scope' = [g \in Scopes |-> IF g \in S THEN NextScope(g, u) ELSE scope[g]]
        /\ topUsers' = [g \in Scopes |-> IF g \in S THEN NextTopUsers(g, u) ELSE topUsers[g]]
        /\ stat' = [g \in Scopes |-> IF g \in S THEN [stat[g] EXCEPT ![u] = @ + 1] ELSE stat[g]]
        /\ award' = award \union awards
        /\ claim' = [g \in Scopes |->
                       IF g \in S /\ IsFirst(g, u) /\ claim[g] = NoPost THEN p ELSE claim[g]]
        /\ SetResult(p, IF awards = {} THEN "none" ELSE "ready", awards)

\* The leader badges are synchronised; whoever waits for the run goes on.
FinishRun(r) ==
    /\ run[r].at = "badges"
    /\ \/ run' = [run EXCEPT ![r] = RunAt("done")]
       \/ Goto(r, "error")
    /\ UNCHANGED <<stage, cancelling, ledger, result>>

\* Mutant: the status is one of an older contract of the polling route.
MarkFailed(r) ==
    /\ run[r].at = "error"
    /\ run' = [run EXCEPT ![r] = RunAt("done")]
    /\ result' = [result EXCEPT ![run[r].post].status = "failed"]
    /\ UNCHANGED <<stage, cancelling, ledger>>

\* What threw, the transaction or the badges, is written to the result; a
\* failure to do that is ignored.
MarkError(r) ==
    /\ run[r].at = "error"
    /\ run' = [run EXCEPT ![r] = RunAt("done")]
    /\ \/ result' = [result EXCEPT ![run[r].post].status = "error"]
       \/ UNCHANGED result
    /\ UNCHANGED <<stage, cancelling, ledger>>

-----------------------------------------------------------------------------
Step(r) ==
    \/ Prime(r) \/ CreateStage(r) \/ MarkPending(r)
    \/ AlreadyProcessed(r) \/ CommitThrows(r) \/ CommitIneligible(r) \/ CommitEligible(r)
    \/ FinishRun(r) \/ MarkError(r)

Next ==
    \/ \E s \in Sent : ReadForCancel(s) \/ CancelStage(s)
    \/ \E s \in Stages, u \in Users : StagePost(s, u)
    \/ \E r \in Runs :
        \/ \E p \in Posts : \E s \in SentWith[p] : Finalize(r, p, s)
        \/ \E q \in Runs : SyncTimeout(r, q)
        \/ Step(r)

Spec == Init /\ [][Next]_legendVars

-----------------------------------------------------------------------------
\* The posts that scope g has counted, and those of user u.
PostsIn(g) == {p \in Posts : g \in counted[p]}
PostsOf(g, u) == {p \in Posts : g \in counted[p] /\ Author[p] = u}

\* The counters of users and scopes, which transactions increment, agree with
\* the posts that have a marker: each is counted once, in the scopes of the
\* stage that settled it, however many runs and replays it had.
CountsMatchLedger ==
    \A g \in Scopes :
        /\ scope[g].total = Cardinality(PostsIn(g))
        /\ \A u \in Users : stat[g][u] = Cardinality(PostsOf(g, u))

\* The recorded leader has as many posts as is recorded, and nobody has more.
LeaderHasMost ==
    \A g \in Scopes : scope[g].total > 0 =>
        /\ scope[g].leader \in Users
        /\ scope[g].leaderCount = stat[g][scope[g].leader]
        /\ \A u \in Users : stat[g][u] <= scope[g].leaderCount

\* What a scan of all counts of scope g would find.
Counts(g) == [u \in {v \in Users : stat[g][v] > 0} |-> stat[g][u]]

\* The top users, each merged when it posts and dropped when it is beaten, are
\* those that a scan of all counts would find.
TopUsersAreTop == \A g \in Scopes : topUsers[g] = CapTopUsers(Counts(g))

\* What an award for a post of user u in scope g says of the counts of all
\* users, before that post and after it.
SaysTrue(kind, g, u) ==
    CASE kind = "first" -> \A v \in Users : stat[g][v] = 0
      [] kind = "new_leader" ->
           /\ \A v \in Users \ {u} : stat'[g][v] < stat'[g][u]
           /\ \E v \in Users \ {u} : stat[g][v] >= stat[g][u]
      [] kind = "defended_lead" -> \A v \in Users : stat[g][v] <= stat[g][u]
      [] kind = "rank_up" ->
           /\ \E v \in DOMAIN Counts(g)' : Before(Counts(g)', v, u)
           /\ stat[g][u] = 0 \/ Rank(Counts(g)', u) < Rank(Counts(g), u)
      [] kind = "close_to_leader" ->
           \E v \in Users : /\ stat'[g][u] < stat'[g][v]
                            /\ stat'[g][v] <= stat'[g][u] + CloseThreshold

\* An award, decided from the scope's document and its few top users, is true of
\* the counts of all.
AwardsAreEarned ==
    [][\A a \in award' \ award : SaysTrue(a.kind, a.scope, Author[a.post])]_legendVars

FirstPosts(g) == {a.post : a \in {b \in award : b.scope = g /\ b.kind = "first"}}

\* A scope is found first by one post, which the permanent claim names.
FirstClaimIsFirst ==
    \A g \in Scopes : FirstPosts(g) = IF claim[g] = NoPost THEN {} ELSE {claim[g]}

\* A client's stage pays for one post, also when it is sent with two of them and
\* when a cancel that has read it writes after the commit.  (A post's own stage,
\* which each run without a stage makes anew, may pay for another post as well,
\* when a client sends its id with that one.)
StagePaysOnce ==
    \A p, q \in Posts : processed[p] \in Stages /\ processed[p] = processed[q] => p = q

AwardsFor(p) == {a \in award : a.post = p}

\* A client that polls is told of awards that exist, and of none only when the
\* post is settled without any.
ResultIsTrue ==
    \A p \in Posts :
        /\ result[p].awards \in {{}, AwardsFor(p)}
        /\ result[p].status \in {"ready", "none"} =>
            /\ processed[p] # NoStage
            /\ result[p].awards = AwardsFor(p)
            /\ result[p].status = "ready" <=> result[p].awards # {}

\* What makes these inductive: the marker and everything that is counted come
\* in one step, a client's stage that paid is not staged again, and a scope is empty in
\* all its documents or in none.
UnsettledIsUncounted ==
    \A p \in Posts : processed[p] = NoStage =>
        counted[p] = {} /\ \A a \in award : a.post # p

PaidStageIsUsed ==
    \A p \in Posts :
        \/ processed[p] \notin Stages
        \/ stage[processed[p]].status \in {"cancelled", "committed"}

EmptyScopeIsEmpty ==
    \A g \in Scopes :
        /\ scope[g].total = 0 =>
            scope[g].leader = NoUser /\ \A u \in Users : stat[g][u] = 0
        /\ scope[g].total = 0 <=> claim[g] = NoPost

LegendInvariant ==
    /\ TypeOK /\ UnsettledIsUncounted /\ PaidStageIsUsed /\ EmptyScopeIsEmpty
    /\ CountsMatchLedger /\ LeaderHasMost /\ FirstClaimIsFirst /\ StagePaysOnce /\ ResultIsTrue

Board == INSTANCE Leaderboard WITH
    settled <- {p \in Posts : processed[p] # NoStage},
    legend <- [g \in Scopes |-> scope[g].leader]

\* Every step is a step of the leaderboard's contract, whose legends go by the
\* posts that were counted and not by counters.
ImplementsLeaderboard == Board!Spec

\* docs/audits/legends-system-audit-2026-05-05.md: "Finalize retried (same
\* idempotency key): safe", "Background legend worker runs twice: safe": the
\* awards that a post's result shows stay there.
ReadyStaysReady ==
    [][\A p \in Posts : result[p].status = "ready" => result'[p] = result[p]]_legendVars
=============================================================================
