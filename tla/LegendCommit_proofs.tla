------------------------ MODULE LegendCommit_proofs ------------------------
(***************************************************************************)
(* Proofs about LegendCommit: its types, its counters, leaders, claims and *)
(* results, and that it implements Leaderboard.                            *)
(***************************************************************************)
EXTENDS LegendCommit, FiniteSetTheorems, WellFoundedInduction, TLAPS

-----------------------------------------------------------------------------
(***************************************************************************)
(* Types.                                                                  *)
(***************************************************************************)

\* A run that moves to a place keeps its type.
LEMMA GotoType ==
    ASSUME TypeOK, NEW r \in Runs, NEW place \in Places, Goto(r, place),
           run[r].at \notin {"idle", "done"}
    PROVE  /\ run' \in [Runs -> RunRecords]
           /\ \A q \in Runs : run'[q].at \in {"idle", "done"} \/ run'[q].post \in Posts
  BY DEF TypeOK, Goto, RunRecords

\* So does one that ends.
LEMMA EndType ==
    ASSUME TypeOK, NEW r \in Runs, run' = [run EXCEPT ![r] = RunAt("done")]
    PROVE  /\ run' \in [Runs -> RunRecords]
           /\ \A q \in Runs : run'[q].at \in {"idle", "done"} \/ run'[q].post \in Posts
  BY DEF TypeOK, RunAt, RunRecords, Places

\* What clients send are stage ids.
LEMMA SentType ==
    /\ Sent \subseteq StageIds
    /\ \A p \in Posts : SentWith[p] \subseteq StageIds \union {NoStage}
<1>1. \A p \in Posts : SentWith[p] \subseteq StageIds \union {NoStage}
  BY StageAssumption DEF StageAssumption
<1>2. Sent \subseteq StageIds
  BY DEF Sent
<1>3. QED
  BY <1>1, <1>2

\* What they stage, and what a post and a stage are worth, are scopes.
LEMMA ScopesType ==
    /\ \A s \in Stages : StagedScopes[s] \in SUBSET Scopes
    /\ \A p \in Posts, s \in StageIds : ScopesOf[p][s] \in SUBSET Scopes
  BY StageAssumption DEF StageAssumption

\* The scopes that a transaction goes by.
LEMMA CommitScopesType ==
    ASSUME TypeOK, NEW r \in Runs, run[r].post \in Posts, Stage(r) \in StageIds
    PROVE  CommitScopes(r) \in SUBSET Scopes
<1>1. stage[Stage(r)].scopes \in SUBSET Scopes
  BY DEF TypeOK, StageRecords
<1>2. ScopesOf[run[r].post][Stage(r)] \in SUBSET Scopes
  BY ScopesType
<1>3. QED
  BY <1>1, <1>2 DEF CommitScopes

\* The post and the stage of a run that is somewhere.
LEMMA RunType ==
    ASSUME LegendAssumption, TypeOK, NEW r \in Runs, run[r].at \notin {"idle", "done"}
    PROVE  /\ run[r].post \in Posts /\ Author[run[r].post] \in Users
           /\ Stage(r) \in StageIds
  BY DEF LegendAssumption, TypeOK, RunRecords, Stage, StageIds

\* A stage whose status changes keeps its type.
LEMMA StatusType ==
    ASSUME TypeOK, NEW s \in StageIds, NEW status \in {"cancelled", "committed"},
           stage' = [stage EXCEPT ![s].status = status]
    PROVE  stage' \in [StageIds -> StageRecords]
<1>1. stage[s] \in StageRecords
  BY DEF TypeOK
<1>2. [stage[s] EXCEPT !.status = status] \in StageRecords
  BY <1>1 DEF StageRecords
<1>3. QED
  BY <1>2 DEF TypeOK

\* What both outcomes of a transaction write keeps its type.
LEMMA SettleType ==
    ASSUME LegendAssumption, TypeOK, NEW r \in Runs, run[r].at = "commit", Settle(r)
    PROVE  /\ stage' \in [StageIds -> StageRecords]
           /\ processed' \in [Posts -> StageIds \union {NoStage}]
           /\ cancelling' = cancelling
           /\ run' \in [Runs -> RunRecords]
           /\ \A q \in Runs : run'[q].at \in {"idle", "done"} \/ run'[q].post \in Posts
<1>1. run[r].post \in Posts /\ Stage(r) \in StageIds
  BY RunType
<1>2. stage' \in [StageIds -> StageRecords]
  BY <1>1, StatusType DEF Settle
<1>3. processed' \in [Posts -> StageIds \union {NoStage}]
  BY <1>1 DEF Settle, TypeOK
<1>4. Goto(r, "badges")
  BY DEF Settle
<1>5. QED
  BY <1>2, <1>3, <1>4, GotoType DEF Settle, Places

\* A result that is set has its type.
LEMMA SetResultType ==
    ASSUME TypeOK, NEW p \in Posts, NEW status \in {"none", "ready"}, NEW awards \in SUBSET Awards,
           SetResult(p, status, awards)
    PROVE  result' \in [Posts -> ResultRecords]
  BY DEF SetResult, TypeOK, ResultRecords

\* What a post does to a scope is a scope.
LEMMA NextScopeType ==
    ASSUME TypeOK, NEW g \in Scopes, NEW u \in Users
    PROVE  /\ NextScope(g, u) \in ScopeRecords
           /\ NextScope(g, u).leader \in Users
           /\ DOMAIN NextTopUsers(g, u) \subseteq Users
           /\ NextTopUsers(g, u) \in [DOMAIN NextTopUsers(g, u) -> Nat]
<1>1. stat[g][u] \in Nat /\ scope[g] \in ScopeRecords
  BY DEF TypeOK
<1>2. /\ NextScope(g, u) \in ScopeRecords /\ NextScope(g, u).leader \in Users
      /\ NextScope(g, u).leaderCount \in Nat
  <2>1. CASE Leads(g, u)
    BY <1>1, <2>1 DEF NextScope, ScopeRecords
  <2>2. CASE ~ Leads(g, u)
    BY <1>1, <2>2 DEF NextScope, ScopeRecords, Leads
  <2>3. QED
    BY <2>1, <2>2
<1>3. /\ DOMAIN NextTopUsers(g, u) \subseteq DOMAIN topUsers[g] \union {u, NextScope(g, u).leader}
      /\ \A v \in DOMAIN NextTopUsers(g, u) :
            \/ NextTopUsers(g, u)[v] = NextScope(g, u).leaderCount
            \/ NextTopUsers(g, u)[v] = stat[g][u] + 1
            \/ v \in DOMAIN topUsers[g] /\ NextTopUsers(g, u)[v] = topUsers[g][v]
      /\ NextTopUsers(g, u) = [v \in DOMAIN NextTopUsers(g, u) |-> NextTopUsers(g, u)[v]]
  BY DEF NextTopUsers, MergeTopUsers, CapTopUsers
<1>4. DOMAIN topUsers[g] \subseteq Users /\ topUsers[g] \in [DOMAIN topUsers[g] -> Nat]
  BY DEF TypeOK
<1>5. \A v \in DOMAIN NextTopUsers(g, u) : NextTopUsers(g, u)[v] \in Nat
  BY <1>1, <1>2, <1>3, <1>4
<1>6. QED
  BY <1>2, <1>3, <1>4, <1>5

\* What a commit writes keeps its type.
LEMMA CommitEligibleType ==
    ASSUME LegendAssumption, TypeOK, NEW r \in Runs, CommitEligible(r)
    PROVE  TypeOK'
<1> DEFINE p == run[r].post
           u == Author[p]
           S == CommitScopes(r)
<1>1. run[r].at = "commit"
  BY DEF CommitEligible, MayCommit
<1>2. p \in Posts /\ u \in Users /\ Stage(r) \in StageIds
  BY <1>1, RunType
<1>3. S \in SUBSET Scopes
  BY <1>2, CommitScopesType
<1>4. Settle(r)
  BY DEF CommitEligible
<1>5. counted' \in [Posts -> SUBSET Scopes]
  <2>1. counted' = [counted EXCEPT ![p] = S]
    BY DEF CommitEligible
  <2>2. QED
    BY <1>2, <1>3, <2>1 DEF TypeOK
<1>6. scope' \in [Scopes -> ScopeRecords]
  <2>1. scope' = [g \in Scopes |-> IF g \in S THEN NextScope(g, u) ELSE scope[g]]
    BY DEF CommitEligible
  <2>2. \A g \in Scopes : NextScope(g, u) \in ScopeRecords /\ scope[g] \in ScopeRecords
    BY <1>2, NextScopeType DEF TypeOK
  <2>3. QED
    BY <2>1, <2>2
<1>7. /\ DOMAIN topUsers' = Scopes
      /\ \A g \in Scopes : /\ DOMAIN topUsers'[g] \subseteq Users
                           /\ topUsers'[g] \in [DOMAIN topUsers'[g] -> Nat]
  <2>1. topUsers' = [g \in Scopes |-> IF g \in S THEN NextTopUsers(g, u) ELSE topUsers[g]]
    BY DEF CommitEligible
  <2>2. \A g \in Scopes : topUsers'[g] = NextTopUsers(g, u) \/ topUsers'[g] = topUsers[g]
    BY <2>1
  <2>3. \A g \in Scopes :
           /\ DOMAIN NextTopUsers(g, u) \subseteq Users
           /\ NextTopUsers(g, u) \in [DOMAIN NextTopUsers(g, u) -> Nat]
           /\ DOMAIN topUsers[g] \subseteq Users
           /\ topUsers[g] \in [DOMAIN topUsers[g] -> Nat]
    BY <1>2, NextScopeType DEF TypeOK
  <2>4. DOMAIN topUsers' = Scopes
    BY <2>1
  <2>5. QED
    BY <2>2, <2>3, <2>4
<1>8. stat' \in [Scopes -> [Users -> Nat]]
  <2>1. stat' = [g \in Scopes |-> IF g \in S THEN [stat[g] EXCEPT ![u] = @ + 1] ELSE stat[g]]
    BY DEF CommitEligible
  <2>2. \A g \in Scopes : stat[g] \in [Users -> Nat] /\ [stat[g] EXCEPT ![u] = @ + 1] \in [Users -> Nat]
    BY <1>2 DEF TypeOK
  <2>3. QED
    BY <2>1, <2>2
<1>9. AwardsOf(p, S) \subseteq Awards
  BY DEF AwardsOf
<1>10. award' \subseteq Awards
  BY <1>9 DEF CommitEligible, TypeOK
<1>11. claim' \in [Scopes -> Posts \union {NoPost}]
  <2>1. claim' = [g \in Scopes |->
                    IF g \in S /\ IsFirst(g, u) /\ claim[g] = NoPost THEN p ELSE claim[g]]
    BY DEF CommitEligible
  <2>2. \A g \in Scopes : claim[g] \in Posts \union {NoPost}
    BY DEF TypeOK
  <2>3. QED
    BY <1>2, <2>1, <2>2
<1>12. result' \in [Posts -> ResultRecords]
  <2>1. SetResult(p, IF AwardsOf(p, S) = {} THEN "none" ELSE "ready", AwardsOf(p, S))
    BY DEF CommitEligible
  <2>2. QED
    BY <1>2, <1>9, <2>1, SetResultType
<1>13. QED
  BY <1>1, <1>4, <1>5, <1>6, <1>7, <1>8, <1>10, <1>11, <1>12, SettleType DEF TypeOK

\* The result document of a post that exists is set to a result.
LEMMA SetPendingType ==
    ASSUME TypeOK, NEW p \in Posts, SetPending(p)
    PROVE  result' \in [Posts -> ResultRecords]
  BY DEF SetPending, TypeOK, ResultRecords

LEMMA TypePreserved ==
    ASSUME LegendAssumption, TypeOK, [Next]_legendVars
    PROVE  TypeOK'
<1>1. CASE UNCHANGED legendVars
  BY <1>1 DEF legendVars, ledger, TypeOK
<1>2. ASSUME NEW s \in Sent, ReadForCancel(s) \/ CancelStage(s)
      PROVE  TypeOK'
  <2>0. s \in StageIds
    BY SentType
  <2>1. stage' \in [StageIds -> StageRecords] /\ cancelling' \subseteq StageIds
    BY <1>2, <2>0, StatusType DEF ReadForCancel, CancelStage, TypeOK
  <2>2. UNCHANGED <<ledger, result, run>>
    BY <1>2 DEF ReadForCancel, CancelStage
  <2>3. QED
    BY <2>1, <2>2 DEF TypeOK, ledger
<1>3. ASSUME NEW s \in Stages, NEW u \in Users, StagePost(s, u)
      PROVE  TypeOK'
  <2>0. StagedScopes[s] \in SUBSET Scopes
    BY ScopesType
  <2>1. stage' \in [StageIds -> StageRecords]
    BY <1>3, <2>0 DEF StagePost, Staged, TypeOK, StageRecords
  <2>2. QED
    BY <1>3, <2>1 DEF StagePost, TypeOK, ledger
<1>4. ASSUME NEW r \in Runs, NEW p \in Posts, NEW s \in SentWith[p], Finalize(r, p, s)
      PROVE  TypeOK'
  <2>0. s \in StageIds \union {NoStage}
    BY SentType
  <2>1. /\ run' \in [Runs -> RunRecords]
        /\ \A q \in Runs : run'[q].at \in {"idle", "done"} \/ run'[q].post \in Posts
    BY <1>4, <2>0 DEF Finalize, TypeOK, RunRecords, Places
  <2>2. QED
    BY <1>4, <2>1 DEF Finalize, TypeOK, ledger
<1>5. ASSUME NEW r \in Runs, NEW q \in Runs, SyncTimeout(r, q)
      PROVE  TypeOK'
  <2>1. run[r] \in RunRecords /\ run[r].post \in Posts /\ q # r
    BY <1>5 DEF SyncTimeout, TypeOK
  <2>2. BeginWork(run[r].stage) \in Places
    BY DEF BeginWork, Places
  <2>3. [run[r] EXCEPT !.at = BeginWork(run[r].stage), !.awaited = FALSE] \in RunRecords
    BY <2>1, <2>2 DEF RunRecords
  <2>4. [run[r] EXCEPT !.at = BeginWork(run[r].stage), !.awaited = FALSE].post = run[r].post
    BY <2>1 DEF RunRecords
  <2>5. [run[r] EXCEPT !.awaited = FALSE] \in RunRecords /\ [run[r] EXCEPT !.awaited = FALSE].post = run[r].post
    BY <2>1 DEF RunRecords
  <2>6. /\ run'[q] = [run[r] EXCEPT !.at = BeginWork(run[r].stage), !.awaited = FALSE]
        /\ run'[r] = [run[r] EXCEPT !.awaited = FALSE]
        /\ \A x \in Runs \ {q, r} : run'[x] = run[x]
        /\ run' = [x \in Runs |-> run'[x]]
    BY <1>5, <2>1 DEF SyncTimeout, TypeOK
  <2>7. \A x \in Runs : run'[x] \in RunRecords /\ (run'[x].at \in {"idle", "done"} \/ run'[x].post \in Posts)
    BY <2>1, <2>3, <2>4, <2>5, <2>6 DEF TypeOK
  <2>8. run' \in [Runs -> RunRecords]
    BY <2>6, <2>7
  <2>9. QED
    BY <1>5, <2>7, <2>8 DEF SyncTimeout, TypeOK, ledger
<1>6. ASSUME NEW r \in Runs, Prime(r) \/ MarkPending(r)
      PROVE  TypeOK'
  <2>1. run[r].post \in Posts
    BY <1>6, RunType DEF Prime, MarkPending
  <2>2. result' \in [Posts -> ResultRecords]
    BY <1>6, <2>1, SetPendingType DEF Prime, MarkPending
  <2>3. PICK place \in Places : Goto(r, place)
    BY <1>6 DEF Prime, MarkPending, BeginWork, Places
  <2>4. /\ run' \in [Runs -> RunRecords]
        /\ \A q \in Runs : run'[q].at \in {"idle", "done"} \/ run'[q].post \in Posts
    BY <1>6, <2>3, GotoType DEF Prime, MarkPending
  <2>5. UNCHANGED <<stage, cancelling, ledger>>
    BY <1>6 DEF Prime, MarkPending
  <2>6. QED
    BY <2>2, <2>4, <2>5 DEF TypeOK, ledger
<1>7. ASSUME NEW r \in Runs, CreateStage(r)
      PROVE  TypeOK'
  <2>1. run[r].at = "stage"
    BY <1>7 DEF CreateStage
  <2>2. run[r].post \in Posts /\ Author[run[r].post] \in Users /\ ScopesOf[run[r].post][run[r].post] \in SUBSET Scopes
    BY <2>1, RunType, ScopesType DEF StageIds
  <2>3. stage' \in [StageIds -> StageRecords]
    <3>1. Staged(Author[run[r].post], ScopesOf[run[r].post][run[r].post]) \in StageRecords
      BY <2>2 DEF Staged, StageRecords
    <3>2. CASE stage' = [stage EXCEPT ![run[r].post] = Staged(Author[run[r].post], ScopesOf[run[r].post][run[r].post])]
      BY <3>1, <3>2 DEF TypeOK
    <3>3. CASE UNCHANGED stage
      BY <3>3 DEF TypeOK
    <3>4. QED
      BY <1>7, <3>2, <3>3 DEF CreateStage
  <2>4. /\ run' \in [Runs -> RunRecords]
        /\ \A q \in Runs : run'[q].at \in {"idle", "done"} \/ run'[q].post \in Posts
    BY <1>7, <2>1, GotoType, EndType DEF CreateStage, Places
  <2>5. QED
    BY <1>7, <2>3, <2>4 DEF CreateStage, TypeOK, ledger
<1>8. ASSUME NEW r \in Runs, AlreadyProcessed(r) \/ CommitThrows(r) \/ FinishRun(r)
      PROVE  TypeOK'
  <2>1. \/ run[r].at \notin {"idle", "done"} /\ \E place \in Places : Goto(r, place)
        \/ run' = [run EXCEPT ![r] = RunAt("done")]
    BY <1>8 DEF AlreadyProcessed, CommitThrows, FinishRun, Places
  <2>2. /\ run' \in [Runs -> RunRecords]
        /\ \A q \in Runs : run'[q].at \in {"idle", "done"} \/ run'[q].post \in Posts
    BY <2>1, GotoType, EndType
  <2>3. UNCHANGED <<stage, cancelling, ledger, result>>
    BY <1>8 DEF AlreadyProcessed, CommitThrows, FinishRun
  <2>4. QED
    BY <2>2, <2>3 DEF TypeOK, ledger
<1>9. ASSUME NEW r \in Runs, CommitIneligible(r)
      PROVE  TypeOK'
  <2>1. run[r].at = "commit" /\ Settle(r)
    BY <1>9 DEF CommitIneligible, MayCommit
  <2>2. SetResult(run[r].post, "none", {}) /\ UNCHANGED <<counted, scope, topUsers, stat, award, claim>>
    BY <1>9 DEF CommitIneligible
  <2>3. result' \in [Posts -> ResultRecords]
    BY <2>1, <2>2, RunType, SetResultType
  <2>4. QED
    BY <2>1, <2>2, <2>3, SettleType DEF TypeOK
<1>10. ASSUME NEW r \in Runs, MarkError(r)
       PROVE  TypeOK'
  <2>1. run[r].post \in Posts
    BY <1>10, RunType DEF MarkError
  <2>2. result' \in [Posts -> ResultRecords]
    <3>1. result[run[r].post] \in ResultRecords
      BY <2>1 DEF TypeOK
    <3>2. [result[run[r].post] EXCEPT !.status = "error"] \in ResultRecords
      BY <3>1 DEF ResultRecords
    <3>3. QED
      BY <1>10, <2>1, <3>2 DEF MarkError, TypeOK
  <2>3. QED
    BY <1>10, <2>2, EndType DEF MarkError, TypeOK, ledger
<1>11. QED
  BY <1>1, <1>2, <1>3, <1>4, <1>5, <1>6, <1>7, <1>8, <1>9, <1>10, CommitEligibleType DEF Next, Step

\* Every variable keeps its type, for any number of posts, users and runs.
THEOREM TypeInvariance == Spec => []TypeOK
<1>1. Init => TypeOK
  BY DEF Init, TypeOK, RunAt, RunRecords, Places, StageRecords, ResultRecords, ScopeRecords, NewScope
<1>2. TypeOK /\ [Next]_legendVars => TypeOK'
  BY TypePreserved, LegendAssumption
<1>3. QED
  BY <1>1, <1>2, PTL DEF Spec

-----------------------------------------------------------------------------
(***************************************************************************)
(* Who writes what.                                                        *)
(***************************************************************************)

\* Only a transaction that settles a post writes the ledger.
LEMMA LedgerWriters ==
    ASSUME [Next]_legendVars
    PROVE  UNCHANGED ledger \/ \E r \in Runs : CommitEligible(r) \/ CommitIneligible(r)
  BY DEF Next, Step, legendVars, ReadForCancel, CancelStage, StagePost, Finalize, SyncTimeout,
         Prime, MarkPending, CreateStage, AlreadyProcessed, CommitThrows, FinishRun, MarkError

\* A client's stage goes from absent to staged, and from there to cancelled or,
\* by the transaction that it pays for, to committed; it is never staged again.
LEMMA StageWriters ==
    ASSUME LegendAssumption, TypeOK, [Next]_legendVars, NEW s \in Stages
    PROVE  \/ stage'[s].status = stage[s].status
           \/ stage[s].status = "absent"
           \/ stage'[s].status \in {"cancelled", "committed"}
<1> s \in StageIds
  BY DEF StageIds
<1>1. CASE UNCHANGED legendVars
  BY <1>1 DEF legendVars
<1>2. ASSUME NEW x \in Sent, ReadForCancel(x) \/ CancelStage(x)
      PROVE  stage'[s].status = stage[s].status \/ stage'[s].status = "cancelled"
  <2>1. x \in StageIds
    BY SentType
  <2>2. CASE UNCHANGED stage
    BY <2>2
  <2>3. CASE stage' = [stage EXCEPT ![x].status = "cancelled"]
    BY <2>1, <2>3 DEF TypeOK, StageRecords
  <2>4. QED
    BY <1>2, <2>2, <2>3 DEF ReadForCancel, CancelStage
<1>3. ASSUME NEW x \in Stages, NEW u \in Users, StagePost(x, u)
      PROVE  stage'[s].status = stage[s].status \/ stage[s].status = "absent"
  BY <1>3 DEF StagePost, TypeOK
<1>4. ASSUME NEW r \in Runs, CreateStage(r)
      PROVE  stage'[s] = stage[s]
  <2>1. run[r].post \in Posts
    BY <1>4, RunType DEF CreateStage
  <2>2. run[r].post # s
    BY <2>1 DEF LegendAssumption
  <2>3. QED
    BY <1>4, <2>1, <2>2 DEF CreateStage, TypeOK
<1>5. ASSUME NEW r \in Runs, Settle(r)
      PROVE  stage'[s].status = stage[s].status \/ stage'[s].status = "committed"
  BY <1>5 DEF Settle, TypeOK, StageRecords
<1>6. \/ UNCHANGED stage
      \/ \E x \in Sent : ReadForCancel(x) \/ CancelStage(x)
      \/ \E x \in Stages, u \in Users : StagePost(x, u)
      \/ \E r \in Runs : CreateStage(r) \/ Settle(r)
  BY DEF Next, Step, legendVars, Finalize, SyncTimeout, Prime, MarkPending, AlreadyProcessed,
         CommitThrows, CommitIneligible, CommitEligible, FinishRun, MarkError
<1>7. QED
  BY <1>2, <1>3, <1>4, <1>5, <1>6

\* What a transaction that settles a post finds and writes.
LEMMA SettleFacts ==
    ASSUME LegendAssumption, TypeOK, NEW r \in Runs, CommitEligible(r) \/ CommitIneligible(r)
    PROVE  /\ run[r].post \in Posts /\ Author[run[r].post] \in Users
           /\ processed[run[r].post] = NoStage
           /\ processed' = [processed EXCEPT ![run[r].post] = Stage(r)]
           /\ Stage(r) \in StageIds /\ Stage(r) # NoStage
           /\ stage[Stage(r)].status = "staged" /\ stage'[Stage(r)].status = "committed"
<1>1. run[r].at = "commit" /\ MayCommit(r) /\ Settle(r)
  BY DEF CommitEligible, CommitIneligible, MayCommit
<1>2. /\ run[r].post \in Posts /\ Author[run[r].post] \in Users
      /\ Stage(r) \in StageIds
  BY <1>1, RunType
<1>3. stage'[Stage(r)].status = "committed"
  BY <1>1, <1>2 DEF Settle, TypeOK, StageRecords
<1>4. QED
  BY <1>1, <1>2, <1>3 DEF MayCommit, Settle, Stage, LegendAssumption

\* An eligible post is counted in some of the scopes.
LEMMA ScopesFacts ==
    ASSUME LegendAssumption, TypeOK, NEW r \in Runs, CommitEligible(r)
    PROVE  /\ CommitScopes(r) \in SUBSET Scopes
           /\ counted' = [counted EXCEPT ![run[r].post] = CommitScopes(r)]
  BY SettleFacts, CommitScopesType DEF CommitEligible

\* What a commit does to each scope of the post, and that it leaves the others.
LEMMA CommitFacts ==
    ASSUME LegendAssumption, TypeOK, NEW r \in Runs, CommitEligible(r), NEW g \in Scopes
    PROVE  LET p == run[r].post
               u == Author[p]
           IN  /\ g \in CommitScopes(r) =>
                    /\ scope'[g] = NextScope(g, u) /\ scope'[g].total = scope[g].total + 1
                    /\ stat'[g] = [stat[g] EXCEPT ![u] = @ + 1]
                    /\ claim'[g] = IF IsFirst(g, u) /\ claim[g] = NoPost THEN p ELSE claim[g]
               /\ g \notin CommitScopes(r) =>
                    scope'[g] = scope[g] /\ stat'[g] = stat[g] /\ claim'[g] = claim[g]
<1>1. \A u \in Users : NextScope(g, u).total = scope[g].total + 1
  BY DEF NextScope
<1>2. QED
  BY <1>1, SettleFacts DEF CommitEligible, TypeOK

-----------------------------------------------------------------------------
(***************************************************************************)
(* Counters.                                                               *)
(***************************************************************************)

\* One more post makes a count one more.
LEMMA OneMorePost ==
    ASSUME LegendAssumption, NEW A \in SUBSET Posts, NEW p \in Posts, p \notin A
    PROVE  Cardinality(A \union {p}) = Cardinality(A) + 1
  BY FS_Subset, FS_AddElement DEF LegendAssumption

\* The posts that a scope has counted, before and after a commit.
LEMMA PostsOfAfterCommit ==
    ASSUME LegendAssumption, TypeOK, UnsettledIsUncounted, NEW r \in Runs, CommitEligible(r),
           NEW p \in Posts, p = run[r].post, NEW g \in Scopes
    PROVE  /\ counted[p] = {}
           /\ g \in CommitScopes(r) => PostsIn(g)' = PostsIn(g) \union {p}
           /\ g \notin CommitScopes(r) => PostsIn(g)' = PostsIn(g)
           /\ \A v \in Users :
                /\ g \in CommitScopes(r) /\ v = Author[p] => PostsOf(g, v)' = PostsOf(g, v) \union {p}
                /\ g \notin CommitScopes(r) \/ v # Author[p] => PostsOf(g, v)' = PostsOf(g, v)
<1>1. processed[p] = NoStage
  BY SettleFacts
<1>2. counted[p] = {}
  BY <1>1 DEF UnsettledIsUncounted
<1>3. counted'[p] = CommitScopes(r) /\ \A q \in Posts \ {p} : counted'[q] = counted[q]
  BY ScopesFacts DEF TypeOK
<1>4. /\ g \in CommitScopes(r) => PostsIn(g)' = PostsIn(g) \union {p}
      /\ g \notin CommitScopes(r) => PostsIn(g)' = PostsIn(g)
  BY <1>2, <1>3 DEF PostsIn
<1>5. ASSUME NEW v \in Users
      PROVE  /\ g \in CommitScopes(r) /\ v = Author[p] => PostsOf(g, v)' = PostsOf(g, v) \union {p}
             /\ g \notin CommitScopes(r) \/ v # Author[p] => PostsOf(g, v)' = PostsOf(g, v)
  BY <1>2, <1>3 DEF PostsOf
<1>6. QED
  BY <1>2, <1>4, <1>5

LEMMA CountsPreserved ==
    ASSUME LegendAssumption, TypeOK, UnsettledIsUncounted, CountsMatchLedger,
           NEW r \in Runs, CommitEligible(r)
    PROVE  CountsMatchLedger'
<1>1. PICK p \in Posts : p = run[r].post /\ Author[p] \in Users
  BY SettleFacts
<1>2. PICK u \in Users : u = Author[p]
  BY <1>1
<1> SUFFICES ASSUME NEW g \in Scopes
             PROVE  /\ scope'[g].total = Cardinality(PostsIn(g)')
                    /\ \A v \in Users : stat'[g][v] = Cardinality(PostsOf(g, v)')
  BY DEF CountsMatchLedger
<1>3. /\ scope[g].total = Cardinality(PostsIn(g))
      /\ \A v \in Users : stat[g][v] = Cardinality(PostsOf(g, v))
  BY DEF CountsMatchLedger
<1>4. p \notin PostsIn(g) /\ \A v \in Users : p \notin PostsOf(g, v)
  BY <1>1, PostsOfAfterCommit DEF PostsOf, PostsIn
<1>5. CASE g \in CommitScopes(r)
  <2>1. scope'[g].total = scope[g].total + 1 /\ stat'[g] = [stat[g] EXCEPT ![u] = @ + 1]
    BY <1>1, <1>2, <1>5, CommitFacts
  <2>2. PostsIn(g)' = PostsIn(g) \union {p}
    BY <1>1, <1>5, PostsOfAfterCommit
  <2>3. scope'[g].total = Cardinality(PostsIn(g)')
    <3>1. PostsIn(g) \in SUBSET Posts
      BY DEF PostsIn
    <3>2. Cardinality(PostsIn(g) \union {p}) = Cardinality(PostsIn(g)) + 1
      BY <1>4, <3>1, OneMorePost
    <3> QED
      BY <1>3, <2>1, <2>2, <3>2
  <2>4. stat'[g][u] = stat[g][u] + 1 /\ \A v \in Users \ {u} : stat'[g][v] = stat[g][v]
    BY <2>1 DEF TypeOK
  <2>5. /\ PostsOf(g, u)' = PostsOf(g, u) \union {p}
        /\ \A v \in Users \ {u} : PostsOf(g, v)' = PostsOf(g, v)
    BY <1>1, <1>2, <1>5, PostsOfAfterCommit
  <2>6. PostsOf(g, u) \in SUBSET Posts
    BY DEF PostsOf
  <2>7. stat'[g][u] = Cardinality(PostsOf(g, u)')
    BY <1>3, <1>4, <2>4, <2>5, <2>6, OneMorePost
  <2>8. \A v \in Users \ {u} : stat'[g][v] = Cardinality(PostsOf(g, v)')
    BY <1>3, <2>4, <2>5
  <2>9. QED
    BY <2>3, <2>7, <2>8
<1>6. CASE g \notin CommitScopes(r)
  <2>1. scope'[g] = scope[g] /\ stat'[g] = stat[g]
    BY <1>6, CommitFacts
  <2>2. PostsIn(g)' = PostsIn(g)
    BY <1>1, <1>6, PostsOfAfterCommit
  <2>3. \A v \in Users : PostsOf(g, v)' = PostsOf(g, v)
    BY <1>1, <1>6, PostsOfAfterCommit
  <2>4. QED
    BY <1>3, <2>1, <2>2, <2>3
<1>7. QED
  BY <1>5, <1>6

\* An empty scope is empty in all its documents, also after a commit.
LEMMA EmptyScopePreserved ==
    ASSUME LegendAssumption, TypeOK, EmptyScopeIsEmpty, NEW r \in Runs, CommitEligible(r)
    PROVE  EmptyScopeIsEmpty'
<1> DEFINE p == run[r].post
           u == Author[p]
<1>1. p \in Posts /\ p # NoPost
  BY SettleFacts DEF LegendAssumption
<1> SUFFICES ASSUME NEW g \in Scopes
             PROVE  /\ scope'[g].total = 0 =>
                         scope'[g].leader = NoUser /\ \A v \in Users : stat'[g][v] = 0
                    /\ scope'[g].total = 0 <=> claim'[g] = NoPost
  BY DEF EmptyScopeIsEmpty
<1>2. /\ scope[g].total = 0 =>
            scope[g].leader = NoUser /\ \A v \in Users : stat[g][v] = 0
      /\ scope[g].total = 0 <=> claim[g] = NoPost
  BY DEF EmptyScopeIsEmpty
<1>3. CASE g \in CommitScopes(r)
  <2>1. scope'[g].total = scope[g].total + 1 /\ scope[g].total \in Nat
    BY <1>3, CommitFacts DEF TypeOK, ScopeRecords
  <2>2. claim'[g] # NoPost
    BY <1>1, <1>2, <1>3, CommitFacts DEF IsFirst
  <2>3. QED
    BY <2>1, <2>2
<1>4. CASE g \notin CommitScopes(r)
  BY <1>2, <1>4, CommitFacts
<1>5. QED
  BY <1>3, <1>4

\* A scope that has a leader keeps one with the highest count.
LEMMA LeaderPreserved ==
    ASSUME LegendAssumption, TypeOK, EmptyScopeIsEmpty, LeaderHasMost,
           NEW r \in Runs, CommitEligible(r)
    PROVE  LeaderHasMost'
<1> DEFINE u == Author[run[r].post]
<1>1. u \in Users
  BY SettleFacts
<1> SUFFICES ASSUME NEW g \in Scopes, scope'[g].total > 0
             PROVE  /\ scope'[g].leader \in Users
                    /\ scope'[g].leaderCount = stat'[g][scope'[g].leader]
                    /\ \A v \in Users : stat'[g][v] <= scope'[g].leaderCount
  BY DEF LeaderHasMost
<1>2. /\ scope[g].total \in Nat /\ scope[g].leaderCount \in Nat
      /\ scope[g].leader \in Users \union {NoUser} /\ stat[g] \in [Users -> Nat]
  BY DEF TypeOK, ScopeRecords
<1>3. scope[g].total > 0 =>
        /\ scope[g].leader \in Users
        /\ scope[g].leaderCount = stat[g][scope[g].leader]
        /\ \A v \in Users : stat[g][v] <= scope[g].leaderCount
  BY DEF LeaderHasMost
<1>4. scope[g].total = 0 => scope[g].leader = NoUser /\ \A v \in Users : stat[g][v] = 0
  BY DEF EmptyScopeIsEmpty
<1>5. CASE g \in CommitScopes(r)
  <2>1. scope'[g] = NextScope(g, u) /\ stat'[g] = [stat[g] EXCEPT ![u] = @ + 1]
    BY <1>5, CommitFacts
  <2>2. stat'[g][u] = stat[g][u] + 1 /\ \A v \in Users \ {u} : stat'[g][v] = stat[g][v]
    BY <1>1, <1>2, <2>1
  <2>3. CASE Leads(g, u)
    <3>1. scope'[g].leader = u /\ scope'[g].leaderCount = stat[g][u] + 1
      BY <2>1, <2>3 DEF NextScope
    <3>2. \A v \in Users : stat[g][v] <= stat[g][u] + 1
      BY <1>1, <1>2, <1>3, <1>4, <2>3 DEF Leads, LegendAssumption
    <3>3. QED
      BY <1>1, <1>2, <2>2, <3>1, <3>2
  <2>4. CASE ~ Leads(g, u)
    <3>1. scope'[g].leader = scope[g].leader /\ scope'[g].leaderCount = scope[g].leaderCount
      BY <2>1, <2>4 DEF NextScope
    <3>2. scope[g].leader \in Users \ {u} /\ stat[g][u] + 1 <= scope[g].leaderCount
      BY <1>1, <1>2, <2>4 DEF Leads
    <3>3. scope[g].total > 0
      BY <1>2, <1>4, <3>2 DEF LegendAssumption
    <3>4. QED
      BY <1>1, <1>2, <1>3, <2>2, <3>1, <3>2, <3>3
  <2>5. QED
    BY <2>3, <2>4
<1>6. CASE g \notin CommitScopes(r)
  <2>1. scope'[g] = scope[g] /\ stat'[g] = stat[g]
    BY <1>6, CommitFacts
  <2> QED
    BY <1>3, <2>1
<1>7. QED
  BY <1>5, <1>6

-----------------------------------------------------------------------------
(***************************************************************************)
(* Awards, claims and results.                                             *)
(***************************************************************************)

\* The first post of a scope, and no other, is awarded for it.
LEMMA FirstAwards ==
    ASSUME NEW g \in Scopes, NEW u \in Users
    PROVE  "first" \in AwardKinds(g, u) <=> IsFirst(g, u)
  BY DEF AwardKinds

\* The awards for posts, after a commit.
LEMMA AwardsAfterCommit ==
    ASSUME LegendAssumption, TypeOK, UnsettledIsUncounted, NEW r \in Runs, CommitEligible(r),
           NEW p \in Posts, p = run[r].post
    PROVE  /\ award' = award \union AwardsOf(p, CommitScopes(r))
           /\ AwardsFor(p)' = AwardsOf(p, CommitScopes(r))
           /\ \A q \in Posts \ {p} : AwardsFor(q)' = AwardsFor(q)
<1>1. award' = award \union AwardsOf(p, CommitScopes(r))
  BY DEF CommitEligible
<1>2. \A a \in award : a.post # p
  BY SettleFacts DEF UnsettledIsUncounted
<1>3. \A a \in AwardsOf(p, CommitScopes(r)) : a.post = p
  BY DEF AwardsOf
<1>4. QED
  BY <1>1, <1>2, <1>3 DEF AwardsFor

LEMMA FirstClaimPreserved ==
    ASSUME LegendAssumption, TypeOK, EmptyScopeIsEmpty, FirstClaimIsFirst, UnsettledIsUncounted,
           NEW r \in Runs, CommitEligible(r)
    PROVE  FirstClaimIsFirst'
<1>1. PICK p \in Posts : p = run[r].post /\ Author[p] \in Users
  BY SettleFacts
<1> DEFINE S == CommitScopes(r)
           new == AwardsOf(p, S)
<1> SUFFICES ASSUME NEW g \in Scopes
             PROVE  FirstPosts(g)' = IF claim'[g] = NoPost THEN {} ELSE {claim'[g]}
  BY DEF FirstClaimIsFirst
<1>2. FirstPosts(g) = IF claim[g] = NoPost THEN {} ELSE {claim[g]}
  BY DEF FirstClaimIsFirst
<1>3. award' = award \union new
  BY <1>1, AwardsAfterCommit
<1>4. claim[g] = NoPost <=> IsFirst(g, Author[p])
  BY DEF EmptyScopeIsEmpty, IsFirst
<1>5. \A a \in new : a.post = p /\ a.scope \in S /\ a.kind \in AwardKinds(a.scope, Author[p])
  BY DEF AwardsOf
<1>6. CASE g \in S /\ IsFirst(g, Author[p])
  <2>1. claim'[g] = p /\ p # NoPost
    BY <1>1, <1>4, <1>6, CommitFacts DEF LegendAssumption
  <2>2. FirstPosts(g) = {}
    BY <1>2, <1>4, <1>6
  <2>3. \A a \in award : ~ (a.scope = g /\ a.kind = "first")
    BY <2>2 DEF FirstPosts
  <2>4. [post |-> p, scope |-> g, kind |-> "first"] \in new
    BY <1>1, <1>6, FirstAwards DEF AwardsOf, Awards, Kinds
  <2>5. FirstPosts(g)' = {p}
    BY <1>3, <1>5, <2>3, <2>4 DEF FirstPosts
  <2>6. QED
    BY <2>1, <2>5
<1>7. CASE ~ (g \in S /\ IsFirst(g, Author[p]))
  <2>1. claim'[g] = claim[g]
    BY <1>1, <1>7, CommitFacts
  <2>2. \A a \in new : ~ (a.scope = g /\ a.kind = "first")
    BY <1>1, <1>5, <1>7, FirstAwards
  <2>3. FirstPosts(g)' = FirstPosts(g)
    BY <1>3, <2>2 DEF FirstPosts
  <2>4. QED
    BY <1>2, <2>1, <2>3
<1>8. QED
  BY <1>6, <1>7

\* A post that is settled stays so.
LEMMA SettledStays ==
    ASSUME LegendAssumption, TypeOK, [Next]_legendVars, NEW p \in Posts, processed[p] # NoStage
    PROVE  processed'[p] = processed[p]
  BY LedgerWriters, SettleFacts DEF ledger, TypeOK

LEMMA UncountedPreserved ==
    ASSUME LegendAssumption, TypeOK, UnsettledIsUncounted, [Next]_legendVars
    PROVE  UnsettledIsUncounted'
<1>1. CASE UNCHANGED ledger
  BY <1>1 DEF ledger, UnsettledIsUncounted
<1>2. ASSUME NEW r \in Runs, CommitIneligible(r)
      PROVE  UnsettledIsUncounted'
  <2>1. UNCHANGED <<counted, award>>
    BY <1>2 DEF CommitIneligible
  <2>2. \A p \in Posts : processed'[p] = NoStage => processed[p] = NoStage
    BY SettledStays
  <2>3. QED
    BY <2>1, <2>2 DEF UnsettledIsUncounted
<1>3. ASSUME NEW r \in Runs, CommitEligible(r)
      PROVE  UnsettledIsUncounted'
  <2>1. PICK p \in Posts : p = run[r].post
    BY <1>3, SettleFacts
  <2>2. processed'[p] # NoStage
    BY <1>3, <2>1, SettleFacts DEF TypeOK
  <2>3. ASSUME NEW q \in Posts \ {p}, processed'[q] = NoStage
        PROVE  counted'[q] = {} /\ \A a \in award' : a.post # q
    <3>1. processed[q] = NoStage
      BY <2>3, SettledStays
    <3>2. counted'[q] = counted[q]
      BY <1>3, <2>1, ScopesFacts DEF TypeOK
    <3>3. AwardsFor(q)' = AwardsFor(q)
      BY <1>3, <2>1, AwardsAfterCommit
    <3>4. QED
      BY <3>1, <3>2, <3>3 DEF UnsettledIsUncounted, AwardsFor
  <2>4. QED
    BY <2>2, <2>3 DEF UnsettledIsUncounted
<1>4. QED
  BY <1>1, <1>2, <1>3, LedgerWriters

\* Who writes results: runs that begin or fail, and transactions.
LEMMA ResultWriters ==
    ASSUME TypeOK, [Next]_legendVars
    PROVE  \/ UNCHANGED <<ledger, result>>
           \/ \E r \in Runs :
                \/ CommitEligible(r) \/ CommitIneligible(r)
                \/ run[r].at \notin {"idle", "done"} /\ UNCHANGED ledger /\ SetPending(run[r].post)
                \/ MarkError(r)
  BY DEF Next, Step, legendVars, ReadForCancel, CancelStage, StagePost, Finalize, SyncTimeout,
         Prime, MarkPending, CreateStage, AlreadyProcessed, CommitThrows, FinishRun

LEMMA ResultPreserved ==
    ASSUME LegendAssumption, TypeOK, UnsettledIsUncounted, ResultIsTrue, [Next]_legendVars
    PROVE  ResultIsTrue'
<1>1. CASE UNCHANGED <<ledger, result>>
  BY <1>1 DEF ledger, ResultIsTrue, AwardsFor
<1>2. ASSUME NEW r \in Runs, run[r].at \notin {"idle", "done"}, UNCHANGED ledger, SetPending(run[r].post)
      PROVE  ResultIsTrue'
  <2>1. PICK p \in Posts : p = run[r].post
    BY <1>2, RunType
  <2>2. UNCHANGED result \/ result' = [result EXCEPT ![p] = [status |-> "pending", awards |-> {}]]
    BY <1>2, <2>1 DEF SetPending
  <2>3. \A q \in Posts : \/ result'[q] = result[q]
                         \/ result'[q].status = "pending" /\ result'[q].awards = {}
    BY <2>2 DEF TypeOK
  <2>4. QED
    BY <1>2, <2>3 DEF ledger, ResultIsTrue, AwardsFor
<1>3. ASSUME NEW r \in Runs, MarkError(r)
      PROVE  ResultIsTrue'
  <2>1. UNCHANGED ledger
    BY <1>3 DEF MarkError
  <2>2. PICK p \in Posts : p = run[r].post
    BY <1>3, RunType DEF MarkError
  <2>3. UNCHANGED result \/ result' = [result EXCEPT ![p].status = "error"]
    BY <1>3, <2>2 DEF MarkError
  <2>4. \A q \in Posts : /\ result'[q].awards = result[q].awards
                         /\ result'[q].status \in {result[q].status, "error"}
    <3>1. \A q \in Posts : result[q] \in ResultRecords
      BY DEF TypeOK
    <3>2. result' = [result EXCEPT ![p].status = "error"] => \A q \in Posts :
            result'[q] = IF q = p THEN [result[q] EXCEPT !.status = "error"] ELSE result[q]
      BY DEF TypeOK
    <3> QED
      BY <2>3, <3>1, <3>2 DEF ResultRecords
  <2>5. QED
    BY <2>1, <2>4 DEF ledger, ResultIsTrue, AwardsFor
<1>4. ASSUME NEW r \in Runs, CommitIneligible(r)
      PROVE  ResultIsTrue'
  <2>1. PICK p \in Posts : p = run[r].post /\ processed[p] = NoStage /\ processed'[p] # NoStage
    BY <1>4, SettleFacts DEF TypeOK
  <2>2. UNCHANGED award /\ result' = [result EXCEPT ![p] = [status |-> "none", awards |-> {}]]
    BY <1>4, <2>1 DEF CommitIneligible, SetResult
  <2>3. AwardsFor(p) = {}
    BY <2>1 DEF UnsettledIsUncounted, AwardsFor
  <2>4. \A q \in Posts : AwardsFor(q)' = AwardsFor(q)
    BY <2>2 DEF AwardsFor
  <2>5. result'[p].status = "none" /\ result'[p].awards = {}
    BY <2>2 DEF TypeOK
  <2>6. \A q \in Posts \ {p} : result'[q] = result[q]
    BY <2>2 DEF TypeOK
  <2>7. QED
    <3>1. ASSUME NEW q \in Posts \ {p}
          PROVE  /\ result'[q].awards \in {{}, AwardsFor(q)'}
                 /\ result'[q].status \in {"ready", "none"} =>
                      /\ processed'[q] # NoStage
                      /\ result'[q].awards = AwardsFor(q)'
                      /\ result'[q].status = "ready" <=> result'[q].awards # {}
      <4>1. /\ result[q].awards \in {{}, AwardsFor(q)}
            /\ result[q].status \in {"ready", "none"} =>
                 /\ processed[q] # NoStage
                 /\ result[q].awards = AwardsFor(q)
                 /\ result[q].status = "ready" <=> result[q].awards # {}
        BY DEF ResultIsTrue
      <4>2. processed[q] # NoStage => processed'[q] = processed[q]
        BY SettledStays
      <4> QED
        BY <2>4, <2>6, <4>1, <4>2
    <3>2. AwardsFor(p)' = {}
      BY <2>3, <2>4
    <3> QED
      BY <2>1, <2>5, <3>1, <3>2 DEF ResultIsTrue
<1>5. ASSUME NEW r \in Runs, CommitEligible(r)
      PROVE  ResultIsTrue'
  <2>1. PICK p \in Posts : p = run[r].post /\ processed[p] = NoStage /\ processed'[p] # NoStage
    BY <1>5, SettleFacts DEF TypeOK
  <2>2. PICK awards : awards = AwardsOf(p, CommitScopes(r))
    OBVIOUS
  <2>3. result' = [result EXCEPT ![p] =
                     [status |-> IF awards = {} THEN "none" ELSE "ready", awards |-> awards]]
    BY <1>5, <2>1, <2>2 DEF CommitEligible, SetResult
  <2>4. AwardsFor(p)' = awards /\ \A q \in Posts \ {p} : AwardsFor(q)' = AwardsFor(q)
    BY <1>5, <2>1, <2>2, AwardsAfterCommit
  <2>5. /\ result'[p].status = IF awards = {} THEN "none" ELSE "ready"
        /\ result'[p].awards = awards
    BY <2>3 DEF TypeOK
  <2>6. \A q \in Posts \ {p} : result'[q] = result[q]
    BY <2>3 DEF TypeOK
  <2>7. QED
    BY <2>1, <2>4, <2>5, <2>6, SettledStays DEF ResultIsTrue
<1>6. QED
  BY <1>1, <1>2, <1>3, <1>4, <1>5, ResultWriters

-----------------------------------------------------------------------------
(***************************************************************************)
(* Stages.                                                                 *)
(***************************************************************************)

\* A client's stage that settled a post is used up.
LEMMA PaidStagePreserved ==
    ASSUME LegendAssumption, TypeOK, PaidStageIsUsed, [Next]_legendVars
    PROVE  PaidStageIsUsed'
<1>1. ASSUME NEW q \in Posts, processed'[q] = processed[q], processed'[q] \in Stages
      PROVE  stage'[processed'[q]].status \in {"cancelled", "committed"}
  BY <1>1, StageWriters DEF PaidStageIsUsed
<1>2. CASE UNCHANGED ledger
  BY <1>1, <1>2 DEF ledger, PaidStageIsUsed
<1>3. ASSUME NEW r \in Runs, CommitEligible(r) \/ CommitIneligible(r)
      PROVE  PaidStageIsUsed'
  <2>1. PICK p \in Posts : /\ p = run[r].post
                           /\ processed' = [processed EXCEPT ![p] = Stage(r)]
                           /\ stage'[Stage(r)].status = "committed"
    BY <1>3, SettleFacts
  <2>2. PICK s : s = Stage(r)
    OBVIOUS
  <2>3. processed'[p] = s /\ \A q \in Posts \ {p} : processed'[q] = processed[q]
    BY <2>1, <2>2 DEF TypeOK
  <2>4. QED
    BY <1>1, <2>1, <2>2, <2>3 DEF PaidStageIsUsed
<1>4. QED
  BY <1>2, <1>3, LedgerWriters

\* A client's stage that a transaction finds staged has not paid for a post yet.
LEMMA PaysOncePreserved ==
    ASSUME LegendAssumption, TypeOK, PaidStageIsUsed, StagePaysOnce, [Next]_legendVars
    PROVE  StagePaysOnce'
<1>1. CASE UNCHANGED ledger
  BY <1>1 DEF ledger, StagePaysOnce
<1>2. ASSUME NEW r \in Runs, CommitEligible(r) \/ CommitIneligible(r)
      PROVE  StagePaysOnce'
  <2>1. PICK p \in Posts : /\ p = run[r].post
                           /\ processed' = [processed EXCEPT ![p] = Stage(r)]
                           /\ stage[Stage(r)].status = "staged"
    BY <1>2, SettleFacts
  <2>2. PICK s : s = Stage(r)
    OBVIOUS
  <2>3. processed'[p] = s /\ \A q \in Posts \ {p} : processed'[q] = processed[q]
    BY <2>1, <2>2 DEF TypeOK
  <2>4. ASSUME NEW q \in Posts \ {p}, s \in Stages
        PROVE  processed[q] # s
    BY <2>1, <2>2, <2>4 DEF PaidStageIsUsed
  <2>5. QED
    BY <2>3, <2>4 DEF StagePaysOnce
<1>3. QED
  BY <1>1, <1>2, LedgerWriters

-----------------------------------------------------------------------------
(***************************************************************************)
(* The invariant.                                                          *)
(***************************************************************************)

LEMMA InvariantInit == ASSUME LegendAssumption, Init PROVE LegendInvariant
<1>1. TypeOK
  BY DEF Init, TypeOK, RunAt, RunRecords, Places, StageRecords, ResultRecords, ScopeRecords, NewScope
<1>2. UnsettledIsUncounted /\ PaidStageIsUsed /\ StagePaysOnce
  <2>1. \A p \in Posts : processed[p] = NoStage /\ processed[p] \notin Stages
    BY DEF Init, LegendAssumption, StageIds
  <2>2. QED
    BY <2>1 DEF Init, UnsettledIsUncounted, PaidStageIsUsed, StagePaysOnce
<1>3. EmptyScopeIsEmpty /\ LeaderHasMost
  BY DEF Init, EmptyScopeIsEmpty, LeaderHasMost, NewScope
<1>4. \A g \in Scopes : PostsIn(g) = {} /\ \A u \in Users : PostsOf(g, u) = {}
  BY DEF Init, PostsIn, PostsOf
<1>5. CountsMatchLedger
  BY <1>4, FS_EmptySet DEF Init, CountsMatchLedger, NewScope
<1>6. FirstClaimIsFirst
  BY DEF Init, FirstClaimIsFirst, FirstPosts
<1>7. ResultIsTrue
  BY DEF Init, ResultIsTrue
<1>8. QED
  BY <1>1, <1>2, <1>3, <1>5, <1>6, <1>7 DEF LegendInvariant

LEMMA InvariantPreserved ==
    ASSUME LegendAssumption, LegendInvariant, [Next]_legendVars
    PROVE  LegendInvariant'
<1> USE DEF LegendInvariant
<1>1. TypeOK' /\ UnsettledIsUncounted' /\ PaidStageIsUsed' /\ StagePaysOnce' /\ ResultIsTrue'
  BY TypePreserved, UncountedPreserved, PaidStagePreserved, PaysOncePreserved, ResultPreserved
<1>2. EmptyScopeIsEmpty' /\ CountsMatchLedger' /\ LeaderHasMost' /\ FirstClaimIsFirst'
  <2>1. CASE UNCHANGED <<counted, scope, stat, award, claim>>
    <3>1. EmptyScopeIsEmpty' /\ LeaderHasMost'
      BY <2>1 DEF EmptyScopeIsEmpty, LeaderHasMost
    <3>2. \A g \in Scopes : PostsIn(g)' = PostsIn(g) /\ \A u \in Users : PostsOf(g, u)' = PostsOf(g, u)
      BY <2>1 DEF PostsIn, PostsOf
    <3>3. CountsMatchLedger'
      BY <2>1, <3>2 DEF CountsMatchLedger
    <3>4. \A g \in Scopes : FirstPosts(g)' = FirstPosts(g)
      BY <2>1 DEF FirstPosts
    <3>5. FirstClaimIsFirst'
      BY <2>1, <3>4 DEF FirstClaimIsFirst
    <3>6. QED
      BY <3>1, <3>3, <3>5
  <2>2. ASSUME NEW r \in Runs, CommitEligible(r)
        PROVE  EmptyScopeIsEmpty' /\ CountsMatchLedger' /\ LeaderHasMost' /\ FirstClaimIsFirst'
    BY <2>2, EmptyScopePreserved, CountsPreserved, LeaderPreserved, FirstClaimPreserved
  <2>3. QED
    BY <2>1, <2>2, LedgerWriters DEF ledger, CommitIneligible
<1>3. QED
  BY <1>1, <1>2

\* However runs, replays and cancels interleave, the invariant holds.
THEOREM LegendInvariance == Spec => []LegendInvariant
<1>1. Init => LegendInvariant
  BY InvariantInit, LegendAssumption
<1>2. LegendInvariant /\ [Next]_legendVars => LegendInvariant'
  BY InvariantPreserved, LegendAssumption
<1>3. QED
  BY <1>1, <1>2, PTL DEF Spec

\* The counters agree with the posts that have a marker.
THEOREM CountersAreExact == Spec => []CountsMatchLedger
<1>1. LegendInvariant => CountsMatchLedger
  BY DEF LegendInvariant
<1>2. QED
  BY <1>1, LegendInvariance, PTL

\* The recorded leader of a scope has the most posts there.
THEOREM LeaderIsTheLegend == Spec => []LeaderHasMost
<1>1. LegendInvariant => LeaderHasMost
  BY DEF LegendInvariant
<1>2. QED
  BY <1>1, LegendInvariance, PTL

\* A scope is found first by one post, the one that its claim names.
THEOREM FirstIsClaimed == Spec => []FirstClaimIsFirst
<1>1. LegendInvariant => FirstClaimIsFirst
  BY DEF LegendInvariant
<1>2. QED
  BY <1>1, LegendInvariance, PTL

\* No client's stage pays for two posts, whatever ids are sent with which post.
THEOREM StagesPayOnce == Spec => []StagePaysOnce
<1>1. LegendInvariant => StagePaysOnce
  BY DEF LegendInvariant
<1>2. QED
  BY <1>1, LegendInvariance, PTL

\* What a result document says of a settled post is so.
THEOREM ResultsAreTrue == Spec => []ResultIsTrue
<1>1. LegendInvariant => ResultIsTrue
  BY DEF LegendInvariant
<1>2. QED
  BY <1>1, LegendInvariance, PTL

-----------------------------------------------------------------------------
(***************************************************************************)
(* Refinement.                                                             *)
(***************************************************************************)

\* A user's tally of posts is the user's counter.
LEMMA TallyIsCounter ==
    ASSUME CountsMatchLedger, NEW g \in Scopes, NEW u \in Users
    PROVE  Board!Tally(counted, g, u) = stat[g][u]
<1>1. Board!Tally(counted, g, u) = Cardinality(PostsOf(g, u))
  BY DEF PostsOf, Board!Tally, Board!Cardinality, Cardinality
<1>2. QED
  BY <1>1 DEF CountsMatchLedger

LEMMA TallyIsNextCounter ==
    ASSUME CountsMatchLedger', NEW g \in Scopes, NEW u \in Users
    PROVE  Board!Tally(counted', g, u) = stat'[g][u]
<1>1. Board!Tally(counted', g, u) = Cardinality(PostsOf(g, u)')
  BY DEF PostsOf, Board!Tally, Board!Cardinality, Cardinality
<1>2. QED
  BY <1>1 DEF CountsMatchLedger

\* With the count after the post, an author leads that overtakes the legend.
LEMMA LeaderIsOvertaken ==
    ASSUME LegendAssumption, LegendInvariant, LegendInvariant', NEW r \in Runs, CommitEligible(r),
           NEW p \in Posts, p = run[r].post, NEW g \in CommitScopes(r), g \in Scopes
    PROVE  scope'[g].leader =
             IF \/ scope[g].leader = NoUser
                \/ Board!Tally(counted', g, Author[p]) > Board!Tally(counted', g, scope[g].leader)
             THEN Author[p] ELSE scope[g].leader
<1>1. PICK u \in Users : u = Author[p]
  BY SettleFacts DEF LegendInvariant
<1>2. /\ scope[g].leader \in Users \union {NoUser} /\ stat[g] \in [Users -> Nat]
      /\ scope[g].total \in Nat
  BY DEF LegendInvariant, TypeOK, ScopeRecords
<1>3. scope'[g] = NextScope(g, u) /\ stat'[g] = [stat[g] EXCEPT ![u] = @ + 1]
  BY <1>1, CommitFacts DEF LegendInvariant
<1>4. scope'[g].leader = IF Leads(g, u) THEN u ELSE scope[g].leader
  BY <1>3 DEF NextScope
<1>5. \A v \in Users : Board!Tally(counted', g, v) = stat'[g][v]
  BY TallyIsNextCounter DEF LegendInvariant
<1>6. CASE scope[g].leader = NoUser
  BY <1>1, <1>4, <1>6 DEF Leads
<1>7. CASE scope[g].leader = u
  BY <1>1, <1>4, <1>7 DEF Leads
<1>8. CASE scope[g].leader \in Users \ {u}
  <2>1. scope[g].total > 0
    BY <1>2, <1>8 DEF LegendInvariant, EmptyScopeIsEmpty, LegendAssumption
  <2>2. scope[g].leaderCount = stat[g][scope[g].leader]
    BY <2>1 DEF LegendInvariant, LeaderHasMost
  <2>3. stat'[g][u] = stat[g][u] + 1 /\ stat'[g][scope[g].leader] = stat[g][scope[g].leader]
    BY <1>2, <1>3, <1>8
  <2>4. Leads(g, u) <=> stat'[g][u] > stat'[g][scope[g].leader]
    BY <1>8, <2>2, <2>3 DEF Leads, LegendAssumption
  <2>5. QED
    BY <1>1, <1>4, <1>5, <1>8, <2>4 DEF LegendAssumption
<1>9. QED
  BY <1>2, <1>6, <1>7, <1>8

LEMMA CommitSettles ==
    ASSUME LegendAssumption, LegendInvariant, LegendInvariant', NEW r \in Runs,
           CommitEligible(r) \/ CommitIneligible(r)
    PROVE  Board!Next
<1> USE DEF LegendInvariant
<1>1. PICK p \in Posts : /\ p = run[r].post /\ processed[p] = NoStage
                         /\ processed' = [processed EXCEPT ![p] = Stage(r)] /\ Stage(r) # NoStage
  BY SettleFacts
<1>2. p \notin {q \in Posts : processed[q] # NoStage}
  BY <1>1
<1>3. {q \in Posts : processed'[q] # NoStage} = {q \in Posts : processed[q] # NoStage} \union {p}
  BY <1>1 DEF TypeOK
<1>4. CASE CommitEligible(r)
  <2>1. PICK S \in SUBSET Scopes : S = CommitScopes(r)
    BY <1>4, ScopesFacts
  <2>2. counted' = [counted EXCEPT ![p] = S]
    BY <1>1, <1>4, <2>1, ScopesFacts
  <2>3. \A g \in Scopes : scope'[g].leader =
          IF g \in S /\ \/ scope[g].leader = NoUser
                        \/ Board!Tally(counted', g, Author[p]) > Board!Tally(counted', g, scope[g].leader)
          THEN Author[p] ELSE scope[g].leader
    <3>1. ASSUME NEW g \in Scopes, g \in S
          PROVE  scope'[g].leader =
                   IF \/ scope[g].leader = NoUser
                      \/ Board!Tally(counted', g, Author[p]) > Board!Tally(counted', g, scope[g].leader)
                   THEN Author[p] ELSE scope[g].leader
      BY <1>1, <1>4, <2>1, <3>1, LeaderIsOvertaken
    <3>2. ASSUME NEW g \in Scopes, g \notin S
          PROVE  scope'[g].leader = scope[g].leader
      BY <1>4, <2>1, <3>2, CommitFacts
    <3>3. QED
      BY <3>1, <3>2
  <2>4. [g \in Scopes |-> scope'[g].leader] =
          [g \in Scopes |->
             IF g \in S /\ \/ [h \in Scopes |-> scope[h].leader][g] = NoUser
                           \/ Board!Tally(counted', g, Author[p]) >
                                Board!Tally(counted', g, [h \in Scopes |-> scope[h].leader][g])
             THEN Author[p] ELSE [h \in Scopes |-> scope[h].leader][g]]
    BY <2>3
  <2>5. Board!Settle(p, S)
    BY <1>2, <1>3, <2>2, <2>4 DEF Board!Settle, Board!Overtakes
  <2>6. QED
    BY <2>5 DEF Board!Next
<1>5. CASE CommitIneligible(r)
  <2>1. UNCHANGED <<counted, scope>>
    BY <1>5 DEF CommitIneligible
  <2>2. counted[p] = {}
    BY <1>1 DEF UnsettledIsUncounted
  <2>3. counted' = [counted EXCEPT ![p] = {}]
    BY <2>1, <2>2 DEF TypeOK
  <2>4. [g \in Scopes |-> scope'[g].leader] = [g \in Scopes |-> [h \in Scopes |-> scope[h].leader][g]]
    BY <2>1
  <2>5. Board!Settle(p, {})
    BY <1>2, <1>3, <2>3, <2>4 DEF Board!Settle
  <2>6. QED
    BY <2>5 DEF Board!Next
<1>6. QED
  BY <1>4, <1>5

\* The commits implement the leaderboard's contract.
THEOREM LeaderboardRefinement == Spec => ImplementsLeaderboard
<1>1. Init => Board!Init
  BY DEF Init, Board!Init, NewScope
<1>2. LegendInvariant /\ LegendInvariant' /\ [Next]_legendVars
        => [Board!Next]_<<{p \in Posts : processed[p] # NoStage}, counted,
                          [g \in Scopes |-> scope[g].leader]>>
  <2>1. CASE UNCHANGED ledger
    BY <2>1 DEF ledger
  <2>2. QED
    BY <2>1, CommitSettles, LedgerWriters, LegendAssumption
<1>3. QED
  BY <1>1, <1>2, LegendInvariance, PTL DEF Spec, ImplementsLeaderboard, Board!Spec
-----------------------------------------------------------------------------
(***************************************************************************)
(* The top users: a merge into the rows that were kept finds the same top  *)
(* as a scan of all counts, although a row that was dropped is forgotten.  *)
(* Users that UserOrder does not tell apart share a rank.                  *)
(***************************************************************************)

\* A nonempty set of naturals has a least one.
LEMMA LeastNat ==
    ASSUME NEW T \in SUBSET Nat, T # {}
    PROVE  \E x \in T : \A y \in T : x <= y
<1>1. PICK x \in T : \A y \in T : ~ (<<y, x>> \in OpToRel(<, Nat))
  BY WFMin, NatLessThanWellFounded
<1>2. \A y \in T : <<y, x>> \in Nat \X Nat /\ <<y, x>>[1] = y /\ <<y, x>>[2] = x
  OBVIOUS
<1>3. \A y \in T : ~ (y < x)
  BY <1>1, <1>2 DEF OpToRel
<1>4. QED
  BY <1>3

\* Rows that users are ranked by.
Above(rows, v) == {w \in DOMAIN rows : Before(rows, w, v)}
Top(rows) == {v \in DOMAIN rows : Rank(rows, v) <= TopUsersCap}

\* A rank is one more than the number of rows above.
LEMMA RankIsAbove ==
    ASSUME NEW rows, IsFiniteSet(DOMAIN rows), NEW v
    PROVE  /\ IsFiniteSet(Above(rows, v))
           /\ Cardinality(Above(rows, v)) \in Nat
           /\ Rank(rows, v) = 1 + Cardinality(Above(rows, v))
           /\ Rank(rows, v) \in Nat
<1>1. Above(rows, v) \in SUBSET DOMAIN rows
  BY DEF Above
<1>2. IsFiniteSet(Above(rows, v))
  BY <1>1, FS_Subset
<1>3. Cardinality(Above(rows, v)) \in Nat
  BY <1>2, FS_CardinalityType
<1>4. Rank(rows, v) = 1 + Cardinality(Above(rows, v))
  BY DEF Rank, Above
<1>5. QED
  BY <1>2, <1>3, <1>4

\* Of two rows, the one that is not below the other has no more rows above it,
\* and the lower rank is before the higher.
LEMMA RanksAreOrdered ==
    ASSUME LegendAssumption, NEW S \in SUBSET Users, IsFiniteSet(S), NEW rows \in [S -> Nat],
           NEW v \in S, NEW w \in S
    PROVE  /\ ~ Before(rows, w, v) => Rank(rows, v) <= Rank(rows, w)
           /\ Rank(rows, w) < Rank(rows, v) => Before(rows, w, v)
<1>1. DOMAIN rows = S
  OBVIOUS
<1>2. Rank(rows, v) \in Nat /\ Rank(rows, w) \in Nat
  BY <1>1, RankIsAbove
<1>3. ASSUME ~ Before(rows, w, v)
      PROVE  Rank(rows, v) <= Rank(rows, w)
  <2>1. \A x \in S : Before(rows, x, v) => Before(rows, x, w)
    <3>1. \A x \in S : rows[x] \in Nat /\ UserOrder[x] \in Nat
      BY DEF LegendAssumption
    <3>2. QED
      BY <1>3, <3>1 DEF Before
  <2>2. Above(rows, v) \in SUBSET Above(rows, w)
    BY <1>1, <2>1 DEF Above
  <2>3. IsFiniteSet(Above(rows, w))
    BY <1>1, RankIsAbove
  <2>4. Cardinality(Above(rows, v)) <= Cardinality(Above(rows, w))
    BY <2>2, <2>3, FS_Subset
  <2>5. QED
    BY <1>1, <2>4, RankIsAbove
<1>4. QED
  BY <1>2, <1>3

\* A row above another has a lower rank.
LEMMA AboveRanksLower ==
    ASSUME LegendAssumption, NEW S \in SUBSET Users, IsFiniteSet(S), NEW rows \in [S -> Nat],
           NEW v \in S, NEW w \in S, Before(rows, w, v)
    PROVE  Rank(rows, w) < Rank(rows, v)
<1>1. DOMAIN rows = S /\ \A x \in S : rows[x] \in Nat /\ UserOrder[x] \in Nat
  BY DEF LegendAssumption
<1>2. \A x \in S : Before(rows, x, w) => Before(rows, x, v)
  BY <1>1 DEF Before
<1>3. Above(rows, w) \in SUBSET Above(rows, v)
  BY <1>1, <1>2 DEF Above
<1>4. w \in Above(rows, v) \ Above(rows, w)
  BY <1>1 DEF Above, Before
<1>5. IsFiniteSet(Above(rows, v))
  BY <1>1, RankIsAbove
<1>6. /\ Cardinality(Above(rows, w)) <= Cardinality(Above(rows, v))
      /\ Cardinality(Above(rows, v)) = Cardinality(Above(rows, w)) => Above(rows, v) = Above(rows, w)
  BY <1>3, <1>5, FS_Subset
<1>7. Cardinality(Above(rows, w)) # Cardinality(Above(rows, v))
  BY <1>4, <1>6
<1>8. /\ Rank(rows, w) = 1 + Cardinality(Above(rows, w)) /\ Cardinality(Above(rows, w)) \in Nat
      /\ Rank(rows, v) = 1 + Cardinality(Above(rows, v)) /\ Cardinality(Above(rows, v)) \in Nat
  BY <1>1, RankIsAbove
<1>9. QED
  BY <1>6, <1>7, <1>8

\* When a row is out of the top, the top is full.
LEMMA TopIsFull ==
    ASSUME LegendAssumption, NEW S \in SUBSET Users, IsFiniteSet(S), NEW rows \in [S -> Nat],
           NEW v \in S, Rank(rows, v) > TopUsersCap
    PROVE  Cardinality(Top(rows)) >= TopUsersCap
<1>1. DOMAIN rows = S /\ TopUsersCap \in Nat
  BY DEF LegendAssumption
<1>2. \A x \in S : Rank(rows, x) \in Nat
  BY <1>1, RankIsAbove
<1> DEFINE Out == {n \in Nat : \E x \in S : n = Rank(rows, x) /\ n > TopUsersCap}
<1>3. Out # {} /\ Out \in SUBSET Nat
  BY <1>2
<1>4. PICK n \in Out : \A m \in Out : n <= m
  BY <1>3, LeastNat
<1>5. PICK x \in S : n = Rank(rows, x) /\ n > TopUsersCap
  BY <1>4
<1>6. Above(rows, x) \in SUBSET Top(rows)
  <2> SUFFICES ASSUME NEW w \in S, Before(rows, w, x)
               PROVE  Rank(rows, w) <= TopUsersCap
    BY <1>1 DEF Above, Top
  <2>1. Rank(rows, w) < Rank(rows, x)
    BY AboveRanksLower
  <2>2. Rank(rows, w) \notin Out
    BY <1>2, <1>4, <1>5, <2>1
  <2>3. QED
    BY <1>1, <1>2, <2>2
<1>7. IsFiniteSet(Top(rows))
  <2>1. Top(rows) \in SUBSET S
    BY <1>1 DEF Top
  <2>2. QED
    BY <2>1, FS_Subset
<1>8. Cardinality(Above(rows, x)) <= Cardinality(Top(rows)) /\ Cardinality(Top(rows)) \in Nat
  BY <1>6, <1>7, FS_Subset, FS_CardinalityType
<1>9. Rank(rows, x) = 1 + Cardinality(Above(rows, x)) /\ Cardinality(Above(rows, x)) \in Nat
  BY <1>1, RankIsAbove
<1>10. QED
  BY <1>1, <1>5, <1>8, <1>9

\* A part of the rows that has all of the top has the same top.
LEMMA PartHasTheTop ==
    ASSUME LegendAssumption, NEW S \in SUBSET Users, IsFiniteSet(S), NEW rows \in [S -> Nat],
           NEW D \in SUBSET S, Top(rows) \subseteq D
    PROVE  CapTopUsers([v \in D |-> rows[v]]) = CapTopUsers(rows)
<1> DEFINE part == [v \in D |-> rows[v]]
<1>1. DOMAIN rows = S /\ DOMAIN part = D /\ part \in [D -> Nat] /\ TopUsersCap \in Nat
  BY DEF LegendAssumption
<1>2. IsFiniteSet(D)
  BY FS_Subset
<1>3. ASSUME NEW v \in D
      PROVE  /\ Above(part, v) = Above(rows, v) \intersect D
             /\ Rank(part, v) \in Nat /\ Rank(rows, v) \in Nat
             /\ Rank(part, v) = 1 + Cardinality(Above(rows, v) \intersect D)
             /\ Rank(rows, v) = 1 + Cardinality(Above(rows, v))
             /\ Cardinality(Above(rows, v)) \in Nat
             /\ Cardinality(Above(rows, v) \intersect D) \in Nat
             /\ IsFiniteSet(Above(rows, v))
             /\ IsFiniteSet(Above(rows, v) \intersect D)
  <2>1. Above(part, v) = Above(rows, v) \intersect D
    BY <1>1 DEF Above, Before
  <2>2. /\ IsFiniteSet(Above(part, v)) /\ Cardinality(Above(part, v)) \in Nat
        /\ Rank(part, v) = 1 + Cardinality(Above(part, v)) /\ Rank(part, v) \in Nat
    BY <1>1, <1>2, RankIsAbove
  <2>3. /\ IsFiniteSet(Above(rows, v)) /\ Cardinality(Above(rows, v)) \in Nat
        /\ Rank(rows, v) = 1 + Cardinality(Above(rows, v)) /\ Rank(rows, v) \in Nat
    BY <1>1, RankIsAbove
  <2>4. QED
    BY <2>1, <2>2, <2>3
<1>4. ASSUME NEW v \in D, Rank(rows, v) <= TopUsersCap
      PROVE  Rank(part, v) <= TopUsersCap
  <2>1. Cardinality(Above(rows, v) \intersect D) <= Cardinality(Above(rows, v))
    BY <1>3, FS_Subset
  <2>2. QED
    BY <1>1, <1>3, <1>4, <2>1
<1>5. ASSUME NEW v \in D, Rank(rows, v) > TopUsersCap
      PROVE  Rank(part, v) > TopUsersCap
  <2>1. Cardinality(Top(rows)) >= TopUsersCap
    BY <1>5, TopIsFull
  <2>2. Top(rows) \in SUBSET (Above(rows, v) \intersect D)
    <3> SUFFICES ASSUME NEW w \in S, Rank(rows, w) <= TopUsersCap
                 PROVE  Before(rows, w, v)
      BY <1>1 DEF Top, Above
    <3>1. Rank(rows, w) \in Nat /\ Rank(rows, v) \in Nat
      BY <1>1, RankIsAbove
    <3>2. Rank(rows, w) < Rank(rows, v)
      BY <1>1, <1>5, <3>1
    <3>3. QED
      BY <3>2, RanksAreOrdered
  <2>3. IsFiniteSet(Above(rows, v) \intersect D)
    BY <1>3
  <2>4. IsFiniteSet(Top(rows)) /\ Cardinality(Top(rows)) <= Cardinality(Above(rows, v) \intersect D)
    BY <2>2, <2>3, FS_Subset
  <2>5. Cardinality(Top(rows)) \in Nat
    BY <2>4, FS_CardinalityType
  <2>6. QED
    BY <1>1, <1>3, <2>1, <2>4, <2>5
<1>6. \A v \in D : Rank(part, v) <= TopUsersCap <=> Rank(rows, v) <= TopUsersCap
  <2>1. \A v \in D : Rank(part, v) \in Nat /\ Rank(rows, v) \in Nat
    BY <1>3
  <2>2. QED
    BY <1>1, <1>4, <1>5, <2>1
<1>7. Top(part) = Top(rows)
  BY <1>1, <1>6 DEF Top
<1>8. \A v \in Top(part) : part[v] = rows[v]
  BY <1>1 DEF Top
<1>9. CapTopUsers(part) = [v \in Top(part) |-> part[v]] /\ CapTopUsers(rows) = [v \in Top(rows) |-> rows[v]]
  BY DEF CapTopUsers, Top
<1>10. QED
  BY <1>7, <1>8, <1>9

\* When one row rises, or comes in, the rows that are then in the top are its
\* own and some that were in the top before.
LEMMA TopAfterRise ==
    ASSUME LegendAssumption, NEW S \in SUBSET Users, IsFiniteSet(S), NEW rows \in [S -> Nat],
           NEW u \in Users, NEW next \in [S \union {u} -> Nat],
           u \in S => next[u] >= rows[u],
           \A v \in S \ {u} : next[v] = rows[v]
    PROVE  Top(next) \subseteq Top(rows) \union {u}
<1>1. DOMAIN rows = S /\ DOMAIN next = S \union {u} /\ TopUsersCap \in Nat
  BY DEF LegendAssumption
<1>2. IsFiniteSet(S \union {u})
  BY FS_AddElement
<1> SUFFICES ASSUME NEW v \in S \ {u}, Rank(next, v) <= TopUsersCap
             PROVE  Rank(rows, v) <= TopUsersCap
  BY <1>1 DEF Top
<1>3. \A w \in S : Before(rows, w, v) => Before(next, w, v)
  <2>1. \A w \in S : rows[w] \in Nat /\ next[w] \in Nat /\ UserOrder[w] \in Nat
    BY DEF LegendAssumption
  <2>2. QED
    BY <2>1 DEF Before
<1>4. Above(rows, v) \in SUBSET Above(next, v)
  BY <1>1, <1>3 DEF Above
<1>5. /\ IsFiniteSet(Above(next, v)) /\ Cardinality(Above(next, v)) \in Nat
      /\ Rank(next, v) = 1 + Cardinality(Above(next, v))
  BY <1>1, <1>2, RankIsAbove
<1>6. Rank(rows, v) = 1 + Cardinality(Above(rows, v)) /\ Cardinality(Above(rows, v)) \in Nat
  BY <1>1, RankIsAbove
<1>7. Cardinality(Above(rows, v)) <= Cardinality(Above(next, v))
  BY <1>4, <1>5, FS_Subset
<1>8. QED
  BY <1>1, <1>5, <1>6, <1>7

\* The users that a scope has counted are finitely many.
CountsAreTyped ==
    \A g \in Scopes :
        /\ DOMAIN Counts(g) \in SUBSET Users /\ IsFiniteSet(DOMAIN Counts(g))
        /\ Counts(g) \in [DOMAIN Counts(g) -> Nat]
        /\ \A v \in Users : v \in DOMAIN Counts(g) <=> stat[g][v] > 0
        /\ \A v \in DOMAIN Counts(g) : Counts(g)[v] = stat[g][v]

LEMMA CountsType == LegendInvariant => CountsAreTyped
<1> SUFFICES ASSUME LegendAssumption, TypeOK, CountsMatchLedger, NEW g \in Scopes
             PROVE  /\ DOMAIN Counts(g) \in SUBSET Users /\ IsFiniteSet(DOMAIN Counts(g))
                    /\ Counts(g) \in [DOMAIN Counts(g) -> Nat]
                    /\ \A v \in Users : v \in DOMAIN Counts(g) <=> stat[g][v] > 0
                    /\ \A v \in DOMAIN Counts(g) : Counts(g)[v] = stat[g][v]
  BY LegendAssumption DEF CountsAreTyped, LegendInvariant
<1> DEFINE byAuthor == [p \in PostsIn(g) |-> Author[p]]
           authors == {Author[p] : p \in PostsIn(g)}
<1>1. PostsIn(g) \in SUBSET Posts
  BY DEF PostsIn
<1>2. IsFiniteSet(PostsIn(g))
  BY <1>1, FS_Subset DEF LegendAssumption
<1>3. byAuthor \in Surjection(PostsIn(g), authors)
  BY DEF Surjection
<1>4. IsFiniteSet(authors)
  BY <1>2, <1>3, FS_Surjection
<1>5. DOMAIN Counts(g) = {v \in Users : stat[g][v] > 0}
  BY DEF Counts
<1>6. DOMAIN Counts(g) \in SUBSET authors
  <2> SUFFICES ASSUME NEW v \in Users, stat[g][v] > 0
               PROVE  v \in authors
    BY <1>5
  <2>1. Cardinality(PostsOf(g, v)) > 0
    BY DEF CountsMatchLedger
  <2>2. PostsOf(g, v) # {}
    <3>1. Cardinality({}) = 0
      BY FS_EmptySet
    <3>2. PostsOf(g, v) = {} => Cardinality(PostsOf(g, v)) = Cardinality({})
      OBVIOUS
    <3>3. QED
      BY <2>1, <3>1, <3>2
  <2>3. PICK p \in PostsOf(g, v) : TRUE
    BY <2>2
  <2>4. QED
    BY <2>3 DEF PostsOf, PostsIn
<1>7. IsFiniteSet(DOMAIN Counts(g))
  BY <1>4, <1>6, FS_Subset
<1>8. \A v \in Users : stat[g][v] \in Nat
  BY DEF TypeOK
<1>9. QED
  BY <1>5, <1>7, <1>8 DEF Counts

\* A commit keeps the top of a scope that it counts the post in.
LEMMA TopOfCountedScope ==
    ASSUME LegendAssumption, LegendInvariant, LegendInvariant', TopUsersAreTop,
           CountsAreTyped, CountsAreTyped',
           NEW r \in Runs, CommitEligible(r), NEW g \in Scopes, g \in CommitScopes(r)
    PROVE  topUsers'[g] = CapTopUsers(Counts(g)')
<1> USE DEF LegendInvariant
<1>1. PICK u \in Users : u = Author[run[r].post]
  BY SettleFacts
<1>2. scope'[g] = NextScope(g, u) /\ stat'[g] = [stat[g] EXCEPT ![u] = @ + 1]
  BY <1>1, CommitFacts
<1>3. stat[g] \in [Users -> Nat] /\ stat'[g] \in [Users -> Nat] /\ stat'[g][u] = stat[g][u] + 1
      /\ \A v \in Users \ {u} : stat'[g][v] = stat[g][v]
  BY <1>2 DEF TypeOK
<1>4. PICK before, after : before = Counts(g) /\ after = Counts(g)'
  OBVIOUS
<1> DEFINE S == DOMAIN before
           T == DOMAIN after
           leader == scope'[g].leader
           D == DOMAIN topUsers[g] \union {u, leader}
<1>5. /\ S \in SUBSET Users /\ IsFiniteSet(S) /\ before \in [S -> Nat]
      /\ \A v \in Users : v \in S <=> stat[g][v] > 0
      /\ \A v \in S : before[v] = stat[g][v]
  BY <1>4 DEF CountsAreTyped
<1>6. /\ T \in SUBSET Users /\ IsFiniteSet(T) /\ after \in [T -> Nat]
      /\ \A v \in Users : v \in T <=> stat'[g][v] > 0
      /\ \A v \in T : after[v] = stat'[g][v]
  BY <1>4 DEF CountsAreTyped
<1>7. T = S \union {u}
  <2> HIDE DEF S, T
  <2>1. \A v \in Users : stat'[g][v] > 0 <=> stat[g][v] > 0 \/ v = u
    BY <1>3
  <2>2. \A v \in Users : v \in T <=> v \in S \union {u}
    BY <1>5, <1>6, <2>1
  <2>3. QED
    BY <1>5, <1>6, <2>2
<1>8. DOMAIN topUsers[g] = Top(before) /\ \A v \in Top(before) : topUsers[g][v] = before[v]
  BY <1>4 DEF TopUsersAreTop, CapTopUsers, Top
<1>9. Top(before) \subseteq S
  BY DEF Top
<1>10. leader \in T /\ scope'[g].leaderCount = stat'[g][leader]
  <2>1. scope'[g].total > 0
    BY <1>1, CommitFacts DEF TypeOK, ScopeRecords
  <2>2. /\ leader \in Users /\ scope'[g].leaderCount = stat'[g][leader]
        /\ stat'[g][u] <= scope'[g].leaderCount
    BY <2>1 DEF LeaderHasMost
  <2>3. QED
    BY <1>3, <1>6, <2>2
<1>11. D \in SUBSET T
  BY <1>7, <1>8, <1>9, <1>10
<1>12. Top(after) \subseteq D
  <2>1. /\ u \in S => after[u] >= before[u]
        /\ \A v \in S \ {u} : after[v] = before[v]
    BY <1>3, <1>5, <1>6, <1>7
  <2>2. after \in [S \union {u} -> Nat]
    BY <1>6, <1>7
  <2>3. Top(after) \subseteq Top(before) \union {u}
    <3> HIDE DEF S
    <3>1. QED
      BY <1>5, <2>1, <2>2, TopAfterRise
  <2>4. QED
    BY <1>8, <2>3
<1>13. CapTopUsers([v \in D |-> after[v]]) = CapTopUsers(after)
  <2> HIDE DEF T, D
  <2>1. QED
    BY <1>6, <1>11, <1>12, PartHasTheTop
<1>14. [v \in D |-> after[v]] = [v \in D |-> stat'[g][v]]
  BY <1>6, <1>11
<1>15. topUsers'[g] = MergeTopUsers(topUsers[g], u, stat'[g][u], leader, stat'[g][leader])
  <2>1. topUsers'[g] = NextTopUsers(g, u)
    BY <1>1 DEF CommitEligible
  <2>2. QED
    BY <1>2, <1>3, <1>10, <2>1 DEF NextTopUsers
<1>16. MergeTopUsers(topUsers[g], u, stat'[g][u], leader, stat'[g][leader])
         = CapTopUsers([v \in D |-> stat'[g][v]])
  <2>1. PICK count, rows, lead : count = stat'[g] /\ rows = topUsers[g] /\ lead = leader
    OBVIOUS
  <2> DEFINE merged == [v \in DOMAIN rows \union {u} |-> IF v = u THEN count[u] ELSE rows[v]]
             Kept(v) == v \in DOMAIN merged /\ (v # lead \/ merged[v] > count[lead])
             all == [v \in DOMAIN merged \union {lead} |->
                       IF Kept(v) THEN merged[v] ELSE count[lead]]
  <2>2. \A v \in DOMAIN rows \ {u} : rows[v] = count[v]
    BY <1>3, <1>5, <1>8, <1>9, <2>1
  <2>3. DOMAIN merged = DOMAIN rows \union {u} /\ \A v \in DOMAIN merged : merged[v] = count[v]
    BY <2>2
  <2>4. \A v \in DOMAIN merged \union {lead} :
          (IF Kept(v) THEN merged[v] ELSE count[lead]) = count[v]
    BY <2>3
  <2>5. DOMAIN merged \union {lead} = D
    BY <2>1, <2>3
  <2>6. all = [v \in D |-> count[v]]
    BY <2>4, <2>5
  <2>7. MergeTopUsers(rows, u, count[u], lead, count[lead]) = CapTopUsers([v \in D |-> count[v]])
    BY <2>6 DEF MergeTopUsers
  <2>8. QED
    BY <2>1, <2>7
<1>17. QED
  BY <1>4, <1>13, <1>14, <1>15, <1>16

LEMMA TopUsersPreserved ==
    ASSUME LegendAssumption, LegendInvariant, LegendInvariant', CountsAreTyped, CountsAreTyped',
           TopUsersAreTop, [Next]_legendVars
    PROVE  TopUsersAreTop'
<1>1. CASE UNCHANGED <<topUsers, stat>>
  BY <1>1 DEF TopUsersAreTop, Counts
<1>2. ASSUME NEW r \in Runs, CommitEligible(r)
      PROVE  TopUsersAreTop'
  <2> SUFFICES ASSUME NEW g \in Scopes
               PROVE  topUsers'[g] = CapTopUsers(Counts(g)')
    BY DEF TopUsersAreTop
  <2>1. CASE g \in CommitScopes(r)
    BY <1>2, <2>1, TopOfCountedScope
  <2>2. CASE g \notin CommitScopes(r)
    <3>1. topUsers'[g] = topUsers[g]
      BY <1>2, <2>2 DEF CommitEligible
    <3>2. stat'[g] = stat[g]
      BY <1>2, <2>2, CommitFacts DEF LegendInvariant
    <3>3. QED
      BY <3>1, <3>2 DEF TopUsersAreTop, Counts
  <2>3. QED
    BY <2>1, <2>2
<1>3. QED
  BY <1>1, <1>2, LedgerWriters DEF ledger, CommitIneligible

\* The top users of a scope, merged post by post into a document that forgets
\* whoever drops out, are those that a scan of all counts would find.
THEOREM TopUsersAreExact == Spec => []TopUsersAreTop
<1>1. Init => TopUsersAreTop
  <2> SUFFICES ASSUME Init, NEW g \in Scopes
               PROVE  topUsers[g] = CapTopUsers(Counts(g))
    BY DEF TopUsersAreTop
  <2>1. {v \in Users : stat[g][v] > 0} = {}
    BY DEF Init
  <2>2. topUsers[g] = [u \in {} |-> 0]
    BY DEF Init
  <2>3. DOMAIN CapTopUsers(Counts(g)) = {}
    BY <2>1 DEF CapTopUsers, Counts
  <2>4. QED
    BY <2>2, <2>3 DEF CapTopUsers
<1>2. LegendInvariant /\ LegendInvariant' /\ CountsAreTyped /\ CountsAreTyped' /\ TopUsersAreTop
        /\ [Next]_legendVars => TopUsersAreTop'
  BY TopUsersPreserved, LegendAssumption
<1>3. QED
  BY <1>1, <1>2, CountsType, LegendInvariance, PTL DEF Spec

-----------------------------------------------------------------------------
(***************************************************************************)
(* Awards are decided from the scope's document and its few top users, and *)
(* are true of all.                                                        *)
(***************************************************************************)

\* A row that is kept keeps its rank: all the rows above it are kept.
LEMMA CappedRank ==
    ASSUME LegendAssumption, NEW S \in SUBSET Users, IsFiniteSet(S), NEW rows \in [S -> Nat]
    PROVE  /\ DOMAIN CapTopUsers(rows) = Top(rows)
           /\ \A v \in Top(rows) : Rank(CapTopUsers(rows), v) = Rank(rows, v)
<1> DEFINE capped == CapTopUsers(rows)
<1>1. DOMAIN capped = Top(rows) /\ \A v \in Top(rows) : capped[v] = rows[v]
  BY DEF CapTopUsers, Top
<1>2. DOMAIN rows = S /\ TopUsersCap \in Nat
  BY DEF LegendAssumption
<1> SUFFICES ASSUME NEW v \in Top(rows)
             PROVE  Rank(capped, v) = Rank(rows, v)
  BY <1>1
<1>3. v \in S /\ Rank(rows, v) <= TopUsersCap
  BY <1>2 DEF Top
<1>4. ASSUME NEW w \in S, Before(rows, w, v)
      PROVE  w \in Top(rows)
  <2>1. Rank(rows, w) < Rank(rows, v)
    BY <1>3, <1>4, AboveRanksLower
  <2>2. Rank(rows, w) \in Nat /\ Rank(rows, v) \in Nat
    BY <1>2, RankIsAbove
  <2>3. QED
    BY <1>2, <1>3, <2>1, <2>2 DEF Top
<1> HIDE DEF capped
<1>5. \A w \in Top(rows) : Before(capped, w, v) <=> Before(rows, w, v)
  BY <1>1 DEF Before
<1>6. Above(capped, v) = Above(rows, v)
  <2>1. Top(rows) \subseteq S
    BY <1>2 DEF Top
  <2>2. QED
    BY <1>1, <1>2, <1>4, <1>5, <2>1 DEF Above
<1>7. QED
  BY <1>6 DEF Rank, Above

\* What decides each kind of award.
LEMMA AwardReasons ==
    ASSUME NEW g \in Scopes, NEW u \in Users, NEW kind \in AwardKinds(g, u)
    PROVE  \/ kind = "first" /\ IsFirst(g, u)
           \/ kind = "new_leader" /\ ~ IsFirst(g, u) /\ Leads(g, u) /\ scope[g].leader # u
           \/ kind = "defended_lead" /\ ~ IsFirst(g, u) /\ scope[g].leader = u
           \/ kind = "rank_up" /\ RanksUp(topUsers[g], NextTopUsers(g, u), u)
           \/ /\ kind = "close_to_leader" /\ ~ IsFirst(g, u)
              /\ 0 < NextScope(g, u).leaderCount - (stat[g][u] + 1)
              /\ NextScope(g, u).leaderCount - (stat[g][u] + 1) <= CloseThreshold
<1> DEFINE next == NextScope(g, u)
           behind == next.leaderCount - (stat[g][u] + 1)
<1>1. AwardKinds(g, u) =
        IF IsFirst(g, u) THEN {"first"}
        ELSE IF next.leader = u /\ scope[g].leader # u THEN {"new_leader"}
        ELSE IF next.leader = u THEN {"defended_lead"}
        ELSE IF RanksUp(topUsers[g], NextTopUsers(g, u), u) THEN {"rank_up"}
        ELSE IF 0 < behind /\ behind <= CloseThreshold THEN {"close_to_leader"}
        ELSE {}
  BY DEF AwardKinds
<1>2. next.leader = IF Leads(g, u) THEN u ELSE scope[g].leader
  BY DEF NextScope
<1> HIDE DEF next, behind
<1>3. \/ kind = "first" /\ IsFirst(g, u)
      \/ kind = "new_leader" /\ ~ IsFirst(g, u) /\ next.leader = u /\ scope[g].leader # u
      \/ kind = "defended_lead" /\ ~ IsFirst(g, u) /\ scope[g].leader = u
      \/ kind = "rank_up" /\ RanksUp(topUsers[g], NextTopUsers(g, u), u)
      \/ kind = "close_to_leader" /\ ~ IsFirst(g, u) /\ 0 < behind /\ behind <= CloseThreshold
  BY <1>1
<1>4. QED
  BY <1>2, <1>3 DEF behind, next

\* A user that rises among the top users rises among all.
LEMMA RankUpIsTrue ==
    ASSUME LegendAssumption, CountsAreTyped, CountsAreTyped', TopUsersAreTop, TopUsersAreTop',
           NEW g \in Scopes, NEW u \in Users, RanksUp(topUsers[g], topUsers'[g], u)
    PROVE  /\ \E v \in DOMAIN Counts(g)' : Before(Counts(g)', v, u)
           /\ stat[g][u] > 0 => Rank(Counts(g)', u) < Rank(Counts(g), u)
<1>1. PICK before, after : before = Counts(g) /\ after = Counts(g)'
  OBVIOUS
<1>2. PICK rows, next : rows = topUsers[g] /\ next = topUsers'[g]
  OBVIOUS
<1>3. PICK S \in SUBSET Users : /\ S = DOMAIN before /\ IsFiniteSet(S) /\ before \in [S -> Nat]
                                /\ stat[g][u] > 0 => u \in S
  BY <1>1 DEF CountsAreTyped
<1>4. PICK T \in SUBSET Users : T = DOMAIN after /\ IsFiniteSet(T) /\ after \in [T -> Nat]
  BY <1>1 DEF CountsAreTyped
<1>5. rows = CapTopUsers(before) /\ next = CapTopUsers(after)
  BY <1>1, <1>2 DEF TopUsersAreTop
<1>6. DOMAIN rows = Top(before) /\ \A v \in Top(before) : Rank(rows, v) = Rank(before, v)
  BY <1>3, <1>5, CappedRank
<1>7. DOMAIN next = Top(after) /\ \A v \in Top(after) : Rank(next, v) = Rank(after, v)
  BY <1>4, <1>5, CappedRank
<1>8. /\ u \in DOMAIN next /\ Rank(next, u) # 1
      /\ u \in DOMAIN rows => \/ Rank(next, u) < Rank(rows, u)
                              \/ Rank(next, u) <= 3 /\ Rank(rows, u) > 3
  BY <1>2 DEF RanksUp
<1>9. u \in T /\ Rank(after, u) <= TopUsersCap /\ Rank(after, u) # 1
  BY <1>4, <1>7, <1>8 DEF Top
<1>10. Rank(after, u) \in Nat /\ Rank(before, u) \in Nat /\ TopUsersCap \in Nat
  BY <1>3, <1>4, RankIsAbove DEF LegendAssumption
<1>11. \E v \in T : Before(after, v, u)
  <2>1. Rank(after, u) = 1 + Cardinality(Above(after, u)) /\ Cardinality(Above(after, u)) \in Nat
    BY <1>4, RankIsAbove
  <2>2. Cardinality(Above(after, u)) # 0
    BY <1>9, <2>1
  <2>3. Above(after, u) # {}
    <3>1. Cardinality({}) = 0
      BY FS_EmptySet
    <3>2. Above(after, u) = {} => Cardinality(Above(after, u)) = Cardinality({})
      OBVIOUS
    <3>3. QED
      BY <2>2, <3>1, <3>2
  <2>4. QED
    BY <1>4, <2>3 DEF Above
<1>12. ASSUME u \in S
       PROVE  Rank(after, u) < Rank(before, u)
  <2>1. CASE u \in Top(before)
    <3>1. Rank(rows, u) = Rank(before, u) /\ Rank(next, u) = Rank(after, u)
      BY <1>6, <1>7, <1>8, <2>1
    <3>2. QED
      BY <1>6, <1>8, <1>10, <2>1, <3>1
  <2>2. CASE u \notin Top(before)
    <3>1. ~ (Rank(before, u) <= TopUsersCap)
      BY <1>3, <1>12, <2>2 DEF Top
    <3>2. QED
      BY <1>9, <1>10, <3>1
  <2>3. QED
    BY <2>1, <2>2
<1>13. QED
  BY <1>1, <1>3, <1>4, <1>11, <1>12

\* What a commit awards its author in a scope is so.
LEMMA AwardIsTrue ==
    ASSUME LegendAssumption, LegendInvariant, LegendInvariant', CountsAreTyped, CountsAreTyped',
           TopUsersAreTop, TopUsersAreTop', NEW r \in Runs, CommitEligible(r),
           NEW g \in Scopes, g \in CommitScopes(r), NEW u \in Users, u = Author[run[r].post],
           NEW kind \in AwardKinds(g, u)
    PROVE  SaysTrue(kind, g, u)
<1> USE DEF LegendInvariant
<1>1. scope'[g] = NextScope(g, u) /\ stat'[g] = [stat[g] EXCEPT ![u] = @ + 1]
  BY CommitFacts
<1>2. stat[g] \in [Users -> Nat] /\ stat'[g][u] = stat[g][u] + 1
      /\ \A v \in Users \ {u} : stat'[g][v] = stat[g][v]
  BY <1>1 DEF TypeOK
<1>3. /\ scope[g].total \in Nat /\ scope[g].leaderCount \in Nat
      /\ scope'[g].total = scope[g].total + 1 /\ scope'[g].leaderCount \in Nat
  BY CommitFacts DEF TypeOK, ScopeRecords
<1>4. ~ IsFirst(g, u) =>
        /\ scope[g].leader \in Users /\ scope[g].leaderCount = stat[g][scope[g].leader]
        /\ \A v \in Users : stat[g][v] <= scope[g].leaderCount
  BY <1>3 DEF IsFirst, LeaderHasMost
<1>5. CASE kind = "first" /\ IsFirst(g, u)
  <2>1. \A v \in Users : stat[g][v] = 0
    BY <1>5 DEF IsFirst, EmptyScopeIsEmpty
  <2>2. QED
    BY <1>5, <2>1 DEF SaysTrue
<1>6. CASE kind = "new_leader" /\ ~ IsFirst(g, u) /\ Leads(g, u) /\ scope[g].leader # u
  <2>1. scope[g].leader \in Users \ {u} /\ stat[g][u] + 1 > scope[g].leaderCount
    BY <1>4, <1>6 DEF Leads, LegendAssumption
  <2>2. \A v \in Users \ {u} : stat'[g][v] < stat'[g][u]
    BY <1>2, <1>3, <1>4, <1>6, <2>1
  <2>3. stat[g][scope[g].leader] >= stat[g][u]
    BY <1>2, <1>3, <1>4, <1>6
  <2>4. QED
    BY <1>6, <2>1, <2>2, <2>3 DEF SaysTrue
<1>7. CASE kind = "defended_lead" /\ ~ IsFirst(g, u) /\ scope[g].leader = u
  <2>1. \A v \in Users : stat[g][v] <= stat[g][u]
    BY <1>4, <1>7
  <2>2. QED
    BY <1>7, <2>1 DEF SaysTrue
<1>8. CASE kind = "rank_up" /\ RanksUp(topUsers[g], NextTopUsers(g, u), u)
  <2>1. topUsers'[g] = NextTopUsers(g, u)
    BY DEF CommitEligible
  <2>2. /\ \E v \in DOMAIN Counts(g)' : Before(Counts(g)', v, u)
        /\ stat[g][u] > 0 => Rank(Counts(g)', u) < Rank(Counts(g), u)
    BY <1>8, <2>1, RankUpIsTrue
  <2>3. stat[g][u] \in Nat
    BY <1>2
  <2>4. stat[g][u] = 0 \/ Rank(Counts(g)', u) < Rank(Counts(g), u)
    BY <2>2, <2>3
  <2>5. QED
    BY <1>8, <2>2, <2>4 DEF SaysTrue
<1>9. CASE /\ kind = "close_to_leader" /\ ~ IsFirst(g, u)
           /\ 0 < NextScope(g, u).leaderCount - (stat[g][u] + 1)
           /\ NextScope(g, u).leaderCount - (stat[g][u] + 1) <= CloseThreshold
  <2>1. scope'[g].leader \in Users /\ scope'[g].leaderCount = stat'[g][scope'[g].leader]
    BY <1>3 DEF LeaderHasMost
  <2>2. /\ 0 < scope'[g].leaderCount - stat'[g][u]
        /\ scope'[g].leaderCount - stat'[g][u] <= CloseThreshold
    BY <1>1, <1>2, <1>9
  <2>3. /\ stat'[g][u] < stat'[g][scope'[g].leader]
        /\ stat'[g][scope'[g].leader] <= stat'[g][u] + CloseThreshold
    BY <1>2, <1>3, <2>1, <2>2 DEF LegendAssumption
  <2>4. QED
    BY <1>9, <2>1, <2>3 DEF SaysTrue
<1>10. QED
  BY <1>5, <1>6, <1>7, <1>8, <1>9, AwardReasons

\* An award is true of the counts of all users, however few of them the
\* scope's document keeps.
THEOREM AwardsAreTrue == Spec => AwardsAreEarned
<1>1. ASSUME LegendInvariant, LegendInvariant', CountsAreTyped, CountsAreTyped',
             TopUsersAreTop, TopUsersAreTop', [Next]_legendVars,
             NEW a \in award' \ award
      PROVE  SaysTrue(a.kind, a.scope, Author[a.post])
  <2>1. PICK r \in Runs : CommitEligible(r)
    BY <1>1, LedgerWriters DEF ledger, CommitIneligible
  <2>2. PICK u \in Users : u = Author[run[r].post]
    BY <1>1, <2>1, LegendAssumption, SettleFacts DEF LegendInvariant
  <2>3. a \in AwardsOf(run[r].post, CommitScopes(r))
    BY <1>1, <2>1 DEF CommitEligible
  <2>4. /\ a.post = run[r].post /\ a.scope \in CommitScopes(r) /\ a.scope \in Scopes
        /\ a.kind \in AwardKinds(a.scope, u)
    BY <2>2, <2>3 DEF AwardsOf, Awards
  <2>5. SaysTrue(a.kind, a.scope, u)
    BY <1>1, <2>1, <2>2, <2>4, AwardIsTrue, LegendAssumption
  <2>6. QED
    BY <2>2, <2>4, <2>5
<1>2. LegendInvariant /\ LegendInvariant' /\ CountsAreTyped /\ CountsAreTyped'
        /\ TopUsersAreTop /\ TopUsersAreTop' /\ [Next]_legendVars
        => [\A a \in award' \ award : SaysTrue(a.kind, a.scope, Author[a.post])]_legendVars
  BY <1>1
<1>3. QED
  BY <1>2, CountsType, LegendInvariance, TopUsersAreExact, PTL DEF Spec, AwardsAreEarned
=============================================================================
