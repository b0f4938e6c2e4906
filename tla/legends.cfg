CONSTANTS
  u1=u1 u2=u2 p1=p1 p2=p2 p3=p3 s1=s1 g1=g1
  Posts={p1,p2,p3} Users={u1,u2} Scopes={g1} Stages={s1} Runs={r1,r2,r3}
  Author <- MCAuthor StagedScopes <- MCStagedScopes ScopesOf <- MCScopesOf
  SentWith <- MCSentWith UserOrder <- MCUserOrder
  TopUsersCap=1 CloseThreshold=1
  NoUser=NoUser NoPost=NoPost NoStage=NoStage
SPECIFICATION Spec
SYMMETRY MCSymmetry
INVARIANTS TypeOK CountsMatchLedger LeaderHasMost TopUsersAreTop FirstClaimIsFirst StagePaysOnce ResultIsTrue
PROPERTY ImplementsLeaderboard
CHECK_DEADLOCK FALSE
