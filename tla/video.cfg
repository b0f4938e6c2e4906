CONSTANTS
  w1=w1 w2=w2
  Workers={w1,w2} MaxUpgradeTasks=1 NoPost=NoPost
SPECIFICATION FairSpec
INVARIANTS TypeOK NothingStranded CompleteIsTrue
PROPERTIES OnlyEarlyUpgradeTakesStartup EventuallyPlayable
CHECK_DEADLOCK FALSE
