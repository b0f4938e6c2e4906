CONSTANTS
  w1=w1 w2=w2
  Workers={w1,w2} MaxUpgradeTasks=1 NoPost=NoPost
SPECIFICATION Spec
PROPERTY UpgradeKeepsStartup
CHECK_DEADLOCK FALSE
