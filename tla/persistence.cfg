CONSTANTS
  w1=w1 w2=w2 w3=w3 r1=r1
  Calls={w1,w2,w3,r1} Writers={w1,w2,w3} MaxCrashes=1
SPECIFICATION FairSpec
INVARIANTS TypeOK AckedIsDurable AckedIsVisible
PROPERTIES DurableGrows WaitersAreAnswered
CHECK_DEADLOCK FALSE
