CONSTANTS
  k1=k1 c1=c1 c2=c2 c3=c3
  Keys={k1} Calls={c1,c2,c3} NoCall=NoCall
  KeyOf <- MCKeyOf
SPECIFICATION FairSpec
INVARIANTS TypeOK ArrivalOrder
PROPERTIES ImplementsSection CallsEnd
CHECK_DEADLOCK FALSE
