CONSTANTS
  HeadLens = {0, 2, 3, 5, 6}
  MaxHead = 4
  MaxBody = 2
SPECIFICATION FairSpec
CHECK_DEADLOCK FALSE
 
 
PROPERTY ReadyReached
