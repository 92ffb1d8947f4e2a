CONSTANTS
  NS30 = 2
  NS60 = 4
  NS5MIN = 6
  Word = 1000
  MaxTime = 8
  MaxCloses = 10
SPECIFICATION RetrySpec

INVARIANT RingIsRecentCloses
 
