CONSTANTS
  Tunnels = {t1}
  MaxTicks = 1
  MaxUp = 2
  MaxDown = 2
SPECIFICATION FairSpec
CHECK_DEADLOCK FALSE
 
PROPERTY CloseReturns
PROPERTY ConnectAnswered
