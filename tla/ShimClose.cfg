CONSTANTS
  Tunnels = {t1, t2}
  MaxTicks = 1
  MaxUp = 0
  MaxDown = 0
SPECIFICATION Spec
CHECK_DEADLOCK FALSE
SYMMETRY Symmetry
 
INVARIANT SplicedKeepShim
INVARIANT OnlyAuthenticated
