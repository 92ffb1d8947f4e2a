SPECIFICATION Spec
CONSTANTS
  Fd = {c1, c2}
  Listener = {l1}
  MaxSpecial = 1
  NoFd = nofd
SYMMETRY FdSymmetry
INVARIANTS CountersExact NotStranded  
