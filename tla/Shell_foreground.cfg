SPECIFICATION Spec
CONSTANTS
  NoPid = NoPid
  Pid = {p1, p2, p3}
  MAXJOBS = 2
  Keyboard = {"INT"}
SYMMETRY Twins
CHECK_DEADLOCK FALSE
INVARIANTS
  OneForeground
