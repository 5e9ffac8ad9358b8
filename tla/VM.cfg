SPECIFICATION Spec
CONSTANTS
  Proc = {p1, p2}
  Nobody = Nobody
  Code = {text}
  Data = {}
  Depth = 3
  NumFrames = 2
  NumSlots = 1
  File = File
  Fresh = Fresh
SYMMETRY Twins
CHECK_DEADLOCK FALSE
INVARIANTS
  TypeOK
  TablesAgree
  MapsOwn
  SwapSuffices
PROPERTIES
  ImplementsMemory
