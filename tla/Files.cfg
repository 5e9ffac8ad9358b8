SPECIFICATION Spec
CONSTANTS
  Thread = {t1, t2}
  File = {f, g}
  Value = {x, y}
  Nobody = Nobody
  Zero = Zero
  Nothing = Nothing
  NumSectors = 4
  MaxLength = 2
SYMMETRY Twins
CHECK_DEADLOCK FALSE
INVARIANTS
  TypeOK
  SectorsOwned
PROPERTIES
  ImplementsFiles
