CONSTANTS
  p1 = p1
  f1 = f1
  f2 = f2
  Procs = {p1}
  Families = {f1, f2}
  MaxGeneration = 2
  NoRecord = NoRecord
  NoProc = NoProc
  Outsider = Outsider
SYMMETRY FamilySymmetry
SPECIFICATION Spec
INVARIANTS
  Custody
PROPERTIES
  LiveTokenNeverDropped
