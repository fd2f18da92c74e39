CONSTANTS
  p1 = p1
  p2 = p2
  f1 = f1
  Procs = {p1, p2}
  Families = {f1}
  MaxGeneration = 2
  NoRecord = NoRecord
  NoProc = NoProc
  Outsider = Outsider
SPECIFICATION FairSpec
INVARIANTS
  TypeOK
  PresentsStoredToken
  ResultsAreCommitted
PROPERTIES
  RecordNeverRegresses
  ImplementsGrantCustody
  EveryCallReturns
