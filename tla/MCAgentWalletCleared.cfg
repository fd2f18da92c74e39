CONSTANTS
  a1 = a1
  a2 = a2
  a3 = a3
  i1 = i1
  i2 = i2
  i3 = i3
  Admins = {a1, a2, a3}
  Creators = {a1, a2, a3}
  Repairers = {a1, a2}
  Ids = {i1, i2, i3}
  MaxFaults = 1
  NoFile = NoFile
  NoId = NoId
SPECIFICATION Spec
PROPERTIES
  ClearsOnlyWithoutSeed
