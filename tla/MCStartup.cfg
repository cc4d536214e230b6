SPECIFICATION FairStartSpec
CONSTANTS
  s1 = s1  s2 = s2  d = d  k1 = k1  k2 = k2  i1 = i1  i2 = i2
  Servers = {s1, s2}
  Diagnosers = {d}
  CheckpointKeys = {k1, k2}
  IssuerKeys = {i1, i2}
  MaxPolls = 1
  None = None
INVARIANTS
  KeysAreOnDisk
  OneSigner
  IssuesItsOwn
  DiagnoseCreatesNoKey
PROPERTIES
  WholeFilesServe
