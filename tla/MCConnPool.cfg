SPECIFICATION FairPoolSpec
CONSTANTS
  a = a  b = b  c = c  d = d
  Calls = {a, b, c, d}
  MaxOpen = 3
  MaxRows = 1
  MaxAttempts = 1
  Nobody = Nobody
INVARIANTS
  NoLockup
  NothingLeaks
PROPERTIES
  WaitsEnd
