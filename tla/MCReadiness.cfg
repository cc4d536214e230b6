SPECIFICATION ReadySpec
CONSTANTS
  p1 = p1  m1 = m1  m2 = m2  x = x  y = y
  r1 = r1  b1 = b1  b2 = b2  c1 = c1  c2 = c2
  Polls = {p1}
  Members = {m1, m2}
  Credentials = {c1, c2}
  Choices = {x, y}
  RequestIDs = {r1}
  Blindings = {b1, b2}
  Roster <- MCRoster
  ChoicesOf <- MCChoicesOf
  Unblind <- MCUnblind
  ClosesAt <- MCClosesAt
  MaxTime = 1
  None = None
INVARIANTS
  QuietCheckPasses
  DamageIsFound
