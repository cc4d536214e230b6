SPECIFICATION TxSpec
CONSTANTS
  p1 = p1  p2 = p2  m1 = m1  m2 = m2  x = x  y = y  h1 = h1  h2 = h2
  r1 = r1  b1 = b1  b2 = b2  c1 = c1  c2 = c2
  Polls = {p1, p2}
  Members = {m1, m2}
  Credentials = {c1, c2}
  Choices = {x, y}
  RequestIDs = {r1}
  Blindings = {b1, b2}
  Roster <- MCRoster
  IdentifiersOf <- MCIdentifiersOf
  Unblind <- MCUnblind
  ClosesAt <- MCClosesAt
  Handlers = {h1, h2}
  MaxTime = 1
  None = None
SYMMETRY MCHandlers
INVARIANTS
  ConstraintsHold
PROPERTIES
  Implements
