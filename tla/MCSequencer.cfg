SPECIFICATION Spec
CONSTANTS
  p1 = p1  p2 = p2  m1 = m1  m2 = m2  m3 = m3  x = x  y = y  z = z
  r1 = r1  r2 = r2  b1 = b1  b2 = b2  b3 = b3  c1 = c1  c2 = c2  c3 = c3
  Polls = {p1, p2}
  Members = {m1, m2, m3}
  Credentials = {c1, c2, c3}
  Choices = {x, y, z}
  RequestIDs = {r1, r2}
  Blindings = {b1, b2, b3}
  Roster <- MCRoster
  ChoicesOf <- MCChoicesOf
  Unblind <- MCUnblind
  ClosesAt <- MCClosesAt
  MaxTime = 1
  None = None
INVARIANTS
  TypeOK
  OneBallotPerCredential
  ChainsIntact
  ProjectionsMatchLogs
  TallyCountsLog
  AnswersStand
  BallotsWithinRoster
PROPERTIES
  HistoryStands
  KeepsPromise
