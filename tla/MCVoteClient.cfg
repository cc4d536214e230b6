SPECIFICATION FairClientSpec
CONSTANTS
  p1 = p1  m1 = m1  m2 = m2  u1 = u1  u2 = u2  x = x  y = y
  r1 = r1  r2 = r2  r3 = r3  b1 = b1  b2 = b2  b3 = b3  c1 = c1  c2 = c2  c3 = c3
  Polls = {p1}
  Poll = p1
  Members = {m1, m2}
  Runs = {u1}
  Credentials = {c1, c2, c3}
  Choices = {x, y}
  RequestIDs = {r1, r2, r3}
  Blindings = {b1, b2, b3}
  Roster <- MCRoster
  ChoicesOf <- MCChoicesOf
  Unblind <- MCUnblind
  ClosesAt <- MCClosesAt
  Voter <- MCOneVoter
  Wishes <- MCFickle
  RequestFor <- MCRequestFor
  MaxTime = 1
  MaxFailures = 3
  None = None
INVARIANTS
  ClientTypeOK
  ClaimRecoverable
  OneBallotPerVoter
  ToldIsCounted
PROPERTIES
  ClaimLeadsToReceipt
