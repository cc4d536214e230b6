CONSTANTS
  A = A  ABang = ABang  ATwo = ATwo  Two = Two  a = a
  Labels <- MCLabels
  Words <- MCWords
  RequestIDs = {r1}
  MaxChoices = 3
  MaxTime = 1
  MaxVotes = 2
  MaxInt = 3
  Foreign = foreign
  None = None
SPECIFICATION AdminSpec
INVARIANTS VotesGoToLabels OwnTallyIsShown ShownTallyAddsUp
CHECK_DEADLOCK FALSE
