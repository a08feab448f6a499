INIT Init
NEXT Next
CONSTANTS
  v1 = v1
  v2 = v2
  v3 = v3
  v4 = v4
  v5 = v5
  w1 = w1
  w2 = w2
  None = None
INVARIANTS
  RecordsTypeOK
  OnlyReviewedIsDone
  NothingIsLost
  AnswersAreTrue
PROPERTIES
  DecisionsStand
CHECK_DEADLOCK FALSE
