SPECIFICATION FairSpec
CONSTANTS
  Word <- MCWord
  Request <- MCRequest
  MaxRequests = 2
  Numeral <- MCNumeral
INVARIANTS
  RightAnswers
  NotKilled
  CloseAnnounced
PROPERTIES
  Answered
CHECK_DEADLOCK FALSE
