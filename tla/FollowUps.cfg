\* One client at a time: the turns and the decision that no follow-up is due.
CONSTANTS
  Caller = {c1}
  NumMain = 2
  MaxPerMain = 1
  MaxPerSession = 2
  MaxRequests = 3
  MaxRewrites = 1
SPECIFICATION FollowSpec
INVARIANTS
  DecidedAnswerMovesOn
CHECK_DEADLOCK FALSE
