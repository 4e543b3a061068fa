\* Overlapping requests of two users.
CONSTANTS
  User = {"u1", "u2"}
  Request = {r1, r2}
  NoRequest = NoRequest
  NoKey = NoKey
  NoReference = NoReference
  NoLimit = NoLimit
  DailyOnce = {"INTERVIEW.COMPLETED"}
  Key <- MCKey
  Amount <- MCAmount
  Reason <- MCReason
  Reference <- MCReference
  DefaultPolicy <- MCDefaultPolicy
  SeedPolicy <- MCSeedPolicy
  Calls <- ConcurrentCalls
  PolicyUpdates = {}
  MonthLength = 2
  MaxClock = 0
  MaxCalls = 3
SPECIFICATION FairSpec
INVARIANTS
  LedgerChain
  OnceRules
PROPERTIES
  LedgerImplemented
  CallsReturn
CHECK_DEADLOCK FALSE
