\* One request at a time over two months.
CONSTANTS
  User = {"u1"}
  Request = {r1}
  NoRequest = NoRequest
  NoKey = NoKey
  NoReference = NoReference
  NoLimit = NoLimit
  DailyOnce = {"INTERVIEW.COMPLETED"}
  Key <- MCKey
  Amount <- MCAmount
  Reason <- MCReason
  Reference <- MCReference
  DefaultPolicy <- MCDefaultPolicy
  SeedPolicy <- MCSeedPolicy
  Calls <- SerialCalls
  PolicyUpdates <- PolicyChanges
  MonthLength = 2
  MaxClock = 3
  MaxCalls = 4
SPECIFICATION Spec
INVARIANTS
  LimitsKept
CHECK_DEADLOCK FALSE
