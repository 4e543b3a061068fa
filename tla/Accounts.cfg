\* Two requests at once in each part but the life of an account, where one
\* request meets the nightly jobs and two orders of an administrator.
CONSTANTS
  Worker = {w1, w2}
  MaxAttempts = 1
  MaxCodes = 3
  Visitor = {v1, v2}
  MaxTries = 3
  MaxRows = 2
  Browser = {b1, b2}
  MaxLogins = 2
  Client = {c1}
  MaxPasswords = 2
  MaxOrders = 2
  Learner = {u1, u2}
  Nothing = Nothing
  MaxReplies = 3
  Viewer = {c1, c2}
  PlanLimit = 3
  ExpiryDays = 2
  MaxDay = 2
  MaxLinks = 3
  NA = NA
  wa = wa
  wb = wb
  wc = wc
  Weakness = {wa, wb, wc}
  MaxShown = 2
  None <- NA
  Summaries <- MCSummaries
  TagCounts <- MCTagCounts
  Histories <- MCHistories
  Kinds = {"technical", "job"}
  Versions = {1, 2}
  MaxChanges = 1
  Filters <- MCFilters
  MaxSessions = 3
  Process = {p1, p2}
  Absent = Absent
  Catalogs <- MCCatalogs
  Queries <- MCQueries
  Speaker = {s1, s2}
  Recordings <- MCRecordings
  Fillers <- MCFillers
  Typed <- MCTyped
  Asked = {q1}
  MaxAudio = 25
  MaxFiles = 2
SPECIFICATION MCSpec
INVARIANTS
  GuessesBounded
  LatestCodeWorks
  LegacyGuessesBounded
  SignInOnce
  EndedForGood
  OneRoadmap
  ChecksPassedTogether
  ListingIsWhole
  TranscriptsFit
PROPERTIES
  WithdrawalExpires
  GrowthFollowsEvaluations
CHECK_DEADLOCK FALSE
