\* A thread taken for dead writes after its successor was started.
CONSTANTS
  Answer = {a1, a2}
  Request = {r1}
  Thread = {t1, t2}
  Nobody = Nobody
  NoSummary = NoSummary
  MaxCrashes = 0
SPECIFICATION Spec
PROPERTIES
  ClaimedGenerationWrites
CHECK_DEADLOCK FALSE
