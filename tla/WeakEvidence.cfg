\* Samples of answers, and no more of the other parts than they need.
CONSTANTS
  Answer = {a1}
  Request = {r1, r2}
  Thread = {t1, t2}
  Nobody = Nobody
  NoSummary = NoSummary
  MaxCrashes = 0
  Reader = {x1, x2}
  Generation = {g1, g2}
  Miss = Miss
  MaxTags = 2
  MaxVersion = 2
  Evaluator = {e1, e2}
  Answered = {b1, b2}
  Verdict <- MCVerdicts
  j1 = j1
  k1 = k1
  Unevaluated = Unevaluated
  MaxBegun = 0
  MaxRetries = 0
  MaxEvaluations = 0
  MaxTrialChanges = 0
  Unassigned = Unassigned
  Samples <- MCSamples
  NotScored = NotScored
  Grades <- MCGrades
  Persona = {"coach", "practical", "verifier", "pressure"}
  MaxGraded = 2
  NoFigures = NoFigures
  Plain = Plain
SPECIFICATION MCSpec
INVARIANT EvidenceWhereAsked
CHECK_DEADLOCK FALSE
