\* Two requests and two threads with two deaths over one report, two readers and
\* two generations over the cache, two evaluators over two answers, one process that evaluates two, and samples of
\* answers and of sessions; polls, time and workers are fair.
CONSTANTS
  Answer = {a1}
  Request = {r1, r2}
  Thread = {t1, t2}
  Nobody = Nobody
  NoSummary = NoSummary
  MaxCrashes = 2
  Reader = {x1, x2}
  Generation = {g1, g2}
  Miss = Miss
  MaxTags = 2
  MaxVersion = 2
  Evaluator = {e1, e2}
  Answered = {b1, b2}
  Verdict <- MCVerdicts
  j1 = j1
  k1 = k1
  Unevaluated = Unevaluated
  MaxBegun = 2
  Samples <- MCSamples
  NotScored = NotScored
  Grades <- MCGrades
  Persona = {"coach", "practical", "verifier", "pressure"}
  MaxGraded = 2
  NoFigures = NoFigures
  Plain = Plain
  MaxRetries = 1
  MaxEvaluations = 2
  MaxTrialChanges = 1
  Unassigned = Unassigned
SPECIFICATION MCSpec
INVARIANTS
  OneGeneration
  DoneIsUsable
  FreshWhileVersionRises
  AnswersJudged
  ScoresAreEarned
PROPERTIES
  ResultKept
  GenerationSettles
  BetterIsNotWorse
CHECK_DEADLOCK FALSE
