\* Two requests over one session, two over its follow-ups, one selection and one
\* judgement over their inputs, two administrators over two prompts, and two analyses
\* of one job description, two resumes and a letter.
CONSTANTS
  Worker = {w1, w2}
  MaxMain = 2
  MaxCalls = 3
  MaxDeaths = 1
  Never = Never
  Gone = Gone
  Caller = {c1, c2}
  NumMain = 2
  MaxPerMain = 1
  MaxPerSession = 2
  MaxRequests = 4
  MaxRewrites = 1
  t1 = t1
  t2 = t2
  Text <- MCText
  Blank = Blank
  MaxCount = 3
  MaxReply = 3
  Sessions <- MCSessions
  NoAnalysis = NoAnalysis
  Answers <- MCAnswers
  Replies <- MCReplies
  Contents <- MCContents
  Technology = {"kafka"}
  Garbage = Garbage
  Given <- MCGiven
  Nothing = Nothing
  Template = {p1, p2}
  PromptType = {generation, evaluation}
  SeedType = generation
  Admin = {a1, a2}
  MaxVersions = 2
  MaxChanges = 5
  NoTemplate = NoTemplate
  j1 = j1
  r1 = r1
  r2 = r2
  l1 = l1
  Jd = {j1}
  Resume = {r1, r2}
  Letter = {l1}
  Project = {q1}
  NoDoc = NoDoc
  Requests <- MCRequests
  MaxAnalyses = 2
  Drafts <- MCDrafts
  Space = "space"
  Asker = {k1, k2}
  Names = {"TOO_SHORT", "other"}
  Verdicts <- MCVerdicts
  NoWeakness = "none"
  MaxAsks = 3
SPECIFICATION MCSpec
SYMMETRY Interchangeable
INVARIANTS
  SessionConsistent
  FollowupsInPlace
  QuestionsComplete
  WeakAnswerFollowed
  ServedPromptIsLive
  MaterialFits
  KeywordsAreTagged
  RowsTellFollowups
CHECK_DEADLOCK FALSE
