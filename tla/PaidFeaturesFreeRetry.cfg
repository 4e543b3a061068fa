\* An analysis without free generations: its first is charged, fails, and is tried again.
SPECIFICATION MCSpec
CONSTANTS
  ann = ann
  pack = pack
  weak = weak
  session = session
  analysis = analysis
  NoKey = NoKey
  User <- OneUser
  Key <- Keys
  Amount <- Amounts
  Owner <- AllOwnedByAnn
  Prices <- OnePrice
  Pack <- None
  Practice <- None
  Session <- None
  Analysis <- Analyses
  Request = {r1}
  MaxFree = 0
  MaxGrants = 1
  MaxRuns = 2
  Grant = 3
  Client = {c1, c2}
  AnalysisRun = {a1, a2}
  MaxDying = 1
  MaxEdits = 1
  Writer = {w1, w2, w3}
  NoWriter = NoWriter
  MaxPuts = 3
  Author = {d1, d2}
  NoRow = NoRow
  MaxRows = 2
  MaxItems = 1
  Uploads <- MCUploads
  Pages <- MCPages
  MaxUpload = 100
  MinChars = 50
  Selection <- MCSelection
  Empty = Empty
  MaxSaves = 3
  Portfolio <- MCPortfolio
  Repositories <- MCRepositories
  Alias <- MCAlias
  SubstringKeys <- MCSubstringKeys
  TextNames = {"requirements.txt", "requirements-dev.txt", "base.txt", "readme.txt"}
  RequirementsNames = {"requirements.txt", "requirements-dev.txt"}
  MaxRepos = 2
  MaxManifests = 2
  Alike <- MCAlike
  TooShort = {"short"}
  Banks <- MCBanks
  Drafts <- MCDrafts
  CodeDrafts <- MCCodeDrafts
  Written <- MCWritten
  Known = {"40%"}
  Before <- MCBefore
  Traits <- MCTraits
  NoRepository = "none"
  Canon <- MCCanon
  Likeness <- MCLikeness
  Postings <- MCPostings
  Resumes <- MCResumes
  Skills = {"aws", "amazon web services", "python", "k8s"}
  Stories = {"led", "argued"}
  MaxYears = 4
INVARIANT NothingFree
CHECK_DEADLOCK FALSE
