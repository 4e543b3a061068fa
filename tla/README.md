# Specifications of the CareerZip backend

TLA+ models of this Django backend, with TLC runs on small instances and TLAPS proofs of what
holds for every instance. They cover two kinds of code: protocols, whose correctness depends on
the order in which requests, background threads, administrators, timeouts and deaths of workers
meet; and pipelines, in which several sources, models and rules rewrite one another's results and
each may fail in its own way. Paths are relative to the repository (`apps/...` is `src/apps/...`).

Contents: 1 the system, 2 the modules, 3 the runs, 4 the proofs, 5 what the code does and its
documents do not say, 6 what is not modelled, 7 plan.

## 1. The system

A REST backend (gunicorn, by default up to 3 workers of 4 threads, `gunicorn.conf.py:28`; one SQL database, one Django cache per process
or shared, daemon threads for long work, a scheduler for nightly batches). Requests share no
memory but module-level caches: they meet in database rows and cache keys. Transactions run at
READ COMMITTED; `select_for_update` is the only lock in use. Unless `transaction.atomic()` is
written, every query commits on its own, and a request that dies or raises leaves what it has
written so far.

| Component | State it keeps | Operations | Meets | Hard behaviour | What makes it correct |
|---|---|---|---|---|---|
| Point ledger (`accounts/services/points.py`) | `users.point_balance`, `PointHistory`, `PointPolicy` | apply a policy, earn, use, refund, adjust, update a policy | every paid or rewarded feature | limits and keys are read outside the locking transaction | balance = sum of rows, never negative; a key moves points once; the rules of the policies |
| Paid features (`interview/views.py`, `interview/mvp_views.py`, `analysis/views.py`) | packs, practice sessions, questions, `generation_count` | charge, generate, store, refund | ledger, LLM | charge and work in different transactions; retries share keys | a charge buys something or is returned, once and in the same amount |
| Final report jobs (`report/services/report_jobs.py`) | `FinalReport` (status, summary, updated_at) | poll, force, claim, generate, save, fail | evaluation, recommendation cache | daemon threads without a lock, timeout takes over | one generation at a time, done means usable, a claim ends |
| Answer evaluation (`apps/evaluation`) | `Evaluation`, weakness tags, A/B observations | evaluate one answer, backfill a session, score, tag, observe | report jobs, LLM, embedding model | two evaluators at once, engines that fail in threads, formulas with clamps | one verdict per answer, no score from a reply nobody gave, better is not worse |
| Report composition (`report_generator.py`) | the summary | averages, persona weights | evaluation | answers without figures | a good answer never lowers the report |
| Recommendation cache (`recommendation_service.py`) | version key, entries | read through, invalidate | report jobs, practice | invalidation races with fills, expiry | no stale entry after an invalidation |
| E-mail sign-up (`accounts/views.py`, `accounts/codes.py`) | `PendingRegistration` | sign up, resend, verify | mail server, ledger | mail sent after the commit, late failure, attempts | bounded guesses, the latest mailed code works |
| Codes of unverified accounts (`issue_code`, `verify_code`) | `EmailVerificationCode` | issue, verify | mail server | no lock at all | bounded guesses |
| Account lifecycle (`login.py`, `tasks.py`, `member_service.py`) | `User.status`, timestamps | log in, dormancy batch, withdraw, ban, reactivate, reset, clean up | scheduler, ledger | batch writes from snapshots | an ended account stays ended and is anonymized |
| Social login (`oauth.py`, `views_oauth.py`) | `SocialAccount`, exchange code in the cache | callback, exchange, agree to terms | cache, provider | single use over two cache calls | a code gives tokens once, nobody gets into another's account |
| Interview sessions (`interview/views.py`, `mvp_views.py`) | `InterviewSession`, questions | create, generate questions by three routes, change status by three | ledger, LLM, documents | unlocked counts, rows stored one by one | one set of questions, the count says so, a reward for a completion |
| Questions (`question_generator.py`, `ai_chain_openai_engine.py`) | none until stored | choose documents, ask, fill up, number, tag | analysis, bank, LLM | each source may fail or repeat another | the list is full, without repetition, tagged with what its answers are measured by |
| Follow-ups and turns (`follow_up_generator.py`, `answer_service.py`) | answers, follow-up questions, weakness rows, cached decisions | answer, judge, guard, ask, mark | LLM, evaluation | limits counted before a model is called, insert after | limits and places kept, a weak answer gets a fitting question |
| Prompt versions (`apps/prompt`) | templates, versions, default, activation | create, activate, delete, seed, serve | interview engine | administrators at once | the engine runs with a prompt that is there |
| Document analysis (`analysis/views.py`, `match_service.py`, `gap_service.py`) | `AnalysisSession`, `JdAnalysis`, result | start, thread, delete, match | documents, LLM | a dead thread stays `analyzing`; documents deleted meanwhile | ready means a result; better resumes score no less |
| Questions of an analysis (`star_service.py`, ...) | generated questions and answers | generate, merge, attach, store, charge | ledger, LLM | two lists with numbers of their own, filters in between | an answer stays with its question, invents no figure |
| GitHub repositories (`github_service.py`, `project_service.py`) | none | fetch, parse, compare | GitHub | each request fails in its own way | "verified" is what something read has shown |
| Input documents (`apps/input`, `apps/document`) | job descriptions, letters, resumes, files | create, parts, upload, check, delete, reward | ledger, storage | no transaction around row, parts, file, reward | a document is whole or not there; a card shows what was selected |
| Talent profiles | profile and items per job description | put by two handlers | analysis | one locks, one does not | profile, items and confirmation of one put |
| Action plans, roadmap, share links (`apps/report`) | rows per report | create, patch, share, generate | ledger, LLM | count or look-up before insert | excess bounded by overlap; one roadmap |
| My page (`apps/mypage`) | none | growth, history | reports | summaries in several forms, reports and statuses that change later | only evaluated sessions count, in their order |
| Job offers (`apps/external`) | catalog per process and file | list, keep, seed | documents | processes keep old catalogs | a listing is whole |
| Speech (`whisper_stt_service.py`) | temporary file | record, transcribe, measure, answer by three routes | remote model, guardrail | failing steps, overlapping answers | nothing stays behind, what was heard is not too short later, one answer per question |
| Question bank and A/B statistics, prompts' texts, PDF, lists | rows or none | search, count, format | all | conversion of data | not a matter of ordering |

## 2. Modules

One module per part, each with its own variables, so that a run can take several of them together;
the MC modules let `part` choose which of them a behaviour is about. Modules that depend upon each
other are composed by EXTENDS:

- `Ledger` is the joint between the ledger and what is paid. `PointLedger`, statement by statement,
  is shown to implement it (`LedgerImplemented`); `PaidFeatures` extends it and uses its `Post` as
  one step, so the charges of a feature need not be interleaved with the round trips of a posting.
- `WeaknessNames` (tables of names) is shared by the judgement of an answer (`AnswerJudgement`), what
  is asked because of it (`FollowupQuestion`, which extends the judgement), and the rows that remember
  it (`WeaknessRows`).
- `DocumentIntake` (which uploads become documents) is extended by `InputDocuments` (how they are
  stored).
- `JobDescriptionText` (how a selection is kept and shown) is extended by `GithubImport` (what a
  portfolio shows of itself): `ShownAsChosen` is about both.
- `Lists` (the items of a list that pass a test, its first few, the sum of a list of numbers) is
  shared by the pipelines and scores: `QuestionSelection`, `QuestionTags`, `PreparedQuestions`,
  `JobDescriptionText`, `MatchScore`, `Scores`, `GrowthPage`, `JobOffers`, `SpeechAnswers`. It also holds the
  lemmas about these operators that the proofs of those modules rest on.

Between the other modules the joint is an action whose outcomes the other module justifies:

| Action | of | stands for | detailed in |
|---|---|---|---|
| `Post` | `PaidFeatures` | a posting | `PointLedger` |
| `Judge`, `Guard` | `FollowUps` | judgement and guardrail | `AnswerJudgement`, `FollowupQuestion` |
| storing a row list | `InterviewSession` | the generated questions | `QuestionSelection`, `QuestionTags` |
| a verdict | `AnswerEvaluation` | pipeline and score | `EvaluationPipeline`, `Scores` |
| `Evaluate` | `ReportJobs` | the backfill of evaluations | `AnswerEvaluation` |
| a thread's result | `DocumentAnalysis` | the match and its gaps | `MatchScore` |
| a generation | `PaidFeatures` | the questions of an analysis | `PreparedQuestions` |

### Money: Ledger, PointLedger, PaidFeatures

`PointLedger`: `history[u]` is `accounts_point_history`, `rowLock` the row lock of `SELECT ... FOR
UPDATE`, `pc`, `call`, `resolved` and `nextBalance` the local variables of a request. `Begin`
resolves the policy; `KeyCheck` and `Limits` are the unlocked reads of `apply_point_policy`;
`TxRead` the second look-up of the key inside the transaction but before the lock; `Lock` the
locked read of the balance; `Commit` the save, the insert and the commit, or the roll-back by the
UNIQUE key. `Crash` is the death of a worker at any of these points. The reads of `Limits` are one
step, because rows are never removed. The clock counts half-days, so that the local day (KST) and
the UTC month have boundaries at different instants.

`PaidFeatures`: each feature has its items; a request works on one. Packs, practices and analyses
go `charge -> generate -> (store) -> refund`; a session is charged in the transaction that stores
its questions. The key of a charge is `ChargeKey(item, n)`: `n` is `generation_count` for an
analysis and constant for the others. Routes that fill a session without a charge and the forced
deletion are `FillElsewhere` and `ForceDelete`. `earned`, `stored` and `lost` are history variables;
`lost` collects the charges whose request died, or raised an exception that
`MVPPracticeSessionCreateView` does not refund.

### Reports: ReportJobs, RecommendationCache, AnswerEvaluation, EvaluationPipeline, Scores

`ReportJobs`: `report` is the `FinalReport` row of one session with its staleness; a request goes
`lock -> claim -> start`, a thread `backfill -> save -> invalidate`. A summary is the set of answers
it counts as evaluated. `overlap` records that one of three things happened after which two
generations may run: a forced claim, a timeout with the old thread still alive, an exception after
the result was saved. `overtaken` are the threads that have composed a summary and not written it
when another one writes its own. `ResultKept` says that no step makes the row tell of fewer evaluated
answers than before, be it by a generation that fails, raises, dies, is claimed anew or finds less, except the
write of an overtaken thread: that write compares nothing (`report_jobs.py:66`), and the run `report_zombie` shows it.

`RecommendationCache`: time-outs are actions that may happen at any time, for the version (300 s by
default) and for each entry (30 min). `due[r]` is what a reader may expect: the tags of the last
invalidation that was complete when it began. `lowered` records that a late first `set` has set the
version back.

`AnswerEvaluation`: an evaluator (a request for one answer, or a thread that backfills) looks for an
evaluation, runs the models without a transaction, and stores evaluation and tags in one, where the
UNIQUE constraint lets one win; the experiment is observed afterwards. Answers may be deleted
meanwhile. `EvaluationPipeline` is what happens in between: the sufficiency chain, up to three
engines with retries in threads, of which the caller waits for all, the embedding model, kept once
it is loaded or missing, and the observation, with experiments that start, stop and fail.
`Scores` is the score and the tags of one answer as functions of `sample` (marks of the text,
metrics of the models, pauses, grounding), and the averages and persona weights of a session, whose
answers are evaluated one by one. `BetterIsNotWorse` compares an answer with those that are better in
one respect (`Improved`), and a session with itself before its last answer.

### Interviews: InterviewSession, InterviewMaterial, QuestionSelection, QuestionTags, FollowUps, AnswerJudgement, FollowupQuestion, WeaknessRows, PromptVersions

`InterviewSession`: the session's row, the rows of its main questions, and what each request
holds from its own read. The flat route stores in one transaction, the nested route and the pack
row by row; of the routes that write the status one saves all columns. `InterviewMaterial`: the
two routes that create a session from documents, an analysis or both, with their checks; the later
re-reads of the analysis by each source of questions; deletions and new analyses in between.

`QuestionSelection`: a stage per source (model, prepared questions, bank, templates) in the order
that depends on whether the session has documents, with the skips and fallbacks between them; a
text is a model value up to equality after normalization. `QuestionTags`: one question through the
passes of the generator (either engine, conversion, collection, append, plan, tag) to its rows, and
the two readers of its keywords.

`FollowUps`: `Caller` is a request of one of two routes; it looks for a follow-up, asks the cache,
counts, judges, guards, is answered by the model and inserts, one step each, while answers are
rewritten and sessions deleted. `NextAction` is what `/turns` tells the client. `AnswerJudgement`:
reply -> `Normalize` -> `Overrule`, the latter being passes of local rules over the normalized
reply; an answer is the set of marker groups the rules look for. `FollowupQuestion`: the judgement
by either engine, `Decide`, `Guardrail` (compares claims with the session's documents),
`WordQuestion` and the purpose the model is told. `WeaknessRows`: the rows of one answer, with the
ranks and links that a request writes around the model call and the rows the evaluation adds.

`PromptVersions`: administrators' requests validated on one read and written by a later statement,
the numbering under its lock, the seed command, and `Runtime`, the prompt the engine is given.

### Documents: DocumentAnalysis, MatchScore, PreparedQuestions, TalentProfile, DocumentIntake, InputDocuments, JobDescriptionText, GithubImport

`DocumentAnalysis`: one thread per analysis session, `begin -> result -> jd -> session`, while the
job description and the resume are edited, deleted and inserted again; `dead` collects killed
threads. `MatchScore`: score, label, interval, unmatched techniques and gaps as functions of a
posting and a resume; its actions add something to the resume. `PreparedQuestions`: one generation,
from the context through two lists of the model, merging, filtering, numbering and the attachment of
answers by number, to the rows. `TalentProfile`: two handlers that replace profile and items in a
transaction, one of which locks.

`DocumentIntake`: the checks of files, scanned pages, fetched pages and written texts, in order, and
which of them an upload of either kind meets. `InputDocuments`: create, its parts, its file and the
request for its reward (`claimed`; the posting may be refused, `PointLedger`) as separate steps that may fail, and deletion. `JobDescriptionText`: a selection is written
into labelled lines of the text and parsed back for the card; names stand for what commas divide
them into. `GithubImport`: repository by repository, URL, requests, manifests, and the comparison
with the techniques of the resume.

### Accounts and a user's pages: PendingSignup, LegacyCodes, SocialSignIn, AccountLifecycle, Roadmap, ReportPages, GrowthPage, JobOffers, SpeechAnswers

`PendingSignup`: each handler is one step while it holds the row's lock; the mail and the write
after a failed mail are steps of their own. `CoolDown` and `Expire` are the passing of 60 s and
600 s; the second cannot happen before the first. `LegacyCodes` is its counterpart for accounts that
exist, where nothing is locked: reads and writes are separate steps, and `LegacyGuessesBounded` says what is
left of the limit of attempts (section 5). `SocialSignIn`: the signed state,
which is stored nowhere and expires; callbacks that ask the provider for the profile, and exchanges, that
overlap; the cache entry that is read and then deleted; an address taken or a user blocked meanwhile. `AccountLifecycle`: one account; handlers read the row, decide, and save the
columns they name; the two nightly jobs read a snapshot and save later; withdrawal and the
administrator's change of status hold the lock.

`Roadmap`: items and row are looked up without a lock, the model is asked, and both are written
under the lock; what was looked up stays with the request (`remembered`). `ReportPages`: plans are
counted and links looked for, then inserted. `GrowthPage`: points, comparison, trends and the line of
the history as functions of the sessions, their reports and tags. `history` is in the order of creation
(`mypage/views.py:54`); sessions are created, completed and set back, answers are evaluated again, prompts chosen
anew, and reports claimed, written and failed, each for any session at any time (in `ReportJobs` and
`InterviewSession` these are the steps of threads and requests), and the page is opened after each. Of the trends a
page has room for `MaxShown` (five in the program). `JobOffers`: catalogs of processes, the file and the command
that rewrites it, pages of a listing in each of the orders. `SpeechAnswers`: the temporary file, the remote call, the
measures, and the three routes that take a text, heard or typed: POST and PATCH check it again, the nested route
(`interview/views.py:644`) takes any length; all ask the guardrail, which may block it, and store in a later step
that meets the UNIQUE key or the row as it is by then.

## 3. Runs

Six runs must find no error:

| Run | Shows | Bounds, and why they are enough |
|---|---|---|
| `ledger_concurrent` | no lost update, once-rules, every call returns, `Ledger` implemented | 2 users, 2 requests, 3 calls out of 8 kinds at one instant: every pair of calls overlaps, with a third before or after |
| `ledger_serial` | limits of a day and a month while calls do not overlap, with policy changes | 1 request, 4 calls, 2 months of 2 half-days: a limit is reached, passed by a boundary, and reached again |
| `reports` | one generation and one verdict at a time, results never lost, stale reads, earned scores, settling, monotone scores | 2 requests, 2 threads, 2 deaths: two polls meet, a zombie meets its successor. 2 readers and 2 generations with 2 versions. 2 evaluators, 2 answers. One process, 2 evaluations, 1 retry, 1 change of the experiment. Samples on both sides of every threshold, reports of 2 answers and 4 personas |
| `interview` | everything of a session from its documents to its follow-ups | 2 requests of 3 calls, 2 main questions, 1 death. 2 callers, 1 follow-up per question and 2 per session, so both limits are met, 1 rewriting. Up to 3 questions asked for and 3 replied. 2 administrators, 2 templates, 2 versions, 5 changes. 2 analyses of 1 description, 2 resumes, 1 letter. 2 callers about one answer, 3 requests |
| `documents` | charges, analyses, profiles, uploads, cards, repositories, answers, match | 1 user, one item per feature, 2 requests at a time, 3 runs, 2 prices, 1 free generation. 2 sessions with 1 edit. 3 writers, as two that wait for one row need a third that holds it. 1 file per check it may fail; word counts on both sides of each limit. 2 repositories with 2 manifests |
| `accounts` | codes, sign-in, life of an account, own pages | 2 workers, 3 codes, 1 attempt; 2 visitors, 3 tries (with fewer the bound is reached without setting a count back twice), 2 rows; 2 browsers, 2 codes; 1 client beside the nightly jobs and 2 orders; 2 learners, 3 replies; 2 viewers at a limit of 3 plans, 3 links, 3 days; every history of up to 3 of 10 sessions with 3 weaknesses, of which 2 have room, and any one change; 2 processes and 2 catalogs; 2 requests, 2 recordings and 1 question, so that two answers meet |

and six find the violation of what a document, comment or message promises (section 5):
`report_zombie`, `reco_cache_expiry`, `paid_free_retry`, `signup_too_many`, `turns_loop`,
`weak_evidence`, each on the smallest instance that shows it.

Deadlock checking is off in every run: calls, codes, versions and replies are bounded by the
constants named `Max...`, so the models stop where the system goes on. These bounds occur only in
guards and count what arrives from outside; none cuts a handler short. That a request waits for ever
is the question of `CallsReturn`, `GenerationSettles`, `AnalysisSettles` and `WithdrawalExpires`.

Two actors are enough for the races: each check-then-act in the code reads once and writes once, so a
second actor between the two is what can go wrong. Where three matter (`TalentProfile`) there are
three, and where the proofs below apply any number is covered. Symmetry (of the
requests over a session and of those over its follow-ups) is used in `interview` only, which checks no
liveness.

What the composite properties join:
`SessionConsistent` = `OneQuestionSet` (rows, indexes and count of one generation) and
`CompletedIsRewarded`; `FollowupsInPlace` = `FollowupsBounded` (limits up to the number of requests
that overlap) and `FollowupsAttached`; `WeakAnswerFollowed` = `JudgedByRules`, `ShortAnswerAsked`,
`ClaimsChecked`, `FitsWeakness`; `KeywordsAreTagged` = `KeywordsReach`, `OriginTold`;
`RowsTellFollowups` = `LinksTell`, `RowsCount`; `ChargesAreFair` = `RefundsAreDue`, `PaidOrReturned`,
`GenerationsCounted`; `UploadsHold` = `DocumentsAreWhole`, `RefusedFitsElsewhere`; `ShownAsChosen` =
`CardShowsSelection`, `TechniquesAreShown`; `AnswersJudged` = `OneVerdict`, `EveryAnswerTried`;
`ScoresAreEarned` = `Earned`, `FailedFairly`, `OneVariant`; `BetterIsNotWorse` joins the monotonicity
of an answer's score and of a session's.

Where a property makes an exception (`overlap`, `lowered`, `late`, `lost`, `dead`, requests that
overlap), the exception is a history variable of the model and described in section 5: the situation
is modelled, not left out.

### Fairness

- `PointLedger!Fairness`: a worker goes on with its request (weak), and the database hands a row lock
  to those who wait for it in turn (strong on `Lock`). Deaths and calls are not fair.
- `ReportJobs!Fairness`: the client polls until done or failed, as the polling contract in
  `report/views.py` asks it to; requests go on and get the session's lock in turn (strong), threads go on;
  time passes, so a stale row times out.
  Deaths, forced regenerations and evaluations are not fair.
- `DocumentAnalysis!ThreadsGoOn`: a thread that is not killed goes on (weak).
- `AccountLifecycle!NightlyJobs`: both jobs start every night and go on with what they have read
  (`accounts/apps.py` registers them with the scheduler; under gunicorn only where `ACCOUNTS_SCHEDULER_ENABLED` is
  `true`, `apps.py:32`: without it nobody is anonymized); nothing else is fair.

The safety runs assume none.

## 4. Proofs

Theorems hold for every value of the constants under the named assumptions of the modules.

| Theorem | Statement | Argument |
|---|---|---|
| `PointLedgerProofs!TypeCorrect` | `[]TypeOK` | by actions |
| `PointLedgerProofs!LockedBalanceFreshCorrect` | `[]LockedBalanceFresh` | only the holder of the row lock writes the balance |
| `PointLedgerProofs!LedgerChainCorrect`, `KeyMovesOnceCorrect` | `[]LedgerChain`, `[]KeyMovesOnce` | inductive invariant `IInv == TypeOK /\ LockedBalanceFresh /\ LedgerChain /\ KeyMovesOnce`: the chain alone is not inductive, for a commit keeps it only if the balance it read is still there; every step either posts one row or leaves the ledger alone (`StepPosts`) |
| `PointLedgerProofs!OnceRulesCorrect` | `[]OnceRules` | every row comes from a call (`RowsFromCalls`), the keys of the calls are functions of account or reference (`OnceKeyAssumption`), and a key moves once |
| `PointLedgerProofs!LimitsKeptCorrect` | `Spec /\ []OneCallAtATime => []LimitsKept` | `LimitsInv`: a call past its check has room for what it will post (`RoomLeft`), for no other call of its user posts in between, a policy that stays on is the one that was found (`PoliciesOn`), and at midnight the sums start again, since rows are of the past (`RowsPast`, `NextSums`). A posting adds its amount to the sum of its day and its month and to no other (`PostedSums`); what the recursive sum is, is shown by `StepByStep` |
| `PointLedgerProofs!LedgerImplementedCorrect` | `Spec => Ledger!LedgerSpec` | from `IInv` and `StepPosts` |
| `DocumentProofs!ChargesAreFairCorrect` | `[]ChargesAreFair` | `PaidInv`: a generation is counted once per request (`Counted`), so the keys of charges stay in their bound and apart; while a request holds a charge that is neither earned nor refunded, the row it was made with stands in the ledger (`ChargesHeld`), which the abstract `Post` keeps because a key is posted once |
| `DocumentProofs!ReadyHasResultCorrect`, `ProfileOfOnePutCorrect` | `[]ReadyHasResult`, `[]ProfileOfOnePut` | a session that names a result names one that is there (`SessionsFit`); both handlers write profile, items and confirmation in one transaction (`TalentInv`) |
| `DocumentProofs!UploadsHoldCorrect` | `InputSpec /\ IntakeSpec => []UploadsHold` | `InputInv`: what a request knows of its row holds until it ends or the row is gone (`DraftFits`), because a row has one creator (`Apart`), so no other request adds items to it; a file is in the storage before its row. `TriedFits`: lists of checks say what the first that does not pass says (`VerdictOfBoth`), and of those of an upload only the third depends on the kind (`UploadSays`); a text cannot have more than twice as many words of a resume as of a description and the reverse (`LooksLikeOne`) |
| `ReportProofs!TypeCorrect`, `DoneIsUsableCorrect` | types, the result | by actions |
| `ReportProofs!ResultKeptCorrect` | `ResultKept` (a property of steps) | `ResultInv`: a thread that nobody has overtaken is about to write at least what the row tells, and without overlapping generations nobody is overtaken, because the busy thread is the only one (`BusyIsVisible`) |
| `ReportProofs!OneGenerationCorrect` | `[]OneGeneration` | `TypeOK /\ LockHeld /\ BusyIsVisible`: a generation under way shows in the row, so that a request that claims under the lock saw none |
| `ReportProofs!FreshWhileVersionRisesCorrect` | `[]FreshWhileVersionRises` | `RecoInv`: what is kept, or about to be, under a version may be shown to everybody who has taken it or will (`Shows`), also after the first invalidations that are still to set the version 1 |
| `ReportProofs!AnswersJudgedCorrect` | `[]AnswersJudged` | `EvaluationInv`: whoever is between the evaluation and its observation is the one that stored it (`AtWork`, `OneRecords`); an answer a backfill was started for is evaluated, failed, to do or at hand (`Pending`) |
| `ReportProofs!ScoresAreEarnedCorrect` | `[]ScoresAreEarned` | `PipelineInv`: how each engine came to its state, what the steps behind them rely on, and that an evaluation still to be observed has no observation |
| `AccountProofs!TypeCorrect`, `GuessesBoundedCorrect` | `[]TypeOK`, `[]GuessesBounded` | `IInv` adds `Counted` (the row's counter is at least the wrong inputs its code has met; codes to come have met none) and `HasCode` |
| `AccountProofs!LatestCodeWorksCorrect` | `[]LatestCodeWorks` | `Mailed`, `CodeCounts`: a code is held by the worker that issued it until it is mailed, so only a worker that holds an older one, noticed late, can take the newest out of the row |
| `AccountProofs!LegacyGuessesBoundedCorrect` | `[]LegacyGuessesBounded` | for any number n of requests at once: a request counts from what it has read, or from the row (`CountsFrom`); `Standing` is how many requests count from each number or more, and `Allowed` adds up binomial coefficients (`SetBacks`, as running sums) over it. A wrong input takes its request up by one place, and that outweighs whatever the others lose when it sets the row's count back (`OneSetBack`); all places together are worth C(n + `MaxTries`, `MaxTries`) - 1 (`AllowedBelow`) |
| `InterviewProofs!ServedPromptIsLiveCorrect` | `[]ServedPromptIsLive` | `PromptInv`: what an administrator holds from a read still exists, since templates are deleted softly and versions never; `Runtime` is defined because a set of versions has a greatest (`GreatestElement`) |
| `InterviewProofs!FollowupsInPlaceCorrect` | `[]FollowupsInPlace`, for `MaxPerMain = 1` | `FollowInv`: the follow-ups that are there and the requests past a check are together less than the limit and the number of requests (`SessionRoom`, `MainRoom`), and the ids that requests hold are apart (`IdsApart`) |
| `InterviewProofs!SessionConsistentCorrect` | `[]SessionConsistent` | `SessionInv`: unless a deletion cut in, the questions are the first n of one call, and a call that has stored some has stored all of them (`OneSet`); as long as no generation overlapped or died, the total and the questions are those of the one that runs (`Undisturbed`); whoever saw the session completed can count on its reward (`PaidOrUnpaid`) |
| `InterviewProofs!RowsTellFollowupsCorrect` | `[]RowsTellFollowups` | `RowsInv`: the rows are numbered from 1 without gaps, so a new row is behind all others; a request that found no row of its weakness, and will make one, is counted with the rows there are (`CountFits`), for it found none when all of them were still to be made; what a request remembers of its row stays true until the answer goes (`AskerFits`) |
| `InterviewProofs!MaterialFitsCorrect` | `[]MaterialFits` | `MaterialInv`: a session has the documents of its analysis as far as it has any; one still to be inserted may also name a letter its analysis has lost, but that letter is gone, so the insert fails (`CreationFits`); an analysis that is read is the one that was named and compared, or of the documents of the session (`Suits`) |
| `InterviewProofs!WeakAnswerFollowedCorrect` | `[]WeakAnswerFollowed` | `FollowupInv`: a reply that is not refused is normalized to a decision with, for a follow-up, a defined weakness (`NormalizedDecides`); an answer that is too short or off the topic does not suffice and has a trigger (`WeakIsDetected`), so no rule spares it; what the guardrail saw stays true until the question is stored (`QuestionFits`) |
| `AccountProofs!ChecksPassedTogetherCorrect`, `PagesTypeCorrect` | `[]ChecksPassedTogether`, `[]PagesTypeOK` | `PagesInv` counts the requests at each point of a handler (`At`): whoever passed the check of the plans is at `insert`, of the links at `link`, and leaves a plan or a link when it goes on. `PointsMoved` is what a step does to these counts |
| `AccountProofs!OneRoadmapCorrect` | `[]OneRoadmap` | `RoadmapInv`: items are written only while there are none (`RoadmapStored`, from what the request remembers and the UNIQUE row), so what anyone has found or was shown is what is kept |
| `AccountProofs!SignInOnceCorrect` | `[]SignInOnce` | `SocialInv`: a code that was used or is about to be is gone from the cache, and is held by one request at most |
| `AccountProofs!EndedForGoodCorrect` | `[]EndedForGood` | `AccountInv`: an account with the date of a withdrawal is disabled, an anonymized one has the date, and the clean-up holds only such a one; `Harmless` is what each step may do to the row |
| `AccountProofs!TranscriptsFitCorrect` | `[]TranscriptsFit` | `SpeechInv`: a file in use has a request that removes it; a transcript was measured by its own words and was answerable when it was handed out, so it is when its duration is left out (`StillAnswerable`); what is about to be stored has passed the checks of its route (`Ready`), and a duration kept from another text is not too short; words that end in order are spoken within the recording (sums of their lengths and pauses) |
| `AccountProofs!ListingIsWholeCorrect` | `[]ListingIsWhole` | `OffersInv`: a page is the part its number says of the catalog it was turned in; pages of one catalog put together are its listing (`PageAdds`), which has every matching offer once and in order (`ListedFits`) |
| `AccountProofs!GrowthFollowsEvaluationsCorrect` | `GrowthFollowsEvaluations` (a property of steps) | `GrowthInv`: the page is the function of the history; a session that counts neither before nor after a change leaves the points alone, and the k-th point is the k-th that counts (`PointsArePlaces`); two lists of shares with one sum balance, so if one share falls another rises (`TotalsBalance`) |
| `InterviewProofs!QuestionsCompleteCorrect` | `[]QuestionsComplete` | `SelectionInv`: templates are taken last, and only when something is missing though every prepared question has been taken (`Covered`); each stage extends the list without repetition up to what is asked for (`AppendExtends`) |
| `InterviewProofs!KeywordsAreTaggedCorrect` | `[]KeywordsAreTagged` | `TagsInv`: every pass hands on the keywords its source knew of and tags that tell of it (`FromSource`, `SourcesTold`, `Noted`), and what is stored has keywords of the question or of none |
| `DocumentProofs!AnswersFitCorrect` | `[]AnswersFit` | `PrepInv`: rows of an earlier generation are gone or were asked to be replaced; from the merge on the chosen questions stay as the merge has left them (`Kept`), so the number an answer names is still that of its question (`AnswerStands`) |
| `DocumentProofs!ShownAsChosenCorrect` | `TextSpec /\ GithubSpec => []ShownAsChosen` | `TextInv`: the text is that of the last selection, and what is parsed from lines put together is what each of them says (`ReadsOn`). `GithubInv`: the accumulators hold exactly what was read of the links behind (`MergedFits`), every link behind was read to its end or is among the errors, once (`LinksFit`), and links read, budget and links left together stay below the limit (`BudgetFits`) |
| `DocumentProofs!MoreIsNotWorseCorrect` | `MoreIsNotWorse` (a property of steps) | `MatchInv`: what is stored is the outcome for the resume as it is. Each part of the score grows with what a resume tells (`TellsMore`), and so do the weighted sum, its rounding and the label |
| `ReportProofs!BetterIsNotWorseCorrect` | `ScoreSpec /\ ReportScoreSpec => BetterIsNotWorse` (a property of steps) | `ScoreInv`, and every part of a score is monotone: the clamps, the classes of pauses, the share of silence (`PartGrows`), both formulas (`AsGood`). `GradedInv`: one more number as great as the others lowers no rounded average (`AverageRises`); one that is the first to be asked for figures, and gives them, adds a full metric to a weighted mean of less (`WeightedRises`) |

Assumptions: keys and non-keys differ, the values that stand for "none" (`Never`, `Gone`, `Miss`,
`NoTemplate`, `Unassigned`, ...) are none of the values they are told from, amounts are integers, bounds are
naturals, the fields of a reply are those the engine reads (`JudgementAssumption`), an upload is no page and its words are counted (`UploadAssumption`), items have an owner
(`OwnerAssumption`) and are rows of one feature each, as ids of one table are (`FeatureItemAssumption`), policies have their types, workers and threads are disjoint, requests of
`LegacyCodes`, `ReportPages` and `FollowUps` are finitely many and not none, a cache version that is set is at
least 1, `OnceKeyAssumption`, which restates how the handlers build their idempotency keys, and
`LimitedAssumption`: what has a limit of a day or a month, or is due once a day, is earned (migration 0009) and
moved by `apply_point_policy` only, because refunds and adjustments have reasons of their own
(`interview/views.py:214`, `analysis/views.py:828`, `points.py:358`).

The inputs of the pipelines have the shapes the code that makes them gives them: lists are lists
(`ListsAssumption`, `PortfolioAssumption`, `SelectionAssumption`, `DraftsAssumption`, `RecordingsAssumption`,
`PostingsAssumption`), a session asks for as many questions as its form allows, with documents that are there
or not (`QuestionSelection!SessionsAssumption`), the questions of a list tell their source, sizes and counts are naturals
(`QueriesAssumption`, `ResumesAssumption`, `TagsAssumption`, `HistoriesAssumption`), the names that begin with `requirements` are among those that end in `.txt` (`NameAssumption`), and weaknesses are finitely many
(`GrowthAssumption`). Five say more than that:

- `TemplatesAssumption`: no template of a question is blank.
- `CatalogAssumption`: the offers of a catalog have ids of their own, as the command that writes it numbers them (`mock_jobs_service.py:181`).
- `CanonAssumption`: an alias of a technique stands for a name that is none (the table `TECH_ALIASES`, `match_service.py:36`).
- `LikenessAssumption`: a likeness is from 0 to 1, which is what the program says of it (`utils/llm_helpers.py:55`); a
  negative one would take a score below its interval.
- `SamplesAssumption`, `GradesAssumption`: fillers, pauses and words are counted; what a model says of an answer
  may be any number, for the program clamps it, and stores it clamped (`evaluation_services.py:293`), so that what a
  report averages is out of 25 or 100 points.

Two properties have a hypothesis of their own. `LimitsKept` is about calls of a user that do not overlap
(`OneCallAtATime`; calls of different users may), because `_enforce_policy_limits` reads without a lock and two
calls at once both find room (section 5); it is stated for policies no update switches off, because the built-in
policy that then takes their place has no limits. `FollowupsInPlace` is
proved where `MaxPerMain = 1`, which is the code's value (`MAX_FOLLOWUPS_PER_MAIN_QUESTION = 1`,
`follow_up_generator.py:195`): the check counts the direct follow-ups of a main question, which bounds all
below it only because a follow-up to a follow-up is never asked for where the limit is one.

The inductive invariants were model-checked on instances like those of section 3 before they were proved. Counting arguments (`PagesInv`, `SessionRoom`, `Counted`) are about cardinalities of sets of
requests, so they hold for any number of them. `NatLess` and its lemmas take the least or greatest
element of a set of naturals by well-foundedness, where an induction would need an operator as parameter.
`StepByStep` is the induction that is left: what holds at 0 and is passed on holds up to a bound, with the set of
the numbers it holds of as its parameter. From it `Lists` has what a sum is (`TotalAdds`, `TotalAppends`), how it
grows with its parts (`TotalGrows`, `TotalScales`, `TotalsBalance`), and that the items that pass a test keep
their order and their number (`WhereTakes`, `RanksAreDense`). `PartGrows` and `RatioGrows` are the rounding of
fractions, which neither prover does by itself, because it multiplies unknowns.

The inductive invariants (`TypeOK`, `LockedBalanceFresh`, `KeyMovesOnce`, `LimitsInv`, `LockHeld`, `BusyIsVisible`,
`RecoInv`, `EvaluationInv`, `PipelineInv`, `PaidInv`, `DocumentInv`, `TalentInv`, `InputInv`, `TriedFits`,
`PromptInv`, `FollowInv`, `SessionInv`, `RowsInv`, `MaterialInv`, `FollowupInv`, `LegacyInv`, `RoadmapInv`, `SocialInv`,
`AccountInv`, `PagesInv`, `SelectionInv`, `TagsInv`, `SpeechInv`, `OffersInv`, `PrepInv`, `TextInv`, `GithubInv`, `MatchInv`,
`ScoreInv`, `GradedInv`, `GrowthInv`) are proved and not among the runs' properties, which they imply.

Every invariant and every property of steps that the passing runs check is proved. Only model-checked are
the liveness properties `CallsReturn`, `GenerationSettles`, `AnalysisSettles` and `WithdrawalExpires` (liveness under
fairness is beyond the prover), and the six violations of section 5, which are counterexamples.

## 5. What the code does and its documents do not say

The six violation runs are the findings of `PROJECT.json`: a zombie thread overwrites its successor's
report (`report_jobs.py:66`); the version of the recommendation cache expires before its entries
(`recommendation_service.py:30`); the retry after a refunded generation is free (`analysis/views.py:561`);
too many attempts at a code read as "already verified" (`codes.py:166`); `/turns` names for ever an
answer that gets no follow-up (`interview/views.py:339`); and every answer to a non-technical question
lacks evidence (`evaluation_services.py:266`).

What else the models show, without a run of its own. The actions that show it are in the models; where a
property would be broken by it, the property names it as an exception.

Points and payments
- An overlapping replay of a reward ends with an `IntegrityError`, not with the existing row
  (`Commit`; `login.py:21` promises idempotence).
- A policy that is switched off falls back to the built-in amount, without limits (`points.py:157` can never fire).
- Two sessions completed at once are both rewarded on a day (`points.py:183`, `tests/test_points.py:98`).
- Two clicks at once count two generations (comment at `analysis/views.py:818`), and two overlapping
  generations leave two sets of questions (`analysis/views.py:805`).
- A reward that overlaps another one of its kind may answer 500 after the document was stored.
- A plan whose request dies before its reward is never rewarded; `REPORT.FIRST_VIEWED` is paid for any
  report that exists, also one that is processing or failed.

Reports and evaluation
- A poll of a failed report restarts it and answers 202, never 503 (`report/views.py:81`).
- Two overlapping first invalidations may lower the version of the cache (`SetOne`).
- A link may be made for a report that is not done; summaries of the old form show a score to the owner
  but none on the shared page. The trend of weaknesses lists five tags only.
- `reevaluate=True` is not used; an answer transcribed again keeps the evaluation of its old text; a death
  between evaluation and observation leaves none; one failing experiment hides the others'.
- Mock mode asks the engines before it fills in; the network error of an earlier engine hides the format
  error of a later one; JSON that is no object, or scores of another shape, are neither retried nor
  reported as format errors; an embedding model that failed once is missing for the life of the process.
- A short answer gets 16 points where the comment says 0; similarity 0 scores better than 1;
  `weak_technical_reasoning` and `well_balanced_tradeoff` can hold together; `high_jd_alignment` named by
  a model ends in both lists; `solid_answer_consistency` ignores the models' weaknesses; tags a model
  repeats are stored twice.

Roadmap
- The check under the lock does not work for the first row (`roadmap_service.py:137-160`): the session object
  remembers that it had no `roadmap_cache`, so the loser of an overlap inserts again and answers 503
  after it has paid for a call, though the comment promises a second look. After a reply without items a
  loser shows old texts beside new items.

Interviews
- The end of an interview may be changed back by a save of a stale copy.
- The nested route with `force_regenerate` deletes questions and answers before it looks at the
  analysis it is to use (`views.py:577`, `:581`): with a wrong id nothing is left.
- The analysis a session takes by default may be about another letter; it is looked up three times, so the
  parts of one prompt may stem from two. A document deleted between look-up and read makes the generation
  answer 500. A session without a description accepts any analysis.
- The bank is asked for only as many candidates as are missing before repetitions are dropped. A test of a
  prompt version may be filled by the fallback.
- An empty keyword tag of the model suppresses its real keywords; the OpenAI engine drops the keys
  `technical_keywords` and `expected_keywords`; a question whose only tags carry the program's own labels
  is stored without a source; a difficulty longer than its column, or an `order_index` that is no number
  though it is not used, fails the request.
- A sufficient answer with one local trigger is followed up when the model says NEXT, and spared when it
  asks with a tag that does not match.
- The OpenAI engine forces a follow-up for an answer off the topic, which the guardrail behind it refuses and
  remembers; only one that is also too short is followed up. `alternative_and_tradeoff_comparison` is never
  reached, as the alias comes first (`follow_up_generator.py:755`, `:897`). A technology that only the
  question names counts as documented. The follow-up is asked with the unmasked text although the
  judgement gets the masked one. The mock engine's Korean names are stored as tags of their own. The check
  against documents ignores the analysis and letter the session names.
- The limit per main question counts its direct follow-ups (`follow_up_generator.py:195`); were it two, a
  chain of follow-ups to follow-ups would meet the session's limit only.
- Weakness rows: a follow-up before the evaluation leaves two rows of one tag, without any race, which are
  counted twice; ranks repeat; a link dangles after its follow-up is deleted; a row stays selected though
  the follow-up failed; two spellings outside the aliases make two tags; rewriting an answer keeps its rows.

Accounts
- The limit of attempts at a code of an unverified account (5, `codes.py:31`) is exceeded: nothing is locked, so
  every request may set the count back to what it has read before. What holds is `LegacyGuessesBounded`: with n
  requests at once fewer than C(n + 5, 5) wrong inputs are compared with one code, which is 5 for one request, 20
  for two, and 6187 for the 12 of 3 workers with 4 threads. The bound is reached for the two and three requests it was
  checked with.
- An account that is reactivated after the clean-up has read it is anonymized all the same (`tasks.py:109`); the
  properties are about accounts that have ended, and do not catch it.
- A mail that fails after the cooldown clears the code of a later request (`SendFails`).
- Saves from stale copies by login, dormancy and invitation may overwrite the status of a ban or a
  withdrawal (`is_active` stays false; such an account is never anonymized). `change_member_status` sets
  `withdrawn` without `withdrawn_at`, with the same effect (`member_service.py:40-52`). Suspended users may
  sign in by OAuth; a dormant user without agreed terms loses `DORMANT.RETURN_LOGIN`; one reset link may be
  used by two overlapping requests.

Documents
- No analysis session takes over from a dead thread; start ignores those that are `analyzing`, and uses a ready
  one again after the description's text was patched; a missing letter is ignored but its id stored; the
  description has the status of whoever finished last; a failed session may leave a `JdAnalysis`; PATCH inserts
  a deleted description again and writes back a stale `analysis_status` (`input/views.py:491-497`); the PUT of
  an analysis keeps a stale `confirmed_at`.
- PATCH that sends `original_text` with a new selection keeps the old values of the card; with one value it
  rewrites the text and drops the others; a comma in a technique splits it.
- Items and skills of a letter without a transaction leave a part of them; a profile created twice ends with an
  `IntegrityError` after the name was changed; a deletion cut short leaves a row without its file; addresses and
  typed descriptions skip the guardrails of documents.
- `analyze_repo` "never raises" (`github_service.py:465`), but a manifest of another shape raises outside its
  handlers; a README is cut to 1000 characters before its limit of 8000; `merge_with_github` is called by nothing
  in the application, so the GitHub half of `ShownAsChosen` is about a function that awaits its caller; a cached summary stays when the address changes; `extract_interview_context` may raise in its
  second call.
- Questions of kind "talent" that the prompt asks for are always dropped by `merge_and_deduplicate`; three
  fields of technical answers are not checked for invented figures; a regeneration drops questions that equal
  old ones and then deletes the old ones, so may leave none.
- The gap compares lower-cased techniques with normalized ones, so a missing "AWS" is never reported; an unmet degree is
  not in the total; a resume without evidence of traits has no weak ones; the upper end of the interval is not
  monotone at a label's boundary; `min_years: null` fails the analysis.

Offers and speech
- The nested route stores answers of any length (`interview/views.py:698`), which the two others refuse; a
  transcript that was handed out may still be refused by the guardrail, or because the question has been
  answered meanwhile. A guardrail's `REQUIRE_ADMIN_REVIEW` blocks nothing (`guardrails.py:5`). A PATCH that does not
  send a duration keeps that of the text before.
- A process keeps its catalog after the file was written again; a file that is being written is read cut
  (500); processes with different catalogs give other offers under one id. `_contains_any` wants all terms.
- A recording whose writing fails stays (`whisper_stt_service.py:65`, although `:92` says it is removed).

## 6. Not modelled

- Inside the modelled parts: validity periods of policies and changes of their limits; the inline mode of report
  generation; the prompt-test path of `MVPQuestionGenerateView`; the draft's contents, banned accounts and
  rate limits of sign-up; audit rows and the events of guardrails; edits in Django's admin site (`accounts/admin.py:18`
  lets it set a status without the handlers' other columns; the admin API's change of a status is modelled);
  answers that new questions with `force_regenerate` delete under a running report; a reply of the match's model that
  overwrites computed keys (`match_service.py:317`); what the provider of a social login answers beyond whether the profile is complete.
- Texts: prompts, wording of questions and messages, the counts and suggestions of a report, the PDF, snippets and the
  cleaning of a README, the parsing of files. Models, embeddings, transcription and GitHub are inputs: any
  reply of the shapes the code distinguishes, including none.
- Search in the question bank, its similarity, and the statistics of A/B tests and of administrators: they read rows and
  change none, and what they compute is arithmetic over a database.
- The search at Worknet, a proxy without state (a reply with a message but no code is not taken as an error); the
  synthesis of speech.

## 7. Plan

1. Proofs: what is left is liveness, which awaits a prover for it. `FollowupsInPlace` for a limit above one
   would need the code to count follow-ups to follow-ups.
2. Models: periods of policies; the counts and suggestions of a report's summary; the statistics of A/B tests.
