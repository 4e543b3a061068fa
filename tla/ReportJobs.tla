------------------------------ MODULE ReportJobs ------------------------------
(***************************************************************************)
(* apps/report/services/report_jobs.py: the final report of one session,   *)
(* generated by background threads and polled by its user.                 *)
(*                                                                         *)
(* A request claims the report (status "processing") under the lock of the *)
(* session's row and starts a daemon thread; the thread evaluates the      *)
(* answers that have no evaluation yet, composes the summary from those    *)
(* that have one, writes it to the row without any lock, and invalidates   *)
(* the recommendation cache.  A thread may be slower than the timeout      *)
(* after which the next poll takes it for dead, it may raise, and it dies  *)
(* with its process.  The session's answers stay: that new questions with  *)
(* force_regenerate delete them (interview/views.py:577) is left out.      *)
(***************************************************************************)
EXTENDS Naturals, FiniteSets

CONSTANTS Answer,      \* the session's answers
          Request,     \* workers that serve polls and POSTs
          Thread,      \* background threads (bound: how many live at once)
          Nobody,      \* holder of a free lock, owner of no claim
          NoSummary,   \* summary = {}
          MaxCrashes   \* bound: requests and threads that die

ASSUME NobodyAssumption == Nobody \notin Request \cup Thread
ASSUME WorkersAssumption == Request \cap Thread = {}
ASSUME SummaryAssumption == \A s \in SUBSET Answer : s # NoSummary
ASSUME CrashAssumption == MaxCrashes \in Nat

VARIABLES
  report,     \* the FinalReport row; stale is is_stale_processing
  evaluated,  \* answers with an Evaluation row, all created atomically
  lock,       \* the request that holds the session's row
  pc,         \* where a request is in ensure_report_generation
  force,      \* its argument
  step,       \* where a thread is in _run_generation
  snapshot,   \* the answers its summary counts as evaluated
  latest,     \* history variable: whose claim of the report is the latest
  overlap,    \* history variable: a claim was forced or outlived the timeout, or a
              \* thread raised after it had written its result
  overtaken,  \* history variable: threads about to write a summary composed before
              \* another thread wrote its own
  crashes     \* deaths so far

requestVars == <<lock, pc, force>>
threadVars == <<step, snapshot>>
vars == <<report, evaluated, requestVars, threadVars, latest, overlap, overtaken, crashes>>

Status == {"absent", "processing", "done", "failed"}

\* error_code is AI_REPORT_GENERATION_FAILED or None.
ReportRow == [status : Status, error : BOOLEAN,
              summary : {NoSummary} \cup SUBSET Answer, stale : BOOLEAN]

\* The threads that have not written their result yet.
Generating == {t \in Thread : step[t] \in {"backfill", "save"}}

-----------------------------------------------------------------------------

Init ==
  /\ report = [status |-> "absent", error |-> FALSE, summary |-> NoSummary, stale |-> FALSE]
  /\ evaluated = {}
  /\ lock = Nobody
  /\ pc = [r \in Request |-> "idle"]
  /\ force = [r \in Request |-> FALSE]
  /\ step = [t \in Thread |-> "free"]
  /\ snapshot = [t \in Thread |-> {}]
  /\ latest = Nobody
  /\ overlap = FALSE
  /\ overtaken = {}
  /\ crashes = 0

\* The view reads the row first: a finished report is returned unless a new one
\* is forced.
Begin(r, f) ==
  /\ pc[r] = "idle"
  /\ report.status # "done" \/ f
  /\ pc' = [pc EXCEPT ![r] = "lock"]
  /\ force' = [force EXCEPT ![r] = f]
  /\ UNCHANGED <<report, evaluated, lock, threadVars, latest, overlap, overtaken, crashes>>

\* bug: a dead generation is never taken over
NeverStale == report.status = "done" \/ report.status = "processing"

\* The row needs no new generation.
UpToDate == report.status = "done" \/ (report.status = "processing" /\ ~report.stale)

\* bug: the session's row is not locked
NoSessionLock == TRUE

SessionFree == lock = Nobody

\* SELECT ... FOR UPDATE of the session, and the read of the report under it.
LockSession(r) ==
  /\ pc[r] = "lock"
  /\ SessionFree
  /\ \/ /\ UpToDate /\ ~force[r]
        /\ pc' = [pc EXCEPT ![r] = "idle"]
        /\ UNCHANGED lock
     \/ /\ ~UpToDate \/ force[r]
        /\ pc' = [pc EXCEPT ![r] = "claim"]
        /\ lock' = r
  /\ UNCHANGED <<report, evaluated, force, threadVars, latest, overlap, overtaken, crashes>>

\* bug: the claim empties the summary of the previous result
EmptiedClaim == [report EXCEPT !.status = "processing", !.error = FALSE, !.stale = FALSE,
                               !.summary = NoSummary]

\* _claim_processing, or the creation of the row: the summary is kept.
Claimed == [report EXCEPT !.status = "processing", !.error = FALSE, !.stale = FALSE]

\* The claim is written and committed.  The row may have changed since it was
\* read, for threads write it without the session's lock.
Claim(r) ==
  /\ pc[r] = "claim"
  /\ report' = Claimed
  /\ lock' = Nobody
  /\ pc' = [pc EXCEPT ![r] = "start"]
  /\ latest' = r
  /\ overlap' = (overlap \/ force[r])
  /\ UNCHANGED <<evaluated, force, threadVars, overtaken, crashes>>

\* thread.start(); the response tells the client to poll.
Start(r, t) ==
  /\ pc[r] = "start"
  /\ step[t] = "free"
  /\ step' = [step EXCEPT ![t] = "backfill"]
  /\ snapshot' = [snapshot EXCEPT ![t] = {}]
  /\ latest' = IF latest = r THEN t ELSE latest
  /\ pc' = [pc EXCEPT ![r] = "idle"]
  /\ UNCHANGED <<report, evaluated, lock, force, overlap, overtaken, crashes>>

\* An answer gets its evaluation from the backfill of a thread, or from
\* EvaluationCreateView.  An evaluation that raises creates nothing.
Evaluate(a) ==
  /\ a \notin evaluated
  /\ evaluated' = evaluated \cup {a}
  /\ UNCHANGED <<report, requestVars, threadVars, latest, overlap, overtaken, crashes>>

\* generate_final_report loads the evaluations; what follows (the improvement
\* suggestions of the LLM) adds nothing the row's status depends on.
Compose(t) ==
  /\ step[t] = "backfill"
  /\ step' = [step EXCEPT ![t] = "save"]
  /\ snapshot' = [snapshot EXCEPT ![t] = evaluated]
  /\ overtaken' = overtaken \ {t}
  /\ UNCHANGED <<report, evaluated, requestVars, latest, overlap, crashes>>

\* bug: a summary without a single evaluated answer counts as a report
AnySummaryIsGood(s) == FALSE

\* summary_indicates_failure
IndicatesFailure(s) == Answer # {} /\ s = {}

\* The row is overwritten whatever it has become since the claim.
Save(t) ==
  /\ step[t] = "save"
  /\ LET failed == IndicatesFailure(snapshot[t])
     IN report' = [status |-> IF failed THEN "failed" ELSE "done", error |-> failed,
                   summary |-> snapshot[t], stale |-> FALSE]
  /\ step' = [step EXCEPT ![t] = "invalidate"]
  /\ overtaken' = {u \in Thread \ {t} : step[u] = "save"}
  /\ UNCHANGED <<evaluated, requestVars, snapshot, latest, overlap, crashes>>

\* invalidate_weakness_reco_cache, the last thing the thread does.
Invalidate(t) ==
  /\ step[t] = "invalidate"
  /\ step' = [step EXCEPT ![t] = "free"]
  /\ UNCHANGED <<report, evaluated, requestVars, snapshot, latest, overlap, overtaken, crashes>>

FailedRow == [report EXCEPT !.status = "failed", !.error = TRUE, !.stale = FALSE]

\* Anything _run_generation does may raise, the cache included: the row is
\* marked failed and keeps its summary.
Raise(t) ==
  /\ step[t] # "free"
  /\ report' = FailedRow
  /\ step' = [step EXCEPT ![t] = "free"]
  /\ overlap' = (overlap \/ step[t] = "invalidate")
  /\ overtaken' = overtaken \ {t}
  /\ UNCHANGED <<evaluated, requestVars, snapshot, latest, crashes>>

\* PROCESSING_TIMEOUT_MINUTES pass without a write to the row.
TimeOut ==
  /\ report.status = "processing"
  /\ ~report.stale
  /\ report' = [report EXCEPT !.stale = TRUE]
  /\ overlap' = (overlap \/ Generating # {} \/ \E r \in Request : pc[r] = "start")
  /\ UNCHANGED <<evaluated, requestVars, threadVars, latest, overtaken, crashes>>

\* The process of a request dies: the database releases its lock.
CrashRequest(r) ==
  /\ pc[r] # "idle" /\ crashes < MaxCrashes
  /\ crashes' = crashes + 1
  /\ pc' = [pc EXCEPT ![r] = "idle"]
  /\ lock' = IF lock = r THEN Nobody ELSE lock
  /\ latest' = IF latest = r THEN Nobody ELSE latest
  /\ UNCHANGED <<report, evaluated, force, threadVars, overlap, overtaken>>

\* The process of a thread dies: the row stays "processing".
CrashThread(t) ==
  /\ step[t] # "free" /\ crashes < MaxCrashes
  /\ crashes' = crashes + 1
  /\ step' = [step EXCEPT ![t] = "free"]
  /\ latest' = IF latest = t THEN Nobody ELSE latest
  /\ overtaken' = overtaken \ {t}
  /\ UNCHANGED <<report, evaluated, requestVars, snapshot, overlap>>

RequestStep(r) == LockSession(r) \/ Claim(r) \/ \E t \in Thread : Start(r, t)
ThreadStep(t) == Compose(t) \/ Save(t) \/ Invalidate(t) \/ Raise(t)

Next ==
  \/ \E r \in Request : (\E f \in BOOLEAN : Begin(r, f)) \/ RequestStep(r) \/ CrashRequest(r)
  \/ \E t \in Thread : ThreadStep(t) \/ CrashThread(t)
  \/ \E a \in Answer : Evaluate(a)
  \/ TimeOut

Spec == Init /\ [][Next]_vars

\* The client polls until the report is done or failed, requests and threads
\* that live go on, locks and threads are handed out in turn, and time passes.
Fairness ==
  /\ \A r \in Request : WF_vars(Begin(r, FALSE)) /\ SF_vars(RequestStep(r))
  /\ \A t \in Thread : WF_vars(ThreadStep(t))
  /\ WF_vars(TimeOut)

FairSpec == Spec /\ Fairness

-----------------------------------------------------------------------------
(* Properties *)

\* The row has one of its statuses, and its summary counts answers of the session.
TypeOK ==
  /\ report \in ReportRow
  /\ evaluated \subseteq Answer
  /\ lock \in Request \cup {Nobody}
  /\ pc \in [Request -> {"idle", "lock", "claim", "start"}]
  /\ force \in [Request -> BOOLEAN]
  /\ step \in [Thread -> {"free", "backfill", "save", "invalidate"}]
  /\ snapshot \in [Thread -> SUBSET Answer]
  /\ latest \in Request \cup Thread \cup {Nobody}
  /\ overlap \in BOOLEAN
  /\ overtaken \subseteq Thread
  /\ crashes \in Nat

Starting == {r \in Request : pc[r] = "start"}

\* The session's row is held from the read of the report to its claim, and only
\* then.
LockHeld == \A r \in Request : pc[r] = "claim" <=> lock = r

Busy == Generating \cup Starting

\* Why OneGeneration holds: a generation under way is visible in the row, and a
\* request that has decided to claim without force saw none.
BusyIsVisible ==
  ~overlap =>
    /\ \A x, y \in Busy : x = y
    /\ Busy # {} => report.status = "processing" /\ ~report.stale
    /\ \A r \in Request : pc[r] = "claim" /\ ~force[r] => Busy = {}

\* However many polls arrive at once, one generation runs at a time, until a
\* client forces another, one outlives the timeout, or one fails after it has
\* written its result.
OneGeneration == ~overlap => Cardinality(Busy) <= 1

\* A report that is "done" has a summary with an evaluated answer, whichever
\* of several threads wrote last and whatever failed in between.
DoneIsUsable ==
  report.status = "done" =>
    /\ report.summary # NoSummary
    /\ Answer # {} => report.summary # {}
    /\ ~report.error

\* The evaluated answers a client is told of by the row.
Told(row) == IF row.summary = NoSummary THEN {} ELSE row.summary

\* Why ResultKept holds: a thread that nobody has overtaken is about to write at
\* least what the row tells, and without overlap nobody is overtaken.
ResultInv ==
  /\ Told(report) \subseteq evaluated
  /\ \A t \in Thread : step[t] = "save" =>
       snapshot[t] \subseteq evaluated /\ (t \notin overtaken => Told(report) \subseteq snapshot[t])
  /\ ~overlap => overtaken = {}

\* A generation that reads fewer evaluations, fails, raises, dies or is claimed
\* anew takes nothing from the result of an earlier one (_claim_processing: the
\* summary is preserved, and overwritten at completion).  What a thread may still
\* undo, for Save compares nothing, is what another one wrote after it had
\* composed its own summary, and that takes two generations at once.
ResultKept ==
  [][\/ /\ report.summary # NoSummary => report.summary' # NoSummary
        /\ Told(report) \subseteq Told(report')
     \/ overlap /\ \E t \in overtaken : Save(t)]_vars

\* A report that is being generated gets done or failed, although threads and
\* requests die between the claim and the result: a stale row is taken over.
GenerationSettles == report.status = "processing" ~> report.status \in {"done", "failed"}

\* While a new result is being generated the previous one is kept, and the
\* claimed generation overwrites it when it completes (_claim_processing).
ClaimedGenerationWrites ==
  [][report.summary # NoSummary /\ report.summary' # report.summary
     => latest \in Thread /\ step[latest] = "save" /\ step'[latest] = "invalidate"]_vars
=============================================================================
