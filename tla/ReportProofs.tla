----------------------------- MODULE ReportProofs -----------------------------
(***************************************************************************)
(* Proofs about the reports and what they are made from, for every set of  *)
(* answers, requests and threads: the jobs that generate a report          *)
(* (ReportJobs), the cache of recommendations (RecommendationCache), the   *)
(* evaluation of the answers (AnswerEvaluation), the engines of one        *)
(* evaluation (EvaluationPipeline), and the scores of an answer and of a   *)
(* session (Scores).                                                       *)
(*                                                                         *)
(* OneGeneration rests on LockHeld and BusyIsVisible: the claim is decided *)
(* and written under one lock, and until a generation has written its      *)
(* result the row says so. ResultKept adds ResultInv, and the others rest  *)
(* on RecoInv, EvaluationInv, PipelineInv.                                 *)
(***************************************************************************)
EXTENDS ReportJobs, RecommendationCache, AnswerEvaluation, EvaluationPipeline, Scores,
        FiniteSetTheorems, TLAPS

-----------------------------------------------------------------------------
(* The generation of a report *)

\* The initial state is typed.
LEMMA InitType == Init => TypeOK
<1> SUFFICES ASSUME Init PROVE TypeOK
  OBVIOUS
<1>1. report \in ReportRow
  BY DEF Init, ReportRow, Status
<1> QED
  BY <1>1 DEF Init, TypeOK

\* Every step keeps the types.
LEMMA NextType == TypeOK /\ [Next]_vars => TypeOK'
<1> SUFFICES ASSUME TypeOK, [Next]_vars PROVE TypeOK'
  OBVIOUS
<1> USE CrashAssumption DEF TypeOK, ReportRow, Status, requestVars, threadVars
<1>1. ASSUME NEW r \in Request, NEW f \in BOOLEAN, Begin(r, f) PROVE TypeOK'
  BY <1>1 DEF Begin
<1>2. ASSUME NEW r \in Request, LockSession(r) PROVE TypeOK'
  BY <1>2 DEF LockSession
<1>3. ASSUME NEW r \in Request, Claim(r) PROVE TypeOK'
  BY <1>3 DEF Claim, Claimed
<1>4. ASSUME NEW r \in Request, NEW t \in Thread, Start(r, t) PROVE TypeOK'
  BY <1>4 DEF Start
<1>5. ASSUME NEW r \in Request, CrashRequest(r) PROVE TypeOK'
  BY <1>5 DEF CrashRequest
<1>6. ASSUME NEW t \in Thread, Compose(t) PROVE TypeOK'
  BY <1>6 DEF Compose
<1>7. ASSUME NEW t \in Thread, Save(t) PROVE TypeOK'
  BY <1>7 DEF Save, IndicatesFailure
<1>8. ASSUME NEW t \in Thread, Invalidate(t) PROVE TypeOK'
  BY <1>8 DEF Invalidate
<1>9. ASSUME NEW t \in Thread, Raise(t) PROVE TypeOK'
  BY <1>9 DEF Raise, FailedRow
<1>10. ASSUME NEW t \in Thread, CrashThread(t) PROVE TypeOK'
  BY <1>10 DEF CrashThread
<1>11. ASSUME NEW a \in Answer, Evaluate(a) PROVE TypeOK'
  BY <1>11 DEF Evaluate
<1>12. CASE TimeOut
  BY <1>12 DEF TimeOut
<1>13. CASE UNCHANGED vars
  BY <1>13 DEF vars
<1> QED
  BY <1>1, <1>2, <1>3, <1>4, <1>5, <1>6, <1>7, <1>8, <1>9, <1>10, <1>11, <1>12, <1>13
     DEF Next, RequestStep, ThreadStep

\* TypeOK is an invariant.
THEOREM TypeCorrect == Spec => []TypeOK
BY InitType, NextType, PTL DEF Spec

-----------------------------------------------------------------------------
(* A finished report can be used *)

\* Save makes a row "done" only with an evaluated answer, every other write
\* makes it "processing" or "failed".
LEMMA NextDone == TypeOK /\ DoneIsUsable /\ [Next]_vars => DoneIsUsable'
<1> SUFFICES ASSUME TypeOK, DoneIsUsable, [Next]_vars PROVE DoneIsUsable'
  OBVIOUS
<1>1. ASSUME UNCHANGED report PROVE DoneIsUsable'
  BY <1>1 DEF DoneIsUsable
<1>2. ASSUME report'.status # "done" PROVE DoneIsUsable'
  BY <1>2 DEF DoneIsUsable
<1>3. ASSUME NEW r \in Request, NEW f \in BOOLEAN,
             Begin(r, f) \/ LockSession(r) \/ (\E t \in Thread : Start(r, t)) \/ CrashRequest(r)
      PROVE  UNCHANGED report
  BY <1>3 DEF Begin, LockSession, Start, CrashRequest
<1>4. ASSUME NEW t \in Thread, Compose(t) \/ Invalidate(t) \/ CrashThread(t) PROVE UNCHANGED report
  BY <1>4 DEF Compose, Invalidate, CrashThread
<1>5. ASSUME NEW a \in Answer, Evaluate(a) PROVE UNCHANGED report
  BY <1>5 DEF Evaluate
<1>6. ASSUME NEW r \in Request, Claim(r) PROVE report'.status # "done"
  BY <1>6 DEF Claim, Claimed, TypeOK, ReportRow
<1>7. ASSUME NEW t \in Thread, Raise(t) PROVE report'.status # "done"
  BY <1>7 DEF Raise, FailedRow, TypeOK, ReportRow
<1>8. CASE TimeOut
  <2>1. report'.status # "done"
    BY <1>8 DEF TimeOut, TypeOK, ReportRow
  <2> QED
    BY <2>1, <1>2
<1>9. ASSUME NEW t \in Thread, Save(t) PROVE DoneIsUsable'
  <2>1. snapshot[t] \in SUBSET Answer /\ snapshot[t] # NoSummary
    BY SummaryAssumption DEF TypeOK
  <2> QED
    BY <1>9, <2>1 DEF Save, IndicatesFailure, DoneIsUsable
<1>10. UNCHANGED vars => UNCHANGED report
  BY DEF vars
<1> QED
  BY <1>1, <1>2, <1>3, <1>4, <1>5, <1>6, <1>7, <1>8, <1>9, <1>10 DEF Next, RequestStep, ThreadStep

\* A report that is "done" can be shown, whatever threads wrote it last.
THEOREM DoneIsUsableCorrect == Spec => []DoneIsUsable
<1>1. Init => DoneIsUsable
  BY DEF Init, DoneIsUsable
<1> QED
  BY <1>1, TypeCorrect, NextDone, PTL DEF Spec

-----------------------------------------------------------------------------
(* One generation at a time *)

\* The requests and threads at work after a step, and who holds the row.
LEMMA NextLock == TypeOK /\ LockHeld /\ [Next]_vars => LockHeld'
<1> SUFFICES ASSUME TypeOK, LockHeld, [Next]_vars PROVE LockHeld'
  OBVIOUS
<1> USE NobodyAssumption DEF LockHeld, TypeOK, requestVars
<1>1. ASSUME NEW r \in Request, NEW f \in BOOLEAN, Begin(r, f) PROVE LockHeld'
  BY <1>1 DEF Begin
<1>2. ASSUME NEW r \in Request, LockSession(r) PROVE LockHeld'
  BY <1>2 DEF LockSession, SessionFree
<1>3. ASSUME NEW r \in Request, Claim(r) PROVE LockHeld'
  BY <1>3 DEF Claim
<1>4. ASSUME NEW r \in Request, NEW t \in Thread, Start(r, t) PROVE LockHeld'
  BY <1>4 DEF Start
<1>5. ASSUME NEW r \in Request, CrashRequest(r) PROVE LockHeld'
  BY <1>5 DEF CrashRequest
<1>6. ASSUME NEW t \in Thread, ThreadStep(t) \/ CrashThread(t) PROVE LockHeld'
  <2>1. UNCHANGED <<lock, pc>>
    BY <1>6 DEF ThreadStep, Compose, Save, Invalidate, Raise, CrashThread
  <2> QED
    BY <2>1
<1>7. ASSUME NEW a \in Answer, Evaluate(a) PROVE LockHeld'
  BY <1>7 DEF Evaluate
<1>8. CASE TimeOut \/ UNCHANGED vars
  BY <1>8 DEF TimeOut, vars
<1> QED
  BY <1>1, <1>2, <1>3, <1>4, <1>5, <1>6, <1>7, <1>8 DEF Next, RequestStep

\* Every step keeps a generation under way visible in the row.
LEMMA NextBusy == TypeOK /\ LockHeld /\ BusyIsVisible /\ [Next]_vars => BusyIsVisible'
<1> SUFFICES ASSUME TypeOK, LockHeld, BusyIsVisible, [Next]_vars PROVE BusyIsVisible'
  OBVIOUS
<1> USE DEF requestVars, threadVars
<1>1. ASSUME NEW r \in Request, NEW f \in BOOLEAN, Begin(r, f) PROVE BusyIsVisible'
  <2>1. Busy' = Busy /\ UNCHANGED <<report, overlap>>
    BY <1>1 DEF Begin, Busy, Generating, Starting, TypeOK
  <2>2. \A q \in Request : pc'[q] = "claim" => pc[q] = "claim" /\ force'[q] = force[q]
    BY <1>1 DEF Begin, TypeOK
  <2> QED
    BY <2>1, <2>2 DEF BusyIsVisible
<1>2. ASSUME NEW r \in Request, LockSession(r) PROVE BusyIsVisible'
  <2>1. Busy' = Busy /\ UNCHANGED <<report, overlap, force>>
    BY <1>2 DEF LockSession, Busy, Generating, Starting, TypeOK
  <2>2. \A q \in Request : pc'[q] = "claim" => pc[q] = "claim" \/ (q = r /\ (~UpToDate \/ force[r]))
    BY <1>2 DEF LockSession, TypeOK
  <2>3. ~overlap /\ ~UpToDate => Busy = {}
    BY DEF BusyIsVisible, UpToDate
  <2> QED
    BY <2>1, <2>2, <2>3 DEF BusyIsVisible
<1>3. ASSUME NEW r \in Request, Claim(r) PROVE BusyIsVisible'
  <2>1. CASE force[r]
    BY <1>3, <2>1 DEF Claim, BusyIsVisible
  <2>2. CASE overlap
    BY <1>3, <2>2 DEF Claim, BusyIsVisible
  <2>3. CASE ~force[r] /\ ~overlap
    <3>1. Busy = {}
      BY <1>3, <2>3 DEF Claim, BusyIsVisible
    <3>2. Generating' = {} /\ Starting' = {r}
      BY <1>3, <3>1 DEF Claim, Busy, Generating, Starting, TypeOK
    <3>3. report'.status = "processing" /\ ~report'.stale
      BY <1>3 DEF Claim, Claimed, TypeOK, ReportRow
    <3>4. \A q \in Request : pc'[q] # "claim"
      BY <1>3 DEF Claim, LockHeld, TypeOK
    <3> QED
      BY <3>2, <3>3, <3>4 DEF BusyIsVisible, Busy
  <2> QED
    BY <2>1, <2>2, <2>3
<1>4. ASSUME NEW r \in Request, NEW t \in Thread, Start(r, t) PROVE BusyIsVisible'
  <2>1. r \in Busy /\ Generating' = Generating \cup {t} /\ Starting' = Starting \ {r}
    BY <1>4 DEF Start, Busy, Generating, Starting, TypeOK
  <2>2. UNCHANGED <<report, overlap, force>> /\ \A q \in Request : pc'[q] = "claim" => pc[q] = "claim"
    BY <1>4 DEF Start, TypeOK
  <2>3. CASE ~overlap
    <3>1. Busy = {r}
      BY <2>1, <2>3 DEF BusyIsVisible
    <3>2. r \notin Generating
      BY WorkersAssumption DEF Generating
    <3>3. Busy' = {t}
      BY <2>1, <3>1, <3>2 DEF Busy
    <3> QED
      BY <2>2, <2>3, <3>1, <3>3 DEF BusyIsVisible
  <2> QED
    BY <2>2, <2>3 DEF BusyIsVisible
<1>5. ASSUME NEW r \in Request, CrashRequest(r) PROVE BusyIsVisible'
  <2>1. Busy' \subseteq Busy
    BY <1>5 DEF CrashRequest, Busy, Generating, Starting, TypeOK
  <2>2. UNCHANGED <<report, overlap, force>> /\ \A q \in Request : pc'[q] = "claim" => pc[q] = "claim"
    BY <1>5 DEF CrashRequest, TypeOK
  <2> QED
    BY <2>1, <2>2 DEF BusyIsVisible
<1>6. ASSUME NEW t \in Thread, Compose(t) \/ Invalidate(t) \/ CrashThread(t) PROVE BusyIsVisible'
  <2>1. Busy' \subseteq Busy /\ UNCHANGED <<report, overlap, force, pc>>
    BY <1>6 DEF Compose, Invalidate, CrashThread, Busy, Generating, Starting, TypeOK
  <2> QED
    BY <2>1 DEF BusyIsVisible
<1>7. ASSUME NEW t \in Thread, Save(t) \/ Raise(t) PROVE BusyIsVisible'
  <2>1. UNCHANGED <<force, pc>> /\ (overlap => overlap') /\ Busy' \subseteq Busy \ {t}
    BY <1>7, WorkersAssumption DEF Save, Raise, Busy, Generating, Starting, TypeOK
  <2>2. CASE t \in Busy /\ ~overlap
    <3>1. Busy' = {}
      BY <2>1, <2>2 DEF BusyIsVisible
    <3> QED
      BY <2>1, <2>2, <3>1 DEF BusyIsVisible
  <2>3. CASE t \notin Busy
    <3>1. step[t] = "invalidate" /\ overlap'
      BY <1>7, <2>3 DEF Save, Raise, Busy, Generating, TypeOK
    <3> QED
      BY <3>1 DEF BusyIsVisible
  <2>4. CASE overlap
    BY <2>1, <2>4 DEF BusyIsVisible
  <2> QED
    BY <2>2, <2>3, <2>4
<1>8. ASSUME NEW a \in Answer, Evaluate(a) PROVE BusyIsVisible'
  BY <1>8 DEF Evaluate, BusyIsVisible, Busy, Generating, Starting
<1>9. CASE TimeOut
  <2>1. Busy' = Busy /\ UNCHANGED <<force, pc>> /\ (~overlap' => ~overlap /\ Busy = {})
    BY <1>9 DEF TimeOut, Busy, Generating, Starting
  <2> QED
    BY <2>1 DEF BusyIsVisible
<1>10. CASE UNCHANGED vars
  BY <1>10 DEF vars, BusyIsVisible, Busy, Generating, Starting
<1> QED
  BY <1>1, <1>2, <1>3, <1>4, <1>5, <1>6, <1>7, <1>8, <1>9, <1>10 DEF Next, RequestStep, ThreadStep

\* Two that are busy are the same one: the set has at most one element.
LEMMA AtMostOne ==
  ASSUME NEW S, \A x, y \in S : x = y
  PROVE  Cardinality(S) <= 1
<1>1. CASE S = {}
  BY <1>1, FS_EmptySet
<1>2. CASE S # {}
  <2>1. PICK x \in S : S = {x}
    BY <1>2
  <2> QED
    BY <2>1, FS_Singleton
<1> QED
  BY <1>1, <1>2

\* The session's row is held from the read of the report to its claim, a
\* generation under way is visible, and so one generation runs at a time.
THEOREM OneGenerationCorrect == Spec => []OneGeneration
<1>1. Init => LockHeld /\ BusyIsVisible
  BY NobodyAssumption DEF Init, LockHeld, BusyIsVisible, Busy, Generating, Starting
<1>2. TypeOK /\ LockHeld /\ BusyIsVisible /\ [Next]_vars => LockHeld' /\ BusyIsVisible'
  BY NextLock, NextBusy
<1>3. BusyIsVisible => OneGeneration
  BY AtMostOne DEF BusyIsVisible, OneGeneration
<1> QED
  BY <1>1, <1>2, <1>3, TypeCorrect, PTL DEF Spec

-----------------------------------------------------------------------------
(* The result of an earlier generation *)

\* Only Save and the claim's neighbours write the row, and of these only Save
\* its summary.
LEMMA NextSummary ==
  ASSUME TypeOK, [Next]_vars
  PROVE  UNCHANGED report.summary \/ \E t \in Thread : Save(t)
<1>1. ASSUME NEW r \in Request, Claim(r) PROVE UNCHANGED report.summary
  BY <1>1 DEF Claim, Claimed, TypeOK, ReportRow
<1>2. ASSUME NEW t \in Thread, Raise(t) PROVE UNCHANGED report.summary
  BY <1>2 DEF Raise, FailedRow, TypeOK, ReportRow
<1>3. ASSUME TimeOut PROVE UNCHANGED report.summary
  BY <1>3 DEF TimeOut, TypeOK, ReportRow
<1>4. ASSUME NEW r \in Request, NEW f \in BOOLEAN,
             Begin(r, f) \/ LockSession(r) \/ (\E t \in Thread : Start(r, t)) \/ CrashRequest(r)
      PROVE  UNCHANGED report
  BY <1>4 DEF Begin, LockSession, Start, CrashRequest
<1>5. ASSUME NEW t \in Thread, Compose(t) \/ Invalidate(t) \/ CrashThread(t) PROVE UNCHANGED report
  BY <1>5 DEF Compose, Invalidate, CrashThread
<1>6. ASSUME NEW a \in Answer, Evaluate(a) PROVE UNCHANGED report
  BY <1>6 DEF Evaluate
<1>7. UNCHANGED vars => UNCHANGED report
  BY DEF vars
<1> QED
  BY <1>1, <1>2, <1>3, <1>4, <1>5, <1>6, <1>7 DEF Next, RequestStep, ThreadStep

\* Evaluations stay, a thread comes to its write only by composing, and is taken
\* off the overtaken ones only when it composes or leaves.
LEMMA NextOvertaken ==
  ASSUME TypeOK, [Next]_vars, \A t \in Thread : ~Save(t)
  PROVE  /\ evaluated \subseteq evaluated'
         /\ \A t \in Thread : step'[t] = "save" =>
              \/ step[t] = "save" /\ snapshot'[t] = snapshot[t] /\ (t \in overtaken => t \in overtaken')
              \/ snapshot'[t] = evaluated
         /\ overtaken' \subseteq overtaken
         /\ ~overlap' => ~overlap
<1> DEFINE Kept == /\ evaluated \subseteq evaluated'
                   /\ \A t \in Thread : step'[t] = "save" =>
                        \/ step[t] = "save" /\ snapshot'[t] = snapshot[t] /\ (t \in overtaken => t \in overtaken')
                        \/ snapshot'[t] = evaluated
                   /\ overtaken' \subseteq overtaken
                   /\ ~overlap' => ~overlap
<1> SUFFICES Kept
  OBVIOUS
<1> USE DEF TypeOK, requestVars, threadVars
<1>1. ASSUME NEW r \in Request, NEW f \in BOOLEAN, Begin(r, f) \/ LockSession(r) \/ Claim(r) \/ CrashRequest(r)
      PROVE  Kept
  <2>1. UNCHANGED <<evaluated, step, snapshot, overtaken>> /\ (overlap => overlap')
    BY <1>1 DEF Begin, LockSession, Claim, CrashRequest
  <2> QED
    BY <2>1
<1>2. ASSUME NEW r \in Request, NEW t \in Thread, Start(r, t) PROVE Kept
  <2>1. UNCHANGED <<evaluated, overtaken, overlap>>
    BY <1>2 DEF Start
  <2>2. \A u \in Thread : step'[u] = "save" => step[u] = "save" /\ snapshot'[u] = snapshot[u]
    BY <1>2 DEF Start
  <2> QED
    BY <2>1, <2>2
<1>3. ASSUME NEW t \in Thread, Compose(t) PROVE Kept
  <2>1. UNCHANGED <<evaluated, overlap>> /\ overtaken' = overtaken \ {t}
    BY <1>3 DEF Compose
  <2>2. \A u \in Thread \ {t} : step'[u] = step[u] /\ snapshot'[u] = snapshot[u]
    BY <1>3 DEF Compose
  <2>3. snapshot'[t] = evaluated
    BY <1>3 DEF Compose
  <2> QED
    BY <2>1, <2>2, <2>3
<1>4. ASSUME NEW t \in Thread, Invalidate(t) \/ Raise(t) \/ CrashThread(t) PROVE Kept
  <2>1. UNCHANGED <<evaluated, snapshot>> /\ overtaken \ {t} \subseteq overtaken' /\ overtaken' \subseteq overtaken
    BY <1>4 DEF Invalidate, Raise, CrashThread
  <2>2. (overlap => overlap') /\ step' = [step EXCEPT ![t] = "free"]
    BY <1>4 DEF Invalidate, Raise, CrashThread
  <2>3. \A u \in Thread : step'[u] = "save" => u # t /\ step[u] = "save"
    BY <2>2
  <2> QED
    BY <2>1, <2>2, <2>3
<1>5. ASSUME NEW a \in Answer, Evaluate(a) PROVE Kept
  BY <1>5 DEF Evaluate
<1>6. ASSUME TimeOut PROVE Kept
  BY <1>6 DEF TimeOut
<1>7. ASSUME UNCHANGED vars PROVE Kept
  BY <1>7 DEF vars
<1> QED
  BY <1>1, <1>2, <1>3, <1>4, <1>5, <1>6, <1>7 DEF Next, RequestStep, ThreadStep

\* A thread that writes without overlap is the only one about to.
LEMMA NextResult ==
  TypeOK /\ LockHeld /\ BusyIsVisible /\ ResultInv /\ [Next]_vars => ResultInv'
<1> SUFFICES ASSUME TypeOK, LockHeld, BusyIsVisible, ResultInv, [Next]_vars PROVE ResultInv'
  OBVIOUS
<1>1. ASSUME NEW t \in Thread, Save(t) PROVE ResultInv'
  <2>1. Told(report)' = snapshot[t]
    BY <1>1, SummaryAssumption DEF Save, Told, TypeOK
  <2>2. UNCHANGED <<evaluated, snapshot, overlap>>
    BY <1>1 DEF Save
  <2>3. \A u \in Thread : step'[u] = "save" => u # t /\ step[u] = "save"
    BY <1>1 DEF Save, TypeOK
  <2>4. overtaken' = {u \in Thread \ {t} : step[u] = "save"}
    BY <1>1 DEF Save
  <2>5. \A u \in Thread : ~(step'[u] = "save" /\ u \notin overtaken')
    BY <2>3, <2>4
  <2>6. ~overlap => overtaken' = {}
    <3>1. t \in Busy /\ \A u \in overtaken' : u \in Busy /\ u # t
      BY <1>1, <2>4 DEF Save, Busy, Generating
    <3> QED
      BY <3>1 DEF BusyIsVisible
  <2>7. snapshot[t] \subseteq evaluated
    BY <1>1 DEF Save, ResultInv
  <2>8. \A u \in Thread : step'[u] = "save" => snapshot'[u] \subseteq evaluated'
    BY <2>2, <2>3 DEF ResultInv
  <2> QED
    BY <2>1, <2>2, <2>5, <2>6, <2>7, <2>8 DEF ResultInv
<1>2. ASSUME \A t \in Thread : ~Save(t) PROVE ResultInv'
  <2>1. Told(report)' = Told(report)
    BY <1>2, NextSummary DEF Told
  <2> QED
    BY <1>2, <2>1, NextOvertaken DEF ResultInv
<1> QED
  BY <1>1, <1>2

\* What an earlier generation told stays, unless two ran at once and the slower
\* one had composed before the faster one wrote.
THEOREM ResultKeptCorrect == Spec => ResultKept
<1>1. Init => LockHeld /\ BusyIsVisible /\ ResultInv
  BY NobodyAssumption DEF Init, LockHeld, BusyIsVisible, Busy, Generating, Starting, ResultInv, Told
<1>2. TypeOK /\ LockHeld /\ BusyIsVisible /\ ResultInv /\ [Next]_vars => LockHeld' /\ BusyIsVisible' /\ ResultInv'
  BY NextLock, NextBusy, NextResult
<1>3. TypeOK /\ ResultInv /\ [Next]_vars
        => [\/ /\ report.summary # NoSummary => report.summary' # NoSummary
               /\ Told(report) \subseteq Told(report')
            \/ overlap /\ \E t \in overtaken : Save(t)]_vars
  <2> SUFFICES ASSUME TypeOK, ResultInv, [Next]_vars
               PROVE  \/ /\ report.summary # NoSummary => report.summary' # NoSummary
                         /\ Told(report) \subseteq Told(report')
                      \/ overlap /\ \E t \in overtaken : Save(t)
    OBVIOUS
  <2>1. ASSUME NEW t \in Thread, Save(t), t \notin overtaken
        PROVE  report'.summary # NoSummary /\ Told(report) \subseteq Told(report')
    <3>1. report'.summary = snapshot[t] /\ step[t] = "save"
      BY <2>1 DEF Save, TypeOK
    <3> QED
      BY <2>1, <3>1, SummaryAssumption DEF Told, ResultInv, TypeOK
  <2>2. ASSUME NEW t \in Thread, Save(t), t \in overtaken
        PROVE  overlap /\ \E u \in overtaken : Save(u)
    BY <2>2 DEF ResultInv
  <2>3. UNCHANGED report.summary => Told(report') = Told(report)
    BY DEF Told
  <2> QED
    BY <2>1, <2>2, <2>3, NextSummary
<1> QED
  BY <1>1, <1>2, <1>3, TypeCorrect, PTL DEF Spec, ResultKept

-----------------------------------------------------------------------------
(* The cache of recommendations *)

\* The version as a reader takes it.
Cur == IF cacheVersion = Miss THEN 0 ELSE cacheVersion

\* The invalidations follow the tags, and the readers the invalidations.
RecoOrder ==
  /\ floor <= tags
  /\ \A g \in Generation : written[g] <= tags
  /\ \A r \in Reader : due[r] <= floor

\* What was aggregated when the tags were n may be shown to whoever has taken v or will, also
\* after the first invalidations that are still to set the version 1.
Shows(n, v) ==
  /\ \A r \in Reader : reading[r] = "lookup" /\ taken[r] = v => due[r] <= n
  /\ v = Cur => floor <= n
  /\ v = 1 /\ cacheVersion # Miss => \A g \in Generation : writing[g] = "set" => written[g] <= n

\* Nothing is kept or taken under a version to come, and everything that is kept, or about
\* to be, may be shown.
RecoFresh ==
  /\ \A v \in CacheVersions : v > Cur => entry[v] = Miss
  /\ \A r \in Reader : reading[r] \in {"lookup", "aggregate", "store"} => taken[r] <= Cur
  /\ \A v \in CacheVersions : entry[v] # Miss => Shows(entry[v], v)
  /\ \A r \in Reader : reading[r] = "store" =>
       result[r] \in Nat /\ Shows(result[r], taken[r]) /\ due[r] <= result[r]
  /\ FreshAfterInvalidation

RecoInv == RecoTypeOK /\ RecoOrder /\ (~expired /\ ~lowered => RecoFresh)

\* Nothing is kept at first.
LEMMA RecoInitially == RecoInit => RecoInv
<1> SUFFICES ASSUME RecoInit PROVE RecoInv
  OBVIOUS
<1> USE RecoBoundAssumption, MissAssumption
<1>1. RecoTypeOK
  <2>1. entry \in [CacheVersions -> Nat \cup {Miss}]
    BY DEF RecoInit
  <2>2. taken \in [Reader -> CacheVersions]
    BY DEF RecoInit, CacheVersions
  <2>3. result \in [Reader -> Nat \cup {Miss}]
    BY DEF RecoInit
  <2>7. due \in [Reader -> Nat] /\ written \in [Generation -> Nat]
    <3>1. 0 \in Nat
      OBVIOUS
    <3>2. QED
      BY <3>1 DEF RecoInit
  <2>4. /\ reading \in [Reader -> {"idle", "version", "lookup", "aggregate", "store"}]
        /\ writing \in [Generation -> {"idle", "incr", "set"}]
    BY DEF RecoInit
  <2>5. tags \in 0 .. MaxTags /\ floor \in Nat
    BY DEF RecoInit
  <2>6. cacheVersion = Miss /\ expired \in BOOLEAN /\ lowered \in BOOLEAN
    BY DEF RecoInit
  <2>8. QED
    BY <2>1, <2>2, <2>3, <2>4, <2>5, <2>6, <2>7 DEF RecoTypeOK
<1>2. RecoOrder
  BY DEF RecoInit, RecoOrder
<1>3. RecoFresh
  BY DEF RecoInit, RecoFresh, FreshAfterInvalidation
<1>4. QED
  BY <1>1, <1>2, <1>3 DEF RecoInv

\* The steps of a reader change nothing that a generation works on.
LEMMA ReaderSteps ==
  ASSUME RecoInv, NEW r \in Reader,
         BeginRead(r) \/ ReadVersion(r) \/ LookUp(r) \/ Aggregate(r) \/ StoreEntry(r)
  PROVE  RecoInv'
<1> USE RecoBoundAssumption, MissAssumption
<1>0. RecoTypeOK /\ RecoOrder /\ (~expired /\ ~lowered => RecoFresh)
  BY DEF RecoInv
<1>1. /\ tags \in Nat /\ floor \in Nat /\ Cur \in CacheVersions /\ CacheVersions \subseteq Nat
      /\ \A q \in Reader : due[q] \in Nat
      /\ DOMAIN reading = Reader /\ DOMAIN taken = Reader /\ DOMAIN result = Reader
      /\ DOMAIN due = Reader /\ DOMAIN entry = CacheVersions
      /\ taken[r] \in CacheVersions /\ result[r] \in Nat \cup {Miss}
  BY <1>0 DEF RecoTypeOK, Cur, CacheVersions
<1>2. /\ UNCHANGED <<tags, cacheVersion, generationVars, expired, lowered>>
      /\ UNCHANGED <<writing, written, floor>>
  BY DEF BeginRead, ReadVersion, LookUp, Aggregate, StoreEntry, generationVars
<1>3. Cur' = Cur
  BY <1>2 DEF Cur
<1>4. CASE BeginRead(r)
  <2>1. /\ reading' = [reading EXCEPT ![r] = "version"] /\ result' = [result EXCEPT ![r] = Miss]
        /\ due' = [due EXCEPT ![r] = floor] /\ UNCHANGED <<entry, taken>>
    BY <1>4 DEF BeginRead, ReaderGoes
  <2>2. RecoTypeOK'
    BY <1>0, <1>1, <1>2, <2>1 DEF RecoTypeOK
  <2>3. RecoOrder'
    BY <1>0, <1>1, <1>2, <2>1 DEF RecoOrder
  <2>4. ASSUME ~expired, ~lowered PROVE RecoFresh'
    <3>1. RecoFresh
      BY <1>0, <2>4
    <3>2. ASSUME NEW n, NEW v, Shows(n, v) PROVE Shows(n, v)'
      BY <1>1, <1>2, <1>3, <2>1, <3>2 DEF Shows
    <3>3. \A v \in CacheVersions : v > Cur' => entry'[v] = Miss
      BY <1>3, <2>1, <3>1 DEF RecoFresh
    <3>4. QED
      BY <1>1, <1>2, <1>3, <2>1, <3>1, <3>2, <3>3 DEF RecoFresh, FreshAfterInvalidation
  <2>5. QED
    BY <1>2, <2>2, <2>3, <2>4 DEF RecoInv
<1>5. CASE ReadVersion(r)
  <2>1. /\ reading[r] = "version" /\ reading' = [reading EXCEPT ![r] = "lookup"]
        /\ taken' = [taken EXCEPT ![r] = Cur] /\ UNCHANGED <<entry, result, due>>
    BY <1>5 DEF ReadVersion, ReaderGoes, Cur
  <2>2. RecoTypeOK'
    BY <1>0, <1>1, <1>2, <2>1 DEF RecoTypeOK
  <2>3. RecoOrder'
    BY <1>0, <1>1, <1>2, <2>1 DEF RecoOrder
  <2>4. ASSUME ~expired, ~lowered PROVE RecoFresh'
    <3>1. RecoFresh
      BY <1>0, <2>4
    <3>2. ASSUME NEW n \in Nat, NEW v, Shows(n, v) PROVE Shows(n, v)'
      <4>1. due[r] <= floor
        BY <1>0 DEF RecoOrder
      <4>2. QED
        BY <1>1, <1>2, <1>3, <2>1, <3>2, <4>1 DEF Shows
    <3>3. QED
      BY <1>0, <1>1, <1>2, <1>3, <2>1, <3>1, <3>2 DEF RecoFresh, FreshAfterInvalidation, RecoTypeOK
  <2>5. QED
    BY <1>2, <2>2, <2>3, <2>4 DEF RecoInv
<1>6. CASE LookUp(r)
  <2>1. /\ reading[r] = "lookup" /\ result' = [result EXCEPT ![r] = entry[taken[r]]]
        /\ UNCHANGED <<entry, due>>
        /\ entry[taken[r]] = Miss => reading' = [reading EXCEPT ![r] = "aggregate"] /\ taken' = taken
        /\ entry[taken[r]] # Miss => /\ reading' = [reading EXCEPT ![r] = "idle"]
                                     /\ taken' = [taken EXCEPT ![r] = 0]
    BY <1>6 DEF LookUp, ReaderGoes
  <2>2. entry[taken[r]] \in Nat \cup {Miss}
    BY <1>0, <1>1 DEF RecoTypeOK
  <2>3. RecoTypeOK'
    <3>1. reading' \in [Reader -> {"idle", "version", "lookup", "aggregate", "store"}]
      BY <1>0, <2>1 DEF RecoTypeOK
    <3>2. taken' \in [Reader -> CacheVersions]
      BY <1>0, <2>1, 0 \in CacheVersions DEF RecoTypeOK, CacheVersions
    <3>3. result' \in [Reader -> Nat \cup {Miss}]
      BY <1>0, <2>1, <2>2 DEF RecoTypeOK
    <3>4. QED
      BY <1>0, <1>2, <2>1, <3>1, <3>2, <3>3 DEF RecoTypeOK
  <2>4. RecoOrder'
    BY <1>0, <1>1, <1>2, <2>1 DEF RecoOrder
  <2>5. ASSUME ~expired, ~lowered PROVE RecoFresh'
    <3>1. RecoFresh
      BY <1>0, <2>5
    <3>2. ASSUME NEW n, NEW v, Shows(n, v) PROVE Shows(n, v)'
      BY <1>1, <1>2, <1>3, <2>1, <3>2 DEF Shows
    <3>3. entry[taken[r]] # Miss => due[r] <= entry[taken[r]]
      BY <1>1, <2>1, <3>1 DEF RecoFresh, Shows
    <3>4. FreshAfterInvalidation'
      BY <1>1, <2>1, <2>2, <3>1, <3>3 DEF RecoFresh, FreshAfterInvalidation
    <3>5. \A q \in Reader : reading'[q] = "store" => q # r /\ reading[q] = "store" /\ result'[q] = result[q] /\ taken'[q] = taken[q]
      BY <1>1, <2>1
    <3>6. \A q \in Reader : reading'[q] \in {"lookup", "aggregate", "store"} =>
             reading[q] \in {"lookup", "aggregate", "store"} /\ taken'[q] = taken[q]
      BY <1>1, <2>1
    <3>7. QED
      BY <1>1, <1>2, <1>3, <2>1, <3>1, <3>2, <3>4, <3>5, <3>6 DEF RecoFresh
  <2>6. QED
    BY <1>2, <2>3, <2>4, <2>5 DEF RecoInv
<1>7. CASE Aggregate(r)
  <2>1. /\ reading[r] = "aggregate" /\ reading' = [reading EXCEPT ![r] = "store"]
        /\ result' = [result EXCEPT ![r] = tags] /\ UNCHANGED <<entry, taken, due>>
    BY <1>7 DEF Aggregate, ReaderGoes
  <2>2. RecoTypeOK'
    BY <1>0, <1>1, <1>2, <2>1 DEF RecoTypeOK
  <2>3. RecoOrder'
    BY <1>0, <1>1, <1>2, <2>1 DEF RecoOrder
  <2>4. ASSUME ~expired, ~lowered PROVE RecoFresh'
    <3>1. RecoFresh
      BY <1>0, <2>4
    <3>2. ASSUME NEW n, NEW v, Shows(n, v) PROVE Shows(n, v)'
      BY <1>1, <1>2, <1>3, <2>1, <3>2 DEF Shows
    <3>3. ASSUME NEW q \in Reader PROVE due[q] <= tags
      <4>1. due[q] <= floor /\ floor <= tags
        BY <1>0 DEF RecoOrder
      <4>2. QED
        BY <1>1, <4>1
    <3>4. Shows(tags, taken[r])
      BY <1>0, <3>3 DEF Shows, RecoOrder
    <3>6. result'[r] = tags /\ taken'[r] = taken[r] /\ tags' = tags
      BY <1>1, <1>2, <2>1
    <3>7. \A q \in Reader : reading'[q] = "store" => q = r \/ (reading[q] = "store" /\ result'[q] = result[q] /\ taken'[q] = taken[q])
      BY <1>1, <2>1
    <3>8. Shows(result[r], taken[r])'
      BY <1>1, <1>2, <1>3, <2>1, <3>4, <3>6 DEF Shows
    <3>9. \A q \in Reader : reading'[q] = "store" =>
            result'[q] \in Nat /\ Shows(result[q], taken[q])' /\ due'[q] <= result'[q]
      BY <1>1, <2>1, <3>1, <3>2, <3>3, <3>6, <3>7, <3>8 DEF RecoFresh
    <3>10. FreshAfterInvalidation'
      BY <1>1, <2>1, <3>1 DEF RecoFresh, FreshAfterInvalidation
    <3>11. \A q \in Reader : reading'[q] \in {"lookup", "aggregate", "store"} =>
             reading[q] \in {"lookup", "aggregate", "store"} /\ taken'[q] = taken[q]
      BY <1>1, <2>1
    <3>12. \A v \in CacheVersions : entry'[v] # Miss => Shows(entry[v], v)'
      BY <1>1, <1>2, <1>3, <2>1, <3>1 DEF RecoFresh, Shows
    <3>13. \A v \in CacheVersions : v > Cur' => entry'[v] = Miss
      BY <1>3, <2>1, <3>1 DEF RecoFresh
    <3>14. \A q \in Reader : reading'[q] \in {"lookup", "aggregate", "store"} => taken'[q] <= Cur'
      BY <1>3, <3>1, <3>11 DEF RecoFresh
    <3>15. QED
      BY <3>9, <3>10, <3>12, <3>13, <3>14 DEF RecoFresh
  <2>5. QED
    BY <1>2, <2>2, <2>3, <2>4 DEF RecoInv
<1>8. CASE StoreEntry(r)
  <2>1. /\ reading[r] = "store" /\ reading' = [reading EXCEPT ![r] = "idle"]
        /\ entry' = [entry EXCEPT ![taken[r]] = result[r]] /\ taken' = [taken EXCEPT ![r] = 0]
        /\ UNCHANGED <<result, due>>
    BY <1>8 DEF StoreEntry, ReaderGoes, StoredUnder
  <2>2. RecoTypeOK'
    BY <1>0, <1>1, <1>2, <2>1 DEF RecoTypeOK, CacheVersions
  <2>3. RecoOrder'
    BY <1>0, <1>1, <1>2, <2>1 DEF RecoOrder
  <2>4. ASSUME ~expired, ~lowered PROVE RecoFresh'
    <3>1. RecoFresh
      BY <1>0, <2>4
    <3>2. ASSUME NEW n, NEW v, Shows(n, v) PROVE Shows(n, v)'
      BY <1>1, <1>2, <1>3, <2>1, <3>2 DEF Shows
    <3>3. Shows(result[r], taken[r]) /\ due[r] <= result[r] /\ taken[r] <= Cur
      BY <2>1, <3>1 DEF RecoFresh
    <3>4. \A v \in CacheVersions : entry'[v] = (IF v = taken[r] THEN result[r] ELSE entry[v])
      BY <1>1, <2>1
    <3>5. \A v \in CacheVersions : entry'[v] # Miss => Shows(entry[v], v)'
      <4>1. ASSUME NEW v \in CacheVersions, entry'[v] # Miss PROVE Shows(entry'[v], v)
        BY <3>1, <3>3, <3>4, <4>1 DEF RecoFresh
      <4>2. ASSUME NEW v \in CacheVersions, entry'[v] # Miss PROVE Shows(entry[v], v)'
        BY <1>2, <1>1, <2>1, <4>1, <4>2 DEF Shows, Cur
      <4>3. QED
        BY <4>2
    <3>6. \A q \in Reader : reading'[q] # "idle" => q # r /\ reading'[q] = reading[q] /\ taken'[q] = taken[q]
      BY <1>1, <2>1
    <3>7. FreshAfterInvalidation'
      BY <1>1, <2>1, <3>1, <3>3 DEF RecoFresh, FreshAfterInvalidation
    <3>8. \A v \in CacheVersions : v > Cur' => entry'[v] = Miss
      BY <1>1, <1>3, <3>1, <3>3, <3>4 DEF RecoFresh
    <3>9. QED
      BY <1>1, <1>2, <1>3, <2>1, <3>1, <3>2, <3>5, <3>6, <3>7, <3>8 DEF RecoFresh
  <2>5. QED
    BY <1>2, <2>2, <2>3, <2>4 DEF RecoInv
<1>9. QED
  BY <1>4, <1>5, <1>6, <1>7, <1>8

\* A generation changes the tags, raises the version, or sets it to 1; the cache expires.
LEMMA GenerationSteps ==
  ASSUME RecoInv, NEW g \in Generation, ChangeTags(g) \/ IncrementVersion(g) \/ SetOne(g)
  PROVE  RecoInv'
<1> USE RecoBoundAssumption, MissAssumption
<1>0. RecoTypeOK /\ RecoOrder /\ (~expired /\ ~lowered => RecoFresh)
  BY DEF RecoInv
<1>1. /\ tags \in Nat /\ floor \in Nat /\ Cur \in Nat /\ CacheVersions \subseteq Nat
      /\ DOMAIN writing = Generation /\ DOMAIN written = Generation
      /\ \A h \in Generation : written[h] \in Nat /\ written[h] <= tags
      /\ \A q \in Reader : due[q] \in Nat /\ due[q] <= floor /\ taken[q] \in Nat
      /\ \A v \in CacheVersions : entry[v] \in Nat \cup {Miss}
      /\ floor <= tags
  BY <1>0 DEF RecoTypeOK, Cur, CacheVersions, RecoOrder
<1>2. UNCHANGED <<entry, reading, taken, result, due, expired>>
  BY DEF ChangeTags, IncrementVersion, SetOne, readerVars
<1>3. CASE ChangeTags(g)
  <2>1. /\ tags < MaxTags /\ tags' = tags + 1 /\ writing[g] = "idle"
        /\ writing' = [writing EXCEPT ![g] = "incr"] /\ written' = [written EXCEPT ![g] = tags + 1]
        /\ UNCHANGED <<cacheVersion, floor, lowered>>
    BY <1>3 DEF ChangeTags
  <2>2. RecoTypeOK'
    BY <1>0, <1>1, <1>2, <2>1 DEF RecoTypeOK
  <2>3. RecoOrder'
    <3>1. \A h \in Generation : written'[h] <= tags'
      BY <1>1, <2>1
    <3>2. floor' <= tags'
      BY <1>1, <2>1
    <3>3. QED
      BY <1>0, <1>2, <2>1, <3>1, <3>2 DEF RecoOrder
  <2>4. \A h \in Generation : writing'[h] = "set" => writing[h] = "set" /\ written'[h] = written[h]
    BY <1>1, <2>1
  <2>5. ASSUME ~expired, ~lowered PROVE RecoFresh'
    BY <1>0, <1>1, <1>2, <2>1, <2>4, <2>5 DEF RecoFresh, Shows, Cur, FreshAfterInvalidation
  <2>6. QED
    BY <1>2, <2>1, <2>2, <2>3, <2>5 DEF RecoInv
<1>4. ASSUME Invalidated(g), cacheVersion' \in (1 .. MaxVersion), UNCHANGED tags
      PROVE  /\ RecoOrder'
             /\ lowered' \in BOOLEAN => RecoTypeOK'
             /\ \A h \in Generation : writing'[h] = "set" => writing[h] = "set" /\ written'[h] = written[h]
             /\ writing'[g] = "idle"
             /\ floor' \in {floor, written[g]}
  <2>1. /\ writing' = [writing EXCEPT ![g] = "idle"] /\ written' = [written EXCEPT ![g] = 0]
        /\ floor' = IF written[g] > floor THEN written[g] ELSE floor
    BY <1>4 DEF Invalidated
  <2>2. floor' \in {floor, written[g]} /\ floor' \in Nat /\ floor <= floor' /\ floor' <= tags
    BY <1>1, <2>1
  <2>3. \A h \in Generation : written'[h] <= tags'
    BY <1>1, <1>4, <2>1
  <2>4. \A q \in Reader : due'[q] <= floor'
    BY <1>1, <1>2, <2>2
  <2>5. RecoOrder'
    BY <1>4, <2>2, <2>3, <2>4 DEF RecoOrder
  <2>6. ASSUME lowered' \in BOOLEAN PROVE RecoTypeOK'
    BY <1>0, <1>2, <1>4, <2>1, <2>2, <2>6 DEF RecoTypeOK
  <2>7. \A h \in Generation : writing'[h] = "set" => writing[h] = "set" /\ written'[h] = written[h]
    BY <1>1, <2>1
  <2>8. QED
    BY <1>1, <2>1, <2>2, <2>5, <2>6, <2>7
<1>5. CASE writing[g] = "incr" /\ cacheVersion # Miss /\ IncrementVersion(g)
  <2>1. /\ cacheVersion < MaxVersion /\ cacheVersion' = cacheVersion + 1 /\ Invalidated(g)
        /\ UNCHANGED <<tags, lowered>>
    BY <1>5 DEF IncrementVersion, NextVersion
  <2>2. cacheVersion \in Nat /\ cacheVersion >= 1 /\ cacheVersion' \in 1 .. MaxVersion /\ cacheVersion' # Miss
    BY <1>0, <1>5, <2>1 DEF RecoTypeOK
  <2>3. /\ RecoOrder' /\ RecoTypeOK'
        /\ \A h \in Generation : writing'[h] = "set" => writing[h] = "set" /\ written'[h] = written[h]
    <3>1. lowered' \in BOOLEAN
      BY <1>0, <2>1 DEF RecoTypeOK
    <3>2. QED
      BY <1>4, <2>1, <2>2, <3>1
  <2>4. ASSUME ~expired, ~lowered PROVE RecoFresh'
    <3>1. RecoFresh
      BY <1>0, <2>4
    <3>2. Cur' = Cur + 1 /\ Cur = cacheVersion
      BY <1>5, <2>1, <2>2 DEF Cur
    <3>3. \A n, v : v <= Cur /\ v \in Nat /\ Shows(n, v) => Shows(n, v)'
      BY <1>1, <1>2, <1>5, <2>2, <2>3, <3>2 DEF Shows
    <3>0. /\ \A v \in CacheVersions : v > Cur => entry[v] = Miss
          /\ \A v \in CacheVersions : entry[v] # Miss => Shows(entry[v], v)
      BY <3>1, Zenon DEF RecoFresh
    <3>4. \A v \in CacheVersions : v > Cur' => entry'[v] = Miss
      BY <1>1, <1>2, <3>0, <3>2
    <3>5. \A q \in Reader : reading'[q] \in {"lookup", "aggregate", "store"} => taken'[q] <= Cur'
      BY <1>1, <1>2, <3>1, <3>2 DEF RecoFresh
    <3>6. \A v \in CacheVersions : entry[v] # Miss => v <= Cur /\ Shows(entry[v], v)
      <4>1. ASSUME NEW v \in CacheVersions, entry[v] # Miss PROVE v <= Cur
        <5>1. v \in Nat /\ Cur \in Nat
          BY <1>1
        <5>2. ~(v > Cur)
          BY <3>0, <4>1
        <5>3. QED
          BY <5>1, <5>2
      <4>2. QED
        BY <3>0, <4>1
    <3>7. \A v \in CacheVersions : entry'[v] # Miss => Shows(entry[v], v)'
      BY <1>1, <1>2, <1>5, <2>2, <2>3, <3>2, <3>6 DEF Shows
    <3>8. \A q \in Reader : reading[q] = "store" =>
             taken[q] <= Cur /\ result[q] \in Nat /\ Shows(result[q], taken[q]) /\ due[q] <= result[q]
      BY <3>1 DEF RecoFresh
    <3>9. \A q \in Reader : reading'[q] = "store" =>
             result'[q] \in Nat /\ Shows(result[q], taken[q])' /\ due'[q] <= result'[q]
      BY <1>1, <1>2, <1>5, <2>2, <2>3, <3>2, <3>8 DEF Shows
    <3>10. FreshAfterInvalidation'
      BY <1>2, <3>1 DEF RecoFresh, FreshAfterInvalidation
    <3>11. QED
      BY <3>4, <3>5, <3>7, <3>9, <3>10 DEF RecoFresh
  <2>5. QED
    BY <1>2, <2>1, <2>3, <2>4 DEF RecoInv
<1>6. CASE writing[g] = "incr" /\ cacheVersion = Miss /\ IncrementVersion(g)
  <2>1. /\ writing' = [writing EXCEPT ![g] = "set"]
        /\ UNCHANGED <<tags, cacheVersion, floor, written, lowered>>
    BY <1>6 DEF IncrementVersion
  <2>2. RecoTypeOK'
    BY <1>0, <1>2, <2>1 DEF RecoTypeOK
  <2>3. RecoOrder'
    BY <1>0, <1>2, <2>1 DEF RecoOrder
  <2>4. ASSUME ~expired, ~lowered PROVE RecoFresh'
    BY <1>0, <1>1, <1>2, <1>6, <2>1, <2>4 DEF RecoFresh, Shows, Cur, FreshAfterInvalidation
  <2>5. QED
    BY <1>2, <2>1, <2>2, <2>3, <2>4 DEF RecoInv
<1>7. CASE SetOne(g)
  <2>1. /\ writing[g] = "set" /\ cacheVersion' = 1 /\ Invalidated(g) /\ UNCHANGED tags
    BY <1>7 DEF SetOne
  <2>2. lowered' = (lowered \/ (cacheVersion # Miss /\ cacheVersion > 1))
    BY <1>7 DEF SetOne
  <2>3. /\ RecoOrder' /\ RecoTypeOK'
        /\ \A h \in Generation : writing'[h] = "set" => writing[h] = "set" /\ written'[h] = written[h]
        /\ writing'[g] = "idle" /\ floor' \in {floor, written[g]}
    <3>1. lowered' \in BOOLEAN
      BY <2>2
    <3>2. cacheVersion' \in 1 .. MaxVersion
      BY <2>1
    <3>3. QED
      BY <1>4, <2>1, <3>1, <3>2
  <2>4. ASSUME ~expired, ~lowered' PROVE RecoFresh'
    <3>1. ~lowered /\ (cacheVersion = Miss \/ cacheVersion = 1)
      <4>1. ~lowered /\ ~(cacheVersion # Miss /\ cacheVersion > 1)
        BY <2>2, <2>4
      <4>2. QED
        BY <1>0, <4>1 DEF RecoTypeOK
    <3>2. RecoFresh
      BY <1>0, <2>4, <3>1
    <3>3. Cur' = 1 /\ Cur \in {0, 1} /\ (Cur = 1 <=> cacheVersion = 1) /\ (Cur = 1 => cacheVersion # Miss)
      BY <2>1, <3>1 DEF Cur
    <3>0. /\ \A v \in CacheVersions : v > Cur => entry[v] = Miss
          /\ \A v \in CacheVersions : entry[v] # Miss => Shows(entry[v], v)
      BY <3>2, Zenon DEF RecoFresh
    <3>4. \A v \in CacheVersions : v > Cur' => entry'[v] = Miss
      BY <1>1, <1>2, <3>0, <3>3
    <3>5. \A q \in Reader : reading'[q] \in {"lookup", "aggregate", "store"} => taken'[q] <= Cur'
      BY <1>1, <1>2, <3>2, <3>3 DEF RecoFresh
    <3>6. \A v \in CacheVersions : entry[v] # Miss => v <= Cur /\ Shows(entry[v], v)
      <4>1. ASSUME NEW v \in CacheVersions, entry[v] # Miss PROVE v <= Cur
        <5>1. v \in Nat /\ Cur \in Nat
          BY <1>1
        <5>2. ~(v > Cur)
          BY <3>0, <4>1
        <5>3. QED
          BY <5>1, <5>2
      <4>2. QED
        BY <3>0, <4>1
    <3>7. \A v \in CacheVersions : entry'[v] # Miss => Shows(entry[v], v)'
      BY <1>1, <1>2, <2>1, <2>3, <3>3, <3>6 DEF Shows
    <3>8. \A q \in Reader : reading[q] = "store" =>
             taken[q] <= Cur /\ result[q] \in Nat /\ Shows(result[q], taken[q]) /\ due[q] <= result[q]
      BY <3>2 DEF RecoFresh
    <3>9. \A q \in Reader : reading'[q] = "store" =>
             result'[q] \in Nat /\ Shows(result[q], taken[q])' /\ due'[q] <= result'[q]
      BY <1>1, <1>2, <2>1, <2>3, <3>3, <3>8 DEF Shows
    <3>10. FreshAfterInvalidation'
      BY <1>2, <3>2 DEF RecoFresh, FreshAfterInvalidation
    <3>11. QED
      BY <3>4, <3>5, <3>7, <3>9, <3>10 DEF RecoFresh
  <2>5. QED
    BY <1>2, <2>3, <2>4 DEF RecoInv
<1>8. QED
  BY <1>3, <1>5, <1>6, <1>7 DEF IncrementVersion

\* What expires only empties the cache.
LEMMA Expiries ==
  ASSUME RecoInv, ExpireVersion \/ \E v \in CacheVersions : ExpireEntry(v)
  PROVE  RecoInv'
<1> USE RecoBoundAssumption, MissAssumption
<1>0. RecoTypeOK /\ RecoOrder /\ (~expired /\ ~lowered => RecoFresh)
  BY DEF RecoInv
<1>1. CASE ExpireVersion
  <2>1. /\ cacheVersion' = Miss /\ expired' = TRUE
        /\ UNCHANGED <<tags, entry, reading, taken, result, due, writing, written, floor, lowered>>
    BY <1>1 DEF ExpireVersion, readerVars, generationVars
  <2>2. RecoTypeOK'
    BY <1>0, <2>1 DEF RecoTypeOK
  <2>3. RecoOrder'
    BY <1>0, <2>1 DEF RecoOrder
  <2>4. QED
    BY <2>1, <2>2, <2>3 DEF RecoInv
<1>2. ASSUME NEW v \in CacheVersions, ExpireEntry(v) PROVE RecoInv'
  <2>1. /\ entry' = [entry EXCEPT ![v] = Miss]
        /\ UNCHANGED <<tags, cacheVersion, reading, taken, result, due, writing, written, floor, expired, lowered>>
    BY <1>2 DEF ExpireEntry, readerVars, generationVars
  <2>2. RecoTypeOK'
    BY <1>0, <2>1 DEF RecoTypeOK
  <2>3. RecoOrder'
    BY <1>0, <2>1 DEF RecoOrder
  <2>4. \A w \in CacheVersions : entry'[w] = Miss \/ entry'[w] = entry[w]
    BY <1>0, <2>1 DEF RecoTypeOK
  <2>5. ASSUME ~expired, ~lowered PROVE RecoFresh'
    BY <1>0, <2>1, <2>4, <2>5 DEF RecoFresh, Shows, Cur, FreshAfterInvalidation
  <2>6. QED
    BY <2>1, <2>2, <2>3, <2>5 DEF RecoInv
<1>3. QED
  BY <1>1, <1>2

\* Every step keeps it.
LEMMA RecoStep == RecoInv /\ [RecoNext]_recoVars => RecoInv'
<1> SUFFICES ASSUME RecoInv, [RecoNext]_recoVars PROVE RecoInv'
  OBVIOUS
<1>1. CASE UNCHANGED recoVars
  BY <1>1 DEF RecoInv, RecoTypeOK, RecoOrder, RecoFresh, Shows, Cur, FreshAfterInvalidation,
              recoVars, readerVars, generationVars
<1>2. CASE RecoNext
  BY <1>2, ReaderSteps, GenerationSteps, Expiries DEF RecoNext
<1>3. QED
  BY <1>1, <1>2

\* Nobody who began after an invalidation is shown what was aggregated before it, whatever
\* readers and generations overlap, while the version neither expires nor is lowered by a
\* late cache.set(..., 1) (invalidate_weakness_reco_cache).
THEOREM FreshWhileVersionRisesCorrect == RecoSpec => []FreshWhileVersionRises
<1>1. RecoInv => FreshWhileVersionRises
  BY DEF RecoInv, RecoFresh, FreshWhileVersionRises
<1>2. QED
  BY <1>1, RecoInitially, RecoStep, PTL DEF RecoSpec

-----------------------------------------------------------------------------
(* The evaluation of the answers *)

\* The rows of an answer; its tags are those of its evaluation.
AnswerRows ==
  /\ answers \subseteq Answered
  /\ evaluation \in [Answered -> Verdict \cup {Unevaluated}]
  /\ tagRows = [a \in Answered |-> IF evaluation[a] = Unevaluated THEN <<>> ELSE evaluation[a]]
  /\ observed \in [Answered -> {<<>>} \cup {<<v>> : v \in Verdict}]

\* What an evaluator keeps.
EvaluatorRows ==
  /\ stage \in [Evaluator -> {"finished", "next", "pipeline", "store", "record"}]
  /\ scope \in [Evaluator -> SUBSET Answered]
  /\ todo \in [Evaluator -> SUBSET Answered]
  /\ failed \in [Evaluator -> SUBSET Answered]
  /\ DOMAIN current = Evaluator
  /\ DOMAIN verdict = Evaluator

\* An answer that is gone has no evaluation; one that is there was observed by the verdict
\* its evaluation was made from, if it was observed.
ObservedAsEvaluated ==
  \A a \in Answered :
    /\ a \notin answers => evaluation[a] = Unevaluated
    /\ a \in answers /\ observed[a] # <<>> => /\ evaluation[a] # Unevaluated
                                              /\ observed[a] = <<evaluation[a]>>

\* What an evaluator works on; between the evaluation and its observation it is the one that
\* stored the evaluation, and nobody has observed it.
AtWork(e) ==
  /\ stage[e] \in {"pipeline", "store", "record"} => current[e] \in Answered
  /\ stage[e] \in {"store", "record"} => verdict[e] \in Verdict
  /\ stage[e] = "record" =>
       /\ observed[current[e]] = <<>>
       /\ current[e] \in answers => evaluation[current[e]] = verdict[e]
  /\ stage[e] = "finished" => todo[e] = {} \/ scope[e] = {}

\* No two evaluators observe one evaluation.
OneRecords ==
  \A e, f \in Evaluator : stage[e] = "record" /\ stage[f] = "record" /\ current[e] = current[f] => e = f

\* An answer it was started for is evaluated, counted as failed, still to be looked at, or
\* the one it is at.
Pending(e, a) ==
  \/ evaluation[a] # Unevaluated
  \/ a \in failed[e]
  \/ a \in todo[e]
  \/ stage[e] \in {"pipeline", "store"} /\ current[e] = a

\* No evaluator forgets an answer that is still there.
NoneForgotten(e) == \A a \in scope[e] \cap answers : Pending(e, a)

EvaluationInv ==
  /\ AnswerRows
  /\ EvaluatorRows
  /\ ObservedAsEvaluated
  /\ OneRecords
  /\ \A e \in Evaluator : AtWork(e) /\ NoneForgotten(e)

\* At first there is no evaluation, and nobody at work.
LEMMA EvaluationInitially == EvaluationInit => EvaluationInv
<1> SUFFICES ASSUME EvaluationInit PROVE EvaluationInv
  OBVIOUS
<1>1. AnswerRows /\ EvaluatorRows
  BY DEF EvaluationInit, AnswerRows, EvaluatorRows
<1>2. ObservedAsEvaluated /\ OneRecords
  BY DEF EvaluationInit, ObservedAsEvaluated, OneRecords
<1>3. \A e \in Evaluator : AtWork(e) /\ NoneForgotten(e)
  BY DEF EvaluationInit, AtWork, NoneForgotten
<1>4. QED
  BY <1>1, <1>2, <1>3 DEF EvaluationInv

\* A step of one evaluator that leaves the rows of the answers alone.
LEMMA EvaluatorMoves ==
  ASSUME EvaluationInv, NEW e \in Evaluator, UNCHANGED rowVars,
         EvaluatorRows', AtWork(e)', NoneForgotten(e)',
         stage'[e] # "record",
         \A f \in Evaluator : f # e => /\ stage'[f] = stage[f] /\ scope'[f] = scope[f]
                                       /\ todo'[f] = todo[f] /\ current'[f] = current[f]
                                       /\ verdict'[f] = verdict[f] /\ failed'[f] = failed[f]
  PROVE  EvaluationInv'
<1>1. AnswerRows' /\ ObservedAsEvaluated'
  BY DEF EvaluationInv, AnswerRows, ObservedAsEvaluated, rowVars
<1>2. OneRecords'
  BY DEF EvaluationInv, OneRecords
<1>3. ASSUME NEW f \in Evaluator PROVE AtWork(f)' /\ NoneForgotten(f)'
  <2>1. CASE f = e
    BY <2>1
  <2>2. CASE f # e
    <3>1. AtWork(f) /\ NoneForgotten(f)
      BY DEF EvaluationInv
    <3>2. AtWork(f)'
      BY <2>2, <3>1 DEF AtWork, rowVars
    <3>3. NoneForgotten(f)'
      BY <2>2, <3>1 DEF NoneForgotten, Pending, rowVars
    <3>4. QED
      BY <3>2, <3>3
  <2>3. QED
    BY <2>1, <2>2
<1>4. QED
  BY <1>1, <1>2, <1>3 DEF EvaluationInv

\* Every step keeps it.
LEMMA EvaluationStep == EvaluationInv /\ [EvaluationNext]_evaluationVars => EvaluationInv'
<1> SUFFICES ASSUME EvaluationInv, [EvaluationNext]_evaluationVars PROVE EvaluationInv'
  OBVIOUS
<1> USE VerdictAssumption
<1>a. AnswerRows /\ EvaluatorRows /\ ObservedAsEvaluated /\ OneRecords
      /\ \A e \in Evaluator : AtWork(e) /\ NoneForgotten(e)
  BY DEF EvaluationInv
<1>b. ASSUME NEW e \in Evaluator, NEW S \in SUBSET Answered, NEW T \in SUBSET S, Begins(e, S, T),
             \A a \in S \cap answers : a \in T \/ evaluation[a] # Unevaluated
      PROVE EvaluationInv'
  <2>1. EvaluatorRows'
    BY <1>a, <1>b DEF EvaluatorRows, Begins, EvaluatorGoes
  <2>2. stage'[e] = "next" /\ scope'[e] = S /\ todo'[e] = T /\ UNCHANGED rowVars
    BY <1>a, <1>b DEF EvaluatorRows, Begins, EvaluatorGoes
  <2>3. AtWork(e)'
    BY <2>2 DEF AtWork
  <2>4. NoneForgotten(e)'
    BY <2>2, <1>b DEF NoneForgotten, Pending, rowVars
  <2>5. QED
    BY <2>1, <2>2, <2>3, <2>4, <1>a, <1>b, EvaluatorMoves DEF EvaluatorRows, Begins, EvaluatorGoes
<1>1. ASSUME NEW e \in Evaluator, NEW a \in Answered, EvaluateOne(e, a) PROVE EvaluationInv'
  BY <1>1, <1>b DEF EvaluateOne
<1>2. ASSUME NEW e \in Evaluator, Backfill(e) PROVE EvaluationInv'
  <2>1. answers \in SUBSET Answered
    BY <1>a DEF AnswerRows
  <2>2. QED
    BY <2>1, <1>2, <1>b DEF Backfill
<1>3. ASSUME NEW e \in Evaluator, NEW a \in Answered, TakeAnswer(e, a) PROVE EvaluationInv'
  <2>1. EvaluatorRows'
    BY <1>a, <1>3 DEF EvaluatorRows, TakeAnswer, EvaluatorGoes
  <2>2. /\ current'[e] = a /\ todo'[e] = todo[e] \ {a} /\ stage[e] = "next" /\ UNCHANGED rowVars
        /\ UNCHANGED <<scope, failed, verdict>>
        /\ stage'[e] = IF evaluation[a] = Unevaluated THEN "pipeline" ELSE "next"
    BY <1>a, <1>3 DEF EvaluatorRows, TakeAnswer, EvaluatorGoes
  <2>3. AtWork(e)'
    BY <2>2 DEF AtWork
  <2>4. NoneForgotten(e)
    BY <1>a
  <2>5. NoneForgotten(e)'
    BY <2>2, <2>4 DEF NoneForgotten, Pending, rowVars
  <2>6. QED
    BY <2>1, <2>2, <2>3, <2>5, <1>a, <1>3, EvaluatorMoves DEF EvaluatorRows, TakeAnswer, EvaluatorGoes
<1>4. ASSUME NEW e \in Evaluator, Finish(e) PROVE EvaluationInv'
  <2>1. EvaluatorRows'
    BY <1>a, <1>4 DEF EvaluatorRows, Finish, EvaluatorGoes
  <2>2. /\ stage'[e] = "finished" /\ stage[e] = "next" /\ todo[e] = {} /\ UNCHANGED rowVars
        /\ UNCHANGED <<scope, todo, current, verdict, failed>>
    BY <1>a, <1>4 DEF EvaluatorRows, Finish, EvaluatorGoes
  <2>3. AtWork(e)'
    BY <2>2 DEF AtWork
  <2>4. NoneForgotten(e)
    BY <1>a
  <2>5. NoneForgotten(e)'
    BY <2>2, <2>4 DEF NoneForgotten, Pending, rowVars
  <2>6. QED
    BY <2>1, <2>2, <2>3, <2>5, <1>a, <1>4, EvaluatorMoves DEF EvaluatorRows, Finish, EvaluatorGoes
\* A failure is counted for the answer the evaluator is at.
<1>i. ASSUME NEW e \in Evaluator, stage[e] \in {"pipeline", "store"}, Isolated(e), UNCHANGED rowVars,
             UNCHANGED <<scope, todo, current, verdict>>
      PROVE EvaluationInv'
  <2>0. current[e] \in Answered /\ NoneForgotten(e)
    BY <1>i, <1>a DEF AtWork
  <2>1. EvaluatorRows'
    BY <1>a, <1>i, <2>0 DEF EvaluatorRows, Isolated, EvaluatorGoes
  <2>2. stage'[e] = "next" /\ failed'[e] = failed[e] \cup {current[e]}
    BY <1>a, <1>i DEF EvaluatorRows, Isolated, EvaluatorGoes
  <2>3. AtWork(e)'
    BY <2>2 DEF AtWork
  <2>5. NoneForgotten(e)'
    BY <2>0, <2>2, <1>i DEF NoneForgotten, Pending, rowVars
  <2>6. QED
    BY <2>1, <2>2, <2>3, <2>5, <1>a, <1>i, EvaluatorMoves DEF EvaluatorRows, Isolated, EvaluatorGoes
<1>5. ASSUME NEW e \in Evaluator, RunPipeline(e) PROVE EvaluationInv'
  <2>1. CASE Isolated(e) /\ UNCHANGED verdict
    BY <2>1, <1>5, <1>i DEF RunPipeline
  <2>2. ASSUME NEW v \in Verdict, verdict' = [verdict EXCEPT ![e] = v], EvaluatorGoes(e, "store"),
               UNCHANGED failed
        PROVE EvaluationInv'
    <3>1. UNCHANGED rowVars /\ UNCHANGED <<scope, todo, current>> /\ stage[e] = "pipeline"
      BY <1>5 DEF RunPipeline
    <3>2. EvaluatorRows'
      BY <2>2, <3>1, <1>a DEF EvaluatorRows, EvaluatorGoes
    <3>3. stage'[e] = "store" /\ verdict'[e] = v
      BY <2>2, <1>a DEF EvaluatorRows, EvaluatorGoes
    <3>4. AtWork(e) /\ NoneForgotten(e)
      BY <1>a
    <3>5. AtWork(e)'
      BY <3>1, <3>3, <3>4 DEF AtWork
    <3>6. NoneForgotten(e)'
      BY <2>2, <3>1, <3>3, <3>4 DEF NoneForgotten, Pending, rowVars
    <3>7. QED
      BY <3>1, <3>2, <3>3, <3>5, <3>6, <2>2, <1>a, EvaluatorMoves DEF EvaluatorRows, EvaluatorGoes
  <2>3. QED
    BY <2>1, <2>2, <1>5 DEF RunPipeline
<1>6. ASSUME NEW e \in Evaluator, StoreEvaluation(e) PROVE EvaluationInv'
  <2> DEFINE a == current[e]
             v == verdict[e]
  <2>0. /\ stage[e] = "store" /\ UNCHANGED <<answers, observed, scope, todo, current, verdict>>
        /\ a \in Answered /\ v \in Verdict /\ NoneForgotten(e) /\ AtWork(e)
    BY <1>6, <1>a DEF StoreEvaluation, AtWork
  <2>1. CASE UNCHANGED <<evaluation, tagRows>> /\ Isolated(e)
    BY <2>0, <2>1, <1>i DEF rowVars
  <2>2. CASE /\ evaluation[a] # Unevaluated /\ UNCHANGED <<evaluation, tagRows>>
             /\ EvaluatorGoes(e, "next") /\ UNCHANGED failed
    <3>1. EvaluatorRows'
      BY <2>0, <2>2, <1>a DEF EvaluatorRows, EvaluatorGoes
    <3>2. stage'[e] = "next" /\ UNCHANGED rowVars
      BY <2>0, <2>2, <1>a DEF EvaluatorRows, EvaluatorGoes, rowVars
    <3>3. AtWork(e)'
      BY <3>2 DEF AtWork
    <3>4. NoneForgotten(e)'
      BY <2>0, <2>2, <3>2 DEF NoneForgotten, Pending
    <3>5. QED
      BY <3>1, <3>2, <3>3, <3>4, <2>0, <2>2, <1>a, EvaluatorMoves DEF EvaluatorRows, EvaluatorGoes
  <2>3. CASE /\ a \in answers /\ evaluation[a] = Unevaluated
             /\ evaluation' = [evaluation EXCEPT ![a] = v]
             /\ tagRows' = [tagRows EXCEPT ![a] = v]
             /\ EvaluatorGoes(e, "record") /\ UNCHANGED failed
    <3>1. evaluation'[a] = v /\ v # Unevaluated /\ \A b \in Answered : b # a => evaluation'[b] = evaluation[b]
      BY <2>0, <2>3, <1>a DEF AnswerRows
    <3>2. AnswerRows'
      <4>1. evaluation' \in [Answered -> Verdict \cup {Unevaluated}]
        BY <2>0, <2>3, <1>a DEF AnswerRows
      <4>2. tagRows' = [b \in Answered |-> IF evaluation'[b] = Unevaluated THEN <<>> ELSE evaluation'[b]]
        BY <2>0, <2>3, <3>1, <1>a DEF AnswerRows
      <4>3. QED
        BY <4>1, <4>2, <2>0, <1>a DEF AnswerRows
    <3>3. EvaluatorRows'
      BY <2>0, <2>3, <1>a DEF EvaluatorRows, EvaluatorGoes
    <3>4. stage'[e] = "record" /\ \A f \in Evaluator : f # e => stage'[f] = stage[f]
      BY <2>3, <1>a DEF EvaluatorRows, EvaluatorGoes
    <3>5. observed[a] = <<>>
      BY <2>0, <2>3, <1>a DEF ObservedAsEvaluated
    <3>6. \A f \in Evaluator : stage[f] = "record" => current[f] # a
      BY <2>3, <1>a DEF AtWork
    <3>7. ObservedAsEvaluated'
      BY <2>0, <2>3, <3>1, <3>5, <1>a DEF ObservedAsEvaluated
    <3>8. OneRecords'
      BY <2>0, <3>4, <3>6, <1>a DEF OneRecords
    <3>9. ASSUME NEW f \in Evaluator PROVE AtWork(f)' /\ NoneForgotten(f)'
      <4>1. AtWork(f) /\ NoneForgotten(f)
        BY <1>a
      <4>2. CASE f = e
        <5>1. AtWork(f)'
          BY <4>2, <2>0, <3>1, <3>4, <3>5 DEF AtWork
        <5>2. NoneForgotten(f)'
          BY <4>2, <4>1, <2>0, <2>3, <3>1, <3>4, <1>a DEF NoneForgotten, Pending, EvaluatorRows
        <5>3. QED
          BY <5>1, <5>2
      <4>3. CASE f # e
        <5>1. AtWork(f)'
          BY <4>3, <4>1, <2>0, <3>1, <3>4, <3>6 DEF AtWork
        <5>2. NoneForgotten(f)'
          BY <4>3, <4>1, <2>0, <2>3, <3>1, <3>4, <1>a DEF NoneForgotten, Pending, EvaluatorRows
        <5>3. QED
          BY <5>1, <5>2
      <4>4. QED
        BY <4>2, <4>3
    <3>10. QED
      BY <3>2, <3>3, <3>7, <3>8, <3>9 DEF EvaluationInv
  <2>4. QED
    BY <2>1, <2>2, <2>3, <1>6 DEF StoreEvaluation, RolledBack, ReturnsExisting
<1>7. ASSUME NEW e \in Evaluator, Observe(e) PROVE EvaluationInv'
  <2> DEFINE a == current[e]
             v == verdict[e]
  <2>0. /\ stage[e] = "record" /\ UNCHANGED <<answers, evaluation, tagRows, scope, todo, current, verdict, failed>>
        /\ a \in Answered /\ v \in Verdict /\ observed[a] = <<>> /\ EvaluatorGoes(e, "next")
        /\ (a \in answers => evaluation[a] = v)
    BY <1>7, <1>a DEF Observe, AtWork
  <2>1. Append(<<>>, v) = <<v>> /\ <<v>> # <<>>
    OBVIOUS
  <2>2. /\ observed' \in [Answered -> {<<>>} \cup {<<w>> : w \in Verdict}]
        /\ observed'[a] \in {<<>>, <<v>>}
        /\ \A b \in Answered : b # a => observed'[b] = observed[b]
    <3>1. CASE UNCHANGED observed
      BY <3>1, <2>0, <1>a DEF AnswerRows
    <3>2. CASE observed' = [observed EXCEPT ![a] = Append(@, v)]
      <4>1. observed' = [observed EXCEPT ![a] = <<v>>]
        BY <3>2, <2>0, <2>1
      <4>2. QED
        BY <4>1, <2>0, <1>a DEF AnswerRows
    <3>3. QED
      BY <3>1, <3>2, <1>7 DEF Observe
  <2>3. AnswerRows'
    BY <2>0, <2>2, <1>a DEF AnswerRows
  <2>4. EvaluatorRows'
    BY <2>0, <1>a DEF EvaluatorRows, EvaluatorGoes
  <2>5. stage'[e] = "next" /\ \A f \in Evaluator : f # e => stage'[f] = stage[f]
    BY <2>0, <1>a DEF EvaluatorRows, EvaluatorGoes
  <2>6. ObservedAsEvaluated'
    BY <2>0, <2>2, <1>a DEF ObservedAsEvaluated
  <2>7. OneRecords'
    BY <2>0, <2>5, <1>a DEF OneRecords
  <2>8. ASSUME NEW f \in Evaluator PROVE AtWork(f)' /\ NoneForgotten(f)'
    <3>1. AtWork(f) /\ NoneForgotten(f) /\ (f # e /\ stage[f] = "record" => current[f] # a)
      BY <1>a, <2>0 DEF OneRecords
    <3>2. AtWork(f)'
      BY <3>1, <2>0, <2>2, <2>5 DEF AtWork
    <3>3. NoneForgotten(f)'
      BY <3>1, <2>0, <2>5 DEF NoneForgotten, Pending
    <3>4. QED
      BY <3>2, <3>3
  <2>9. QED
    BY <2>3, <2>4, <2>6, <2>7, <2>8 DEF EvaluationInv
<1>8. ASSUME NEW e \in Evaluator, EvaluatorDies(e) PROVE EvaluationInv'
  <2>1. EvaluatorRows'
    BY <1>a, <1>8 DEF EvaluatorRows, EvaluatorDies, EvaluatorGoes
  <2>2. stage'[e] = "finished" /\ scope'[e] = {} /\ UNCHANGED rowVars
    BY <1>a, <1>8 DEF EvaluatorRows, EvaluatorDies, EvaluatorGoes
  <2>3. AtWork(e)' /\ NoneForgotten(e)'
    BY <2>2 DEF AtWork, NoneForgotten
  <2>4. QED
    BY <2>1, <2>2, <2>3, <1>a, <1>8, EvaluatorMoves DEF EvaluatorRows, EvaluatorDies, EvaluatorGoes
<1>9. CASE DeleteAnswers
  <2>1. AnswerRows' /\ EvaluatorRows'
    BY <1>9, <1>a DEF DeleteAnswers, AnswerRows, EvaluatorRows, evaluatorVars
  <2>2. ObservedAsEvaluated' /\ OneRecords'
    BY <1>9, <1>a DEF DeleteAnswers, ObservedAsEvaluated, OneRecords, evaluatorVars
  <2>3. \A e \in Evaluator : AtWork(e)' /\ NoneForgotten(e)'
    BY <1>9, <1>a DEF DeleteAnswers, AtWork, NoneForgotten, evaluatorVars
  <2>4. QED
    BY <2>1, <2>2, <2>3 DEF EvaluationInv
<1>10. CASE UNCHANGED evaluationVars
  <2>1. UNCHANGED <<answers, evaluation, tagRows, observed, stage, scope, todo, current, verdict, failed>>
    BY <1>10 DEF evaluationVars, rowVars, evaluatorVars
  <2>2. QED
    BY <2>1, <1>a DEF EvaluationInv, AnswerRows, EvaluatorRows, ObservedAsEvaluated, OneRecords, AtWork,
       NoneForgotten, Pending
<1>11. QED
  BY <1>1, <1>2, <1>3, <1>4, <1>5, <1>6, <1>7, <1>8, <1>9, <1>10 DEF EvaluationNext

\* However many threads and requests evaluate the same answers, fail or find them gone, an answer has
\* the tags and at most one observation of the one verdict its evaluation was stored from, and whoever
\* was started for a session leaves no answer of it without a verdict or a failure
\* (create_evaluation_for_answer, session_evaluation.py).
THEOREM AnswersJudgedCorrect == EvaluationSpec => []AnswersJudged
<1>1. EvaluationInv => AnswersJudged
  <2> SUFFICES ASSUME EvaluationInv PROVE AnswersJudged
    OBVIOUS
  <2>1. OneVerdict
    <3> SUFFICES ASSUME NEW a \in Answered PROVE TagsOfEvaluation(a) /\ ObservedOnce(a)
      BY DEF OneVerdict
    <3>1. TagsOfEvaluation(a)
      BY DEF TagsOfEvaluation, EvaluationInv, AnswerRows
    <3>2. observed[a] = <<>> \/ \E v \in Verdict : observed[a] = <<v>>
      BY DEF EvaluationInv, AnswerRows
    <3>3. Len(observed[a]) <= 1
      <4>1. CASE observed[a] = <<>>
        BY <4>1
      <4>2. ASSUME NEW v \in Verdict, observed[a] = <<v>> PROVE Len(observed[a]) <= 1
        <5>1. Len(<<v>>) = 1
          OBVIOUS
        <5>2. QED
          BY <4>2, <5>1
      <4>3. QED
        BY <4>1, <4>2, <3>2
    <3>4. a \in answers /\ observed[a] # <<>> => observed[a] = <<evaluation[a]>>
      BY DEF EvaluationInv, ObservedAsEvaluated
    <3>5. QED
      BY <3>1, <3>3, <3>4 DEF ObservedOnce
  <2>2. EveryAnswerTried
    BY DEF EvaluationInv, EvaluatorRows, AtWork, NoneForgotten, Pending, EveryAnswerTried
  <2>3. QED
    BY <2>1, <2>2 DEF AnswersJudged
<1>2. QED
  BY <1>1, EvaluationInitially, EvaluationStep, PTL DEF EvaluationSpec

-----------------------------------------------------------------------------
(* The engines of one evaluation *)

Judgements == [technical : BOOLEAN, short : BOOLEAN, given : BOOLEAN]
EngineStates == {"off", "asking", "good", "filled", "format", "error", "misshapen"}

\* The engines, and what they have given.
PipelineRows ==
  /\ mock \in BOOLEAN
  /\ at \in {"engines", "depth", "store", "observe"} \cup Ended
  /\ judgedAnswer \in Judgements
  /\ engine \in [EngineNames -> [state : EngineStates, calls : Nat]]
  /\ parts \in [tags : {"none", "given", "judged"}, similarity : {"none", "compared"}]
  /\ model \in {"unloaded", "loaded", "missing"}
  /\ scoredCount \in Nat

\* How an engine has come to its state.
EngineFits(e) ==
  /\ engine[e].state = "asking" => at = "engines" /\ engine[e].calls <= MaxRetries
  /\ engine[e].state = "filled" => mock
  /\ engine[e].state = "format" => ~mock /\ engine[e].calls = MaxRetries + 1
  /\ engine[e].state \in {"format", "error"} => at \in {"engines", "format", "error"}
  /\ engine[e].state = "misshapen" => e = "competency" /\ at \in {"engines", "error", "format"}
  /\ at # "idle" => (engine[e].state = "off" <=> e \notin Needed(judgedAnswer))

\* What the steps behind the engines rely on.
StepsFit ==
  /\ at = "format" => \E e \in EngineNames : engine[e].state = "format"
  /\ at \in {"engines", "depth"} => parts.similarity = "none"
  /\ at = "depth" => judgedAnswer.technical
  /\ at \in {"store", "observe", "scored"} /\ parts.similarity = "compared" =>
       judgedAnswer.technical /\ model = "loaded"

\* Observations follow the assignment, which once made stays; each evaluation has one at most,
\* and the one that is about to be observed has none.
TrialFits ==
  /\ variant \in {Unassigned, "control", "treatment"}
  /\ trialRows \in Seq({"control", "treatment"})
  /\ \A i \in 1 .. Len(trialRows) : trialRows[i] = variant
  /\ variant = Unassigned => Len(trialRows) = 0
  /\ Len(trialRows) <= scoredCount
  /\ at = "observe" => Len(trialRows) + 1 <= scoredCount

PipelineInv == PipelineRows /\ (\A e \in EngineNames : EngineFits(e)) /\ StepsFit /\ TrialFits

\* There are three engines.
LEMMA EngineOrder ==
  /\ DOMAIN Engines = {1, 2, 3}
  /\ EngineNames = {"grounding", "competency", "emotion"}
<1>1. DOMAIN Engines = {1, 2, 3} /\ Engines[1] = "grounding" /\ Engines[2] = "competency"
      /\ Engines[3] = "emotion"
  BY DEF Engines
<1>2. QED
  BY <1>1 DEF EngineNames

\* Nothing has been asked yet.
LEMMA PipelineInitially == PipelineInit => PipelineInv
<1> SUFFICES ASSUME PipelineInit PROVE PipelineInv
  OBVIOUS
<1>0. Off \in [state : EngineStates, calls : Nat] /\ Off.state = "off"
  BY DEF Off, EngineStates
<1>1. PipelineRows
  BY <1>0 DEF PipelineInit, PipelineRows, Judgements, Ended, NoParts
<1>2. \A e \in EngineNames : EngineFits(e)
  BY <1>0 DEF PipelineInit, EngineFits
<1>3. StepsFit
  BY DEF PipelineInit, StepsFit
<1>4. TrialFits
  <2>1. trialRows \in Seq({"control", "treatment"}) /\ Len(trialRows) = 0 /\ 1 .. 0 = {}
    BY DEF PipelineInit
  <2>2. QED
    BY <2>1 DEF PipelineInit, TrialFits
<1>5. QED
  BY <1>1, <1>2, <1>3, <1>4 DEF PipelineInv

\* The first engine that failed is one that failed.
LEMMA FirstFailure ==
  ASSUME Failures # {}
  PROVE  (CHOOSE i \in Failures : \A j \in Failures : i <= j) \in Failures
<1>1. Failures \subseteq {1, 2, 3}
  BY EngineOrder DEF Failures
<1>2. \E i \in Failures : \A j \in Failures : i <= j
  <2>1. CASE 1 \in Failures
    BY <2>1, <1>1
  <2>2. CASE 1 \notin Failures /\ 2 \in Failures
    BY <2>2, <1>1
  <2>3. CASE 1 \notin Failures /\ 2 \notin Failures
    <3>1. PICK i \in Failures : TRUE
      OBVIOUS
    <3>2. i = 3 /\ \A j \in Failures : j = 3
      BY <2>3, <1>1, <3>1
    <3>3. QED
      BY <3>1, <3>2
  <2>4. QED
    BY <2>1, <2>2, <2>3
<1>3. QED
  BY <1>2

\* Steps that neither assign nor observe.
LEMMA TrialKept ==
  ASSUME TrialFits, UNCHANGED <<variant, trialRows, scoredCount>>, at' # "observe" \/ at = "observe"
  PROVE  TrialFits'
BY DEF TrialFits

\* Every step keeps it.
LEMMA PipelineStep == PipelineInv /\ [PipelineNext]_pipelineVars => PipelineInv'
<1> USE PipelineAssumption
<1> SUFFICES ASSUME PipelineInv, [PipelineNext]_pipelineVars PROVE PipelineInv'
  OBVIOUS
<1>a. PipelineRows /\ (\A e \in EngineNames : EngineFits(e)) /\ StepsFit /\ TrialFits
  BY DEF PipelineInv
<1>b. MaxRetries \in Nat
  OBVIOUS
<1>1. ASSUME NEW a \in Judgements, BeginEvaluation(a) PROVE PipelineInv'
  <2> DEFINE Asking == [state |-> "asking", calls |-> 0]
  <2>1. /\ at' = "engines" /\ judgedAnswer' = a
        /\ engine' = [e \in EngineNames |-> IF e \in Needed(a) THEN Asking ELSE Off]
        /\ UNCHANGED <<mock, model, trial, variant, trialRows, scoredCount, trialChanges>>
    BY <1>1 DEF BeginEvaluation
  <2>2. PICK t \in {"none", "given", "judged"} : parts' = [NoParts EXCEPT !.tags = t]
    BY <1>1 DEF BeginEvaluation, Sufficiency
  <2>3. parts' \in [tags : {"none", "given", "judged"}, similarity : {"none", "compared"}]
        /\ parts'.similarity = "none"
    BY <2>2 DEF NoParts
  <2>4. /\ Asking \in [state : EngineStates, calls : Nat] /\ Asking.state = "asking" /\ Asking.calls = 0
        /\ Off \in [state : EngineStates, calls : Nat] /\ Off.state = "off"
    BY DEF Off, EngineStates
  <2> HIDE DEF Asking
  <2>5. PipelineRows'
    BY <2>1, <2>3, <2>4, <1>a DEF PipelineRows
  <2>6. \A e \in EngineNames : EngineFits(e)'
    BY <2>1, <2>4, <1>b DEF EngineFits, Needed
  <2>7. StepsFit'
    BY <2>1, <2>3 DEF StepsFit
  <2>8. TrialFits'
    BY <2>1, <1>a, TrialKept
  <2>9. QED
    BY <2>5, <2>6, <2>7, <2>8 DEF PipelineInv
<1>2. ASSUME NEW e \in EngineNames, NEW r \in {"good", "broken", "down", "misshapen"}, Reply(e, r),
             r = "misshapen" => e = "competency"
      PROVE PipelineInv'
  <2> DEFINE calls == engine[e].calls + 1
             state == CASE r = "broken" -> IF calls <= MaxRetries THEN "asking" ELSE FilledIn("format")
                        [] r = "down" -> FilledIn("error")
                        [] OTHER -> r
             now == [state |-> state, calls |-> calls]
  <2>1. /\ at = "engines" /\ engine[e].state = "asking" /\ engine' = [engine EXCEPT ![e] = now]
        /\ UNCHANGED <<at, parts, mock, judgedAnswer, model, trial, variant, trialRows, scoredCount, trialChanges>>
    BY <1>2 DEF Reply, resultVars
  <2>2. engine[e].calls \in Nat /\ engine[e].calls <= MaxRetries /\ e \in Needed(judgedAnswer)
    BY <2>1, <1>a DEF PipelineRows, EngineFits
  <2>3. calls \in Nat /\ calls <= MaxRetries + 1
    BY <2>2, <1>b
  <2> HIDE DEF calls
  <2>4. /\ state \in EngineStates /\ state # "off"
        /\ state = "asking" => calls <= MaxRetries
        /\ state = "filled" => mock
        /\ state = "format" => ~mock /\ calls = MaxRetries + 1
        /\ state = "misshapen" => e = "competency"
    <3>1. CASE r = "broken"
      <4>1. CASE calls <= MaxRetries
        BY <3>1, <4>1 DEF EngineStates
      <4>2. CASE ~(calls <= MaxRetries)
        <5>1. calls = MaxRetries + 1
          BY <4>2, <2>3, <1>b
        <5>2. CASE mock
          BY <3>1, <4>2, <5>2 DEF EngineStates, FilledIn
        <5>3. CASE ~mock
          BY <3>1, <4>2, <5>1, <5>3 DEF EngineStates, FilledIn
        <5>4. QED
          BY <5>2, <5>3
      <4>3. QED
        BY <4>1, <4>2
    <3>2. CASE r = "down"
      <4>1. CASE mock
        BY <3>2, <4>1 DEF EngineStates, FilledIn
      <4>2. CASE ~mock
        BY <3>2, <4>2 DEF EngineStates, FilledIn
      <4>3. QED
        BY <4>1, <4>2
    <3>3. CASE r \in {"good", "misshapen"}
      BY <3>3, <1>2 DEF EngineStates
    <3>4. QED
      BY <3>1, <3>2, <3>3
  <2> HIDE DEF state
  <2>5. now \in [state : EngineStates, calls : Nat] /\ now.state = state /\ now.calls = calls
    BY <2>3, <2>4
  <2> HIDE DEF now
  <2>6. /\ engine' \in [EngineNames -> [state : EngineStates, calls : Nat]] /\ engine'[e] = now
        /\ \A f \in EngineNames : f # e => engine'[f] = engine[f]
    BY <2>1, <2>5, <1>a DEF PipelineRows
  <2>7. PipelineRows'
    BY <2>1, <2>6, <1>a DEF PipelineRows
  <2>8. ASSUME NEW f \in EngineNames PROVE EngineFits(f)'
    <3>1. CASE f = e
      BY <3>1, <2>1, <2>2, <2>4, <2>5, <2>6 DEF EngineFits, Needed
    <3>2. CASE f # e
      <4>1. EngineFits(f) /\ engine'[f] = engine[f]
        BY <3>2, <2>6, <1>a
      <4>2. QED
        BY <4>1, <2>1 DEF EngineFits, Needed
    <3>3. QED
      BY <3>1, <3>2
  <2>9. StepsFit'
    BY <2>1, <1>a DEF StepsFit
  <2>10. TrialFits'
    BY <2>1, <1>a, TrialKept
  <2>11. QED
    BY <2>7, <2>8, <2>9, <2>10 DEF PipelineInv
<1>3. CASE JoinEngines
  <2>1. /\ at = "engines" /\ \A e \in EngineNames : engine[e].state # "asking"
        /\ UNCHANGED <<engine, parts, mock, judgedAnswer, model, trial, variant, trialRows, scoredCount, trialChanges>>
    BY <1>3 DEF JoinEngines, resultVars
  <2>t. TrialFits' /\ at' # "observe"
    <3>1. at' # "observe"
      <4>1. CASE Failures # {}
        <5>1. PICK i \in Failures : at' = engine[Engines[i]].state
          BY <4>1, <1>3, FirstFailure DEF JoinEngines
        <5>2. QED
          BY <5>1 DEF Failures
      <4>2. CASE Failures = {}
        BY <4>2, <1>3 DEF JoinEngines
      <4>3. QED
        BY <4>1, <4>2
    <3>2. QED
      BY <3>1, <2>1, <1>a, TrialKept
  <2>2. CASE Failures # {}
    <3>1. PICK i \in Failures : at' = engine[Engines[i]].state
      BY <2>2, <1>3, FirstFailure DEF JoinEngines
    <3>2. at' \in {"format", "error"} /\ Engines[i] \in EngineNames
      BY <3>1 DEF Failures, EngineNames
    <3>3. PipelineRows'
      BY <2>1, <3>2, <1>a DEF PipelineRows, Ended
    <3>4. \A e \in EngineNames : EngineFits(e)'
      BY <2>1, <3>2, <1>a DEF EngineFits, Needed, Ended
    <3>5. StepsFit'
      BY <2>1, <3>1, <3>2, <1>a DEF StepsFit
    <3>6. QED
      BY <3>3, <3>4, <3>5, <2>t DEF PipelineInv
  <2>3. CASE Failures = {}
    <3>0. \A e \in EngineNames : engine[e].state \notin {"format", "error"}
      BY <2>3 DEF Failures, EngineNames
    <3>1. "competency" \in EngineNames
      BY EngineOrder
    <3>2. CASE engine["competency"].state = "misshapen"
      <4>1. at' = "error"
        BY <2>3, <3>2, <1>3 DEF JoinEngines
      <4>2. PipelineRows'
        BY <2>1, <4>1, <1>a DEF PipelineRows, Ended
      <4>3. \A e \in EngineNames : EngineFits(e)'
        BY <2>1, <4>1, <1>a DEF EngineFits, Needed, Ended
      <4>4. StepsFit'
        BY <2>1, <4>1, <1>a DEF StepsFit
      <4>5. QED
        BY <4>2, <4>3, <4>4, <2>t DEF PipelineInv
    <3>3. CASE engine["competency"].state # "misshapen"
      <4>1. at' \in {"depth", "store"} /\ (at' = "depth" => judgedAnswer.technical)
        BY <2>3, <3>3, <1>3 DEF JoinEngines
      <4>2. PipelineRows'
        BY <2>1, <4>1, <1>a DEF PipelineRows, Ended
      <4>3. \A e \in EngineNames : EngineFits(e)'
        BY <2>1, <3>0, <3>3, <4>1, <1>a DEF EngineFits, Needed, Ended
      <4>4. StepsFit'
        BY <2>1, <4>1, <1>a DEF StepsFit
      <4>5. QED
        BY <4>2, <4>3, <4>4, <2>t DEF PipelineInv
    <3>4. QED
      BY <3>2, <3>3
  <2>4. QED
    BY <2>2, <2>3
<1>4. CASE LoadModel
  <2>1. /\ at = "depth" /\ model' \in {"loaded", "missing"}
        /\ UNCHANGED <<mock, at, judgedAnswer, engine, parts, trial, variant, trialRows, scoredCount, trialChanges>>
    BY <1>4 DEF LoadModel
  <2>2. PipelineRows' /\ StepsFit'
    BY <2>1, <1>a DEF PipelineRows, StepsFit
  <2>3. \A e \in EngineNames : EngineFits(e)'
    BY <2>1, <1>a DEF EngineFits, Needed
  <2>4. TrialFits'
    BY <2>1, <1>a, TrialKept
  <2>5. QED
    BY <2>2, <2>3, <2>4 DEF PipelineInv
<1>5. CASE CompareTexts
  <2>1. /\ at = "depth" /\ at' = "store"
        /\ UNCHANGED <<engine, mock, judgedAnswer, model, trial, variant, trialRows, scoredCount, trialChanges>>
    BY <1>5 DEF CompareTexts, resultVars
  <2>2. PICK s \in {"none"} \cup (IF model = "loaded" THEN {"compared"} ELSE {}) :
               parts' = [parts EXCEPT !.similarity = s]
    BY <1>5 DEF CompareTexts
  <2>12. s \in {"none", "compared"} /\ (s = "compared" => model = "loaded")
    OBVIOUS
  <2>9. parts \in [tags : {"none", "given", "judged"}, similarity : {"none", "compared"}]
    BY <1>a DEF PipelineRows
  <2>10. parts' \in [tags : {"none", "given", "judged"}, similarity : {"none", "compared"}]
    BY <2>2, <2>9, <2>12
  <2>11. parts'.similarity = s
    BY <2>2, <2>9
  <2>3. /\ parts' \in [tags : {"none", "given", "judged"}, similarity : {"none", "compared"}]
        /\ parts'.similarity = s
    BY <2>10, <2>11
  <2>4. PipelineRows'
    BY <2>1, <2>3, <1>a DEF PipelineRows
  <2>5. StepsFit'
    <3>1. judgedAnswer'.technical /\ (s = "compared" => model' = "loaded")
      BY <2>1, <2>12, <1>a DEF StepsFit
    <3>2. QED
      BY <3>1, <2>1, <2>11 DEF StepsFit
  <2>6. \A e \in EngineNames : EngineFits(e)'
    BY <2>1, <1>a DEF EngineFits, Needed, Ended
  <2>7. TrialFits'
    BY <2>1, <1>a, TrialKept
  <2>8. QED
    BY <2>4, <2>5, <2>6, <2>7 DEF PipelineInv
<1>6. CASE StoreScore
  <2>1. /\ at = "store" /\ at' = "observe" /\ scoredCount' = scoredCount + 1
        /\ UNCHANGED <<mock, judgedAnswer, engine, parts, model, trial, variant, trialRows, trialChanges>>
    BY <1>6 DEF StoreScore
  <2>2. PipelineRows' /\ StepsFit'
    BY <2>1, <1>a DEF PipelineRows, StepsFit
  <2>3. \A e \in EngineNames : EngineFits(e)'
    BY <2>1, <1>a DEF EngineFits, Needed, Ended
  <2>4. TrialFits'
    <3>1. Len(trialRows) \in Nat /\ scoredCount \in Nat
      BY <1>a DEF TrialFits, PipelineRows
    <3>2. Len(trialRows) + 1 <= scoredCount'
      BY <3>1, <2>1, <1>a DEF TrialFits
    <3>3. QED
      BY <3>1, <3>2, <2>1, <1>a DEF TrialFits
  <2>5. QED
    BY <2>2, <2>3, <2>4 DEF PipelineInv
<1>7. CASE ObserveTrial
  <2> DEFINE kept == VariantKept(variant)
  <2>1. /\ at = "observe" /\ at' = "scored"
        /\ UNCHANGED <<mock, judgedAnswer, engine, parts, model, trial, scoredCount, trialChanges>>
    BY <1>7 DEF ObserveTrial
  <2>2. \/ variant' = kept /\ trialRows' = Append(trialRows, kept)
        \/ variant' \in {variant, kept} /\ UNCHANGED trialRows
    BY <1>7 DEF ObserveTrial
  <2>3. kept \in {"control", "treatment"} /\ (variant # Unassigned => kept = variant)
    BY <1>a DEF VariantKept, TrialFits
  <2> HIDE DEF kept
  <2>4. PipelineRows' /\ StepsFit'
    BY <2>1, <1>a DEF PipelineRows, StepsFit, Ended
  <2>5. \A e \in EngineNames : EngineFits(e)'
    BY <2>1, <1>a DEF EngineFits, Needed, Ended
  <2>6. TrialFits'
    <3>1. /\ Len(trialRows) \in Nat /\ scoredCount \in Nat /\ Len(trialRows) + 1 <= scoredCount
          /\ trialRows \in Seq({"control", "treatment"})
          /\ \A i \in 1 .. Len(trialRows) : trialRows[i] = variant
          /\ variant = Unassigned => Len(trialRows) = 0
          /\ variant \in {Unassigned, "control", "treatment"}
      BY <2>1, <1>a DEF TrialFits, PipelineRows
    <3>2. CASE variant' = kept /\ trialRows' = Append(trialRows, kept)
      <4>1. trialRows' \in Seq({"control", "treatment"}) /\ Len(trialRows') = Len(trialRows) + 1
        BY <3>1, <3>2, <2>3
      <4>2. \A i \in 1 .. Len(trialRows) + 1 : trialRows'[i] = kept
        <5> TAKE i \in 1 .. Len(trialRows) + 1
        <5>1. CASE i = Len(trialRows) + 1
          BY <5>1, <3>1, <3>2, <2>3
        <5>2. CASE i # Len(trialRows) + 1
          <6>1. i \in 1 .. Len(trialRows) /\ trialRows'[i] = trialRows[i] /\ variant # Unassigned
            BY <5>2, <3>1, <3>2, <2>3
          <6>2. QED
            BY <6>1, <3>1, <2>3
        <5>3. QED
          BY <5>1, <5>2
      <4>3. kept # Unassigned
        BY <2>3, UnassignedAssumption
      <4>4. QED
        BY <4>1, <4>2, <4>3, <3>1, <3>2, <2>1, <2>3 DEF TrialFits
    <3>3. CASE variant' \in {variant, kept} /\ UNCHANGED trialRows
      <4>1. CASE variant # Unassigned
        <5>1. variant' = variant
          BY <4>1, <3>3, <2>3
        <5>2. QED
          BY <5>1, <3>1, <3>3, <2>1 DEF TrialFits
      <4>2. CASE variant = Unassigned
        <5>1. 1 .. Len(trialRows') = {} /\ Len(trialRows') = 0
          BY <4>2, <3>1, <3>3
        <5>2. QED
          BY <5>1, <3>1, <3>3, <2>1, <2>3 DEF TrialFits
      <4>3. QED
        BY <4>1, <4>2
    <3>4. QED
      BY <3>2, <3>3, <2>2
  <2>7. QED
    BY <2>4, <2>5, <2>6 DEF PipelineInv
<1>8. CASE ChangeTrial
  <2>1. UNCHANGED <<mock, at, judgedAnswer, engine, parts, model, variant, trialRows, scoredCount>>
    BY <1>8 DEF ChangeTrial
  <2>2. QED
    BY <2>1, <1>a, TrialKept DEF PipelineInv, PipelineRows, StepsFit, EngineFits, Needed
<1>9. CASE Restart
  <2>1. /\ at' = "idle" /\ model' = "unloaded" /\ engine' = [e \in EngineNames |-> Off]
        /\ UNCHANGED <<mock, judgedAnswer, parts, trial, variant, trialRows, scoredCount, trialChanges>>
    BY <1>9 DEF Restart
  <2>2. Off \in [state : EngineStates, calls : Nat] /\ Off.state = "off"
    BY DEF Off, EngineStates
  <2>3. PipelineRows'
    BY <2>1, <2>2, <1>a DEF PipelineRows, Ended
  <2>4. \A e \in EngineNames : EngineFits(e)'
    BY <2>1, <2>2 DEF EngineFits
  <2>5. StepsFit'
    BY <2>1 DEF StepsFit
  <2>6. TrialFits'
    BY <2>1, <1>a, TrialKept
  <2>7. QED
    BY <2>3, <2>4, <2>5, <2>6 DEF PipelineInv
<1>10. CASE UNCHANGED pipelineVars
  <2>1. UNCHANGED <<mock, at, judgedAnswer, engine, parts, model, variant, trialRows, scoredCount>>
    BY <1>10 DEF pipelineVars
  <2>2. QED
    BY <2>1, <1>a, TrialKept DEF PipelineInv, PipelineRows, StepsFit, EngineFits, Needed
<1>11. QED
  <2>1. "competency" \in EngineNames
    BY EngineOrder
  <2>2. QED
    BY <2>1, <1>1, <1>2, <1>3, <1>4, <1>5, <1>6, <1>7, <1>8, <1>9, <1>10 DEF PipelineNext, Judgements

\* A score is stored only when every engine the answer needs has given a usable reply within its
\* retries, or the mock was asked for, and the similarity is compared with a model that is loaded;
\* an evaluation is observed at most once, always under the variant it was assigned first
\* (run_pipeline, evaluation_services.py), for any number of retries.
THEOREM ScoresAreEarnedCorrect == PipelineSpec => []ScoresAreEarned
<1>1. PipelineInv => ScoresAreEarned
  <2> SUFFICES ASSUME PipelineInv PROVE ScoresAreEarned
    OBVIOUS
  <2>1. Earned
    <3> SUFFICES ASSUME at \in {"store", "observe", "scored"}
                 PROVE  /\ \A e \in EngineNames :
                             engine[e].state \in IF e \notin Needed(judgedAnswer) THEN {"off"}
                                                 ELSE IF mock THEN {"good", "filled"} ELSE {"good"}
                        /\ parts.similarity = "compared" => judgedAnswer.technical /\ model = "loaded"
      BY DEF Earned
    <3>1. ASSUME NEW e \in EngineNames
          PROVE  engine[e].state \in IF e \notin Needed(judgedAnswer) THEN {"off"}
                                     ELSE IF mock THEN {"good", "filled"} ELSE {"good"}
      <4>1. EngineFits(e) /\ engine[e].state \in EngineStates /\ mock \in BOOLEAN
        BY DEF PipelineInv, PipelineRows
      <4>2. engine[e].state \in {"off", "good", "filled"}
        BY <4>1 DEF EngineFits, EngineStates, Ended
      <4>3. (engine[e].state = "off" <=> e \notin Needed(judgedAnswer)) /\ (engine[e].state = "filled" => mock)
        BY <4>1 DEF EngineFits
      <4>4. QED
        BY <4>2, <4>3
    <3>2. parts.similarity = "compared" => judgedAnswer.technical /\ model = "loaded"
      BY DEF PipelineInv, StepsFit
    <3>3. QED
      BY <3>1, <3>2
  <2>2. FailedFairly
    BY DEF PipelineInv, StepsFit, EngineFits, FailedFairly, Ended
  <2>3. OneVariant
    <3>1. DOMAIN trialRows = 1 .. Len(trialRows)
      BY DEF PipelineInv, TrialFits
    <3>2. QED
      BY <3>1 DEF PipelineInv, TrialFits, OneVariant
  <2>4. QED
    BY <2>1, <2>2, <2>3 DEF ScoresAreEarned
<1>2. QED
  BY <1>1, PipelineInitially, PipelineStep, PTL DEF PipelineSpec

-----------------------------------------------------------------------------
(* The score of an answer *)

\* The score of an answer is what it should be.
ScoreInv == sample \in Samples /\ (scored = NotScored \/ scored = AnswerScore(Judged(sample)))

\* b is as good as a in what scores look at.
AsGood(a, b) ==
  /\ b.question = a.question /\ b.short = a.short
  /\ \A e \in Elements : a.star[e] <= b.star[e]
  /\ a.cbi <= b.cbi /\ (a.grounding = "grounded" => b.grounding = "grounded")
  /\ b.fillers <= a.fillers /\ b.pauses <= a.pauses /\ a.words <= b.words
  /\ (a.similarity > 0 <=> b.similarity > 0) /\ a.similarity <= b.similarity

\* Better in one respect is as good in all.
LEMMA ImprovedIsAsGood ==
  ASSUME NEW a, SampleOK(a), NEW b \in Improved(a)
  PROVE  SampleOK(b) /\ AsGood(a, b)
<1>1. /\ a = [question |-> a.question, short |-> a.short, star |-> a.star, cbi |-> a.cbi, level |-> a.level,
             grounding |-> a.grounding, fillers |-> a.fillers, pauses |-> a.pauses, words |-> a.words,
             tradeoffs |-> a.tradeoffs, similarity |-> a.similarity, named |-> a.named, marks |-> a.marks]
      /\ a.star \in [Elements -> Int] /\ a.cbi \in Int /\ a.similarity \in Int
      /\ a.fillers \in Nat /\ a.pauses \in Nat /\ a.words \in Nat
  BY DEF SampleOK
<1>2. /\ \A e \in Elements : a.star[e] <= a.star[e] /\ a.star[e] \in Int
      /\ a.cbi <= a.cbi /\ a.similarity <= a.similarity
      /\ a.fillers <= a.fillers /\ a.pauses <= a.pauses /\ a.words <= a.words
  BY <1>1
<1>3. ASSUME NEW e \in Elements, b = [a EXCEPT !.star[e] = @ + 1] PROVE SampleOK(b) /\ AsGood(a, b)
  <2>1. PICK star \in [Elements -> Int] :
          /\ star = [a.star EXCEPT ![e] = @ + 1] /\ star[e] = a.star[e] + 1
          /\ \A f \in Elements \ {e} : star[f] = a.star[f]
    <3>1. PICK old \in [Elements -> Int] : old = a.star
      BY <1>1
    <3>2. PICK new : new = [old EXCEPT ![e] = old[e] + 1]
      OBVIOUS
    <3>3. old[e] + 1 \in Int
      BY <3>1
    <3>4. new \in [Elements -> Int] /\ new[e] = old[e] + 1 /\ \A f \in Elements \ {e} : new[f] = old[f]
      BY <3>2, <3>3
    <3>5. QED
      BY <3>1, <3>2, <3>4
  <2>2. b = [question |-> a.question, short |-> a.short, star |-> star, cbi |-> a.cbi, level |-> a.level,
             grounding |-> a.grounding, fillers |-> a.fillers, pauses |-> a.pauses, words |-> a.words,
             tradeoffs |-> a.tradeoffs, similarity |-> a.similarity, named |-> a.named, marks |-> a.marks]
    BY <1>1, <1>3, <2>1
  <2>3. \A f \in Elements : a.star[f] <= star[f]
    BY <1>2, <2>1
  <2>4. QED
    BY <1>1, <1>2, <2>2, <2>3 DEF SampleOK, AsGood
<1>4. ASSUME b = [a EXCEPT !.cbi = @ + 20] PROVE SampleOK(b) /\ AsGood(a, b)
  <2>1. b = [question |-> a.question, short |-> a.short, star |-> a.star, cbi |-> a.cbi + 20, level |-> a.level,
             grounding |-> a.grounding, fillers |-> a.fillers, pauses |-> a.pauses, words |-> a.words,
             tradeoffs |-> a.tradeoffs, similarity |-> a.similarity, named |-> a.named, marks |-> a.marks]
    BY <1>1, <1>4
  <2>2. a.cbi + 20 \in Int /\ a.cbi <= a.cbi + 20
    BY <1>1
  <2>3. QED
    BY <1>1, <1>2, <2>1, <2>2 DEF SampleOK, AsGood
<1>5. ASSUME b = [a EXCEPT !.grounding = "grounded"] PROVE SampleOK(b) /\ AsGood(a, b)
  <2>1. b = [question |-> a.question, short |-> a.short, star |-> a.star, cbi |-> a.cbi, level |-> a.level,
             grounding |-> "grounded", fillers |-> a.fillers, pauses |-> a.pauses, words |-> a.words,
             tradeoffs |-> a.tradeoffs, similarity |-> a.similarity, named |-> a.named, marks |-> a.marks]
    BY <1>1, <1>5
  <2>2. QED
    BY <1>1, <1>2, <2>1 DEF SampleOK, AsGood
<1>6. ASSUME b = [a EXCEPT !.words = @ + 1] PROVE SampleOK(b) /\ AsGood(a, b)
  <2>1. b = [question |-> a.question, short |-> a.short, star |-> a.star, cbi |-> a.cbi, level |-> a.level,
             grounding |-> a.grounding, fillers |-> a.fillers, pauses |-> a.pauses, words |-> a.words + 1,
             tradeoffs |-> a.tradeoffs, similarity |-> a.similarity, named |-> a.named, marks |-> a.marks]
    BY <1>1, <1>6
  <2>2. a.words + 1 \in Nat /\ a.words <= a.words + 1
    BY <1>1
  <2>3. QED
    BY <1>1, <1>2, <2>1, <2>2 DEF SampleOK, AsGood
<1>7. ASSUME a.fillers > 0, b = [a EXCEPT !.fillers = @ - 1] PROVE SampleOK(b) /\ AsGood(a, b)
  <2>1. b = [question |-> a.question, short |-> a.short, star |-> a.star, cbi |-> a.cbi, level |-> a.level,
             grounding |-> a.grounding, fillers |-> a.fillers - 1, pauses |-> a.pauses, words |-> a.words,
             tradeoffs |-> a.tradeoffs, similarity |-> a.similarity, named |-> a.named, marks |-> a.marks]
    BY <1>1, <1>7
  <2>2. a.fillers - 1 \in Nat /\ a.fillers - 1 <= a.fillers
    BY <1>1, <1>7
  <2>3. QED
    BY <1>1, <1>2, <2>1, <2>2 DEF SampleOK, AsGood
<1>8. ASSUME a.pauses > 0, b = [a EXCEPT !.pauses = @ - 1] PROVE SampleOK(b) /\ AsGood(a, b)
  <2>1. b = [question |-> a.question, short |-> a.short, star |-> a.star, cbi |-> a.cbi, level |-> a.level,
             grounding |-> a.grounding, fillers |-> a.fillers, pauses |-> a.pauses - 1, words |-> a.words,
             tradeoffs |-> a.tradeoffs, similarity |-> a.similarity, named |-> a.named, marks |-> a.marks]
    BY <1>1, <1>8
  <2>2. a.pauses - 1 \in Nat /\ a.pauses - 1 <= a.pauses
    BY <1>1, <1>8
  <2>3. QED
    BY <1>1, <1>2, <2>1, <2>2 DEF SampleOK, AsGood
<1>9. ASSUME a.similarity > 0, b = [a EXCEPT !.similarity = @ + 1] PROVE SampleOK(b) /\ AsGood(a, b)
  <2>1. b = [question |-> a.question, short |-> a.short, star |-> a.star, cbi |-> a.cbi, level |-> a.level,
             grounding |-> a.grounding, fillers |-> a.fillers, pauses |-> a.pauses, words |-> a.words,
             tradeoffs |-> a.tradeoffs, similarity |-> a.similarity + 1, named |-> a.named, marks |-> a.marks]
    BY <1>1, <1>9
  <2>2. a.similarity + 1 \in Int /\ a.similarity <= a.similarity + 1 /\ a.similarity + 1 > 0
    BY <1>1, <1>9
  <2>3. QED
    BY <1>1, <1>2, <1>9, <2>1, <2>2 DEF SampleOK, AsGood
<1>10. QED
  BY <1>3, <1>4, <1>5, <1>6, <1>7, <1>8, <1>9 DEF Improved

\* What is shown to no model, or not to that of figures, is as good as before.
LEMMA JudgedAsGood ==
  ASSUME NEW a, NEW b, SampleOK(a), SampleOK(b), AsGood(a, b)
  PROVE  SampleOK(Judged(a)) /\ SampleOK(Judged(b)) /\ AsGood(Judged(a), Judged(b))
<1>1. Category(b.question) = Category(a.question) /\ b.short = a.short
  BY DEF AsGood
<1> DEFINE nil == [e \in Elements |-> 0]
<1>2. ASSUME NEW x, SampleOK(x)
      PROVE  /\ Stub(x) = [question |-> x.question, short |-> x.short, star |-> nil, cbi |-> 0,
                           level |-> 1, grounding |-> "inapplicable", fillers |-> x.fillers,
                           pauses |-> x.pauses, words |-> x.words, tradeoffs |-> x.tradeoffs,
                           similarity |-> x.similarity, named |-> x.named, marks |-> x.marks]
             /\ [x EXCEPT !.grounding = "missing"] =
                  [question |-> x.question, short |-> x.short, star |-> x.star, cbi |-> x.cbi, level |-> x.level,
                   grounding |-> "missing", fillers |-> x.fillers, pauses |-> x.pauses, words |-> x.words,
                   tradeoffs |-> x.tradeoffs, similarity |-> x.similarity, named |-> x.named, marks |-> x.marks]
  <2>1. x = [question |-> x.question, short |-> x.short, star |-> x.star, cbi |-> x.cbi, level |-> x.level,
             grounding |-> x.grounding, fillers |-> x.fillers, pauses |-> x.pauses, words |-> x.words,
             tradeoffs |-> x.tradeoffs, similarity |-> x.similarity, named |-> x.named, marks |-> x.marks]
    BY <1>2 DEF SampleOK
  <2>2. [x EXCEPT !.grounding = "missing"] =
                  [question |-> x.question, short |-> x.short, star |-> x.star, cbi |-> x.cbi, level |-> x.level,
                   grounding |-> "missing", fillers |-> x.fillers, pauses |-> x.pauses, words |-> x.words,
                   tradeoffs |-> x.tradeoffs, similarity |-> x.similarity, named |-> x.named, marks |-> x.marks]
    BY <2>1
  <2>3. Stub(x) = [x EXCEPT !.star = nil, !.cbi = 0, !.level = 1, !.grounding = "inapplicable"]
    BY DEF Stub
  <2> HIDE DEF nil
  <2>4. [x EXCEPT !.star = nil, !.cbi = 0, !.level = 1, !.grounding = "inapplicable"] =
            [question |-> x.question, short |-> x.short, star |-> nil, cbi |-> 0, level |-> 1,
             grounding |-> "inapplicable", fillers |-> x.fillers, pauses |-> x.pauses, words |-> x.words,
             tradeoffs |-> x.tradeoffs, similarity |-> x.similarity, named |-> x.named, marks |-> x.marks]
    <3>1. PICK y : y = [x EXCEPT !.star = nil]
      OBVIOUS
    <3>2. y = [question |-> x.question, short |-> x.short, star |-> nil, cbi |-> x.cbi, level |-> x.level,
             grounding |-> x.grounding, fillers |-> x.fillers, pauses |-> x.pauses, words |-> x.words,
             tradeoffs |-> x.tradeoffs, similarity |-> x.similarity, named |-> x.named, marks |-> x.marks]
      BY <2>1, <3>1
    <3>3. PICK z : z = [y EXCEPT !.cbi = 0]
      OBVIOUS
    <3>4. z = [question |-> x.question, short |-> x.short, star |-> nil, cbi |-> 0, level |-> x.level,
             grounding |-> x.grounding, fillers |-> x.fillers, pauses |-> x.pauses, words |-> x.words,
             tradeoffs |-> x.tradeoffs, similarity |-> x.similarity, named |-> x.named, marks |-> x.marks]
      BY <3>2, <3>3
    <3>5. PICK w : w = [z EXCEPT !.level = 1]
      OBVIOUS
    <3>6. w = [question |-> x.question, short |-> x.short, star |-> nil, cbi |-> 0, level |-> 1,
             grounding |-> x.grounding, fillers |-> x.fillers, pauses |-> x.pauses, words |-> x.words,
             tradeoffs |-> x.tradeoffs, similarity |-> x.similarity, named |-> x.named, marks |-> x.marks]
      BY <3>4, <3>5
    <3>7. [w EXCEPT !.grounding = "inapplicable"] =
            [question |-> x.question, short |-> x.short, star |-> nil, cbi |-> 0, level |-> 1,
             grounding |-> "inapplicable", fillers |-> x.fillers, pauses |-> x.pauses, words |-> x.words,
             tradeoffs |-> x.tradeoffs, similarity |-> x.similarity, named |-> x.named, marks |-> x.marks]
      BY <3>6
    <3>8. [x EXCEPT !.star = nil, !.cbi = 0, !.level = 1, !.grounding = "inapplicable"] =
            [w EXCEPT !.grounding = "inapplicable"]
      BY <3>1, <3>3, <3>5
    <3>9. QED
      BY <3>7, <3>8
  <2>5. QED
    BY <2>2, <2>3, <2>4
<1>3. nil \in [Elements -> Int] /\ \A e \in Elements : nil[e] <= nil[e]
  OBVIOUS
<1> HIDE DEF nil
<1>4. CASE a.short
  <2>1. Judged(a) = Stub(a) /\ Judged(b) = Stub(b)
    BY <1>1, <1>4 DEF Judged
  <2>2. ASSUME NEW x, SampleOK(x), NEW y, y = Stub(x)
        PROVE  /\ SampleOK(y) /\ y.star = nil /\ y.cbi = 0 /\ y.grounding = "inapplicable"
               /\ y.question = x.question /\ y.short = x.short /\ y.fillers = x.fillers /\ y.pauses = x.pauses
               /\ y.words = x.words /\ y.similarity = x.similarity
    <3>1. y = [question |-> x.question, short |-> x.short, star |-> nil, cbi |-> 0,
               level |-> 1, grounding |-> "inapplicable", fillers |-> x.fillers,
               pauses |-> x.pauses, words |-> x.words, tradeoffs |-> x.tradeoffs,
               similarity |-> x.similarity, named |-> x.named, marks |-> x.marks]
      BY <1>2, <2>2
    <3>2. /\ y.star = nil /\ y.cbi = 0 /\ y.grounding = "inapplicable" /\ y.level = 1
          /\ y.question = x.question /\ y.short = x.short /\ y.fillers = x.fillers /\ y.pauses = x.pauses
          /\ y.words = x.words /\ y.similarity = x.similarity /\ y.tradeoffs = x.tradeoffs
          /\ y.named = x.named /\ y.marks = x.marks
      BY <3>1
    <3>3. y = [question |-> y.question, short |-> y.short, star |-> y.star, cbi |-> y.cbi, level |-> y.level,
               grounding |-> y.grounding, fillers |-> y.fillers, pauses |-> y.pauses, words |-> y.words,
               tradeoffs |-> y.tradeoffs, similarity |-> y.similarity, named |-> y.named, marks |-> y.marks]
      BY <3>1, <3>2
    <3>4. y.star \in [Elements -> Int] /\ {y.cbi, y.similarity} \subseteq Int /\ {y.fillers, y.pauses, y.words} \subseteq Nat
      BY <1>3, <2>2, <3>2 DEF SampleOK
    <3>5. QED
      BY <3>2, <3>3, <3>4 DEF SampleOK
  <2>3. PICK c, d : c = Stub(a) /\ d = Stub(b)
    OBVIOUS
  <2>4. SampleOK(c) /\ SampleOK(d) /\ AsGood(c, d)
    BY <1>3, <2>2, <2>3 DEF AsGood
  <2>5. QED
    BY <2>1, <2>3, <2>4
<1>5. CASE ~a.short /\ Category(a.question) = "technical"
  BY <1>1, <1>5 DEF Judged
<1>6. CASE ~a.short /\ Category(a.question) # "technical"
  <2>1. Judged(a) = [a EXCEPT !.grounding = "missing"] /\ Judged(b) = [b EXCEPT !.grounding = "missing"]
    BY <1>1, <1>6 DEF Judged
  <2>2. SampleOK(Judged(a)) /\ SampleOK(Judged(b))
    BY <1>2, <2>1 DEF SampleOK
  <2>3. AsGood(Judged(a), Judged(b))
    BY <1>2, <2>1 DEF AsGood
  <2>4. QED
    BY <2>2, <2>3
<1>7. QED
  BY <1>4, <1>5, <1>6

LEMMA ClampGrows ==
  ASSUME NEW x \in Int, NEW y \in Int, x <= y, NEW low \in Nat, NEW high \in Nat, low <= high
  PROVE  /\ Clamp(x, low, high) \in Int /\ Clamp(y, low, high) \in Int
         /\ Clamp(x, low, high) <= Clamp(y, low, high)
BY DEF Clamp

\* Each part of a score is no less for an answer that is as good: its story, ...
LEMMA BeiGrows ==
  ASSUME NEW a, NEW b, SampleOK(a), SampleOK(b), AsGood(a, b)
  PROVE  Bei(a) \in Int /\ Bei(b) \in Int /\ Bei(a) <= Bei(b)
<1>1. ASSUME NEW e \in Elements
      PROVE  Element(a, e) \in Int /\ Element(b, e) \in Int /\ Element(a, e) <= Element(b, e)
  <2>1. a.star[e] \in Int /\ b.star[e] \in Int /\ a.star[e] <= b.star[e]
    BY DEF SampleOK, AsGood
  <2>2. /\ Clamp(a.star[e], 0, 25) \in Int /\ Clamp(b.star[e], 0, 25) \in Int
        /\ Clamp(a.star[e], 0, 25) <= Clamp(b.star[e], 0, 25)
    <3>1. 0 \in Nat /\ 25 \in Nat /\ 0 <= 25
      OBVIOUS
    <3>2. QED
      BY <2>1, <3>1, ClampGrows
  <2>3. QED
    BY <2>2 DEF Element
<1>2. {"situation", "task", "action", "result"} \subseteq Elements
  BY DEF Elements
<1>3. \A u, v, w, x, p, q, r, s \in Int :
        u <= p /\ v <= q /\ w <= r /\ x <= s
          => u + v + w + x \in Int /\ p + q + r + s \in Int /\ u + v + w + x <= p + q + r + s
  OBVIOUS
<1>4. QED
  BY <1>1, <1>2, <1>3 DEF Bei

\* Fewer pauses among more words are a smaller share of an answer.
LEMMA PausesShrink ==
  ASSUME NEW p \in Nat, NEW q \in Nat, q <= p, NEW v \in Nat, NEW w \in Nat, v <= w
  PROVE  /\ PauseRatio(p, v) \in Int /\ PauseRatio(q, w) \in Int
         /\ PauseRatio(q, w) <= PauseRatio(p, v)
<1>1. PICK x \in Nat \ {0} : x = Max({v, 3}) /\ x = IF v >= 3 THEN v ELSE 3
  <2>1. Max({v, 3}) = IF v >= 3 THEN v ELSE 3
    BY MaxOfTwo
  <2>2. QED
    BY <2>1
<1>2. PICK y \in Nat \ {0} : y = Max({w, 3}) /\ y = IF w >= 3 THEN w ELSE 3
  <2>1. Max({w, 3}) = IF w >= 3 THEN w ELSE 3
    BY MaxOfTwo
  <2>2. QED
    BY <2>1
<1>3. x <= y
  BY <1>1, <1>2
<1>4. q * x <= p * y
  <2>1. q * x <= p * x /\ p * x <= p * y
    BY <1>3
  <2>2. q * x \in Int /\ p * x \in Int /\ p * y \in Int
    OBVIOUS
  <2>3. QED
    BY <2>1, <2>2
<1>5. (90000 * q) * (x + 9 * p) <= (90000 * p) * (y + 9 * q)
  <2>1. /\ (90000 * q) * (x + 9 * p) = 90000 * (q * x) + 810000 * (p * q)
        /\ (90000 * p) * (y + 9 * q) = 90000 * (p * y) + 810000 * (p * q)
    OBVIOUS
  <2>2. q * x \in Int /\ p * y \in Int /\ p * q \in Int
    OBVIOUS
  <2>3. QED
    BY <1>4, <2>1, <2>2
<1>6. 90000 * q \in Int /\ 90000 * p \in Int /\ x + 9 * p \in Nat \ {0} /\ y + 9 * q \in Nat \ {0}
  OBVIOUS
<1>7. (90000 * q) \div (y + 9 * q) <= (90000 * p) \div (x + 9 * p)
      /\ (90000 * q) \div (y + 9 * q) \in Int /\ (90000 * p) \div (x + 9 * p) \in Int
  BY <1>5, <1>6, PartGrows
<1>8. QED
  BY <1>1, <1>2, <1>7 DEF PauseRatio

\* ... its speech, ...
LEMMA SpeechGrows ==
  ASSUME NEW a, NEW b, SampleOK(a), SampleOK(b), AsGood(a, b)
  PROVE  Speech(a) \in Int /\ Speech(b) \in Int /\ Speech(a) <= Speech(b)
<1>1. /\ {a.fillers, a.pauses, a.words, b.fillers, b.pauses, b.words} \subseteq Nat
      /\ b.fillers <= a.fillers /\ b.pauses <= a.pauses /\ a.words <= b.words
  BY DEF SampleOK, AsGood
<1> DEFINE silence(r) == IF r > 3000 THEN (r - 3000) \div 2 ELSE 0
<1> DEFINE points(x) ==
      8000 - 500 * x.fillers - SeverityPenalty(x.pauses) - silence(PauseRatio(x.pauses, x.words))
<1>2. PICK r, s \in Int : r = PauseRatio(a.pauses, a.words) /\ s = PauseRatio(b.pauses, b.words) /\ s <= r
  BY <1>1, PausesShrink
<1>3. silence(r) \in Int /\ silence(s) \in Int /\ silence(s) <= silence(r)
  <2>1. s - 3000 \in Int /\ r - 3000 \in Int /\ s - 3000 <= r - 3000 /\ 2 \in Nat \ {0}
    BY <1>2
  <2>2. (s - 3000) \div 2 \in Int /\ (r - 3000) \div 2 \in Int /\ (s - 3000) \div 2 <= (r - 3000) \div 2
    BY <2>1, QuotientGrows, Quotient
  <2>3. r > 3000 => (r - 3000) \div 2 >= 0
    OBVIOUS
  <2>4. QED
    BY <1>2, <2>2, <2>3
<1>4. /\ SeverityPenalty(a.pauses) \in Int /\ SeverityPenalty(b.pauses) \in Int
      /\ SeverityPenalty(b.pauses) <= SeverityPenalty(a.pauses)
  BY <1>1 DEF SeverityPenalty
<1> HIDE DEF silence
<1>5. points(a) \in Int /\ points(b) \in Int /\ points(a) <= points(b)
  <2>1. PICK i, j \in Int : i = silence(r) /\ j = silence(s) /\ j <= i
    BY <1>3
  <2>2. PICK k, l \in Int : k = SeverityPenalty(a.pauses) /\ l = SeverityPenalty(b.pauses) /\ l <= k
    BY <1>4
  <2>3. PICK m, n \in Int : m = a.fillers /\ n = b.fillers /\ n <= m
    BY <1>1
  <2>4. 8000 - 500 * m - k - i \in Int /\ 8000 - 500 * n - l - j \in Int
        /\ 8000 - 500 * m - k - i <= 8000 - 500 * n - l - j
    BY <2>1, <2>2, <2>3
  <2>5. QED
    BY <1>2, <2>1, <2>2, <2>3, <2>4
<1>6. Speech(a) = Max({2000, points(a)}) /\ Speech(b) = Max({2000, points(b)})
  BY DEF Speech, silence
<1> HIDE DEF points
<1>7. /\ Max({2000, points(a)}) = (IF 2000 >= points(a) THEN 2000 ELSE points(a))
      /\ Max({2000, points(b)}) = (IF 2000 >= points(b) THEN 2000 ELSE points(b))
  BY <1>5, MaxOfTwo
<1>8. QED
  BY <1>5, <1>6, <1>7

\* ... all of them weighed, ...
LEMMA OverallGrows ==
  ASSUME NEW a, NEW b, SampleOK(a), SampleOK(b), AsGood(a, b)
  PROVE  Overall(a) \in Int /\ Overall(b) \in Int /\ Overall(a) <= Overall(b)
<1>1. PICK i, j \in Int : i = Bei(a) /\ j = Bei(b) /\ i <= j
  BY BeiGrows
<1>2. PICK k, l \in Int : k = Clamp(a.cbi, 0, 100) /\ l = Clamp(b.cbi, 0, 100) /\ k <= l
  <2>1. a.cbi \in Int /\ b.cbi \in Int /\ a.cbi <= b.cbi /\ 0 \in Nat /\ 100 \in Nat /\ 0 <= 100
    BY DEF SampleOK, AsGood
  <2>2. /\ Clamp(a.cbi, 0, 100) \in Int /\ Clamp(b.cbi, 0, 100) \in Int
        /\ Clamp(a.cbi, 0, 100) <= Clamp(b.cbi, 0, 100)
    BY <2>1, ClampGrows
  <2>3. QED
    BY <2>2
<1>3. PICK m, n \in Int : m = Speech(a) \div 5 /\ n = Speech(b) \div 5 /\ m <= n
  <2>1. PICK u, v \in Int : u = Speech(a) /\ v = Speech(b) /\ u <= v
    BY SpeechGrows
  <2>2. u \div 5 \in Int /\ v \div 5 \in Int /\ 5 \in Nat \ {0}
    OBVIOUS
  <2>3. u \div 5 <= v \div 5
    BY <2>1, <2>2, QuotientGrows
  <2>4. QED
    BY <2>1, <2>2, <2>3
<1>4. PICK x, y \in Int :
        /\ x = (IF a.grounding = "grounded" THEN 1500 ELSE 0)
        /\ y = (IF b.grounding = "grounded" THEN 1500 ELSE 0) /\ x <= y
  BY DEF AsGood
<1>5. Category(b.question) = Category(a.question)
  BY DEF AsGood
<1> DEFINE points(z, bei, cbi, speech, figures) ==
      IF Category(z.question) = "technical" THEN bei * 40 + cbi * 40 + speech + figures
      ELSE bei * 50 + cbi * 30 + speech
<1>6. PICK p, q \in Int : p = points(a, i, k, m, x) /\ q = points(b, j, l, n, y) /\ p <= q
  BY <1>1, <1>2, <1>3, <1>4, <1>5
<1>7. Overall(a) = Min({10000, ToTenth(p)}) /\ Overall(b) = Min({10000, ToTenth(q)})
  BY <1>1, <1>2, <1>3, <1>4, <1>6 DEF Overall
<1>8. ToTenth(p) \in Int /\ ToTenth(q) \in Int /\ ToTenth(p) <= ToTenth(q)
  <2>1. p + 5 \in Int /\ q + 5 \in Int /\ p + 5 <= q + 5 /\ 10 \in Nat \ {0}
    BY <1>6
  <2>2. PICK u, v \in Int : u = (p + 5) \div 10 /\ v = (q + 5) \div 10 /\ u <= v
    BY <2>1, Quotient, QuotientGrows
  <2>3. u * 10 \in Int /\ v * 10 \in Int /\ u * 10 <= v * 10
    BY <2>2
  <2>4. QED
    BY <2>2, <2>3 DEF ToTenth
<1>9. /\ Min({10000, ToTenth(p)}) = (IF 10000 <= ToTenth(p) THEN 10000 ELSE ToTenth(p))
      /\ Min({10000, ToTenth(q)}) = (IF 10000 <= ToTenth(q) THEN 10000 ELSE ToTenth(q))
  BY <1>8, MinOfTwo
<1>10. QED
  BY <1>7, <1>8, <1>9

\* ... and what a likeness to the reference makes of them.
LEMMA AnswerScoreGrows ==
  ASSUME NEW a, NEW b, SampleOK(a), SampleOK(b), AsGood(a, b)
  PROVE  AnswerScore(a) \in Int /\ AnswerScore(b) \in Int /\ AnswerScore(a) <= AnswerScore(b)
<1>1. PICK u, v \in Int : u = Overall(a) \div 100 /\ v = Overall(b) \div 100 /\ u <= v
  <2>1. PICK p, q \in Int : p = Overall(a) /\ q = Overall(b) /\ p <= q
    BY OverallGrows
  <2>2. p \div 100 \in Int /\ q \div 100 \in Int /\ 100 \in Nat \ {0}
    OBVIOUS
  <2>3. p \div 100 <= q \div 100
    BY <2>1, <2>2, QuotientGrows
  <2>4. QED
    BY <2>1, <2>2, <2>3
<1>2. /\ Category(b.question) = Category(a.question) /\ (a.similarity > 0 <=> b.similarity > 0)
      /\ a.similarity \in Int /\ b.similarity \in Int /\ a.similarity <= b.similarity
  BY DEF SampleOK, AsGood
<1>3. PICK s, t \in Int : s = a.similarity /\ t = b.similarity /\ s <= t
  BY <1>2
<1>4. PICK m, n \in Int :
        m = (s * 70 + u * 30) \div 100 /\ n = (t * 70 + v * 30) \div 100 /\ m <= n
  <2>1. s * 70 + u * 30 \in Int /\ t * 70 + v * 30 \in Int /\ s * 70 + u * 30 <= t * 70 + v * 30
        /\ 100 \in Nat \ {0}
    BY <1>1, <1>3
  <2>2. QED
    BY <2>1, Quotient, QuotientGrows
<1>5. /\ Min({100, m}) = (IF 100 <= m THEN 100 ELSE m) /\ Min({100, n}) = (IF 100 <= n THEN 100 ELSE n)
  BY MinOfTwo
<1>6. CASE Category(a.question) = "technical" /\ a.similarity > 0
  <2>1. AnswerScore(a) = Min({100, m}) /\ AnswerScore(b) = Min({100, n})
    BY <1>1, <1>2, <1>3, <1>4, <1>6 DEF AnswerScore
  <2>2. QED
    BY <1>4, <1>5, <2>1
<1>7. CASE ~(Category(a.question) = "technical" /\ a.similarity > 0)
  <2>1. AnswerScore(a) = u /\ AnswerScore(b) = v
    BY <1>1, <1>2, <1>7 DEF AnswerScore
  <2>2. QED
    BY <1>1, <2>1
<1>8. QED
  BY <1>6, <1>7

LEMMA ScoreSteps == ASSUME ScoreInv, [ScoreAnswer]_scoreVars PROVE ScoreInv'
BY DEF ScoreInv, ScoreAnswer, scoreVars

LEMMA ScoreMeans == ScoreInv => BetterNotWorse
<1> SUFFICES ASSUME ScoreInv, scored # NotScored, NEW b \in Improved(sample)
             PROVE  AnswerScore(Judged(b)) >= scored
  BY DEF BetterNotWorse
<1>1. SampleOK(sample) /\ scored = AnswerScore(Judged(sample))
  BY SamplesAssumption DEF ScoreInv
<1>2. SampleOK(b) /\ AsGood(sample, b)
  BY <1>1, ImprovedIsAsGood
<1>3. SampleOK(Judged(sample)) /\ SampleOK(Judged(b)) /\ AsGood(Judged(sample), Judged(b))
  BY <1>1, <1>2, JudgedAsGood
<1>4. PICK u, v \in Int : u = AnswerScore(Judged(sample)) /\ v = AnswerScore(Judged(b)) /\ u <= v
  BY <1>3, AnswerScoreGrows
<1>5. QED
  BY <1>1, <1>4

-----------------------------------------------------------------------------
(* The score of a session *)

GradedInv == graded \in Seq(Grades)

\* One more number, as great as the others, lowers no average.
LEMMA AverageRises ==
  ASSUME NEW c \in Seq(Int), c # <<>>, NEW x \in Int, \A i \in 1 .. Len(c) : c[i] <= x, NEW k \in Nat
  PROVE  /\ Rounded(k * Total(c), Len(c)) \in Int /\ Rounded(k * Total(Append(c, x)), Len(c) + 1) \in Int
         /\ Rounded(k * Total(c), Len(c)) <= Rounded(k * Total(Append(c, x)), Len(c) + 1)
<1>1. PICK n \in Nat \ {0} : n = Len(c)
  OBVIOUS
<1>2. PICK T \in Int : T = Total(c) /\ Total(Append(c, x)) = T + x
  BY TotalAppends
<1>3. T <= x * n
  <2>1. PICK d \in Seq(Int) : d = [i \in 1 .. n |-> x] /\ Len(d) = n /\ Total(d) = x * n
    BY <1>1, TotalOfSame
  <2>2. \A i \in 1 .. Len(c) : c[i] <= d[i]
    BY <1>1, <2>1
  <2>3. Total(c) <= Total(d)
    BY <1>1, <2>1, <2>2, TotalGrows
  <2>4. QED
    BY <1>2, <2>1, <2>3
<1>4. (k * T) * (n + 1) <= (k * (T + x)) * n
  <2>1. T * n \in Int /\ x * n \in Int /\ T * n + T \in Int /\ T * n + x * n \in Int
        /\ T * n + T <= T * n + x * n
    BY <1>3
  <2>2. k * (T * n + T) <= k * (T * n + x * n)
    <3>1. \A u, v \in Int : u <= v => k * u <= k * v
      OBVIOUS
    <3>2. QED
      BY <2>1, <3>1
  <2>3. (k * T) * (n + 1) = k * (T * n + T) /\ (k * (T + x)) * n = k * (T * n + x * n)
    OBVIOUS
  <2>4. QED
    BY <2>2, <2>3
<1>5. k * T \in Int /\ k * (T + x) \in Int /\ n + 1 \in Nat \ {0}
  OBVIOUS
<1>6. PICK u, v \in Int : u = k * T /\ v = k * (T + x) /\ u * (n + 1) <= v * n
  BY <1>4, <1>5
<1>7. /\ Rounded(u, n) \in Int /\ Rounded(v, n + 1) \in Int /\ Rounded(u, n) <= Rounded(v, n + 1)
  BY <1>5, <1>6, RatioGrows DEF Rounded
<1>8. QED
  BY <1>1, <1>2, <1>6, <1>7

\* An average is no more than the numbers may be.
LEMMA AverageWithin ==
  ASSUME NEW c \in Seq(Int), c # <<>>, NEW m \in Int, \A i \in 1 .. Len(c) : c[i] <= m, NEW k \in Nat
  PROVE  Rounded(k * Total(c), Len(c)) <= k * m
<1>1. PICK n \in Nat \ {0} : n = Len(c)
  OBVIOUS
<1>2. PICK T \in Int : T = Total(c) /\ T <= m * n
  <2>1. PICK d \in Seq(Int) : d = [i \in 1 .. n |-> m] /\ Len(d) = n /\ Total(d) = m * n
    BY <1>1, TotalOfSame
  <2>2. \A i \in 1 .. Len(c) : c[i] <= d[i]
    BY <1>1, <2>1
  <2>3. Total(c) \in Int /\ Total(c) <= Total(d)
    BY <1>1, <2>1, <2>2, TotalGrows
  <2>4. QED
    BY <2>1, <2>3
<1>3. PICK u, v \in Int : u = k * T /\ v = (k * m) * n /\ u <= v
  <2>1. m * n \in Int /\ k * T \in Int /\ k * (m * n) \in Int /\ (k * m) * n = k * (m * n)
    OBVIOUS
  <2>2. \A x, y \in Int : x <= y => k * x <= k * y
    OBVIOUS
  <2>3. k * T <= k * (m * n)
    BY <1>2, <2>1, <2>2
  <2>4. QED
    BY <2>1, <2>3
<1>4. u * n <= v * n
  BY <1>3
<1>5. Rounded(u, n) <= Rounded(v, n)
  BY <1>4, RatioGrows DEF Rounded
<1>6. Rounded((k * m) * n, n) = k * m
  <2>1. k * m \in Int
    OBVIOUS
  <2>2. QED
    BY <2>1, RatioOfWhole DEF Rounded
<1>7. QED
  BY <1>1, <1>2, <1>3, <1>5, <1>6

\* What is read of each answer of a session, with one more answer.
LEMMA OneMore ==
  ASSUME NEW s \in Seq(Grades), s # <<>>, NEW g \in Grades, NEW f \in [Grades -> Int],
         NEW c, c = [i \in DOMAIN s |-> f[s[i]]],
         NEW d, d = [i \in DOMAIN Append(s, g) |-> f[Append(s, g)[i]]]
  PROVE  /\ c \in Seq(Int) /\ c # <<>> /\ Len(c) = Len(s) /\ d = Append(c, f[g])
         /\ \A i \in 1 .. Len(c) : c[i] = f[s[i]]
<1>1. PICK n \in Nat \ {0} : n = Len(s) /\ DOMAIN s = 1 .. n
  OBVIOUS
<1>2. PICK t \in Seq(Grades) : t = Append(s, g)
  <2>1. Append(s, g) \in Seq(Grades)
    OBVIOUS
  <2>2. QED
    BY <2>1
<1>3. Len(t) = n + 1 /\ DOMAIN t = 1 .. n + 1 /\ t[n + 1] = g /\ \A i \in 1 .. n : t[i] = s[i]
  BY <1>1, <1>2
<1>4. \A i \in 1 .. n : f[s[i]] \in Int
  BY <1>1
<1>5. c \in Seq(Int) /\ Len(c) = n /\ \A i \in 1 .. n : c[i] = f[s[i]]
  BY <1>1, <1>4
<1>6. PICK e : e = Append(c, f[g])
  OBVIOUS
<1>7. e \in Seq(Int) /\ Len(e) = n + 1 /\ e[n + 1] = f[g] /\ \A i \in 1 .. n : e[i] = c[i]
  BY <1>5, <1>6
<1>8. d = [i \in 1 .. n + 1 |-> f[t[i]]]
  BY <1>2, <1>3
<1>9. e = [i \in 1 .. n + 1 |-> e[i]] /\ \A i \in 1 .. n + 1 : e[i] = f[t[i]]
  BY <1>3, <1>5, <1>7
<1>10. d = e
  BY <1>8, <1>9
<1>11. QED
  BY <1>1, <1>5, <1>6, <1>10

\* g is as good as each answer of s.
AsGoodAsAll(s, g) ==
  \A i \in DOMAIN s :
    (\A e \in Elements : g.star[e] >= s[i].star[e]) /\ g.cbi >= s[i].cbi /\ g.speech >= s[i].speech

\* t is s and one answer more.
OneLonger(s, g, t) == t = Append(s, g)

\* No average of a session falls with an answer as good as all before, nor is above 100 points.
LEMMA AveragesRise ==
  ASSUME NEW s \in Seq(Grades), s # <<>>, NEW g \in Grades, AsGoodAsAll(s, g), NEW t, OneLonger(s, g, t)
  PROVE  /\ BeiAverage(s) \in Int /\ CbiAverage(s) \in Int /\ SpeechAverage(s) \in Int
         /\ BeiAverage(t) \in Int /\ CbiAverage(t) \in Int /\ SpeechAverage(t) \in Int
         /\ BeiAverage(s) <= BeiAverage(t) /\ CbiAverage(s) <= CbiAverage(t)
         /\ SpeechAverage(s) <= SpeechAverage(t)
         /\ BeiAverage(s) <= 1000 /\ CbiAverage(s) <= 1000 /\ SpeechAverage(s) <= 1000
<1>0. t = Append(s, g)
  BY DEF OneLonger
<1>1. \A h \in Grades : /\ \A e \in Elements : h.star[e] \in Int /\ h.star[e] <= 25
                        /\ h.cbi \in Int /\ h.speech \in Int /\ h.cbi <= 100 /\ h.speech <= 1000
  <2>1. ASSUME NEW h \in Grades, NEW e \in Elements PROVE h.star[e] \in Int /\ h.star[e] <= 25
    <3>1. h.star \in [Elements -> 0 .. 25]
      BY GradesAssumption
    <3>2. h.star[e] \in 0 .. 25
      BY <3>1
    <3>3. QED
      BY <3>2
  <2>2. QED
    BY <2>1, GradesAssumption
<1>2. ASSUME NEW f \in [Grades -> Int], NEW m \in Int, NEW k \in Nat,
             \A h \in Grades : f[h] <= m, \A i \in DOMAIN s : f[s[i]] <= f[g],
             NEW c, c = [i \in DOMAIN s |-> f[s[i]]], NEW d, d = [i \in DOMAIN t |-> f[t[i]]]
      PROVE  /\ Rounded(k * Total(c), Len(s)) \in Int /\ Rounded(k * Total(d), Len(t)) \in Int
             /\ Rounded(k * Total(c), Len(s)) <= Rounded(k * Total(d), Len(t))
             /\ Rounded(k * Total(c), Len(s)) <= k * m /\ Total(c) \in Int /\ Total(d) \in Int
  <2>1. /\ c \in Seq(Int) /\ c # <<>> /\ Len(c) = Len(s) /\ d = Append(c, f[g])
        /\ \A i \in 1 .. Len(c) : c[i] = f[s[i]]
    BY <1>0, <1>2, OneMore
  <2>2. Len(t) = Len(c) + 1 /\ f[g] \in Int
    BY <1>0, <2>1
  <2>3. \A i \in 1 .. Len(c) : c[i] <= f[g] /\ c[i] <= m
    <3>1. \A i \in 1 .. Len(c) : i \in DOMAIN s /\ s[i] \in Grades
      BY <2>1
    <3>2. QED
      BY <1>2, <2>1, <3>1
  <2>4. Total(c) \in Int /\ Total(d) \in Int
    BY <2>1, <2>2, TotalAppends
  <2>5. /\ Rounded(k * Total(c), Len(c)) \in Int /\ Rounded(k * Total(d), Len(c) + 1) \in Int
        /\ Rounded(k * Total(c), Len(c)) <= Rounded(k * Total(d), Len(c) + 1)
    BY <2>1, <2>2, <2>3, AverageRises
  <2>6. Rounded(k * Total(c), Len(c)) <= k * m
    BY <2>1, <2>3, AverageWithin
  <2>7. QED
    BY <2>1, <2>2, <2>4, <2>5, <2>6
<1>3. \A i \in DOMAIN s : s[i] \in Grades
  OBVIOUS
<1>4. t \in Seq(Grades) /\ \A i \in DOMAIN t : t[i] \in Grades
  <2>1. PICK u \in Seq(Grades) : u = t
    <3>1. t \in Seq(Grades)
      BY <1>0
    <3>2. QED
      BY <3>1
  <2>2. QED
    BY <2>1
<1>5. ASSUME NEW e \in Elements
      PROVE  /\ ElementAverage(s, e) \in Int /\ ElementAverage(t, e) \in Int
             /\ ElementAverage(s, e) <= ElementAverage(t, e) /\ ElementAverage(s, e) <= 250
  <2>1. PICK f : f = [h \in Grades |-> h.star[e]]
    OBVIOUS
  <2>2. f \in [Grades -> Int] /\ (\A h \in Grades : f[h] = h.star[e] /\ f[h] <= 25)
    BY <1>1, <2>1
  <2>3. \A i \in DOMAIN s : f[s[i]] <= f[g]
    <3>1. \A i \in DOMAIN s : f[s[i]] = s[i].star[e] /\ s[i].star[e] \in Int /\ s[i].star[e] <= g.star[e]
      <4>1. \A i \in DOMAIN s : g.star[e] >= s[i].star[e]
        BY DEF AsGoodAsAll
      <4>2. \A h \in Grades : h.star[e] \in Int
        BY <1>1
      <4>3. QED
        BY <1>3, <2>2, <4>1, <4>2
    <3>2. QED
      BY <2>2, <3>1
  <2>4. PICK c, d : c = [i \in DOMAIN s |-> f[s[i]]] /\ d = [i \in DOMAIN t |-> f[t[i]]]
    OBVIOUS
  <2>5. c = [i \in DOMAIN s |-> s[i].star[e]] /\ d = [i \in DOMAIN t |-> t[i].star[e]]
    BY <1>3, <1>4, <2>2, <2>4
  <2>6. 25 \in Int /\ 10 \in Nat
    OBVIOUS
  <2>7. /\ Rounded(10 * Total(c), Len(s)) \in Int /\ Rounded(10 * Total(d), Len(t)) \in Int
        /\ Rounded(10 * Total(c), Len(s)) <= Rounded(10 * Total(d), Len(t))
        /\ Rounded(10 * Total(c), Len(s)) <= 10 * 25
    BY <1>2, <2>2, <2>3, <2>4, <2>6
  <2>8. /\ ElementAverage(s, e) = Rounded(10 * Total(c), Len(s))
        /\ ElementAverage(t, e) = Rounded(10 * Total(d), Len(t))
    BY <2>5 DEF ElementAverage
  <2>9. 10 * 25 = 250
    OBVIOUS
  <2>10. QED
    BY <2>7, <2>8, <2>9
<1>6. /\ BeiAverage(s) \in Int /\ BeiAverage(t) \in Int /\ BeiAverage(s) <= BeiAverage(t)
      /\ BeiAverage(s) <= 1000
  <2>1. \A x \in {"situation", "task", "action", "result"} :
          /\ ElementAverage(s, x) \in Int /\ ElementAverage(t, x) \in Int
          /\ ElementAverage(s, x) <= ElementAverage(t, x) /\ ElementAverage(s, x) <= 250
    <3>1. {"situation", "task", "action", "result"} = Elements
      BY DEF Elements
    <3>2. QED
      BY <1>5, <3>1
  <2>2. PICK p1, p2, p3, p4, q1, q2, q3, q4 \in Int :
          /\ p1 = ElementAverage(s, "situation") /\ q1 = ElementAverage(t, "situation")
          /\ p2 = ElementAverage(s, "task") /\ q2 = ElementAverage(t, "task")
          /\ p3 = ElementAverage(s, "action") /\ q3 = ElementAverage(t, "action")
          /\ p4 = ElementAverage(s, "result") /\ q4 = ElementAverage(t, "result")
    BY <2>1
  <2>3. /\ p1 <= q1 /\ p2 <= q2 /\ p3 <= q3 /\ p4 <= q4
        /\ p1 <= 250 /\ p2 <= 250 /\ p3 <= 250 /\ p4 <= 250
    BY <2>1, <2>2
  <2>4. BeiAverage(s) = p1 + p2 + p3 + p4 /\ BeiAverage(t) = q1 + q2 + q3 + q4
    BY <2>2 DEF BeiAverage
  <2>5. QED
    BY <2>3, <2>4
<1>7. /\ CbiAverage(s) \in Int /\ CbiAverage(t) \in Int /\ CbiAverage(s) <= CbiAverage(t)
      /\ CbiAverage(s) <= 1000
  <2>1. PICK f : f = [h \in Grades |-> h.cbi]
    OBVIOUS
  <2>2. f \in [Grades -> Int] /\ (\A h \in Grades : f[h] = h.cbi /\ f[h] <= 100)
    BY <1>1, <2>1
  <2>3. \A i \in DOMAIN s : f[s[i]] <= f[g]
    <3>1. \A i \in DOMAIN s : f[s[i]] = s[i].cbi /\ s[i].cbi \in Int /\ s[i].cbi <= g.cbi
      <4>1. \A i \in DOMAIN s : g.cbi >= s[i].cbi
        BY DEF AsGoodAsAll
      <4>2. QED
        BY <1>1, <1>3, <2>2, <4>1
    <3>2. QED
      BY <2>2, <3>1
  <2>4. PICK c, d : c = [i \in DOMAIN s |-> f[s[i]]] /\ d = [i \in DOMAIN t |-> f[t[i]]]
    OBVIOUS
  <2>5. c = [i \in DOMAIN s |-> s[i].cbi] /\ d = [i \in DOMAIN t |-> t[i].cbi]
    BY <1>3, <1>4, <2>2, <2>4
  <2>6. 100 \in Int /\ 10 \in Nat
    OBVIOUS
  <2>7. /\ Rounded(10 * Total(c), Len(s)) \in Int /\ Rounded(10 * Total(d), Len(t)) \in Int
        /\ Rounded(10 * Total(c), Len(s)) <= Rounded(10 * Total(d), Len(t))
        /\ Rounded(10 * Total(c), Len(s)) <= 10 * 100
    BY <1>2, <2>2, <2>3, <2>4, <2>6
  <2>8. CbiAverage(s) = Rounded(10 * Total(c), Len(s)) /\ CbiAverage(t) = Rounded(10 * Total(d), Len(t))
    BY <2>5 DEF CbiAverage
  <2>9. 10 * 100 = 1000
    OBVIOUS
  <2>10. QED
    BY <2>7, <2>8, <2>9
<1>8. /\ SpeechAverage(s) \in Int /\ SpeechAverage(t) \in Int /\ SpeechAverage(s) <= SpeechAverage(t)
      /\ SpeechAverage(s) <= 1000
  <2>1. PICK f : f = [h \in Grades |-> h.speech]
    OBVIOUS
  <2>2. f \in [Grades -> Int] /\ (\A h \in Grades : f[h] = h.speech /\ f[h] <= 1000)
    BY <1>1, <2>1
  <2>3. \A i \in DOMAIN s : f[s[i]] <= f[g]
    <3>1. \A i \in DOMAIN s : f[s[i]] = s[i].speech /\ s[i].speech \in Int /\ s[i].speech <= g.speech
      <4>1. \A i \in DOMAIN s : g.speech >= s[i].speech
        BY DEF AsGoodAsAll
      <4>2. QED
        BY <1>1, <1>3, <2>2, <4>1
    <3>2. QED
      BY <2>2, <3>1
  <2>4. PICK c, d : c = [i \in DOMAIN s |-> f[s[i]]] /\ d = [i \in DOMAIN t |-> f[t[i]]]
    OBVIOUS
  <2>5. c = [i \in DOMAIN s |-> s[i].speech] /\ d = [i \in DOMAIN t |-> t[i].speech]
    BY <1>3, <1>4, <2>2, <2>4
  <2>6. PICK one \in Nat : one = 1
    OBVIOUS
  <2>7. PICK most \in Int : most = 1000
    OBVIOUS
  <2>8. /\ Rounded(one * Total(c), Len(s)) \in Int /\ Rounded(one * Total(d), Len(t)) \in Int
        /\ Rounded(one * Total(c), Len(s)) <= Rounded(one * Total(d), Len(t))
        /\ Rounded(one * Total(c), Len(s)) <= one * most /\ Total(c) \in Int /\ Total(d) \in Int
    <3>1. \A h \in Grades : f[h] <= most
      BY <2>2, <2>7
    <3>2. one \in Nat /\ most \in Int
      BY <2>6, <2>7
    <3>3. f \in [Grades -> Int]
      BY <2>2
    <3>4. QED
      BY <1>2, <2>3, <2>4, <3>1, <3>2, <3>3
  <2>9. one * Total(c) = Total(c) /\ one * Total(d) = Total(d) /\ one * most = 1000
    BY <2>6, <2>7, <2>8
  <2>10. SpeechAverage(s) = Rounded(Total(c), Len(s)) /\ SpeechAverage(t) = Rounded(Total(d), Len(t))
    BY <2>5 DEF SpeechAverage
  <2>11. QED
    BY <2>8, <2>9, <2>10
<1>9. QED
  BY <1>6, <1>7, <1>8

\* Who is asked for figures, and who gives them, with one more answer.
LEMMA FiguresOfMore ==
  ASSUME NEW s \in Seq(Grades), NEW g \in Grades, NEW t, OneLonger(s, g, t)
  PROVE  LET new == IF g.technical /\ g.grounding \in {"grounded", "missing"} THEN {Len(s) + 1} ELSE {}
         IN /\ Applicable(t) = Applicable(s) \cup new /\ Len(s) + 1 \notin Applicable(s)
            /\ g.grounding # "missing" => Grounded(t) = Grounded(s) \cup new
            /\ IsFiniteSet(Applicable(s)) /\ Grounded(s) \in SUBSET Applicable(s)
<1>0. t = Append(s, g)
  BY DEF OneLonger
<1>1. PICK n \in Nat : n = Len(s) /\ DOMAIN s = 1 .. n
  OBVIOUS
<1>2. t \in Seq(Grades) /\ Len(t) = n + 1
  <2>1. PICK u \in Seq(Grades) : u = t
    <3>1. t \in Seq(Grades)
      BY <1>0
    <3>2. QED
      BY <3>1
  <2>2. QED
    BY <1>0, <1>1, <2>1
<1>3. DOMAIN t = 1 .. n + 1 /\ t[n + 1] = g /\ \A i \in 1 .. n : t[i] = s[i]
  BY <1>0, <1>1, <1>2
<1> DEFINE asked(h) == h.technical /\ h.grounding \in {"grounded", "missing"}
<1> DEFINE new == IF asked(g) THEN {n + 1} ELSE {}
<1>4. Applicable(s) = {i \in 1 .. n : asked(s[i])} /\ Applicable(t) = {i \in 1 .. n + 1 : asked(t[i])}
  BY <1>1, <1>3 DEF Applicable, Technical
<1>5. \A i : i \in 1 .. n + 1 <=> i \in 1 .. n \/ i = n + 1
  OBVIOUS
<1>6. n + 1 \notin 1 .. n
  OBVIOUS
<1> HIDE DEF asked
<1>7. Applicable(t) = Applicable(s) \cup new /\ n + 1 \notin Applicable(s)
  BY <1>3, <1>4, <1>5, <1>6
<1>8. ASSUME g.grounding # "missing" PROVE Grounded(t) = Grounded(s) \cup new
  <2>1. \A i \in 1 .. n : t[i].grounding = s[i].grounding
    BY <1>3
  <2>2. asked(g) => g.grounding = "grounded"
    BY <1>8 DEF asked
  <2>3. Applicable(s) \in SUBSET (1 .. n)
    BY <1>4
  <2>4. QED
    BY <1>3, <1>7, <2>1, <2>2, <2>3 DEF Grounded
<1>9. IsFiniteSet(Applicable(s))
  <2>1. IsFiniteSet(1 .. n) /\ Applicable(s) \in SUBSET (1 .. n)
    BY <1>4, FS_Interval
  <2>2. QED
    BY <2>1, FS_Subset
<1>10. Grounded(s) \in SUBSET Applicable(s)
  BY DEF Grounded
<1>11. new = IF g.technical /\ g.grounding \in {"grounded", "missing"} THEN {n + 1} ELSE {}
  BY DEF asked
<1> HIDE DEF new
<1>12. QED
  BY <1>1, <1>7, <1>8, <1>9, <1>10, <1>11

\* The answers that give their figures are a larger share of those that were asked.
LEMMA GroundingRises ==
  ASSUME NEW s \in Seq(Grades), NEW g \in Grades, NEW t, OneLonger(s, g, t), g.grounding # "missing"
  PROVE  \/ Grounding(s) = NoFigures /\ Grounding(t) \in {NoFigures, 1000}
         \/ Grounding(s) \in Int /\ Grounding(t) \in Int /\ Grounding(s) <= Grounding(t)
<1>1. PICK new :
        /\ Applicable(t) = Applicable(s) \cup new /\ Grounded(t) = Grounded(s) \cup new
        /\ new = {} \/ (new = {Len(s) + 1} /\ Len(s) + 1 \notin Applicable(s))
  BY FiguresOfMore
<1>2. IsFiniteSet(Applicable(s)) /\ Grounded(s) \in SUBSET Applicable(s)
  BY FiguresOfMore
<1>3. IsFiniteSet(Grounded(s)) /\ Cardinality(Grounded(s)) <= Cardinality(Applicable(s))
  BY <1>2, FS_Subset
<1>4. PICK k \in Nat : k = Cardinality(Applicable(s)) /\ (k = 0 <=> Applicable(s) = {})
  BY <1>2, FS_CardinalityType, FS_EmptySet
<1>5. PICK m \in Nat : m = Cardinality(Grounded(s)) /\ m <= k
  BY <1>3, <1>4, FS_CardinalityType
<1>6. CASE new = {}
  <2>1. Applicable(t) = Applicable(s) /\ Grounded(t) = Grounded(s)
    BY <1>1, <1>6
  <2>2. Grounding(t) = Grounding(s)
    BY <2>1 DEF Grounding
  <2>3. CASE k = 0
    BY <1>4, <2>2, <2>3 DEF Grounding
  <2>4. CASE k # 0
    <3>1. Grounding(s) = Rounded(1000 * m, k)
      BY <1>4, <1>5, <2>4 DEF Grounding
    <3>2. 2 * (1000 * m) + k \in Int /\ 2 * k \in Nat \ {0}
      BY <2>4
    <3>3. Rounded(1000 * m, k) \in Int
      BY <3>2, Quotient DEF Rounded
    <3>4. QED
      BY <2>2, <3>1, <3>3
  <2>5. QED
    BY <2>3, <2>4
<1>7. CASE new = {Len(s) + 1} /\ Len(s) + 1 \notin Applicable(s)
  <2>1. Cardinality(Applicable(t)) = k + 1 /\ Applicable(t) # {}
    <3>1. Cardinality(Applicable(s) \cup {Len(s) + 1}) = k + 1
      BY <1>2, <1>4, <1>7, FS_AddElement
    <3>2. QED
      BY <1>1, <1>7, <3>1
  <2>2. Cardinality(Grounded(t)) = m + 1
    <3>1. Len(s) + 1 \notin Grounded(s)
      BY <1>2, <1>7
    <3>2. QED
      BY <1>1, <1>3, <1>5, <1>7, <3>1, FS_AddElement
  <2>3. Grounding(t) = Rounded(1000 * (m + 1), k + 1)
    BY <2>1, <2>2 DEF Grounding
  <2>4. CASE k = 0
    <3>1. Grounding(s) = NoFigures
      BY <1>4, <2>4 DEF Grounding
    <3>2. 1000 * (m + 1) = 1000 /\ k + 1 = 1
      BY <1>5, <2>4
    <3>3. Rounded(1000, 1) = 1000
      BY DEF Rounded
    <3>4. QED
      BY <2>3, <3>1, <3>2, <3>3
  <2>5. CASE k # 0
    <3>1. Grounding(s) = Rounded(1000 * m, k)
      BY <1>4, <1>5, <2>5 DEF Grounding
    <3>2. (1000 * m) * (k + 1) <= (1000 * (m + 1)) * k
      <4>1. m * k \in Int
        OBVIOUS
      <4>2. (1000 * m) * (k + 1) = 1000 * (m * k) + 1000 * m /\ (1000 * (m + 1)) * k = 1000 * (m * k) + 1000 * k
        OBVIOUS
      <4>3. QED
        BY <1>5, <4>1, <4>2
    <3>3. 1000 * m \in Int /\ 1000 * (m + 1) \in Int /\ k \in Nat \ {0} /\ k + 1 \in Nat \ {0}
      BY <2>5
    <3>4. /\ Rounded(1000 * m, k) \in Int /\ Rounded(1000 * (m + 1), k + 1) \in Int
          /\ Rounded(1000 * m, k) <= Rounded(1000 * (m + 1), k + 1)
      BY <3>2, <3>3, RatioGrows DEF Rounded
    <3>5. QED
      BY <2>3, <3>1, <3>4
  <2>6. QED
    BY <2>4, <2>5
<1>8. QED
  BY <1>1, <1>6, <1>7

\* The four weights of an interviewer add up to 100.
LEMMA WeightsAddUp ==
  ASSUME NEW p
  PROVE  /\ Weights(p).bei \in Nat /\ Weights(p).cbi \in Nat
         /\ Weights(p).speech \in Nat /\ Weights(p).grounding \in Nat
         /\ Weights(p).bei + Weights(p).cbi + Weights(p).speech + Weights(p).grounding = 100
         /\ Weights(p).grounding < 100
BY DEF Weights

\* Whether or not the figures have counted before: an average weighs more of the same weights.
LEMMA WeightedRises ==
  ASSUME NEW s \in Seq(Grades), s # <<>>, NEW g \in Grades, AsGoodAsAll(s, g), g.grounding # "missing",
         NEW t, OneLonger(s, g, t), NEW p
  PROVE  /\ Weighted(s, Weights(p)) \in Int /\ Weighted(t, Weights(p)) \in Int
         /\ Weighted(s, Weights(p)) <= Weighted(t, Weights(p))
<1>1. /\ BeiAverage(s) \in Int /\ CbiAverage(s) \in Int /\ SpeechAverage(s) \in Int
      /\ BeiAverage(t) \in Int /\ CbiAverage(t) \in Int /\ SpeechAverage(t) \in Int
      /\ BeiAverage(s) <= BeiAverage(t) /\ CbiAverage(s) <= CbiAverage(t)
      /\ SpeechAverage(s) <= SpeechAverage(t)
      /\ BeiAverage(s) <= 1000 /\ CbiAverage(s) <= 1000 /\ SpeechAverage(s) <= 1000
  BY AveragesRise
<1>2. \/ Grounding(s) = NoFigures /\ Grounding(t) \in {NoFigures, 1000}
      \/ Grounding(s) \in Int /\ Grounding(t) \in Int /\ Grounding(s) <= Grounding(t)
  BY GroundingRises
<1>3. PICK w : w = Weights(p)
  OBVIOUS
<1>4. PICK b, c, h, z \in Nat : b = w.bei /\ c = w.cbi /\ h = w.speech /\ z = w.grounding
  <2>1. w.bei \in Nat /\ w.cbi \in Nat /\ w.speech \in Nat /\ w.grounding \in Nat
    BY <1>3, WeightsAddUp
  <2>2. QED
    BY <2>1
<1>5. b + c + h + z = 100 /\ z < 100
  <2>1. w.bei + w.cbi + w.speech + w.grounding = 100 /\ w.grounding < 100
    BY <1>3, WeightsAddUp
  <2>2. QED
    BY <1>4, <2>1
<1>6. PICK i, j, k, l, m, n \in Int :
        /\ i = BeiAverage(s) /\ j = CbiAverage(s) /\ k = SpeechAverage(s)
        /\ l = BeiAverage(t) /\ m = CbiAverage(t) /\ n = SpeechAverage(t)
        /\ i <= l /\ j <= m /\ k <= n /\ i <= 1000 /\ j <= 1000 /\ k <= 1000
  BY <1>1
<1>7. \A x \in Int, y \in Int, v \in Nat : x <= y => x * v <= y * v /\ x * v \in Int /\ y * v \in Int
  OBVIOUS
<1>8. PICK x, y \in Int :
        /\ x = i * b + j * c + k * h /\ y = l * b + m * c + n * h /\ x <= y
        /\ x <= 1000 * (100 - z)
  <2>1. i * b <= l * b /\ j * c <= m * c /\ k * h <= n * h
    BY <1>6, <1>7
  <2>2. i * b <= 1000 * b /\ j * c <= 1000 * c /\ k * h <= 1000 * h
    BY <1>6, <1>7
  <2>3. PICK ib, jc, kh, lb, mc, nh \in Int :
          ib = i * b /\ jc = j * c /\ kh = k * h /\ lb = l * b /\ mc = m * c /\ nh = n * h
    OBVIOUS
  <2>4. ib + jc + kh <= lb + mc + nh
    BY <2>1, <2>3
  <2>5. 1000 * b + 1000 * c + 1000 * h = 1000 * (100 - z)
    <3>1. 1000 * b + 1000 * c + 1000 * h = 1000 * (b + c + h)
      OBVIOUS
    <3>2. b + c + h = 100 - z
      BY <1>4, <1>5
    <3>3. QED
      BY <3>1, <3>2
  <2>6. ib + jc + kh <= 1000 * (100 - z)
    BY <2>2, <2>3, <2>5
  <2>7. QED
    BY <2>3, <2>4, <2>6
<1> DEFINE points(q) == IF Grounding(q) = NoFigures THEN 0 ELSE Grounding(q) * z
<1> DEFINE active(q) == IF Grounding(q) = NoFigures THEN 100 - z ELSE 100
<1>9. /\ Weighted(s, w) = Min({1000, Rounded(x + points(s), active(s))})
      /\ Weighted(t, w) = Min({1000, Rounded(y + points(t), active(t))})
  BY <1>4, <1>6, <1>8 DEF Weighted, ActiveWeight
<1>10. /\ points(s) \in Int /\ points(t) \in Int /\ active(s) \in Nat \ {0} /\ active(t) \in Nat \ {0}
      /\ (x + points(s)) * active(t) <= (y + points(t)) * active(s)
  <2>1. CASE Grounding(s) = NoFigures /\ Grounding(t) = NoFigures
    <3>1. points(s) = 0 /\ points(t) = 0 /\ active(s) = 100 - z /\ active(t) = 100 - z
      BY <2>1
    <3>2. 100 - z \in Nat \ {0} /\ x * (100 - z) <= y * (100 - z)
      <4>1. 100 - z \in Nat \ {0}
        BY <1>4, <1>5
      <4>2. QED
        BY <1>7, <1>8, <4>1
    <3> HIDE DEF points, active
    <3>3. x + 0 = x /\ y + 0 = y
      OBVIOUS
    <3>4. QED
      BY <3>1, <3>2, <3>3
  <2>2. CASE Grounding(s) = NoFigures /\ Grounding(t) = 1000
    <3>1. Grounding(t) # NoFigures
      BY <2>2, NoFiguresAssumption
    <3>2. points(s) = 0 /\ points(t) = 1000 * z /\ active(s) = 100 - z /\ active(t) = 100
      BY <2>2, <3>1
    <3> HIDE DEF points, active
    <3>3. PICK d \in Nat \ {0} : d = 100 - z
      BY <1>4, <1>5
    <3>4. x * 100 = x * z + x * d
      <4>1. 100 = z + d
        BY <1>4, <1>5, <3>3
      <4>2. x * (z + d) = x * z + x * d
        OBVIOUS
      <4>3. QED
        BY <4>1, <4>2
    <3>5. x * z <= (1000 * d) * z
      BY <1>7, <1>8, <3>3
    <3>6. x * d <= y * d
      BY <1>7, <1>8
    <3>7. (y + 1000 * z) * d = y * d + (1000 * d) * z
      OBVIOUS
    <3>8. x * 100 <= (y + 1000 * z) * d
      <4>1. PICK xz, xd, yd, dz \in Int : xz = x * z /\ xd = x * d /\ yd = y * d /\ dz = (1000 * d) * z
        OBVIOUS
      <4>2. xz + xd <= yd + dz
        BY <3>5, <3>6, <4>1
      <4>3. QED
        BY <3>4, <3>7, <4>1, <4>2
    <3>9. x + 0 = x
      OBVIOUS
    <3>10. QED
      BY <3>2, <3>3, <3>8, <3>9
  <2>3. CASE Grounding(s) \in Int /\ Grounding(t) \in Int /\ Grounding(s) <= Grounding(t)
    <3>1. PICK q, r \in Int : q = Grounding(s) /\ r = Grounding(t) /\ q <= r
      BY <2>3
    <3>2. points(s) = q * z /\ points(t) = r * z /\ active(s) = 100 /\ active(t) = 100
      BY <3>1, NoFiguresAssumption
    <3> HIDE DEF points, active
    <3>3. PICK u, v \in Int : u = q * z /\ v = r * z /\ u <= v
      BY <1>7, <3>1
    <3>4. (x + u) * 100 <= (y + v) * 100
      BY <1>8, <3>3
    <3>5. QED
      BY <3>2, <3>3, <3>4
  <2> HIDE DEF points, active
  <2>4. QED
    BY <1>2, <2>1, <2>2, <2>3
<1> HIDE DEF points, active
<1>11. PICK u, v \in Int : u = x + points(s) /\ v = y + points(t)
  BY <1>10
<1>12. /\ Rounded(u, active(s)) \in Int /\ Rounded(v, active(t)) \in Int
      /\ Rounded(u, active(s)) <= Rounded(v, active(t))
  BY <1>10, <1>11, RatioGrows DEF Rounded
<1>13. PICK e, f \in Int : e = Rounded(u, active(s)) /\ f = Rounded(v, active(t)) /\ e <= f
  BY <1>12
<1>14. Min({1000, e}) = (IF 1000 <= e THEN 1000 ELSE e) /\ Min({1000, f}) = (IF 1000 <= f THEN 1000 ELSE f)
  BY MinOfTwo
<1>15. Weighted(s, w) = Min({1000, e}) /\ Weighted(t, w) = Min({1000, f})
  BY <1>9, <1>11, <1>13
<1>16. QED
  BY <1>3, <1>13, <1>14, <1>15

LEMMA GoodAnswerSteps ==
  ASSUME GradedInv, [ReportScoreNext]_reportScoreVars
  PROVE  GradedInv' /\ GoodAnswerStep
<1>1. CASE ReportScoreNext
  <2>1. PICK g \in Grades : graded' = Append(graded, g) /\ OneLonger(graded, g, graded')
    BY <1>1 DEF ReportScoreNext, GradeAnswer, OneLonger
  <2>2. GradedInv'
    BY <2>1 DEF GradedInv
  <2>3. ASSUME HasInputs(graded), HasInputs(graded'), NoWorse(Last(graded'))
        PROVE  ReportScore(graded', persona) >= ReportScore(graded, persona)
    <3>1. graded \in Seq(Grades) /\ graded # <<>> /\ graded' # <<>>
      BY <2>2, <2>3 DEF GradedInv, HasInputs
    <3>2. Last(graded') = g
      BY <2>1, <3>1 DEF Last
    <3>3. AsGoodAsAll(graded, g) /\ g.grounding # "missing"
      BY <2>3, <3>2 DEF NoWorse, AsGoodAsAll
    <3>4. PICK u, v \in Int : u = Weighted(graded, Weights(persona)) /\ v = Weighted(graded', Weights(persona)) /\ u <= v
      BY <2>1, <3>1, <3>3, WeightedRises
    <3>5. ReportScore(graded, persona) = u /\ ReportScore(graded', persona) = v
      BY <2>3, <3>1, <3>4 DEF ReportScore
    <3>6. QED
      BY <3>4, <3>5
  <2>4. QED
    BY <2>2, <2>3 DEF GoodAnswerStep
<1>2. CASE UNCHANGED reportScoreVars
  <2>1. graded' = graded
    BY <1>2 DEF reportScoreVars
  <2>2. GradedInv'
    BY <2>1 DEF GradedInv
  <2>3. ASSUME HasInputs(graded), NoWorse(Last(graded))
        PROVE  ReportScore(graded, persona) >= ReportScore(graded, persona)
    <3>1. graded \in Seq(Grades) /\ graded # <<>> /\ Last(graded) \in Grades
      BY <2>3 DEF GradedInv, HasInputs, Last
    <3>2. AsGoodAsAll(graded, Last(graded)) /\ Last(graded).grounding # "missing"
      BY <2>3 DEF NoWorse, AsGoodAsAll
    <3>3. PICK u \in Int : u = Weighted(graded, Weights(persona))
      <4>1. OneLonger(graded, Last(graded), Append(graded, Last(graded)))
        BY DEF OneLonger
      <4>2. QED
        BY <3>1, <3>2, <4>1, WeightedRises
    <3>4. ReportScore(graded, persona) = u
      BY <2>3, <3>1, <3>3 DEF ReportScore
    <3>5. QED
      BY <3>4
  <2>4. QED
    BY <2>1, <2>2, <2>3 DEF GoodAnswerStep
<1>3. QED
  BY <1>1, <1>2

\* An answer better in one respect never scores less, and one as good as the others
\* never lowers the report, whatever the answers, the evaluations and the interviewer.
THEOREM BetterIsNotWorseCorrect == ScoreSpec /\ ReportScoreSpec => BetterIsNotWorse
<1>1. ScoreInit => ScoreInv
  BY DEF ScoreInit, ScoreInv
<1>2. ScoreInv /\ [ScoreAnswer]_scoreVars => ScoreInv'
  BY ScoreSteps
<1>3. ReportScoreInit => GradedInv
  BY DEF ReportScoreInit, GradedInv
<1>4. GradedInv /\ [ReportScoreNext]_reportScoreVars => GradedInv' /\ GoodAnswerStep
  BY GoodAnswerSteps
<1>5. ScoreInv' => BetterNotWorse'
  <2>1. ScoreInv => BetterNotWorse
    BY ScoreMeans
  <2>2. QED
    BY <2>1, PTL
<1>6. QED
  BY <1>1, <1>2, <1>3, <1>4, <1>5, PTL DEF ScoreSpec, ReportScoreSpec, BetterIsNotWorse
=============================================================================
