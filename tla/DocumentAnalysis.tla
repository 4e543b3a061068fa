--------------------------- MODULE DocumentAnalysis ---------------------------
(***************************************************************************)
(* The analysis of a job description and a resume: apps/analysis/views.py  *)
(* starts a thread per analysis session, and apps/input/views.py edits and *)
(* deletes the documents meanwhile.                                        *)
(*                                                                         *)
(* The thread works from the texts the session has copied.  It stores its  *)
(* result, marks the job description, and then the session; the foreign    *)
(* keys of the result are those the session had when the thread began.     *)
(***************************************************************************)
EXTENDS Naturals, FiniteSets

CONSTANTS Client,    \* requests that start analyses, edit and delete
          AnalysisRun,   \* analysis sessions, one thread each
          MaxDying,  \* bound: threads that die
          MaxEdits   \* bound: edits of the job description

ASSUME DyingAssumption == MaxDying \in Nat
ASSUME EditAssumption == MaxEdits \in Nat

VARIABLES
  jd,         \* the JobDescription row, whether it is there, and its columns
  resume,     \* whether the ResumeMaster row is there
  job,        \* the AnalysisSession rows
  results,    \* the sessions whose JdAnalysis row is there
  at,         \* where the thread of a session is in _run_analysis
  client,     \* where a request is
  copy,       \* the row its handler holds
  dead        \* the sessions whose thread has died

rowsVars == <<jd, resume, job, results>>
documentVars == <<rowsVars, at, client, copy, dead>>

NewSession == [status |-> "none", jd |-> FALSE, resume |-> FALSE, result |-> FALSE]

NewJd == [there |-> TRUE, text |-> 0, status |-> "PENDING"]

DocumentInit ==
  /\ jd = NewJd
  /\ resume = TRUE
  /\ job = [s \in AnalysisRun |-> NewSession]
  /\ results = {}
  /\ at = [s \in AnalysisRun |-> "none"]
  /\ client = [c \in Client |-> "idle"]
  /\ copy = [c \in Client |-> NewJd]
  /\ dead = {}

ClientGoes(c, to) == client' = [client EXCEPT ![c] = to]
ThreadGoes(s, to) == at' = [at EXCEPT ![s] = to]

-----------------------------------------------------------------------------
(* Requests *)

\* AnalysisStartView.post finds both documents and no session to use again: one
\* that is ready for the same documents would be.
StartAnalysis(c) ==
  /\ client[c] = "idle" /\ jd.there /\ resume
  /\ ~\E s \in AnalysisRun : job[s].status = "ready" /\ job[s].jd /\ job[s].resume
  /\ ClientGoes(c, "create")
  /\ UNCHANGED <<rowsVars, at, copy, dead>>

\* The session is created, unless a document is gone by now, and its thread.
CreateAnalysis(c, s) ==
  /\ client[c] = "create" /\ job[s].status = "none"
  /\ IF jd.there /\ resume
     THEN /\ job' = [job EXCEPT ![s] =
                            [status |-> "analyzing", jd |-> TRUE, resume |-> TRUE, result |-> FALSE]]
          /\ ThreadGoes(s, "analyse")
     ELSE UNCHANGED <<job, at>>
  /\ ClientGoes(c, "idle")
  /\ UNCHANGED <<jd, resume, results, copy, dead>>

\* JDDetailView.patch reads the row.
BeginPatch(c) ==
  /\ client[c] = "idle" /\ jd.there /\ jd.text < MaxEdits
  /\ ClientGoes(c, "patch")
  /\ copy' = [copy EXCEPT ![c] = [jd EXCEPT !.text = @ + 1]]
  /\ UNCHANGED <<rowsVars, at, dead>>

\* JobDescriptionUpdateSerializer.update: instance.save() writes every column as it
\* was read, and inserts the row again when it was deleted meanwhile.
SavePatch(c) ==
  /\ client[c] = "patch"
  /\ jd' = copy[c]
  /\ copy' = [copy EXCEPT ![c] = NewJd]
  /\ ClientGoes(c, "idle")
  /\ UNCHANGED <<resume, job, results, at, dead>>

\* bug: the sessions keep the document that is gone
LinkKept(r) == r

Unlinked(r) == [r EXCEPT !.jd = FALSE]

\* The result of a session goes with a document it names; both are set to null.
DeleteJd ==
  /\ jd.there
  /\ jd' = [jd EXCEPT !.there = FALSE]
  /\ job' = [s \in AnalysisRun |-> [Unlinked(job[s]) EXCEPT !.result = FALSE]]
  /\ results' = {}
  /\ UNCHANGED <<resume, at, client, copy, dead>>

DeleteResume ==
  /\ resume
  /\ resume' = FALSE
  /\ job' = [s \in AnalysisRun |-> [job[s] EXCEPT !.resume = FALSE, !.result = FALSE]]
  /\ results' = {}
  /\ UNCHANGED <<jd, at, client, copy, dead>>

-----------------------------------------------------------------------------
(* The thread *)

\* The models read and compare the documents.
Analyse(s) ==
  /\ at[s] = "analyse"
  /\ ThreadGoes(s, "store")
  /\ UNCHANGED <<rowsVars, client, copy, dead>>

\* JdAnalysis.objects.create: both documents must be there.
StoreResult(s) ==
  /\ at[s] = "store" /\ jd.there /\ resume
  /\ results' = results \cup {s}
  /\ ThreadGoes(s, "mark")
  /\ UNCHANGED <<jd, resume, job, client, copy, dead>>

Marked(status) == jd' = IF jd.there THEN [jd EXCEPT !.status = status] ELSE jd

MarkJd(s) ==
  /\ at[s] = "mark"
  /\ Marked("COMPLETED")
  /\ ThreadGoes(s, "finish")
  /\ UNCHANGED <<resume, job, results, client, copy, dead>>

\* The session names the result, which must still be there, and is ready.
FinishAnalysis(s) ==
  /\ at[s] = "finish" /\ s \in results
  /\ job' = [job EXCEPT ![s].status = "ready", ![s].result = TRUE]
  /\ ThreadGoes(s, "none")
  /\ UNCHANGED <<jd, resume, results, client, copy, dead>>

\* bug: an exception ends the thread
ToNothing == "none"

ToHandler == "except"

\* A model fails, a document or the result is gone, or the database is.
RaiseInThread(s) ==
  /\ at[s] \in {"analyse", "store", "mark", "finish"}
  /\ ThreadGoes(s, ToHandler)
  /\ UNCHANGED <<rowsVars, client, copy, dead>>

FailAnalysis(s) ==
  /\ at[s] = "except"
  /\ job' = [job EXCEPT ![s].status = "failed"]
  /\ ThreadGoes(s, "fail")
  /\ UNCHANGED <<jd, resume, results, client, copy, dead>>

FailJd(s) ==
  /\ at[s] = "fail"
  /\ Marked("FAILED")
  /\ ThreadGoes(s, "none")
  /\ UNCHANGED <<resume, job, results, client, copy, dead>>

\* The process ends, or the exception handler itself raises.
ThreadDies(s) ==
  /\ at[s] # "none" /\ Cardinality(dead) < MaxDying
  /\ dead' = dead \cup {s}
  /\ ThreadGoes(s, "none")
  /\ UNCHANGED <<rowsVars, client, copy>>

AnalysisThread(s) ==
  \/ Analyse(s) \/ StoreResult(s) \/ MarkJd(s) \/ FinishAnalysis(s) \/ RaiseInThread(s)
  \/ FailAnalysis(s) \/ FailJd(s)

DocumentNext ==
  \/ \E c \in Client : \/ StartAnalysis(c) \/ BeginPatch(c) \/ SavePatch(c)
                       \/ \E s \in AnalysisRun : CreateAnalysis(c, s)
  \/ DeleteJd \/ DeleteResume
  \/ \E s \in AnalysisRun : AnalysisThread(s) \/ ThreadDies(s)

\* Threads that live go on.
ThreadsGoOn == \A s \in AnalysisRun : WF_documentVars(AnalysisThread(s))

DocumentSpec == DocumentInit /\ [][DocumentNext]_documentVars /\ ThreadsGoOn

-----------------------------------------------------------------------------
(* Properties *)

\* A session that is shown as ready, and used again for the same documents, has a
\* result that is there, whatever was deleted or inserted again while its thread
\* ran (AnalysisMatchView and AnalysisStartView rely on it).
ReadyHasResult ==
  \A s \in AnalysisRun :
    job[s].status = "ready" /\ job[s].jd /\ job[s].resume
      => job[s].result /\ s \in results

\* A client that polls a session sees it ready or failed at last, unless the thread
\* has died: nothing takes such a session over (AnalysisStatusView).
AnalysisSettles ==
  \A s \in AnalysisRun :
    job[s].status = "analyzing" ~> job[s].status # "analyzing" \/ s \in dead
=============================================================================
