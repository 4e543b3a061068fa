-------------------------- MODULE EvaluationPipeline --------------------------
(***************************************************************************)
(* How one process evaluates the answers of one user, one after the other, *)
(* from the models to the observation of an A/B experiment                 *)
(* (session_evaluation.py, create_evaluation_for_answer): the sufficiency  *)
(* chain, up to three engines in threads of their own                      *)
(* (evaluation_chains.py), and the embedding model (sbert_service.py).     *)
(* Each may fail in its own way.  In mock mode the engines are asked too,  *)
(* but a reply is filled in for one that fails.                            *)
(***************************************************************************)
EXTENDS Naturals, Sequences, FiniteSets

CONSTANTS MaxRetries,       \* EVAL_LLM_MAX_RETRIES
          MaxEvaluations,   \* bound: answers
          MaxTrialChanges,  \* bound: changes of the experiment
          Unassigned

ASSUME PipelineAssumption == {MaxRetries, MaxEvaluations, MaxTrialChanges} \subseteq Nat
ASSUME UnassignedAssumption == Unassigned \notin {"control", "treatment"}

\* In the order in which their results are taken.
Engines == <<"grounding", "competency", "emotion">>
EngineNames == { Engines[i] : i \in DOMAIN Engines }

VARIABLES
  mock,       \* OPENAI_USE_MOCK
  at,         \* where the evaluation is, and how it has ended
  judgedAnswer, \* [technical, short, given]
  engine,     \* per engine: [state, calls]
  parts,      \* what else was found out: [tags, similarity]
  model,      \* the embedding model of the process
  trial,      \* the experiment: [active, share]
  variant,    \* the user's assignment
  trialRows,  \* observations, by variant
  scoredCount, trialChanges

pipelineVars == <<mock, at, judgedAnswer, engine, parts, model, trial, variant, trialRows, scoredCount, trialChanges>>
resultVars == <<mock, judgedAnswer, model, trial, variant, trialRows, scoredCount, trialChanges>>

Ended == {"idle", "scored", "format", "error"}
Off == [state |-> "off", calls |-> 0]
NoParts == [tags |-> "none", similarity |-> "none"]

PipelineInit ==
  /\ mock \in BOOLEAN
  /\ at = "idle" /\ judgedAnswer = [technical |-> FALSE, short |-> TRUE, given |-> FALSE]
  /\ engine = [e \in EngineNames |-> Off] /\ parts = NoParts /\ model = "unloaded"
  /\ trial = [active |-> TRUE, share |-> "none"] /\ variant = Unassigned
  /\ trialRows = <<>> /\ scoredCount = 0 /\ trialChanges = 0

\* _call_llm_chains: no engine for a short answer, and no grounding for one that is not technical.
Needed(a) ==
  IF a.short THEN {} ELSE EngineNames \ (IF a.technical THEN {} ELSE {"grounding"})

\* resolve_answer_sufficiency: what the turns have judged, else the sufficiency chain's tags;
\* nothing in mock mode or when that chain fails.
Sufficiency(a) == IF a.given THEN {"given"} ELSE IF mock THEN {"none"} ELSE {"judged", "none"}

BeginEvaluation(a) ==
  /\ at \in Ended /\ scoredCount < MaxEvaluations
  /\ at' = "engines" /\ judgedAnswer' = a
  /\ \E t \in Sufficiency(a) : parts' = [NoParts EXCEPT !.tags = t]
  /\ engine' = [e \in EngineNames |-> IF e \in Needed(a) THEN [state |-> "asking", calls |-> 0] ELSE Off]
  /\ UNCHANGED <<mock, model, trial, variant, trialRows, scoredCount, trialChanges>>

\* bug: a failed engine is filled in for in production too
FilledAlways(failure) == "filled"

\* _competency_fallback and the others: only in mock mode, else the exception goes on.
FilledIn(failure) == IF mock THEN "filled" ELSE failure

\* _chat_json: a reply that is no JSON, or lacks its keys, is asked for anew; whatever else
\* fails is not: the network, or JSON that is no object.
Reply(e, r) ==
  LET calls == engine[e].calls + 1
      state == CASE r = "broken" -> IF calls <= MaxRetries THEN "asking" ELSE FilledIn("format")
                 [] r = "down" -> FilledIn("error")
                 [] OTHER -> r
  IN  /\ at = "engines" /\ engine[e].state = "asking"
      /\ engine' = [engine EXCEPT ![e] = [state |-> state, calls |-> calls]]
      /\ UNCHANGED <<at, parts, resultVars>>

Failures == { i \in DOMAIN Engines : engine[Engines[i]].state \in {"format", "error"} }

\* The pool ends when all threads have, and the first engine that failed decides what is
\* raised.  Scores that are no objects fail where they are added up.
JoinEngines ==
  /\ at = "engines" /\ \A e \in EngineNames : engine[e].state # "asking"
  /\ at' = IF Failures # {} THEN engine[Engines[CHOOSE i \in Failures : \A j \in Failures : i <= j]].state
           ELSE IF engine["competency"].state = "misshapen" THEN "error"
           ELSE IF judgedAnswer.technical THEN "depth" ELSE "store"
  /\ UNCHANGED <<engine, parts, resultVars>>

\* _get_sbert_model: loaded once, and so is its absence.
LoadModel ==
  /\ at = "depth" /\ model = "unloaded"
  /\ model' \in {"loaded", "missing"}
  /\ UNCHANGED <<mock, at, judgedAnswer, engine, parts, trial, variant, trialRows, scoredCount, trialChanges>>

\* get_reference_texts_for_answer, compute_sbert_similarities: no references, or an error,
\* leave the score as it is.
CompareTexts ==
  /\ at = "depth" /\ model # "unloaded"
  /\ \E s \in {"none"} \cup (IF model = "loaded" THEN {"compared"} ELSE {}) :
       parts' = [parts EXCEPT !.similarity = s]
  /\ at' = "store"
  /\ UNCHANGED <<engine, resultVars>>

\* A failure of the insert is AnswerEvaluation's.
StoreScore ==
  /\ at = "store"
  /\ at' = "observe" /\ scoredCount' = scoredCount + 1
  /\ UNCHANGED <<mock, judgedAnswer, engine, parts, model, trial, variant, trialRows, trialChanges>>

\* bug: the assignment follows the share of the day
VariantAnew(v) == IF trial.share = "all" THEN "treatment" ELSE "control"

\* get_or_create_assignment_for: assigned once, by the share at that time.
VariantKept(v) ==
  IF v # Unassigned THEN v ELSE IF trial.share = "all" THEN "treatment" ELSE "control"

\* _try_record_ab_results: an exception is swallowed; the assignment may be left behind.
ObserveTrial ==
  /\ at = "observe"
  /\ at' = "scored"
  /\ IF trial.active
     THEN \/ variant' = VariantKept(variant) /\ trialRows' = Append(trialRows, VariantKept(variant))
          \/ variant' \in {variant, VariantKept(variant)} /\ UNCHANGED trialRows
     ELSE UNCHANGED <<variant, trialRows>>
  /\ UNCHANGED <<mock, judgedAnswer, engine, parts, model, trial, scoredCount, trialChanges>>

\* Experiments are kept by hand in the database.  A change matters when it is read, so it
\* happens right before.
ChangeTrial ==
  /\ at = "observe" /\ trialChanges < MaxTrialChanges /\ trialChanges' = trialChanges + 1
  /\ trial' \in [active : BOOLEAN, share : {"none", "all"}] \ {trial}
  /\ UNCHANGED <<mock, at, judgedAnswer, engine, parts, model, variant, trialRows, scoredCount>>

Restart ==
  /\ at # "idle" /\ at' = "idle" /\ model' = "unloaded"
  /\ engine' = [e \in EngineNames |-> Off]
  /\ UNCHANGED <<mock, judgedAnswer, parts, trial, variant, trialRows, scoredCount, trialChanges>>

PipelineNext ==
  \/ \E a \in [technical : BOOLEAN, short : BOOLEAN, given : BOOLEAN] : BeginEvaluation(a)
  \/ \E e \in EngineNames, r \in {"good", "broken", "down"} : Reply(e, r)
  \/ Reply("competency", "misshapen")
  \/ JoinEngines \/ LoadModel \/ CompareTexts \/ StoreScore \/ ObserveTrial
  \/ ChangeTrial \/ Restart

PipelineSpec == PipelineInit /\ [][PipelineNext]_pipelineVars

-----------------------------------------------------------------------------
(* Properties *)

\* A score rests on a reply of every engine its answer is shown to, and outside mock mode on
\* no reply that was filled in; what is optional has stopped nothing.
Earned ==
  at \in {"store", "observe", "scored"} =>
    /\ \A e \in EngineNames :
         engine[e].state \in IF e \notin Needed(judgedAnswer) THEN {"off"}
                             ELSE IF mock THEN {"good", "filled"} ELSE {"good"}
    /\ parts.similarity = "compared" => judgedAnswer.technical /\ model = "loaded"

\* The user is told to try again only after the same was tried here, and nothing goes on
\* when the request has ended.
FailedFairly ==
  /\ at = "format" => ~mock /\ \E e \in EngineNames : engine[e].calls = MaxRetries + 1
  /\ at \in Ended => \A e \in EngineNames : engine[e].state # "asking"

\* Experiments compare like with like: a user is observed under one variant whatever
\* happens to the experiment, and no evaluation is observed twice.
OneVariant ==
  /\ \A i \in DOMAIN trialRows : trialRows[i] = variant
  /\ Len(trialRows) <= scoredCount

\* An evaluation is as good as its parts, whichever of them fail, and whatever was done
\* before with the experiment (evaluation_chains.py:54, ab_test_service.py:34).
ScoresAreEarned == Earned /\ FailedFairly /\ OneVariant
=============================================================================
