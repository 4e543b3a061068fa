--------------------------- MODULE AnswerEvaluation ---------------------------
(***************************************************************************)
(* apps/evaluation/services/session_evaluation.py: the evaluation of the   *)
(* answers of one session, by requests that evaluate one answer and by     *)
(* report threads that evaluate those that have no evaluation yet.         *)
(*                                                                         *)
(* The pipeline of models runs outside any transaction and may take        *)
(* seconds; its verdict is then stored in one: the evaluation, which the   *)
(* database keeps unique per answer, and the tags of the answer.  The      *)
(* observation of the A/B experiments follows outside of it.               *)
(***************************************************************************)
EXTENDS Naturals, Sequences, FiniteSets, SequencesExt

CONSTANTS Evaluator,    \* requests and report threads
          Answered,     \* the answers of the session
          Verdict,      \* what the pipeline may return of an answer: its tags, in order
          Unevaluated,  \* an answer without an evaluation
          MaxBegun      \* bound: evaluations begun

ASSUME VerdictAssumption == Unevaluated \notin Verdict
ASSUME BegunAssumption == MaxBegun \in Nat

VARIABLES
  answers,     \* the answers that are there
  evaluation,  \* their Evaluation rows, by the verdict they were made from
  tagRows,     \* AnswerStrengthTag and AnswerWeaknessTag rows, in their order
  observed,    \* ABTestResult rows: they keep the id of an answer, not a reference
  stage,       \* where an evaluator is
  scope,       \* the answers it was started for
  todo,        \* those it has still to look at
  current,     \* the answer it is at
  verdict,     \* what its pipeline has returned
  failed,      \* the answers it has counted as failed
  begun        \* evaluations begun so far

rowVars == <<answers, evaluation, tagRows, observed>>
evaluatorVars == <<stage, scope, todo, current, verdict, failed>>
evaluationVars == <<rowVars, evaluatorVars, begun>>

EvaluationInit ==
  /\ answers = Answered
  /\ evaluation = [a \in Answered |-> Unevaluated]
  /\ tagRows = [a \in Answered |-> <<>>]
  /\ observed = [a \in Answered |-> <<>>]
  /\ stage = [e \in Evaluator |-> "finished"]
  /\ scope = [e \in Evaluator |-> {}]
  /\ todo = [e \in Evaluator |-> {}]
  /\ current = [e \in Evaluator |-> CHOOSE a \in Answered : TRUE]
  /\ verdict = [e \in Evaluator |-> Unevaluated]
  /\ failed = [e \in Evaluator |-> {}]
  /\ begun = 0

EvaluatorGoes(e, s) == stage' = [stage EXCEPT ![e] = s]

Begins(e, S, T) ==
  /\ stage[e] = "finished" /\ begun < MaxBegun
  /\ begun' = begun + 1
  /\ EvaluatorGoes(e, "next")
  /\ scope' = [scope EXCEPT ![e] = S]
  /\ todo' = [todo EXCEPT ![e] = T]
  /\ failed' = [failed EXCEPT ![e] = {}]
  /\ UNCHANGED <<rowVars, current, verdict>>

\* POST /evaluations
EvaluateOne(e, a) == a \in answers /\ Begins(e, {a}, {a})

\* evaluate_session_answers: the answers that have an evaluation are skipped.
Backfill(e) == Begins(e, answers, {a \in answers : evaluation[a] = Unevaluated})

\* create_evaluation_for_answer begins: an evaluation that is there is returned.
TakeAnswer(e, a) ==
  /\ stage[e] = "next" /\ a \in todo[e]
  /\ current' = [current EXCEPT ![e] = a]
  /\ todo' = [todo EXCEPT ![e] = @ \ {a}]
  /\ IF evaluation[a] = Unevaluated THEN EvaluatorGoes(e, "pipeline") ELSE UNCHANGED stage
  /\ UNCHANGED <<rowVars, scope, verdict, failed, begun>>

Finish(e) ==
  /\ stage[e] = "next" /\ todo[e] = {}
  /\ EvaluatorGoes(e, "finished")
  /\ UNCHANGED <<rowVars, scope, todo, current, verdict, failed, begun>>

\* An exception is counted and kept to its answer.
Isolated(e) ==
  /\ EvaluatorGoes(e, "next")
  /\ failed' = [failed EXCEPT ![e] = @ \cup {current[e]}]

\* The models may return any verdict, another at each call, or fail.
RunPipeline(e) ==
  /\ stage[e] = "pipeline"
  /\ \/ \E v \in Verdict : /\ verdict' = [verdict EXCEPT ![e] = v]
                           /\ EvaluatorGoes(e, "store")
                           /\ UNCHANGED failed
     \/ Isolated(e) /\ UNCHANGED verdict
  /\ UNCHANGED <<rowVars, scope, todo, current, begun>>

\* bug: no transaction, what was written before the failure stays
KeptInPart(e) ==
  /\ evaluation' = [evaluation EXCEPT ![current[e]] = verdict[e]]
  /\ tagRows' = [tagRows EXCEPT ![current[e]] = Front(verdict[e])]

\* A tag that cannot be written rolls the evaluation back with it.
RolledBack(e) == UNCHANGED <<evaluation, tagRows>>

\* IntegrityError: the evaluation that came first is returned.
ReturnsExisting(e) == EvaluatorGoes(e, "next") /\ UNCHANGED failed

\* The transaction: the evaluation, then _persist_pipeline_tags.  An insert waits
\* for that of another evaluator to commit and then fails; so does an insert for
\* an answer that is gone, for which there is nothing to return.
StoreEvaluation(e) ==
  /\ stage[e] = "store"
  /\ \/ /\ current[e] \in answers /\ evaluation[current[e]] = Unevaluated
        /\ \/ /\ evaluation' = [evaluation EXCEPT ![current[e]] = verdict[e]]
              /\ tagRows' = [tagRows EXCEPT ![current[e]] = verdict[e]]
              /\ EvaluatorGoes(e, "record") /\ UNCHANGED failed
           \/ verdict[e] # <<>> /\ RolledBack(e) /\ Isolated(e)
     \/ /\ current[e] \in answers /\ evaluation[current[e]] # Unevaluated
        /\ ReturnsExisting(e) /\ UNCHANGED <<evaluation, tagRows>>
     \/ /\ current[e] \notin answers
        /\ Isolated(e) /\ UNCHANGED <<evaluation, tagRows>>
  /\ UNCHANGED <<answers, observed, scope, todo, current, verdict, begun>>

\* _try_record_ab_results: its failure is logged and goes no further.
Observe(e) ==
  /\ stage[e] = "record"
  /\ \/ observed' = [observed EXCEPT ![current[e]] = Append(@, verdict[e])]
     \/ UNCHANGED observed
  /\ EvaluatorGoes(e, "next")
  /\ UNCHANGED <<answers, evaluation, tagRows, scope, todo, current, verdict, failed, begun>>

\* The process dies, between the evaluation and its observation too.
EvaluatorDies(e) ==
  /\ stage[e] # "finished"
  /\ EvaluatorGoes(e, "finished")
  /\ scope' = [scope EXCEPT ![e] = {}]
  /\ UNCHANGED <<rowVars, todo, current, verdict, failed, begun>>

\* force_regenerate deletes the questions of the session, and their answers, the
\* evaluations and the tags go with them.
DeleteAnswers ==
  /\ answers # {}
  /\ answers' = {}
  /\ evaluation' = [a \in Answered |-> Unevaluated]
  /\ tagRows' = [a \in Answered |-> <<>>]
  /\ UNCHANGED <<observed, evaluatorVars, begun>>

EvaluationNext ==
  \/ \E e \in Evaluator :
       \/ \E a \in Answered : EvaluateOne(e, a) \/ TakeAnswer(e, a)
       \/ Backfill(e) \/ Finish(e) \/ RunPipeline(e) \/ StoreEvaluation(e) \/ Observe(e)
       \/ EvaluatorDies(e)
  \/ DeleteAnswers

EvaluationSpec == EvaluationInit /\ [][EvaluationNext]_evaluationVars

-----------------------------------------------------------------------------
(* Properties *)

TagsOfEvaluation(a) == tagRows[a] = IF evaluation[a] = Unevaluated THEN <<>> ELSE evaluation[a]

ObservedOnce(a) ==
  /\ Len(observed[a]) <= 1
  /\ a \in answers /\ observed[a] # <<>> => observed[a] = <<evaluation[a]>>

\* One verdict rules an answer, whatever overlaps, fails half-way or is deleted
\* (create_evaluation_for_answer): its tags are those of the verdict its evaluation
\* was made from, all of them and in their order, and an experiment observes it at
\* most once, by that verdict.
OneVerdict == \A a \in Answered : TagsOfEvaluation(a) /\ ObservedOnce(a)

\* A backfill that has finished leaves no answer without an evaluation but those
\* it has counted as failed and those that were deleted meanwhile
\* (evaluate_session_answers).
EveryAnswerTried ==
  \A e \in Evaluator : stage[e] = "finished" =>
    \A a \in (scope[e] \cap answers) \ failed[e] : evaluation[a] # Unevaluated

\* Every answer of a session gets its verdict, and no answer two.
AnswersJudged == OneVerdict /\ EveryAnswerTried
=============================================================================
