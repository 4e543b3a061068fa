------------------------------ MODULE MCReports ------------------------------
(***************************************************************************)
(* Instances of the report modules for TLC.  They share no variable, so    *)
(* one run takes them one after the other: a behaviour is one of the jobs  *)
(* that generate a report, of the cache of recommendations, of the         *)
(* evaluation of the answers, of the models it asks, of the score of an    *)
(* answer, or of that of a session.  No symmetry: the run checks a         *)
(* liveness property.                                                      *)
(***************************************************************************)
EXTENDS ReportJobs, RecommendationCache, AnswerEvaluation, Scores,
        EvaluationPipeline

VARIABLE part

CONSTANTS Plain, j1, k1

\* Outside its own part a sample is not varied.
MCInit ==
  /\ part \in {"jobs", "cache", "evaluation", "answerScore", "reportScore", "pipeline"}
  /\ Init /\ RecoInit /\ EvaluationInit
  /\ PipelineInit /\ (mock => part = "pipeline")
  /\ IF part = "answerScore" THEN ScoreInit
     ELSE sample = Plain /\ scored = NotScored /\ strong = {} /\ weak = {}
  /\ IF part = "reportScore" THEN ReportScoreInit
     ELSE persona = Plain /\ graded = <<>>

MCNext ==
  \/ /\ part = "jobs" /\ Next
     /\ UNCHANGED <<part, recoVars, evaluationVars, scoreVars, reportScoreVars, pipelineVars>>
  \/ /\ part = "cache" /\ RecoNext
     /\ UNCHANGED <<part, vars, evaluationVars, scoreVars, reportScoreVars, pipelineVars>>
  \/ /\ part = "evaluation" /\ EvaluationNext
     /\ UNCHANGED <<part, vars, recoVars, scoreVars, reportScoreVars, pipelineVars>>
  \/ /\ part = "answerScore" /\ ScoreAnswer
     /\ UNCHANGED <<part, vars, recoVars, evaluationVars, reportScoreVars, pipelineVars>>
  \/ /\ part = "reportScore" /\ ReportScoreNext
     /\ UNCHANGED <<part, vars, recoVars, evaluationVars, scoreVars, pipelineVars>>
  \/ /\ part = "pipeline" /\ PipelineNext
     /\ UNCHANGED <<part, vars, recoVars, evaluationVars, scoreVars, reportScoreVars>>

MCSpec ==
  /\ MCInit
  /\ [][MCNext]_<<part, vars, recoVars, evaluationVars, scoreVars, reportScoreVars,
               pipelineVars>>
  /\ Fairness

-----------------------------------------------------------------------------
(* What the models find in an answer, and what they say of it *)

MCVerdicts == {<<j1>>, <<k1, j1>>}

Technically ==
  [explicit |-> "technical", session |-> "comprehensive", text |-> "neither", source |-> "jd"]

\* A good answer, which the samples vary.
GoodAnswer ==
  [question |-> Technically, short |-> FALSE,
   star |-> [e \in Elements |-> 21], cbi |-> 80, level |-> 4, grounding |-> "grounded",
   fillers |-> 0, pauses |-> 0, words |-> 60, tradeoffs |-> 2, similarity |-> 0,
   named |-> {}, marks |-> {"impact", "owner", "growth", "business"}]

Star(s, t, a, r) == [situation |-> s, task |-> t, action |-> a, result |-> r]

Stories ==
  { Star(s, 15, a, r) : s \in {-1, 14, 21, 30}, a \in {14, 15, 20, 22}, r \in {11, 12, 20, 25} }

Questions ==
  [explicit : {"none", "personality", "technical", "job"},
   session : {"technical", "personality", "comprehensive"},
   text : {"technical", "personality", "neither"}, source : {"rule", "jd"}]

MCSamples ==
  { [GoodAnswer EXCEPT !.question = q, !.short = b, !.similarity = x]
      : q \in Questions, b \in BOOLEAN, x \in {-20, 0, 1, 60, 100} }
  \cup
  { [GoodAnswer EXCEPT !.star = s, !.grounding = g, !.level = l, !.cbi = 20 * l, !.words = w]
      : s \in Stories, g \in {"grounded", "missing", "inapplicable"}, l \in {1, 3, 4, 6},
        w \in {60, 120} }
  \cup
  { [GoodAnswer EXCEPT !.fillers = f, !.pauses = p, !.words = w, !.similarity = x, !.named = n,
                       !.tradeoffs = k]
      : f \in {0, 5, 6, 7, 20}, p \in 0 .. 8, w \in {0, 5, 60}, x \in {0, 50}, k \in {1, 2},
        n \in {{}, {"weak_jd_fit", "high_jd_alignment"}} }

\* Nothing, something and all of the four elements, unevenly.
MCStars ==
  { [e \in Elements |-> 0], [e \in Elements |-> 25],
    [situation |-> 20, task |-> 15, action |-> 10, result |-> 16] }

\* What a session's answers are given.
MCGrades ==
  [star : MCStars, cbi : {20, 80}, speech : {200, 800}, technical : {TRUE},
   grounding : {"grounded", "missing", "inapplicable"}, structured : {TRUE}, score : {55}]
  \cup
  [star : MCStars, cbi : {20, 80}, speech : {200, 800}, technical : {FALSE},
   grounding : {"missing"}, structured : {TRUE}, score : {55}]
  \cup
  [star : {[e \in Elements |-> 25]}, cbi : {80}, speech : {800}, technical : {TRUE}, grounding : {"absent", "missing"},
   structured : BOOLEAN, score : {55}]

=============================================================================
