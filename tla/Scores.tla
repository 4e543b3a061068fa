-------------------------------- MODULE Scores --------------------------------
(***************************************************************************)
(* How one answer is scored and tagged once the models have replied        *)
(* (apps/evaluation: evaluation_services.py, tag_router.py,                *)
(* sbert_service.py, question_category.py), and the score of a session     *)
(* from those of its evaluated answers, weighted by the persona of the     *)
(* interviewer (apps/report/services/report_generator.py).                 *)
(*                                                                         *)
(* The scores of an answer are in hundredths of a point, where the program *)
(* keeps fractions; its text is the set of marks the rules look for.  The  *)
(* points of a session are counted in tenths, to which the program rounds  *)
(* its averages; a half is rounded up here and to the even digit there.    *)
(***************************************************************************)
EXTENDS Integers, FiniteSetsExt, SequencesExt, Lists

-----------------------------------------------------------------------------
(* One answer *)

CONSTANTS Samples,    \* the answers to score, with what the models say of them
          NotScored

ASSUME NotScoredAssumption == NotScored \notin Int

VARIABLES
  sample,   \* the answer
  scored,   \* its score
  strong,   \* the names of its strength tags
  weak      \* and of its weakness tags

scoreVars == <<sample, scored, strong, weak>>

-----------------------------------------------------------------------------
(* Scores *)

\* resolve_question_category: of the question, of the session, of its text.
Category(q) ==
  CASE q.explicit \in {"technical", "personality", "general"} -> q.explicit
    [] q.explicit \in {"job", "experience", "behavioral"} -> "general"
    [] OTHER ->
         IF q.session \in {"technical", "personality"} THEN q.session
         ELSE IF q.text \in {"technical", "personality"} THEN q.text
         ELSE IF q.source \in {"profile", "rule", "general"} THEN "personality"
         ELSE "technical"

Clamp(x, low, high) == IF x < low THEN low ELSE IF x > high THEN high ELSE x

\* The four elements of an answer's story, 0 to 25 each.
Element(a, e) == Clamp(a.star[e], 0, 25)
Elements == {"situation", "task", "action", "result"}

\* What is measured in an answer is counted; what a model says of it is any number.
SampleOK(a) ==
  /\ a = [question |-> a.question, short |-> a.short, star |-> a.star, cbi |-> a.cbi, level |-> a.level,
          grounding |-> a.grounding, fillers |-> a.fillers, pauses |-> a.pauses, words |-> a.words,
          tradeoffs |-> a.tradeoffs, similarity |-> a.similarity, named |-> a.named, marks |-> a.marks]
  /\ a.star \in [Elements -> Int] /\ {a.cbi, a.similarity} \subseteq Int
  /\ {a.fillers, a.pauses, a.words} \subseteq Nat

ASSUME SamplesAssumption == \A a \in Samples : SampleOK(a)

Bei(a) == Element(a, "situation") + Element(a, "task") + Element(a, "action") + Element(a, "result")

\* An answer shorter than MIN_ANSWER_CHARS_FOR_LLM is shown to no model.
Stub(a) ==
  [a EXCEPT !.star = [e \in Elements |-> 0], !.cbi = 0, !.level = 1, !.grounding = "inapplicable"]

\* Only technical answers are shown to the model that looks for figures; for the
\* others its reply is filled in, without a word on whether it applies.
Judged(a) ==
  IF a.short THEN Stub(a)
  ELSE IF Category(a.question) = "technical" THEN a
  ELSE [a EXCEPT !.grounding = "missing"]

\* bug: the classes of pauses are out of order
SwappedPenalty(p) == IF p <= 1 THEN 0 ELSE IF p <= 3 THEN 1200 ELSE IF p <= 6 THEN 500 ELSE 2200

\* PAUSE_SEVERITY_THRESHOLDS and PAUSE_SEVERITY_PENALTY
SeverityPenalty(p) == IF p <= 1 THEN 0 ELSE IF p <= 3 THEN 500 ELSE IF p <= 6 THEN 1200 ELSE 2200

\* The share of an answer that is silence, in 1/10000: three seconds a pause, a
\* third of a second a word, and a second of speech at least.
PauseRatio(p, words) == (90000 * p) \div (Max({words, 3}) + 9 * p)

\* _calculate_speech_score: at most 80 points, at least 20.
Speech(a) ==
  LET ratio == PauseRatio(a.pauses, a.words)
  IN Max({2000, 8000 - 500 * a.fillers - SeverityPenalty(a.pauses)
                  - (IF ratio > 3000 THEN (ratio - 3000) \div 2 ELSE 0)})

ToTenth(x) == ((x + 5) \div 10) * 10

\* _calculate_overall_score; halves are rounded up here, to the even digit there.
Overall(a) ==
  Min({10000, ToTenth(
    IF Category(a.question) = "technical"
    THEN Bei(a) * 40 + Clamp(a.cbi, 0, 100) * 40 + Speech(a) \div 5
           + (IF a.grounding = "grounded" THEN 1500 ELSE 0)
    ELSE Bei(a) * 50 + Clamp(a.cbi, 0, 100) * 30 + Speech(a) \div 5)})

\* compute_tech_depth_score, for technical answers that resemble their reference
\* at all; -100 to 100 is 100 times the cosine, 0 too when there is no model.
AnswerScore(a) ==
  IF Category(a.question) = "technical" /\ a.similarity > 0
  THEN Min({100, (a.similarity * 70 + (Overall(a) \div 100) * 30) \div 100})
  ELSE Overall(a) \div 100

-----------------------------------------------------------------------------
(* Tags: route_deterministic_tags *)

\* EXCESSIVE_FILLER_LIMIT
Excessive(a) == a.fillers > 6

\* At least a fifth of the nine words of TRADEOFF_DICTIONARY.
Weighs(a) == a.tradeoffs >= 2

\* Which weakness is found in an answer, by its name; the models name others.
WeakRule(a, score) ==
  LET technical == Category(a.question) = "technical" IN
  [weak_question_relevance |-> "weak_question_relevance" \in a.named,
   weak_specificity |-> Element(a, "action") < 15 \/ Element(a, "result") < 12,
   weak_technical_understanding |-> technical /\ score < 4000,
   weak_technical_reasoning |-> technical /\ ~Weighs(a),
   weak_personal_contribution |-> "weak_personal_contribution" \in a.named,
   weak_evidence |-> a.grounding = "missing",
   weak_jd_fit |-> "weak_jd_fit" \in a.named,
   weak_problem_solving_process |-> a.level <= 2,
   weak_result_impact |-> Element(a, "result") <= 12 /\ "impact" \notin a.marks,
   weak_answer_structure |->
     a.words >= 120 /\ \E e \in Elements \ {"result"} : Element(a, e) < 15,
   excessive_filler_words |-> Excessive(a),
   frequent_long_pauses |-> a.pauses >= 4,
   unbalanced_speech_pace |-> a.pauses >= 2 /\ Excessive(a)]

Found(rule) == {name \in DOMAIN rule : rule[name]}

Fluent(a) == a.pauses <= 1 /\ ~Excessive(a)

\* Which strength is found in an answer.  The last rule looks at the weaknesses
\* found so far, those the models name not among them.
StrongRule(a, score) ==
  LET technical == Category(a.question) = "technical" IN
  [sharp_problem_definition |-> a.level >= 4,
   data_driven_achievement |-> a.grounding = "grounded" /\ Element(a, "result") >= 20,
   deep_tech_insight |-> technical /\ score >= 9000,
   clear_ownership_leadership |-> "owner" \in a.marks /\ Element(a, "action") >= 20,
   top_down_delivery |-> "conclusionFirst" \in a.marks /\ Element(a, "situation") >= 22,
   well_balanced_tradeoff |-> technical /\ (Weighs(a) \/ Element(a, "action") >= 22),
   high_jd_alignment |-> "high_jd_alignment" \in a.named,
   agile_growth_mindset |-> "growth" \in a.marks /\ Element(a, "result") > 20,
   fluent_speech_delivery |-> Fluent(a),
   collaborative_problem_solver |->
     Category(a.question) \in {"personality", "job"} /\ "together" \in a.marks /\ a.level >= 3,
   rich_context_setting |-> Element(a, "situation") > 20 /\ "context" \in a.marks,
   elaborate_action_detail |-> Element(a, "action") > 20 /\ "detail" \in a.marks,
   macro_business_perspective |-> "business" \in a.marks /\ Element(a, "result") > 20,
   solid_answer_consistency |->
     /\ Found(WeakRule(a, score)) = {}
     /\ Element(a, "situation") > 20 /\ Element(a, "action") > 20]

-----------------------------------------------------------------------------

ScoreInit == sample \in Samples /\ scored = NotScored /\ strong = {} /\ weak = {}

\* run_pipeline and what create_evaluation_for_answer adds to it.
ScoreAnswer ==
  /\ scored = NotScored
  /\ LET a == Judged(sample)
     IN /\ scored' = AnswerScore(a)
        /\ strong' = Found(StrongRule(a, Overall(a)))
        /\ weak' = Found(WeakRule(a, Overall(a))) \cup a.named
  /\ UNCHANGED sample

ScoreSpec == ScoreInit /\ [][ScoreAnswer]_scoreVars

-----------------------------------------------------------------------------
(* Properties *)

\* The answers that are better than a in one respect.
Improved(a) ==
  {[a EXCEPT !.star[e] = @ + 1] : e \in Elements}
    \cup {[a EXCEPT !.cbi = @ + 20], [a EXCEPT !.grounding = "grounded"],
          [a EXCEPT !.words = @ + 1]}
    \cup (IF a.fillers > 0 THEN {[a EXCEPT !.fillers = @ - 1]} ELSE {})
    \cup (IF a.pauses > 0 THEN {[a EXCEPT !.pauses = @ - 1]} ELSE {})
    \cup (IF a.similarity > 0 THEN {[a EXCEPT !.similarity = @ + 1]} ELSE {})

\* An answer that is better in one respect and equal in the others never scores
\* less, across the classes of pauses, the floor, the bounds and the two formulas.
BetterNotWorse ==
  scored # NotScored => \A b \in Improved(sample) : AnswerScore(Judged(b)) >= scored

\* P0-6: the lack of figures is a weakness only where figures are asked for.
EvidenceWhereAsked ==
  scored # NotScored /\ "weak_evidence" \in weak => Category(sample.question) = "technical"

-----------------------------------------------------------------------------
(* The session *)

CONSTANTS Grades,     \* the evaluations an answer may have
          Persona,    \* the interviewers, unknown ones included
          MaxGraded,  \* bound: the answers of the session
          NoFigures   \* no technical answer was asked for figures

ASSUME NoFiguresAssumption == NoFigures \notin Int

\* An average is one of 100 points, and an element is clamped before it is stored.
ASSUME GradesAssumption ==
  \A g \in Grades :
    /\ g.star \in [Elements -> 0 .. 25] /\ {g.cbi, g.speech} \subseteq Nat
    /\ g.cbi <= 100 /\ g.speech <= 1000

VARIABLES persona, graded

reportScoreVars == <<persona, graded>>

\* An evaluation: its four elements, 0 to 25, and cbi, 0 to 100, in points, as they
\* are stored once they are clamped; speech, in tenths; grounding, "inapplicable" when no figures were asked
\* for and "absent" when the row has none; structured, the row has all its
\* elements; score, in points.

Rounded(x, y) == (2 * x + y) \div (2 * y)

Technical(s) == { i \in DOMAIN s : s[i].technical }

Applicable(s) == { i \in Technical(s) : s[i].grounding \in {"grounded", "missing"} }

Grounded(s) == { i \in Applicable(s) : s[i].grounding = "grounded" }

\* _compute_avg_scores
ElementAverage(s, e) == Rounded(10 * Total([i \in DOMAIN s |-> s[i].star[e]]), Len(s))
BeiAverage(s) ==
  ElementAverage(s, "situation") + ElementAverage(s, "task")
    + ElementAverage(s, "action") + ElementAverage(s, "result")
CbiAverage(s) == Rounded(10 * Total([i \in DOMAIN s |-> s[i].cbi]), Len(s))
SpeechAverage(s) == Rounded(Total([i \in DOMAIN s |-> s[i].speech]), Len(s))

\* The share of the technical answers that gave the figures they were asked for.
Grounding(s) ==
  IF Applicable(s) = {} THEN NoFigures
  ELSE Rounded(1000 * Cardinality(Grounded(s)), Cardinality(Applicable(s)))

\* PERSONA_CONFIG; an unknown persona is "practical".
Weights(p) ==
  CASE p = "coach" -> [bei |-> 40, cbi |-> 25, grounding |-> 15, speech |-> 20]
    [] p = "verifier" -> [bei |-> 35, cbi |-> 35, grounding |-> 20, speech |-> 10]
    [] OTHER -> [bei |-> 30, cbi |-> 25, grounding |-> 30, speech |-> 15]

\* The weights that count.
ActiveWeight(s, w) == IF Grounding(s) = NoFigures THEN 100 - w.grounding ELSE 100

\* _apply_persona_weights
Weighted(s, w) ==
  Min({1000,
       Rounded(BeiAverage(s) * w.bei + CbiAverage(s) * w.cbi + SpeechAverage(s) * w.speech
                 + (IF Grounding(s) = NoFigures THEN 0 ELSE Grounding(s) * w.grounding),
               ActiveWeight(s, w))})

\* A weighted score needs every metric of every answer.
HasInputs(s) ==
  /\ s # <<>>
  /\ \A i \in DOMAIN s : s[i].structured /\ (s[i].technical => s[i].grounding # "absent")

\* generate_final_report: overall_score, the plain mean where a metric is missing.
ReportScore(s, p) ==
  IF s = <<>> THEN 0
  ELSE IF HasInputs(s) THEN Weighted(s, Weights(p))
  ELSE 10 * Rounded(Total([i \in DOMAIN s |-> s[i].score]), Len(s))

ReportScoreInit == persona \in Persona /\ graded = <<>>

\* One more answer is evaluated, and the report is generated again.
GradeAnswer(g) ==
  /\ Len(graded) < MaxGraded
  /\ graded' = Append(graded, g)
  /\ UNCHANGED persona

ReportScoreNext == \E g \in Grades : GradeAnswer(g)

ReportScoreSpec == ReportScoreInit /\ [][ReportScoreNext]_reportScoreVars

-----------------------------------------------------------------------------
(* Properties *)

\* g is as good as every answer before it in every respect, and gives its figures
\* if it is asked for any.
NoWorse(g) ==
  /\ g.grounding # "missing"
  /\ \A i \in DOMAIN graded :
       /\ \A e \in Elements : g.star[e] >= graded[i].star[e]
       /\ g.cbi >= graded[i].cbi /\ g.speech >= graded[i].speech

\* An answer that is as good as the others in every respect never lowers the score,
\* although it may be the first to be asked for figures.
GoodAnswerStep ==
  HasInputs(graded) /\ HasInputs(graded') /\ NoWorse(Last(graded'))
    => ReportScore(graded', persona) >= ReportScore(graded, persona)

\* One answer better in a respect never scores less (evaluation_services.py:346), and a
\* good one among others never lowers the report (report_generator.py:110).
BetterIsNotWorse == [][BetterNotWorse' /\ GoodAnswerStep]_<<scoreVars, reportScoreVars>>
=============================================================================
