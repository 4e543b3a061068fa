--------------------------- MODULE QuestionSelection ---------------------------
(***************************************************************************)
(* generate_interview_questions (services/question_generator.py): from     *)
(* which sources the main questions of a session are taken.                *)
(*                                                                         *)
(* The language model is asked first when the session has any document,    *)
(* and after the stored questions when it has none; prepared questions of  *)
(* the analysis, the question bank and fixed templates fill up.  Every     *)
(* source returns as many as it has: too few, blanks, repetitions, or what *)
(* another source returned before.                                         *)
(*                                                                         *)
(* A text stands for its key (stripped and case-folded).  Difficulty,      *)
(* keywords and source tags ride along and decide nothing (QuestionTags); the category of *)
(* a question is overwritten by the plan.                                  *)
(***************************************************************************)
EXTENDS Lists

CONSTANTS Text,        \* texts of stored and generated questions
          Blank,       \* a text of white space
          MaxCount,    \* bound: questions asked for
          MaxReply,    \* bound: questions in a reply of the model
          Sessions,    \* the sessions and stored questions to start from
          NoAnalysis

InterviewType == {"technical", "personality", "comprehensive"}

\* The i-th template: three texts, then the same three with a remark on another
\* perspective, and so on, so that no two are the same.
RuleText(i) == <<"rule", i>>

\* A question that is stored, in an analysis or in the bank.
Kinds == {"technical", "personality", "experience", "talent", "job"}
StoredQuestion == [text : Text \cup {Blank}, type : Kinds]

AnalysisOK(a) ==
  {a.readme, a.letter} \subseteq BOOLEAN /\ a.at \in Nat /\ a.questions \in Seq(StoredQuestion)

\* What a session brings: its documents, the analyses of its user, each with
\* the documents it is about, its age and the questions prepared in it, and the
\* rows of the question bank by rank.
SessionOK(s) ==
  /\ {s.jd, s.resume, s.letter, s.projects, s.test} \subseteq BOOLEAN
  /\ s.type \in InterviewType /\ s.count \in 1 .. MaxCount
  /\ IsFiniteSet(s.analyses) /\ \A a \in s.analyses : AnalysisOK(a)
  /\ s.requested = NoAnalysis \/ AnalysisOK(s.requested)
  /\ s.bank \in Seq(StoredQuestion)

ASSUME SessionsAssumption == MaxCount \in Nat /\ \A s \in Sessions : SessionOK(s)

\* No template is blank.
ASSUME TemplatesAssumption == \A i \in 1 .. MaxCount : RuleText(i) # Blank

VARIABLES
  source,     \* the session
  stage,      \* which source is asked next
  selected    \* the questions taken so far: [text, by, category, ix]

selectionVars == <<source, stage, selected>>

Texts(qs) == { qs[i].text : i \in DOMAIN qs }
From(texts, by) == [ i \in DOMAIN texts |-> [text |-> texts[i], by |-> by, category |-> "general", ix |-> 0] ]
TextsOf(qs) == [ i \in DOMAIN qs |-> qs[i].text ]

\* The candidates that are not blank, not excluded and not among those before them.
Fresh(candidates, excluded) ==
  { i \in DOMAIN candidates :
      /\ candidates[i].text \notin excluded \cup {Blank}
      /\ \A j \in 1 .. i - 1 : candidates[j].text # candidates[i].text }

\* bug: texts that are there already are recognised among the candidates only
AppendForgetful(target, candidates, limit, excluded) ==
  target \o Cut(Where(candidates, Fresh(candidates, {})), limit - Len(target))

\* _append_unique_questions
AppendUnique(target, candidates, limit, excluded) ==
  target \o Cut(Where(candidates, Fresh(candidates, excluded)), limit - Len(target))

-----------------------------------------------------------------------------
(* Documents and analyses *)

Newest(analyses) == CHOOSE a \in analyses : \A b \in analyses : b.at <= a.at

\* _get_latest_jd_analysis: the one the request named, else the newest of the
\* same documents; one of the same cover letter is preferred, not required.
LatestAnalysis(s) ==
  IF s.requested # NoAnalysis THEN s.requested
  ELSE IF ~s.jd \/ ~s.resume \/ s.analyses = {} THEN NoAnalysis
  ELSE LET same == { a \in s.analyses : a.letter }
       IN Newest(IF s.letter /\ same # {} THEN same ELSE s.analyses)

\* _is_prepared_question_allowed_for_interview_type, over the category that the
\* aliases of prepared questions give a type.
PreparedCategory(type) == IF type \in {"experience", "talent"} THEN "personality" ELSE type
Allowed(q, type) == type = "comprehensive" \/ PreparedCategory(q.type) = type

PreparedOf(s) ==
  IF LatestAnalysis(s) = NoAnalysis THEN <<>>
  ELSE LET prepared == LatestAnalysis(s).questions
       IN  Where(prepared, { i \in DOMAIN prepared : Allowed(prepared[i], s.type) })

\* _build_ai_input_sources
InputSources(s) ==
     (IF s.jd THEN {"job_description"} ELSE {})
  \cup (IF s.resume THEN {"resume"} ELSE {})
  \cup (IF s.letter THEN {"cover_letter"} ELSE {})
  \cup (IF s.projects THEN {"project_experiences"} ELSE {})
  \cup (IF LatestAnalysis(s) = NoAnalysis THEN {}
        ELSE {"jd_analysis"} \cup (IF LatestAnalysis(s).readme THEN {"github_readme_context"} ELSE {}))
  \cup (IF PreparedOf(s) # <<>> THEN {"prepared_questions"} ELSE {})

-----------------------------------------------------------------------------
(* The sources *)

SelectionInit ==
  /\ source \in Sessions
  /\ stage = IF InputSources(source) # {} THEN "askFirst" ELSE "prepared"
  /\ selected = <<>>

Missing == source.count - Len(selected)

\* The stage after s, for a session that has documents and one that has none.
After(s) ==
  CASE s = "askFirst" -> "prepared"
    [] s = "prepared" -> "bank"
    [] s = "bank" -> IF InputSources(source) = {} THEN "askLast" ELSE "rules"
    [] s = "askLast" -> "rules"
    [] s = "rules" -> "number"

\* A stage is passed over when nothing is missing.
Skip ==
  /\ stage \in {"prepared", "bank", "askLast", "rules"} /\ Missing = 0
  /\ stage' = After(stage)
  /\ UNCHANGED <<source, selected>>

Take(candidates, excluded) ==
  /\ selected' = AppendUnique(selected, candidates, source.count, excluded)
  /\ stage' = After(stage)
  /\ UNCHANGED source

\* What the engine and _convert_ai_questions make of a reply: those past the
\* number asked for are cut off, then blanks and repetitions dropped; a reply in
\* which the engine finds no question raises AIChainOpenAIError.
Converted(reply, count, excluded) ==
  AppendUnique(<<>>, Cut(From(reply, "ai"), count), count, excluded)
Unusable(reply, count) == \A i \in DOMAIN Cut(reply, count) : reply[i] = Blank

Reply == UNION { [1 .. n -> Text \cup {Blank}] : n \in 0 .. MaxReply }

AtAsk == stage = "askFirst" \/ (stage = "askLast" /\ Missing > 0)

\* _ai_chain_questions.  The first call names no question to exclude.
AskModel(reply) ==
  /\ AtAsk /\ ~Unusable(reply, Missing)
  /\ Take(Converted(reply, Missing, Texts(selected)), Texts(selected))

\* An administrator's test of a prompt fails with its model; any other
\* generation goes on without it.
ModelFails ==
  /\ AtAsk
  /\ stage' = IF source.test THEN "raised" ELSE After(stage)
  /\ UNCHANGED <<source, selected>>

\* _prepared_questions
Prepared(s, count, excluded) ==
  AppendUnique(<<>>, From(TextsOf(PreparedOf(s)), "prepared"), count, excluded)

TakePrepared ==
  /\ stage = "prepared" /\ Missing > 0
  /\ Take(Prepared(source, Missing, Texts(selected)), Texts(selected))

BankTypes(type) == IF type = "comprehensive" THEN {"technical", "personality", "job"} ELSE {type}

\* get_question_candidates: the best ranked rows of the admitted types, as many
\* as are missing, whether they are taken already or not.
Candidates(s, count) ==
  Cut(Where(s.bank, { i \in DOMAIN s.bank : s.bank[i].type \in BankTypes(s.type) }), count)

\* select_questions_for_session: nothing without a job description; repetitions
\* and blanks are dropped.
FromBank(s, count) ==
  IF ~s.jd THEN <<>>
  ELSE AppendUnique(<<>>, From(TextsOf(Candidates(s, count)), "bank"), count, {})

TakeBank ==
  /\ stage = "bank" /\ Missing > 0
  /\ Take(AppendUnique(<<>>, FromBank(source, Missing), Missing, Texts(selected)), Texts(selected))

\* _rule_based_questions: templates that are not excluded, until there are enough.
Rules(count, excluded) ==
  LET tries == [ i \in 1 .. count + Cardinality(excluded) |-> RuleText(i) ]
  IN  AppendUnique(<<>>, From(tries, "rule"), count, excluded)

TakeRules ==
  /\ stage = "rules" /\ Missing > 0
  /\ Take(Rules(Missing, Texts(selected)), Texts(selected))

\* _question_category_plan: round(0.6 n) technical ones, never all or none of
\* two or more.
TechnicalCount(count) ==
  LET n == (6 * count + 5) \div 10
  IN IF count <= 1 THEN n ELSE IF n < 1 THEN 1 ELSE IF n > count - 1 THEN count - 1 ELSE n

CategoryPlan(type, count) ==
  [ i \in 1 .. count |-> IF type # "comprehensive" THEN type
                         ELSE IF i <= TechnicalCount(count) THEN "technical" ELSE "personality" ]

\* _apply_question_category_plan, and the numbers that are stored as order_index.
Number ==
  /\ stage = "number"
  /\ selected' = [ i \in DOMAIN selected |->
                     [selected[i] EXCEPT !.ix = i,
                        !.category = CategoryPlan(source.type, source.count)[i]] ]
  /\ stage' = "done"
  /\ UNCHANGED source

SelectionNext ==
  \/ Skip \/ (\E reply \in Reply : AskModel(reply)) \/ ModelFails
  \/ TakePrepared \/ TakeBank \/ TakeRules \/ Number

SelectionSpec == SelectionInit /\ [][SelectionNext]_selectionVars

-----------------------------------------------------------------------------
(* Properties *)

\* Whatever the sources return, repeat or fail to return, a generation that does
\* not raise ends with exactly the questions asked for, no two alike and none
\* blank: the caller numbers its rows by them.  A template is among them only when
\* every prepared question that the interview type allows has been taken.
QuestionsComplete ==
  stage = "done" =>
    /\ Len(selected) = source.count
    /\ Cardinality(Texts(selected)) = source.count /\ Blank \notin Texts(selected)
    /\ source.type = "comprehensive" /\ source.count > 1
         => { selected[i].category : i \in DOMAIN selected } = {"technical", "personality"}
    /\ (\E i \in DOMAIN selected : selected[i].by = "rule")
         => Texts(PreparedOf(source)) \ {Blank} \subseteq Texts(selected)
=============================================================================
