----------------------------- MODULE WeaknessNames -----------------------------
(***************************************************************************)
(* The names a weakness goes by: the triggers of the judgement             *)
(* (ai_chain_openai_engine.py), the tags they are stored as, and what a    *)
(* follow-up about a tag is for (follow_up_generator.py).  Three tables in *)
(* two files, which the judgement, the rows and the follow-up go by.       *)
(***************************************************************************)

\* FOLLOWUP_TRIGGER_DEFINITIONS
Trigger == {"TOO_SHORT", "ABSTRACT_ANSWER", "MISSING_REASON", "UNCLEAR_ROLE", "NO_RESULT",
            "TECH_DEPTH_LOW", "WEAK_JD_LINK", "STAR_MISSING", "NO_ALTERNATIVE", "OFF_TOPIC"}
HighSeverity == {"OFF_TOPIC", "TECH_DEPTH_LOW", "MISSING_REASON", "UNCLEAR_ROLE", "NO_RESULT",
                 "WEAK_JD_LINK"}

\* The tag a trigger is stored as.
TriggerAliases ==
  [TOO_SHORT |-> "weak_specificity", ABSTRACT_ANSWER |-> "weak_specificity",
   MISSING_REASON |-> "weak_technical_reasoning", NO_ALTERNATIVE |-> "weak_technical_reasoning",
   UNCLEAR_ROLE |-> "weak_personal_contribution", NO_RESULT |-> "weak_result_impact",
   TECH_DEPTH_LOW |-> "weak_technical_understanding", WEAK_JD_LINK |-> "weak_jd_fit",
   STAR_MISSING |-> "weak_answer_structure", OFF_TOPIC |-> "weak_question_relevance"]

\* _normalize_weakness_tag_name keeps a name it does not know.
TagOf(name) == IF name \in DOMAIN TriggerAliases THEN TriggerAliases[name] ELSE name

\* What a follow-up is for, by what its tag is called (technical_purposes, whose names
\* are compared in capitals).
TechnicalPurposes ==
  [TECH_DEPTH_LOW |-> "technical_understanding", weak_technical_understanding |-> "technical_understanding",
   MISSING_REASON |-> "technology_choice_reasoning", weak_technical_reasoning |-> "technology_choice_reasoning",
   NO_ALTERNATIVE |-> "alternative_and_tradeoff_comparison",
   WEAK_JD_LINK |-> "job_requirement_alignment", weak_jd_fit |-> "job_requirement_alignment"]

PurposeOf(tag) == IF tag \in DOMAIN TechnicalPurposes THEN TechnicalPurposes[tag] ELSE "answer_clarification"
=============================================================================
