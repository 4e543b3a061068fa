---------------------------- MODULE FollowupQuestion ----------------------------
(***************************************************************************)
(* From the judgement of an answer to the follow-up question stored for    *)
(* it, in one request (FollowupGenerator.create_followup): the judgement   *)
(* of either engine, the guardrail that compares what the answer claims    *)
(* with the documents of the session, the purpose the second model is      *)
(* told, and its reply.  The engine has no documents and the guardrail no  *)
(* judgement but the selected weakness: what an answer gets is up to both. *)
(* How requests interleave is in FollowUps.                                *)
(***************************************************************************)
EXTENDS AnswerJudgement

CONSTANTS Contents,    \* what the words of answers, and the documents, hold
          Technology   \* technologies the program knows by name

\* What a claim may be found in, besides an analysis.
Place == {"question", "source", "jd", "resume", "letter"}

Content ==
  [asks : SUBSET {"prompt_injection", "internal_criteria"},
   smallTalk : BOOLEAN,               \* OBVIOUS_OFF_TOPIC_MARKERS
   related : BOOLEAN,                 \* a word, no stop word, that the question has too
   claims : BOOLEAN,                  \* EXPERIENCE_CLAIM_MARKERS
   names : SUBSET Technology,
   held : [Place -> SUBSET Technology],
   analyses : Seq(SUBSET Technology)] \* of the session's documents, in the order they were made

ASSUME FollowupAssumption == Contents \subseteq Content

VARIABLES
  engine,     \* the engine that settings name: "openai", or "mock"
  content,    \* Nothing before the guardrail looks at it
  found,      \* what the guardrail found
  asking,     \* where create_followup is
  followup    \* the question it stores: [by, purpose, reference], or Nothing

followupVars == <<engine, content, found, asking, followup>>

FollowupInit ==
  /\ JudgementInit
  /\ engine \in {"openai", "mock"}
  /\ content = Nothing /\ found = {} /\ asking = "judge" /\ followup = Nothing

-----------------------------------------------------------------------------
(* Judgement *)

\* What the mock engine misses in an answer, in its order; it has no other names for it.
MockTriggers == <<"no specifics", "contribution unclear", "choice not explained">>

\* _detect_weakness_tags, _make_weakness_result: the first one is selected.
MockTag(name) == [name |-> name, id |-> name]

\* judge_answer_sufficiency of the mock engine; a blank answer only lacks specifics.
MockJudged(missing) ==
  IF missing = {} THEN [next |-> "next", sufficient |-> TRUE, tags |-> {}, selected |-> Nothing]
  ELSE [next |-> "follow", sufficient |-> FALSE, tags |-> {MockTag(t) : t \in missing},
        selected |-> MockTag(FirstOf(MockTriggers, missing))]

JudgeByMock ==
  /\ engine = "mock" /\ judging = "request"
  /\ \E missing \in SUBSET Range(MockTriggers) : judged' = MockJudged(missing)
  /\ judging' = "done"
  /\ UNCHANGED <<answer, reply, followupVars>>

JudgeByModel == engine = "openai" /\ JudgementNext /\ UNCHANGED followupVars

\* An error of the engine ends the request; an answer that suffices is remembered as such;
\* a follow-up without a selected weakness is not asked for.  The reply is not kept.
Decide ==
  /\ asking = "judge" /\ judging \in {"done", "raised"}
  /\ asking' = IF judging = "raised" THEN "failed"
               ELSE IF judged.next = "follow" /\ judged.selected # Nothing THEN "guard" ELSE "none"
  /\ reply' = Nothing
  /\ UNCHANGED <<answer, judging, judged, engine, content, found, followup>>

-----------------------------------------------------------------------------
(* Guardrail *)

OffTopicTags == {"OFF_TOPIC", "WEAK_QUESTION_RELEVANCE", "QUESTION_RELEVANCE", "IRRELEVANT_ANSWER"}
UnverifiedTags == {"UNVERIFIED_CLAIM", "UNGROUNDED_CLAIM", "GROUNDING_REQUIRED", "SOURCE_VERIFICATION_REQUIRED"}

\* _build_document_context: the question with its sources, the documents, and the newest
\* analysis of them, without which it goes on if it cannot be read.
Mentioned(c, readable) ==
  (UNION Range(c.held)) \cup (IF readable /\ c.analyses # <<>> THEN Last(c.analyses) ELSE {})

\* _is_obviously_off_topic
OffSubject(c) == c.smallTalk /\ ~c.related

\* _find_unverified_document_claim
Unverified(c, readable) == IF c.claims THEN c.names \ Mentioned(c, readable) ELSE {}

OffLimits == {"off_topic_tag", "prompt_injection", "internal_criteria", "off_topic_answer"}
Doubtful == {"claim_not_in_documents", "unverified_claim_tag"}

Looked(c, tag, readable) ==
  c.asks
  \cup (IF {tag.name, tag.id} \cap OffTopicTags # {} THEN {"off_topic_tag"} ELSE {})
  \cup (IF {tag.name, tag.id} \cap UnverifiedTags # {} THEN {"unverified_claim_tag"} ELSE {})
  \cup (IF OffSubject(c) THEN {"off_topic_answer"} ELSE {})
  \cup (IF Unverified(c, readable) # {} THEN {"claim_not_in_documents"} ELSE {})

\* check_followup_guardrail
GuardrailDecision(all) ==
  IF all \cap OffLimits # {} THEN "NEXT_QUESTION"
  ELSE IF all \cap Doubtful # {} THEN "GENERATE_CONFIRMATION_FOLLOWUP"
  ELSE "GENERATE_FOLLOWUP"

Guardrail(c, readable) ==
  /\ asking = "guard"
  /\ content' = c
  /\ found' = Looked(c, judged.selected, readable)
  /\ asking' = CASE GuardrailDecision(found') = "NEXT_QUESTION" -> "none"
                 [] GuardrailDecision(found') = "GENERATE_CONFIRMATION_FOLLOWUP" -> "confirm"
                 [] OTHER -> "generate"
  /\ UNCHANGED <<judgementVars, engine, followup>>

-----------------------------------------------------------------------------
(* Question *)

Finishes(how, question) ==
  asking' = how /\ followup' = question /\ UNCHANGED <<judgementVars, engine, content, found>>

\* _create_confirmation_followup asks by a text of its own.
Confirmation ==
  asking = "confirm" /\ Finishes("stored", [by |-> "guardrail", purpose |-> Nothing, reference |-> "guardrail"])

\* The payload names the tag the weakness is stored as, and what a follow-up about it is
\* for (_build_followup_payload, _build_followup_context).
Purpose == PurposeOf(TagOf(judged.selected.name))

\* _build_source_reference
Reference == IF engine = "openai" THEN "ai_chain" ELSE "ai_chain_mock"

\* What a reply of the model may be: no JSON, without a question, with an index that is no
\* number, with a difficulty the column cannot hold, or a question.
FollowupReply == {"garbage", "noQuestion", "blank", "badIndex", "longDifficulty", "question"}

\* generate_followup_question of the engine, which raises unless _normalize_followup_result
\* finds a question; the row of one that cannot be stored is rolled back.
WordQuestion ==
  /\ asking = "generate"
  /\ \E r \in IF engine = "openai" THEN FollowupReply ELSE {"question"} :
       IF r = "question" THEN Finishes("stored", [by |-> engine, purpose |-> Purpose, reference |-> Reference])
       ELSE Finishes("failed", Nothing)

FollowupNext ==
  \/ JudgeByModel \/ JudgeByMock \/ Decide
  \/ \E c \in Contents, readable \in BOOLEAN : Guardrail(c, readable)
  \/ Confirmation \/ WordQuestion

FollowupSpec == FollowupInit /\ [][FollowupNext]_<<judgementVars, followupVars>>

-----------------------------------------------------------------------------
(* Properties *)

\* The OpenAI engine follows up an answer that is too short or misses the question, whatever
\* the model says of it, and by a weakness that is defined, whatever the reply left out.
JudgedByRules ==
  engine = "openai" /\ judging = "done" =>
    /\ answer.length = "tooShort" \/ OffTopic(answer) => judged.next = "follow"
    /\ judged.next = "follow" => judged.selected.name \in Trigger

\* Only the guardrail and a failure keep an answer that is too short from a follow-up.
ShortAnswerAsked ==
  engine = "openai" /\ answer.length = "tooShort" /\ asking = "none" => found \cap OffLimits # {}

\* The model is asked to word a follow-up only if every technology the answer claims is named
\* by the question, a document or an analysis; the answer is asked to be confirmed only if it
\* claims one that neither the question nor a document names, or the judgement doubts it.
ClaimsChecked ==
  asking = "stored" =>
    LET named == UNION { content.held[p] : p \in Place }
    IN  IF followup.by # "guardrail"
        THEN content.claims => content.names \subseteq named \cup (UNION Range(content.analyses))
        ELSE \/ content.claims /\ ~(content.names \subseteq named)
             \/ judged.selected.id \in UnverifiedTags

\* Through the tables of two files, the model is told to ask about the weakness that was
\* found: an alternative that is missing is asked for as a reason that is missing.
FitsWeakness ==
  asking = "stored" /\ followup.by = "openai" =>
    followup.purpose =
      CASE judged.selected.name = "TECH_DEPTH_LOW" -> "technical_understanding"
        [] judged.selected.name \in {"MISSING_REASON", "NO_ALTERNATIVE"} -> "technology_choice_reasoning"
        [] judged.selected.name = "WEAK_JD_LINK" -> "job_requirement_alignment"
        [] OTHER -> "answer_clarification"

\* A weak answer is followed up, by a question that fits its weakness and builds upon no
\* claim the documents do not hold, whatever the models reply.
WeakAnswerFollowed == JudgedByRules /\ ShortAnswerAsked /\ ClaimsChecked /\ FitsWeakness
=============================================================================
