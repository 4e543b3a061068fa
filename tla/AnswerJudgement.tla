---------------------------- MODULE AnswerJudgement ----------------------------
(***************************************************************************)
(* How the OpenAI engine judges an answer (judge_answer_sufficiency of     *)
(* services/ai_chain_openai_engine.py): the reply of the model is parsed   *)
(* and normalized, then overruled by rules over the answer itself.  The    *)
(* reply is free text and may be anything: not JSON, JSON without a        *)
(* decision, fields that contradict one another, tags nobody defined.      *)
(*                                                                         *)
(* What the caller makes of the judgement is in FollowupQuestion.          *)
(*                                                                         *)
(* The rules look for marker words in the answer; here an answer is the    *)
(* set of those groups of markers that it contains.                        *)
(***************************************************************************)
EXTENDS WeaknessNames, Naturals, FiniteSets, Sequences, SequencesExt

CONSTANTS Answers,   \* the answers to judge
          Replies,   \* what the model may reply
          Garbage,   \* a reply that holds no JSON object
          Given,     \* the weaknesses a reply may name: [name, id]
          Nothing    \* a field that is missing, null or of no known value

Mark == {"situation_or_problem", "role_clear", "concrete_action", "result_present",
         "reason_present", "alternative_present"}

\* The lengths that are told apart, in characters without spaces: below 40,
\* below 90, below 160, and above.
Length == {"tooShort", "short", "medium", "long"}

Answer == [length : Length, uncertain : BOOLEAN, technical : BOOLEAN,
           depth : 0 .. 2, overlap : BOOLEAN, marks : SUBSET Mark]

\* The fields of a reply, by any of the names the engine knows for them: the
\* decision, whether to follow up, whether the answer suffices, the weakness
\* tags in their order and the selected one, each with its name and the id the
\* model gives it, if any.
ReplyOK(r) ==
  r # Garbage => /\ r.decision \in {"follow", "next", Nothing}
                 /\ {r.should, r.sufficient} \subseteq BOOLEAN \cup {Nothing}
                 /\ r.tags \in Seq(Given)
                 /\ r.selected \in Given \cup {Nothing}

\* A weakness as the program names it, by an id of its own or one it is given.
WeaknessTag == [name : Trigger, id : Trigger \cup {t.id : t \in Given}]

ASSUME JudgementAssumption ==
  /\ Answers \subseteq Answer
  /\ \A r \in Replies : ReplyOK(r)
  /\ Nothing \notin WeaknessTag

VARIABLES
  answer, reply,
  judging,    \* where the engine is
  judged      \* [next, sufficient, tags, selected] so far; only the selected tag has an order

judgementVars == <<answer, reply, judging, judged>>

NotJudged == [next |-> Nothing, sufficient |-> Nothing, tags |-> {}, selected |-> Nothing]

JudgementInit ==
  /\ answer \in Answers
  /\ reply = Nothing
  /\ judging = "request"
  /\ judged = NotJudged

-----------------------------------------------------------------------------
(* Signals of the answer *)

OffTopic(a) == a.uncertain \/ (a.technical /\ a.depth = 0 /\ ~a.overlap)

\* The ten signals of _calculate_answer_sufficiency_signals that count.
Signals(a) ==
  a.marks
  \cup (IF ~a.uncertain /\ (a.depth > 0 \/ ~a.technical \/ a.overlap) THEN {"direct_answer"} ELSE {})
  \cup (IF a.technical => a.depth = 2 THEN {"technical_depth"} ELSE {})
  \cup (IF a.depth > 0 \/ a.overlap \/ ~a.technical THEN {"jd_link"} ELSE {})
  \cup (IF a.length \in {"medium", "long"} /\ a.depth > 0 THEN {"not_abstract_only"} ELSE {})

Score(a) == Cardinality(Signals(a))

\* bug: an answer off the topic may score enough
SufficientOffTopic(a) == a.length = "long" /\ Score(a) >= 7

Sufficient(a) == a.length = "long" /\ Score(a) >= 7 /\ ~OffTopic(a)

Detected(a, trigger) ==
  CASE trigger = "TOO_SHORT" -> a.length = "tooShort"
    [] trigger = "OFF_TOPIC" -> OffTopic(a)
    [] trigger = "ABSTRACT_ANSWER" -> "not_abstract_only" \notin Signals(a) /\ a.length # "tooShort"
    [] trigger = "UNCLEAR_ROLE" -> "role_clear" \notin Signals(a)
    [] trigger = "NO_RESULT" -> "result_present" \notin Signals(a)
    [] trigger = "MISSING_REASON" -> "reason_present" \notin Signals(a)
    [] trigger = "TECH_DEPTH_LOW" -> "technical_depth" \notin Signals(a)
    [] trigger = "WEAK_JD_LINK" -> "jd_link" \notin Signals(a)
    [] trigger = "STAR_MISSING" -> Score(a) < 6 /\ a.length # "tooShort"
    [] OTHER -> FALSE

\* _detect_local_followup_triggers, and the order it looks for them.
LocalTriggers(a) == {t \in Trigger : Detected(a, t)}
TriggerOrder == <<"TOO_SHORT", "OFF_TOPIC", "ABSTRACT_ANSWER", "UNCLEAR_ROLE", "NO_RESULT",
                  "MISSING_REASON", "TECH_DEPTH_LOW", "WEAK_JD_LINK", "STAR_MISSING">>

FirstOf(order, names) == order[SelectInSeq(order, LAMBDA name : name \in names)]

-----------------------------------------------------------------------------
(* Reply of the model *)

\* _request_text; the client's own retries and its timeout are part of it.
RequestText(r) ==
  /\ judging = "request"
  /\ reply' = r
  /\ judging' = "normalize"
  /\ UNCHANGED <<answer, judged>>

\* _extract_next_action: the first field that says anything.
NextOf(r) ==
  IF r.decision # Nothing THEN r.decision
  ELSE IF r.should # Nothing THEN (IF r.should THEN "follow" ELSE "next")
  ELSE IF r.sufficient # Nothing THEN (IF r.sufficient THEN "next" ELSE "follow")
  ELSE Nothing

\* _build_weakness_tag: a tag that is not defined counts as an abstract answer.
Known(name) ==
  LET known == IF name \in Trigger THEN name ELSE "ABSTRACT_ANSWER"
  IN  [name |-> known, id |-> known]

\* _normalize_selected_weakness_tag: an id that the model gives is kept as it is.
Weakness(tag) == [Known(tag.name) EXCEPT !.id = IF tag.id = Nothing THEN @ ELSE tag.id]
Tags(r) == {Weakness(t) : t \in Range(r.tags)}

\* _normalize_sufficiency_result: a follow-up is given the first tag, or the
\* abstract answer, when the model selects none.
Normalized(r) ==
  LET next == NextOf(r)
      chosen == IF r.selected # Nothing THEN Weakness(r.selected)
                ELSE IF next = "next" THEN Nothing
                ELSE IF r.tags # <<>> THEN Weakness(r.tags[1])
                ELSE Known("ABSTRACT_ANSWER")
  IN [next |-> next,
      sufficient |-> IF r.sufficient # Nothing THEN r.sufficient ELSE next = "next",
      tags |-> IF next = "follow" /\ r.selected = Nothing /\ r.tags = <<>>
               THEN {Known("ABSTRACT_ANSWER")} ELSE Tags(r),
      selected |-> chosen]

\* A reply without an object, or without a decision, raises AIChainOpenAIError.
Normalize ==
  /\ judging = "normalize"
  /\ IF reply = Garbage \/ NextOf(reply) = Nothing
     THEN judging' = "raised" /\ UNCHANGED judged
     ELSE judging' = "overrule" /\ judged' = Normalized(reply)
  /\ UNCHANGED <<answer, reply>>

-----------------------------------------------------------------------------
(* Rules of the engine *)

\* _get_result_trigger_names
NamesIn(j) == UNION { {t.name, t.id} : t \in j.tags \cup ({j.selected} \ {Nothing}) }

\* _should_suppress_followup
Suppressed(a, j) ==
  /\ Sufficient(a)
  /\ NamesIn(j) \cap HighSeverity \cap LocalTriggers(a) = {}

\* _force_followup_result
Forced(triggers) ==
  [next |-> "follow", sufficient |-> FALSE, tags |-> {Known(t) : t \in triggers},
   selected |-> Known(FirstOf(TriggerOrder, triggers))]

\* _apply_local_followup_guardrails: a trigger found in the answer forces a
\* follow-up that the model did not ask for; an answer that suffices spares one
\* that it did.
Overrule ==
  /\ judging = "overrule"
  /\ judged' =
       IF judged.next = "next" /\ LocalTriggers(answer) # {}
       THEN Forced(LocalTriggers(answer))
       ELSE IF judged.next = "follow" /\ Suppressed(answer, judged)
       THEN [judged EXCEPT !.next = "next", !.sufficient = TRUE, !.selected = Nothing]
       ELSE judged
  /\ judging' = "done"
  /\ UNCHANGED <<answer, reply>>

JudgementNext == (\E r \in Replies : RequestText(r)) \/ Normalize \/ Overrule

JudgementSpec == JudgementInit /\ [][JudgementNext]_judgementVars
=============================================================================
