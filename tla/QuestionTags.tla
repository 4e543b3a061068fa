------------------------------ MODULE QuestionTags ------------------------------
(***************************************************************************)
(* What is stored with a question about its origin, and which keywords a   *)
(* good answer to it is expected to name: from the reply of a model, the   *)
(* questions of an analysis, the bank or a template, through the passes of *)
(* question_generator.py, to the rows of QuestionSourceTag, and to the two *)
(* that read the keywords, the judgement of an answer and its comparison   *)
(* with reference texts.  Which questions are taken is in QuestionSelection.*)
(*                                                                         *)
(* Every pass copies tags and keywords, and several drop or add some.  A   *)
(* text is the sequence of its parts, Space for white space.               *)
(***************************************************************************)
EXTENDS Naturals, Lists

CONSTANTS Drafts,   \* questions as they come in: [origin, category, words, tags, planned],
                    \* from the mock engine [given, several, number] too
          Space

\* Labels that mean something to the program.
KeywordLabel == "expected_technical_keywords"
MetadataLabel == "generation_metadata"

Origins == {"openai", "mock", "prepared", "bank", "rule", "followUp"}

\* Where keywords may be found, by origin and in this order.
WordKeys == <<"expected_technical_keywords", "technical_keywords", "expected_keywords", "keywords">>

\* Of the tags a source gives only the texts are looked into.
ASSUME DraftsAssumption ==
  \A d \in Drafts :
    /\ d.origin \in Origins
    /\ DOMAIN d.words = { WordKeys[i] : i \in DOMAIN WordKeys } /\ \A key \in DOMAIN d.words : IsList(d.words[key])
    /\ IsList(d.tags) /\ \A i \in DOMAIN d.tags : IsList(d.tags[i].text)
    /\ d.origin = "mock" => d.number \in Nat

\* What the mock engine is given, and makes a tag of, in this order.
MockSources == <<"jd", "resume", "cover_letter", "project_experience", "question_bank">>

VARIABLES draft,   \* how the question came in
          pass,    \* the pass that is next
          question,  \* [category, words, tags]
          stored     \* the rows of its tags, in order

tagVars == <<draft, pass, question, stored>>

TagsInit ==
  /\ draft \in Drafts
  /\ pass = CASE draft.origin = "openai" -> "engine" [] draft.origin = "mock" -> "mock"
              [] draft.origin = "followUp" -> "store" [] OTHER -> "collect"
  /\ question = [category |-> draft.category, words |-> <<>>, tags |-> draft.tags]
  /\ stored = <<>>

\* _normalize_expected_technical_keywords: blank parts go.
Joined(text) == Where(text, { i \in DOMAIN text : text[i] # Space })

\* The keywords under the first of n keys that holds any.
WordsUnder(d, n) ==
  LET filled == { i \in 1 .. n : Joined(d.words[WordKeys[i]]) # <<>> }
  IN  IF filled = {} THEN <<>>
      ELSE Joined(d.words[WordKeys[CHOOSE i \in filled : \A j \in filled : i <= j]])

CategoryAliases ==
  [technical |-> "technical", tech |-> "technical", coding |-> "technical",
   personality |-> "personality", behavioral |-> "personality", experience |-> "personality"]

\* _normalize_question_category
CategoryOf(label) == IF label \in DOMAIN CategoryAliases THEN CategoryAliases[label] ELSE "general"

SourceTypes == {"jd", "resume", "cover_letter", "project_experience", "combined", "prepared_question",
                "profile", "question_bank", "rule", "general"}

\* _normalize_question_source_type, of spellings that are not aliases.
TypeOf(type) == IF type \in SourceTypes THEN type ELSE "general"

\* _normalize_source_tags: a label that is missing is the type's, and a question without
\* any tag gets one.
WithLabels(tags, fallback) ==
  IF tags = <<>> THEN <<fallback>>
  ELSE [ i \in DOMAIN tags |->
           [type |-> TypeOf(tags[i].type),
            label |-> IF tags[i].label = "" THEN TypeOf(tags[i].type) ELSE tags[i].label, text |-> tags[i].text] ]

Tag(type, label, text) == [type |-> type, label |-> label, text |-> text]

\* _generation_metadata_tag
Metadata(origin) == Tag("general", MetadataLabel, <<origin>>)

-----------------------------------------------------------------------------
(* Passes *)

Becomes(q, next) == question' = q /\ pass' = next /\ UNCHANGED <<draft, stored>>

\* _build_source_tags of the mock engine: one tag for each source, or that of the bank.
MockSourceTags(given) ==
  LET sources == Where(MockSources, { i \in DOMAIN MockSources : MockSources[i] \in given })
  IN  IF sources = <<>> THEN <<Tag("question_bank", "question bank", <<"text">>)>>
      ELSE [ i \in DOMAIN sources |-> Tag(sources[i], "based on it", <<"text">>) ]

\* _pick_question_type of the mock engine, for a question that the plan does not reach.
MockType(n) == <<"personality", "technical", "job">>[1 + (n % 3)]

\* generate_questions of the mock engine names the first two sources, or the first.
PassMock ==
  /\ pass = "mock"
  /\ LET tags == MockSourceTags(draft.given)
     IN  Becomes([category |-> IF draft.category = "" THEN MockType(draft.number) ELSE draft.category,
                  words |-> <<>>, tags |-> Cut(tags, IF draft.several THEN 2 ELSE 1)],
                 "convert")

\* _normalize_question_generation_result of the OpenAI engine knows one key of keywords.
PassEngine ==
  /\ pass = "engine"
  /\ Becomes([category |-> CategoryOf(question.category), words |-> WordsUnder(draft, 1),
              tags |-> WithLabels(question.tags, Tag("general", "general question", <<>>))], "convert")

\* _convert_ai_questions knows three keys, of which a reply of the OpenAI engine has one left
\* and one of the mock engine none.
Convert ==
  /\ pass = "convert"
  /\ Becomes([category |-> CategoryOf(question.category),
              words |-> IF draft.origin = "openai" THEN question.words ELSE WordsUnder(draft, 3),
              tags |-> Append(WithLabels(question.tags, Tag("general", "general", <<>>)),
                              Metadata(draft.origin))], "append")

\* _prepared_questions, _question_bank_questions and _rule_based_questions; only an analysis
\* has keywords for its questions, under one of four keys.
Collect ==
  /\ pass = "collect"
  /\ Becomes([category |-> CategoryOf(question.category),
              words |-> IF draft.origin = "prepared" THEN WordsUnder(draft, 4) ELSE <<>>,
              tags |-> Append(CASE draft.origin = "prepared" ->
                                     <<Tag("jd", "grounds", <<>>), Tag("prepared_question", "prepared", <<"text">>)>>
                                [] draft.origin = "bank" ->
                                     WithLabels(question.tags, Tag("question_bank", "question_bank", <<>>))
                                [] OTHER -> <<Tag("rule", "Rule fallback", <<"reference">>)>>,
                              Metadata(draft.origin))], "append")

\* _append_unique_questions normalizes again.
AppendPass ==
  /\ pass = "append"
  /\ Becomes([category |-> CategoryOf(question.category), words |-> Joined(question.words),
              tags |-> WithLabels(question.tags, Tag("general", "general", <<>>))], "plan")

\* bug: the plan fills in only what the source left open
PlannedIfOpen(q) == IF q.category = "general" THEN [q EXCEPT !.category = draft.planned] ELSE q

\* _apply_question_category_plan
Planned(q) == [q EXCEPT !.category = draft.planned]

Plan == pass = "plan" /\ Becomes(Planned(question), "tag")

IsKeywordTag(t) == t.label = KeywordLabel

\* _with_expected_technical_keyword_tag: no such tag without keywords, or for a question that
\* is not technical; one that the model wrote is kept.
Tagged(q) ==
  IF q.category # "technical" \/ q.words = <<>>
  THEN [q EXCEPT !.tags = Where(@, { i \in DOMAIN @ : ~IsKeywordTag(@[i]) })]
  ELSE IF \E i \in DOMAIN q.tags : IsKeywordTag(q.tags[i]) THEN q
  ELSE [q EXCEPT !.tags = Append(@, Tag("general", KeywordLabel, q.words))]

TagPass == pass = "tag" /\ Becomes(Tagged(question), "store")

\* _save_question_source_tags: of the tags with keywords the first that has a text.
Kept(q) ==
  LET full == { i \in DOMAIN q.tags :
                  IsKeywordTag(q.tags[i]) /\ q.category = "technical" /\ Joined(q.tags[i].text) # <<>> }
  IN  Where(q.tags, { i \in DOMAIN q.tags :
                        IsKeywordTag(q.tags[i]) => i \in full /\ \A j \in full : i <= j })

\* A follow-up is stored with a note of its origin only (_save_generation_metadata_tags).
Store ==
  /\ pass = "store"
  /\ stored' = IF draft.origin = "followUp" THEN <<Metadata("followUp")>> ELSE Kept(question)
  /\ pass' = "stored"
  /\ question' = IF draft.origin = "followUp" THEN Planned(question) ELSE question
  /\ UNCHANGED draft

TagsNext == PassEngine \/ PassMock \/ Convert \/ Collect \/ AppendPass \/ Plan \/ TagPass \/ Store

TagsSpec == TagsInit /\ [][TagsNext]_tagVars

-----------------------------------------------------------------------------
(* Readers *)

FirstKeywords ==
  LET is == { i \in DOMAIN stored : IsKeywordTag(stored[i]) }
  IN  IF is = {} THEN <<>> ELSE stored[CHOOSE i \in is : \A j \in is : i <= j].text

\* get_expected_technical_keywords, for the judgement of an answer.
JudgedBy == IF question.category = "technical" THEN Joined(FirstKeywords) ELSE <<>>

\* get_reference_texts_for_answer, for its comparison: whatever the tag holds.
ComparedWith == FirstKeywords

-----------------------------------------------------------------------------
(* Properties *)

OwnWords(d) == { d.tags[i] : i \in { j \in DOMAIN d.tags : d.tags[j].label = KeywordLabel } }

\* The keywords the source knew of.
KnownWords(d) ==
  CASE d.origin = "openai" -> WordsUnder(d, 1) [] d.origin = "mock" -> WordsUnder(d, 3)
    [] d.origin = "prepared" -> WordsUnder(d, 4) [] OTHER -> <<>>

\* A technical question, whatever its source took it for, is stored with the keywords that
\* were known, or with those of a tag that the model wrote itself; no other question is, and
\* the judgement and the comparison of its answers go by the same.
KeywordsReach ==
  /\ Joined(ComparedWith) = JudgedBy
  /\ IF draft.planned # "technical" \/ KnownWords(draft) = <<>> THEN ComparedWith = <<>>
     ELSE \/ JudgedBy = KnownWords(draft)
          \/ \E t \in OwnWords(draft) : JudgedBy = Joined(t.text)

\* Keywords are stored once, the origin is told by the last tag of that label, and the sources
\* are told unless the model named none but these labels.
OriginTold ==
  /\ Cardinality({ i \in DOMAIN stored : IsKeywordTag(stored[i]) }) <= 1
  /\ \E i \in DOMAIN stored :
       stored[i] = Metadata(draft.origin) /\ \A j \in DOMAIN stored : stored[j].label = MetadataLabel => j <= i
  /\ draft.origin # "followUp"
     /\ (draft.tags = <<>> \/ \E i \in DOMAIN draft.tags : draft.tags[i].label \notin {KeywordLabel, MetadataLabel})
       => \E i \in DOMAIN stored : stored[i].label \notin {KeywordLabel, MetadataLabel}

\* Tags tell of a stored question what it was made from and what its answers are measured by
\* (question_generator.py:200, views.py:456).
KeywordsAreTagged == pass = "stored" => KeywordsReach /\ OriginTold
=============================================================================
