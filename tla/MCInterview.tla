----------------------------- MODULE MCInterview -----------------------------
(***************************************************************************)
(* Instances of the interview modules for TLC.  They share no variable, so *)
(* one run takes them one after the other: a behaviour is one of the       *)
(* session, of its follow-ups, of the selection of its questions, of the   *)
(* judgement of an answer up to the follow-up it gets, of the prompts the  *)
(* engine uses, of the documents its questions are asked from, of the tags *)
(* of a question, or of the weakness rows of an answer.                    *)
(***************************************************************************)
EXTENDS InterviewSession, FollowUps, QuestionSelection, FollowupQuestion, PromptVersions,
        InterviewMaterial, QuestionTags, WeaknessRows, TLC

VARIABLE part

MCInit ==
  /\ part \in {"session", "followUps", "selection", "judgement", "prompts", "material", "tags", "rows"}
  /\ InterviewInit /\ FollowInit /\ PromptInit /\ MaterialInit /\ RowsInit
  /\ IF part = "selection" THEN SelectionInit
     ELSE /\ source = CHOOSE s \in Sessions : TRUE
          /\ stage = "raised" /\ selected = <<>>
  /\ IF part = "judgement" THEN FollowupInit
     ELSE /\ answer = CHOOSE a \in Answers : TRUE
          /\ reply = Nothing /\ judging = "raised" /\ judged = NotJudged
          /\ engine = "mock" /\ content = Nothing /\ found = {} /\ asking = "judge" /\ followup = Nothing
  /\ IF part = "tags" THEN TagsInit
     ELSE /\ draft = CHOOSE d \in Drafts : TRUE
          /\ pass = "none" /\ question = draft /\ stored = <<>>

MCNext ==
  \/ /\ part = "session" /\ InterviewNext
     /\ UNCHANGED <<part, followVars, selectionVars, judgementVars, followupVars, promptVars,
                    materialVars, tagVars, rowVars>>
  \/ /\ part = "followUps" /\ FollowNext
     /\ UNCHANGED <<part, interviewVars, selectionVars, judgementVars, followupVars, promptVars,
                    materialVars, tagVars, rowVars>>
  \/ /\ part = "selection" /\ SelectionNext
     /\ UNCHANGED <<part, interviewVars, followVars, judgementVars, followupVars, promptVars,
                    materialVars, tagVars, rowVars>>
  \/ /\ part = "judgement" /\ FollowupNext
     /\ UNCHANGED <<part, interviewVars, followVars, selectionVars, promptVars,
                    materialVars, tagVars, rowVars>>
  \/ /\ part = "prompts" /\ PromptNext
     /\ UNCHANGED <<part, interviewVars, followVars, selectionVars, judgementVars, followupVars,
                    materialVars, tagVars, rowVars>>
  \/ /\ part = "material" /\ MaterialNext
     /\ UNCHANGED <<part, interviewVars, followVars, selectionVars, judgementVars, followupVars,
                    promptVars, tagVars, rowVars>>
  \/ /\ part = "tags" /\ TagsNext
     /\ UNCHANGED <<part, interviewVars, followVars, selectionVars, judgementVars, followupVars,
                    promptVars, materialVars, rowVars>>
  \/ /\ part = "rows" /\ RowsNext
     /\ UNCHANGED <<part, interviewVars, followVars, selectionVars, judgementVars, followupVars,
                    promptVars, materialVars, tagVars>>

MCSpec ==
  /\ MCInit
  /\ [][MCNext]_<<part, interviewVars, followVars, selectionVars, judgementVars, followupVars,
                 promptVars, materialVars, tagVars, rowVars>>

Interchangeable == Permutations(Worker) \cup Permutations(Caller)

-----------------------------------------------------------------------------
(* Sources of questions *)

CONSTANTS t1, t2

MCText == {t1, t2, RuleText(1)}

UpTo(S, n) == UNION { [1 .. k -> S] : k \in 0 .. n }

PreparedRows == UpTo([text : {t1, t2, Blank}, type : {"technical", "talent"}], 2)

Bank ==
  UpTo([text : {t1, t2}, type : {"technical", "job"}], 1)
    \cup {<<[text |-> t1, type |-> "job"], [text |-> t1, type |-> "technical"],
            [text |-> t2, type |-> "technical"]>>}

Analyses == [readme : {FALSE}, letter : BOOLEAN, at : {1}, questions : PreparedRows]

\* Without an analysis, with the newest one, and with the one a request names.
MCSessions ==
  [jd : BOOLEAN, resume : {FALSE}, letter : {FALSE}, projects : BOOLEAN, analyses : {{}},
   bank : Bank, type : InterviewType, count : 1 .. MaxCount, test : BOOLEAN, requested : {NoAnalysis}]
  \cup
  [jd : {TRUE}, resume : {TRUE}, letter : {FALSE}, projects : {FALSE}, analyses : { {a} : a \in Analyses },
   bank : Bank, type : InterviewType, count : 2 .. MaxCount, test : {FALSE}, requested : {NoAnalysis}]
  \cup
  [jd : {FALSE}, resume : {FALSE}, letter : {FALSE}, projects : {FALSE}, analyses : {{}},
   bank : Bank, type : {"technical"}, count : 2 .. MaxCount, test : {FALSE},
   requested : { a \in Analyses : ~a.letter }]

-----------------------------------------------------------------------------
(* Answers and replies *)

MarkSets == {{}, Mark, Mark \ {"role_clear"}, {"role_clear", "result_present"}}

MCAnswers ==
  [length : Length, uncertain : BOOLEAN, technical : {FALSE}, depth : 0 .. 2, overlap : {FALSE}, marks : MarkSets]
  \cup
  [length : Length, uncertain : {FALSE}, technical : {TRUE}, depth : 0 .. 2, overlap : BOOLEAN, marks : MarkSets]

Unnamed(name) == [name |-> name, id |-> Nothing]

Selectable ==
  {Unnamed("WEAK_JD_LINK"), Unnamed("NO_ALTERNATIVE"), [name |-> "OTHER", id |-> "UNVERIFIED_CLAIM"]}

MCGiven == Selectable \cup {Unnamed("OTHER"), Unnamed("NO_RESULT")}

MCReplies ==
  {Garbage} \cup
  [decision : {"follow", "next", Nothing}, should : {TRUE, Nothing},
   sufficient : BOOLEAN \cup {Nothing}, tags : {<<>>, <<Unnamed("OTHER"), Unnamed("NO_RESULT")>>},
   selected : {Nothing} \cup Selectable]

Holding(places, t) == [p \in Place |-> IF p \in places THEN t ELSE {}]

Words(a, s, c, n, h, old) ==
  [asks |-> a, smallTalk |-> s, related |-> FALSE, claims |-> c, names |-> n, held |-> h, analyses |-> old]

MCContents ==
  LET k == {"kafka"} nowhere == Holding({}, {})
  IN  {Words({}, FALSE, TRUE, k, h, old) : h \in {nowhere, Holding({"letter"}, k)}, old \in {<<>>, <<{}, k>>, <<k, {}>>}}
      \cup {Words({}, FALSE, FALSE, k, nowhere, <<>>), Words({}, TRUE, TRUE, k, nowhere, <<>>),
            Words({"internal_criteria"}, FALSE, FALSE, {}, nowhere, <<>>)}

-----------------------------------------------------------------------------
(* Documents, and requests that name them, an analysis, or both *)

CONSTANTS j1, r1, r2, l1

Ask(d, r, l, a, m) == [jd |-> d, resume |-> r, letter |-> l, analysis |-> a, made |-> m]

MCRequests ==
  { Ask(j1, r, NoDoc, 0, 0) : r \in Resume \cup {NoDoc} }
  \cup { Ask(j1, r, l1, 0, 0) : r \in Resume }
  \cup { Ask(NoDoc, NoDoc, l, a[1], a[2]) : l \in Letter \cup {NoDoc},
                                            a \in {<<0, 0>>, <<1, 0>>, <<0, 2>>, <<1, 1>>, <<1, 2>>} }
  \cup { Ask(j1, r1, NoDoc, 1, 0) }

-----------------------------------------------------------------------------
(* Questions with their tags, and verdicts on an answer *)

Keys(e, t, k) ==
  [expected_technical_keywords |-> e, technical_keywords |-> t, expected_keywords |-> <<>>, keywords |-> k]

ModelTag ==
  { [type |-> t[1], label |-> t[2], text |-> x] :
      t \in {<<"jd", "">>, <<"odd", "">>, <<"jd", KeywordLabel>>, <<"odd", MetadataLabel>>},
      x \in {<<Space>>, <<"b">>} }

MCDrafts ==
  [origin : {"openai"}, category : {"coding", "odd", "experience"}, planned : {"technical", "personality"},
   words : { Keys(e, t, <<>>) : e \in {<<>>, <<Space>>, <<"a", Space>>}, t \in {<<>>, <<"c">>} },
   tags : UpTo(ModelTag, 2)]
  \cup
  [origin : {"mock"}, category : {"technical", ""}, planned : {"technical", "personality"},
   words : {Keys(<<>>, <<>>, <<>>)}, tags : {<<>>}, several : BOOLEAN, number : 1 .. 3,
   given : {{}, {"resume"}, {"question_bank", "jd", "resume"}}]
  \cup
  [origin : {"prepared", "bank", "rule", "followUp"}, category : {"technical", "odd"},
   planned : {"technical", "personality"}, tags : {<<>>},
   words : { Keys(e, <<>>, k) : e \in {<<>>, <<Space>>, <<"a">>}, k \in {<<>>, <<"c">>} }]

MCVerdicts ==
  { [found |-> v[1], picked |-> v[2]] :
      v \in {<<<<>>, NoWeakness>>, <<<<"weak_specificity", "other">>, "other">>, <<<<"other", "other">>, NoWeakness>>} }
=============================================================================
