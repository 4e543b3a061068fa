--------------------------- MODULE PreparedQuestions ---------------------------
(***************************************************************************)
(* One generation of the questions of an analysis, from the request on     *)
(* (AnalysisQuestionsView.post in analysis/views.py, without the charge,   *)
(* which is PaidFeatures) to the rows it stores: generate_all_questions    *)
(* and the services it calls.  Some failures end it, others leave a part   *)
(* out; lists are numbered, merged, cut and filtered on the way, and the   *)
(* answers that the model writes for numbered lists must end up with       *)
(* their questions.                                                        *)
(*                                                                         *)
(* A text is a model value, and Alike tells which texts have embeddings    *)
(* that are too close.  Prompts are left out; what the model sees of an    *)
(* answer's figures is a set.                                              *)
(***************************************************************************)
EXTENDS Naturals, SequencesExt, Lists

CONSTANTS Alike,        \* the pairs of texts above similarity_threshold
          TooShort,     \* texts of less than ten characters
          Banks,        \* what the question bank may return
          Drafts,       \* what the model may return as questions
          CodeDrafts,   \* and as questions about repositories
          Written,      \* and as answers to a numbered list
          Known,        \* figures in the resume, the letter and the job description
          Before,       \* the rows there may be already
          Traits,       \* lists of traits a source may name
          NoRepository  \* no URL of a repository

\* Questions come in lists, and each tells where it is from; so do answers and rows.
AnyQuestion == UNION { Range(list) : list \in Banks \cup Drafts \cup CodeDrafts }
AnyItem == UNION { Range(list) : list \in Written }

ASSUME ListsAssumption ==
  /\ Banks \cup Drafts \cup CodeDrafts \subseteq Seq(AnyQuestion) /\ Written \subseteq Seq(AnyItem)
  /\ \A list \in Banks : \A q \in Range(list) : q.by = "bank"
  /\ \A list \in Drafts : \A q \in Range(list) : q.by = "model"
  /\ \A list \in CodeDrafts : \A q \in Range(list) : q.by = "code"
  /\ \A list \in Before : list \in Seq(Range(list))

Similar(p, q) == p = q \/ <<p, q>> \in Alike \/ <<q, p>> \in Alike

VARIABLES
  making,     \* where the request is
  about,      \* what the rows of the analysis and of its session say of company and code
  rows,       \* the GeneratedQuestion rows
  anew,       \* request.data["regenerate"]
  bank,       \* what the search of the bank has found
  chosen,     \* the questions so far
  written,    \* the model's answers to the two lists
  inHand      \* history: the rows before, and the drafts of the model

preparedVars == <<making, about, rows, anew, bank, chosen, written, inHand>>

NoAnswer == [to |-> "nothing", figures |-> {}, others |-> {}]

NoTalent == [traits |-> <<>>, source |-> "none"]

PreparedInit ==
  /\ rows \in Before /\ anew \in BOOLEAN
  /\ making = "context"
  /\ about = [summaryOf |-> NoRepository, reading |-> NoRepository, talent |-> NoTalent]
  /\ bank = <<>> /\ chosen = <<>>
  /\ written = [star |-> <<>>, technical |-> <<>>]
  /\ inHand = [rows |-> rows, drafts |-> <<>>]

\* The questions are there already and nobody asks for others.
ReturnExisting ==
  /\ making = "context" /\ rows # <<>> /\ ~anew
  /\ making' = "returned"
  /\ UNCHANGED <<about, rows, anew, bank, chosen, written, inHand>>

GiveUp ==
  /\ making' = "failed"
  /\ UNCHANGED <<about, rows, anew, bank, chosen, written, inHand>>

\* The repository is the resume's, or else that of a project.  What is known of one
\* is kept, whatever the URL is now; it must answer and have a README of some length.
ReadRepository(url) ==
  /\ making = "context" /\ (rows = <<>> \/ anew)
  /\ \/ /\ url # NoRepository /\ about.summaryOf = NoRepository
        /\ making' = "summary" /\ about' = [about EXCEPT !.reading = url]
     \/ making' = "company" /\ UNCHANGED about
  /\ UNCHANGED <<rows, anew, bank, chosen, written, inHand>>

\* extract_interview_context asks once more when a reply is no JSON; no failure of
\* its keeps the questions from being made.
Summarize(reply) ==
  /\ making \in {"summary", "summary again"}
  /\ making' = IF reply = "notJson" /\ making = "summary" THEN "summary again" ELSE "company"
  /\ about' = IF reply = "json" THEN [about EXCEPT !.summaryOf = about.reading] ELSE about
  /\ UNCHANGED <<rows, anew, bank, chosen, written, inHand>>

\* The traits the user has confirmed, or else those found in the job description,
\* or else those of the industry; a source that fails has none.
TraitsOf(confirmed, found, usual) ==
  CASE confirmed # <<>> -> [traits |-> confirmed, source |-> "profile"]
    [] confirmed = <<>> /\ found # <<>> -> [traits |-> found, source |-> "AI_EXTRACTED"]
    [] confirmed = <<>> /\ found = <<>> /\ usual # <<>> -> [traits |-> usual, source |-> "JOB_DEFAULT"]
    [] OTHER -> NoTalent

\* The session keeps what it had when it names no company or the context fails.
PrepareContext(confirmed, found, usual) ==
  /\ making = "company"
  /\ \E talent \in {about.talent, TraitsOf(confirmed, found, usual)} :
       about' = [about EXCEPT !.talent = talent, !.reading = NoRepository]
  /\ making' = "search"
  /\ UNCHANGED <<rows, anew, bank, chosen, written, inHand>>

\* search_similar_questions: the vector search, or the table when it fails; a
\* failure of both ends the request.
SearchBank(found) ==
  /\ making = "search"
  /\ \/ bank' = found /\ making' = "ask" /\ UNCHANGED <<about, rows, anew, chosen, written, inHand>>
     \/ GiveUp

MaxCode == 3

\* generate_questions and generate_github_questions_for_projects, at the same
\* time; either one ends the request when it fails, or its reply cannot be read.
AskModel(drafts, code) ==
  /\ making = "ask"
  /\ \/ /\ chosen' = Cut(code, MaxCode) /\ making' = "merge"
        /\ inHand' = [inHand EXCEPT !.drafts = drafts]
        /\ UNCHANGED <<about, rows, anew, bank, written>>
     \/ GiveUp

-----------------------------------------------------------------------------
(* merge_and_deduplicate *)

TargetCounts == [personality |-> 2, technical |-> 2, experience |-> 1]

\* Candidates of a type in turn, those like one that is taken left out, until
\* there are enough.
Taken(out, q, count) ==
  IF Len(out) >= count \/ (\E i \in DOMAIN out : Similar(out[i].text, q.text)) THEN out ELSE Append(out, q)

TakeUnlike(taken, candidates, count) ==
  LET upto[n \in 0 .. Len(candidates)] ==
        IF n = 0 THEN taken ELSE Taken(upto[n - 1], candidates[n], count)
  IN  upto[Len(candidates)]

OfType(qs, type) == Where(qs, { i \in DOMAIN qs : qs[i].type = type })

\* The model's questions have priority over the bank's.
Candidates(type) == OfType(inHand.drafts, type) \o OfType(bank, type)

Group(type) == TakeUnlike(<<>>, Candidates(type), TargetCounts[type])

\* The questions about code are added to the others; the embeddings may not be had.
Merge ==
  /\ making = "merge"
  /\ \/ LET base == Group("personality") \o Group("technical") \o Group("experience")
        IN /\ chosen' = TakeUnlike(base, chosen, Len(base) + Len(chosen))
           /\ making' = "answer"
           /\ UNCHANGED <<about, rows, anew, bank, written, inHand>>
     \/ bank \o inHand.drafts \o chosen # <<>> /\ GiveUp

-----------------------------------------------------------------------------
(* generate_star_answers *)

IsTechnical(q) == q.type = "technical"

\* The questions of the list a question is sent with.
Technicals == { i \in DOMAIN chosen : IsTechnical(chosen[i]) }
Others == DOMAIN chosen \ Technicals
SentWith(i) == IF i \in Technicals THEN Technicals ELSE Others

\* A reply is a list of items, each with the number it says it is about; one that
\* cannot be parsed counts as the empty list.  The call itself may fail.
AskForAnswers(star, technical) ==
  /\ making = "answer"
  /\ \/ /\ written' = [star |-> IF Others = {} THEN <<>> ELSE star,
                       technical |-> IF Technicals = {} THEN <<>> ELSE technical]
        /\ making' = "attach"
        /\ UNCHANGED <<about, rows, anew, bank, chosen, inHand>>
     \/ chosen # <<>> /\ GiveUp

\* What an item answers: the model goes by the numbers of the list it was given,
\* and writes an answer to the n-th question under the number n.
AnswerTo(list, item) ==
  [to |-> IF item.number \in DOMAIN list THEN list[item.number].text ELSE "nothing",
   figures |-> item.figures, others |-> item.others]

\* bug: the number is taken for one in the list of all questions
GlobalNumber(i) == i

\* The number of the i-th question in the list it was sent with.
LocalNumber(i) == Rank(SentWith(i), i)

\* The last item with the number wins; no item, no answer.
Lookup(list, items, number) ==
  LET same == { k \in DOMAIN items : items[k].number = number }
  IN IF same = {} THEN NoAnswer
     ELSE AnswerTo(list, items[CHOOSE k \in same : \A l \in same : l <= k])

AnswerOf(i) ==
  Lookup(Where(chosen, SentWith(i)),
         IF i \in Technicals THEN written.technical ELSE written.star, LocalNumber(i))

\* check_answer looks at the fields of a STAR answer.  A technical answer shares
\* one of them with it, the summary: the figures of its others are not looked at.
Grounded(q, answer) ==
  answer.figures \cup (IF IsTechnical(q) THEN {} ELSE answer.others) \subseteq Known

Attach ==
  /\ making = "attach"
  /\ chosen' = [ i \in DOMAIN chosen |->
                   [text |-> chosen[i].text, type |-> chosen[i].type, by |-> chosen[i].by,
                    answer |-> AnswerOf(i), grounded |-> Grounded(chosen[i], AnswerOf(i))] ]
  /\ making' = "store"
  /\ UNCHANGED <<about, rows, anew, bank, written, inHand>>

-----------------------------------------------------------------------------
(* Rows *)

Texts(qs) == { qs[i].text : i \in DOMAIN qs }

\* OutputGuardrail.filter
Filtered(qs, existing) ==
  Where(qs, { i \in DOMAIN qs : qs[i].text \notin TooShort /\ qs[i].text \notin existing })

\* to_db_records: numbered from 0.
Records(qs, existing) ==
  LET kept == Filtered(qs, existing)
  IN [ i \in DOMAIN kept |-> [row |-> kept[i], text |-> kept[i].text, order |-> i - 1] ]

\* The rows are replaced in one transaction, also by none.
StoreQuestions ==
  /\ making = "store"
  /\ rows' = (IF anew THEN <<>> ELSE rows) \o Records(chosen, Texts(rows))
  /\ making' = "stored"
  /\ UNCHANGED <<about, anew, bank, chosen, written, inHand>>

PreparedNext ==
  \/ ReturnExisting \/ Merge \/ Attach \/ StoreQuestions
  \/ \E url \in {NoRepository, "repository"} : ReadRepository(url)
  \/ \E reply \in {"json", "notJson", "down"} : Summarize(reply)
  \/ \E confirmed, found, usual \in Traits : PrepareContext(confirmed, found, usual)
  \/ \E found \in Banks : SearchBank(found)
  \/ \E drafts \in Drafts, code \in CodeDrafts : AskModel(drafts, code)
  \/ \E star, technical \in Written : AskForAnswers(star, technical)

PreparedSpec == PreparedInit /\ [][PreparedNext]_preparedVars

-----------------------------------------------------------------------------
(* Properties *)

\* Whatever the sources return and in whatever order and numbers the model answers,
\* an answer is stored with the question it was written for, and one to a question
\* of the STAR kind is called grounded only if every figure in it is the user's.
\* The rows are numbered without a gap, none repeats a row from before, and no two
\* of a kind are alike; one from the bank is there only when the model's own of
\* that type have run out.
AnswersFit ==
  making = "stored" =>
    /\ \A i \in DOMAIN rows :
         /\ rows[i].order = i - 1
         /\ rows[i].row.answer.to \in {rows[i].text, "nothing"}
         /\ rows[i].row.type # "technical" /\ rows[i].row.grounded
              => rows[i].row.answer.figures \cup rows[i].row.answer.others \subseteq Known
         /\ rows[i].text \notin Texts(inHand.rows) \cup TooShort
         /\ rows[i].row.by = "bank" =>
              \A d \in Range(OfType(inHand.drafts, rows[i].row.type)) :
                \E j \in DOMAIN chosen : Similar(chosen[j].text, d.text)
    /\ \A i, j \in DOMAIN rows :
         i # j /\ Similar(rows[i].text, rows[j].text) =>
           /\ rows[i].row.type # rows[j].row.type
           /\ "code" \notin {rows[i].row.by, rows[j].row.by}
=============================================================================
