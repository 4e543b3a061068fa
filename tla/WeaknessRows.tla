------------------------------ MODULE WeaknessRows ------------------------------
(***************************************************************************)
(* The weakness rows of one answer.  Two parts of the program write them   *)
(* and neither locks: a request for a follow-up looks for the row of the   *)
(* weakness it will ask about, or makes one, before the model is called,   *)
(* and links it to the question afterwards (follow_up_generator.py); the   *)
(* evaluation adds a row for each weakness it finds (session_evaluation.py,*)
(* _persist_pipeline_tags).  Reports read the order of the rows and how    *)
(* many there are of each tag.  What comes before in a request - limits,   *)
(* judgement, guardrail - is in FollowUps.                                 *)
(***************************************************************************)
EXTENDS WeaknessNames, Naturals, Sequences, FiniteSets

CONSTANTS Asker,      \* overlapping requests for a follow-up
          Names,      \* how judgements may name a weakness
          Verdicts,   \* what the evaluation finds: [found, picked]
          NoWeakness,
          MaxAsks     \* bound: requests

ASSUME RowsAssumption ==
  /\ IsFiniteSet(Asker) /\ MaxAsks \in Nat
  /\ \A v \in Verdicts : v.found \in Seq(STRING)

VARIABLES
  answerKept,   \* the answer is there; its rows and follow-ups go with it
  tagRows,      \* rows: [id, tag, rank, picked, used, link]; a later one has a larger id
  evaluated,    \* the verdict that was stored, and whether it was the first to store rows
  shown,        \* follow-ups of the answer that are there
  made,         \* all follow-ups that were stored, in order: [id, tag]
  asker,        \* per request: [at, id, tag, row, rank]
  asks

rowVars == <<answerKept, tagRows, evaluated, shown, made, asker, asks>>

NotAsking == [at |-> "idle", id |-> 0, tag |-> NoWeakness, row |-> 0, rank |-> 0]
NotEvaluated == [found |-> <<>>, picked |-> NoWeakness, first |-> FALSE]

RowsInit ==
  /\ answerKept = TRUE /\ tagRows = {} /\ evaluated = NotEvaluated
  /\ shown = {} /\ made = <<>> /\ asker = [a \in Asker |-> NotAsking] /\ asks = 0

\* _normalize_weakness_tag_name: what is not named at all is an abstract answer.
TagNamed(name) == TagOf(IF name = NoWeakness THEN "ABSTRACT_ANSWER" ELSE name)

\* The model's Meta.ordering: priority_rank, then created_at.
FirstRow(S) == CHOOSE r \in S : \A s \in S : r.rank < s.rank \/ (r.rank = s.rank /\ r.id <= s.id)
LastRank == IF tagRows = {} THEN 0
            ELSE CHOOSE n \in { r.rank : r \in tagRows } : \A r \in tagRows : r.rank <= n
NextId == IF tagRows = {} THEN 1
          ELSE 1 + (CHOOSE n \in { r.id : r \in tagRows } : \A r \in tagRows : r.id <= n)

Moves(a, s) == asker' = [asker EXCEPT ![a].at = s]
Stops(a) == asker' = [asker EXCEPT ![a] = NotAsking]

\* A request passes if the answer has no follow-up; the nested route deletes those there
\* are when it is told to.
AskFor(a, name, anew) ==
  /\ asker[a].at = "idle" /\ answerKept /\ asks < MaxAsks
  /\ anew \/ shown = {}
  /\ shown' = {} /\ asks' = asks + 1
  /\ asker' = [asker EXCEPT ![a] = [NotAsking EXCEPT !.at = "find", !.id = asks + 1, !.tag = TagNamed(name)]]
  /\ UNCHANGED <<answerKept, tagRows, evaluated, made>>

\* An unverified claim is asked to be confirmed, and no weakness is noted.
Confirm(a) ==
  /\ asker[a].at = "find"
  /\ Stops(a)
  /\ IF answerKept
     THEN /\ shown' = shown \cup {asker[a].id}
          /\ made' = Append(made, [id |-> asker[a].id, tag |-> NoWeakness])
     ELSE UNCHANGED <<shown, made>>
  /\ UNCHANGED <<answerKept, tagRows, evaluated, asks>>

\* bug: a row that has its follow-up is not taken again
RowsUnlinked(tag) == { r \in tagRows : r.tag = tag /\ r.link = 0 }

RowsOf(tag) == { r \in tagRows : r.tag = tag }

\* _get_or_create_answer_weakness_mapping: the first row of the tag ...
FindRow(a) ==
  LET rows == RowsOf(asker[a].tag)
  IN  /\ asker[a].at = "find"
      /\ asker' = [asker EXCEPT ![a].at = IF rows = {} THEN "rank" ELSE "flag",
                                ![a].row = IF rows = {} THEN 0 ELSE FirstRow(rows).id]
      /\ UNCHANGED <<answerKept, tagRows, evaluated, shown, made, asks>>

Row(a) == { r \in tagRows : r.id = asker[a].row }

\* ... is marked; saving a row that is gone raises ...
FlagRow(a) ==
  /\ asker[a].at = "flag"
  /\ IF Row(a) = {} THEN Stops(a) ELSE Moves(a, "generate")
  /\ tagRows' = (tagRows \ Row(a)) \cup { [r EXCEPT !.picked = TRUE, !.used = TRUE] : r \in Row(a) }
  /\ UNCHANGED <<answerKept, evaluated, shown, made, asks>>

\* ... and if there is none, one is put behind the others, whose ranks are read first.
RankRow(a) ==
  /\ asker[a].at = "rank"
  /\ asker' = [asker EXCEPT ![a].at = "create", ![a].rank = LastRank + 1]
  /\ UNCHANGED <<answerKept, tagRows, evaluated, shown, made, asks>>

CreateRow(a) ==
  /\ asker[a].at = "create"
  /\ IF answerKept
     THEN /\ tagRows' = tagRows \cup {[id |-> NextId, tag |-> asker[a].tag, rank |-> asker[a].rank,
                                       picked |-> TRUE, used |-> TRUE, link |-> 0]}
          /\ asker' = [asker EXCEPT ![a].at = "generate", ![a].row = NextId]
     ELSE UNCHANGED tagRows /\ Stops(a)
  /\ UNCHANGED <<answerKept, evaluated, shown, made, asks>>

\* The model may fail, or reply without a question: the row remains.
AskForQuestion(a) ==
  /\ asker[a].at = "generate"
  /\ Moves(a, "insert") \/ Stops(a)
  /\ UNCHANGED <<answerKept, tagRows, evaluated, shown, made, asks>>

\* The transaction stores the question and links the row to it, both or neither: the index
\* may be taken, and the answer or its row be gone.
StoreFollowUp(a) ==
  LET stored == /\ shown' = shown \cup {asker[a].id}
                /\ made' = Append(made, [id |-> asker[a].id, tag |-> asker[a].tag])
                /\ tagRows' = (tagRows \ Row(a)) \cup { [r EXCEPT !.link = asker[a].id] : r \in Row(a) }
  IN  /\ asker[a].at = "insert"
      /\ Stops(a)
      /\ (answerKept /\ Row(a) # {} /\ stored) \/ UNCHANGED <<shown, made, tagRows>>
      /\ UNCHANGED <<answerKept, evaluated, asks>>

\* _persist_pipeline_tags, once per answer and in the transaction of the evaluation: a row
\* per weakness, whether or not there is one of that tag.
Evaluate(v) ==
  /\ answerKept /\ evaluated = NotEvaluated
  /\ evaluated' = [found |-> v.found, picked |-> v.picked, first |-> tagRows = {}]
  /\ tagRows' = tagRows \cup
       { [id |-> NextId + i - 1, tag |-> v.found[i], rank |-> i, picked |-> v.found[i] = v.picked,
          used |-> FALSE, link |-> 0] : i \in DOMAIN v.found }
  /\ UNCHANGED <<answerKept, shown, made, asker, asks>>

\* The questions are generated anew, and the answers go with the old ones.
RemoveAnswer ==
  /\ answerKept /\ answerKept' = FALSE
  /\ tagRows' = {} /\ shown' = {} /\ evaluated' = NotEvaluated
  /\ UNCHANGED <<made, asker, asks>>

RowsNext ==
  \/ \E a \in Asker :
       \/ \E name \in Names, anew \in BOOLEAN : AskFor(a, name, anew)
       \/ Confirm(a) \/ FindRow(a) \/ FlagRow(a) \/ RankRow(a) \/ CreateRow(a)
       \/ AskForQuestion(a) \/ StoreFollowUp(a)
  \/ \E v \in Verdicts : Evaluate(v)
  \/ RemoveAnswer

RowsSpec == RowsInit /\ [][RowsNext]_rowVars

-----------------------------------------------------------------------------
(* What the readers take from the rows *)

\* _build_question_breakdown: the advice for an answer is the reason of its first row.
Advised == IF tagRows = {} THEN NoWeakness ELSE FirstRow(tagRows).tag

\* get_session_weakness_recommended_questions and the report count the rows of each tag.
TagCount(tag) == Cardinality(RowsOf(tag))

-----------------------------------------------------------------------------
(* Properties *)

FoundTimes(tag) == Cardinality({ i \in DOMAIN evaluated.found : evaluated.found[i] = tag })

Told(tag) == { i \in DOMAIN made : made[i].tag = tag }

\* A link leads to a follow-up about the row's weakness, and the latest one about each
\* weakness is linked, also after it was deleted.
LinksTell ==
  /\ \A r \in tagRows : r.link # 0 =>
       r.picked /\ r.used /\ \E i \in Told(r.tag) : made[i].id = r.link
  /\ answerKept => \A i \in DOMAIN made :
       made[i].tag # NoWeakness /\ (\A j \in Told(made[i].tag) : j <= i)
         => \E r \in RowsOf(made[i].tag) : r.link = made[i].id

\* A weakness counts as often as the evaluation found it, and once more for each request
\* that overlaps.  What the evaluation put first is what the report advises, unless a
\* follow-up had been asked for before.
RowsCount ==
  /\ \A r \in tagRows : TagCount(r.tag) <= FoundTimes(r.tag) + Cardinality(Asker)
  /\ \A i \in DOMAIN evaluated.found : \E r \in tagRows :
       r.tag = evaluated.found[i] /\ r.rank = i /\ (r.tag = evaluated.picked => r.picked)
  /\ evaluated.first /\ evaluated.found # <<>> => Advised = evaluated.found[1]

\* The rows of an answer tell which weakness was followed up, and the weaknesses that were
\* found, whatever overlaps, fails or is deleted (follow_up_generator.py:838-924).
RowsTellFollowups == LinksTell /\ RowsCount
=============================================================================
