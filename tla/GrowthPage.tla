------------------------------ MODULE GrowthPage ------------------------------
(***************************************************************************)
(* What a user is told of his progress (mypage/views.py, GrowthView and    *)
(* InterviewHistoryView), from the reports of his sessions and the         *)
(* weaknesses found in their answers.  Sessions are created, completed and *)
(* set back, their reports are generated, fail and are generated anew, and *)
(* their answers are evaluated again, in any order; the page takes them in *)
(* the order they were created in.  Scores and tags are inputs.            *)
(***************************************************************************)
EXTENDS Integers, SequencesExt, Lists

CONSTANTS Weakness,      \* names of weakness tags
          None,          \* no value in a summary, no report, no row
          Summaries,     \* what a report may be told by its summary
          Kinds,         \* interview types
          Versions,      \* versions of the prompts a session is made with
          TagCounts,     \* how often a session may have each tag
          Histories,     \* the sessions a user has when we begin to look
          Filters,       \* the interview types asked for; None asks for all
          MaxShown,      \* the trends a page has room for: 5
          MaxSessions,   \* bound: sessions
          MaxChanges     \* bound: changes of sessions

ASSUME GrowthAssumption ==
  {MaxShown, MaxSessions, MaxChanges} \subseteq Nat /\ IsFiniteSet(Weakness) /\ None \notin Weakness

\* A session has each tag so many times.
ASSUME TagsAssumption == TagCounts \subseteq [Weakness -> Nat]

\* The summary of a row that has just been created.
EmptySummary ==
  [scores |-> <<>>, mock |-> "no", stated |-> None, answers |-> 0, evaluated |-> 0, metric |-> None]

ReportRows == [status : {"processing", "done", "failed"}, summary : Summaries \cup {EmptySummary}]

\* Rows InterviewSession, with the report and the tags of its answers; of the states a
\* session may have, the page asks only whether it is completed.
Sessions ==
  [status : {"open", "completed"}, kind : Kinds, versions : Versions, tags : TagCounts,
   report : {None} \cup ReportRows]

ASSUME HistoriesAssumption == Histories \subseteq Seq(Sessions)

VARIABLES history,  \* the user's sessions, in the order they were created in
          filter,   \* the type of interview the page is asked for
          growth,   \* the page
          changed   \* changes of sessions so far

growthVars == <<history, filter, growth, changed>>

-----------------------------------------------------------------------------
(* A report's summary (properties of FinalReport) *)

\* Summaries have been stored in several forms: the score is looked for in each.
OverallScore(sm) ==
  LET found == { i \in DOMAIN sm.scores : sm.scores[i] # None }
  IN  IF found = {} THEN None ELSE sm.scores[Min(found)]

IsMock(sm) == sm.mock \in {"flag", "source"}

EvaluationStatus(sm) ==
  IF IsMock(sm) THEN "MOCK"
  ELSE IF sm.stated # None THEN sm.stated
  ELSE IF sm.answers > 0 /\ sm.evaluated = 0 THEN "FAILED"
  ELSE IF OverallScore(sm) = None THEN "PENDING"
  ELSE "COMPLETED"

ScoreStatus(sm) ==
  IF IsMock(sm) THEN "MOCK" ELSE IF OverallScore(sm) = None THEN "NOT_EVALUATED" ELSE "SCORED"

\* InterviewHistorySerializer: one line of the list of sessions.
HistoryLine(s) ==
  IF s.report = None
  THEN [score |-> None, scored |-> "NOT_EVALUATED", evaluated |-> "PENDING", mock |-> FALSE]
  ELSE LET sm == s.report.summary
       IN  [score |-> OverallScore(sm), scored |-> ScoreStatus(sm),
            evaluated |-> EvaluationStatus(sm), mock |-> IsMock(sm)]

-----------------------------------------------------------------------------
(* The sessions that count *)

\* As if a report that is generated anew, or failed, still counted with its old summary.
CountsUnfinished(s) ==
  /\ s.report # None
  /\ ~IsMock(s.report.summary) /\ EvaluationStatus(s.report.summary) = "COMPLETED"
  /\ OverallScore(s.report.summary) # None

Counts(s) ==
  /\ s.report # None
  /\ s.report.status = "done"
  /\ ~IsMock(s.report.summary) /\ EvaluationStatus(s.report.summary) = "COMPLETED"
  /\ OverallScore(s.report.summary) # None

\* A session is on a page that is asked for f.
IsPoint(s, f) == s.status = "completed" /\ (f = None \/ s.kind = f) /\ Counts(s)

Points(hs, f) == Where(hs, { i \in DOMAIN hs : IsPoint(hs[i], f) })

Score(p) == OverallScore(p.report.summary)

\* The tags of the first session that the last one does not have.
Improved(ps) ==
  Cardinality({ w \in Weakness : Head(ps).tags[w] > 0 /\ ps[Len(ps)].tags[w] = 0 })

\* _generate_insights: at most three remarks.
Insights(delta, improved, n) ==
  LET score == IF delta > 15 THEN "strong" ELSE IF delta > 0 THEN "up"
               ELSE IF delta = 0 THEN "steady" ELSE "down"
      tags == IF improved >= 3 THEN <<"many resolved">>
              ELSE IF improved > 0 THEN <<"some resolved">> ELSE <<>>
      pace == IF n >= 5 THEN <<"consistent">> ELSE IF n >= 2 THEN <<"go on">> ELSE <<>>
  IN  <<score>> \o tags \o pace

\* _growth_comparison: the last two points; a metric that one of them lacks is left out.
Comparison(ps) ==
  IF Len(ps) < 2 THEN [available |-> FALSE, overall |-> 0, metric |-> None, warned |-> FALSE]
  ELSE LET before == ps[Len(ps) - 1]
           now == ps[Len(ps)]
       IN  [available |-> TRUE, overall |-> Score(now) - Score(before),
            metric |-> IF None \in {now.report.summary.metric, before.report.summary.metric} THEN None
                       ELSE now.report.summary.metric - before.report.summary.metric,
            warned |-> now.versions # before.versions]

-----------------------------------------------------------------------------
(* _weakness_trend: the older half of the points against the rest *)

TagCount(ps, w) == Total([i \in DOMAIN ps |-> ps[i].tags[w]])

Names == SetToSeq(Weakness)

TagTotal(ps) == Total([k \in DOMAIN Names |-> TagCount(ps, Names[k])])

Tags(ps) == { w \in Weakness : TagCount(ps, w) > 0 }

AtLeastOne(n) == IF n = 0 THEN 1 ELSE n

\* The share of a tag among the tags of some points, multiplied by what makes it
\* comparable with its share among the others.
Share(ps, w, other) == TagCount(ps, w) * AtLeastOne(TagTotal(other))

Half(ps) == IF Len(ps) \div 2 = 0 THEN 1 ELSE Len(ps) \div 2

Older(ps) == SubSeq(ps, 1, Half(ps))

Recent(ps) == SubSeq(ps, Half(ps) + 1, Len(ps))

\* The most frequent tags of late; which one of equals, is any.
ShownTags(ps) ==
  IF Cardinality(Tags(ps)) <= MaxShown THEN Tags(ps)
  ELSE CHOOSE top \in SUBSET Tags(ps) :
         /\ Cardinality(top) = MaxShown
         /\ \A v \in top, w \in Tags(ps) \ top : TagCount(Recent(ps), v) >= TagCount(Recent(ps), w)

Direction(was, is) == IF is < was THEN "IMPROVING" ELSE IF is > was THEN "WORSENING" ELSE "STABLE"

Trend(ps) ==
  IF Len(ps) < 2 THEN <<>>
  ELSE [w \in ShownTags(ps) |->
          Direction(Share(Older(ps), w, Recent(ps)), Share(Recent(ps), w, Older(ps)))]

\* GrowthView.get
GrowthOf(hs, f) ==
  LET ps == Points(hs, f)
      delta == Score(ps[Len(ps)]) - Score(Head(ps))
  IN  IF ps = <<>> THEN [scores |-> <<>>, delta |-> 0, improved |-> 0, compared |-> Comparison(<<>>),
                         trend |-> <<>>, told |-> <<"none">>]
      ELSE [scores |-> [i \in DOMAIN ps |-> Score(ps[i])], delta |-> delta, improved |-> Improved(ps),
            compared |-> Comparison(ps), trend |-> Trend(ps),
            told |-> Insights(delta, Improved(ps), Len(ps))]

GrowthInit ==
  /\ history \in Histories /\ filter \in Filters
  /\ growth = GrowthOf(history, filter)
  /\ changed = 0

\* The sessions become hs, and the page is opened again.
ChangeAndLook(hs) ==
  /\ changed < MaxChanges
  /\ changed' = changed + 1
  /\ history' = hs
  /\ growth' = GrowthOf(hs, filter)
  /\ UNCHANGED filter

Create(k, v) ==
  /\ Len(history) < MaxSessions
  /\ \E t \in TagCounts :
       /\ \A w \in Weakness : t[w] = 0
       /\ ChangeAndLook(Append(history, [status |-> "open", kind |-> k, versions |-> v, tags |-> t,
                                         report |-> None]))

Change(i, s) == ChangeAndLook([history EXCEPT ![i] = s])

\* A session is completed, or a PATCH sets another status, that of a completed one too.
SetStatus(i, st) == Change(i, [history[i] EXCEPT !.status = st])

\* Answers are evaluated, or evaluated again.
TagsFound(i, t) == Change(i, [history[i] EXCEPT !.tags = t])

\* Questions are generated, with prompts that may be others by now.
PromptsChosen(i, v) == Change(i, [history[i] EXCEPT !.versions = v])

\* The report is claimed: the summary of an earlier one is kept.
ReportClaimed(i) ==
  Change(i, [history[i] EXCEPT !.report =
    [status |-> "processing", summary |-> IF history[i].report = None THEN EmptySummary
                                          ELSE history[i].report.summary]])

\* A thread writes its result, whatever the row has become.
ReportWritten(i, sm) ==
  /\ history[i].report # None
  /\ Change(i, [history[i] EXCEPT !.report =
       [status |-> IF sm.answers > 0 /\ sm.evaluated = 0 THEN "failed" ELSE "done", summary |-> sm]])

\* A thread fails, and leaves the summary.
ReportFailed(i) ==
  /\ history[i].report # None
  /\ Change(i, [history[i] EXCEPT !.report.status = "failed"])

GrowthNext ==
  \/ \E k \in Kinds, v \in Versions : Create(k, v)
  \/ \E i \in DOMAIN history :
       \/ \E st \in {"open", "completed"} : SetStatus(i, st)
       \/ \E t \in TagCounts : TagsFound(i, t)
       \/ \E v \in Versions : PromptsChosen(i, v)
       \/ \E sm \in Summaries : ReportWritten(i, sm)
       \/ ReportClaimed(i) \/ ReportFailed(i)

GrowthSpec == GrowthInit /\ [][GrowthNext]_growthVars

-----------------------------------------------------------------------------
(* Properties *)

\* Unless some tags are not shown: with tags in both halves, whose shares add up to
\* one in each, some weakness gets worse if and only if another improves; and with two
\* sessions a tag that the last one no longer has is one that improves.
TrendBalances(g, ps) ==
  LET states == { g.trend[w] : w \in DOMAIN g.trend }
  IN  Cardinality(Tags(ps)) <= MaxShown
      => /\ Len(ps) >= 2 /\ TagTotal(Older(ps)) > 0 /\ TagTotal(Recent(ps)) > 0
              => ("WORSENING" \in states <=> "IMPROVING" \in states)
         /\ Len(ps) = 2 => Cardinality({ w \in DOMAIN g.trend : g.trend[w] = "IMPROVING" }) >= g.improved

\* The list of sessions shows a completed session as evaluated and scored, and its report
\* is neither failed nor being generated.
ListedAsEvaluated(s, f) ==
  LET line == HistoryLine(s)
  IN  /\ s.status = "completed" /\ (f = None \/ s.kind = f)
      /\ line.evaluated = "COMPLETED" /\ line.scored = "SCORED" /\ ~line.mock
      /\ s.report.status = "done"

\* The scores of the page are those of the list, in the order the sessions were created.
ScoredAsListed(hs, f, g) ==
  LET listed == { i \in DOMAIN hs : ListedAsEvaluated(hs[i], f) }
  IN  /\ Len(g.scores) = Cardinality(listed)
      /\ \A i \in listed :
           g.scores[Cardinality({ j \in listed : j <= i })] = HistoryLine(hs[i]).score

\* A session whose report fails, is a mock, is being generated or has no evaluated answer,
\* and one that is not completed, can come, change and go without a trace on the page: what
\* changes it is a session that was listed as evaluated, or is now.  A report that is
\* finished late takes its session's place, not the last one, and what the page says of
\* weaknesses fits together (mypage/views.py:61, :226).
GrowthFollowsEvaluations ==
  [][/\ growth' # growth
          => \E i \in DOMAIN history' :
               \/ i \in DOMAIN history /\ history'[i] # history[i]
                  /\ (ListedAsEvaluated(history[i], filter) \/ ListedAsEvaluated(history'[i], filter))
               \/ i \notin DOMAIN history /\ ListedAsEvaluated(history'[i], filter)
     /\ ScoredAsListed(history', filter, growth')
     /\ TrendBalances(growth', Points(history', filter))]_growthVars
=============================================================================
