--------------------------- MODULE InterviewSession ---------------------------
(***************************************************************************)
(* One interview session: its row, its main questions and the reward for   *)
(* its completion (apps/interview/views.py, apps/interview/mvp_views.py).  *)
(*                                                                         *)
(* Two generations of the API serve the same tables.  Three routes store   *)
(* main questions: the flat one in one transaction, the nested one and the *)
(* question pack row by row, each row committed by itself.  Three routes   *)
(* write the status: they read the row, compute, and write columns back,   *)
(* one of them all columns.  No route locks the row.                       *)
(***************************************************************************)
EXTENDS Naturals, FiniteSets

CONSTANTS Worker,     \* concurrent request workers
          MaxMain,    \* bound: questions asked for (20 in the code)
          MaxCalls,   \* bound: requests started
          MaxDeaths,  \* bound: requests that die half-way
          Never,      \* a timestamp that is null
          Gone        \* the row of a deleted session

Status == {"created", "in_progress", "completed", "cancelled", "failed"}

ASSUME InterviewBoundAssumption ==
  /\ MaxMain \in Nat \ {0} /\ MaxCalls \in Nat /\ MaxDeaths \in Nat
  /\ Never \notin Nat /\ Gone \notin [status : Status, started : Nat \cup {Never},
                                      ended : Nat \cup {Never}, total : Nat]

VARIABLES
  session,    \* the row of interview_sessions, or Gone
  mains,      \* its main questions: [ix |-> order_index, by |-> call that wrote it]
  rewarded,   \* the ledger has the key INTERVIEW.COMPLETED:<session>
  worker,     \* per worker: where it is in its call, and what the call holds
  calls, deaths,
  mixed,      \* history: generations overlapped, or one died
  cut,        \* history: questions were deleted while another call stored some
  unpaid      \* history: a completion the code does not, or could not, reward

interviewVars == <<session, mains, rewarded, worker, calls, deaths, mixed, cut, unpaid>>

Generations == {"flat", "nested", "pack"}

\* What a call holds: its number, its route, the status or the number of
\* questions asked for, whether it is a prompt test, its copy of the row, and
\* the next row it writes.
Idle == [at |-> "idle", id |-> 0, route |-> "none", to |-> "created", asks |-> 0,
         test |-> FALSE, row |-> Gone, next |-> 1]

Busy(w) == worker[w].at # "idle"
Writes(w) == Busy(w) /\ worker[w].route \in Generations
OthersStore(w) == \E v \in Worker \ {w} : worker[v].at = "rows"
Indexes == { q.ix : q \in mains }

InterviewInit ==
  /\ session = [status |-> "created", started |-> Never, ended |-> Never, total |-> MaxMain]
  /\ mains = {}
  /\ rewarded = FALSE
  /\ worker = [w \in Worker |-> Idle]
  /\ calls = 0 /\ deaths = 0
  /\ mixed = FALSE /\ cut = FALSE /\ unpaid = FALSE

Goto(w, s) == worker' = [worker EXCEPT ![w].at = s]
Return(w) == worker' = [worker EXCEPT ![w] = Idle]

\* A call finds the session and keeps a copy of its row.  A generation that
\* meets another call that writes questions or every column overlaps it.
Call(w, route, to, asks, test, s) ==
  /\ worker[w].at = "idle" /\ calls < MaxCalls /\ session # Gone
  /\ calls' = calls + 1
  /\ worker' = [worker EXCEPT ![w] = [at |-> s, id |-> calls + 1, route |-> route,
                 to |-> to, asks |-> asks, test |-> test, row |-> session, next |-> 1]]
  /\ mixed' = (mixed \/ \E v \in Worker \ {w} :
                  /\ Busy(v) /\ {route, worker[v].route} \cap Generations # {}
                  /\ {route, worker[v].route} \subseteq Generations \cup {"statusAll"})
  /\ UNCHANGED <<session, mains, rewarded, deaths, cut, unpaid>>

-----------------------------------------------------------------------------
(* Main questions *)

\* MVPQuestionGenerateView.post returns the questions that exist.  A call with
\* a prompt version is an administrator's test.
FlatGenerate(w, n, test) == mains = {} /\ Call(w, "flat", "created", n, test, "total")

\* InterviewQuestionGenerateView.post asks for session.total_question_count
\* questions, and deletes those that exist when it is forced to.
NestedGenerate(w, force) ==
  /\ force \/ mains = {}
  /\ session # Gone
  /\ Call(w, "nested", "created", session.total, FALSE, IF force THEN "delete" ELSE "resolve")

\* QuestionPackApplyView.post refuses a session with questions (409).
ApplyPack(w, n) == mains = {} /\ Call(w, "pack", "created", n, FALSE, "rows")

\* total_question_count, which the flat route writes before it generates and
\* the pack after its last row; update_fields on a deleted row raises.
SaveTotal(w) ==
  /\ worker[w].at = "total"
  /\ \/ /\ session = Gone
        /\ Return(w) /\ UNCHANGED session
     \/ /\ session # Gone
        /\ session' = [session EXCEPT !.total = worker[w].asks]
        /\ IF worker[w].route = "flat" THEN Goto(w, "generate") ELSE Return(w)
  /\ UNCHANGED <<mains, rewarded, calls, deaths, mixed, cut, unpaid>>

\* existing_qs.delete(): answers and follow-ups go with the questions.
DeleteAll(w) ==
  /\ worker[w].at = "delete"
  /\ mains' = {}
  /\ cut' = (cut \/ OthersStore(w))
  /\ Goto(w, "resolve")
  /\ UNCHANGED <<session, rewarded, calls, deaths, mixed, unpaid>>

\* _resolve_requested_jd_analysis: an analysis that is not found, not finished
\* or of other documents stops the call, after the deletion.
Resolve(w) ==
  /\ worker[w].at = "resolve"
  /\ Goto(w, "generate") \/ Return(w)
  /\ UNCHANGED <<session, mains, rewarded, calls, deaths, mixed, cut, unpaid>>

\* generate_interview_questions returns as many questions as were asked for.
Generate(w) ==
  /\ worker[w].at = "generate"
  /\ Goto(w, IF worker[w].route = "flat" THEN "store" ELSE "rows")
  /\ UNCHANGED <<session, mains, rewarded, calls, deaths, mixed, cut, unpaid>>

\* It raises, or the balance does not cover the start: a test's session is
\* deleted with its questions, another keeps what it has.
GenerateFails(w) ==
  /\ worker[w].at = "generate"
  /\ IF worker[w].test
     THEN session' = Gone /\ mains' = {} /\ cut' = (cut \/ OthersStore(w))
     ELSE UNCHANGED <<session, mains, cut>>
  /\ Return(w)
  /\ UNCHANGED <<rewarded, calls, deaths, mixed, unpaid>>

Questions(w) == { [ix |-> i, by |-> worker[w].id] : i \in 1 .. worker[w].asks }

\* bug: rows that exist are skipped (ignore_conflicts)
StoreMissing(w) ==
  /\ worker[w].at = "store"
  /\ mains' = mains \cup { q \in Questions(w) : q.ix \notin Indexes }
  /\ Return(w)
  /\ UNCHANGED <<session, rewarded, calls, deaths, mixed, cut, unpaid>>

\* The transaction of the flat route: the charge is refused, or an order_index
\* is taken, or the session is gone, and nothing is stored; else all are.
StoreAll(w) ==
  /\ worker[w].at = "store"
  /\ \/ UNCHANGED mains
     \/ /\ session # Gone /\ Indexes \cap (1 .. worker[w].asks) = {}
        /\ mains' = mains \cup Questions(w)
  /\ Return(w)
  /\ UNCHANGED <<session, rewarded, calls, deaths, mixed, cut, unpaid>>

\* One InterviewQuestion.objects.create outside a transaction: the unique
\* order_index, or the missing session, stops the call where it is.
StoreRow(w) ==
  LET i == worker[w].next
  IN /\ worker[w].at = "rows"
     /\ \/ /\ session = Gone \/ i \in Indexes
           /\ Return(w) /\ UNCHANGED mains
        \/ /\ session # Gone /\ i \notin Indexes
           /\ mains' = mains \cup {[ix |-> i, by |-> worker[w].id]}
           /\ IF i < worker[w].asks THEN worker' = [worker EXCEPT ![w].next = i + 1]
              ELSE IF worker[w].route = "pack" THEN Goto(w, "total")
              ELSE Return(w)
     /\ UNCHANGED <<session, rewarded, calls, deaths, mixed, cut, unpaid>>

-----------------------------------------------------------------------------
(* Status *)

\* InterviewSessionStatusUpdateView.patch
PatchAll(w, s) == s # "failed" /\ Call(w, "statusAll", s, 0, FALSE, "save")

\* MVPSessionStatusView.patch
PatchFlat(w, s) == s # "created" /\ Call(w, "statusFlat", s, 0, FALSE, "save")

\* InterviewSessionCompleteView.patch refuses a cancelled session and leaves a
\* completed one as it is.
Complete(w) ==
  /\ session # Gone
  /\ session.status \notin {"cancelled", "completed"}
  /\ Call(w, "complete", "completed", 0, FALSE, "save")

Ends(w) == worker[w].to \in
             {"completed", "cancelled"} \cup (IF worker[w].route = "statusFlat" THEN {"failed"} ELSE {})

\* The copy with the status asked for; the first start and end are stamped.
Stamped(w) ==
  [worker[w].row EXCEPT !.status = worker[w].to,
     !.started = IF worker[w].to = "in_progress" /\ @ = Never THEN calls ELSE @,
     !.ended = IF Ends(w) /\ @ = Never THEN calls ELSE @]

\* session.save(): all columns, and an INSERT when the row is gone.
SaveAll(w) ==
  /\ worker[w].at = "save" /\ worker[w].route = "statusAll"
  /\ session' = Stamped(w)
  /\ unpaid' = (unpaid \/ worker[w].to = "completed")
  /\ Return(w)
  /\ UNCHANGED <<mains, rewarded, calls, deaths, mixed, cut>>

\* bug: only a session in progress earns the reward
EarnsInProgress(w) == worker[w].to = "completed" /\ worker[w].row.status = "in_progress"

Earns(w) == worker[w].to = "completed" /\ worker[w].row.status # "completed"

\* save(update_fields=...): these columns only, and an error when the row is gone.
SaveStatus(w) ==
  /\ worker[w].at = "save" /\ worker[w].route \in {"statusFlat", "complete"}
  /\ \/ /\ session = Gone
        /\ Return(w) /\ UNCHANGED session
     \/ /\ session # Gone
        /\ session' = [session EXCEPT
             !.status = Stamped(w).status, !.ended = Stamped(w).ended,
             !.started = IF worker[w].route = "statusFlat" THEN Stamped(w).started ELSE @]
        /\ IF Earns(w) THEN Goto(w, "reward") ELSE Return(w)
  /\ UNCHANGED <<mains, rewarded, calls, deaths, mixed, cut, unpaid>>

\* apply_point_policy; a ValueError (the policy is inactive, the limit of the
\* day is reached) is swallowed.
Reward(w) ==
  /\ worker[w].at = "reward"
  /\ \/ rewarded' = TRUE /\ UNCHANGED unpaid
     \/ rewarded' = rewarded /\ unpaid' = TRUE
  /\ Return(w)
  /\ UNCHANGED <<session, mains, calls, deaths, mixed, cut>>

-----------------------------------------------------------------------------

\* A worker dies, with its call.
Die(w) ==
  /\ Busy(w) /\ deaths < MaxDeaths
  /\ deaths' = deaths + 1
  /\ mixed' = (mixed \/ Writes(w))
  /\ unpaid' = (unpaid \/ worker[w].at = "reward")
  /\ Return(w)
  /\ UNCHANGED <<session, mains, rewarded, calls, cut>>

InterviewNext ==
  \E w \in Worker :
    \/ \E n \in 1 .. MaxMain : (\E test \in BOOLEAN : FlatGenerate(w, n, test)) \/ ApplyPack(w, n)
    \/ \E force \in BOOLEAN : NestedGenerate(w, force)
    \/ SaveTotal(w) \/ DeleteAll(w) \/ Resolve(w) \/ Generate(w) \/ GenerateFails(w)
    \/ StoreAll(w) \/ StoreRow(w)
    \/ \E s \in Status : PatchAll(w, s) \/ PatchFlat(w, s)
    \/ Complete(w) \/ SaveAll(w) \/ SaveStatus(w) \/ Reward(w) \/ Die(w)

InterviewSpec == InterviewInit /\ [][InterviewNext]_interviewVars

-----------------------------------------------------------------------------
(* Properties *)

\* The three routes exclude one another through the unique order_index alone:
\* however they overlap and die, a session never holds questions of two
\* generations, nor a gap, unless a deletion cut into a call that stores rows.
\* total_question_count, on which the follow-up limit and the progress of the
\* turns rest, is their number once no call runs, whatever generations failed
\* before, as long as none overlapped or died.
OneQuestionSet ==
  /\ ~cut => /\ Cardinality({ q.by : q \in mains }) <= 1
             /\ Indexes = 1 .. Cardinality(mains)
  /\ (\A w \in Worker : ~Busy(w)) /\ ~mixed /\ mains # {} /\ session # Gone
       => session.total = Cardinality(mains)

\* A session that is completed has earned its reward once no call runs, unless
\* its status was written by the nested status route, which rewards nothing, or the
\* reward was refused or its call died before it.
CompletedIsRewarded ==
  (\A w \in Worker : ~Busy(w)) /\ ~unpaid /\ session # Gone
    => (session.status = "completed" => rewarded)

\* A session is consistent with what was asked and rewarded: the two together.
SessionConsistent == OneQuestionSet /\ CompletedIsRewarded
=============================================================================
