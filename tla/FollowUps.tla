------------------------------- MODULE FollowUps -------------------------------
(***************************************************************************)
(* Answers and follow-up questions of a session whose main questions are   *)
(* stored (services/follow_up_generator.py, services/answer_service.py and *)
(* the two generations of views over them).                                *)
(*                                                                         *)
(* FollowupGenerator.create_followup looks for a follow-up, asks a cache   *)
(* whether the answer was judged sufficient, counts the follow-ups, waits  *)
(* for two calls of a language model and only then stores a question under *)
(* the next order_index.  Nothing is locked while it waits.  The weakness  *)
(* row it marks beside the question is in WeaknessRows, what is asked in   *)
(* FollowupQuestion.                                                       *)
(***************************************************************************)
EXTENDS Naturals, FiniteSets

CONSTANTS Caller,         \* concurrent requests for a follow-up
          NumMain,        \* main questions
          MaxPerMain,     \* MAX_FOLLOWUPS_PER_MAIN_QUESTION
          MaxPerSession,  \* MAX_FOLLOWUPS_PER_SESSION
          MaxRequests,    \* bound: requests for a follow-up
          MaxRewrites     \* bound: the questions whose answers are rewritten, once each

Main == 1 .. NumMain
Id == 1 .. NumMain + MaxRequests

ASSUME FollowUpAssumption ==
  /\ IsFiniteSet(Caller) /\ Caller # {}
  /\ NumMain \in Nat /\ MaxRequests \in Nat /\ MaxRewrites \in Nat
  /\ MaxPerMain \in Nat \ {0} /\ MaxPerSession \in Nat \ {0}

VARIABLES
  asked,     \* the questions: id, order_index, parent (0 for a main one), and
             \* the ids above it, with which it is deleted
  version,   \* per question: 0 while unanswered, then how often the answer was written
  refused,   \* cache interview:no_followup:<answer>:<updated_at>
  caller,    \* per request: where it is, the question whose answer it holds,
             \* the version it read, and the last order_index it saw
  requests   \* requests so far; a follow-up gets the number of its request as id

followVars == <<asked, version, refused, caller, requests>>

Resting == [at |-> "idle", id |-> 0, on |-> 0, seen |-> 0, last |-> 0]

Followups == { q \in asked : q.parent # 0 }
Exists(i) == \E q \in asked : q.id = i
Of(i) == { q \in asked : q.parent = i }
LastIndex == IF asked = {} THEN 0
             ELSE CHOOSE n \in { q.ix : q \in asked } : \A q \in asked : q.ix <= n
The(i) == CHOOSE q \in asked : q.id = i

\* _get_main_question climbs from a follow-up to its main question.
MainOf(i) == IF The(i).parent = 0 THEN i ELSE CHOOSE m \in The(i).above : m \in Main

FollowInit ==
  /\ asked = { [id |-> m, ix |-> m, parent |-> 0, above |-> {}] : m \in Main }
  /\ version = [i \in Id |-> 0]
  /\ refused = {}
  /\ caller = [c \in Caller |-> Resting]
  /\ requests = 0

Step(c, s) == caller' = [caller EXCEPT ![c].at = s]
Finish(c) == caller' = [caller EXCEPT ![c] = Resting]

-----------------------------------------------------------------------------
(* Answers *)

MayRewrite(i) == version[i] = 1 /\ i <= MaxRewrites

\* AnswerService.create_answer: one answer per question, by the look-up and by
\* the unique constraint behind it.
CreateAnswer(i) ==
  /\ Exists(i) /\ version[i] = 0
  /\ version' = [version EXCEPT ![i] = 1]
  /\ UNCHANGED <<asked, refused, caller, requests>>

\* InterviewAnswerSaveView.post (update_or_create) replaces an answer; what was
\* generated from the former text stays.
SaveAnswer(i) ==
  /\ Exists(i) /\ (version[i] = 0 \/ MayRewrite(i))
  /\ version' = [version EXCEPT ![i] = version[i] + 1]
  /\ UNCHANGED <<asked, refused, caller, requests>>

\* MVPSTTResultUpdateView.patch overwrites the text of an answer.
UpdateSpeech(i) ==
  /\ MayRewrite(i)
  /\ version' = [version EXCEPT ![i] = version[i] + 1]
  /\ UNCHANGED <<asked, refused, caller, requests>>

-----------------------------------------------------------------------------
(* Deletions *)

\* The questions of ids S go, and with them their answers and what lies below.
Delete(S) ==
  LET gone == { q \in asked : q.id \in S \/ q.above \cap S # {} }
  IN /\ asked' = asked \ gone
     /\ version' = [i \in Id |-> IF \E q \in gone : q.id = i THEN 0 ELSE version[i]]

\* InterviewQuestionGenerateView.post with force_regenerate.
DeleteSession ==
  /\ asked # {}
  /\ Delete(Main)
  /\ UNCHANGED <<refused, caller, requests>>

-----------------------------------------------------------------------------
(* Follow-up requests *)

\* MVPFollowupQuestionCreateView.post reads the answer.
Request(c, i) ==
  /\ caller[c].at = "idle" /\ version[i] > 0 /\ requests < MaxRequests
  /\ caller' = [caller EXCEPT ![c] = [Resting EXCEPT !.at = "look", !.id = NumMain + requests + 1, !.on = i, !.seen = version[i]]]
  /\ requests' = requests + 1
  /\ UNCHANGED <<asked, version, refused>>

\* FollowUpGenerateView.post returns the follow-ups the answer has, or deletes
\* them first when it is forced.
RequestNested(c, i, force) ==
  /\ caller[c].at = "idle" /\ version[i] > 0 /\ requests < MaxRequests /\ (force \/ Of(i) = {})
  /\ caller' = [caller EXCEPT ![c] =
       [Resting EXCEPT !.at = IF force THEN "drop" ELSE "look", !.on = i,
                       !.id = NumMain + requests + 1, !.seen = version[i]]]
  /\ requests' = requests + 1
  /\ UNCHANGED <<asked, version, refused>>

Drop(c) ==
  /\ caller[c].at = "drop"
  /\ Delete({ q.id : q \in Of(caller[c].on) })
  /\ Step(c, "look")
  /\ UNCHANGED <<refused, requests>>

Refuse(c) == refused' = refused \cup {[id |-> caller[c].on, seen |-> caller[c].seen]}

\* create_followup: a follow-up that exists is returned, and so is a cached
\* decision for this version of the answer.
Look(c) ==
  LET i == caller[c].on
  IN /\ caller[c].at = "look"
     /\ IF Of(i) # {} \/ [id |-> i, seen |-> caller[c].seen] \in refused
        THEN Finish(c) ELSE Step(c, "perMain")
     /\ UNCHANGED <<asked, version, refused, requests>>

\* _check_followup_limit, the follow-ups of the main question.
CountOfMain(c) == Cardinality(Of(MainOf(caller[c].on)))

CountPerMain(c) ==
  /\ caller[c].at = "perMain"
  /\ \/ Exists(caller[c].on) /\ CountOfMain(c) < MaxPerMain /\ Step(c, "perSession") /\ UNCHANGED refused
     \/ ~Exists(caller[c].on) /\ Step(c, "perSession") /\ UNCHANGED refused
     \/ Exists(caller[c].on) /\ CountOfMain(c) >= MaxPerMain /\ Refuse(c) /\ Finish(c)
  /\ UNCHANGED <<asked, version, requests>>

\* _check_followup_limit, the session: its follow-ups, and all its questions
\* against the main ones plus the limit.
RoomInSession == Cardinality(Followups) < MaxPerSession

CountPerSession(c) ==
  /\ caller[c].at = "perSession"
  /\ IF RoomInSession THEN Step(c, "judge") /\ UNCHANGED refused
     ELSE Refuse(c) /\ Finish(c)
  /\ UNCHANGED <<asked, version, requests>>

\* _should_generate_followup: the next action of the judgement decides, then its flag.
ShouldGenerate(judged) ==
  \/ judged.next = "GENERATE_FOLLOWUP"
  \/ judged.next = "none" /\ judged.flag = "true"

Judgement == [next : {"GENERATE_FOLLOWUP", "NEXT_QUESTION", "none"},
              flag : {"true", "false", "absent"}, weakness : BOOLEAN]

\* judge_answer_sufficiency fails, or judges: an answer that suffices is cached
\* as decided; a judgement that names no weakness ends the request uncached.
Judge(c) ==
  /\ caller[c].at = "judge"
  /\ \/ Finish(c) /\ UNCHANGED refused
     \/ \E j \in Judgement :
          \/ ~ShouldGenerate(j) /\ Refuse(c) /\ Finish(c)
          \/ ShouldGenerate(j) /\ ~j.weakness /\ Finish(c) /\ UNCHANGED refused
          \/ ShouldGenerate(j) /\ j.weakness /\ Step(c, "guard") /\ UNCHANGED refused
  /\ UNCHANGED <<asked, version, requests>>

\* What check_followup_guardrail decides (FollowupQuestion): what is off limits
\* gets no follow-up; an unverified claim is asked to be confirmed, without
\* another call of the model.
Guard(c) ==
  /\ caller[c].at = "guard"
  /\ \/ Refuse(c) /\ Finish(c)
     \/ Step(c, "index") /\ UNCHANGED refused
     \/ Step(c, "generate") /\ UNCHANGED refused
  /\ UNCHANGED <<asked, version, requests>>

\* generate_followup_question, which may fail or return no question.
GenerateQuestion(c) ==
  /\ caller[c].at = "generate"
  /\ Step(c, "index") \/ Finish(c)
  /\ UNCHANGED <<asked, version, refused, requests>>

\* The transaction reads Max("order_index") ...
ReadIndex(c) ==
  /\ caller[c].at = "index"
  /\ caller' = [caller EXCEPT ![c].at = "insert", ![c].last = LastIndex]
  /\ UNCHANGED <<asked, version, refused, requests>>

\* bug: the index is not unique in the session
InsertAnyway(c) ==
  LET i == caller[c].on
  IN /\ caller[c].at = "insert"
     /\ Finish(c)
     /\ asked' = asked \cup {[id |-> caller[c].id, ix |-> caller[c].last + 1, parent |-> i,
                              above |-> {i}]}
     /\ UNCHANGED <<version, refused, requests>>

\* ... and inserts behind it: an index taken meanwhile, or an answer deleted
\* meanwhile, fails the request and stores nothing.
Insert(c) ==
  LET i == caller[c].on
      next == caller[c].last + 1
  IN /\ caller[c].at = "insert"
     /\ Finish(c)
     /\ \/ /\ ~Exists(i) \/ \E q \in asked : q.ix = next
           /\ UNCHANGED asked
        \/ /\ Exists(i) /\ \A q \in asked : q.ix # next
           /\ asked' = asked \cup {[id |-> caller[c].id, ix |-> next, parent |-> i,
                                    above |-> The(i).above \cup {i}]}
     /\ UNCHANGED <<version, refused, requests>>

-----------------------------------------------------------------------------
(* Turns *)

Answered == { m \in Main : Exists(m) /\ version[m] > 0 }
First(S) == CHOOSE m \in S : \A n \in S : m <= n

\* InterviewSessionTurnsView.get tells the client what to do next: the first
\* answered main question without a follow-up, else the first unanswered one.
NextAction ==
  LET pending == { m \in Answered : Of(m) = {} }
      unanswered == { m \in Main : Exists(m) } \ Answered
  IN IF pending # {} THEN [type |-> "GENERATE_FOLLOW_UP", on |-> First(pending)]
     ELSE IF unanswered # {} THEN [type |-> "ANSWER_CURRENT_QUESTION", on |-> First(unanswered)]
     ELSE [type |-> "COMPLETE_INTERVIEW", on |-> 0]

-----------------------------------------------------------------------------

FollowNext ==
  \/ \E i \in Id : CreateAnswer(i) \/ SaveAnswer(i) \/ UpdateSpeech(i)
  \/ DeleteSession
  \/ \E c \in Caller :
       \/ \E i \in Id : Request(c, i) \/ \E force \in BOOLEAN : RequestNested(c, i, force)
       \/ Drop(c) \/ Look(c) \/ CountPerMain(c) \/ CountPerSession(c)
       \/ Judge(c) \/ Guard(c) \/ GenerateQuestion(c) \/ ReadIndex(c) \/ Insert(c)

FollowSpec == FollowInit /\ [][FollowNext]_followVars

-----------------------------------------------------------------------------
(* Properties *)

\* MAX_FOLLOWUPS_PER_SESSION is exceeded by at most one follow-up for each other
\* request that overlaps: requests one at a time keep it exactly.
\* The same holds of MAX_FOLLOWUPS_PER_MAIN_QUESTION, counting every follow-up
\* below a main question, those of follow-ups too.
FollowupsBounded ==
  /\ Cardinality(Followups) <= MaxPerSession + Cardinality(Caller) - 1
  /\ \A m \in Main :
       Cardinality({ q \in Followups : m \in q.above }) <= MaxPerMain + Cardinality(Caller) - 1

\* A follow-up has an answered question above it, and its index is its own,
\* whatever was deleted while the model was working.
FollowupsAttached ==
  /\ \A q \in Followups : Exists(q.parent) /\ version[q.parent] > 0
  /\ \A p, q \in asked : p.ix = q.ix => p = q

\* Follow-ups stay within their limits and in their place, whatever overlaps and
\* whatever is deleted meanwhile.
FollowupsInPlace == FollowupsBounded /\ FollowupsAttached

\* docs/interview_api_flow.md: a client asks for a follow-up, fetches the turns
\* again and gets to COMPLETE_INTERVIEW.  So an answer for which the server has
\* decided that no follow-up is due is not the one it must ask for next.
DecidedAnswerMovesOn ==
  NextAction.type = "GENERATE_FOLLOW_UP"
    => [id |-> NextAction.on, seen |-> version[NextAction.on]] \notin refused
=============================================================================
