------------------------------- MODULE Roadmap -------------------------------
(***************************************************************************)
(* The learning roadmap of one session (SessionRoadmapView and             *)
(* report/services/roadmap_service.py).  It is made by a remote model when *)
(* it is first asked for and kept: a row with the texts, RoadmapCache, and *)
(* the rows of its items.  The look-up and the model's call are outside    *)
(* the transaction that stores them, and the row looked up stays with the  *)
(* request: a session object remembers its related row, and that there was *)
(* none.                                                                   *)
(***************************************************************************)
EXTENDS Naturals, FiniteSets

CONSTANTS Learner,     \* requests
          Nothing,     \* no row
          MaxReplies   \* bound: replies of the model

ASSUME RoadmapAssumption == MaxReplies \in Nat /\ Nothing \notin Nat

VARIABLES
  texts,       \* the row of the texts: the reply it is from, or Nothing
  steps,       \* the rows of the items: those of one reply each, [from, rank, priority]
  learner,     \* where a request is
  seen,        \* the items a request found
  remembered,  \* the row it found: a reply, or Nothing
  reply,       \* what the model answered it: [id, items]
  replies,     \* replies so far
  shown        \* history: the roadmaps shown, [texts, steps]

roadmapVars == <<texts, steps, learner, seen, remembered, reply, replies, shown>>

NoReply == [id |-> 0, items |-> <<>>]

RoadmapInit ==
  /\ texts = Nothing /\ steps = {} /\ shown = {} /\ replies = 0
  /\ learner = [c \in Learner |-> "idle"]
  /\ seen = [c \in Learner |-> {}]
  /\ remembered = [c \in Learner |-> Nothing]
  /\ reply = [c \in Learner |-> NoReply]

LearnerGoes(c, to) == learner' = [learner EXCEPT ![c] = to]

\* The request is over, and what it held is gone.
LearnerLeaves(c) ==
  /\ LearnerGoes(c, "idle")
  /\ seen' = [seen EXCEPT ![c] = {}]
  /\ remembered' = [remembered EXCEPT ![c] = Nothing]
  /\ reply' = [reply EXCEPT ![c] = NoReply]

-----------------------------------------------------------------------------
(* The look-up, without a lock *)

ReadItems(c) ==
  /\ learner[c] = "idle"
  /\ seen' = [seen EXCEPT ![c] = steps]
  /\ LearnerGoes(c, "row")
  /\ UNCHANGED <<texts, steps, remembered, reply, replies, shown>>

\* A roadmap is only taken for complete with its row and with items.
LookUpRow(c) ==
  /\ learner[c] = "row"
  /\ IF texts # Nothing /\ seen[c] # {}
     THEN /\ shown' = shown \cup {[texts |-> texts, steps |-> seen[c]]}
          /\ LearnerLeaves(c)
     ELSE /\ remembered' = [remembered EXCEPT ![c] = texts]
          /\ LearnerGoes(c, "ask")
          /\ UNCHANGED <<seen, reply, shown>>
  /\ UNCHANGED <<texts, steps, replies>>

-----------------------------------------------------------------------------
(* The model's reply *)

Priorities == {"high", "mid", "low"}

\* _call_llm: JSON with some items, whose shape is not checked.  An item that is no
\* object, or whose title is longer than its column, is "broken".
AskForRoadmap(c, items) ==
  /\ learner[c] = "ask" /\ replies < MaxReplies
  /\ replies' = replies + 1
  /\ reply' = [reply EXCEPT ![c] = [id |-> replies + 1, items |-> items]]
  /\ LearnerGoes(c, "store")
  /\ UNCHANGED <<texts, steps, seen, remembered, shown>>

\* The call fails, or its text is no JSON: 503.
RoadmapFails(c) ==
  /\ learner[c] = "ask"
  /\ LearnerLeaves(c)
  /\ UNCHANGED <<texts, steps, replies, shown>>

-----------------------------------------------------------------------------
(* The transaction, under the lock of the session's row *)

Rows(r) ==
  { [from |-> r.id, rank |-> i,
     priority |-> IF r.items[i] \in Priorities THEN r.items[i] ELSE "mid"] : i \in DOMAIN r.items }

Broken(r) == \E i \in DOMAIN r.items : r.items[i] = "broken"

\* Someone else was first, and there was a row when this request looked: the items
\* are those of now, the texts those it remembers.
FoundMeanwhile(c) == steps # {} /\ remembered[c] # Nothing

\* The row was inserted after this request had looked for it: the second insert
\* violates the one-to-one relation.
InsertedMeanwhile(c) == remembered[c] = Nothing /\ texts # Nothing

ShowOthers(c) ==
  /\ FoundMeanwhile(c)
  /\ shown' = shown \cup {[texts |-> remembered[c], steps |-> steps]}
  /\ UNCHANGED <<texts, steps>>

\* What an exception leaves of the transaction.
RoadmapRolledBack(c) ==
  /\ ~FoundMeanwhile(c)
  /\ InsertedMeanwhile(c) \/ Broken(reply[c])
  /\ UNCHANGED <<texts, steps, shown>>

StoreRoadmap(c) ==
  /\ ~InsertedMeanwhile(c) /\ ~Broken(reply[c])
  /\ texts' = reply[c].id
  /\ steps' = Rows(reply[c])
  /\ shown' = shown \cup {[texts |-> texts', steps |-> steps']}

\* As if the items were not looked for again under the lock.
OwnRoadmapUnchecked(c) == StoreRoadmap(c)

\* Unless a roadmap was found, which is then the answer.
OwnRoadmap(c) == ~FoundMeanwhile(c) /\ StoreRoadmap(c)

FinishRoadmap(c) ==
  /\ learner[c] = "store"
  /\ ShowOthers(c) \/ RoadmapRolledBack(c) \/ OwnRoadmap(c)
  /\ LearnerLeaves(c)
  /\ UNCHANGED replies

\* A worker is killed: a transaction that has not ended leaves nothing.
LearnerDies(c) ==
  /\ learner[c] # "idle"
  /\ LearnerLeaves(c)
  /\ UNCHANGED <<texts, steps, replies, shown>>

RoadmapNext ==
  \E c \in Learner :
    \/ ReadItems(c)
    \/ LookUpRow(c)
    \/ \E items \in {<<>>, <<"high", "urgent">>, <<"low">>, <<"mid", "broken">>} : AskForRoadmap(c, items)
    \/ RoadmapFails(c)
    \/ FinishRoadmap(c)
    \/ LearnerDies(c)

RoadmapSpec == RoadmapInit /\ [][RoadmapNext]_roadmapVars

-----------------------------------------------------------------------------
(* Properties *)

RoadmapTypeOK ==
  /\ texts \in 1 .. MaxReplies \cup {Nothing}
  /\ steps \subseteq [from : 1 .. MaxReplies, rank : 1 .. 2, priority : Priorities]
  /\ learner \in [Learner -> {"idle", "row", "ask", "store"}]
  /\ remembered \in [Learner -> 1 .. MaxReplies \cup {Nothing}]
  /\ replies \in 0 .. MaxReplies

\* However requests overlap, fail and die, a session has one roadmap: the rows kept
\* stem from one reply, and once a roadmap with items has been shown, the items shown
\* are always the same, those kept (roadmap_service.get_or_create_roadmap).  The
\* texts shown beside them may be older: those of a reply without items.
OneRoadmap ==
  /\ \A s \in steps : s.from = texts
  /\ \A r \in shown : r.steps # {} => r.steps = steps
=============================================================================
