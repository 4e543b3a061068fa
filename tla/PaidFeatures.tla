---------------------------- MODULE PaidFeatures ----------------------------
(***************************************************************************)
(* The features a user pays for with points, on top of the point ledger:   *)
(* question packs (apps/interview/views.py), weakness practice and         *)
(* interview questions (apps/interview/mvp_views.py) and additional        *)
(* question generations of an analysis (apps/analysis/views.py).           *)
(*                                                                         *)
(* The first two and the last charge, work, and refund when the work       *)
(* fails, in transactions of their own; the interview questions are        *)
(* charged in the transaction that stores them.  A posting is one step     *)
(* here: it is the action Post of Ledger, which PointLedger implements.    *)
(***************************************************************************)
EXTENDS Ledger, FiniteSets

CONSTANTS Request,                          \* concurrent request workers
          Pack, Practice, Session, Analysis,  \* items of the four features
          Owner,      \* the user an item belongs to
          Prices,     \* amounts an administrator may set the policies to
          Grant,      \* what a user earns elsewhere
          MaxFree,    \* MAX_QUESTION_GENERATIONS
          MaxGrants,  \* bound: earnings
          MaxRuns     \* bound: requests started

Item == Pack \cup Practice \cup Session \cup Analysis

\* The key of the charge for an item, numbered by generation_count for an
\* analysis, and the key of its refund ("<key>:REFUND").
ChargeKey(i, n) == [item |-> i, n |-> n, refund |-> FALSE]
RefundKey(k) == [k EXCEPT !.refund = TRUE]

ASSUME OwnerAssumption == Owner \in [Item -> User]
\* An item is one row of one table: no two features share it.
ASSUME FeatureItemAssumption ==
  Session \cap (Pack \cup Practice \cup Analysis) = {} /\ Analysis \cap (Pack \cup Practice) = {}
ASSUME KeyAssumption ==
  [item : Item, n : 0 .. MaxRuns, refund : BOOLEAN] \subseteq Key
ASSUME PriceAssumption ==
  /\ \A p \in Prices : p \in Amount /\ -p \in Amount /\ p < 0
  /\ Grant \in Amount /\ Grant > 0
ASSUME PaidBoundAssumption ==
  MaxFree \in Nat /\ MaxRuns \in Nat /\ MaxGrants \in Nat

VARIABLES
  price,      \* the amount of the policies
  content,    \* per item: the packs, practice sessions or question sets stored
  made,       \* per item: how many were ever stored
  genCount,   \* jd_analysis.generation_count
  pc, item,   \* where a request is, and what it works on
  regenerate, \* request.data["regenerate"]
  number,     \* generation_count when the request read it
  charge,     \* the row its charge returned, and whether it created it
  doomed,     \* question sets its DELETE found
  empty,      \* the generator returned no records
  earned,     \* charges whose own request stored what was paid for (history)
  stored,     \* keys under which some request stored something (history)
  lost,       \* charges whose request died or raised past its refund (history)
  granted, runs

requestVars == <<pc, item, regenerate, number, charge, doomed, empty>>
productVars == <<content, made, genCount>>
historyVars == <<earned, stored, lost>>
bounds == <<granted, runs>>
paidVars == <<ledgerVars, price, requestVars, productVars, historyVars, bounds>>

\* Questions a session has from a route that does not charge for it.
Elsewhere == 0

NoCharge == [created |-> FALSE, amount |-> 0]

KeyOf(r) == ChargeKey(item[r], number[r])

\* The amount of the row with key k.
AmountUnder(k) ==
  CHOOSE a \in Amount :
    \E u \in User : \E e \in DOMAIN entries[u] :
      entries[u][e].key = k /\ entries[u][e].amount = a

-----------------------------------------------------------------------------

PaidInit ==
  /\ LedgerInit
  /\ price \in Prices
  /\ content = [i \in Item |-> {}]
  /\ made = [i \in Item |-> 0]
  /\ genCount = [i \in Analysis |-> 0]
  /\ pc = [r \in Request |-> "idle"]
  /\ item = [r \in Request |-> CHOOSE i \in Item : TRUE]
  /\ regenerate = [r \in Request |-> FALSE]
  /\ number = [r \in Request |-> 0]
  /\ charge = [r \in Request |-> NoCharge]
  /\ doomed = [r \in Request |-> {}]
  /\ empty = [r \in Request |-> FALSE]
  /\ earned = {} /\ stored = {} /\ lost = {}
  /\ granted = 0 /\ runs = 0

Goto(r, s) == pc' = [pc EXCEPT ![r] = s]

\* A request that passed its first checks starts with these arguments.
Start(r, i, again, n, s) ==
  /\ pc[r] = "idle" /\ runs < MaxRuns
  /\ runs' = runs + 1
  /\ Goto(r, s)
  /\ item' = [item EXCEPT ![r] = i]
  /\ regenerate' = [regenerate EXCEPT ![r] = again]
  /\ number' = [number EXCEPT ![r] = n]
  /\ charge' = [charge EXCEPT ![r] = NoCharge]
  /\ doomed' = [doomed EXCEPT ![r] = {}]
  /\ empty' = [empty EXCEPT ![r] = FALSE]
  /\ UNCHANGED <<ledgerVars, price, productVars, historyVars, granted>>

\* QuestionPackListCreateView.post and MVPPracticeSessionCreateView.post.
BeginPaid(r, i) == i \in Pack \cup Practice /\ Start(r, i, FALSE, 0, "charge")

\* MVPQuestionGenerateView.post: questions that exist are returned, and a
\* balance that does not cover the price is refused before the generation.
BeginSession(r, i) ==
  /\ i \in Session
  /\ content[i] = {}
  /\ balance[Owner[i]] + price >= 0
  /\ Start(r, i, FALSE, 0, "generate")

\* AnalysisQuestionsView.post: questions that exist are returned unless a new
\* generation is asked for; one past the free limit is charged.
BeginAnalysis(r, i, again) ==
  /\ i \in Analysis
  /\ content[i] = {} \/ again
  /\ Start(r, i, again, genCount[i], IF genCount[i] >= MaxFree THEN "charge" ELSE "generate")

\* apply_point_policy: a row under the key is returned, or stops the request if
\* it was inserted behind the look-up of the key; a balance that does not cover
\* the price is refused; else the row is created.
Charge(r) ==
  LET u == Owner[item[r]]
  IN /\ pc[r] = "charge"
     /\ \/ /\ KeyUsed(KeyOf(r))
           /\ \/ Goto(r, "idle") /\ UNCHANGED charge
              \/ /\ Goto(r, "generate")
                 /\ charge' = [charge EXCEPT ![r] =
                      [created |-> FALSE, amount |-> AmountUnder(KeyOf(r))]]
           /\ UNCHANGED ledgerVars
        \/ /\ ~KeyUsed(KeyOf(r)) /\ balance[u] + price < 0
           /\ Goto(r, "idle")
           /\ UNCHANGED <<ledgerVars, charge>>
        \/ /\ Post(u, price, KeyOf(r))
           /\ Goto(r, "generate")
           /\ charge' = [charge EXCEPT ![r] = [created |-> TRUE, amount |-> price]]
     /\ UNCHANGED <<price, item, regenerate, number, doomed, empty, productVars,
                    historyVars, bounds>>

\* What r stored replaces the items in out.
Store(r, out) ==
  LET i == item[r]
  IN /\ content' = [content EXCEPT ![i] =
          (content[i] \ out) \cup (IF empty[r] THEN {} ELSE {made[i] + 1})]
     /\ made' = [made EXCEPT ![i] = made[i] + 1]
     /\ stored' = IF empty[r] THEN stored ELSE stored \cup {KeyOf(r)}
     /\ earned' = IF charge[r].created /\ ~empty[r] THEN earned \cup {KeyOf(r)} ELSE earned

\* The pack, or the practice session with its questions, is stored.
Produce(r) ==
  /\ pc[r] = "generate" /\ item[r] \in Pack \cup Practice
  /\ Store(r, {})
  /\ Goto(r, "idle")
  /\ UNCHANGED <<ledgerVars, price, item, regenerate, number, charge, doomed, empty,
                 genCount, lost, bounds>>

\* The work fails: the generation of a session was not charged, and the other
\* features go to their refund.
Fail(r) ==
  /\ pc[r] = "generate"
  /\ Goto(r, IF item[r] \in Session THEN "idle" ELSE "refund")
  /\ UNCHANGED <<ledgerVars, price, item, regenerate, number, charge, doomed, empty,
                 productVars, historyVars, bounds>>

\* The charges that end with their request.
LostWith(r) == IF charge[r].created THEN lost \cup {KeyOf(r)} ELSE lost

\* MVPPracticeSessionCreateView refunds on a PracticeSessionCreationError only;
\* any other exception leaves its handler.
Escape(r) ==
  /\ pc[r] = "generate" /\ item[r] \in Practice
  /\ Goto(r, "idle")
  /\ lost' = LostWith(r)
  /\ UNCHANGED <<ledgerVars, price, item, regenerate, number, charge, doomed, empty,
                 productVars, earned, stored, bounds>>

\* The transaction is rolled back, the charge it made included.
RolledBack(r) == UNCHANGED ledgerVars

\* MVPQuestionGenerateView: one transaction charges, unless the session has been
\* charged before, and stores the questions, whose (session, order_index) is
\* UNIQUE; generate_interview_questions falls back to rules, so there are some.
StoreSession(r) ==
  LET u == Owner[item[r]]
  IN /\ pc[r] = "generate" /\ item[r] \in Session
     /\ \/ /\ content[item[r]] = {}
           /\ Store(r, {})
           /\ IF KeyUsed(KeyOf(r)) THEN UNCHANGED ledgerVars ELSE Post(u, price, KeyOf(r))
        \/ /\ balance[u] + price < 0 \/ content[item[r]] # {}
           /\ UNCHANGED <<ledgerVars, content, made, earned, stored>>
        \/ RolledBack(r) /\ UNCHANGED <<content, made, earned, stored>>
     /\ Goto(r, "idle")
     /\ UNCHANGED <<price, item, regenerate, number, charge, doomed, empty, genCount,
                    lost, bounds>>

\* The transaction of AnalysisQuestionsView begins: the DELETE of a new
\* generation finds the question sets that are committed by now.
DeleteOld(r) ==
  /\ pc[r] = "generate" /\ item[r] \in Analysis
  /\ doomed' = [doomed EXCEPT ![r] = IF regenerate[r] THEN content[item[r]] ELSE {}]
  /\ \E none \in BOOLEAN : empty' = [empty EXCEPT ![r] = none]
  /\ Goto(r, "store")
  /\ UNCHANGED <<ledgerVars, price, item, regenerate, number, charge, productVars,
                 historyVars, bounds>>

\* generation_count=F("generation_count") + 1
Increment(r) == genCount[item[r]] + 1

\* bug: only a failure is refunded
RefundOnFailure(r) == FALSE

\* "if point_charge.created and not db_records"
NothingToShow(r) == empty[r]

\* The records are inserted and counted, and the transaction commits.
StoreAnalysis(r) ==
  /\ pc[r] = "store"
  /\ Store(r, doomed[r])
  /\ genCount' = [genCount EXCEPT ![item[r]] = Increment(r)]
  /\ Goto(r, IF NothingToShow(r) THEN "refund" ELSE "idle")
  /\ UNCHANGED <<ledgerVars, price, item, regenerate, number, charge, doomed, empty,
                 lost, bounds>>

Refundable(r) == charge[r].created

\* bug: the price is read again
CurrentPrice(r) == -price

\* abs(charge.history.amount)
RefundAmount(r) == -charge[r].amount

\* refund_points by the request that created the charge, under a key of its own.
Refund(r) ==
  /\ pc[r] = "refund"
  /\ \/ ~Refundable(r) /\ UNCHANGED ledgerVars
     \/ Refundable(r) /\ Post(Owner[item[r]], RefundAmount(r), RefundKey(KeyOf(r)))
  /\ Goto(r, "idle")
  /\ UNCHANGED <<price, item, regenerate, number, charge, doomed, empty, productVars,
                 historyVars, bounds>>

\* The worker dies.
Crash(r) ==
  /\ pc[r] # "idle"
  /\ Goto(r, "idle")
  /\ lost' = LostWith(r)
  /\ UNCHANGED <<ledgerVars, price, item, regenerate, number, charge, doomed, empty,
                 productVars, earned, stored, bounds>>

\* Rewards and administrators credit the account without a key of this module.
Earn(u) ==
  /\ granted < MaxGrants
  /\ granted' = granted + 1
  /\ Post(u, Grant, NoKey)
  /\ UNCHANGED <<price, requestVars, productVars, historyVars, runs>>

\* QuestionPackApplyView and InterviewQuestionGenerateView fill a session that
\* has no questions, without a charge for the session.
FillElsewhere(i) ==
  /\ i \in Session /\ content[i] = {}
  /\ content' = [content EXCEPT ![i] = {Elsewhere}]
  /\ UNCHANGED <<ledgerVars, price, requestVars, made, genCount, historyVars, bounds>>

\* "force_regenerate" of InterviewQuestionGenerateView deletes what is there, in
\* a transaction of its own.
ForceDelete(i) ==
  /\ i \in Session /\ content[i] # {}
  /\ content' = [content EXCEPT ![i] = {}]
  /\ UNCHANGED <<ledgerVars, price, requestVars, made, genCount, historyVars, bounds>>

\* AdminPointPolicyUpdateView.
SetPrice(p) ==
  /\ price' = p
  /\ UNCHANGED <<ledgerVars, requestVars, productVars, historyVars, bounds>>

RequestStep(r) ==
  \/ Charge(r) \/ Produce(r) \/ Fail(r) \/ Escape(r) \/ StoreSession(r)
  \/ DeleteOld(r) \/ StoreAnalysis(r) \/ Refund(r)

PaidNext ==
  \/ \E r \in Request :
       \/ \E i \in Item : BeginPaid(r, i) \/ BeginSession(r, i)
       \/ \E i \in Item, again \in BOOLEAN : BeginAnalysis(r, i, again)
       \/ RequestStep(r) \/ Crash(r)
  \/ \E u \in User : Earn(u)
  \/ \E i \in Item : FillElsewhere(i) \/ ForceDelete(i)
  \/ \E p \in Prices : SetPrice(p)

PaidSpec == PaidInit /\ [][PaidNext]_paidVars

-----------------------------------------------------------------------------
(* Properties *)

Paid(k) == KeyUsed(k) /\ ~k.refund
Refunded(k) == KeyUsed(RefundKey(k))

\* Every refund gives back, after the fact and to the same user, exactly what a
\* charge took, although the price may change between the two; and only what
\* bought nothing: a request that stored what it charged for is never paid back,
\* whatever the other requests under the same key do.
RefundsAreDue ==
  /\ \A u \in User : \A e \in DOMAIN entries[u] :
       LET back == entries[u][e]
       IN back.key # NoKey /\ back.key.refund =>
            \E f \in 1 .. e - 1 :
              /\ entries[u][f].key # NoKey
              /\ ~entries[u][f].key.refund
              /\ RefundKey(entries[u][f].key) = back.key
              /\ entries[u][f].amount = -back.amount
  /\ \A k \in earned : ~Refunded(k)

\* A charge bought something, was refunded, is still being worked on by the
\* request that made it, or ended with that request: no return path of a handler
\* keeps the points of a generation that gave nothing.  And a session is charged
\* exactly when the charging route stored its questions, whatever fails, dies or
\* overlaps, the routes that do not charge and the deletions included:
\* "질문 생성 실패 시 포인트가 차감되지 않거나 자동 환불된다"
\* (docs/interview_voice_enhancement_priority.md).
PaidOrReturned ==
  /\ \A u \in User : \A e \in DOMAIN entries[u] :
       LET k == entries[u][e].key
       IN k # NoKey /\ Paid(k) /\ k.item \notin Session =>
            \/ k \in earned \cup lost
            \/ Refunded(k)
            \/ \E r \in Request : pc[r] # "idle" /\ charge[r].created /\ KeyOf(r) = k
  /\ \A i \in Session : KeyUsed(ChargeKey(i, 0)) <=> ChargeKey(i, 0) \in stored

\* Overlapping generations are all counted against the free limit.
GenerationsCounted == \A i \in Analysis : genCount[i] = made[i]

\* What a user pays is what he gets, and what he gets counts: the three together.
ChargesAreFair == RefundsAreDue /\ PaidOrReturned /\ GenerationsCounted

\* Nothing is stored on a charge that was given back: a generation past the free
\* limit is paid for ("무료 상한 초과 시 포인트 차감으로 진행", AnalysisQuestionsView).
NothingFree == \A k \in stored : ~Refunded(k)
=============================================================================
