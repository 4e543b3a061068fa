---------------------------- MODULE DocumentProofs ----------------------------
(***************************************************************************)
(* Proofs about what is sold and what is analysed, for every set of users, *)
(* requests, documents and prices: the charges of the paid features        *)
(* (PaidFeatures), the analysis of the documents (DocumentAnalysis), the   *)
(* talent profile (TalentProfile), the documents that are kept             *)
(* (InputDocuments) or refused (DocumentIntake), the questions that are    *)
(* made of an analysis (PreparedQuestions), what is chosen of a text and   *)
(* of a repository (JobDescriptionText, GithubImport), and the match of a  *)
(* resume with a posting (MatchScore).                                     *)
(*                                                                         *)
(* A charge is fair because of ChargesHeld: while a request holds a charge *)
(* that is neither refunded nor earned, the row it was made with stands in *)
(* the ledger under a key that no other request holds.                     *)
(***************************************************************************)
EXTENDS PaidFeatures, DocumentAnalysis, TalentProfile, InputDocuments, PreparedQuestions,
        GithubImport, MatchScore, Lists, SequenceTheorems, TLAPS

-----------------------------------------------------------------------------
(* The paid features *)

\* The keys the four features charge and refund under.
PaidKey == [item : Item, n : 0 .. MaxRuns, refund : BOOLEAN]

\* The requests that may still count a generation.
Working == {r \in Request : pc[r] \in {"charge", "generate", "store"}}

\* What the tables and the requests hold.
PaidTypes ==
  /\ balance \in [User -> Int] /\ entries \in [User -> Seq(Entry)]
  /\ price \in Prices
  /\ made \in [Item -> Nat] /\ genCount \in [Analysis -> Nat]
  /\ pc \in [Request -> {"idle", "charge", "generate", "store", "refund"}]
  /\ DOMAIN item = Request /\ DOMAIN charge = Request /\ number \in [Request -> Nat]
  /\ empty \in [Request -> BOOLEAN]
  /\ \A r \in Request : charge[r].created \in BOOLEAN

\* No key is numbered past the bound: a generation is counted once per request.
Counted ==
  /\ IsFiniteSet(Working) /\ runs \in Nat /\ runs <= MaxRuns
  /\ \A i \in Analysis : genCount[i] + Cardinality(Working) <= runs
  /\ GenerationsCounted

\* What a request works on, where it may be with it, and what it has paid by then.
RequestsFit ==
  \A r \in Request : pc[r] # "idle" =>
    /\ item[r] \in Item /\ number[r] <= MaxRuns
    /\ pc[r] = "charge" => item[r] \notin Session /\ ~charge[r].created
    /\ pc[r] = "store" => item[r] \in Analysis
    /\ pc[r] \in {"charge", "generate"} => ~empty[r]
    /\ item[r] \in Session => number[r] = 0 /\ ~charge[r].created /\ pc[r] = "generate"
    /\ charge[r].created => charge[r].amount \in Int

\* A request that has paid has not finished, been refunded or stored anything yet.
Pending(r) == pc[r] # "idle" /\ charge[r].created

\* What a request has paid stands in the ledger, for it alone.
ChargesHeld ==
  \A r \in Request : Pending(r) =>
    /\ \E e \in DOMAIN entries[Owner[item[r]]] :
         /\ entries[Owner[item[r]]][e].key = KeyOf(r)
         /\ entries[Owner[item[r]]][e].amount = charge[r].amount
    /\ ~Refunded(KeyOf(r)) /\ KeyOf(r) \notin earned
    /\ \A q \in Request : Pending(q) /\ KeyOf(q) = KeyOf(r) => q = r

\* Only charges are earned.
EarnedKeys == \A k \in earned : k \in PaidKey /\ ~k.refund /\ KeyUsed(k)

\* The keys of the ledger are those of these features.
RowKeys == \A u \in User : \A e \in DOMAIN entries[u] : entries[u][e].key \in PaidKey \cup {NoKey}

PaidMoney == ChargesHeld /\ EarnedKeys /\ RowKeys /\ RefundsAreDue /\ PaidOrReturned

PaidInv == PaidTypes /\ Counted /\ RequestsFit /\ PaidMoney

-----------------------------------------------------------------------------
(* The ledger *)

\* A posting adds one row to one user, and uses its key.
LEMMA PostRows ==
  ASSUME balance \in [User -> Int], entries \in [User -> Seq(Entry)],
         NEW u \in User, NEW a \in Int, NEW k \in PaidKey \cup {NoKey}, Post(u, a, k)
  PROVE  /\ balance' \in [User -> Int] /\ entries' \in [User -> Seq(Entry)]
         /\ \A v \in User : \A e \in DOMAIN entries[v] :
              e \in DOMAIN entries'[v] /\ entries'[v][e] = entries[v][e]
         /\ \A v \in User : \A e \in DOMAIN entries'[v] :
              e \in DOMAIN entries[v] \/ (v = u /\ e = Len(entries[u]) + 1)
         /\ Len(entries[u]) + 1 \in DOMAIN entries'[u]
         /\ entries'[u][Len(entries[u]) + 1].key = k
         /\ entries'[u][Len(entries[u]) + 1].amount = a
         /\ \A e \in DOMAIN entries[u] : e \in 1 .. Len(entries[u]) + 1 - 1
         /\ \A j : KeyUsed(j)' <=> KeyUsed(j) \/ (j = k /\ k # NoKey)
<1> DEFINE row == [key |-> k, amount |-> a, balance_after |-> balance[u] + a]
<1> DEFINE n == Len(entries[u])
<1>1. balance[u] + a \in Int /\ entries[u] \in Seq(Entry)
  OBVIOUS
<1>2. row \in Entry
  BY <1>1, KeyAssumption DEF Entry, PaidKey
<1>3. /\ balance' = [balance EXCEPT ![u] = balance[u] + a]
      /\ entries' = [entries EXCEPT ![u] = Append(entries[u], row)]
  BY DEF Post
<1>4. row.key = k /\ row.amount = a
  OBVIOUS
<1> HIDE DEF row
<1>5. /\ Append(entries[u], row) \in Seq(Entry) /\ n \in Nat
      /\ Len(Append(entries[u], row)) = n + 1
      /\ \A i \in 1 .. n : Append(entries[u], row)[i] = entries[u][i]
      /\ Append(entries[u], row)[n + 1] = row
  BY <1>1, <1>2, AppendProperties, LenProperties
<1>6. \A s \in Seq(Entry) : DOMAIN s = 1 .. Len(s)
  OBVIOUS
<1>7. /\ balance' \in [User -> Int] /\ entries' \in [User -> Seq(Entry)]
      /\ entries'[u] = Append(entries[u], row) /\ \A v \in User : v # u => entries'[v] = entries[v]
  BY <1>1, <1>3, <1>5
<1>8. DOMAIN entries[u] = 1 .. n /\ DOMAIN entries'[u] = 1 .. n + 1
  BY <1>1, <1>5, <1>6, <1>7
<1>9. \A v \in User : \A e \in DOMAIN entries[v] :
        e \in DOMAIN entries'[v] /\ entries'[v][e] = entries[v][e]
  <2>1. \A e \in DOMAIN entries[u] : e \in DOMAIN entries'[u] /\ entries'[u][e] = entries[u][e]
    BY <1>5, <1>7, <1>8
  <2>2. QED
    BY <1>7, <2>1
<1>10. \A v \in User : \A e \in DOMAIN entries'[v] :
        e \in DOMAIN entries[v] \/ (v = u /\ e = n + 1)
  BY <1>5, <1>7, <1>8
<1>11. n + 1 \in DOMAIN entries'[u] /\ entries'[u][n + 1].key = k /\ entries'[u][n + 1].amount = a
  BY <1>4, <1>5, <1>7, <1>8
<1>12. \A j : KeyUsed(j)' <=> KeyUsed(j) \/ (j = k /\ k # NoKey)
  BY <1>9, <1>10, <1>11 DEF KeyUsed
<1>13. \A e \in DOMAIN entries[u] : e \in 1 .. n + 1 - 1
  BY <1>5, <1>8
<1> QED
  BY <1>7, <1>9, <1>10, <1>11, <1>12, <1>13

\* The keys of charges and refunds.
LEMMA Keys ==
  ASSUME NEW i \in Item, NEW n \in 0 .. MaxRuns
  PROVE  /\ ChargeKey(i, n) \in PaidKey /\ ChargeKey(i, n) # NoKey
         /\ ~ChargeKey(i, n).refund /\ ChargeKey(i, n).item = i /\ ChargeKey(i, n).n = n
BY KeyAssumption, NoKeyAssumption DEF ChargeKey, PaidKey

\* The key of a refund is none of a charge, and tells it.
LEMMA RefundKeys ==
  ASSUME NEW k \in PaidKey
  PROVE  /\ k # NoKey /\ RefundKey(k) \in PaidKey /\ RefundKey(k) # NoKey
         /\ RefundKey(k).refund /\ RefundKey(k).item = k.item
         /\ \A j \in PaidKey : ~k.refund /\ ~j.refund /\ RefundKey(j) = RefundKey(k) => j = k
<1>1. k # NoKey
  BY KeyAssumption, NoKeyAssumption DEF PaidKey
<1>2. RefundKey(k) \in PaidKey
  BY DEF RefundKey, PaidKey
<1>3. RefundKey(k) # NoKey
  BY <1>2, KeyAssumption, NoKeyAssumption DEF PaidKey
<1>4. RefundKey(k).refund /\ RefundKey(k).item = k.item /\ RefundKey(k).n = k.n
  BY DEF RefundKey, PaidKey
<1>5. ASSUME NEW j \in PaidKey, ~k.refund, ~j.refund, RefundKey(j) = RefundKey(k) PROVE j = k
  <2>1. j.item = k.item /\ j.n = k.n
    <3>1. RefundKey(j).item = j.item /\ RefundKey(j).n = j.n
      BY DEF RefundKey, PaidKey
    <3>2. QED
      BY <1>4, <1>5, <3>1
  <2>2. j.refund = FALSE /\ k.refund = FALSE
    BY <1>5 DEF PaidKey
  <2>3. QED
    BY <2>1, <2>2 DEF PaidKey
<1> QED
  BY <1>1, <1>2, <1>3, <1>4, <1>5

\* The key a request in flight charges under.
LEMMA KeysOfRequests ==
  ASSUME PaidTypes, RequestsFit, NEW r \in Request, pc[r] # "idle"
  PROVE  /\ KeyOf(r) \in PaidKey /\ KeyOf(r) # NoKey /\ ~KeyOf(r).refund
         /\ KeyOf(r).item = item[r] /\ Owner[item[r]] \in User /\ item[r] \in Item
         /\ item[r] \in Session => KeyOf(r) = ChargeKey(item[r], 0)
<1>1. item[r] \in Item /\ number[r] \in 0 .. MaxRuns
  <2>1. number[r] \in Nat /\ item[r] \in Item /\ number[r] <= MaxRuns
    BY DEF PaidTypes, RequestsFit
  <2>2. QED
    BY <2>1, PaidBoundAssumption
<1>2. item[r] \in Session => number[r] = 0
  BY DEF RequestsFit
<1>3. Owner[item[r]] \in User
  BY <1>1, OwnerAssumption
<1> QED
  BY <1>1, <1>2, <1>3, Keys DEF KeyOf

\* Nothing is refunded under a key that nothing was charged under.
LEMMA RefundsFollowCharges ==
  ASSUME PaidTypes, RefundsAreDue, RowKeys, NEW k \in PaidKey, ~k.refund, Refunded(k)
  PROVE  KeyUsed(k)
<1>0. PICK u \in User : \E e \in DOMAIN entries[u] : entries[u][e].key = RefundKey(k)
  BY DEF Refunded, KeyUsed
<1>1. PICK e \in DOMAIN entries[u] : entries[u][e].key = RefundKey(k)
  BY <1>0
<1>2. RefundKey(k) # NoKey /\ RefundKey(k).refund
  BY RefundKeys
<1>3. PICK f \in 1 .. e - 1 :
        /\ entries[u][f].key # NoKey /\ ~entries[u][f].key.refund
        /\ RefundKey(entries[u][f].key) = RefundKey(k)
  BY <1>1, <1>2 DEF RefundsAreDue
<1>4. f \in DOMAIN entries[u]
  <2>1. entries[u] \in Seq(Entry)
    BY DEF PaidTypes
  <2>2. DOMAIN entries[u] = 1 .. Len(entries[u]) /\ Len(entries[u]) \in Nat
    BY <2>1
  <2>3. QED
    BY <1>1, <1>3, <2>2
<1>5. entries[u][f].key \in PaidKey
  BY <1>3, <1>4 DEF RowKeys
<1>6. entries[u][f].key = k
  BY <1>3, <1>5, RefundKeys
<1> QED
  BY <1>3, <1>4, <1>6 DEF KeyUsed

-----------------------------------------------------------------------------
(* The money *)

\* A step that posts nothing and stores nothing paid for: whoever has paid is still at work, or
\* was lost.
LEMMA NothingPosted ==
  ASSUME PaidTypes, RequestsFit, PaidMoney, UNCHANGED <<entries, earned, stored>>, lost \subseteq lost',
         \A q \in Request : Pending(q)' =>
           Pending(q) /\ item'[q] = item[q] /\ number'[q] = number[q] /\ charge'[q] = charge[q],
         \A q \in Request : Pending(q) =>
           KeyOf(q) \in lost' \/ (Pending(q)' /\ item'[q] = item[q] /\ number'[q] = number[q])
  PROVE  PaidMoney'
<1>1. \A k : (KeyUsed(k)' <=> KeyUsed(k)) /\ (Refunded(k)' <=> Refunded(k))
  BY DEF KeyUsed, Refunded
<1>2. \A q \in Request : item'[q] = item[q] /\ number'[q] = number[q] => KeyOf(q)' = KeyOf(q)
  BY DEF KeyOf
<1>3. ChargesHeld'
  BY <1>1, <1>2 DEF PaidMoney, ChargesHeld
<1>4. EarnedKeys'
  BY <1>1 DEF PaidMoney, EarnedKeys
<1>5. RowKeys'
  BY DEF PaidMoney, RowKeys
<1>6. RefundsAreDue'
  BY <1>1 DEF PaidMoney, RefundsAreDue
<1>7. ASSUME NEW u \in User, NEW e \in DOMAIN entries'[u], entries'[u][e].key # NoKey,
             Paid(entries[u][e].key)', entries'[u][e].key.item \notin Session
      PROVE  \/ entries'[u][e].key \in earned' \cup lost'
             \/ Refunded(entries[u][e].key)'
             \/ \E r \in Request : Pending(r)' /\ KeyOf(r)' = entries'[u][e].key
  <2>1. Paid(entries[u][e].key)
    BY <1>1, <1>7 DEF Paid
  <2>2. \/ entries[u][e].key \in earned \cup lost
        \/ Refunded(entries[u][e].key)
        \/ \E r \in Request : pc[r] # "idle" /\ charge[r].created /\ KeyOf(r) = entries[u][e].key
    BY <1>7, <2>1 DEF PaidMoney, PaidOrReturned
  <2>3. QED
    BY <1>1, <1>2, <2>2 DEF Pending
<1>8. \A i \in Session : KeyUsed(ChargeKey(i, 0))' <=> ChargeKey(i, 0) \in stored'
  BY <1>1 DEF PaidMoney, PaidOrReturned
<1>9. PaidOrReturned'
  BY <1>7, <1>8 DEF PaidOrReturned, Pending, ChargeKey
<1> QED
  BY <1>3, <1>4, <1>5, <1>6, <1>9 DEF PaidMoney

\* The rows a refund rests on stay where they are.
LEMMA RefundsKept ==
  ASSUME PaidTypes, RefundsAreDue,
         \A v \in User : \A e \in DOMAIN entries[v] :
           e \in DOMAIN entries'[v] /\ entries'[v][e] = entries[v][e],
         NEW v \in User, NEW e \in DOMAIN entries[v],
         entries'[v][e].key # NoKey, entries'[v][e].key.refund
  PROVE  \E f \in 1 .. e - 1 :
           /\ entries'[v][f].key # NoKey
           /\ ~entries'[v][f].key.refund
           /\ RefundKey(entries'[v][f].key) = entries'[v][e].key
           /\ entries'[v][f].amount = -entries'[v][e].amount
<1>1. PICK f \in 1 .. e - 1 :
             /\ entries[v][f].key # NoKey
             /\ ~entries[v][f].key.refund
             /\ RefundKey(entries[v][f].key) = entries[v][e].key
             /\ entries[v][f].amount = -entries[v][e].amount
  BY DEF RefundsAreDue
<1>2. f \in DOMAIN entries[v]
  <2>1. DOMAIN entries[v] = 1 .. Len(entries[v]) /\ Len(entries[v]) \in Nat
    BY DEF PaidTypes
  <2>2. QED
    BY <1>1, <2>1
<1> QED
  BY <1>1, <1>2

\* A charge is posted under a key of its own.
LEMMA ChargePosted ==
  ASSUME PaidTypes, RequestsFit, PaidMoney, NEW r \in Request, pc[r] = "charge",
         Post(Owner[item[r]], price, KeyOf(r)), Goto(r, "generate"),
         charge' = [charge EXCEPT ![r] = [created |-> TRUE, amount |-> price]],
         UNCHANGED <<item, number, historyVars>>
  PROVE  PaidMoney'
<1> DEFINE u == Owner[item[r]]
<1> DEFINE k == KeyOf(r)
<1> DEFINE n == Len(entries[u]) + 1
<1>0. price \in Int /\ item[r] \notin Session
  BY PriceAssumption, AmountAssumption DEF PaidTypes, RequestsFit
<1>1. /\ k \in PaidKey /\ k # NoKey /\ ~k.refund /\ k.item = item[r] /\ u \in User
      /\ ~KeyUsed(k)
  BY KeysOfRequests DEF Post
<1> HIDE DEF u, k
<1>2. Post(u, price, k)
  BY DEF u, k
<1>3. /\ \A v \in User : \A e \in DOMAIN entries[v] :
           e \in DOMAIN entries'[v] /\ entries'[v][e] = entries[v][e]
      /\ \A v \in User : \A e \in DOMAIN entries'[v] :
           e \in DOMAIN entries[v] \/ (v = u /\ e = n)
      /\ n \in DOMAIN entries'[u]
      /\ entries'[u][n].key = k /\ entries'[u][n].amount = price
      /\ \A j : KeyUsed(j)' <=> KeyUsed(j) \/ j = k
  BY <1>0, <1>1, <1>2, PostRows DEF PaidTypes
<1> HIDE DEF n
<1>4. \A q \in Request : /\ KeyOf(q)' = KeyOf(q)
                         /\ q # r => (Pending(q)' <=> Pending(q)) /\ charge'[q] = charge[q]
  BY DEF KeyOf, Pending, Goto, PaidTypes
<1>5. Pending(r)' /\ ~Pending(r) /\ charge'[r].amount = price
  BY DEF Pending, Goto, PaidTypes, RequestsFit
<1>6. ASSUME NEW j \in PaidKey PROVE Refunded(j)' <=> Refunded(j)
  BY <1>1, <1>3, RefundKeys DEF Refunded
<1>7. \A q \in Request : Pending(q) => /\ KeyOf(q) \in PaidKey /\ ~KeyOf(q).refund
                                       /\ KeyUsed(KeyOf(q)) /\ Owner[item[q]] \in User /\ KeyOf(q) # k
  <2>1. ASSUME NEW q \in Request, Pending(q)
        PROVE KeyOf(q) \in PaidKey /\ ~KeyOf(q).refund /\ Owner[item[q]] \in User /\ KeyOf(q) # NoKey
    BY <2>1, KeysOfRequests DEF Pending
  <2>2. \A q \in Request : Pending(q) => KeyUsed(KeyOf(q))
    BY <2>1 DEF PaidMoney, ChargesHeld, KeyUsed
  <2>3. QED
    BY <1>1, <2>1, <2>2
<1>8. ~Refunded(k)
  BY <1>1, RefundsFollowCharges DEF PaidMoney
<1>9. ChargesHeld'
  <2>1. ASSUME NEW q \in Request, Pending(q)'
        PROVE  /\ \E e \in DOMAIN entries'[Owner[item[q]]] :
                    /\ entries'[Owner[item[q]]][e].key = KeyOf(q)
                    /\ entries'[Owner[item[q]]][e].amount = charge'[q].amount
               /\ ~Refunded(KeyOf(q))' /\ KeyOf(q) \notin earned
               /\ \A p \in Request : Pending(p)' /\ KeyOf(p) = KeyOf(q) => p = q
    <3>1. CASE q = r
      <4>1. \E e \in DOMAIN entries'[u] : entries'[u][e].key = k /\ entries'[u][e].amount = charge'[r].amount
        BY <1>3, <1>5
      <4>2. k \notin earned
        BY <1>1 DEF PaidMoney, EarnedKeys
      <4>3. \A p \in Request : Pending(p)' /\ KeyOf(p) = k => p = r
        BY <1>4, <1>7
      <4>5. k = KeyOf(r) /\ u = Owner[item[r]] /\ KeyOf(r)' = KeyOf(r)
        BY <1>4 DEF k, u
      <4>6. ~Refunded(KeyOf(r))'
        BY <1>1, <1>4, <1>6, <1>8 DEF Refunded, k
      <4>7. QED
        BY <3>1, <4>1, <4>2, <4>3, <4>5, <4>6
    <3>2. CASE q # r
      <4>1. Pending(q) /\ charge'[q] = charge[q]
        BY <1>4, <2>1, <3>2
      <4>2. \E e \in DOMAIN entries'[Owner[item[q]]] :
              /\ entries'[Owner[item[q]]][e].key = KeyOf(q)
              /\ entries'[Owner[item[q]]][e].amount = charge'[q].amount
        BY <1>3, <1>7, <4>1 DEF PaidMoney, ChargesHeld
      <4>3. ~Refunded(KeyOf(q)) /\ KeyOf(q) \notin earned
        BY <4>1 DEF PaidMoney, ChargesHeld
      <4>4. ~Refunded(KeyOf(q))'
        BY <1>4, <1>6, <1>7, <4>1, <4>3 DEF Refunded
      <4>5. ASSUME NEW p \in Request, Pending(p)', KeyOf(p) = KeyOf(q) PROVE p = q
        <5>1. CASE p = r
          BY <1>7, <4>1, <4>5, <5>1 DEF k
        <5>2. CASE p # r
          BY <1>4, <4>1, <4>5, <5>2 DEF PaidMoney, ChargesHeld
        <5>3. QED
          BY <5>1, <5>2
      <4>6. QED
        BY <4>2, <4>3, <4>4, <4>5
    <3>3. QED
      BY <3>1, <3>2
  <2>2. QED
    BY <1>4, <2>1 DEF ChargesHeld, historyVars
<1>10. EarnedKeys'
  BY <1>3 DEF PaidMoney, EarnedKeys, historyVars
<1>11. RowKeys'
  BY <1>1, <1>3 DEF PaidMoney, RowKeys
<1>12. RefundsAreDue'
  <2>1. \A j \in earned : j \in PaidKey /\ ~Refunded(j)
    BY DEF PaidMoney, EarnedKeys, RefundsAreDue
  <2>2. \A j \in earned' : ~Refunded(j)'
    BY <1>6, <2>1 DEF historyVars
  <2>3. ASSUME NEW v \in User, NEW e \in DOMAIN entries'[v],
               entries'[v][e].key # NoKey, entries'[v][e].key.refund
        PROVE  \E f \in 1 .. e - 1 :
                 /\ entries'[v][f].key # NoKey
                 /\ ~entries'[v][f].key.refund
                 /\ RefundKey(entries'[v][f].key) = entries'[v][e].key
                 /\ entries'[v][f].amount = -entries'[v][e].amount
    BY <1>1, <1>3, <2>3, RefundsKept DEF PaidMoney
  <2>4. QED
    BY <2>2, <2>3 DEF RefundsAreDue, RefundKey
<1>13. PaidOrReturned'
  <2>1. ASSUME NEW v \in User, NEW e \in DOMAIN entries'[v], entries'[v][e].key # NoKey,
               Paid(entries[v][e].key)', entries'[v][e].key.item \notin Session
        PROVE  \/ entries'[v][e].key \in earned' \cup lost'
               \/ Refunded(entries[v][e].key)'
               \/ \E q \in Request : Pending(q)' /\ KeyOf(q)' = entries'[v][e].key
    <3>1. CASE e \in DOMAIN entries[v]
      <4>0. entries'[v][e] = entries[v][e] /\ entries[v][e].key \in PaidKey
        BY <1>3, <2>1, <3>1 DEF PaidMoney, RowKeys
      <4>1. Paid(entries[v][e].key)
        BY <2>1, <3>1, <4>0 DEF Paid, KeyUsed
      <4>2. \/ entries[v][e].key \in earned \cup lost
            \/ Refunded(entries[v][e].key)
            \/ \E q \in Request : pc[q] # "idle" /\ charge[q].created /\ KeyOf(q) = entries[v][e].key
        BY <2>1, <3>1, <4>0, <4>1 DEF PaidMoney, PaidOrReturned
      <4>3. (\E q \in Request : pc[q] # "idle" /\ charge[q].created /\ KeyOf(q) = entries[v][e].key)
              => \E q \in Request : Pending(q)' /\ KeyOf(q)' = entries'[v][e].key
        BY <1>4, <1>5, <4>0 DEF Pending
      <4>4. Refunded(entries[v][e].key) => Refunded(entries[v][e].key)'
        BY <1>3, <4>0 DEF Refunded
      <4>5. QED
        BY <4>0, <4>2, <4>3, <4>4 DEF historyVars
    <3>2. CASE v = u /\ e = n
      <4>1. entries'[v][e].key = KeyOf(r)'
        BY <1>3, <1>4, <3>2 DEF k
      <4>2. QED
        BY <1>5, <4>1
    <3>3. QED
      BY <1>3, <3>1, <3>2
  <2>2. \A i \in Session : KeyUsed(ChargeKey(i, 0))' <=> ChargeKey(i, 0) \in stored'
    <3>1. \A i \in Session : ChargeKey(i, 0) # k
      BY <1>0, <1>1 DEF ChargeKey
    <3>2. QED
      BY <1>3, <3>1 DEF PaidMoney, PaidOrReturned, historyVars
  <2>3. QED
    BY <2>1, <2>2 DEF PaidOrReturned, Pending, ChargeKey
<1> QED
  BY <1>9, <1>10, <1>11, <1>12, <1>13 DEF PaidMoney

\* A refund is posted by the one request that holds the charge, which is over with it.
LEMMA RefundPosted ==
  ASSUME PaidTypes, RequestsFit, PaidMoney, NEW r \in Request, Pending(r),
         Post(Owner[item[r]], -charge[r].amount, RefundKey(KeyOf(r))), Goto(r, "idle"),
         UNCHANGED <<item, number, charge, historyVars>>
  PROVE  PaidMoney'
<1> DEFINE u == Owner[item[r]]
<1> DEFINE k == KeyOf(r)
<1> DEFINE n == Len(entries[u]) + 1
<1>0. charge[r].amount \in Int /\ item[r] \notin Session
  BY DEF PaidTypes, RequestsFit, Pending
<1>1. /\ k \in PaidKey /\ k # NoKey /\ ~k.refund /\ k.item = item[r] /\ u \in User
      /\ RefundKey(k) \in PaidKey /\ RefundKey(k) # NoKey /\ RefundKey(k).refund
  BY KeysOfRequests, RefundKeys DEF Pending
<1>2. PICK c \in DOMAIN entries[u] : entries[u][c].key = k /\ entries[u][c].amount = charge[r].amount
  BY DEF PaidMoney, ChargesHeld
<1>3. k \notin earned /\ \A q \in Request : Pending(q) /\ KeyOf(q) = k => q = r
  BY DEF PaidMoney, ChargesHeld
<1> HIDE DEF u, k
<1>4. Post(u, -charge[r].amount, RefundKey(k))
  BY DEF u, k
<1>5. /\ \A v \in User : \A e \in DOMAIN entries[v] :
           e \in DOMAIN entries'[v] /\ entries'[v][e] = entries[v][e]
      /\ \A v \in User : \A e \in DOMAIN entries'[v] :
           e \in DOMAIN entries[v] \/ (v = u /\ e = n)
      /\ n \in DOMAIN entries'[u]
      /\ entries'[u][n].key = RefundKey(k) /\ entries'[u][n].amount = -charge[r].amount
      /\ \A e \in DOMAIN entries[u] : e \in 1 .. n - 1
      /\ \A j : KeyUsed(j)' <=> KeyUsed(j) \/ j = RefundKey(k)
  BY <1>0, <1>1, <1>4, PostRows DEF PaidTypes
<1> HIDE DEF n
<1>6. \A q \in Request : /\ KeyOf(q)' = KeyOf(q)
                         /\ Pending(q)' <=> Pending(q) /\ q # r
  BY DEF KeyOf, Pending, Goto, PaidTypes
<1>7. ASSUME NEW j \in PaidKey, ~j.refund PROVE Refunded(j)' <=> Refunded(j) \/ j = k
  BY <1>1, <1>5, <1>7, RefundKeys DEF Refunded
<1>8. \A q \in Request : Pending(q) => KeyOf(q) \in PaidKey /\ ~KeyOf(q).refund /\ Owner[item[q]] \in User
  BY KeysOfRequests DEF Pending
<1>9. ChargesHeld'
  <2>1. ASSUME NEW q \in Request, Pending(q)'
        PROVE  /\ \E e \in DOMAIN entries'[Owner[item[q]]] :
                    /\ entries'[Owner[item[q]]][e].key = KeyOf(q)
                    /\ entries'[Owner[item[q]]][e].amount = charge'[q].amount
               /\ ~Refunded(KeyOf(q))' /\ KeyOf(q) \notin earned
               /\ \A p \in Request : Pending(p)' /\ KeyOf(p) = KeyOf(q) => p = q
    <3>1. Pending(q) /\ q # r
      BY <1>6, <2>1
    <3>2. \E e \in DOMAIN entries'[Owner[item[q]]] :
            /\ entries'[Owner[item[q]]][e].key = KeyOf(q)
            /\ entries'[Owner[item[q]]][e].amount = charge'[q].amount
      BY <1>5, <1>8, <3>1 DEF PaidMoney, ChargesHeld
    <3>3. ~Refunded(KeyOf(q)) /\ KeyOf(q) \notin earned
      BY <3>1 DEF PaidMoney, ChargesHeld
    <3>4. KeyOf(q) # k
      BY <1>3, <3>1
    <3>5. ~Refunded(KeyOf(q))'
      BY <1>6, <1>7, <1>8, <3>1, <3>3, <3>4 DEF Refunded
    <3>6. \A p \in Request : Pending(p)' /\ KeyOf(p) = KeyOf(q) => p = q
      BY <1>6, <3>1 DEF PaidMoney, ChargesHeld
    <3>7. QED
      BY <3>2, <3>3, <3>5, <3>6
  <2>2. QED
    BY <1>6, <2>1 DEF ChargesHeld, historyVars
<1>10. EarnedKeys'
  BY <1>5 DEF PaidMoney, EarnedKeys, historyVars
<1>11. RowKeys'
  BY <1>1, <1>5 DEF PaidMoney, RowKeys
<1>12. RefundsAreDue'
  <2>1. \A j \in earned : j \in PaidKey /\ ~j.refund /\ ~Refunded(j) /\ j # k
    BY <1>3 DEF PaidMoney, EarnedKeys, RefundsAreDue
  <2>2. \A j \in earned' : ~Refunded(j)'
    BY <1>7, <2>1 DEF historyVars
  <2>3. ASSUME NEW v \in User, NEW e \in DOMAIN entries'[v],
               entries'[v][e].key # NoKey, entries'[v][e].key.refund
        PROVE  \E f \in 1 .. e - 1 :
                 /\ entries'[v][f].key # NoKey
                 /\ ~entries'[v][f].key.refund
                 /\ RefundKey(entries'[v][f].key) = entries'[v][e].key
                 /\ entries'[v][f].amount = -entries'[v][e].amount
    <3>1. CASE e \in DOMAIN entries[v]
      BY <1>5, <2>3, <3>1, RefundsKept DEF PaidMoney
    <3>2. CASE v = u /\ e = n
      <4>1. c \in 1 .. n - 1 /\ entries'[u][c] = entries[u][c]
        BY <1>1, <1>2, <1>5
      <4>2. entries'[u][c].amount = -entries'[u][n].amount
        BY <1>0, <1>2, <1>5, <4>1
      <4>3. QED
        BY <1>1, <1>2, <1>5, <3>2, <4>1, <4>2
    <3>3. QED
      BY <1>5, <3>1, <3>2
  <2>4. QED
    BY <2>2, <2>3 DEF RefundsAreDue, RefundKey
<1>13. PaidOrReturned'
  <2>1. ASSUME NEW v \in User, NEW e \in DOMAIN entries'[v], entries'[v][e].key # NoKey,
               Paid(entries[v][e].key)', entries'[v][e].key.item \notin Session
        PROVE  \/ entries'[v][e].key \in earned' \cup lost'
               \/ Refunded(entries[v][e].key)'
               \/ \E q \in Request : Pending(q)' /\ KeyOf(q)' = entries'[v][e].key
    <3>1. CASE e \in DOMAIN entries[v]
      <4>0. entries'[v][e] = entries[v][e] /\ entries[v][e].key \in PaidKey
        BY <1>5, <2>1, <3>1 DEF PaidMoney, RowKeys
      <4>1. Paid(entries[v][e].key)
        BY <2>1, <3>1, <4>0 DEF Paid, KeyUsed
      <4>2. \/ entries[v][e].key \in earned \cup lost
            \/ Refunded(entries[v][e].key)
            \/ \E q \in Request : pc[q] # "idle" /\ charge[q].created /\ KeyOf(q) = entries[v][e].key
        BY <2>1, <3>1, <4>0, <4>1 DEF PaidMoney, PaidOrReturned
      <4>3. (\E q \in Request : pc[q] # "idle" /\ charge[q].created /\ KeyOf(q) = entries[v][e].key)
              => \/ entries[v][e].key = k
                 \/ \E q \in Request : Pending(q)' /\ KeyOf(q)' = entries'[v][e].key
        BY <1>6, <4>0 DEF Pending, k
      <4>4. Refunded(entries[v][e].key) \/ entries[v][e].key = k => Refunded(entries[v][e].key)'
        BY <1>5, <4>0 DEF Refunded
      <4>5. QED
        BY <4>0, <4>2, <4>3, <4>4 DEF historyVars
    <3>2. CASE v = u /\ e = n
      <4>1. entries'[v][e].key.refund
        BY <1>1, <1>5, <3>2
      <4>2. ~entries'[v][e].key.refund
        BY <2>1 DEF Paid
      <4>3. QED
        BY <4>1, <4>2
    <3>3. QED
      BY <1>5, <3>1, <3>2
  <2>2. \A i \in Session : KeyUsed(ChargeKey(i, 0))' <=> ChargeKey(i, 0) \in stored'
    <3>1. \A i \in Session : ChargeKey(i, 0) # RefundKey(k)
      BY <1>1 DEF ChargeKey
    <3>2. QED
      BY <1>5, <3>1 DEF PaidMoney, PaidOrReturned, historyVars
  <2>3. QED
    BY <2>1, <2>2 DEF PaidOrReturned, Pending, ChargeKey
<1> QED
  BY <1>9, <1>10, <1>11, <1>12, <1>13 DEF PaidMoney

\* A posting without a key, or of a session that stores its questions in the same transaction,
\* concerns no charge that is held.
LEMMA OtherPosting ==
  ASSUME PaidTypes, RequestsFit, PaidMoney,
         NEW u \in User, NEW a \in Int, NEW k \in PaidKey \cup {NoKey}, Post(u, a, k),
         k # NoKey => k.item \in Session /\ k = ChargeKey(k.item, 0),
         stored' = stored \cup ({k} \ {NoKey}),
         UNCHANGED <<item, number, charge, earned, lost>>,
         \A q \in Request : Pending(q)' <=> Pending(q)
  PROVE  PaidMoney'
<1> DEFINE n == Len(entries[u]) + 1
<1>1. /\ \A v \in User : \A e \in DOMAIN entries[v] :
           e \in DOMAIN entries'[v] /\ entries'[v][e] = entries[v][e]
      /\ \A v \in User : \A e \in DOMAIN entries'[v] :
           e \in DOMAIN entries[v] \/ (v = u /\ e = n)
      /\ n \in DOMAIN entries'[u]
      /\ entries'[u][n].key = k
      /\ \A j : KeyUsed(j)' <=> KeyUsed(j) \/ (j = k /\ k # NoKey)
  BY PostRows DEF PaidTypes
<1> HIDE DEF n
<1>2. k # NoKey => ~k.refund
  BY DEF ChargeKey
<1>3. \A q \in Request : KeyOf(q)' = KeyOf(q)
  BY DEF KeyOf
<1>4. ASSUME NEW j \in PaidKey PROVE Refunded(j)' <=> Refunded(j)
  BY <1>1, <1>2, RefundKeys DEF Refunded
<1>5. \A q \in Request : Pending(q) => KeyOf(q) \in PaidKey /\ Owner[item[q]] \in User
  BY KeysOfRequests DEF Pending
<1>6. ChargesHeld'
  <2>1. ASSUME NEW q \in Request, Pending(q)'
        PROVE  /\ \E e \in DOMAIN entries'[Owner[item[q]]] :
                    /\ entries'[Owner[item[q]]][e].key = KeyOf(q)
                    /\ entries'[Owner[item[q]]][e].amount = charge'[q].amount
               /\ ~Refunded(KeyOf(q))' /\ KeyOf(q) \notin earned
               /\ \A p \in Request : Pending(p)' /\ KeyOf(p) = KeyOf(q) => p = q
    <3>1. Pending(q)
      BY <2>1
    <3>2. \E e \in DOMAIN entries'[Owner[item[q]]] :
            /\ entries'[Owner[item[q]]][e].key = KeyOf(q)
            /\ entries'[Owner[item[q]]][e].amount = charge'[q].amount
      BY <1>1, <1>5, <3>1 DEF PaidMoney, ChargesHeld
    <3>3. ~Refunded(KeyOf(q)) /\ KeyOf(q) \notin earned
      BY <3>1 DEF PaidMoney, ChargesHeld
    <3>4. ~Refunded(KeyOf(q))'
      BY <1>3, <1>4, <1>5, <3>1, <3>3 DEF Refunded
    <3>5. \A p \in Request : Pending(p)' /\ KeyOf(p) = KeyOf(q) => p = q
      BY <3>1 DEF PaidMoney, ChargesHeld
    <3>6. QED
      BY <3>2, <3>3, <3>4, <3>5
  <2>2. QED
    BY <1>3, <2>1 DEF ChargesHeld
<1>7. EarnedKeys'
  BY <1>1 DEF PaidMoney, EarnedKeys
<1>8. RowKeys'
  BY <1>1 DEF PaidMoney, RowKeys
<1>9. RefundsAreDue'
  <2>1. \A j \in earned' : ~Refunded(j)'
    BY <1>4 DEF PaidMoney, EarnedKeys, RefundsAreDue
  <2>2. ASSUME NEW v \in User, NEW e \in DOMAIN entries'[v],
               entries'[v][e].key # NoKey, entries'[v][e].key.refund
        PROVE  \E f \in 1 .. e - 1 :
                 /\ entries'[v][f].key # NoKey
                 /\ ~entries'[v][f].key.refund
                 /\ RefundKey(entries'[v][f].key) = entries'[v][e].key
                 /\ entries'[v][f].amount = -entries'[v][e].amount
    BY <1>1, <1>2, <2>2, RefundsKept DEF PaidMoney
  <2>3. QED
    BY <2>1, <2>2 DEF RefundsAreDue, RefundKey
<1>10. PaidOrReturned'
  <2>1. ASSUME NEW v \in User, NEW e \in DOMAIN entries'[v], entries'[v][e].key # NoKey,
               Paid(entries[v][e].key)', entries'[v][e].key.item \notin Session
        PROVE  \/ entries'[v][e].key \in earned' \cup lost'
               \/ Refunded(entries[v][e].key)'
               \/ \E q \in Request : Pending(q)' /\ KeyOf(q)' = entries'[v][e].key
    <3>1. e \in DOMAIN entries[v] /\ entries'[v][e] = entries[v][e] /\ entries[v][e].key \in PaidKey
      BY <1>1, <2>1 DEF PaidMoney, RowKeys
    <3>2. Paid(entries[v][e].key)
      BY <2>1, <3>1 DEF Paid, KeyUsed
    <3>3. \/ entries[v][e].key \in earned \cup lost
          \/ Refunded(entries[v][e].key)
          \/ \E q \in Request : pc[q] # "idle" /\ charge[q].created /\ KeyOf(q) = entries[v][e].key
      BY <2>1, <3>1, <3>2 DEF PaidMoney, PaidOrReturned
    <3>4. (\E q \in Request : pc[q] # "idle" /\ charge[q].created /\ KeyOf(q) = entries[v][e].key)
            => \E q \in Request : Pending(q)' /\ KeyOf(q)' = entries'[v][e].key
      BY <1>3, <3>1 DEF Pending
    <3>5. Refunded(entries[v][e].key) => Refunded(entries[v][e].key)'
      BY <1>1, <3>1 DEF Refunded
    <3>6. QED
      BY <3>1, <3>3, <3>4, <3>5
  <2>2. \A i \in Session : KeyUsed(ChargeKey(i, 0))' <=> ChargeKey(i, 0) \in stored'
    <3>1. ASSUME NEW i \in Session PROVE ChargeKey(i, 0) \in PaidKey /\ ChargeKey(i, 0) # NoKey
      <4>1. i \in Item /\ 0 \in 0 .. MaxRuns
        BY PaidBoundAssumption DEF Item
      <4>2. QED
        BY <4>1, Keys
    <3>2. QED
      BY <1>1, <3>1 DEF PaidMoney, PaidOrReturned
  <2>3. QED
    BY <2>1, <2>2 DEF PaidOrReturned, Pending, ChargeKey
<1> QED
  BY <1>6, <1>7, <1>8, <1>9, <1>10 DEF PaidMoney

\* Whoever stores what was paid for has earned the charge, and will not refund it.
LEMMA GoodsStored ==
  ASSUME PaidTypes, RequestsFit, PaidMoney, NEW r \in Request, pc[r] # "idle",
         item[r] \notin Session, Goto(r, "idle"),
         stored' = stored \cup {KeyOf(r)},
         earned' = IF charge[r].created THEN earned \cup {KeyOf(r)} ELSE earned,
         UNCHANGED <<entries, item, number, charge, lost>>
  PROVE  PaidMoney'
<1>1. /\ KeyOf(r) \in PaidKey /\ ~KeyOf(r).refund /\ KeyOf(r).item = item[r]
      /\ Owner[item[r]] \in User
  BY KeysOfRequests
<1>2. \A k : (KeyUsed(k)' <=> KeyUsed(k)) /\ (Refunded(k)' <=> Refunded(k))
  BY DEF KeyUsed, Refunded
<1>3. \A q \in Request : KeyOf(q)' = KeyOf(q) /\ (Pending(q)' <=> Pending(q) /\ q # r)
  BY DEF KeyOf, Pending, Goto, PaidTypes
<1>4. charge[r].created => /\ Pending(r) /\ ~Refunded(KeyOf(r)) /\ KeyUsed(KeyOf(r))
                           /\ \A q \in Request : Pending(q) /\ KeyOf(q) = KeyOf(r) => q = r
  <2>1. ASSUME charge[r].created PROVE Pending(r)
    BY <2>1 DEF Pending
  <2>2. KeyOf(r) # NoKey
    BY KeysOfRequests
  <2>3. QED
    BY <1>1, <2>1, <2>2 DEF PaidMoney, ChargesHeld, KeyUsed
<1>5. ChargesHeld'
  <2>1. ASSUME NEW q \in Request, Pending(q)'
        PROVE  /\ \E e \in DOMAIN entries'[Owner[item[q]]] :
                    /\ entries'[Owner[item[q]]][e].key = KeyOf(q)
                    /\ entries'[Owner[item[q]]][e].amount = charge'[q].amount
               /\ ~Refunded(KeyOf(q))' /\ KeyOf(q) \notin earned'
               /\ \A p \in Request : Pending(p)' /\ KeyOf(p) = KeyOf(q) => p = q
    <3>1. Pending(q) /\ q # r
      BY <1>3, <2>1
    <3>2. KeyOf(q) \notin earned'
      BY <1>4, <3>1 DEF PaidMoney, ChargesHeld
    <3>3. ~Refunded(KeyOf(q))'
      BY <1>2, <1>3, <3>1 DEF PaidMoney, ChargesHeld, Refunded, KeyUsed
    <3>4. QED
      BY <1>3, <3>1, <3>2, <3>3 DEF PaidMoney, ChargesHeld
  <2>2. QED
    BY <1>3, <2>1 DEF ChargesHeld
<1>6. EarnedKeys'
  BY <1>1, <1>2, <1>4 DEF PaidMoney, EarnedKeys
<1>7. RowKeys'
  BY DEF PaidMoney, RowKeys
<1>8. RefundsAreDue'
  BY <1>2, <1>4 DEF PaidMoney, RefundsAreDue
<1>9. PaidOrReturned'
  <2>1. ASSUME NEW u \in User, NEW e \in DOMAIN entries'[u], entries'[u][e].key # NoKey,
               Paid(entries[u][e].key)', entries'[u][e].key.item \notin Session
        PROVE  \/ entries'[u][e].key \in earned' \cup lost'
               \/ Refunded(entries[u][e].key)'
               \/ \E q \in Request : Pending(q)' /\ KeyOf(q)' = entries'[u][e].key
    <3>1. Paid(entries[u][e].key)
      BY <1>2, <2>1 DEF Paid
    <3>2. \/ entries[u][e].key \in earned \cup lost
          \/ Refunded(entries[u][e].key)
          \/ \E q \in Request : pc[q] # "idle" /\ charge[q].created /\ KeyOf(q) = entries[u][e].key
      BY <2>1, <3>1 DEF PaidMoney, PaidOrReturned
    <3>3. QED
      BY <1>2, <1>3, <3>2 DEF Pending
  <2>2. \A i \in Session : KeyUsed(ChargeKey(i, 0))' <=> ChargeKey(i, 0) \in stored'
    <3>1. \A i \in Session : ChargeKey(i, 0) # KeyOf(r)
      BY <1>1 DEF ChargeKey
    <3>2. QED
      BY <1>2, <3>1 DEF PaidMoney, PaidOrReturned
  <2>3. QED
    BY <2>1, <2>2 DEF PaidOrReturned, Pending, ChargeKey
<1> QED
  BY <1>5, <1>6, <1>7, <1>8, <1>9 DEF PaidMoney

-----------------------------------------------------------------------------
(* The steps *)

\* A request that moves on joins those at work, or leaves them.
LEMMA WorkersMove ==
  ASSUME PaidTypes, IsFiniteSet(Working), NEW r \in Request, NEW s, pc' = [pc EXCEPT ![r] = s]
  PROVE  /\ IsFiniteSet(Working') /\ Cardinality(Working) \in Nat /\ Cardinality(Working') \in Nat
         /\ Cardinality(Working') <= Cardinality(Working) + 1
         /\ r \in Working => Cardinality(Working') <= Cardinality(Working)
         /\ s \notin {"charge", "generate", "store"} => Cardinality(Working') <= Cardinality(Working)
         /\ r \in Working /\ s \notin {"charge", "generate", "store"} =>
              Cardinality(Working') = Cardinality(Working) - 1
<1>1. \A q \in Request : pc'[q] = IF q = r THEN s ELSE pc[q]
  BY DEF PaidTypes
<1>2. Cardinality(Working) \in Nat
  BY FS_CardinalityType
<1>3. CASE s \in {"charge", "generate", "store"}
  <2>1. Working' = Working \cup {r}
    BY <1>1, <1>3 DEF Working
  <2>2. /\ IsFiniteSet(Working \cup {r})
        /\ Cardinality(Working \cup {r}) = IF r \in Working THEN Cardinality(Working) ELSE Cardinality(Working) + 1
    BY FS_AddElement
  <2>3. QED
    BY <1>2, <1>3, <2>1, <2>2
<1>4. CASE s \notin {"charge", "generate", "store"}
  <2>1. Working' = Working \ {r}
    BY <1>1, <1>4 DEF Working
  <2>2. /\ IsFiniteSet(Working \ {r})
        /\ Cardinality(Working \ {r}) = IF r \in Working THEN Cardinality(Working) - 1 ELSE Cardinality(Working)
    BY FS_RemoveElement
  <2>3. Cardinality(Working \ {r}) \in Nat
    BY <2>2, FS_CardinalityType
  <2>4. QED
    BY <1>2, <1>4, <2>1, <2>2, <2>3
<1> QED
  BY <1>3, <1>4

\* A request that begins has paid nothing yet.
LEMMA BeginStep ==
  ASSUME PaidInv, NEW r \in Request, NEW i \in Item, NEW again \in BOOLEAN,
         BeginPaid(r, i) \/ BeginSession(r, i) \/ BeginAnalysis(r, i, again)
  PROVE  PaidInv'
<1> USE PaidBoundAssumption
<1>1. PICK b, n, s : /\ Start(r, i, b, n, s)
                     /\ n = 0 \/ (i \in Analysis /\ n = genCount[i])
                     /\ s \in {"charge", "generate"} /\ (i \in Session => s = "generate" /\ n = 0)
  <2>1. CASE BeginPaid(r, i)
    BY <2>1, FeatureItemAssumption DEF BeginPaid
  <2>2. CASE BeginSession(r, i)
    BY <2>2 DEF BeginSession
  <2>3. CASE BeginAnalysis(r, i, again)
    BY <2>3, FeatureItemAssumption DEF BeginAnalysis
  <2>4. QED
    BY <2>1, <2>2, <2>3
<1>2. /\ pc[r] = "idle" /\ runs < MaxRuns /\ runs' = runs + 1 /\ pc' = [pc EXCEPT ![r] = s]
      /\ item' = [item EXCEPT ![r] = i] /\ number' = [number EXCEPT ![r] = n]
      /\ charge' = [charge EXCEPT ![r] = NoCharge] /\ empty' = [empty EXCEPT ![r] = FALSE]
      /\ UNCHANGED <<balance, entries, price, made, genCount, earned, stored, lost>>
  BY <1>1 DEF Start, Goto, ledgerVars, productVars, historyVars
<1>3. PaidTypes /\ Counted /\ RequestsFit /\ PaidMoney
  BY DEF PaidInv
<1>4. n \in Nat /\ n <= MaxRuns
  <2>1. CASE n = 0
    BY <2>1
  <2>2. CASE i \in Analysis /\ n = genCount[i]
    <3>1. genCount[i] \in Nat /\ Cardinality(Working) \in Nat
      BY <1>3, <2>2, FS_CardinalityType DEF PaidTypes, Counted
    <3>2. QED
      BY <1>3, <2>2, <3>1 DEF Counted
  <2>3. QED
    BY <1>1, <2>1, <2>2
<1>5. NoCharge.created = FALSE
  BY DEF NoCharge
<1>6. PaidTypes'
  <2>1. pc' \in [Request -> {"idle", "charge", "generate", "store", "refund"}]
    BY <1>1, <1>2, <1>3 DEF PaidTypes
  <2>2. number' \in [Request -> Nat] /\ empty' \in [Request -> BOOLEAN]
    BY <1>2, <1>3, <1>4 DEF PaidTypes
  <2>3. DOMAIN item' = Request /\ DOMAIN charge' = Request
    BY <1>2, <1>3 DEF PaidTypes
  <2>4. \A q \in Request : charge'[q].created \in BOOLEAN
    BY <1>2, <1>3, <1>5 DEF PaidTypes
  <2>5. QED
    BY <1>2, <1>3, <2>1, <2>2, <2>3, <2>4 DEF PaidTypes
<1>7. Counted'
  <2>1. IsFiniteSet(Working') /\ Cardinality(Working) \in Nat /\ Cardinality(Working') \in Nat
        /\ Cardinality(Working') <= Cardinality(Working) + 1
    BY <1>2, <1>3, WorkersMove DEF Counted
  <2>2. \A j \in Analysis : genCount[j] \in Nat
    BY <1>3 DEF PaidTypes
  <2>3. QED
    BY <1>2, <1>3, <2>1, <2>2 DEF Counted, GenerationsCounted
<1>8. RequestsFit'
  <2>1. ASSUME NEW q \in Request, q # r
        PROVE  /\ pc'[q] = pc[q] /\ item'[q] = item[q] /\ number'[q] = number[q]
               /\ charge'[q] = charge[q] /\ empty'[q] = empty[q]
    BY <1>2, <1>3, <2>1 DEF PaidTypes
  <2>2. /\ pc'[r] = s /\ item'[r] = i /\ number'[r] = n /\ charge'[r].created = FALSE
        /\ empty'[r] = FALSE
    BY <1>2, <1>3, <1>5 DEF PaidTypes
  <2>3. QED
    BY <1>1, <1>3, <1>4, <2>1, <2>2 DEF RequestsFit
<1>9. PaidMoney'
  <2>1. \A q \in Request : q # r => (Pending(q)' <=> Pending(q)) /\ item'[q] = item[q]
                                     /\ number'[q] = number[q] /\ charge'[q] = charge[q]
    BY <1>2, <1>3 DEF PaidTypes, Pending
  <2>2. ~Pending(r) /\ ~Pending(r)'
    BY <1>2, <1>3, <1>5 DEF PaidTypes, Pending
  <2>3. QED
    BY <1>2, <1>3, <2>1, <2>2, NothingPosted
<1> QED
  BY <1>6, <1>7, <1>8, <1>9 DEF PaidInv

\* A request that moves on keeps the types and the counts, whatever it has written.
LEMMA RequestMoves ==
  ASSUME PaidInv, NEW r \in Request, pc[r] # "idle",
         NEW s \in {"idle", "generate", "store", "refund"}, Goto(r, s),
         UNCHANGED <<price, item, number, runs>>,
         balance' \in [User -> Int], entries' \in [User -> Seq(Entry)],
         made' \in [Item -> Nat], genCount' \in [Analysis -> Nat], GenerationsCounted',
         \A i \in Analysis : \/ genCount'[i] = genCount[i]
                             \/ genCount'[i] = genCount[i] + 1 /\ r \in Working /\ s \in {"idle", "refund"},
         empty' \in [Request -> BOOLEAN], \A q \in Request : q # r => empty'[q] = empty[q],
         DOMAIN charge' = Request, \A q \in Request : q # r => charge'[q] = charge[q],
         charge'[r].created \in BOOLEAN,
         charge'[r].created => item[r] \notin Session /\ charge'[r].amount \in Int,
         s = "generate" => ~empty'[r] /\ r \in Working /\ item[r] \notin Session,
         s = "store" => item[r] \in Analysis /\ r \in Working,
         s = "refund" => item[r] \notin Session
  PROVE  PaidTypes' /\ Counted' /\ RequestsFit'
<1> USE PaidBoundAssumption
<1>1. PaidTypes /\ Counted /\ RequestsFit
  BY DEF PaidInv
<1>2. pc' = [pc EXCEPT ![r] = s]
  BY DEF Goto
<1>3. PaidTypes'
  <2>1. pc' \in [Request -> {"idle", "charge", "generate", "store", "refund"}]
    BY <1>1, <1>2 DEF PaidTypes
  <2>2. \A q \in Request : charge'[q].created \in BOOLEAN
    BY <1>1 DEF PaidTypes
  <2>3. QED
    BY <1>1, <2>1, <2>2 DEF PaidTypes
<1>4. Counted'
  <2>1. /\ IsFiniteSet(Working') /\ Cardinality(Working) \in Nat /\ Cardinality(Working') \in Nat
        /\ Cardinality(Working') <= Cardinality(Working)
        /\ r \in Working /\ s \in {"idle", "refund"} => Cardinality(Working') = Cardinality(Working) - 1
    BY <1>1, <1>2, WorkersMove DEF Counted
  <2>2. \A j \in Analysis : genCount[j] \in Nat
    BY <1>1 DEF PaidTypes
  <2>3. ASSUME NEW i \in Analysis PROVE genCount'[i] + Cardinality(Working') <= runs
    <3>1. genCount[i] + Cardinality(Working) <= runs /\ runs \in Nat
      BY <1>1 DEF Counted
    <3>2. CASE genCount'[i] = genCount[i]
      BY <2>1, <2>2, <3>1, <3>2
    <3>3. CASE genCount'[i] = genCount[i] + 1 /\ r \in Working /\ s \in {"idle", "refund"}
      BY <2>1, <2>2, <3>1, <3>3
    <3>4. QED
      BY <3>2, <3>3
  <2>4. QED
    BY <1>1, <2>1, <2>3 DEF Counted
<1>5. RequestsFit'
  <2>1. ASSUME NEW q \in Request, q # r
        PROVE  /\ pc'[q] = pc[q] /\ item'[q] = item[q] /\ number'[q] = number[q]
               /\ charge'[q] = charge[q] /\ empty'[q] = empty[q]
    BY <1>1, <1>2, <2>1 DEF PaidTypes
  <2>2. pc'[r] = s /\ item'[r] = item[r] /\ number'[r] = number[r]
    BY <1>1, <1>2 DEF PaidTypes
  <2>3. Analysis \cap Session = {}
    BY FeatureItemAssumption
  <2>4. QED
    BY <1>1, <2>1, <2>2, <2>3 DEF RequestsFit
<1> QED
  BY <1>3, <1>4, <1>5

\* The steps of a request that post nothing and store nothing.
LEMMA QuietSteps ==
  ASSUME PaidInv, NEW r \in Request, Fail(r) \/ Escape(r) \/ DeleteOld(r) \/ Crash(r)
  PROVE  PaidInv'
<1>1. PaidTypes /\ Counted /\ RequestsFit /\ PaidMoney
  BY DEF PaidInv
<1>2. PICK s \in {"idle", "store", "refund"} :
        /\ Goto(r, s)
        /\ s = "store" => item[r] \in Analysis /\ pc[r] = "generate"
        /\ s = "refund" => item[r] \notin Session
        /\ s = "idle" => lost' = LostWith(r) \/ (lost' = lost /\ item[r] \in Session /\ pc[r] = "generate")
        /\ s # "idle" => lost' = lost
  BY DEF Fail, Escape, DeleteOld, Crash, historyVars
<1>3. /\ pc[r] # "idle"
      /\ UNCHANGED <<balance, entries, price, item, number, charge, made, genCount, earned, stored, runs>>
      /\ \/ empty' = empty
         \/ \E none \in BOOLEAN : empty' = [empty EXCEPT ![r] = none]
  BY DEF Fail, Escape, DeleteOld, Crash, historyVars, productVars, ledgerVars, bounds
<1>4. empty' \in [Request -> BOOLEAN] /\ \A q \in Request : q # r => empty'[q] = empty[q]
  BY <1>1, <1>3 DEF PaidTypes
<1>5. charge'[r].created => item[r] \notin Session /\ charge'[r].amount \in Int
  BY <1>1, <1>3 DEF RequestsFit
<1>6. GenerationsCounted' /\ (s = "store" => r \in Working)
  BY <1>1, <1>2, <1>3 DEF Counted, GenerationsCounted, Working
<1>7. PaidTypes' /\ Counted' /\ RequestsFit'
  <2>1. /\ s \in {"idle", "generate", "store", "refund"} /\ s # "generate"
        /\ balance' \in [User -> Int] /\ entries' \in [User -> Seq(Entry)]
        /\ made' \in [Item -> Nat] /\ genCount' \in [Analysis -> Nat]
        /\ DOMAIN charge' = Request /\ charge'[r].created \in BOOLEAN /\ charge' = charge
        /\ \A i \in Analysis : genCount'[i] = genCount[i]
    BY <1>1, <1>2, <1>3 DEF PaidTypes
  <2>2. QED
    BY <1>2, <1>3, <1>4, <1>5, <1>6, <2>1, RequestMoves
<1>8. PaidMoney'
  <2>1. \A q \in Request : pc'[q] = IF q = r THEN s ELSE pc[q]
    BY <1>1, <1>2 DEF Goto, PaidTypes
  <2>2. \A q \in Request : Pending(q)' => Pending(q)
    BY <1>3, <2>1 DEF Pending
  <2>3. ASSUME NEW q \in Request, Pending(q), ~Pending(q)' PROVE KeyOf(q) \in lost'
    <3>1. q = r /\ s = "idle" /\ charge[r].created
      BY <1>3, <2>1, <2>3 DEF Pending
    <3>2. lost' = LostWith(r)
      BY <1>1, <1>2, <1>3, <3>1 DEF RequestsFit
    <3>3. QED
      BY <3>1, <3>2 DEF LostWith
  <2>4. lost \subseteq lost'
    BY <1>2 DEF LostWith
  <2>5. QED
    BY <1>1, <1>3, <2>2, <2>3, <2>4, NothingPosted
<1> QED
  BY <1>7, <1>8 DEF PaidInv

\* A request pays.
LEMMA ChargeStep ==
  ASSUME PaidInv, NEW r \in Request, Charge(r)
  PROVE  PaidInv'
<1>1. PaidTypes /\ Counted /\ RequestsFit /\ PaidMoney
  BY DEF PaidInv
<1>2. /\ pc[r] = "charge" /\ r \in Working /\ item[r] \notin Session /\ ~charge[r].created
      /\ UNCHANGED <<price, item, number, empty, made, genCount, earned, stored, lost, runs>>
      /\ ~empty[r]
  BY <1>1 DEF Charge, RequestsFit, Working, productVars, historyVars, bounds
<1>3. /\ DOMAIN charge = Request /\ balance \in [User -> Int] /\ entries \in [User -> Seq(Entry)]
      /\ made \in [Item -> Nat] /\ genCount \in [Analysis -> Nat] /\ empty \in [Request -> BOOLEAN]
      /\ GenerationsCounted' /\ pc \in [Request -> {"idle", "charge", "generate", "store", "refund"}]
      /\ charge[r].created \in BOOLEAN /\ ~empty'[r]
  BY <1>1, <1>2 DEF PaidTypes, Counted, GenerationsCounted
<1>4. CASE /\ Goto(r, "idle") /\ UNCHANGED <<charge, balance, entries>>
  <2>1. PaidTypes' /\ Counted' /\ RequestsFit'
    BY <1>1, <1>2, <1>3, <1>4, RequestMoves
  <2>2. \A q \in Request : Pending(q)' <=> Pending(q)
    BY <1>2, <1>3, <1>4 DEF Pending, Goto
  <2>3. PaidMoney'
    BY <1>1, <1>2, <1>4, <2>2, NothingPosted
  <2>4. QED
    BY <2>1, <2>3 DEF PaidInv
<1>5. CASE /\ Goto(r, "generate") /\ UNCHANGED <<balance, entries>>
           /\ charge' = [charge EXCEPT ![r] = [created |-> FALSE, amount |-> AmountUnder(KeyOf(r))]]
  <2>1. /\ charge'[r].created = FALSE /\ DOMAIN charge' = Request
        /\ \A q \in Request : q # r => charge'[q] = charge[q]
    BY <1>3, <1>5
  <2>2. PaidTypes' /\ Counted' /\ RequestsFit'
    BY <1>1, <1>2, <1>3, <1>5, <2>1, RequestMoves
  <2>3. \A q \in Request : /\ Pending(q)' <=> Pending(q)
                           /\ Pending(q) => charge'[q] = charge[q]
    BY <1>2, <1>3, <1>5, <2>1 DEF Pending, Goto
  <2>4. PaidMoney'
    BY <1>1, <1>2, <1>5, <2>3, NothingPosted
  <2>5. QED
    BY <2>2, <2>4 DEF PaidInv
<1>6. CASE /\ Post(Owner[item[r]], price, KeyOf(r)) /\ Goto(r, "generate")
           /\ charge' = [charge EXCEPT ![r] = [created |-> TRUE, amount |-> price]]
  <2>1. price \in Int
    BY <1>1, PriceAssumption, AmountAssumption DEF PaidTypes
  <2>2. /\ charge'[r].created = TRUE /\ charge'[r].amount = price /\ DOMAIN charge' = Request
        /\ \A q \in Request : q # r => charge'[q] = charge[q]
    BY <1>3, <1>6
  <2>3. balance' \in [User -> Int] /\ entries' \in [User -> Seq(Entry)]
    <3>1. KeyOf(r) \in PaidKey /\ Owner[item[r]] \in User
      BY <1>1, <1>2, KeysOfRequests
    <3>2. QED
      BY <1>3, <1>6, <2>1, <3>1, PostRows
  <2>4. PaidTypes' /\ Counted' /\ RequestsFit'
    BY <1>1, <1>2, <1>3, <1>6, <2>1, <2>2, <2>3, RequestMoves
  <2>5. PaidMoney'
    BY <1>1, <1>2, <1>6, ChargePosted DEF historyVars
  <2>6. QED
    BY <2>4, <2>5 DEF PaidInv
<1> QED
  BY <1>4, <1>5, <1>6 DEF Charge, ledgerVars

\* What a request stores, and what it earns by that.
LEMMA WhatIsStored ==
  ASSUME PaidInv, NEW r \in Request, pc[r] # "idle", NEW out, Store(r, out)
  PROVE  /\ made' \in [Item -> Nat] /\ made'[item[r]] = made[item[r]] + 1
         /\ \A i \in Item : i # item[r] => made'[i] = made[i]
         /\ ~empty[r] => stored' = stored \cup {KeyOf(r)}
         /\ ~empty[r] => earned' = IF charge[r].created THEN earned \cup {KeyOf(r)} ELSE earned
         /\ empty[r] => stored' = stored /\ earned' = earned
<1>1. made \in [Item -> Nat] /\ item[r] \in Item
  BY DEF PaidInv, PaidTypes, RequestsFit
<1>2. made' = [made EXCEPT ![item[r]] = made[item[r]] + 1]
  BY DEF Store
<1> QED
  BY <1>1, <1>2 DEF Store

\* A pack or an exercise is stored.
LEMMA ProduceStep ==
  ASSUME PaidInv, NEW r \in Request, Produce(r)
  PROVE  PaidInv'
<1>1. PaidTypes /\ Counted /\ RequestsFit /\ PaidMoney
  BY DEF PaidInv
<1>2. /\ pc[r] # "idle" /\ item[r] \in Pack \cup Practice /\ Store(r, {}) /\ Goto(r, "idle")
      /\ UNCHANGED <<balance, entries, price, item, number, charge, empty, genCount, lost, runs>>
      /\ ~empty[r]
  BY <1>1 DEF Produce, RequestsFit, ledgerVars, bounds
<1>3. /\ made' \in [Item -> Nat] /\ \A i \in Item : i # item[r] => made'[i] = made[i]
      /\ stored' = stored \cup {KeyOf(r)}
      /\ earned' = IF charge[r].created THEN earned \cup {KeyOf(r)} ELSE earned
  BY <1>2, WhatIsStored
<1>4. item[r] \notin Session /\ item[r] \notin Analysis
  BY <1>2, FeatureItemAssumption
<1>5. GenerationsCounted'
  BY <1>1, <1>2, <1>3, <1>4 DEF Counted, GenerationsCounted, Item
<1>6. charge'[r].created => item[r] \notin Session /\ charge'[r].amount \in Int
  BY <1>1, <1>2, <1>4 DEF RequestsFit
<1>7. PaidTypes' /\ Counted' /\ RequestsFit'
  BY <1>1, <1>2, <1>3, <1>5, <1>6, RequestMoves DEF PaidTypes
<1>8. PaidMoney'
  BY <1>1, <1>2, <1>3, <1>4, GoodsStored
<1> QED
  BY <1>7, <1>8 DEF PaidInv

\* The result of an analysis is stored.
LEMMA StoreAnalysisStep ==
  ASSUME PaidInv, NEW r \in Request, StoreAnalysis(r)
  PROVE  PaidInv'
<1>1. PaidTypes /\ Counted /\ RequestsFit /\ PaidMoney
  BY DEF PaidInv
<1>2. PICK s \in {"idle", "refund"} :
        /\ Goto(r, s) /\ (s = "refund" <=> empty[r])
        /\ pc[r] = "store" /\ r \in Working /\ item[r] \in Analysis /\ Store(r, doomed[r])
        /\ genCount' = [genCount EXCEPT ![item[r]] = genCount[item[r]] + 1]
        /\ UNCHANGED <<balance, entries, price, item, number, charge, empty, lost, runs>>
  <2>1. pc[r] = "store" /\ r \in Working /\ item[r] \in Analysis
    BY <1>1 DEF StoreAnalysis, Working, RequestsFit
  <2>2. CASE empty[r]
    BY <2>1, <2>2 DEF StoreAnalysis, NothingToShow, Increment, ledgerVars, bounds
  <2>3. CASE ~empty[r]
    BY <2>1, <2>3 DEF StoreAnalysis, NothingToShow, Increment, ledgerVars, bounds
  <2>4. QED
    BY <2>2, <2>3
<1>3. /\ made' \in [Item -> Nat] /\ \A i \in Item : i # item[r] => made'[i] = made[i]
      /\ made'[item[r]] = made[item[r]] + 1
      /\ ~empty[r] => stored' = stored \cup {KeyOf(r)}
      /\ ~empty[r] => earned' = IF charge[r].created THEN earned \cup {KeyOf(r)} ELSE earned
      /\ empty[r] => stored' = stored /\ earned' = earned
  BY <1>2, WhatIsStored
<1>4. item[r] \notin Session
  BY <1>2, FeatureItemAssumption
<1>5. /\ genCount' \in [Analysis -> Nat] /\ genCount'[item[r]] = genCount[item[r]] + 1
      /\ \A i \in Analysis : i # item[r] => genCount'[i] = genCount[i]
  BY <1>1, <1>2 DEF PaidTypes
<1>6. GenerationsCounted'
  BY <1>1, <1>2, <1>3, <1>5 DEF Counted, GenerationsCounted, Item
<1>7. charge'[r].created => item[r] \notin Session /\ charge'[r].amount \in Int
  BY <1>1, <1>2, <1>4 DEF RequestsFit
<1>8. PaidTypes' /\ Counted' /\ RequestsFit'
  <2>1. /\ balance' \in [User -> Int] /\ entries' \in [User -> Seq(Entry)]
        /\ empty' \in [Request -> BOOLEAN] /\ DOMAIN charge' = Request /\ charge'[r].created \in BOOLEAN
    BY <1>1, <1>2 DEF PaidTypes
  <2>2. QED
    BY <1>2, <1>3, <1>4, <1>5, <1>6, <1>7, <2>1, RequestMoves
<1>9. PaidMoney'
  <2>1. CASE ~empty[r]
    BY <1>1, <1>2, <1>3, <1>4, <2>1, GoodsStored
  <2>2. CASE empty[r]
    <3>1. \A q \in Request : Pending(q)' <=> Pending(q)
      BY <1>1, <1>2, <2>2 DEF Pending, Goto, PaidTypes
    <3>2. QED
      BY <1>1, <1>2, <1>3, <2>2, <3>1, NothingPosted
  <2>3. QED
    BY <2>1, <2>2
<1> QED
  BY <1>8, <1>9 DEF PaidInv

\* The questions of a session are stored and paid for at once.
LEMMA StoreSessionStep ==
  ASSUME PaidInv, NEW r \in Request, StoreSession(r)
  PROVE  PaidInv'
<1>1. PaidTypes /\ Counted /\ RequestsFit /\ PaidMoney
  BY DEF PaidInv
<1>2. /\ pc[r] = "generate" /\ item[r] \in Session /\ Goto(r, "idle") /\ pc[r] # "idle"
      /\ UNCHANGED <<price, item, number, charge, empty, genCount, lost, runs>>
      /\ ~empty[r] /\ ~charge[r].created
  BY <1>1 DEF StoreSession, RequestsFit, bounds
<1>3. /\ KeyOf(r) \in PaidKey /\ KeyOf(r) # NoKey /\ KeyOf(r).item = item[r]
      /\ KeyOf(r) = ChargeKey(item[r], 0) /\ Owner[item[r]] \in User /\ price \in Int
  BY <1>1, <1>2, KeysOfRequests, PriceAssumption, AmountAssumption DEF PaidTypes
<1>4. \A q \in Request : Pending(q)' <=> Pending(q)
  BY <1>1, <1>2 DEF Pending, Goto, PaidTypes
<1>5. /\ balance \in [User -> Int] /\ entries \in [User -> Seq(Entry)]
      /\ made \in [Item -> Nat] /\ genCount \in [Analysis -> Nat] /\ empty \in [Request -> BOOLEAN]
      /\ DOMAIN charge = Request /\ charge[r].created \in BOOLEAN
  BY <1>1 DEF PaidTypes
<1>6. ASSUME balance' \in [User -> Int], entries' \in [User -> Seq(Entry)], made' \in [Item -> Nat],
             \A i \in Item : i # item[r] => made'[i] = made[i]
      PROVE  PaidTypes' /\ Counted' /\ RequestsFit'
  <2>1. item[r] \notin Analysis
    BY <1>2, FeatureItemAssumption
  <2>2. GenerationsCounted'
    BY <1>1, <1>2, <1>6, <2>1 DEF Counted, GenerationsCounted, Item
  <2>3. QED
    BY <1>2, <1>5, <1>6, <2>2, RequestMoves
<1>7. CASE /\ Store(r, {})
           /\ IF KeyUsed(KeyOf(r)) THEN UNCHANGED ledgerVars ELSE Post(Owner[item[r]], price, KeyOf(r))
  <2>1. /\ made' \in [Item -> Nat] /\ \A i \in Item : i # item[r] => made'[i] = made[i]
        /\ stored' = stored \cup {KeyOf(r)} /\ earned' = earned
    BY <1>2, <1>7, WhatIsStored
  <2>2. CASE KeyUsed(KeyOf(r))
    <3>1. UNCHANGED <<balance, entries>>
      BY <1>7, <2>2 DEF ledgerVars
    <3>2. KeyOf(r) \in stored
      BY <1>1, <1>2, <1>3, <2>2 DEF PaidMoney, PaidOrReturned
    <3>3. PaidMoney'
      BY <1>1, <1>2, <1>4, <2>1, <3>1, <3>2, NothingPosted
    <3>4. QED
      BY <1>5, <1>6, <2>1, <3>1, <3>3 DEF PaidInv
  <2>3. CASE ~KeyUsed(KeyOf(r))
    <3>1. Post(Owner[item[r]], price, KeyOf(r))
      BY <1>7, <2>3
    <3>2. balance' \in [User -> Int] /\ entries' \in [User -> Seq(Entry)]
      BY <1>3, <1>5, <3>1, PostRows
    <3>3. stored' = stored \cup ({KeyOf(r)} \ {NoKey})
      BY <1>3, <2>1
    <3>4. PaidMoney'
      BY <1>1, <1>2, <1>3, <1>4, <2>1, <3>1, <3>3, OtherPosting
    <3>5. QED
      BY <1>6, <2>1, <3>2, <3>4 DEF PaidInv
  <2>4. QED
    BY <2>2, <2>3
<1>8. CASE UNCHANGED <<ledgerVars, made, earned, stored>>
  <2>1. PaidMoney'
    BY <1>1, <1>2, <1>4, <1>8, NothingPosted DEF ledgerVars
  <2>2. QED
    BY <1>5, <1>6, <1>8, <2>1 DEF PaidInv, ledgerVars
<1> QED
  BY <1>7, <1>8 DEF StoreSession, RolledBack

\* A request gives back what it took.
LEMMA RefundStep ==
  ASSUME PaidInv, NEW r \in Request, Refund(r)
  PROVE  PaidInv'
<1>1. PaidTypes /\ Counted /\ RequestsFit /\ PaidMoney
  BY DEF PaidInv
<1>2. /\ pc[r] = "refund" /\ Goto(r, "idle") /\ pc[r] # "idle"
      /\ UNCHANGED <<price, item, number, charge, empty, made, genCount, earned, stored, lost, runs>>
  BY DEF Refund, productVars, historyVars, bounds
<1>3. /\ made \in [Item -> Nat] /\ genCount \in [Analysis -> Nat] /\ empty \in [Request -> BOOLEAN]
      /\ balance \in [User -> Int] /\ entries \in [User -> Seq(Entry)]
      /\ DOMAIN charge = Request /\ charge[r].created \in BOOLEAN
      /\ GenerationsCounted'
      /\ charge[r].created => item[r] \notin Session /\ charge[r].amount \in Int
  BY <1>1, <1>2 DEF PaidTypes, Counted, GenerationsCounted, RequestsFit
<1>4. CASE ~charge[r].created /\ UNCHANGED ledgerVars
  <2>1. UNCHANGED <<balance, entries>>
    BY <1>4 DEF ledgerVars
  <2>2. \A q \in Request : Pending(q)' <=> Pending(q)
    BY <1>1, <1>2, <1>4 DEF Pending, Goto, PaidTypes
  <2>3. PaidMoney'
    BY <1>1, <1>2, <2>1, <2>2, NothingPosted
  <2>4. PaidTypes' /\ Counted' /\ RequestsFit'
    BY <1>2, <1>3, <2>1, RequestMoves
  <2>5. QED
    BY <2>3, <2>4 DEF PaidInv
<1>5. CASE charge[r].created /\ Post(Owner[item[r]], -charge[r].amount, RefundKey(KeyOf(r)))
  <2>1. Pending(r)
    BY <1>2, <1>5 DEF Pending
  <2>2. PaidMoney'
    BY <1>1, <1>2, <1>5, <2>1, RefundPosted DEF historyVars
  <2>3. balance' \in [User -> Int] /\ entries' \in [User -> Seq(Entry)]
    <3>1. RefundKey(KeyOf(r)) \in PaidKey /\ Owner[item[r]] \in User
      BY <1>1, <1>2, KeysOfRequests, RefundKeys
    <3>2. -charge[r].amount \in Int
      BY <1>3, <1>5
    <3>3. QED
      BY <1>3, <1>5, <3>1, <3>2, PostRows
  <2>4. PaidTypes' /\ Counted' /\ RequestsFit'
    BY <1>2, <1>3, <2>3, RequestMoves
  <2>5. QED
    BY <2>2, <2>4 DEF PaidInv
<1> QED
  BY <1>4, <1>5 DEF Refund, Refundable, RefundAmount

\* What happens outside the paid requests: earnings, other routes, administrators.
LEMMA OutsideSteps ==
  ASSUME PaidInv,
         \/ \E u \in User : Earn(u)
         \/ \E i \in Item : FillElsewhere(i) \/ ForceDelete(i)
         \/ \E p \in Prices : SetPrice(p)
         \/ UNCHANGED paidVars
  PROVE  PaidInv'
<1>1. PaidTypes /\ Counted /\ RequestsFit /\ PaidMoney
  BY DEF PaidInv
<1>2. ASSUME balance' \in [User -> Int], entries' \in [User -> Seq(Entry)], price' \in Prices,
             UNCHANGED <<pc, item, number, charge, empty, made, genCount, runs>>
      PROVE  PaidTypes' /\ Counted' /\ RequestsFit'
  <2>1. Working' = Working
    BY <1>2 DEF Working
  <2>2. QED
    BY <1>1, <1>2, <2>1 DEF PaidTypes, Counted, GenerationsCounted, RequestsFit
<1>3. ASSUME NEW u \in User, Earn(u) PROVE PaidInv'
  <2>1. /\ Post(u, Grant, NoKey) /\ Grant \in Int
        /\ UNCHANGED <<price, pc, item, number, charge, empty, made, genCount, earned, stored, lost, runs>>
    BY <1>3, PriceAssumption, AmountAssumption DEF Earn, requestVars, productVars, historyVars
  <2>2. balance' \in [User -> Int] /\ entries' \in [User -> Seq(Entry)]
    BY <1>1, <2>1, PostRows DEF PaidTypes
  <2>3. \A q \in Request : Pending(q)' <=> Pending(q)
    BY <2>1 DEF Pending
  <2>4. PaidMoney'
    BY <1>1, <2>1, <2>3, OtherPosting
  <2>5. price' \in Prices
    BY <1>1, <2>1 DEF PaidTypes
  <2>6. QED
    BY <1>2, <2>1, <2>2, <2>4, <2>5 DEF PaidInv
<1>4. ASSUME \/ \E i \in Item : FillElsewhere(i) \/ ForceDelete(i)
             \/ \E p \in Prices : SetPrice(p)
             \/ UNCHANGED paidVars
      PROVE  PaidInv'
  <2>1. /\ UNCHANGED <<balance, entries, pc, item, number, charge, empty, made, genCount,
                       earned, stored, lost, runs>>
        /\ price' \in Prices
    BY <1>1, <1>4 DEF FillElsewhere, ForceDelete, SetPrice, PaidTypes, paidVars, ledgerVars, requestVars,
                      productVars, historyVars, bounds
  <2>2. \A q \in Request : Pending(q)' <=> Pending(q)
    BY <2>1 DEF Pending
  <2>3. PaidMoney'
    BY <1>1, <2>1, <2>2, NothingPosted
  <2>4. balance' \in [User -> Int] /\ entries' \in [User -> Seq(Entry)]
    BY <1>1, <2>1 DEF PaidTypes
  <2>5. QED
    BY <1>2, <2>1, <2>3, <2>4 DEF PaidInv
<1> QED
  BY <1>3, <1>4

\* Every step keeps it.
LEMMA PaidStep == PaidInv /\ [PaidNext]_paidVars => PaidInv'
<1> SUFFICES ASSUME PaidInv, PaidNext \/ UNCHANGED paidVars PROVE PaidInv'
  OBVIOUS
<1>1. CASE \E r \in Request : \/ \E i \in Item : BeginPaid(r, i) \/ BeginSession(r, i)
                              \/ \E i \in Item, again \in BOOLEAN : BeginAnalysis(r, i, again)
  BY <1>1, BeginStep
<1>2. CASE \E r \in Request : RequestStep(r) \/ Crash(r)
  BY <1>2, QuietSteps, ChargeStep, ProduceStep, StoreSessionStep, StoreAnalysisStep, RefundStep
     DEF RequestStep
<1>3. CASE \/ \E u \in User : Earn(u)
           \/ \E i \in Item : FillElsewhere(i) \/ ForceDelete(i)
           \/ \E p \in Prices : SetPrice(p)
           \/ UNCHANGED paidVars
  BY <1>3, OutsideSteps
<1> QED
  BY <1>1, <1>2, <1>3 DEF PaidNext

\* Nothing is sold yet.
LEMMA PaidInitially == PaidInit => PaidInv
<1> SUFFICES ASSUME PaidInit PROVE PaidInv
  OBVIOUS
<1> USE PaidBoundAssumption
<1>1. /\ balance = [u \in User |-> 0] /\ entries = [u \in User |-> <<>>]
      /\ pc = [r \in Request |-> "idle"] /\ charge = [r \in Request |-> NoCharge]
  BY DEF PaidInit, LedgerInit
<1>2. PaidTypes
  <2>1. balance \in [User -> Int] /\ entries \in [User -> Seq(Entry)]
    BY <1>1
  <2>2. made \in [Item -> Nat] /\ genCount \in [Analysis -> Nat] /\ number \in [Request -> Nat]
    BY DEF PaidInit
  <2>3. \A r \in Request : charge[r].created \in BOOLEAN
    BY <1>1 DEF NoCharge
  <2>4. empty \in [Request -> BOOLEAN]
    BY DEF PaidInit
  <2>5. QED
    BY <1>1, <2>1, <2>2, <2>3, <2>4 DEF PaidInit, PaidTypes
<1>3. Counted
  <2>1. Working = {}
    BY <1>1 DEF Working
  <2>2. \A i \in Analysis : genCount[i] = 0 /\ made[i] = 0
    BY DEF PaidInit, Item
  <2>3. IsFiniteSet(Working) /\ Cardinality(Working) = 0
    BY <2>1, FS_EmptySet
  <2>4. runs = 0
    BY DEF PaidInit
  <2>5. QED
    BY <2>2, <2>3, <2>4 DEF Counted, GenerationsCounted
<1>4. RequestsFit
  BY <1>1 DEF RequestsFit
<1>5. \A k : ~KeyUsed(k)
  BY <1>1 DEF KeyUsed
<1>6. PaidMoney
  <2>1. \A r \in Request : ~Pending(r)
    BY <1>1 DEF Pending
  <2>2. \A u \in User : DOMAIN entries[u] = {}
    <3>1. DOMAIN <<>> = {}
      OBVIOUS
    <3>2. \A u \in User : entries[u] = <<>>
      BY <1>1
    <3>3. QED
      BY <3>1, <3>2
  <2>3. earned = {} /\ stored = {}
    BY DEF PaidInit
  <2>7. ChargesHeld /\ EarnedKeys /\ RowKeys
    BY <2>1, <2>2, <2>3 DEF ChargesHeld, EarnedKeys, RowKeys
  <2>4. RefundsAreDue
    BY <2>2, <2>3 DEF RefundsAreDue
  <2>5. PaidOrReturned
    BY <1>5, <2>2, <2>3 DEF PaidOrReturned
  <2>6. QED
    BY <2>4, <2>5, <2>7 DEF PaidMoney
<1> QED
  BY <1>2, <1>3, <1>4, <1>6 DEF PaidInv

\* What a user pays is what he gets: a refund gives back exactly what its charge took, a charge
\* bought something, was refunded, is still being worked on or ended with its request, a session
\* is charged exactly when its questions are stored, and every generation counts against the free
\* limit, whatever requests overlap, fail or die (apps/interview/views.py, mvp_views.py,
\* apps/analysis/views.py).
THEOREM ChargesAreFairCorrect == PaidSpec => []ChargesAreFair
<1>1. PaidInv => ChargesAreFair
  BY DEF PaidInv, PaidMoney, Counted, ChargesAreFair
<1>2. QED
  BY <1>1, PaidInitially, PaidStep, PTL DEF PaidSpec

-----------------------------------------------------------------------------
(* The analysis of the documents *)

AnalysisRow == [status : {"none", "analyzing", "ready", "failed"},
                jd : BOOLEAN, resume : BOOLEAN, result : BOOLEAN]

\* The sessions keep their columns, and one that names a result names one that is there.
SessionsFit ==
  /\ job \in [AnalysisRun -> AnalysisRow]
  /\ \A s \in AnalysisRun : job[s].result => s \in results

DocumentInv == SessionsFit /\ ReadyHasResult

\* The deletion of a document, as a session sees it.
LEMMA DeletedLinks ==
  ASSUME NEW r \in AnalysisRow
  PROVE  /\ [Unlinked(r) EXCEPT !.result = FALSE] \in AnalysisRow
         /\ [Unlinked(r) EXCEPT !.result = FALSE].jd = FALSE
         /\ [Unlinked(r) EXCEPT !.result = FALSE].result = FALSE
         /\ [r EXCEPT !.resume = FALSE, !.result = FALSE] \in AnalysisRow
         /\ [r EXCEPT !.resume = FALSE, !.result = FALSE].resume = FALSE
         /\ [r EXCEPT !.resume = FALSE, !.result = FALSE].result = FALSE
<1>1. Unlinked(r) \in AnalysisRow /\ Unlinked(r).jd = FALSE
  BY DEF Unlinked, AnalysisRow
<1>2. \A x \in AnalysisRow : /\ [x EXCEPT !.result = FALSE] \in AnalysisRow
                             /\ [x EXCEPT !.result = FALSE].result = FALSE
                             /\ [x EXCEPT !.result = FALSE].jd = x.jd
  BY DEF AnalysisRow
<1>3. [r EXCEPT !.resume = FALSE, !.result = FALSE] \in AnalysisRow
  BY DEF AnalysisRow
<1>4. [r EXCEPT !.resume = FALSE, !.result = FALSE].resume = FALSE
  BY DEF AnalysisRow
<1>5. [r EXCEPT !.resume = FALSE, !.result = FALSE].result = FALSE
  BY DEF AnalysisRow
<1> QED
  BY <1>1, <1>2, <1>3, <1>4, <1>5

\* The steps of the requests and the deletions.
LEMMA DocumentStep == DocumentInv /\ [DocumentNext]_documentVars => DocumentInv'
<1> SUFFICES ASSUME DocumentInv, DocumentNext \/ UNCHANGED documentVars PROVE DocumentInv'
  OBVIOUS
<1>0. /\ job \in [AnalysisRun -> AnalysisRow]
      /\ \A s \in AnalysisRun : job[s].result => s \in results
      /\ ReadyHasResult
  BY DEF DocumentInv, SessionsFit
<1>1. ASSUME UNCHANGED <<job, results>> PROVE DocumentInv'
  BY <1>0, <1>1 DEF DocumentInv, SessionsFit, ReadyHasResult
<1>2. ASSUME NEW s \in AnalysisRun, NEW row \in AnalysisRow, job' = [job EXCEPT ![s] = row],
             results' = results, row.result => s \in results,
             row.status = "ready" => row.result
      PROVE  DocumentInv'
  BY <1>0, <1>2 DEF DocumentInv, SessionsFit, ReadyHasResult
<1>3. ASSUME NEW c \in Client, NEW s \in AnalysisRun, CreateAnalysis(c, s) PROVE DocumentInv'
  <2> DEFINE row == [status |-> "analyzing", jd |-> TRUE, resume |-> TRUE, result |-> FALSE]
  <2>1. row \in AnalysisRow /\ row.result = FALSE /\ row.status # "ready"
    BY DEF AnalysisRow
  <2> HIDE DEF row
  <2>2. results' = results /\ (job' = job \/ job' = [job EXCEPT ![s] = row])
    BY <1>3 DEF CreateAnalysis, row
  <2>3. QED
    BY <1>1, <1>2, <2>1, <2>2
<1>4. CASE DeleteJd
  <2>1. \A s \in AnalysisRun : [Unlinked(job[s]) EXCEPT !.result = FALSE] \in AnalysisRow
    BY <1>0, DeletedLinks
  <2>2. job' \in [AnalysisRun -> AnalysisRow] /\ \A s \in AnalysisRun : job'[s].jd = FALSE /\ job'[s].result = FALSE
    BY <1>0, <1>4, <2>1, DeletedLinks DEF DeleteJd
  <2>3. QED
    BY <2>2 DEF DocumentInv, SessionsFit, ReadyHasResult
<1>5. CASE DeleteResume
  <2>1. \A s \in AnalysisRun : [job[s] EXCEPT !.resume = FALSE, !.result = FALSE] \in AnalysisRow
    BY <1>0, DeletedLinks
  <2>2. job' \in [AnalysisRun -> AnalysisRow] /\ \A s \in AnalysisRun : job'[s].resume = FALSE /\ job'[s].result = FALSE
    BY <1>0, <1>5, <2>1, DeletedLinks DEF DeleteResume
  <2>3. QED
    BY <2>2 DEF DocumentInv, SessionsFit, ReadyHasResult
<1>6. ASSUME NEW s \in AnalysisRun, StoreResult(s) PROVE DocumentInv'
  <2>1. results' = results \cup {s} /\ job' = job
    BY <1>6 DEF StoreResult
  <2>2. QED
    BY <1>0, <2>1 DEF DocumentInv, SessionsFit, ReadyHasResult
<1>7. ASSUME NEW s \in AnalysisRun, FinishAnalysis(s) PROVE DocumentInv'
  <2> DEFINE row == [job[s] EXCEPT !.status = "ready", !.result = TRUE]
  <2>1. job[s] \in AnalysisRow
    BY <1>0
  <2>2. row \in AnalysisRow
    BY <2>1 DEF AnalysisRow
  <2>3. row.result = TRUE
    BY <2>1 DEF AnalysisRow
  <2> HIDE DEF row
  <2>4. s \in results /\ results' = results
    BY <1>7 DEF FinishAnalysis
  <2>5. job' = [job EXCEPT ![s] = row]
    BY <1>0, <1>7 DEF FinishAnalysis, row
  <2>6. QED
    BY <1>2, <2>2, <2>3, <2>4, <2>5
<1>8. ASSUME NEW s \in AnalysisRun, FailAnalysis(s) PROVE DocumentInv'
  <2> DEFINE row == [job[s] EXCEPT !.status = "failed"]
  <2>1. job[s] \in AnalysisRow
    BY <1>0
  <2>2. row \in AnalysisRow /\ row.status = "failed" /\ row.result = job[s].result
    BY <2>1 DEF AnalysisRow
  <2> HIDE DEF row
  <2>3. results' = results
    BY <1>8 DEF FailAnalysis
  <2>4. job' = [job EXCEPT ![s] = row]
    BY <1>0, <1>8 DEF FailAnalysis, row
  <2>5. QED
    BY <1>0, <1>2, <2>2, <2>3, <2>4
<1>9. ASSUME NEW c \in Client, StartAnalysis(c) \/ BeginPatch(c) \/ SavePatch(c) PROVE DocumentInv'
  BY <1>1, <1>9 DEF StartAnalysis, BeginPatch, SavePatch, rowsVars
<1>10. ASSUME NEW s \in AnalysisRun, Analyse(s) \/ MarkJd(s) \/ RaiseInThread(s) \/ FailJd(s) \/ ThreadDies(s)
       PROVE  DocumentInv'
  BY <1>1, <1>10 DEF Analyse, MarkJd, RaiseInThread, FailJd, ThreadDies, rowsVars
<1>11. CASE UNCHANGED documentVars
  BY <1>1, <1>11 DEF documentVars, rowsVars
<1> QED
  BY <1>3, <1>4, <1>5, <1>6, <1>7, <1>8, <1>9, <1>10, <1>11 DEF DocumentNext, AnalysisThread

\* A session that is shown as ready and used again for the same documents has its result, whatever
\* was deleted, edited or inserted again while its thread ran (AnalysisMatchView, AnalysisStartView).
THEOREM ReadyHasResultCorrect == DocumentSpec => []ReadyHasResult
<1>1. DocumentInit => DocumentInv
  <2> SUFFICES ASSUME DocumentInit PROVE DocumentInv
    OBVIOUS
  <2>1. NewSession \in AnalysisRow
    BY DEF NewSession, AnalysisRow
  <2>2. NewSession.result = FALSE /\ NewSession.status # "ready"
    BY DEF NewSession
  <2>3. job \in [AnalysisRun -> AnalysisRow] /\ \A s \in AnalysisRun : job[s] = NewSession
    BY <2>1 DEF DocumentInit
  <2>4. QED
    BY <2>2, <2>3 DEF DocumentInv, SessionsFit, ReadyHasResult
<1>2. QED
  BY <1>1, DocumentStep, PTL DEF DocumentSpec, DocumentInv

-----------------------------------------------------------------------------
(* The talent profile *)

\* Whoever is past the save of the row holds its lock, and what its DELETE found is still all
\* there is when it commits.
TalentInv ==
  /\ puts \in Nat
  /\ DOMAIN put = Writer /\ DOMAIN request = Writer /\ DOMAIN seen = Writer /\ DOMAIN doomedItems = Writer
  /\ \A w \in Writer : put[w] # "idle" => request[w].number # 0
  /\ \A w \in Writer : put[w] \in {"delete", "commit"} => rowLock = w
  /\ \A w \in Writer : put[w] = "commit" => doomedItems[w] = items
  /\ \A w \in Writer : seen[w].confirmed => seen[w].confirmedAt # 0
  /\ ProfileOfOnePut

\* Every step keeps it.
LEMMA TalentStep == TalentInv /\ [TalentNext]_profileVars => TalentInv'
<1> SUFFICES ASSUME TalentInv, TalentNext \/ UNCHANGED profileVars PROVE TalentInv'
  OBVIOUS
<1> USE WriterAssumption
<1>0. NoProfile.confirmed = FALSE
  BY DEF NoProfile
<1>1. ASSUME NEW w \in Writer, NEW l \in BOOLEAN, NEW c \in BOOLEAN, BeginPut(w, l, c) PROVE TalentInv'
  <2> DEFINE row == [number |-> puts + 1, locks |-> l, confirms |-> c]
  <2>1. row.number = puts + 1
    OBVIOUS
  <2> HIDE DEF row
  <2>2. /\ puts' = puts + 1 /\ request' = [request EXCEPT ![w] = row] /\ put' = [put EXCEPT ![w] = "open"]
        /\ UNCHANGED <<profile, items, rowLock, seen, doomedItems>>
    BY <1>1 DEF BeginPut, PutGoes, row
  <2>3. QED
    BY <2>1, <2>2 DEF TalentInv, ProfileOfOnePut
<1>2. ASSUME NEW w \in Writer, OpenProfile(w) PROVE TalentInv'
  <2>1. /\ seen' = [seen EXCEPT ![w] = profile] /\ put' = [put EXCEPT ![w] = "save"] /\ put[w] = "open"
        /\ UNCHANGED <<profile, items, request, doomedItems, puts>>
        /\ rowLock' = rowLock \/ rowLock = NoWriter
    BY <1>2 DEF OpenProfile, PutGoes
  <2>2. QED
    BY <2>1 DEF TalentInv, ProfileOfOnePut
<1>3. ASSUME NEW w \in Writer, SaveProfile(w) PROVE TalentInv'
  BY <1>3 DEF SaveProfile, RowWritten, PutGoes, TalentInv, ProfileOfOnePut
<1>4. ASSUME NEW w \in Writer, DeleteItems(w) PROVE TalentInv'
  BY <1>4 DEF DeleteItems, PutGoes, TalentInv, ProfileOfOnePut
<1>5. ASSUME NEW w \in Writer, EndPut(w),
             items' = items \/ (put[w] = "commit" /\ rowLock = w), ProfileOfOnePut'
      PROVE  TalentInv'
  <2>1. /\ put' = [put EXCEPT ![w] = "idle"] /\ request' = [request EXCEPT ![w] = NoRequest]
        /\ seen' = [seen EXCEPT ![w] = NoProfile] /\ doomedItems' = [doomedItems EXCEPT ![w] = {}]
        /\ puts' = puts /\ rowLock' = IF rowLock = w THEN NoWriter ELSE rowLock
    BY <1>5 DEF EndPut, PutGoes
  <2>2. \A v \in Writer : v # w => /\ put'[v] = put[v] /\ request'[v] = request[v]
                                   /\ seen'[v] = seen[v] /\ doomedItems'[v] = doomedItems[v]
    BY <2>1 DEF TalentInv
  <2>3. put'[w] = "idle" /\ seen'[w] = NoProfile
    BY <2>1 DEF TalentInv
  <2>4. \A v \in Writer : put'[v] = "commit" => doomedItems'[v] = items'
    BY <1>5, <2>2, <2>3 DEF TalentInv
  <2>5. \A v \in Writer : put'[v] \in {"delete", "commit"} => rowLock' = v
    BY <2>1, <2>2, <2>3 DEF TalentInv
  <2>6. \A v \in Writer : seen'[v].confirmed => seen'[v].confirmedAt # 0
    BY <1>0, <2>2, <2>3 DEF TalentInv
  <2>7. QED
    BY <1>5, <2>1, <2>2, <2>3, <2>4, <2>5, <2>6 DEF TalentInv
<1>6. ASSUME NEW w \in Writer, CommitPut(w) PROVE TalentInv'
  <2> DEFINE row == [by |-> request[w].number, confirmed |-> request[w].confirms, confirmedAt |-> ConfirmedAt(w)]
  <2>1. /\ put[w] = "commit" /\ profile' = row /\ EndPut(w)
        /\ items' = (items \ doomedItems[w]) \cup {request[w].number}
    BY <1>6 DEF CommitPut
  <2>2. rowLock = w /\ doomedItems[w] = items /\ request[w].number # 0
    BY <2>1 DEF TalentInv
  <2>3. request[w].confirms => ConfirmedAt(w) # 0
    BY <2>2 DEF TalentInv, ConfirmedAt
  <2>4. row # NoProfile /\ row.by = request[w].number
    <3>1. row.by # NoProfile.by
      BY <2>2 DEF NoProfile
    <3>2. QED
      BY <3>1
  <2>5. row.confirmed => row.confirmedAt # 0
    BY <2>3
  <2> HIDE DEF row
  <2>6. ProfileOfOnePut'
    BY <2>1, <2>2, <2>4, <2>5 DEF ProfileOfOnePut
  <2>7. QED
    BY <1>5, <2>1, <2>2, <2>6
<1>7. ASSUME NEW w \in Writer, RollBack(w) PROVE TalentInv'
  <2>1. EndPut(w) /\ profile' = profile /\ items' = items
    BY <1>7 DEF RollBack
  <2>2. ProfileOfOnePut'
    BY <2>1 DEF TalentInv, ProfileOfOnePut
  <2>3. QED
    BY <1>5, <2>1, <2>2
<1>8. CASE UNCHANGED profileVars
  BY <1>8 DEF profileVars, TalentInv, ProfileOfOnePut
<1> QED
  BY <1>1, <1>2, <1>3, <1>4, <1>6, <1>7, <1>8 DEF TalentNext

\* A talent profile, its items and its confirmation stem from one put, although one of the two
\* handlers that replace it reads the row without a lock (JDTalentProfileView of both apps).
THEOREM ProfileOfOnePutCorrect == TalentSpec => []ProfileOfOnePut
<1>1. TalentInit => TalentInv
  BY DEF TalentInit, TalentInv, ProfileOfOnePut, NoProfile, NoRequest
<1>2. QED
  BY <1>1, TalentStep, PTL DEF TalentSpec, TalentInv

-----------------------------------------------------------------------------
(* The documents that are kept *)

RowKinds == {"jd", "resume", "project", "letter", "profile", "uploaded"}
DraftKinds == RowKinds \cup {"none", "part", "desiredJob"}
DocumentRow == [id : Nat \cup {NoRow}, kind : RowKinds, jd : Nat \cup {NoRow}, asked : Nat, items : Nat]
DraftRow == [id : Nat \cup {NoRow}, kind : DraftKinds, jd : Nat \cup {NoRow}, asked : Nat, items : Nat]

\* The rows are numbered, name job descriptions that are there, and are one profile.
RowsKept ==
  /\ inserted \in Nat /\ answered \in SUBSET (1 .. inserted)
  /\ kept \in SUBSET DocumentRow
  /\ \A x \in kept : x.id \in 1 .. inserted /\ x.jd \in Ids("jd") \cup {NoRow}
  /\ \A x \in kept : x.kind = "uploaded" => x.jd = NoRow /\ x.items = x.asked
  /\ \A x, y \in kept : x.id = y.id => x = y
  /\ \A i, j \in Ids("profile") : i = j

\* The requests that have a row, and those of them that create it.
Busy(c) == author[c] \in {"row", "items", "reward", "answer"}
Creates(c) == Busy(c) /\ draft[c].kind \notin {"part", "desiredJob"}

\* What each request knows of the row it is about.
DraftFits(c) ==
  /\ author[c] = "insert" => draft[c].kind \in RowKinds \ {"uploaded"} /\ draft[c].items = 0
                             /\ left[c] = draft[c].asked /\ (draft[c].kind # "letter" => draft[c].asked = 0)
  /\ author[c] = "file" => draft[c].kind = "uploaded" /\ draft[c].jd = NoRow
                           /\ draft[c].items = 0 /\ draft[c].asked = 0
  /\ author[c] = "row" => draft[c].kind = "uploaded" /\ draft[c].jd = NoRow /\ draft[c].items = draft[c].asked
                          /\ draft[c].id \in files /\ \A x \in kept : x.id # draft[c].id
  /\ author[c] = "items" => draft[c].kind \in {"letter", "part"}
                            /\ \A x \in kept : x.id = draft[c].id =>
                                 IF draft[c].kind = "part" THEN x.kind = "resume"
                                 ELSE x.kind = "letter" /\ x.asked = x.items + left[c]
  /\ author[c] = "reward" => draft[c].kind \in (RowKinds \ {"uploaded"}) \cup {"desiredJob"}
                             /\ (draft[c].kind # "desiredJob" => \A x \in kept : x.id = draft[c].id =>
                                   x.kind = draft[c].kind /\ x.items = x.asked)
  /\ author[c] = "answer" => (draft[c].kind \notin {"part", "desiredJob"} =>
                               \A x \in kept : x.id = draft[c].id => x.kind = draft[c].kind
                                 /\ x.items = x.asked
                                 /\ IF x.kind = "uploaded" THEN x.id \in files \cup unwanted
                                    ELSE x.kind \in claimed)
  /\ author[c] = "unfile" => draft[c].kind = "uploaded"
  /\ Busy(c) => draft[c].id \in 1 .. inserted
  /\ Creates(c) => draft[c].id \notin answered

\* Two requests create two rows, and nobody knows a row that is not inserted yet.
Apart(c, d) ==
  Creates(c) /\ Busy(d) /\ (Creates(d) \/ author[c] = "row") => draft[c].id # draft[d].id
RowsApart == \A c, d \in Author : c # d => Apart(c, d)

\* The answered rows are whole.
AnsweredWhole ==
  \A x \in kept : x.id \in answered =>
    /\ x.items = x.asked
    /\ IF x.kind = "uploaded" THEN x.id \in files \cup unwanted ELSE x.kind \in claimed

\* Where the requests are.
AuthorsStand ==
  /\ author \in [Author -> {"idle", "insert", "file", "row", "items", "reward", "answer", "unfile"}]
  /\ draft \in [Author -> DraftRow] /\ left \in [Author -> Nat]

\* The inductive invariant.
InputInv ==
  /\ RowsKept /\ AnsweredWhole /\ RowsApart /\ AuthorsStand
  /\ \A c \in Author : DraftFits(c)

\* A step of one request, seen from the others.
LeavesOthers(c) ==
  \A d \in Author \ {c} : author'[d] = author[d] /\ draft'[d] = draft[d] /\ left'[d] = left[d]

\* A row that another request may know, as it was before a step.
Earlier(x, y, d) ==
  /\ y.id = x.id /\ y.kind = x.kind /\ y.asked = x.asked
  /\ draft[d].kind \notin {"part", "desiredJob"} => y.items = x.items

\* At the start there is nothing.
LEMMA InputInitially == InputInit => InputInv
<1> SUFFICES ASSUME InputInit PROVE InputInv
  OBVIOUS
<1>1. NewRow("none") \in DraftRow
  BY DEF NewRow, DraftRow, DraftKinds, RowKinds
<1>2. /\ kept = {} /\ answered = {} /\ inserted = 0 /\ author = [c \in Author |-> "idle"]
      /\ draft = [c \in Author |-> NewRow("none")] /\ left = [c \in Author |-> 0]
  BY DEF InputInit
<1>3. RowsKept
  BY <1>2 DEF RowsKept, Ids
<1>4. AnsweredWhole
  BY <1>2 DEF AnsweredWhole
<1>5. \A c \in Author : ~Busy(c) /\ author[c] = "idle"
  BY <1>2 DEF Busy
<1>6. RowsApart
  BY <1>5 DEF RowsApart, Apart
<1>7. AuthorsStand
  BY <1>1, <1>2 DEF AuthorsStand
<1>8. \A c \in Author : DraftFits(c)
  BY <1>5 DEF DraftFits, Creates
<1>9. QED
  BY <1>3, <1>4, <1>6, <1>7, <1>8 DEF InputInv

\* What a request knows of its row stays true while another one acts, ...
LEMMA OthersFit ==
  ASSUME InputInv, NEW c \in Author, LeavesOthers(c), inserted' \in Nat, inserted <= inserted',
         files \cup unwanted \subseteq files' \cup unwanted', claimed \subseteq claimed',
         NEW d \in Author \ {c},
         author[d] = "row" => draft[d].id \in files',
         Creates(d) => draft[d].id \notin answered',
         \A x \in kept' : Busy(d) /\ x.id = draft[d].id =>
           author[d] # "row" /\ \E y \in kept : Earlier(x, y, d)
  PROVE  DraftFits(d)'
<1>1. author'[d] = author[d] /\ draft'[d] = draft[d] /\ left'[d] = left[d]
  BY DEF LeavesOthers
<1>2. DraftFits(d) /\ inserted \in Nat
  BY DEF InputInv, RowsKept
<1>3. Busy(d)' = Busy(d) /\ Creates(d)' = Creates(d)
  BY <1>1 DEF Busy, Creates
<1>4. Busy(d) => draft'[d].id \in 1 .. inserted'
  BY <1>1, <1>2 DEF DraftFits
<1>5. author[d] = "items" =>
        /\ draft[d].kind \in {"letter", "part"}
        /\ \A x \in kept' : x.id = draft[d].id =>
             IF draft[d].kind = "part" THEN x.kind = "resume" ELSE x.kind = "letter" /\ x.asked = x.items + left[d]
  <2> SUFFICES ASSUME author[d] = "items"
               PROVE  /\ draft[d].kind \in {"letter", "part"}
                      /\ \A x \in kept' : x.id = draft[d].id =>
                           IF draft[d].kind = "part" THEN x.kind = "resume"
                           ELSE x.kind = "letter" /\ x.asked = x.items + left[d]
    OBVIOUS
  <2>1. Busy(d)
    BY DEF Busy
  <2>2. QED
    BY <1>2, <2>1 DEF DraftFits, Earlier
<1>6. author[d] = "reward" =>
        /\ draft[d].kind \in (RowKinds \ {"uploaded"}) \cup {"desiredJob"}
        /\ draft[d].kind # "desiredJob" => \A x \in kept' : x.id = draft[d].id =>
             x.kind = draft[d].kind /\ x.items = x.asked
  <2> SUFFICES ASSUME author[d] = "reward"
               PROVE  /\ draft[d].kind \in (RowKinds \ {"uploaded"}) \cup {"desiredJob"}
                      /\ draft[d].kind # "desiredJob" => \A x \in kept' : x.id = draft[d].id =>
                           x.kind = draft[d].kind /\ x.items = x.asked
    OBVIOUS
  <2>1. Busy(d)
    BY DEF Busy
  <2>2. QED
    BY <1>2, <2>1 DEF DraftFits, Earlier, RowKinds
<1>7. author[d] = "answer" /\ draft[d].kind \notin {"part", "desiredJob"} =>
        \A x \in kept' : x.id = draft[d].id =>
          /\ x.kind = draft[d].kind /\ x.items = x.asked
          /\ IF x.kind = "uploaded" THEN x.id \in files' \cup unwanted' ELSE x.kind \in claimed'
  <2> SUFFICES ASSUME author[d] = "answer", draft[d].kind \notin {"part", "desiredJob"},
                      NEW x \in kept', x.id = draft[d].id
               PROVE  /\ x.kind = draft[d].kind /\ x.items = x.asked
                      /\ IF x.kind = "uploaded" THEN x.id \in files' \cup unwanted' ELSE x.kind \in claimed'
    OBVIOUS
  <2>1. PICK y \in kept : Earlier(x, y, d)
    BY DEF Busy
  <2>2. /\ y.kind = draft[d].kind /\ y.items = y.asked
        /\ IF y.kind = "uploaded" THEN y.id \in files \cup unwanted ELSE y.kind \in claimed
    BY <1>2, <2>1 DEF DraftFits, Earlier
  <2>3. QED
    BY <2>1, <2>2 DEF Earlier
<1>8. author[d] = "row" => \A x \in kept' : x.id # draft[d].id
  BY DEF Busy
<1>9. QED
  BY <1>1, <1>2, <1>3, <1>4, <1>5, <1>6, <1>7, <1>8 DEF DraftFits

\* ... and its row stays apart from that one's, if it takes none that another has.
LEMMA StaysApart ==
  ASSUME InputInv, NEW c \in Author, LeavesOthers(c),
         \/ ~Busy(c)'
         \/ Busy(c) /\ author'[c] # "row" /\ draft'[c] = draft[c]
         \/ \A d \in Author \ {c} : Busy(d) => draft'[c].id # draft[d].id
         \/ ~Creates(c)' /\ \E x \in kept : x.id = draft'[c].id
  PROVE  RowsApart'
<1> SUFFICES ASSUME NEW a \in Author, NEW b \in Author, a # b PROVE Apart(a, b)'
  BY DEF RowsApart
<1>1. Apart(a, b)
  BY DEF InputInv, RowsApart
<1>2. ASSUME NEW d \in Author \ {c}
      PROVE  author'[d] = author[d] /\ draft'[d] = draft[d] /\ Busy(d)' = Busy(d) /\ Creates(d)' = Creates(d)
  BY DEF LeavesOthers, Busy, Creates
<1>3. CASE a # c /\ b # c
  BY <1>1, <1>2, <1>3 DEF Apart
<1>4. CASE ~Busy(c)'
  BY <1>1, <1>2, <1>4 DEF Apart, Creates
<1>5. CASE Busy(c) /\ author'[c] # "row" /\ draft'[c] = draft[c]
  <2>1. Creates(c)' => Creates(c)
    BY <1>5 DEF Creates
  <2>2. QED
    BY <1>1, <1>2, <1>5, <2>1 DEF Apart
<1>6. CASE \A d \in Author \ {c} : Busy(d) => draft'[c].id # draft[d].id
  <2>1. CASE a = c
    BY <1>2, <1>6, <2>1 DEF Apart
  <2>2. CASE b = c
    BY <1>2, <1>6, <2>2 DEF Apart, Creates
  <2>3. QED
    BY <1>3, <2>1, <2>2
<1>7. CASE ~Creates(c)' /\ \E x \in kept : x.id = draft'[c].id
  <2>1. CASE a = c
    BY <1>7, <2>1 DEF Apart
  <2>2. CASE b = c
    <3>1. author[a] = "row" => \A x \in kept : x.id # draft[a].id
      BY DEF InputInv, DraftFits
    <3>2. QED
      BY <1>2, <1>7, <2>2, <3>1 DEF Apart
  <2>3. QED
    BY <1>3, <2>1, <2>2
<1>8. QED
  BY <1>4, <1>5, <1>6, <1>7

\* The rows as they are.
LEMMA RowsStay ==
  ASSUME InputInv, UNCHANGED <<kept, inserted>>, answered' \in SUBSET (1 .. inserted)
  PROVE  RowsKept'
<1>1. \A kind : Ids(kind)' = Ids(kind)
  BY DEF Ids
<1>2. QED
  BY <1>1 DEF InputInv, RowsKept

\* An accepted request knows a row that is there, or has none yet.
LEMMA AcceptStep ==
  ASSUME InputInv, NEW c \in Author, NEW row \in DraftRow, NEW goes, Accept(c, row, goes),
         \/ /\ goes = "insert" /\ row.kind \in RowKinds \ {"uploaded"} /\ row.items = 0
            /\ row.kind # "letter" => row.asked = 0
         \/ /\ goes = "file" /\ row.kind = "uploaded" /\ row.jd = NoRow /\ row.items = 0 /\ row.asked = 0
         \/ /\ goes = "reward" /\ row.kind = "desiredJob" /\ \E x \in kept : x.id = row.id
         \/ /\ goes = "items" /\ row.kind = "part" /\ \E x \in kept : x.id = row.id /\ x.kind = "resume"
  PROVE  InputInv'
<1>1. /\ author[c] = "idle" /\ author' = [author EXCEPT ![c] = goes] /\ draft' = [draft EXCEPT ![c] = row]
      /\ left' = [left EXCEPT ![c] = row.asked]
      /\ UNCHANGED <<kept, files, claimed, answered, unwanted, inserted>>
  BY DEF Accept, AuthorGoes
<1>2. AuthorsStand /\ inserted \in Nat /\ answered \in SUBSET (1 .. inserted) /\ row.asked \in Nat
  BY DEF InputInv, RowsKept, DraftRow
<1>3. AuthorsStand'
  BY <1>1, <1>2 DEF AuthorsStand
<1>4. author'[c] = goes /\ draft'[c] = row /\ left'[c] = row.asked /\ LeavesOthers(c)
  BY <1>1, <1>2 DEF AuthorsStand, LeavesOthers
<1>5. RowsKept'
  BY <1>1, <1>2, RowsStay
<1>6. AnsweredWhole'
  BY <1>1 DEF InputInv, AnsweredWhole
<1>7. RowsApart'
  <2>1. CASE goes \in {"insert", "file"}
    BY <1>4, <2>1, StaysApart DEF Busy
  <2>2. CASE goes \in {"reward", "items"}
    <3>1. ~Creates(c)' /\ \E x \in kept : x.id = draft'[c].id
      BY <1>4, <2>2 DEF Creates
    <3>2. QED
      BY <1>4, <3>1, StaysApart
  <2>3. QED
    BY <2>1, <2>2
<1>8. DraftFits(c)'
  <2>1. CASE goes \in {"insert", "file"}
    BY <1>4, <2>1 DEF DraftFits, Busy, Creates
  <2>2. CASE goes \in {"reward", "items"}
    <3>1. PICK x \in kept : x.id = row.id /\ (goes = "items" => x.kind = "resume")
      BY <2>2
    <3>2. x.id \in 1 .. inserted /\ \A y \in kept : y.id = x.id => y = x
      BY DEF InputInv, RowsKept
    <3>3. row.kind \in {"desiredJob", "part"} /\ (row.kind = "part" <=> goes = "items")
      BY <2>2
    <3>4. QED
      BY <1>1, <1>4, <2>2, <3>1, <3>2, <3>3 DEF DraftFits, Busy, Creates
  <2>3. QED
    BY <2>1, <2>2
<1>9. ASSUME NEW d \in Author \ {c} PROVE DraftFits(d)'
  <2>1. DraftFits(d)
    BY DEF InputInv
  <2>2. /\ author[d] = "row" => draft[d].id \in files'
        /\ Creates(d) => draft[d].id \notin answered'
        /\ \A x \in kept' : Busy(d) /\ x.id = draft[d].id => author[d] # "row" /\ Earlier(x, x, d)
    BY <1>1, <2>1 DEF DraftFits, Earlier
  <2>3. QED
    BY <1>1, <1>2, <1>4, <2>2, OthersFit
<1>10. QED
  BY <1>3, <1>5, <1>6, <1>7, <1>8, <1>9 DEF InputInv

\* What the views accept.
LEMMA AcceptedRows == ASSUME InputInv, NEW c \in Author, AcceptNext(c) PROVE InputInv'
<1> USE DEF NewRow
<1>1. /\ \A kind \in DraftKinds : NewRow(kind) \in DraftRow /\ NewRow(kind).kind = kind
           /\ NewRow(kind).jd = NoRow /\ NewRow(kind).items = 0 /\ NewRow(kind).asked = 0
  BY DEF DraftRow
<1> USE DEF DraftKinds, RowKinds
<1>2. ASSUME NEW kind \in {"jd", "resume", "project", "profile"}, Accept(c, NewRow(kind), "insert") PROVE InputInv'
  BY <1>1, <1>2, AcceptStep
<1>3. CASE UploadJd(c) \/ FetchJd(c) \/ ScanJd(c) \/ TypeJd(c)
  BY <1>2, <1>3 DEF UploadJd, FetchJd, ScanJd, TypeJd
<1>4. CASE UploadResume(c) \/ TypeResume(c) \/ CreateProject(c) \/ CreateProfile(c)
  BY <1>2, <1>4 DEF UploadResume, TypeResume, CreateProject, CreateProfile
<1>5. CASE UploadDocument(c)
  BY <1>1, <1>5, AcceptStep DEF UploadDocument
<1>6. ASSUME NEW given \in Ids("jd") \cup {NoRow}, NEW n \in 1 .. MaxItems, CreateLetter(c, given, n) PROVE InputInv'
  <2>1. given \in Nat \cup {NoRow} /\ n \in Nat
    BY ItemAssumption DEF InputInv, RowsKept, Ids, DocumentRow
  <2>2. PICK row : row = [NewRow("letter") EXCEPT !.jd = given, !.asked = n]
    OBVIOUS
  <2>3. row \in DraftRow /\ row.kind = "letter" /\ row.items = 0
    BY <2>1, <2>2 DEF DraftRow
  <2>4. Accept(c, row, "insert")
    BY <1>6, <2>2 DEF CreateLetter
  <2>5. QED
    BY <2>3, <2>4, AcceptStep
<1>7. ASSUME NEW x \in kept, PatchProfile(c, x) PROVE InputInv'
  <2>1. x \in DocumentRow
    BY DEF InputInv, RowsKept
  <2>2. PICK row : row = [x EXCEPT !.kind = "desiredJob"]
    OBVIOUS
  <2>3. row \in DraftRow /\ row.kind = "desiredJob" /\ row.id = x.id
    BY <2>1, <2>2 DEF DraftRow, DocumentRow
  <2>4. Accept(c, row, "reward")
    BY <1>7, <2>2 DEF PatchProfile
  <2>5. QED
    BY <2>3, <2>4, AcceptStep
<1>8. ASSUME NEW x \in kept, NEW n \in Nat, AddParts(c, x, n) PROVE InputInv'
  <2>1. x \in DocumentRow
    BY DEF InputInv, RowsKept
  <2>2. PICK row : row = [x EXCEPT !.kind = "part", !.asked = n]
    OBVIOUS
  <2>3. row \in DraftRow /\ row.kind = "part" /\ row.id = x.id
    BY <2>1, <2>2 DEF DraftRow, DocumentRow
  <2>4. Accept(c, row, "items") /\ x.kind = "resume"
    BY <1>8, <2>2 DEF AddParts
  <2>5. QED
    BY <2>3, <2>4, AcceptStep
<1>9. ASSUME NEW x \in kept, \/ AddEducation(c, x) \/ AddCareer(c, x) \/ AddCertificate(c, x)
                             \/ \E n \in 1 .. MaxItems : AddSkills(c, x, n)
      PROVE InputInv'
  BY <1>8, <1>9, ItemAssumption DEF AddEducation, AddCareer, AddCertificate, AddSkills
<1>10. QED
  BY <1>3, <1>4, <1>5, <1>6, <1>7, <1>9 DEF AcceptNext

\* The file of a document that nobody else has.
LEMMA StoreFileStep == ASSUME InputInv, NEW c \in Author, StoreFile(c) PROVE InputInv'
<1>1. PICK n \in Nat : n = inserted + 1
  BY DEF InputInv, RowsKept
<1>2. PICK row : row = [draft[c] EXCEPT !.id = n]
  OBVIOUS
<1>3. AuthorsStand /\ draft[c] \in DraftRow /\ DraftFits(c)
  BY DEF InputInv, AuthorsStand
<1>4. row \in DraftRow /\ row.id = n /\ row.kind = "uploaded" /\ row.jd = NoRow /\ row.items = row.asked
  BY <1>2, <1>3 DEF DraftRow, DraftFits, StoreFile
<1>5. /\ author' = [author EXCEPT ![c] = "row"] /\ draft' = [draft EXCEPT ![c] = row]
      /\ files' = files \cup {n} /\ inserted' = n
      /\ UNCHANGED <<kept, claimed, left, answered, unwanted>>
  BY <1>1, <1>2 DEF StoreFile, AuthorGoes
<1>6. AuthorsStand'
  BY <1>3, <1>4, <1>5 DEF AuthorsStand
<1>7. author'[c] = "row" /\ draft'[c] = row /\ LeavesOthers(c)
  BY <1>3, <1>5 DEF AuthorsStand, LeavesOthers
<1>8. inserted \in Nat /\ answered \in SUBSET (1 .. inserted) /\ \A x \in kept : x.id \in 1 .. inserted
  BY DEF InputInv, RowsKept
<1>9. RowsKept'
  <2>1. answered \in SUBSET (1 .. n) /\ \A x \in kept : x.id \in 1 .. n
    BY <1>1, <1>8
  <2>2. \A kind : Ids(kind)' = Ids(kind)
    BY <1>5 DEF Ids
  <2>3. QED
    BY <1>5, <2>1, <2>2 DEF InputInv, RowsKept
<1>10. AnsweredWhole'
  BY <1>5 DEF InputInv, AnsweredWhole
<1>11. RowsApart'
  <2>1. \A d \in Author \ {c} : Busy(d) => draft[d].id \in 1 .. inserted
    BY DEF InputInv, DraftFits
  <2>2. \A d \in Author \ {c} : Busy(d) => draft'[c].id # draft[d].id
    BY <1>1, <1>4, <1>7, <1>8, <2>1
  <2>3. QED
    BY <1>7, <2>2, StaysApart
<1>12. DraftFits(c)'
  <2>1. n \in 1 .. inserted' /\ n \notin answered /\ \A x \in kept : x.id # n
    BY <1>1, <1>5, <1>8
  <2>2. QED
    BY <1>4, <1>5, <1>7, <2>1 DEF DraftFits, Busy, Creates
<1>13. ASSUME NEW d \in Author \ {c} PROVE DraftFits(d)'
  <2>1. DraftFits(d)
    BY DEF InputInv
  <2>2. /\ author[d] = "row" => draft[d].id \in files'
        /\ Creates(d) => draft[d].id \notin answered'
        /\ \A x \in kept' : Busy(d) /\ x.id = draft[d].id => author[d] # "row" /\ Earlier(x, x, d)
    BY <1>5, <2>1 DEF DraftFits, Earlier
  <2>3. inserted' \in Nat /\ inserted <= inserted' /\ files \cup unwanted \subseteq files' \cup unwanted'
        /\ claimed \subseteq claimed' /\ kept' = kept
    BY <1>1, <1>5, <1>8
  <2>4. QED
    BY <1>7, <2>2, <2>3, OthersFit
<1>14. QED
  BY <1>6, <1>9, <1>10, <1>11, <1>12, <1>13 DEF InputInv

\* A row whose file is there.
LEMMA InsertFileRowStep == ASSUME InputInv, NEW c \in Author, InsertFileRow(c) PROVE InputInv'
<1>1. PICK row : row = draft[c]
  OBVIOUS
<1>2. /\ author[c] = "row" /\ author' = [author EXCEPT ![c] = "answer"] /\ kept' = kept \cup {row}
      /\ UNCHANGED <<files, claimed, draft, left, answered, unwanted, inserted>>
  BY <1>1 DEF InsertFileRow, AuthorGoes
<1>3. AuthorsStand /\ DraftFits(c) /\ row \in DraftRow /\ Busy(c)
  BY <1>1, <1>2 DEF InputInv, AuthorsStand, Busy
<1>4. /\ row.kind = "uploaded" /\ row.jd = NoRow /\ row.items = row.asked /\ row.id \in files
      /\ row.id \in 1 .. inserted /\ \A x \in kept : x.id # row.id
  BY <1>1, <1>2, <1>3 DEF DraftFits
<1>5. Creates(c) /\ row.id \notin answered
  BY <1>1, <1>3, <1>4 DEF Creates, DraftFits
<1>6. row \in DocumentRow
  BY <1>3, <1>4 DEF DraftRow, DocumentRow, RowKinds
<1>7. author'[c] = "answer" /\ draft'[c] = row /\ LeavesOthers(c)
  BY <1>1, <1>2, <1>3 DEF AuthorsStand, LeavesOthers
<1>8. AuthorsStand'
  BY <1>2, <1>3 DEF AuthorsStand
<1>9. RowsKept'
  <2>1. Ids("jd")' = Ids("jd") /\ Ids("profile")' = Ids("profile")
    BY <1>2, <1>4 DEF Ids
  <2>2. QED
    BY <1>2, <1>4, <1>6, <2>1 DEF InputInv, RowsKept
<1>10. AnsweredWhole'
  BY <1>2, <1>5 DEF InputInv, AnsweredWhole
<1>11. RowsApart'
  BY <1>1, <1>3, <1>7, StaysApart
<1>12. DraftFits(c)'
  BY <1>2, <1>3, <1>4, <1>5, <1>7 DEF DraftFits, Busy, Creates
<1>13. ASSUME NEW d \in Author \ {c} PROVE DraftFits(d)'
  <2>1. DraftFits(d) /\ Apart(c, d)
    BY DEF InputInv, RowsApart
  <2>2. Busy(d) => draft[d].id # row.id
    BY <1>1, <1>2, <1>5, <2>1 DEF Apart
  <2>3. /\ author[d] = "row" => draft[d].id \in files'
        /\ Creates(d) => draft[d].id \notin answered'
        /\ \A x \in kept' : Busy(d) /\ x.id = draft[d].id => x \in kept /\ author[d] # "row" /\ Earlier(x, x, d)
    BY <1>2, <2>1, <2>2 DEF DraftFits, Earlier
  <2>4. inserted' \in Nat /\ inserted <= inserted'
    BY <1>2 DEF InputInv, RowsKept
  <2>5. QED
    BY <1>2, <1>7, <2>3, <2>4, OthersFit
<1>14. QED
  BY <1>8, <1>9, <1>10, <1>11, <1>12, <1>13 DEF InputInv

\* A row that the database accepts has a number nobody knows.
LEMMA InsertRowStep == ASSUME InputInv, NEW c \in Author, InsertRow(c) PROVE InputInv'
<1>1. PICK n \in Nat : n = inserted + 1
  BY DEF InputInv, RowsKept
<1>2. PICK row : row = [draft[c] EXCEPT !.id = n]
  OBVIOUS
<1>3. PICK goes : goes = IF left[c] > 0 THEN "items" ELSE "reward"
  OBVIOUS
<1>4. /\ author[c] = "insert" /\ author' = [author EXCEPT ![c] = goes] /\ draft' = [draft EXCEPT ![c] = row]
      /\ kept' = kept \cup {row} /\ inserted' = n /\ Insertable(draft[c])
      /\ UNCHANGED <<files, claimed, left, answered, unwanted>>
  BY <1>1, <1>2, <1>3 DEF InsertRow, AuthorGoes
<1>5. AuthorsStand /\ DraftFits(c) /\ draft[c] \in DraftRow /\ left[c] \in Nat
  BY DEF InputInv, AuthorsStand
<1>6. /\ row \in DraftRow /\ row.id = n /\ row.kind = draft[c].kind /\ row.jd = draft[c].jd
      /\ row.items = draft[c].items /\ row.asked = draft[c].asked
  BY <1>2, <1>5 DEF DraftRow
<1>7. /\ row.kind \in RowKinds \ {"uploaded"} /\ row.items = 0 /\ left[c] = row.asked
      /\ row.kind # "letter" => row.asked = 0
  BY <1>4, <1>5, <1>6 DEF DraftFits
<1>8. row \in DocumentRow
  BY <1>6, <1>7 DEF DraftRow, DocumentRow
<1>9. inserted \in Nat /\ answered \in SUBSET (1 .. inserted) /\ \A x \in kept : x.id \in 1 .. inserted
  BY DEF InputInv, RowsKept
<1>10. n \in 1 .. n /\ n \notin answered /\ answered \in SUBSET (1 .. n) /\ \A x \in kept : x.id # n /\ x.id \in 1 .. n
  BY <1>1, <1>9
<1>11. author'[c] = goes /\ draft'[c] = row /\ left'[c] = left[c] /\ LeavesOthers(c)
  BY <1>4, <1>5 DEF AuthorsStand, LeavesOthers
<1>12. AuthorsStand'
  BY <1>3, <1>4, <1>5, <1>6 DEF AuthorsStand
<1>13. RowsKept'
  <2>1. row.jd \in Ids("jd") \cup {NoRow} /\ (row.kind = "profile" => Ids("profile") = {})
    BY <1>4, <1>6 DEF Insertable
  <2>2. Ids("jd") \subseteq Ids("jd")'
    BY <1>4 DEF Ids
  <2>3. \A i, j \in Ids("profile")' : i = j
    <3>1. Ids("profile")' \subseteq Ids("profile") \cup (IF row.kind = "profile" THEN {n} ELSE {})
      BY <1>4, <1>6 DEF Ids
    <3>2. \A i, j \in Ids("profile") : i = j
      BY DEF InputInv, RowsKept
    <3>3. QED
      BY <2>1, <3>1, <3>2
  <2>4. \A x \in kept' : x.id \in 1 .. n /\ x.jd \in Ids("jd")' \cup {NoRow}
                         /\ (x.kind = "uploaded" => x.jd = NoRow /\ x.items = x.asked)
    BY <1>4, <1>6, <1>7, <1>10, <2>1, <2>2 DEF InputInv, RowsKept
  <2>5. \A x, y \in kept' : x.id = y.id => x = y
    BY <1>4, <1>6, <1>10 DEF InputInv, RowsKept
  <2>6. kept' \in SUBSET DocumentRow
    BY <1>4, <1>8 DEF InputInv, RowsKept
  <2>7. QED
    BY <1>4, <1>10, <2>3, <2>4, <2>5, <2>6 DEF RowsKept
<1>14. AnsweredWhole'
  BY <1>4, <1>6, <1>10 DEF InputInv, AnsweredWhole
<1>15. RowsApart'
  <2>1. \A d \in Author \ {c} : Busy(d) => draft[d].id \in 1 .. inserted
    BY DEF InputInv, DraftFits
  <2>2. \A d \in Author \ {c} : Busy(d) => draft'[c].id # draft[d].id
    BY <1>1, <1>6, <1>9, <1>11, <2>1
  <2>3. QED
    BY <1>11, <2>2, StaysApart
<1>16. DraftFits(c)'
  <2>1. \A x \in kept' : x.id = n => x = row
    BY <1>4, <1>10
  <2>2. CASE left[c] > 0
    <3>1. row.kind = "letter" /\ goes = "items" /\ row.asked = row.items + left[c]
      BY <1>3, <1>5, <1>7, <2>2
    <3>2. QED
      BY <1>4, <1>6, <1>10, <1>11, <2>1, <3>1 DEF DraftFits, Busy, Creates
  <2>3. CASE ~(left[c] > 0)
    <3>1. goes = "reward" /\ row.items = row.asked
      BY <1>3, <1>5, <1>7, <2>3
    <3>2. QED
      BY <1>4, <1>6, <1>7, <1>10, <1>11, <2>1, <3>1 DEF DraftFits, Busy, Creates
  <2>4. QED
    BY <2>2, <2>3
<1>17. ASSUME NEW d \in Author \ {c} PROVE DraftFits(d)'
  <2>1. DraftFits(d)
    BY DEF InputInv
  <2>2. Busy(d) => draft[d].id # n
    BY <1>1, <1>9, <2>1 DEF DraftFits
  <2>3. /\ author[d] = "row" => draft[d].id \in files'
        /\ Creates(d) => draft[d].id \notin answered'
        /\ \A x \in kept' : Busy(d) /\ x.id = draft[d].id => x \in kept /\ author[d] # "row" /\ Earlier(x, x, d)
    BY <1>4, <1>6, <2>1, <2>2 DEF DraftFits, Earlier
  <2>4. inserted' \in Nat /\ inserted <= inserted'
    BY <1>1, <1>4, <1>9
  <2>5. QED
    BY <1>4, <1>11, <2>3, <2>4, OthersFit
<1>18. QED
  BY <1>12, <1>13, <1>14, <1>15, <1>16, <1>17 DEF InputInv

\* An item is added to the letter of the request alone.
LEMMA InsertItemStep == ASSUME InputInv, NEW c \in Author, InsertItem(c) PROVE InputInv'
<1>1. PICK x \in kept :
        /\ x.id = draft[c].id
        /\ kept' = (kept \ {x}) \cup {IF x.kind = "letter" THEN [x EXCEPT !.items = @ + 1] ELSE x}
        /\ AuthorGoes(c, IF left[c] > 1 THEN "items" ELSE IF x.kind = "letter" THEN "reward" ELSE "answer")
  BY DEF InsertItem
<1>2. PICK new : new = IF x.kind = "letter" THEN [x EXCEPT !.items = @ + 1] ELSE x
  OBVIOUS
<1>3. PICK goes : goes = IF left[c] > 1 THEN "items" ELSE IF x.kind = "letter" THEN "reward" ELSE "answer"
  OBVIOUS
<1>4. PICK n : n = left[c] - 1
  OBVIOUS
<1>5. /\ author[c] = "items" /\ left[c] > 0 /\ author' = [author EXCEPT ![c] = goes]
      /\ left' = [left EXCEPT ![c] = n] /\ kept' = (kept \ {x}) \cup {new}
      /\ UNCHANGED <<files, claimed, draft, answered, unwanted, inserted>>
  BY <1>1, <1>2, <1>3, <1>4 DEF InsertItem, AuthorGoes
<1>6. AuthorsStand /\ DraftFits(c) /\ Busy(c) /\ draft[c] \in DraftRow /\ left[c] \in Nat /\ n \in Nat
  BY <1>4, <1>5 DEF InputInv, AuthorsStand, Busy
<1>7. x \in DocumentRow /\ \A y \in kept : y.id = x.id => y = x
  BY DEF InputInv, RowsKept
<1>8. /\ draft[c].kind \in {"letter", "part"} /\ (draft[c].kind = "part" => x.kind = "resume")
      /\ (draft[c].kind = "letter" => x.kind = "letter" /\ x.asked = x.items + left[c])
  BY <1>1, <1>5, <1>6 DEF DraftFits
<1>9. /\ new \in DocumentRow /\ new.id = x.id /\ new.kind = x.kind /\ new.jd = x.jd /\ new.asked = x.asked
      /\ (x.kind = "letter" => new.items = x.items + 1) /\ (x.kind # "letter" => new = x)
  BY <1>2, <1>7 DEF DocumentRow
<1>10. author'[c] = goes /\ draft' = draft /\ left'[c] = n /\ LeavesOthers(c)
  BY <1>5, <1>6 DEF AuthorsStand, LeavesOthers
<1>11. AuthorsStand'
  BY <1>3, <1>5, <1>6 DEF AuthorsStand
<1>12. \A y \in kept' : \E z \in kept : y.id = z.id /\ y.kind = z.kind /\ y.jd = z.jd /\ y.asked = z.asked
                                        /\ (y = z \/ (z = x /\ y = new))
  BY <1>5, <1>9
<1>13. RowsKept'
  <2>1. \A kind : Ids(kind)' = Ids(kind)
    <3> SUFFICES ASSUME NEW kind PROVE Ids(kind)' = Ids(kind)
      OBVIOUS
    <3>1. Ids(kind)' \subseteq Ids(kind)
      BY <1>12 DEF Ids
    <3>2. \A y \in kept : \E z \in kept' : z.id = y.id /\ z.kind = y.kind
      BY <1>5, <1>9
    <3>3. Ids(kind) \subseteq Ids(kind)'
      BY <3>2 DEF Ids
    <3>4. QED
      BY <3>1, <3>3
  <2>2. kept' \in SUBSET DocumentRow
    BY <1>5, <1>9 DEF InputInv, RowsKept
  <2>3. \A y \in kept' : y.id \in 1 .. inserted /\ y.jd \in Ids("jd")' \cup {NoRow}
    BY <1>12, <2>1 DEF InputInv, RowsKept
  <2>4. \A y \in kept' : y.kind = "uploaded" => y.jd = NoRow /\ y.items = y.asked
    BY <1>5, <1>9 DEF InputInv, RowsKept
  <2>5. \A y, z \in kept' : y.id = z.id => y = z
    BY <1>5, <1>7, <1>9 DEF InputInv, RowsKept
  <2>6. QED
    BY <1>5, <2>1, <2>2, <2>3, <2>4, <2>5 DEF InputInv, RowsKept
<1>14. AnsweredWhole'
  <2>1. draft[c].kind = "letter" => x.id \notin answered
    BY <1>1, <1>6 DEF DraftFits, Creates
  <2>2. x.kind = "letter" => draft[c].kind = "letter"
    BY <1>8
  <2>3. QED
    BY <1>5, <1>9, <2>1, <2>2 DEF InputInv, AnsweredWhole
<1>15. RowsApart'
  BY <1>3, <1>6, <1>10, StaysApart
<1>16. DraftFits(c)'
  <2>1. \A y \in kept' : y.id = draft[c].id => y = new
    BY <1>1, <1>5, <1>7
  <2>2. CASE draft[c].kind = "part"
    <3>1. goes \in {"items", "answer"} /\ new.kind = "resume"
      BY <1>3, <1>8, <1>9, <2>2
    <3>2. QED
      BY <1>5, <1>6, <1>10, <2>1, <2>2, <3>1 DEF DraftFits, Busy, Creates
  <2>3. CASE draft[c].kind = "letter"
    <3>1. new.kind = "letter" /\ new.asked = new.items + n
      <4>1. x.items \in Nat /\ x.asked \in Nat
        BY <1>7 DEF DocumentRow
      <4>2. QED
        BY <1>4, <1>6, <1>8, <1>9, <2>3, <4>1
    <3>2. goes = "items" \/ (goes = "reward" /\ new.items = new.asked)
      <4>1. ~(left[c] > 1) => n = 0
        BY <1>4, <1>5, <1>6
      <4>2. new.items \in Nat
        BY <1>9 DEF DocumentRow
      <4>3. QED
        BY <1>3, <1>8, <2>3, <3>1, <4>1, <4>2
    <3>3. Creates(c) /\ Creates(c)'
      BY <1>6, <1>10, <2>3, <3>2 DEF Creates, Busy
    <3>4. draft[c].id \in 1 .. inserted /\ draft[c].id \notin answered
      BY <1>6, <3>3 DEF DraftFits
    <3>5. QED
      BY <1>5, <1>10, <2>1, <2>3, <3>1, <3>2, <3>4 DEF DraftFits, RowKinds
  <2>4. QED
    BY <1>8, <2>2, <2>3
<1>17. ASSUME NEW d \in Author \ {c} PROVE DraftFits(d)'
  <2>1. DraftFits(d) /\ Apart(c, d)
    BY DEF InputInv, RowsApart
  <2>2. ASSUME NEW y \in kept', Busy(d), y.id = draft[d].id
        PROVE  author[d] # "row" /\ \E z \in kept : Earlier(y, z, d)
    <3>1. PICK z \in kept : y.id = z.id /\ y.kind = z.kind /\ y.asked = z.asked /\ (y = z \/ (z = x /\ y = new))
      BY <1>12
    <3>2. author[d] # "row"
      BY <2>1, <2>2, <3>1 DEF DraftFits
    <3>3. y.items = z.items \/ (x.kind = "letter" /\ z = x)
      BY <1>9, <3>1
    <3>4. x.kind = "letter" /\ z = x => ~Creates(d)
      BY <1>1, <1>6, <1>8, <2>1, <2>2, <3>1 DEF Apart, Creates
    <3>5. QED
      BY <2>2, <3>1, <3>2, <3>3, <3>4 DEF Earlier, Creates
  <2>3. /\ author[d] = "row" => draft[d].id \in files'
        /\ Creates(d) => draft[d].id \notin answered'
    BY <1>5, <2>1 DEF DraftFits
  <2>4. inserted' \in Nat /\ inserted <= inserted'
    BY <1>5 DEF InputInv, RowsKept
  <2>5. QED
    BY <1>5, <1>10, <2>2, <2>3, <2>4, OthersFit
<1>18. QED
  BY <1>11, <1>13, <1>14, <1>15, <1>16, <1>17 DEF InputInv

\* A request that posts its reward, is answered or breaks off leaves the rows alone.
LEMMA QuietStep ==
  ASSUME InputInv, NEW c \in Author, UNCHANGED <<kept, files, unwanted, inserted>>, LeavesOthers(c), AuthorsStand',
         claimed \subseteq claimed',
         \/ answered' = answered
         \/ answered' = answered \cup {draft[c].id} /\ author[c] = "answer" /\ Creates(c),
         ~Busy(c)' \/ (Busy(c) /\ author'[c] # "row" /\ draft'[c] = draft[c]),
         DraftFits(c)'
  PROVE  InputInv'
<1>1. DraftFits(c)
  BY DEF InputInv
<1>2. answered' \in SUBSET (1 .. inserted)
  <2>1. answered \in SUBSET (1 .. inserted)
    BY DEF InputInv, RowsKept
  <2>2. Creates(c) => draft[c].id \in 1 .. inserted
    BY <1>1 DEF DraftFits, Creates
  <2>3. QED
    BY <2>1, <2>2
<1>3. RowsKept'
  BY <1>2, RowsStay
<1>4. AnsweredWhole'
  <2>1. \A x \in kept : x.id \in answered' =>
          /\ x.items = x.asked
          /\ IF x.kind = "uploaded" THEN x.id \in files \cup unwanted ELSE x.kind \in claimed \cup claimed'
    BY <1>1 DEF InputInv, AnsweredWhole, DraftFits, Creates
  <2>2. QED
    BY <2>1 DEF AnsweredWhole
<1>5. RowsApart'
  BY StaysApart
<1>6. ASSUME NEW d \in Author \ {c} PROVE DraftFits(d)'
  <2>1. DraftFits(d) /\ Apart(c, d)
    BY DEF InputInv, RowsApart
  <2>2. Creates(d) => draft[d].id \notin answered'
    BY <2>1 DEF DraftFits, Apart, Creates
  <2>3. /\ author[d] = "row" => draft[d].id \in files'
        /\ \A x \in kept' : Busy(d) /\ x.id = draft[d].id => author[d] # "row" /\ Earlier(x, x, d)
    BY <2>1 DEF DraftFits, Earlier
  <2>4. inserted' \in Nat /\ inserted <= inserted'
    BY DEF InputInv, RowsKept
  <2>5. QED
    BY <2>2, <2>3, <2>4, OthersFit
<1>7. QED
  BY <1>3, <1>4, <1>5, <1>6 DEF InputInv

\* A reward is posted before the answer.
LEMMA RewardStep == ASSUME InputInv, NEW c \in Author, Reward(c) PROVE InputInv'
<1>1. /\ author[c] = "reward" /\ author' = [author EXCEPT ![c] = "answer"]
      /\ claimed' = claimed \cup {draft[c].kind}
      /\ UNCHANGED <<kept, files, draft, left, answered, unwanted, inserted>>
  BY DEF Reward, AuthorGoes
<1>2. AuthorsStand /\ DraftFits(c) /\ Busy(c)
  BY <1>1 DEF InputInv, Busy
<1>3. AuthorsStand' /\ LeavesOthers(c) /\ author'[c] = "answer"
  BY <1>1, <1>2 DEF AuthorsStand, LeavesOthers
<1>4. Creates(c)' <=> Creates(c)
  BY <1>1, <1>2, <1>3 DEF Creates, Busy
<1>5. draft[c].kind \notin {"part", "desiredJob"} => \A x \in kept : x.id = draft[c].id =>
        x.kind = draft[c].kind /\ x.items = x.asked /\ x.kind # "uploaded"
  BY <1>1, <1>2 DEF DraftFits, RowKinds
<1>6. DraftFits(c)'
  BY <1>1, <1>2, <1>3, <1>4, <1>5 DEF DraftFits
<1>7. QED
  BY <1>1, <1>2, <1>3, <1>6, QuietStep

\* An answer counts what is there as a whole; a failure answers nothing.
LEMMA EndStep ==
  ASSUME InputInv, NEW c \in Author, Answer(c) \/ Break(c)
  PROVE  InputInv'
<1>1. PICK none : none = NewRow("none")
  OBVIOUS
<1>2. none \in DraftRow
  BY <1>1 DEF NewRow, DraftRow, DraftKinds
<1>3. /\ author' = [author EXCEPT ![c] = "idle"] /\ draft' = [draft EXCEPT ![c] = none]
      /\ left' = [left EXCEPT ![c] = 0] /\ UNCHANGED <<kept, files, claimed, unwanted, inserted>>
  BY <1>1 DEF Answer, Break, EndRequest, AuthorGoes
<1>4. \/ answered' = answered
      \/ answered' = answered \cup {draft[c].id} /\ author[c] = "answer" /\ Creates(c)
  BY DEF Answer, Break, Fails, Creates, Busy
<1>5. AuthorsStand
  BY DEF InputInv
<1>6. AuthorsStand' /\ LeavesOthers(c) /\ author'[c] = "idle"
  BY <1>2, <1>3, <1>5 DEF AuthorsStand, LeavesOthers
<1>7. ~Busy(c)' /\ DraftFits(c)'
  BY <1>6 DEF Busy, Creates, DraftFits
<1>8. QED
  BY <1>3, <1>4, <1>6, <1>7, QuietStep

\* What is deleted leaves the links to it, and the requests that know it find it gone.
LEMMA DeleteStep == ASSUME InputInv, NEW x \in kept, Delete(x) PROVE InputInv'
<1>1. /\ x.kind \notin {"uploaded", "profile"} /\ kept' = { WithoutLink(y, x.id) : y \in kept \ {x} }
      /\ UNCHANGED <<files, claimed, author, draft, left, answered, unwanted, inserted>>
  BY DEF Delete
<1>2. /\ kept \in SUBSET DocumentRow /\ x.id # NoRow /\ \A y, z \in kept : y.id = z.id => y = z
      /\ \A y \in kept : y.id \in 1 .. inserted /\ y.jd \in Ids("jd") \cup {NoRow}
  BY RowAssumption DEF InputInv, RowsKept
<1>3. ASSUME NEW y \in kept
      PROVE  LET new == WithoutLink(y, x.id)
             IN  /\ new \in DocumentRow /\ new.id = y.id /\ new.kind = y.kind /\ new.asked = y.asked
                 /\ new.items = y.items /\ new.jd = IF y.jd = x.id THEN NoRow ELSE y.jd
  BY <1>2 DEF WithoutLink, DocumentRow
<1>4. \A z \in kept' : \E y \in kept : /\ y # x /\ z = WithoutLink(y, x.id) /\ z.id = y.id /\ z.kind = y.kind
                                       /\ z.asked = y.asked /\ z.items = y.items
                                       /\ z.jd = IF y.jd = x.id THEN NoRow ELSE y.jd
  BY <1>1, <1>3
<1>5. RowsKept'
  <2>1. kept' \in SUBSET DocumentRow
    BY <1>1, <1>3
  <2>2. \A z \in kept' : z.id \in 1 .. inserted
    BY <1>2, <1>4
  <2>3. ASSUME NEW z \in kept', z.jd # NoRow PROVE z.jd \in Ids("jd")'
    <3>1. PICK y \in kept : z.jd = IF y.jd = x.id THEN NoRow ELSE y.jd
      BY <1>4
    <3>2. z.jd = y.jd /\ y.jd # x.id /\ y.jd \in Ids("jd")
      BY <1>2, <2>3, <3>1
    <3>3. PICK w \in kept : w.kind = "jd" /\ w.id = y.jd
      BY <3>2 DEF Ids
    <3>4. w # x
      BY <3>2, <3>3
    <3>5. WithoutLink(w, x.id) \in kept' /\ WithoutLink(w, x.id).id = y.jd /\ WithoutLink(w, x.id).kind = "jd"
      BY <1>1, <1>3, <3>3, <3>4
    <3>6. QED
      BY <3>2, <3>5 DEF Ids
  <2>4. \A z \in kept' : z.kind = "uploaded" => z.jd = NoRow /\ z.items = z.asked
    BY <1>4 DEF InputInv, RowsKept
  <2>5. \A y, z \in kept' : y.id = z.id => y = z
    BY <1>2, <1>4
  <2>6. Ids("profile")' \subseteq Ids("profile")
    BY <1>4 DEF Ids
  <2>7. QED
    BY <1>1, <2>1, <2>2, <2>3, <2>4, <2>5, <2>6 DEF InputInv, RowsKept
<1>6. AnsweredWhole'
  BY <1>1, <1>4 DEF InputInv, AnsweredWhole
<1>7. RowsApart' /\ AuthorsStand'
  BY <1>1 DEF InputInv, RowsApart, Apart, Creates, Busy, AuthorsStand
<1>8. ASSUME NEW d \in Author PROVE DraftFits(d)'
  <2>1. DraftFits(d)
    BY DEF InputInv
  <2>2. Busy(d)' = Busy(d) /\ Creates(d)' = Creates(d)
    BY <1>1 DEF Busy, Creates
  <2>3. QED
    BY <1>1, <1>4, <2>1, <2>2 DEF DraftFits
<1>9. QED
  BY <1>5, <1>6, <1>7, <1>8 DEF InputInv

\* A file that goes is one whose deletion began, ...
LEMMA DeleteFileStep == ASSUME InputInv, NEW c \in Author, NEW x \in kept, DeleteFile(c, x) PROVE InputInv'
<1>1. /\ x.kind = "uploaded" /\ files' = files \ {x.id} /\ draft' = [draft EXCEPT ![c] = x]
      /\ author' = [author EXCEPT ![c] = "unfile"] /\ unwanted' = unwanted \cup {x.id}
      /\ UNCHANGED <<kept, claimed, left, answered, inserted>>
  BY DEF DeleteFile, AuthorGoes
<1>2. AuthorsStand /\ x \in DraftRow
  BY DEF InputInv, RowsKept, DocumentRow, DraftRow, DraftKinds
<1>3. AuthorsStand' /\ LeavesOthers(c) /\ author'[c] = "unfile" /\ draft'[c] = x
  BY <1>1, <1>2 DEF AuthorsStand, LeavesOthers
<1>4. RowsKept'
  BY <1>1, RowsStay DEF InputInv, RowsKept
<1>5. AnsweredWhole'
  BY <1>1 DEF InputInv, AnsweredWhole
<1>6. ~Busy(c)'
  BY <1>3 DEF Busy
<1>7. RowsApart'
  BY <1>3, <1>6, StaysApart
<1>8. DraftFits(c)'
  BY <1>1, <1>3, <1>6 DEF DraftFits, Creates
<1>9. ASSUME NEW d \in Author \ {c} PROVE DraftFits(d)'
  <2>1. DraftFits(d)
    BY DEF InputInv
  <2>2. /\ author[d] = "row" => draft[d].id \in files'
        /\ Creates(d) => draft[d].id \notin answered'
        /\ \A y \in kept' : Busy(d) /\ y.id = draft[d].id => author[d] # "row" /\ Earlier(y, y, d)
    BY <1>1, <2>1 DEF DraftFits, Earlier
  <2>3. inserted' \in Nat /\ inserted <= inserted'
    BY <1>1 DEF InputInv, RowsKept
  <2>4. QED
    BY <1>1, <1>3, <2>2, <2>3, OthersFit
<1>10. QED
  BY <1>3, <1>4, <1>5, <1>7, <1>8, <1>9 DEF InputInv

\* ... and the row that goes after it is one of a document.
LEMMA DeleteFileRowStep == ASSUME InputInv, NEW c \in Author, DeleteFileRow(c) PROVE InputInv'
<1>1. PICK none : none = NewRow("none")
  OBVIOUS
<1>2. none \in DraftRow
  BY <1>1 DEF NewRow, DraftRow, DraftKinds
<1>3. /\ author[c] = "unfile" /\ kept' = kept \ {draft[c]} /\ author' = [author EXCEPT ![c] = "idle"]
      /\ draft' = [draft EXCEPT ![c] = none]
      /\ UNCHANGED <<files, claimed, left, answered, unwanted, inserted>>
  BY <1>1 DEF DeleteFileRow, AuthorGoes
<1>4. AuthorsStand /\ draft[c].kind = "uploaded"
  BY <1>3 DEF InputInv, DraftFits
<1>5. AuthorsStand' /\ LeavesOthers(c) /\ author'[c] = "idle"
  BY <1>2, <1>3, <1>4 DEF AuthorsStand, LeavesOthers
<1>6. RowsKept'
  <2>1. Ids("jd")' = Ids("jd") /\ Ids("profile")' \subseteq Ids("profile")
    BY <1>3, <1>4 DEF Ids
  <2>2. QED
    BY <1>3, <2>1 DEF InputInv, RowsKept
<1>7. AnsweredWhole'
  BY <1>3 DEF InputInv, AnsweredWhole
<1>8. ~Busy(c)' /\ DraftFits(c)'
  BY <1>5 DEF Busy, Creates, DraftFits
<1>9. RowsApart'
  BY <1>5, <1>8, StaysApart
<1>10. ASSUME NEW d \in Author \ {c} PROVE DraftFits(d)'
  <2>1. DraftFits(d)
    BY DEF InputInv
  <2>2. /\ author[d] = "row" => draft[d].id \in files'
        /\ Creates(d) => draft[d].id \notin answered'
        /\ \A y \in kept' : Busy(d) /\ y.id = draft[d].id => y \in kept /\ author[d] # "row" /\ Earlier(y, y, d)
    BY <1>3, <2>1 DEF DraftFits, Earlier
  <2>3. inserted' \in Nat /\ inserted <= inserted'
    BY <1>3 DEF InputInv, RowsKept
  <2>4. QED
    BY <1>3, <1>5, <2>2, <2>3, OthersFit
<1>11. QED
  BY <1>5, <1>6, <1>7, <1>8, <1>9, <1>10 DEF InputInv

\* Every step of every request keeps it.
LEMMA InputStep == ASSUME InputInv, [InputNext]_inputVars PROVE InputInv'
<1>1. ASSUME NEW c \in Author, AcceptNext(c) PROVE InputInv'
  BY <1>1, AcceptedRows
<1>2. ASSUME NEW c \in Author, StoreNext(c) PROVE InputInv'
  <2>1. CASE StoreFile(c)
    BY <2>1, StoreFileStep
  <2>2. CASE InsertFileRow(c)
    BY <2>2, InsertFileRowStep
  <2>3. CASE InsertRow(c)
    BY <2>3, InsertRowStep
  <2>4. CASE InsertItem(c)
    BY <2>4, InsertItemStep
  <2>5. CASE Reward(c)
    BY <2>5, RewardStep
  <2>6. CASE Answer(c) \/ Break(c)
    BY <2>6, EndStep
  <2>7. CASE DeleteFileRow(c)
    BY <2>7, DeleteFileRowStep
  <2>8. ASSUME NEW x \in kept, DeleteFile(c, x) PROVE InputInv'
    BY <2>8, DeleteFileStep
  <2>9. QED
    BY <1>2, <2>1, <2>2, <2>3, <2>4, <2>5, <2>6, <2>7, <2>8 DEF StoreNext
<1>3. ASSUME NEW x \in kept, Delete(x) PROVE InputInv'
  BY <1>3, DeleteStep
<1>4. CASE UNCHANGED inputVars
  BY <1>4 DEF inputVars, InputInv, RowsKept, Ids, AnsweredWhole, RowsApart, Apart, Creates, Busy, AuthorsStand,
              DraftFits
<1>5. QED
  BY <1>1, <1>2, <1>3, <1>4 DEF InputNext

\* What the invariant says of the documents.
LEMMA InputTells == ASSUME InputInv PROVE DocumentsAreWhole
<1>1. AnsweredWhole /\ \A x \in kept : x.jd \in Ids("jd") \cup {NoRow}
  BY DEF InputInv, RowsKept
<1>2. PICK I : I = Ids("profile")
  OBVIOUS
<1>3. \A i, j \in I : i = j
  BY <1>2 DEF InputInv, RowsKept
<1>4. Cardinality(I) <= 1
  <2>1. CASE I = {}
    BY <2>1, FS_EmptySet
  <2>2. CASE I # {}
    <3>1. PICK i \in I : I = {i}
      BY <1>3, <2>2
    <3>2. Cardinality({i}) = 1
      BY FS_Singleton
    <3>3. QED
      BY <3>1, <3>2
  <2>3. QED
    BY <2>1, <2>2
<1>5. QED
  BY <1>1, <1>2, <1>4 DEF DocumentsAreWhole, AnsweredWhole

-----------------------------------------------------------------------------
(* What is accepted *)

\* The checks of a list that fail, and the codes they may give.
FailedChecks(checks) == { i \in DOMAIN checks : checks[i].fails }
Codes(checks) == { checks[i].code : i \in DOMAIN checks }

\* A list of checks that does not pass gives the code of its first failed one, ...
LEMMA FirstFailed ==
  ASSUME NEW S, NEW checks \in Seq(S), NEW n \in FailedChecks(checks), \A m \in FailedChecks(checks) : n <= m
  PROVE  Verdict(checks) = checks[n].code
<1>1. FailedChecks(checks) \in SUBSET Nat
  BY DEF FailedChecks
<1>2. \A m \in FailedChecks(checks) : (\A j \in FailedChecks(checks) : m <= j) => m = n
  BY <1>1
<1>3. n = CHOOSE i \in FailedChecks(checks) : \A j \in FailedChecks(checks) : i <= j
  BY <1>2
<1>4. FailedChecks(checks) # {}
  OBVIOUS
<1>5. QED
  BY <1>3, <1>4 DEF Verdict, FailedChecks

\* ... or of one of its checks, ...
LEMMA VerdictCode ==
  ASSUME NEW S, NEW checks \in Seq(S)
  PROVE  /\ FailedChecks(checks) = {} => Verdict(checks) = Accepted
         /\ FailedChecks(checks) # {} => Verdict(checks) \in Codes(checks)
<1>1. FailedChecks(checks) = {} => Verdict(checks) = Accepted
  BY DEF Verdict, FailedChecks
<1>2. ASSUME FailedChecks(checks) # {} PROVE Verdict(checks) \in Codes(checks)
  <2>1. FailedChecks(checks) \in SUBSET Nat
    BY DEF FailedChecks
  <2>2. PICK n \in FailedChecks(checks) : \A m \in FailedChecks(checks) : n <= m
    BY <1>2, <2>1, LeastElement
  <2>3. Verdict(checks) = checks[n].code
    BY <2>2, FirstFailed
  <2>4. QED
    BY <2>3 DEF Codes, FailedChecks
<1>3. QED
  BY <1>1, <1>2

\* ... and of two lists, one after the other, that of the first that does not pass.
LEMMA VerdictOfBoth ==
  ASSUME NEW S, NEW s \in Seq(S), NEW t \in Seq(S)
  PROVE  /\ s \o t \in Seq(S)
         /\ Verdict(s \o t) = IF FailedChecks(s) # {} THEN Verdict(s) ELSE Verdict(t)
         /\ FailedChecks(s \o t) = {} <=> FailedChecks(s) = {} /\ FailedChecks(t) = {}
         /\ Codes(s \o t) = Codes(s) \cup Codes(t)
<1>1. PICK k \in Nat, l \in Nat : k = Len(s) /\ l = Len(t)
  OBVIOUS
<1>2. PICK u : u = s \o t
  OBVIOUS
<1>3. /\ u \in Seq(S) /\ DOMAIN s = 1 .. k /\ DOMAIN t = 1 .. l /\ DOMAIN u = 1 .. (k + l)
      /\ \A i \in 1 .. k : u[i] = s[i]
      /\ \A i \in 1 .. l : u[k + i] = t[i]
  BY <1>1, <1>2
<1>4. \A i \in 1 .. (k + l) : i \in 1 .. k \/ (i - k \in 1 .. l /\ k + (i - k) = i)
  BY <1>1
<1>5. /\ \A i \in 1 .. k : i \in FailedChecks(u) <=> i \in FailedChecks(s)
      /\ \A i \in 1 .. l : k + i \in FailedChecks(u) <=> i \in FailedChecks(t)
  <2>1. \A i \in 1 .. k : i \in 1 .. (k + l)
    BY <1>1
  <2>2. \A i \in 1 .. l : k + i \in 1 .. (k + l)
    BY <1>1
  <2>3. QED
    BY <1>3, <2>1, <2>2 DEF FailedChecks
<1>6. FailedChecks(u) = {} <=> FailedChecks(s) = {} /\ FailedChecks(t) = {}
  <2>1. FailedChecks(s) \subseteq 1 .. k /\ FailedChecks(t) \subseteq 1 .. l /\ FailedChecks(u) \subseteq 1 .. (k + l)
    BY <1>3 DEF FailedChecks
  <2>2. ASSUME NEW i \in FailedChecks(u) PROVE i \in FailedChecks(s) \/ i - k \in FailedChecks(t)
    BY <1>4, <1>5, <2>1
  <2>3. QED
    BY <1>5, <2>1, <2>2
<1>7. Codes(u) = Codes(s) \cup Codes(t)
  <2>1. ASSUME NEW x \in Codes(u) PROVE x \in Codes(s) \cup Codes(t)
    <3>1. PICK i \in 1 .. (k + l) : x = u[i].code
      BY <1>3 DEF Codes
    <3>2. QED
      BY <1>3, <1>4, <3>1 DEF Codes
  <2>2. ASSUME NEW x \in Codes(s) PROVE x \in Codes(u)
    BY <1>1, <1>3 DEF Codes
  <2>3. ASSUME NEW x \in Codes(t) PROVE x \in Codes(u)
    <3>1. PICK i \in 1 .. l : x = t[i].code
      BY <1>3 DEF Codes
    <3>2. k + i \in 1 .. (k + l) /\ u[k + i] = t[i]
      BY <1>1, <1>3
    <3>3. QED
      BY <1>3, <3>1, <3>2 DEF Codes
  <2>4. QED
    BY <2>1, <2>2, <2>3
<1>8. CASE FailedChecks(s) # {}
  <2>1. FailedChecks(s) \in SUBSET (1 .. k)
    BY <1>3 DEF FailedChecks
  <2>2. PICK n \in FailedChecks(s) : \A m \in FailedChecks(s) : n <= m
    BY <1>8, <2>1, LeastElement
  <2>3. Verdict(s) = s[n].code
    BY <2>2, FirstFailed
  <2>4. n \in FailedChecks(u) /\ u[n] = s[n]
    BY <1>3, <1>5, <2>1
  <2>5. ASSUME NEW m \in FailedChecks(u) PROVE n <= m
    <3>1. m \in 1 .. (k + l)
      BY <1>3 DEF FailedChecks
    <3>2. CASE m \in 1 .. k
      BY <1>5, <2>2, <3>2
    <3>3. CASE m \notin 1 .. k
      BY <1>1, <2>1, <3>1, <3>3
    <3>4. QED
      BY <3>2, <3>3
  <2>6. Verdict(u) = u[n].code
    BY <1>3, <2>4, <2>5, FirstFailed
  <2>7. QED
    BY <1>2, <1>3, <1>6, <1>7, <1>8, <2>3, <2>4, <2>6
<1>9. CASE FailedChecks(s) = {} /\ FailedChecks(t) # {}
  <2>1. FailedChecks(t) \in SUBSET (1 .. l)
    BY <1>3 DEF FailedChecks
  <2>2. PICK n \in FailedChecks(t) : \A m \in FailedChecks(t) : n <= m
    BY <1>9, <2>1, LeastElement
  <2>3. Verdict(t) = t[n].code
    BY <2>2, FirstFailed
  <2>4. k + n \in FailedChecks(u) /\ u[k + n] = t[n]
    BY <1>3, <1>5, <2>1
  <2>5. ASSUME NEW m \in FailedChecks(u) PROVE k + n <= m
    <3>1. m \in 1 .. (k + l)
      BY <1>3 DEF FailedChecks
    <3>2. m - k \in FailedChecks(t) /\ k + (m - k) = m
      BY <1>4, <1>5, <1>9, <3>1
    <3>3. QED
      BY <1>1, <2>1, <2>2, <3>1, <3>2
  <2>6. Verdict(u) = u[k + n].code
    BY <1>3, <2>4, <2>5, FirstFailed
  <2>7. QED
    BY <1>2, <1>3, <1>6, <1>7, <1>9, <2>3, <2>4, <2>6
<1>10. CASE FailedChecks(s) = {} /\ FailedChecks(t) = {}
  BY <1>2, <1>3, <1>6, <1>7, <1>10, VerdictCode
<1>11. QED
  BY <1>8, <1>9, <1>10

\* What a check says.
LEMMA CheckSays ==
  /\ \A code, fails : Check(code, fails).code = code
  /\ \A code : \A fails \in BOOLEAN : Check(code, fails).fails <=> fails
BY DEF Check

\* What a list of checks is: a list of some set, and the codes it may give.
Lists(checks, codes) == (\E S : checks \in Seq(S)) /\ Codes(checks) \subseteq codes

\* Lists of one to four checks.
LEMMA OneCheck ==
  ASSUME NEW a, NEW C, {a.code} \subseteq C
  PROVE  /\ Lists(<<a>>, C)
         /\ FailedChecks(<<a>>) = {} <=> ~a.fails
<1>1. PICK checks, S : checks = <<a>> /\ S = {a}
  OBVIOUS
<1>2. checks \in Seq(S) /\ DOMAIN checks = 1 .. 1 /\ checks[1] = a
  BY <1>1
<1>3. Codes(checks) \subseteq C /\ (FailedChecks(checks) = {} <=> ~a.fails)
  BY <1>2 DEF Codes, FailedChecks
<1>4. \E R : checks \in Seq(R)
  BY <1>2
<1>5. QED
  BY <1>1, <1>3, <1>4 DEF Lists

LEMMA TwoChecks ==
  ASSUME NEW a, NEW b, NEW C, {a.code, b.code} \subseteq C
  PROVE  /\ Lists(<<a, b>>, C)
         /\ FailedChecks(<<a, b>>) = {} <=> ~a.fails /\ ~b.fails
<1>1. PICK checks, S : checks = <<a, b>> /\ S = {a, b}
  OBVIOUS
<1>2. checks \in Seq(S) /\ DOMAIN checks = 1 .. 2 /\ checks[1] = a /\ checks[2] = b
  BY <1>1
<1>3. Codes(checks) \subseteq C /\ (FailedChecks(checks) = {} <=> ~a.fails /\ ~b.fails)
  BY <1>2 DEF Codes, FailedChecks
<1>4. \E R : checks \in Seq(R)
  BY <1>2
<1>5. QED
  BY <1>1, <1>3, <1>4 DEF Lists

LEMMA ThreeChecks ==
  ASSUME NEW a, NEW b, NEW c, NEW C, {a.code, b.code, c.code} \subseteq C
  PROVE  /\ Lists(<<a, b, c>>, C)
         /\ FailedChecks(<<a, b, c>>) = {} <=> ~a.fails /\ ~b.fails /\ ~c.fails
<1>1. PICK checks, S : checks = <<a, b, c>> /\ S = {a, b, c}
  OBVIOUS
<1>2. checks \in Seq(S) /\ DOMAIN checks = 1 .. 3 /\ checks[1] = a /\ checks[2] = b /\ checks[3] = c
  BY <1>1
<1>3. Codes(checks) \subseteq C /\ (FailedChecks(checks) = {} <=> ~a.fails /\ ~b.fails /\ ~c.fails)
  BY <1>2 DEF Codes, FailedChecks
<1>4. \E R : checks \in Seq(R)
  BY <1>2
<1>5. QED
  BY <1>1, <1>3, <1>4 DEF Lists

LEMMA FourChecks ==
  ASSUME NEW a, NEW b, NEW c, NEW d, NEW C, {a.code, b.code, c.code, d.code} \subseteq C
  PROVE  /\ Lists(<<a, b, c, d>>, C)
         /\ FailedChecks(<<a, b, c, d>>) = {} <=> ~a.fails /\ ~b.fails /\ ~c.fails /\ ~d.fails
<1>1. PICK checks, S : checks = <<a, b, c, d>> /\ S = {a, b, c, d}
  OBVIOUS
<1>2. checks \in Seq(S) /\ DOMAIN checks = 1 .. 4 /\ checks[1] = a /\ checks[2] = b /\ checks[3] = c /\ checks[4] = d
  BY <1>1
<1>3. Codes(checks) \subseteq C /\ (FailedChecks(checks) = {} <=> ~a.fails /\ ~b.fails /\ ~c.fails /\ ~d.fails)
  BY <1>2 DEF Codes, FailedChecks
<1>4. \E R : checks \in Seq(R)
  BY <1>2
<1>5. QED
  BY <1>1, <1>3, <1>4 DEF Lists

\* Two such lists, one after the other.
LEMMA ListsOfBoth ==
  ASSUME NEW s, NEW t, NEW C, NEW D, Lists(s, C), Lists(t, D)
  PROVE  /\ Lists(s \o t, C \cup D)
         /\ Verdict(s \o t) = IF FailedChecks(s) # {} THEN Verdict(s) ELSE Verdict(t)
         /\ FailedChecks(s \o t) = {} <=> FailedChecks(s) = {} /\ FailedChecks(t) = {}
<1>1. PICK S, T : s \in Seq(S) /\ t \in Seq(T)
  BY DEF Lists
<1>2. s \in Seq(S \cup T) /\ t \in Seq(S \cup T)
  BY <1>1
<1>3. /\ s \o t \in Seq(S \cup T)
      /\ Verdict(s \o t) = IF FailedChecks(s) # {} THEN Verdict(s) ELSE Verdict(t)
      /\ FailedChecks(s \o t) = {} <=> FailedChecks(s) = {} /\ FailedChecks(t) = {}
      /\ Codes(s \o t) = Codes(s) \cup Codes(t)
  BY <1>2, VerdictOfBoth
<1>4. QED
  BY <1>3 DEF Lists

\* What such a list says.
LEMMA VerdictListed ==
  ASSUME NEW s, NEW C, Lists(s, C)
  PROVE  /\ FailedChecks(s) = {} => Verdict(s) = Accepted
         /\ FailedChecks(s) # {} => Verdict(s) \in C
<1>1. PICK S : s \in Seq(S)
  BY DEF Lists
<1>2. QED
  BY <1>1, VerdictCode DEF Lists

\* The codes of the checks.
FileCodes ==
  {"INVALID_FILE_TYPE", "FILE_EMPTY", "FILE_TOO_LARGE", "INVALID_FILE_SIGNATURE", "DOCUMENT_CORRUPTED",
   "DOCUMENT_MACRO_DETECTED", "DOCUMENT_ENCRYPTED", "TEXT_EXTRACTION_FAILED", "OCR_NOT_SUPPORTED",
   "DOCUMENT_TOO_SHORT"}
TypeCodes == {"DOCUMENT_TYPE_MISMATCH", "DOCUMENT_NOT_RELEVANT"}
SafetyCodes == {"UNSAFE_DOCUMENT_CONTENT", "DOCUMENT_NOT_RELEVANT"}

\* The first checks of a text.
LengthChecks(t, fileType) ==
  << Check(IF fileType = "pdf" THEN "OCR_NOT_SUPPORTED" ELSE "TEXT_EXTRACTION_FAILED", t.chars = 0),
     Check("DOCUMENT_TOO_SHORT", t.chars < MinChars) >>

\* What is checked of a file and of its extraction.
LEMMA FileListed == ASSUME NEW f PROVE Lists(FileChecks(f) \o ExtractionChecks(f), FileCodes)
<1>1. Lists(SignatureChecks(f), FileCodes)
  <2>1. CASE f.type = "pdf"
    <3>1. PICK a : a = Check("INVALID_FILE_SIGNATURE", f.header # "pdf")
      OBVIOUS
    <3>2. SignatureChecks(f) = <<a>> /\ a.code = "INVALID_FILE_SIGNATURE"
      BY <2>1, <3>1, CheckSays DEF SignatureChecks
    <3>3. {a.code} \subseteq FileCodes
      BY <3>2 DEF FileCodes
    <3>4. QED
      BY <3>2, <3>3, OneCheck
  <2>2. CASE f.type # "pdf"
    <3>1. PICK a, b, c, d : /\ a = Check("INVALID_FILE_SIGNATURE", f.header # "zip")
                            /\ b = Check("DOCUMENT_CORRUPTED", f.header = "zip" /\ "badArchive" \in f.marks)
                            /\ c = Check("INVALID_FILE_SIGNATURE", "noWordDocument" \in f.marks)
                            /\ d = Check("DOCUMENT_MACRO_DETECTED", "macro" \in f.marks)
      OBVIOUS
    <3>2. SignatureChecks(f) = <<a, b, c, d>>
      BY <2>2, <3>1 DEF SignatureChecks
    <3>3. {a.code, b.code, c.code, d.code} \subseteq FileCodes
      BY <3>1, CheckSays DEF FileCodes
    <3>4. QED
      BY <3>2, <3>3, FourChecks
  <2>3. QED
    BY <2>1, <2>2
<1>2. PICK a, b, c, d : /\ a = Check("INVALID_FILE_TYPE", f.type \notin {"pdf", "docx"} \/ "longName" \in f.marks)
                        /\ b = Check("FILE_EMPTY", f.size <= 0)
                        /\ c = Check("FILE_TOO_LARGE", f.size > MaxUpload)
                        /\ d = Check("INVALID_FILE_TYPE", f.mime \notin {"", "octet-stream", f.type})
  OBVIOUS
<1>3. Lists(<<a, b, c, d>>, FileCodes)
  <2>1. /\ a.code = "INVALID_FILE_TYPE" /\ b.code = "FILE_EMPTY" /\ c.code = "FILE_TOO_LARGE"
        /\ d.code = "INVALID_FILE_TYPE"
    BY <1>2, CheckSays, Zenon
  <2>2. {a.code, b.code, c.code, d.code} \subseteq FileCodes
    BY <2>1 DEF FileCodes
  <2>3. QED
    BY <2>2, FourChecks
<1>4. FileChecks(f) = <<a, b, c, d>> \o SignatureChecks(f)
  BY <1>2 DEF FileChecks
<1>5. PICK u, v, w : /\ u = Check("DOCUMENT_ENCRYPTED", "encrypted" \in f.marks)
                     /\ v = Check("DOCUMENT_CORRUPTED", "broken" \in f.marks)
                     /\ w = Check("TEXT_EXTRACTION_FAILED", "unreadable" \in f.marks)
  OBVIOUS
<1>6. Lists(ExtractionChecks(f), FileCodes)
  <2>1. {u.code, v.code, w.code} \subseteq FileCodes /\ ExtractionChecks(f) = <<u, v, w>>
    BY <1>5, CheckSays DEF FileCodes, ExtractionChecks
  <2>2. QED
    BY <2>1, ThreeChecks
<1>7. Lists(FileChecks(f), FileCodes \cup FileCodes)
  BY <1>1, <1>3, <1>4, ListsOfBoth
<1>8. FileCodes \cup FileCodes = FileCodes
  OBVIOUS
<1>9. QED
  BY <1>6, <1>7, <1>8, ListsOfBoth

\* The length of a text.
LEMMA LengthListed == ASSUME NEW t, NEW fileType PROVE Lists(LengthChecks(t, fileType), FileCodes)
<1>1. PICK code : code = IF fileType = "pdf" THEN "OCR_NOT_SUPPORTED" ELSE "TEXT_EXTRACTION_FAILED"
  OBVIOUS
<1>2. PICK a, b : a = Check(code, t.chars = 0) /\ b = Check("DOCUMENT_TOO_SHORT", t.chars < MinChars)
  OBVIOUS
<1>3. LengthChecks(t, fileType) = <<a, b>>
  BY <1>1, <1>2 DEF LengthChecks
<1>4. {a.code, b.code} \subseteq FileCodes
  BY <1>1, <1>2, CheckSays DEF FileCodes
<1>5. QED
  BY <1>3, <1>4, TwoChecks

\* The type of a text and its safety.
LEMMA TypeListed ==
  ASSUME NEW t, NEW kind
  PROVE  /\ Lists(TypeChecks(t, kind), TypeCodes)
         /\ FailedChecks(TypeChecks(t, kind)) = {} <=>
              /\ ~(kind = "resume" /\ Looks(t, "jdWords", "resumeWords"))
              /\ ~(kind = "jd" /\ Looks(t, "resumeWords", "jdWords"))
              /\ ~(kind = "jd" /\ t.jdWords = 0 /\ t.resumeWords = 0)
<1>1. PICK a, b, c :
        /\ a = Check("DOCUMENT_TYPE_MISMATCH", kind = "resume" /\ Looks(t, "jdWords", "resumeWords"))
        /\ b = Check("DOCUMENT_TYPE_MISMATCH", kind = "jd" /\ Looks(t, "resumeWords", "jdWords"))
        /\ c = Check("DOCUMENT_NOT_RELEVANT", kind = "jd" /\ t.jdWords = 0 /\ t.resumeWords = 0)
  OBVIOUS
<1>2. TypeChecks(t, kind) = <<a, b, c>>
  BY <1>1 DEF TypeChecks
<1>3. {a.code, b.code, c.code} \subseteq TypeCodes
  BY <1>1, CheckSays DEF TypeCodes
<1>4. /\ a.fails <=> (kind = "resume" /\ Looks(t, "jdWords", "resumeWords"))
      /\ b.fails <=> (kind = "jd" /\ Looks(t, "resumeWords", "jdWords"))
      /\ c.fails <=> (kind = "jd" /\ t.jdWords = 0 /\ t.resumeWords = 0)
  BY <1>1 DEF Check
<1>5. QED
  BY <1>2, <1>3, <1>4, ThreeChecks

\* A safe text is refused for being noise only.
LEMMA SafetyListed ==
  ASSUME NEW t
  PROVE  /\ Lists(SafetyChecks(t), SafetyCodes)
         /\ Verdict(SafetyChecks(t)) = "DOCUMENT_NOT_RELEVANT" => Noise(t)
<1>1. PICK a, b : /\ a = Check("UNSAFE_DOCUMENT_CONTENT", "instructions" \in t.marks)
                  /\ b = Check("DOCUMENT_NOT_RELEVANT", Noise(t))
  OBVIOUS
<1>2. SafetyChecks(t) = <<a, b>>
  BY <1>1 DEF SafetyChecks
<1>3. a.code = "UNSAFE_DOCUMENT_CONTENT" /\ b.code = "DOCUMENT_NOT_RELEVANT" /\ (b.fails <=> Noise(t))
  BY <1>1 DEF Check
<1>4. Lists(SafetyChecks(t), SafetyCodes)
  <2>1. {a.code, b.code} \subseteq SafetyCodes
    BY <1>3 DEF SafetyCodes
  <2>2. QED
    BY <1>2, <2>1, TwoChecks
<1>5. ASSUME ~Noise(t) PROVE Verdict(SafetyChecks(t)) # "DOCUMENT_NOT_RELEVANT"
  <2>1. PICK checks : checks = SafetyChecks(t)
    OBVIOUS
  <2>2. checks \in Seq({a, b}) /\ DOMAIN checks = {1, 2} /\ checks[1] = a /\ checks[2] = b
    BY <1>2, <2>1
  <2>3. FailedChecks(checks) \subseteq {1}
    BY <1>3, <1>5, <2>2 DEF FailedChecks
  <2>4. CASE FailedChecks(checks) = {}
    BY <2>1, <2>2, <2>4, VerdictCode DEF Accepted
  <2>5. CASE 1 \in FailedChecks(checks)
    BY <1>3, <2>1, <2>2, <2>3, <2>5, FirstFailed
  <2>6. QED
    BY <2>3, <2>4, <2>5
<1>6. QED
  BY <1>4, <1>5

\* The first list with a failed check decides; only the third depends on the kind.
LEMMA UploadSays ==
  ASSUME NEW f, NEW kind
  PROVE  UploadVerdict(f, kind) =
           IF FailedChecks(FileChecks(f) \o ExtractionChecks(f)) # {} THEN Verdict(FileChecks(f) \o ExtractionChecks(f))
           ELSE IF FailedChecks(LengthChecks(f.text, f.type)) # {} THEN Verdict(LengthChecks(f.text, f.type))
           ELSE IF FailedChecks(TypeChecks(f.text, kind)) # {} THEN Verdict(TypeChecks(f.text, kind))
           ELSE Verdict(SafetyChecks(f.text))
<1>1. PICK p, l, t, s : /\ p = FileChecks(f) \o ExtractionChecks(f) /\ l = LengthChecks(f.text, f.type)
                        /\ t = TypeChecks(f.text, kind) /\ s = SafetyChecks(f.text)
  OBVIOUS
<1>2. Lists(p, FileCodes) /\ Lists(l, FileCodes) /\ Lists(t, TypeCodes) /\ Lists(s, SafetyCodes)
  BY <1>1, FileListed, LengthListed, TypeListed, SafetyListed
<1>3. /\ Lists(l \o t, FileCodes \cup TypeCodes)
      /\ Verdict(l \o t) = IF FailedChecks(l) # {} THEN Verdict(l) ELSE Verdict(t)
      /\ FailedChecks(l \o t) = {} <=> FailedChecks(l) = {} /\ FailedChecks(t) = {}
  BY <1>2, ListsOfBoth
<1>4. /\ Lists((l \o t) \o s, (FileCodes \cup TypeCodes) \cup SafetyCodes)
      /\ Verdict((l \o t) \o s) = IF FailedChecks(l \o t) # {} THEN Verdict(l \o t) ELSE Verdict(s)
  BY <1>2, <1>3, ListsOfBoth
<1>5. Verdict(p \o ((l \o t) \o s)) = IF FailedChecks(p) # {} THEN Verdict(p) ELSE Verdict((l \o t) \o s)
  BY <1>2, <1>4, ListsOfBoth
<1>6. TextChecks(f.text, kind, f.type) = (l \o t) \o s
  BY <1>1 DEF TextChecks, LengthChecks
<1>7. UploadVerdict(f, kind) = Verdict(p \o ((l \o t) \o s))
  BY <1>1, <1>6 DEF UploadVerdict
<1>8. QED
  BY <1>1, <1>3, <1>4, <1>5, <1>7

\* What each place said is what its checks say of the file.
TriedFits ==
  /\ upload \in Uploads \cup Pages /\ DOMAIN tried = Places
  /\ upload \in Uploads => \A kind \in Places \ {"scan"} : tried[kind] \in {"untried", UploadVerdict(upload, kind)}
  /\ upload \notin Uploads => tried["resume"] = "untried"

\* A text does not look like a resume and like a job description.
LEMMA LooksLikeOne ==
  ASSUME NEW t, t.jdWords \in Nat, t.resumeWords \in Nat
  PROVE  Looks(t, "jdWords", "resumeWords") => ~Looks(t, "resumeWords", "jdWords") /\ t.jdWords # 0
<1>1. t["jdWords"] = t.jdWords /\ t["resumeWords"] = t.resumeWords
  OBVIOUS
<1>2. QED
  BY <1>1 DEF Looks

\* So no file is refused as both kinds for its type, nor as none if accepted as one.
LEMMA RefusedElsewhere ==
  ASSUME NEW f \in Uploads
  PROVE  LET as(kind) == UploadVerdict(f, kind)
         IN  /\ as("resume") = "DOCUMENT_TYPE_MISMATCH" =>
                  /\ as("jd") # "DOCUMENT_TYPE_MISMATCH"
                  /\ as("jd") = "DOCUMENT_NOT_RELEVANT" => Noise(f.text)
             /\ Accepted \in {as("jd"), as("resume")} => as("other") = Accepted
<1>1. PICK p, l, s : /\ p = FileChecks(f) \o ExtractionChecks(f) /\ l = LengthChecks(f.text, f.type)
                     /\ s = SafetyChecks(f.text)
  OBVIOUS
<1> DEFINE t(kind) == TypeChecks(f.text, kind)
<1>2. /\ FailedChecks(p) # {} => Verdict(p) \in FileCodes
      /\ FailedChecks(l) # {} => Verdict(l) \in FileCodes
      /\ \A kind : FailedChecks(t(kind)) # {} => Verdict(t(kind)) \in TypeCodes
      /\ Verdict(s) \in SafetyCodes \cup {Accepted}
      /\ Verdict(s) = "DOCUMENT_NOT_RELEVANT" => Noise(f.text)
  BY <1>1, FileListed, LengthListed, TypeListed, SafetyListed, VerdictListed
<1>3. \A kind : UploadVerdict(f, kind) =
        IF FailedChecks(p) # {} THEN Verdict(p) ELSE IF FailedChecks(l) # {} THEN Verdict(l)
        ELSE IF FailedChecks(t(kind)) # {} THEN Verdict(t(kind)) ELSE Verdict(s)
  BY <1>1, UploadSays
<1>4. FailedChecks(t("other")) = {}
  BY TypeListed
<1>5. FailedChecks(t("resume")) # {} => FailedChecks(t("jd")) = {}
  <2>1. f.text.jdWords \in Nat /\ f.text.resumeWords \in Nat
    BY UploadAssumption
  <2>2. FailedChecks(t("resume")) # {} => Looks(f.text, "jdWords", "resumeWords")
    BY TypeListed
  <2>3. QED
    BY <2>1, <2>2, LooksLikeOne, TypeListed
<1> HIDE DEF t
<1>6. "DOCUMENT_TYPE_MISMATCH" \notin FileCodes \cup SafetyCodes \cup {Accepted}
  BY DEF FileCodes, SafetyCodes, Accepted
<1>7. Accepted \notin FileCodes \cup TypeCodes
  BY DEF FileCodes, TypeCodes, Accepted
<1>8. ASSUME UploadVerdict(f, "resume") = "DOCUMENT_TYPE_MISMATCH"
      PROVE  UploadVerdict(f, "jd") = Verdict(s)
  BY <1>2, <1>3, <1>5, <1>6, <1>8
<1>9. ASSUME NEW kind, UploadVerdict(f, kind) = Accepted
      PROVE  UploadVerdict(f, "other") = Accepted
  BY <1>2, <1>3, <1>4, <1>7, <1>9
<1>10. QED
  BY <1>2, <1>6, <1>8, <1>9

\* What the invariant says of the places.
LEMMA TriedTells == ASSUME TriedFits PROVE RefusedFitsElsewhere
<1>1. CASE upload \in Uploads
  <2>1. /\ tried["jd"] \in {"untried", UploadVerdict(upload, "jd")}
        /\ tried["resume"] \in {"untried", UploadVerdict(upload, "resume")}
        /\ tried["other"] \in {"untried", UploadVerdict(upload, "other")}
    BY <1>1 DEF TriedFits, Places
  <2>2. Accepted # "untried"
    BY DEF Accepted
  <2>3. QED
    BY <1>1, <2>1, <2>2, RefusedElsewhere DEF RefusedFitsElsewhere
<1>2. CASE upload \notin Uploads
  BY <1>2 DEF TriedFits, RefusedFitsElsewhere
<1>3. QED
  BY <1>1, <1>2

\* At the start nothing was tried.
LEMMA IntakeInitially == IntakeInit => TriedFits
BY DEF IntakeInit, TriedFits, Places

\* Each place says what its checks say.
LEMMA IntakeStep == ASSUME TriedFits, [IntakeNext]_intakeVars PROVE TriedFits'
<1>1. ASSUME NEW kind \in Places \ {"scan"}, TryUpload(kind) PROVE TriedFits'
  BY <1>1 DEF TryUpload, Answered, TriedFits, Places
<1>2. ASSUME NEW provider, TryScan(provider) PROVE TriedFits'
  BY <1>2 DEF TryScan, Answered, TriedFits, Places
<1>3. ASSUME TryPage PROVE TriedFits'
  <2>1. upload \notin Uploads
    BY <1>3, UploadAssumption DEF TryPage
  <2>2. QED
    BY <1>3, <2>1 DEF TryPage, Answered, TriedFits, Places
<1>4. CASE UNCHANGED intakeVars
  BY <1>4 DEF intakeVars, TriedFits
<1>5. QED
  BY <1>1, <1>2, <1>3, <1>4 DEF IntakeNext

\* For every number of requests, files and rows, and whatever breaks off: what was answered with
\* 201 is there as a whole, with its items, its file and its reward (input/views.py and
\* document/views write them one after the other); no letter names a deleted description and a
\* user has one profile; and a file that one upload refuses for its kind is not refused by the
\* other for the same reason (document/services/guardrails.py, _validate_document_type).
THEOREM UploadsHoldCorrect == InputSpec /\ IntakeSpec => []UploadsHold
<1>1. InputInit => InputInv
  BY InputInitially
<1>2. InputInv /\ [InputNext]_inputVars => InputInv'
  BY InputStep
<1>3. IntakeInit => TriedFits
  BY IntakeInitially
<1>4. TriedFits /\ [IntakeNext]_intakeVars => TriedFits'
  BY IntakeStep
<1>5. InputInv /\ TriedFits => UploadsHold
  BY InputTells, TriedTells DEF UploadsHold
<1>6. QED
  BY <1>1, <1>2, <1>3, <1>4, <1>5, PTL DEF InputSpec, IntakeSpec

-----------------------------------------------------------------------------
(* Merging questions *)

\* What has been made of a list and the first n candidates for it: the list goes on with
\* candidates that are like none before them, and each came when all candidates before it were
\* like something that is taken; as long as there is room, all candidates are.
TakenFrom(out, taken, candidates, count, n) ==
  /\ Len(taken) <= Len(out)
  /\ \A i \in 1 .. Len(taken) : out[i] = taken[i]
  /\ \A i \in (Len(taken) + 1) .. Len(out) : \E m \in 1 .. n :
       /\ out[i] = candidates[m]
       /\ \A l \in 1 .. m - 1 : \E j \in 1 .. Len(out) : Similar(out[j].text, candidates[l].text)
  /\ \A i \in 1 .. Len(out), j \in (Len(taken) + 1) .. Len(out) : i < j => ~Similar(out[i].text, out[j].text)
  /\ Len(out) < count =>
       \A l \in 1 .. n : \E j \in 1 .. Len(out) : Similar(out[j].text, candidates[l].text)

\* What is like something is so both ways, and everything is like itself.
LEMMA SimilarBothWays ==
  ASSUME NEW p, NEW q PROVE Similar(p, p) /\ (Similar(p, q) <=> Similar(q, p))
BY DEF Similar

\* One more candidate: it is taken or left out, ...
LEMMA TakenStepByStep ==
  ASSUME NEW S, NEW taken \in Seq(S), NEW candidates \in Seq(S), NEW count \in Nat,
         NEW n \in 1 .. Len(candidates), NEW out \in Seq(S),
         TakenFrom(out, taken, candidates, count, n - 1)
  PROVE  /\ Taken(out, candidates[n], count) \in Seq(S)
         /\ TakenFrom(Taken(out, candidates[n], count), taken, candidates, count, n)
<1> DEFINE q == candidates[n]
<1> DEFINE next == Taken(out, q, count)
<1> DEFINE T == Len(taken)
<1>1. PICK L \in Nat : L = Len(out)
  OBVIOUS
<1>2. T \in Nat /\ T <= L /\ n \in Nat /\ n >= 1 /\ q \in S /\ n \in 1 .. n
  BY <1>1 DEF TakenFrom
<1>3. \A m \in 1 .. n - 1 : m \in 1 .. n
  BY <1>2
<1>4. \A l \in 1 .. n : l \in 1 .. n - 1 \/ l = n
  BY <1>2
<1>5. CASE Len(out) >= count \/ \E i \in DOMAIN out : Similar(out[i].text, q.text)
  <2>1. next = out
    BY <1>5 DEF Taken
  <2>2. Len(out) < count =>
          \A l \in 1 .. n : \E j \in 1 .. Len(out) : Similar(out[j].text, candidates[l].text)
    <3>1. SUFFICES ASSUME Len(out) < count, NEW l \in 1 .. n
                   PROVE  \E j \in 1 .. Len(out) : Similar(out[j].text, candidates[l].text)
      OBVIOUS
    <3>2. CASE l \in 1 .. n - 1
      BY <3>1, <3>2 DEF TakenFrom
    <3>3. CASE l = n
      BY <1>1, <1>5, <3>1, <3>3
    <3>4. QED
      BY <1>4, <3>2, <3>3
  <2>3. \A i \in (Len(taken) + 1) .. Len(out) : \E m \in 1 .. n :
          /\ out[i] = candidates[m]
          /\ \A l \in 1 .. m - 1 : \E j \in 1 .. Len(out) : Similar(out[j].text, candidates[l].text)
    BY <1>3 DEF TakenFrom
  <2>4. TakenFrom(out, taken, candidates, count, n)
    BY <2>2, <2>3 DEF TakenFrom
  <2>5. QED
    BY <2>1, <2>4
<1>6. CASE ~(Len(out) >= count \/ \E i \in DOMAIN out : Similar(out[i].text, q.text))
  <2>1. next = Append(out, q)
    BY <1>6 DEF Taken
  <2> HIDE DEF next
  <2>2. /\ next \in Seq(S) /\ Len(next) = L + 1 /\ next[L + 1] = q
        /\ \A i \in 1 .. L : i \in 1 .. L + 1 /\ i \in DOMAIN out /\ next[i] = out[i]
        /\ \A i \in 1 .. L + 1 : i \in 1 .. L \/ i = L + 1
    BY <1>1, <1>2, <2>1
  <2>3. L < count
    BY <1>1, <1>6
  <2>4. \A l \in 1 .. n - 1 : \E j \in 1 .. L : Similar(out[j].text, candidates[l].text)
    BY <1>1, <2>3 DEF TakenFrom
  <2>5. \A l \in 1 .. n - 1 : \E j \in 1 .. L + 1 : Similar(next[j].text, candidates[l].text)
    BY <2>2, <2>4
  <2>6. Similar(next[L + 1].text, candidates[n].text) /\ L + 1 \in 1 .. L + 1
    BY <1>1, <2>2, SimilarBothWays
  <2>7. \A l \in 1 .. n : \E j \in 1 .. L + 1 : Similar(next[j].text, candidates[l].text)
    BY <1>4, <2>5, <2>6
  <2>8. ASSUME NEW i \in (T + 1) .. L + 1
        PROVE  \E m \in 1 .. n :
                 /\ next[i] = candidates[m]
                 /\ \A l \in 1 .. m - 1 : \E j \in 1 .. L + 1 : Similar(next[j].text, candidates[l].text)
    <3>1. CASE i = L + 1
      BY <1>2, <2>2, <2>5, <3>1
    <3>2. CASE i \in 1 .. L
      <4>1. i \in (T + 1) .. L
        BY <1>2, <3>2
      <4>2. PICK m \in 1 .. n - 1 :
              /\ out[i] = candidates[m]
              /\ \A l \in 1 .. m - 1 : \E j \in 1 .. L : Similar(out[j].text, candidates[l].text)
        BY <1>1, <4>1 DEF TakenFrom
      <4>3. \A l \in 1 .. m - 1 : \E j \in 1 .. L + 1 : Similar(next[j].text, candidates[l].text)
        BY <2>2, <4>2
      <4>4. QED
        BY <1>3, <2>2, <3>2, <4>2, <4>3
    <3>3. i = L + 1 \/ i \in 1 .. L
      BY <1>2
    <3>4. QED
      BY <3>1, <3>2, <3>3
  <2>9. ASSUME NEW i \in 1 .. L + 1, NEW j \in (T + 1) .. L + 1, i < j
        PROVE  ~Similar(next[i].text, next[j].text)
    <3>1. i \in 1 .. L
      BY <1>1, <2>9
    <3>2. CASE j = L + 1
      BY <1>6, <2>2, <3>1, <3>2
    <3>3. CASE j \in 1 .. L
      <4>1. j \in (T + 1) .. L
        BY <1>2, <3>3
      <4>2. QED
        BY <1>1, <2>2, <2>9, <3>1, <3>3, <4>1 DEF TakenFrom
    <3>4. j = L + 1 \/ j \in 1 .. L
      BY <1>2
    <3>5. QED
      BY <3>2, <3>3, <3>4
  <2>10. T <= Len(next) /\ \A i \in 1 .. T : next[i] = taken[i]
    <3>1. \A i \in 1 .. T : i \in 1 .. L
      BY <1>2
    <3>2. \A i \in 1 .. T : out[i] = taken[i]
      BY DEF TakenFrom
    <3>3. QED
      BY <1>2, <2>2, <3>1, <3>2
  <2>11. TakenFrom(next, taken, candidates, count, n)
    BY <2>2, <2>7, <2>8, <2>9, <2>10 DEF TakenFrom
  <2>12. QED
    BY <2>2, <2>11 DEF next
<1>7. QED
  BY <1>5, <1>6

\* ... and so for all of them.
LEMMA TakeUnlikeFits ==
  ASSUME NEW S, NEW taken \in Seq(S), NEW candidates \in Seq(S), NEW count \in Nat
  PROVE  /\ TakeUnlike(taken, candidates, count) \in Seq(S)
         /\ TakenFrom(TakeUnlike(taken, candidates, count), taken, candidates, count, Len(candidates))
<1>1. PICK N \in Nat : N = Len(candidates)
  OBVIOUS
<1> DEFINE step == [n \in 1 .. N |-> [v \in Seq(S) |-> Taken(v, candidates[n], count)]]
<1>2. \A n \in 1 .. N : candidates[n] \in S
  BY <1>1
<1>3. step \in [1 .. N -> [Seq(S) -> Seq(S)]]
  <2>1. ASSUME NEW n \in 1 .. N, NEW v \in Seq(S) PROVE Taken(v, candidates[n], count) \in Seq(S)
    <3>1. candidates[n] \in S
      BY <1>2
    <3>2. Append(v, candidates[n]) \in Seq(S)
      BY <3>1
    <3>3. QED
      BY <3>2 DEF Taken
  <2>2. QED
    BY <2>1
<1>4. \A n \in 1 .. N : \A v \in Seq(S) : step[n][v] = Taken(v, candidates[n], count)
  OBVIOUS
<1> HIDE DEF step
<1>5. PICK f \in [0 .. N -> Seq(S)] : Recurs(f, taken, step, N)
  BY <1>3, Recursion
<1>6. f[0] = taken /\ \A n \in 1 .. N : f[n] = Taken(f[n - 1], candidates[n], count)
  <2>1. \A n \in 1 .. N : n - 1 \in 0 .. N
    OBVIOUS
  <2>2. \A n \in 1 .. N : f[n - 1] \in Seq(S)
    BY <2>1
  <2>3. QED
    BY <1>4, <1>5, <2>2 DEF Recurs
<1> DEFINE Is(g) ==
      g = [n \in 0 .. Len(candidates) |-> IF n = 0 THEN taken ELSE Taken(g[n - 1], candidates[n], count)]
<1> DEFINE upto == CHOOSE g : Is(g)
<1>7. Is(f)
  <2>1. \A n \in 0 .. N : n # 0 => n \in 1 .. N
    OBVIOUS
  <2>2. \A n \in 0 .. N : f[n] = (IF n = 0 THEN taken ELSE Taken(f[n - 1], candidates[n], count))
    BY <1>6, <2>1
  <2>3. QED
    BY <1>1, <2>2
<1>8. Is(upto)
  BY <1>7
<1>9. TakeUnlike(taken, candidates, count) = upto[N]
  BY <1>1 DEF TakeUnlike
<1> HIDE DEF upto
<1>10. upto[0] = taken /\ \A n \in 1 .. N : upto[n] = Taken(upto[n - 1], candidates[n], count)
  <2>1. \A n \in 0 .. N : upto[n] = (IF n = 0 THEN taken ELSE Taken(upto[n - 1], candidates[n], count))
    BY <1>1, <1>8
  <2>2. 0 \in 0 .. N /\ \A n \in 1 .. N : n # 0 /\ n \in 0 .. N
    OBVIOUS
  <2>3. QED
    BY <2>1, <2>2
<1> DEFINE G == { n \in 0 .. N : upto[n] \in Seq(S) /\ TakenFrom(upto[n], taken, candidates, count, n) }
<1>11. 0 \in G
  <2>1. TakenFrom(taken, taken, candidates, count, 0)
    BY DEF TakenFrom
  <2>2. QED
    BY <1>10, <2>1
<1>12. ASSUME NEW n \in 1 .. N, n - 1 \in G PROVE n \in G
  <2>1. PICK out : out = upto[n - 1]
    OBVIOUS
  <2>2. out \in Seq(S) /\ TakenFrom(out, taken, candidates, count, n - 1)
    BY <1>12, <2>1
  <2>3. n \in 1 .. Len(candidates) /\ n \in 0 .. N
    BY <1>1
  <2>4. /\ Taken(out, candidates[n], count) \in Seq(S)
        /\ TakenFrom(Taken(out, candidates[n], count), taken, candidates, count, n)
    BY <2>2, <2>3, TakenStepByStep
  <2>5. upto[n] = Taken(out, candidates[n], count)
    BY <1>10, <2>1
  <2>6. QED
    BY <2>3, <2>4, <2>5
<1>13. N \in G
  <2> HIDE DEF G
  <2>1. N \in 0 .. N
    OBVIOUS
  <2>2. QED
    BY <1>11, <1>12, <2>1, StepByStep
<1>14. QED
  BY <1>1, <1>9, <1>13

ListBy(list, by) == list \in Seq(AnyQuestion) /\ \A i \in DOMAIN list : list[i].by = by

\* The questions of a type, in their order.
LEMMA OfTypeFits ==
  ASSUME NEW list \in Seq(AnyQuestion), NEW type
  PROVE  /\ OfType(list, type) \in Seq(AnyQuestion)
         /\ \A i \in DOMAIN OfType(list, type) :
              OfType(list, type)[i].type = type /\ \E p \in DOMAIN list : OfType(list, type)[i] = list[p]
<1> DEFINE places == { i \in DOMAIN list : list[i].type = type }
<1>1. places \in SUBSET DOMAIN list /\ \A p \in places : list[p].type = type /\ p \in DOMAIN list
  OBVIOUS
<1>2. OfType(list, type) = Where(list, places)
  BY DEF OfType
<1> HIDE DEF places
<1>3. /\ Where(list, places) \in Seq(AnyQuestion) /\ Cardinality(places) \in Nat
      /\ Len(Where(list, places)) = Cardinality(places)
      /\ \A k \in 1 .. Cardinality(places) : \E p \in places : Where(list, places)[k] = list[p]
  BY <1>1, WhereTakes
<1>4. DOMAIN Where(list, places) = 1 .. Cardinality(places)
  BY <1>3
<1>5. QED
  BY <1>1, <1>2, <1>3, <1>4

\* A question of the bank is taken only when the model's own of that type have run out.
BankLast(list, drafts) ==
  \A i \in DOMAIN list : list[i].by = "bank" =>
    \A d \in Range(OfType(drafts, list[i].type)) : \E j \in DOMAIN list : Similar(list[j].text, d.text)

\* Questions of some types, of which no two of a type are alike.
Sound(list, types, drafts) ==
  /\ list \in Seq(AnyQuestion)
  /\ \A i \in DOMAIN list : list[i].type \in types /\ list[i].by \in {"model", "bank"}
  /\ \A i, j \in DOMAIN list : i # j /\ Similar(list[i].text, list[j].text) => list[i].type # list[j].type
  /\ BankLast(list, drafts)

\* The questions of one type.
LEMMA GroupIsSound ==
  ASSUME NEW type \in DOMAIN TargetCounts, ListBy(inHand.drafts, "model"), ListBy(bank, "bank")
  PROVE  Sound(Group(type), {type}, inHand.drafts)
<1> DEFINE d == OfType(inHand.drafts, type)
<1> DEFINE b == OfType(bank, type)
<1>1. /\ d \in Seq(AnyQuestion) /\ Len(d) \in Nat /\ DOMAIN d = 1 .. Len(d)
      /\ \A i \in DOMAIN d : d[i].type = type /\ d[i].by = "model"
  <2>1. inHand.drafts \in Seq(AnyQuestion)
    BY DEF ListBy
  <2>2. /\ d \in Seq(AnyQuestion)
        /\ \A i \in DOMAIN d : d[i].type = type /\ \E p \in DOMAIN inHand.drafts : d[i] = inHand.drafts[p]
    BY <2>1, OfTypeFits
  <2> HIDE DEF d
  <2>3. \A i \in DOMAIN d : d[i].by = "model"
    BY <2>2 DEF ListBy
  <2>4. QED
    BY <2>2, <2>3
<1>2. /\ b \in Seq(AnyQuestion) /\ Len(b) \in Nat /\ DOMAIN b = 1 .. Len(b)
      /\ \A i \in DOMAIN b : b[i].type = type /\ b[i].by = "bank"
  <2>1. bank \in Seq(AnyQuestion)
    BY DEF ListBy
  <2>2. b \in Seq(AnyQuestion) /\ \A i \in DOMAIN b : b[i].type = type /\ \E p \in DOMAIN bank : b[i] = bank[p]
    BY <2>1, OfTypeFits
  <2> HIDE DEF b
  <2>3. \A i \in DOMAIN b : b[i].by = "bank"
    BY <2>2 DEF ListBy
  <2>4. QED
    BY <2>2, <2>3
<1>3. PICK c : c = Candidates(type)
  OBVIOUS
<1>4. c = d \o b
  BY <1>3 DEF Candidates
<1>5. d = OfType(inHand.drafts, type)
  OBVIOUS
<1> HIDE DEF d, b
<1>6. /\ c \in Seq(AnyQuestion) /\ Len(c) = Len(d) + Len(b)
      /\ \A i \in 1 .. Len(d) : c[i] = d[i]
      /\ \A i \in (Len(d) + 1) .. Len(c) : i - Len(d) \in 1 .. Len(b) /\ c[i] = b[i - Len(d)]
  BY <1>1, <1>2, <1>4
<1>7. /\ \A i \in 1 .. Len(d) : c[i].type = type /\ c[i].by = "model"
      /\ \A i \in (Len(d) + 1) .. Len(c) : c[i].type = type /\ c[i].by = "bank"
  BY <1>1, <1>2, <1>6
<1>8. \A i \in 1 .. Len(c) : i \in 1 .. Len(d) \/ i \in (Len(d) + 1) .. Len(c)
  BY <1>1, <1>6
<1>9. PICK count \in Nat : count = TargetCounts[type]
  BY DEF TargetCounts
<1>10. PICK none \in Seq(AnyQuestion) : none = <<>> /\ Len(none) = 0
  <2>1. <<>> \in Seq(AnyQuestion) /\ Len(<<>>) = 0
    OBVIOUS
  <2>2. QED
    BY <2>1
<1>11. PICK g : g = TakeUnlike(none, c, count)
  OBVIOUS
<1>12. g = Group(type)
  BY <1>3, <1>9, <1>10, <1>11 DEF Group
<1>13. g \in Seq(AnyQuestion) /\ TakenFrom(g, none, c, count, Len(c))
  BY <1>6, <1>11, TakeUnlikeFits
<1>14. /\ DOMAIN g = 1 .. Len(g) /\ (Len(none) + 1) .. Len(g) = 1 .. Len(g)
  BY <1>10, <1>13
<1>15. ASSUME NEW i \in 1 .. Len(g)
       PROVE  \E m \in 1 .. Len(c) :
                /\ g[i] = c[m]
                /\ \A l \in 1 .. m - 1 : \E j \in 1 .. Len(g) : Similar(g[j].text, c[l].text)
  BY <1>13, <1>14 DEF TakenFrom
<1>16. \A i \in DOMAIN g : g[i].type = type /\ g[i].by \in {"model", "bank"}
  BY <1>7, <1>8, <1>14, <1>15
<1>17. ASSUME NEW i \in DOMAIN g, NEW j \in DOMAIN g, i # j PROVE ~Similar(g[i].text, g[j].text)
  <2>1. i \in 1 .. Len(g) /\ j \in 1 .. Len(g)
    BY <1>14
  <2>2. CASE i < j
    BY <1>13, <1>14, <2>1, <2>2 DEF TakenFrom
  <2>3. CASE j < i
    BY <1>13, <1>14, <2>1, <2>3, SimilarBothWays DEF TakenFrom
  <2>4. i < j \/ j < i
    BY <1>17, <2>1
  <2>5. QED
    BY <2>2, <2>3, <2>4
<1>18. ASSUME NEW i \in DOMAIN g, g[i].by = "bank", NEW x \in Range(d)
       PROVE  \E j \in DOMAIN g : Similar(g[j].text, x.text)
  <2>1. PICK m \in 1 .. Len(c) :
          /\ g[i] = c[m]
          /\ \A l \in 1 .. m - 1 : \E j \in 1 .. Len(g) : Similar(g[j].text, c[l].text)
    BY <1>14, <1>15
  <2>2. m \notin 1 .. Len(d)
    BY <1>7, <1>18, <2>1
  <2>3. PICK l \in DOMAIN d : x = d[l]
    BY DEF Range
  <2>4. l \in 1 .. Len(d) /\ l \in 1 .. m - 1
    BY <1>1, <1>6, <2>1, <2>2, <2>3
  <2>5. c[l] = x
    BY <1>6, <2>3, <2>4
  <2>6. QED
    BY <1>14, <2>1, <2>4, <2>5
<1>19. BankLast(g, inHand.drafts)
  BY <1>5, <1>16, <1>18 DEF BankLast
<1>20. Sound(g, {type}, inHand.drafts)
  BY <1>13, <1>16, <1>17, <1>19 DEF Sound
<1>21. QED
  BY <1>12, <1>20

\* Sound lists of different types are sound together.
LEMMA SoundJoin ==
  ASSUME NEW a, NEW b, NEW T, NEW U, NEW drafts, Sound(a, T, drafts), Sound(b, U, drafts), T \cap U = {}
  PROVE  Sound(a \o b, T \cup U, drafts)
<1>1. PICK A \in Nat : A = Len(a) /\ DOMAIN a = 1 .. A
  BY DEF Sound
<1>2. PICK B \in Nat : B = Len(b) /\ DOMAIN b = 1 .. B
  BY DEF Sound
<1>3. PICK c : c = a \o b
  OBVIOUS
<1>4. a \in Seq(AnyQuestion) /\ b \in Seq(AnyQuestion)
  BY DEF Sound
<1>5. /\ c \in Seq(AnyQuestion) /\ DOMAIN c = 1 .. A + B
      /\ \A i \in 1 .. A : i \in DOMAIN c /\ c[i] = a[i]
      /\ \A i \in 1 .. B : A + i \in DOMAIN c /\ c[A + i] = b[i]
  BY <1>1, <1>2, <1>3, <1>4
<1>6. \A i \in DOMAIN c : i \in 1 .. A \/ \E k \in 1 .. B : i = A + k
  <2>1. ASSUME NEW i \in 1 .. A + B, i \notin 1 .. A PROVE i - A \in 1 .. B /\ i = A + (i - A)
    BY <2>1
  <2>2. QED
    BY <1>5, <2>1
<1>7. \A i \in 1 .. A : a[i].type \in T /\ a[i].by \in {"model", "bank"}
  BY <1>1 DEF Sound
<1>8. \A i \in 1 .. B : b[i].type \in U /\ b[i].by \in {"model", "bank"}
  BY <1>2 DEF Sound
<1>9. \A i \in DOMAIN c : c[i].type \in T \cup U /\ c[i].by \in {"model", "bank"}
  BY <1>5, <1>6, <1>7, <1>8
<1>10. ASSUME NEW i \in DOMAIN c, NEW j \in DOMAIN c, i # j, Similar(c[i].text, c[j].text)
       PROVE  c[i].type # c[j].type
  <2>1. CASE i \in 1 .. A /\ j \in 1 .. A
    BY <1>1, <1>5, <1>10, <2>1 DEF Sound
  <2>2. CASE i \in 1 .. A /\ \E k \in 1 .. B : j = A + k
    BY <1>5, <1>7, <1>8, <2>2
  <2>3. CASE j \in 1 .. A /\ \E k \in 1 .. B : i = A + k
    BY <1>5, <1>7, <1>8, <2>3
  <2>4. CASE (\E k \in 1 .. B : i = A + k) /\ (\E k \in 1 .. B : j = A + k)
    <3>1. PICK k \in 1 .. B : i = A + k
      BY <2>4
    <3>2. PICK h \in 1 .. B : j = A + h
      BY <2>4
    <3>3. k # h /\ c[i] = b[k] /\ c[j] = b[h]
      BY <1>5, <1>10, <3>1, <3>2
    <3>4. QED
      BY <1>2, <1>10, <3>3 DEF Sound
  <2>5. QED
    BY <1>6, <2>1, <2>2, <2>3, <2>4
<1>11. BankLast(c, drafts)
  <2>1. SUFFICES ASSUME NEW i \in DOMAIN c, c[i].by = "bank",
                        NEW x \in Range(OfType(drafts, c[i].type))
                 PROVE  \E j \in DOMAIN c : Similar(c[j].text, x.text)
    BY DEF BankLast
  <2>2. CASE i \in 1 .. A
    <3>1. \E j \in DOMAIN a : Similar(a[j].text, x.text)
      BY <1>1, <1>5, <2>1, <2>2 DEF Sound, BankLast
    <3>2. QED
      BY <1>1, <1>5, <3>1
  <2>3. ASSUME NEW k \in 1 .. B, i = A + k PROVE \E j \in DOMAIN c : Similar(c[j].text, x.text)
    <3>1. \E j \in DOMAIN b : Similar(b[j].text, x.text)
      BY <1>2, <1>5, <2>1, <2>3 DEF Sound, BankLast
    <3>2. QED
      BY <1>2, <1>5, <3>1
  <2>4. QED
    BY <1>6, <2>2, <2>3
<1>12. QED
  BY <1>3, <1>5, <1>9, <1>10, <1>11 DEF Sound

-----------------------------------------------------------------------------
(* Questions and answers of one generation *)

\* No two questions of a kind are alike, one about code is like none, and one from the bank is
\* there only when the model's own have run out.
Kept(list, drafts) ==
  /\ list \in Seq(Range(list))
  /\ \A i, j \in DOMAIN list : i # j /\ Similar(list[i].text, list[j].text) =>
       list[i].type # list[j].type /\ "code" \notin {list[i].by, list[j].by}
  /\ BankLast(list, drafts)

\* What the merge chooses: the sound ones of the three types, then those about code.
LEMMA MergeKeeps ==
  ASSUME NEW code, ListBy(code, "code"), ListBy(inHand.drafts, "model"), ListBy(bank, "bank"),
         NEW base, base = Group("personality") \o Group("technical") \o Group("experience")
  PROVE  Kept(TakeUnlike(base, code, Len(base) + Len(code)), inHand.drafts)
<1>1. Sound(base, {"personality", "technical", "experience"}, inHand.drafts)
  <2>1. /\ Sound(Group("personality"), {"personality"}, inHand.drafts) /\ Sound(Group("technical"), {"technical"}, inHand.drafts)
        /\ Sound(Group("experience"), {"experience"}, inHand.drafts)
    <3>1. {"personality", "technical", "experience"} = DOMAIN TargetCounts
      BY DEF TargetCounts
    <3>2. QED
      BY <3>1, GroupIsSound
  <2>2. Sound(Group("personality") \o Group("technical"), {"personality"} \cup {"technical"}, inHand.drafts)
    <3>1. {"personality"} \cap {"technical"} = {}
      OBVIOUS
    <3>2. QED
      BY <2>1, <3>1, SoundJoin
  <2>3. Sound(base, ({"personality"} \cup {"technical"}) \cup {"experience"}, inHand.drafts)
    <3>1. ({"personality"} \cup {"technical"}) \cap {"experience"} = {}
      OBVIOUS
    <3>2. QED
      BY <2>1, <2>2, <3>1, SoundJoin
  <2>4. ({"personality"} \cup {"technical"}) \cup {"experience"} = {"personality", "technical", "experience"}
    OBVIOUS
  <2>5. QED
    BY <2>3, <2>4
<1>2. base \in Seq(AnyQuestion) /\ code \in Seq(AnyQuestion)
  BY <1>1 DEF Sound, ListBy
<1>3. PICK count \in Nat : count = Len(base) + Len(code)
  BY <1>2
<1>4. PICK out : out = TakeUnlike(base, code, count)
  OBVIOUS
<1>5. out \in Seq(AnyQuestion) /\ TakenFrom(out, base, code, count, Len(code))
  BY <1>2, <1>4, TakeUnlikeFits
<1>6. PICK B \in Nat : B = Len(base) /\ DOMAIN base = 1 .. B
  BY <1>2
<1>7. PICK N \in Nat : N = Len(out) /\ DOMAIN out = 1 .. N
  BY <1>5
<1>8. B <= N /\ \A i \in 1 .. B : i \in 1 .. N /\ out[i] = base[i]
  <2>1. B <= N /\ \A i \in 1 .. B : out[i] = base[i]
    BY <1>5, <1>6, <1>7 DEF TakenFrom
  <2>2. \A i \in 1 .. B : i \in 1 .. N
    BY <2>1
  <2>3. QED
    BY <2>1, <2>2
<1>9. \A i \in (B + 1) .. N : out[i].by = "code"
  <2>1. \A i \in (B + 1) .. N : \E m \in 1 .. Len(code) : out[i] = code[m]
    BY <1>5, <1>6, <1>7 DEF TakenFrom
  <2>2. \A m \in 1 .. Len(code) : code[m].by = "code"
    BY <1>2 DEF ListBy
  <2>3. QED
    BY <2>1, <2>2
<1>10. \A i \in 1 .. B : out[i].by \in {"model", "bank"}
  BY <1>1, <1>6, <1>8 DEF Sound
<1>11. \A i \in 1 .. N : i \in 1 .. B \/ i \in (B + 1) .. N
  BY <1>8
<1>12. ASSUME NEW i \in 1 .. N, NEW j \in 1 .. N, i # j, Similar(out[i].text, out[j].text)
       PROVE  i \in 1 .. B /\ j \in 1 .. B
  <2>1. \A h \in 1 .. N, k \in (B + 1) .. N : h < k => ~Similar(out[h].text, out[k].text)
    BY <1>5, <1>6, <1>7 DEF TakenFrom
  <2>2. i < j \/ j < i
    BY <1>12
  <2>3. CASE i < j
    <3>1. j \in 1 .. B
      BY <1>11, <1>12, <2>1, <2>3
    <3>2. QED
      BY <1>12, <2>3, <3>1
  <2>4. CASE j < i
    <3>1. i \in 1 .. B
      BY <1>11, <1>12, <2>1, <2>4, SimilarBothWays
    <3>2. QED
      BY <1>12, <2>4, <3>1
  <2>5. QED
    BY <2>2, <2>3, <2>4
<1>13. ASSUME NEW i \in DOMAIN out, NEW j \in DOMAIN out, i # j, Similar(out[i].text, out[j].text)
       PROVE  out[i].type # out[j].type /\ "code" \notin {out[i].by, out[j].by}
  <2>1. i \in 1 .. B /\ j \in 1 .. B
    BY <1>7, <1>12, <1>13
  <2>2. out[i] = base[i] /\ out[j] = base[j] /\ i \in DOMAIN base /\ j \in DOMAIN base
    BY <1>6, <1>8, <2>1
  <2>3. Similar(base[i].text, base[j].text)
    BY <1>13, <2>2
  <2>4. base[i].type # base[j].type
    BY <1>1, <1>13, <2>2, <2>3 DEF Sound
  <2>5. "code" \notin {out[i].by, out[j].by}
    BY <1>10, <2>1
  <2>6. QED
    BY <2>2, <2>4, <2>5
<1>14. BankLast(out, inHand.drafts)
  <2>1. SUFFICES ASSUME NEW i \in DOMAIN out, out[i].by = "bank",
                        NEW x \in Range(OfType(inHand.drafts, out[i].type))
                 PROVE  \E j \in DOMAIN out : Similar(out[j].text, x.text)
    BY DEF BankLast
  <2>2. i \in 1 .. B
    BY <1>7, <1>9, <1>11, <2>1
  <2>3. \E j \in DOMAIN base : Similar(base[j].text, x.text)
    BY <1>1, <1>6, <1>8, <2>1, <2>2 DEF Sound, BankLast
  <2>4. QED
    BY <1>6, <1>7, <1>8, <2>3
<1>15. out \in Seq(Range(out))
  <2>1. \A i \in 1 .. N : out[i] \in Range(out)
    BY <1>7 DEF Range
  <2>2. QED
    BY <1>5, <1>7, <2>1
<1>16. Kept(out, inHand.drafts)
  BY <1>13, <1>14, <1>15 DEF Kept
<1>17. QED
  BY <1>3, <1>4, <1>16

\* An answer is about its question or about none, and called grounded only if it is.
AnswerStands(q) ==
  /\ q.answer.to \in {q.text, "nothing"}
  /\ q.type # "technical" /\ q.grounded => q.answer.figures \cup q.answer.others \subseteq Known

\* The number in a list leads back to the question it was sent with.
LEMMA AnswerFits ==
  ASSUME chosen \in Seq(Range(chosen)), NEW i \in DOMAIN chosen,
         written.star \in Seq(AnyItem), written.technical \in Seq(AnyItem)
  PROVE  AnswerOf(i).to \in {chosen[i].text, "nothing"}
<1>1. Technicals \in SUBSET DOMAIN chosen /\ Others \in SUBSET DOMAIN chosen
  BY DEF Technicals, Others
<1>2. SentWith(i) \in SUBSET DOMAIN chosen /\ i \in SentWith(i)
  BY <1>1 DEF SentWith, Others
<1>3. PICK given : given = LocalNumber(i)
  OBVIOUS
<1>4. PICK list : list = Where(chosen, SentWith(i))
  OBVIOUS
<1>5. given \in DOMAIN list /\ list[given] = chosen[i]
  <2>1. PICK sent \in SUBSET DOMAIN chosen : sent = SentWith(i)
    BY <1>2
  <2>2. /\ list \in Seq(Range(chosen)) /\ Cardinality(sent) \in Nat /\ Len(list) = Cardinality(sent)
        /\ \A p \in sent : Rank(sent, p) \in 1 .. Cardinality(sent) /\ list[Rank(sent, p)] = chosen[p]
    BY <1>4, <2>1, WhereTakes
  <2>3. given = Rank(sent, i) /\ i \in sent
    BY <1>2, <1>3, <2>1 DEF LocalNumber
  <2>4. DOMAIN list = 1 .. Cardinality(sent)
    BY <2>2
  <2>5. QED
    BY <2>2, <2>3, <2>4
<1>6. PICK replies \in Seq(AnyItem) : replies = (IF i \in Technicals THEN written.technical ELSE written.star)
  OBVIOUS
<1>7. AnswerOf(i) = Lookup(list, replies, given)
  BY <1>3, <1>4, <1>6 DEF AnswerOf
<1> DEFINE same == { k \in DOMAIN replies : replies[k].number = given }
<1>8. CASE same = {}
  <2>1. AnswerOf(i) = NoAnswer
    BY <1>7, <1>8 DEF Lookup
  <2>2. QED
    BY <2>1 DEF NoAnswer
<1>9. CASE same # {}
  <2> DEFINE newest == CHOOSE k \in same : \A l \in same : l <= k
  <2>1. \E k \in same : \A l \in same : l <= k
    <3>1. PICK N \in Nat : N = Len(replies)
      OBVIOUS
    <3>2. same \in SUBSET (0 .. N)
      BY <3>1
    <3> HIDE DEF same
    <3>3. QED
      BY <1>9, <3>1, <3>2, GreatestElement
  <2>2. newest \in same
    BY <2>1
  <2>3. replies[newest].number = given
    BY <2>2
  <2>4. AnswerOf(i) = AnswerTo(list, replies[newest])
    BY <1>7, <1>9 DEF Lookup
  <2> HIDE DEF newest
  <2>5. AnswerTo(list, replies[newest]).to = list[given].text
    BY <1>5, <2>3 DEF AnswerTo
  <2>6. QED
    BY <1>5, <2>4, <2>5
<1>10. QED
  BY <1>8, <1>9

\* There are no rows of the analysis left when a generation gets going, or it was asked to
\* replace them; the lists are of the kinds their sources give, and from the merge on what is
\* chosen stays as the merge has left it.
PrepInv ==
  /\ inHand \in [rows : Before, drafts : Drafts \cup {<<>>}]
  /\ bank \in Banks \cup {<<>>}
  /\ making # "stored" => rows = inHand.rows
  /\ making \in {"summary", "summary again", "company", "search", "ask", "merge", "answer", "attach", "store"} =>
       rows = <<>> \/ anew
  /\ making = "merge" => ListBy(chosen, "code")
  /\ making \in {"answer", "attach", "store", "stored"} => Kept(chosen, inHand.drafts)
  /\ making = "attach" => written.star \in Seq(AnyItem) /\ written.technical \in Seq(AnyItem)
  /\ making \in {"store", "stored"} => \A i \in DOMAIN chosen : AnswerStands(chosen[i])
  /\ AnswersFit

\* Lists tell their source.
LEMMA ListsAreBy ==
  ASSUME NEW list
  PROVE  /\ list \in Banks \cup {<<>>} => ListBy(list, "bank")
         /\ list \in Drafts \cup {<<>>} => ListBy(list, "model")
         /\ list \in CodeDrafts => ListBy(list, "code")
<1>1. ListBy(<<>>, "bank") /\ ListBy(<<>>, "model")
  BY DEF ListBy
<1>2. \A i \in DOMAIN list : list[i] \in Range(list)
  BY DEF Range
<1>3. QED
  BY <1>1, <1>2, ListsAssumption DEF ListBy

LEMMA PreparedStarts == PreparedInit => PrepInv
BY DEF PreparedInit, PrepInv, AnswersFit

\* The steps before the merge.
LEMMA ContextKeeps ==
  ASSUME PrepInv,
         \/ ReturnExisting
         \/ \E url \in {NoRepository, "repository"} : ReadRepository(url)
         \/ \E reply \in {"json", "notJson", "down"} : Summarize(reply)
         \/ \E confirmed, found, usual \in Traits : PrepareContext(confirmed, found, usual)
         \/ \E found \in Banks : SearchBank(found)
  PROVE  PrepInv'
<1>1. ASSUME ReturnExisting PROVE PrepInv'
  BY <1>1 DEF ReturnExisting, PrepInv, AnswersFit
<1>2. ASSUME NEW url, ReadRepository(url) PROVE PrepInv'
  BY <1>2 DEF ReadRepository, PrepInv, AnswersFit
<1>3. ASSUME NEW reply, Summarize(reply) PROVE PrepInv'
  BY <1>3 DEF Summarize, PrepInv, AnswersFit
<1>4. ASSUME NEW confirmed, NEW found, NEW usual, PrepareContext(confirmed, found, usual) PROVE PrepInv'
  <2>1. making = "company" /\ making' = "search" /\ UNCHANGED <<rows, anew, bank, chosen, written, inHand>>
    BY <1>4 DEF PrepareContext
  <2>2. QED
    BY <2>1 DEF PrepInv, AnswersFit
<1>5. ASSUME NEW found \in Banks, SearchBank(found) PROVE PrepInv'
  BY <1>5 DEF SearchBank, GiveUp, PrepInv, AnswersFit
<1>6. QED
  BY <1>1, <1>2, <1>3, <1>4, <1>5

\* Each of the steps after it.
LEMMA AskModelKeeps ==
  ASSUME PrepInv, NEW drafts \in Drafts, NEW code \in CodeDrafts, AskModel(drafts, code)
  PROVE  PrepInv'
<1>1. CASE GiveUp
  BY <1>1 DEF GiveUp, PrepInv, AnswersFit, AskModel
<1>2. CASE /\ chosen' = Cut(code, MaxCode) /\ making' = "merge"
           /\ inHand' = [inHand EXCEPT !.drafts = drafts]
           /\ UNCHANGED <<about, rows, anew, bank, written>>
  <2>1. inHand' \in [rows : Before, drafts : Drafts \cup {<<>>}] /\ inHand'.rows = inHand.rows
    BY <1>2 DEF PrepInv
  <2>2. ListBy(chosen', "code")
    <3>1. code \in Seq(AnyQuestion) /\ \A i \in DOMAIN code : code[i].by = "code"
      BY ListsAreBy DEF ListBy
    <3>2. PICK n \in Nat : n = MaxCode
      BY DEF MaxCode
    <3>3. PICK cut : cut = Cut(code, n)
      OBVIOUS
    <3>4. cut \in Seq(AnyQuestion) /\ Len(cut) <= Len(code) /\ \A i \in 1 .. Len(cut) : cut[i] = code[i]
      BY <3>1, <3>3, CutTakes
    <3>5. \A i \in DOMAIN cut : i \in DOMAIN code /\ cut[i] = code[i]
      BY <3>1, <3>4
    <3>6. ListBy(cut, "code")
      BY <3>1, <3>4, <3>5 DEF ListBy
    <3>7. QED
      BY <1>2, <3>2, <3>3, <3>6
  <2>3. making = "ask"
    BY DEF AskModel
  <2>4. QED
    BY <1>2, <2>1, <2>2, <2>3 DEF PrepInv, AnswersFit
<1>3. QED
  BY <1>1, <1>2 DEF AskModel

LEMMA MergePreserves == ASSUME PrepInv, Merge PROVE PrepInv'
<1>1. CASE GiveUp
  BY <1>1 DEF GiveUp, PrepInv, AnswersFit, Merge
<1>2. CASE ~GiveUp
  <2> DEFINE base == Group("personality") \o Group("technical") \o Group("experience")
  <2>1. /\ making = "merge" /\ chosen' = TakeUnlike(base, chosen, Len(base) + Len(chosen)) /\ making' = "answer"
        /\ UNCHANGED <<about, rows, anew, bank, written, inHand>>
    BY <1>2 DEF Merge
  <2>2. ListBy(chosen, "code") /\ ListBy(inHand.drafts, "model") /\ ListBy(bank, "bank")
    <3>1. inHand.drafts \in Drafts \cup {<<>>} /\ bank \in Banks \cup {<<>>} /\ ListBy(chosen, "code")
      BY <2>1 DEF PrepInv
    <3>2. QED
      BY <3>1, ListsAreBy
  <2>3. Kept(chosen', inHand.drafts)
    <3>1. PICK b : b = base
      OBVIOUS
    <3>2. b = Group("personality") \o Group("technical") \o Group("experience")
      BY <3>1
    <3> HIDE DEF base
    <3>3. Kept(TakeUnlike(b, chosen, Len(b) + Len(chosen)), inHand.drafts)
      BY <2>2, <3>2, MergeKeeps
    <3>4. QED
      BY <2>1, <3>1, <3>3
  <2> HIDE DEF base
  <2>4. QED
    BY <2>1, <2>3 DEF PrepInv, AnswersFit
<1>3. QED
  BY <1>1, <1>2

LEMMA AskForAnswersKeeps ==
  ASSUME PrepInv, NEW star \in Written, NEW technical \in Written, AskForAnswers(star, technical)
  PROVE  PrepInv'
<1>1. CASE GiveUp
  BY <1>1 DEF GiveUp, PrepInv, AnswersFit, AskForAnswers
<1>2. CASE ~GiveUp
  <2>1. /\ making = "answer" /\ making' = "attach"
        /\ written' = [star |-> IF Others = {} THEN <<>> ELSE star,
                       technical |-> IF Technicals = {} THEN <<>> ELSE technical]
        /\ UNCHANGED <<about, rows, anew, bank, chosen, inHand>>
    BY <1>2 DEF AskForAnswers
  <2>2. written'.star \in Seq(AnyItem) /\ written'.technical \in Seq(AnyItem)
    <3>1. <<>> \in Seq(AnyItem) /\ star \in Seq(AnyItem) /\ technical \in Seq(AnyItem)
      BY ListsAssumption
    <3>2. QED
      BY <2>1, <3>1
  <2>3. QED
    BY <2>1, <2>2 DEF PrepInv, AnswersFit
<1>3. QED
  BY <1>1, <1>2

LEMMA AttachKeeps == ASSUME PrepInv, Attach PROVE PrepInv'
<1>1. /\ making = "attach" /\ making' = "store"
      /\ UNCHANGED <<about, rows, anew, bank, written, inHand>>
  BY DEF Attach
<1>2. /\ Kept(chosen, inHand.drafts) /\ chosen \in Seq(Range(chosen))
      /\ written.star \in Seq(AnyItem) /\ written.technical \in Seq(AnyItem)
  BY <1>1 DEF PrepInv, Kept
<1>3. PICK next : next = chosen'
  OBVIOUS
<1>4. PICK N \in Nat : N = Len(chosen) /\ DOMAIN chosen = 1 .. N
  BY <1>2
<1>5. next = [ i \in 1 .. N |->
                 [text |-> chosen[i].text, type |-> chosen[i].type, by |-> chosen[i].by,
                  answer |-> AnswerOf(i), grounded |-> Grounded(chosen[i], AnswerOf(i))] ]
  BY <1>3, <1>4 DEF Attach
<1>6. DOMAIN next = DOMAIN chosen
      /\ \A i \in DOMAIN chosen :
           /\ next[i].text = chosen[i].text /\ next[i].type = chosen[i].type /\ next[i].by = chosen[i].by
           /\ next[i].answer = AnswerOf(i) /\ next[i].grounded = Grounded(chosen[i], AnswerOf(i))
  BY <1>4, <1>5
<1>7. next \in Seq(Range(next))
  <2>1. \A i \in 1 .. N : next[i] \in Range(next)
    BY <1>4, <1>6 DEF Range
  <2>2. next = [i \in 1 .. N |-> next[i]]
    BY <1>5
  <2>3. QED
    BY <1>4, <2>1, <2>2
<1>8. Kept(next, inHand.drafts)
  <2>1. BankLast(next, inHand.drafts)
    BY <1>2, <1>6 DEF Kept, BankLast
  <2>2. \A i, j \in DOMAIN next : i # j /\ Similar(next[i].text, next[j].text) =>
          next[i].type # next[j].type /\ "code" \notin {next[i].by, next[j].by}
    BY <1>2, <1>6 DEF Kept
  <2>3. QED
    BY <1>7, <2>1, <2>2 DEF Kept
<1>9. ASSUME NEW i \in DOMAIN next PROVE AnswerStands(next[i])
  <2>1. i \in DOMAIN chosen
    BY <1>6
  <2>2. AnswerOf(i).to \in {chosen[i].text, "nothing"}
    BY <1>2, <2>1, AnswerFits
  <2>3. next[i].answer.to \in {next[i].text, "nothing"}
    BY <1>6, <2>1, <2>2
  <2>4. ASSUME next[i].type # "technical", next[i].grounded
        PROVE  next[i].answer.figures \cup next[i].answer.others \subseteq Known
    <3>1. Grounded(chosen[i], AnswerOf(i)) /\ ~IsTechnical(chosen[i])
      BY <1>6, <2>1, <2>4 DEF IsTechnical
    <3>2. AnswerOf(i).figures \cup AnswerOf(i).others \subseteq Known
      BY <3>1 DEF Grounded
    <3>3. QED
      BY <1>6, <2>1, <3>2
  <2>5. QED
    BY <2>3, <2>4 DEF AnswerStands
<1>10. QED
  BY <1>1, <1>3, <1>8, <1>9 DEF PrepInv, AnswersFit

\* The rows of some questions: each is of a question, two are of two.
AreOf(recs, qs, existing) ==
  /\ recs \in Seq(Range(recs))
  /\ \A i \in DOMAIN recs : \E p \in DOMAIN qs :
       /\ recs[i].row = qs[p] /\ recs[i].text = qs[p].text /\ recs[i].order = i - 1
       /\ qs[p].text \notin existing \cup TooShort
  /\ \A i, j \in DOMAIN recs : i # j =>
       \E p, q \in DOMAIN qs : p # q /\ recs[i].row = qs[p] /\ recs[i].text = qs[p].text
                                    /\ recs[j].row = qs[q] /\ recs[j].text = qs[q].text

LEMMA RecordsFit ==
  ASSUME NEW qs, qs \in Seq(Range(qs)), NEW existing, NEW recs, recs = Records(qs, existing)
  PROVE  AreOf(recs, qs, existing)
<1> DEFINE places == { i \in DOMAIN qs : qs[i].text \notin TooShort /\ qs[i].text \notin existing }
<1>1. places \in SUBSET DOMAIN qs /\ \A p \in places : p \in DOMAIN qs /\ qs[p].text \notin existing \cup TooShort
  OBVIOUS
<1>2. PICK passed : passed = Filtered(qs, existing)
  OBVIOUS
<1>3. passed = Where(qs, places)
  BY <1>2 DEF Filtered
<1> HIDE DEF places
<1>4. /\ passed \in Seq(Range(qs)) /\ Cardinality(places) \in Nat /\ Len(passed) = Cardinality(places)
      /\ \A k \in 1 .. Cardinality(places) : \E p \in places : Rank(places, p) = k /\ passed[k] = qs[p]
  BY <1>1, <1>3, WhereTakes
<1>5. PICK N \in Nat : N = Len(passed) /\ DOMAIN passed = 1 .. N
  BY <1>4
<1>6. recs = [ i \in 1 .. N |-> [row |-> passed[i], text |-> passed[i].text, order |-> i - 1] ]
  BY <1>2, <1>5 DEF Records
<1>7. DOMAIN recs = 1 .. N
      /\ \A i \in 1 .. N : recs[i].row = passed[i] /\ recs[i].text = passed[i].text /\ recs[i].order = i - 1
  BY <1>6
<1>8. recs \in Seq(Range(recs))
  <2>1. \A i \in 1 .. N : recs[i] \in Range(recs)
    BY <1>7 DEF Range
  <2>2. recs = [i \in 1 .. N |-> recs[i]]
    BY <1>6
  <2>3. QED
    BY <2>1, <2>2
<1>9. \A i \in DOMAIN recs : \E p \in places : Rank(places, p) = i /\ passed[i] = qs[p]
  BY <1>4, <1>5, <1>7
<1>10. ASSUME NEW i \in DOMAIN recs
       PROVE  \E p \in DOMAIN qs :
                /\ recs[i].row = qs[p] /\ recs[i].text = qs[p].text /\ recs[i].order = i - 1
                /\ qs[p].text \notin existing \cup TooShort
  BY <1>1, <1>7, <1>9
<1>11. ASSUME NEW i \in DOMAIN recs, NEW j \in DOMAIN recs, i # j
       PROVE  \E p, q \in DOMAIN qs : p # q /\ recs[i].row = qs[p] /\ recs[i].text = qs[p].text
                                            /\ recs[j].row = qs[q] /\ recs[j].text = qs[q].text
  <2>1. PICK p \in places : Rank(places, p) = i /\ passed[i] = qs[p]
    BY <1>9
  <2>2. PICK q \in places : Rank(places, q) = j /\ passed[j] = qs[q]
    BY <1>9
  <2>3. p # q
    BY <1>11, <2>1, <2>2
  <2>4. QED
    BY <1>1, <1>7, <2>1, <2>2, <2>3
<1>12. QED
  BY <1>8, <1>10, <1>11 DEF AreOf

LEMMA StoreKeeps == ASSUME PrepInv, StoreQuestions PROVE PrepInv'
<1>1. /\ making = "store" /\ making' = "stored"
      /\ rows' = (IF anew THEN <<>> ELSE rows) \o Records(chosen, Texts(rows))
      /\ UNCHANGED <<about, anew, bank, chosen, written, inHand>>
  BY DEF StoreQuestions
<1>2. /\ Kept(chosen, inHand.drafts) /\ chosen \in Seq(Range(chosen)) /\ rows = inHand.rows
      /\ (rows = <<>> \/ anew) /\ \A i \in DOMAIN chosen : AnswerStands(chosen[i])
  BY <1>1 DEF PrepInv, Kept
<1>3. PICK existing : existing = Texts(inHand.rows)
  OBVIOUS
<1>4. PICK recs : recs = Records(chosen, existing)
  OBVIOUS
<1>5. /\ recs \in Seq(Range(recs))
      /\ \A i \in DOMAIN recs : \E p \in DOMAIN chosen :
           /\ recs[i].row = chosen[p] /\ recs[i].text = chosen[p].text /\ recs[i].order = i - 1
           /\ chosen[p].text \notin existing \cup TooShort
      /\ \A i, j \in DOMAIN recs : i # j =>
           \E p, q \in DOMAIN chosen : p # q /\ recs[i].row = chosen[p] /\ recs[i].text = chosen[p].text
                                            /\ recs[j].row = chosen[q] /\ recs[j].text = chosen[q].text
  <2>1. AreOf(recs, chosen, existing)
    BY <1>2, <1>4, RecordsFit
  <2>2. QED
    BY <2>1 DEF AreOf
<1>6. rows' = recs
  <2>1. rows' = <<>> \o recs
    BY <1>1, <1>2, <1>3, <1>4
  <2>2. QED
    BY <1>5, <2>1
<1>7. ASSUME NEW i \in DOMAIN recs
      PROVE  /\ recs[i].order = i - 1
             /\ recs[i].row.answer.to \in {recs[i].text, "nothing"}
             /\ recs[i].row.type # "technical" /\ recs[i].row.grounded
                  => recs[i].row.answer.figures \cup recs[i].row.answer.others \subseteq Known
             /\ recs[i].text \notin existing \cup TooShort
             /\ recs[i].row.by = "bank" =>
                  \A d \in Range(OfType(inHand.drafts, recs[i].row.type)) :
                    \E j \in DOMAIN chosen : Similar(chosen[j].text, d.text)
  <2>1. PICK p \in DOMAIN chosen :
          /\ recs[i].row = chosen[p] /\ recs[i].text = chosen[p].text /\ recs[i].order = i - 1
          /\ chosen[p].text \notin existing \cup TooShort
    BY <1>5
  <2>2. AnswerStands(chosen[p])
    BY <1>2
  <2>3. BankLast(chosen, inHand.drafts)
    BY <1>2 DEF Kept
  <2>4. recs[i].row.by = "bank" =>
          \A d \in Range(OfType(inHand.drafts, recs[i].row.type)) :
            \E j \in DOMAIN chosen : Similar(chosen[j].text, d.text)
    BY <2>1, <2>3 DEF BankLast
  <2>5. QED
    BY <2>1, <2>2, <2>4 DEF AnswerStands
<1>8. ASSUME NEW i \in DOMAIN recs, NEW j \in DOMAIN recs, i # j, Similar(recs[i].text, recs[j].text)
      PROVE  recs[i].row.type # recs[j].row.type /\ "code" \notin {recs[i].row.by, recs[j].row.by}
  <2>1. PICK p \in DOMAIN chosen, q \in DOMAIN chosen :
          p # q /\ recs[i].row = chosen[p] /\ recs[i].text = chosen[p].text
                /\ recs[j].row = chosen[q] /\ recs[j].text = chosen[q].text
    BY <1>5, <1>8
  <2>2. Similar(chosen[p].text, chosen[q].text)
    BY <1>8, <2>1
  <2>3. chosen[p].type # chosen[q].type /\ "code" \notin {chosen[p].by, chosen[q].by}
    BY <1>2, <2>1, <2>2 DEF Kept
  <2>4. QED
    BY <2>1, <2>3
<1>9. AnswersFit'
  <2>1. inHand' = inHand /\ chosen' = chosen /\ existing = Texts(inHand'.rows)
    BY <1>1, <1>3
  <2>2. QED
    BY <1>6, <1>7, <1>8, <2>1 DEF AnswersFit
<1>10. QED
  BY <1>1, <1>2, <1>9 DEF PrepInv

\* Whatever the bank holds and the model writes, an answer is stored with the question it was
\* written for and is called grounded only if it is; the rows of a generation are numbered
\* without a gap, repeat nothing from before and hold no two alike of a kind.
THEOREM AnswersFitCorrect == PreparedSpec => []AnswersFit
<1>1. PrepInv /\ [PreparedNext]_preparedVars => PrepInv'
  <2> SUFFICES ASSUME PrepInv, [PreparedNext]_preparedVars PROVE PrepInv'
    OBVIOUS
  <2>1. CASE Merge
    BY <2>1, MergePreserves
  <2>2. CASE Attach
    BY <2>2, AttachKeeps
  <2>3. CASE StoreQuestions
    BY <2>3, StoreKeeps
  <2>4. ASSUME NEW drafts \in Drafts, NEW code \in CodeDrafts, AskModel(drafts, code) PROVE PrepInv'
    BY <2>4, AskModelKeeps
  <2>5. ASSUME NEW star \in Written, NEW technical \in Written, AskForAnswers(star, technical) PROVE PrepInv'
    BY <2>5, AskForAnswersKeeps
  <2>6. CASE UNCHANGED preparedVars
    <3>1. /\ making' = making /\ about' = about /\ rows' = rows /\ anew' = anew /\ bank' = bank
          /\ chosen' = chosen /\ written' = written /\ inHand' = inHand
      BY <2>6 DEF preparedVars
    <3>2. AnswersFit' = AnswersFit
      BY <3>1 DEF AnswersFit
    <3>3. QED
      BY <3>1, <3>2 DEF PrepInv
  <2>7. QED
    BY <2>1, <2>2, <2>3, <2>4, <2>5, <2>6, ContextKeeps DEF PreparedNext
<1>2. PrepInv => AnswersFit
  BY DEF PrepInv
<1>3. QED
  BY <1>1, <1>2, PreparedStarts, PTL DEF PreparedSpec

-----------------------------------------------------------------------------
(* The text of a job description *)

\* Two lists in a row.
LEMMA ListsJoin ==
  ASSUME NEW a, IsList(a), NEW b, IsList(b), NEW both, both = a \o b
  PROVE  /\ IsList(both) /\ Len(a) \in Nat /\ Len(b) \in Nat
         /\ DOMAIN a = 1 .. Len(a) /\ DOMAIN b = 1 .. Len(b)
         /\ DOMAIN both = 1 .. Len(a) + Len(b)
         /\ \A i \in 1 .. Len(a) : both[i] = a[i]
         /\ \A i \in 1 .. Len(b) : both[Len(a) + i] = b[i]
<1> DEFINE S == { a[i] : i \in DOMAIN a } \cup { b[i] : i \in DOMAIN b }
<1>1. a \in Seq(S) /\ b \in Seq(S)
  <2>1. a \in Seq({ a[i] : i \in DOMAIN a }) /\ b \in Seq({ b[i] : i \in DOMAIN b })
    BY DEF IsList
  <2>2. (\A i \in 1 .. Len(a) : a[i] \in S) /\ (\A i \in 1 .. Len(b) : b[i] \in S)
    BY <2>1
  <2>3. QED
    BY <2>1, <2>2
<1> HIDE DEF S
<1>2. PICK m \in Nat : m = Len(a)
  BY <1>1
<1>3. PICK n \in Nat : n = Len(b)
  BY <1>1
<1>4. /\ both \in Seq(S) /\ Len(both) = m + n
      /\ \A i \in 1 .. m : both[i] = a[i]
      /\ \A i \in 1 .. n : both[m + i] = b[i]
  BY <1>1, <1>2, <1>3
<1>5. both = [i \in 1 .. m + n |-> both[i]]
  <2>1. PICK k \in Nat : k = m + n
    OBVIOUS
  <2>2. both \in Seq(S) /\ Len(both) = k
    BY <1>4, <2>1
  <2>3. both \in [1 .. k -> S]
    BY <2>2, LenProperties
  <2>3a. both = [i \in 1 .. k |-> both[i]]
    BY <2>3
  <2>4. QED
    BY <2>1, <2>3a
<1>6. IsList(both)
  BY <1>2, <1>3, <1>5, AList
<1>7. QED
  BY <1>1, <1>2, <1>3, <1>4, <1>6

\* What a label reads in two texts, one behind the other: what it reads in the second, if anything.
LEMMA SecondCounts ==
  ASSUME NEW a, IsList(a), NEW b, IsList(b), NEW label, NEW none
  PROVE  /\ Labelled(a \o b, label) <=> Labelled(a, label) \/ Labelled(b, label)
         /\ Parsed(a \o b, label, none) =
              IF Labelled(b, label) THEN Parsed(b, label, none) ELSE Parsed(a, label, none)
<1>1. PICK both : both = a \o b
  OBVIOUS
<1>2. PICK m \in Nat : m = Len(a)
  BY ListsJoin
<1>3. PICK n \in Nat : n = Len(b)
  BY ListsJoin
<1>4. /\ DOMAIN a = 1 .. m /\ DOMAIN b = 1 .. n /\ DOMAIN both = 1 .. m + n
      /\ \A i \in 1 .. m : both[i] = a[i]
      /\ \A i \in 1 .. n : both[m + i] = b[i]
  BY <1>1, <1>2, <1>3, ListsJoin
<1> DEFINE At(lines) == { i \in DOMAIN lines : lines[i].label = label }
<1> DEFINE Latest(lines) == CHOOSE i \in At(lines) : \A j \in At(lines) : j <= i
<1>5. ASSUME NEW i \in 1 .. m PROVE i \in 1 .. m + n /\ both[i] = a[i]
  BY <1>4
<1>6. ASSUME NEW i \in 1 .. n PROVE m + i \in 1 .. m + n /\ both[m + i] = b[i]
  BY <1>4
<1>7. ASSUME NEW i \in 1 .. m + n, i \notin 1 .. m PROVE i - m \in 1 .. n /\ i = m + (i - m)
  BY <1>7
<1>8. ASSUME NEW i \in At(both) PROVE i \in At(a) \/ (i - m \in At(b) /\ i = m + (i - m))
  BY <1>4, <1>5, <1>6, <1>7
<1>9. (\A i \in At(a) : i \in At(both)) /\ (\A i \in At(b) : m + i \in At(both))
  BY <1>4, <1>5, <1>6
<1>10. \A lines : Labelled(lines, label) <=> At(lines) # {}
  BY DEF Labelled
<1>11. \A lines : Parsed(lines, label, none) = IF At(lines) = {} THEN none ELSE lines[Latest(lines)].value
  BY DEF Parsed
<1>12. (\A i \in At(a) : i \in 1 .. m) /\ (\A i \in At(b) : i \in 1 .. n) /\ (\A i \in At(both) : i \in 1 .. m + n)
  BY <1>4
<1> HIDE DEF At
<1>13. Labelled(both, label) <=> Labelled(a, label) \/ Labelled(b, label)
  BY <1>8, <1>9, <1>10
<1>14. CASE At(b) # {}
  <2>1. At(b) \in SUBSET (0 .. n)
    BY <1>12
  <2>2. \E i \in At(b) : \A j \in At(b) : j <= i
    BY <1>14, <2>1, GreatestElement
  <2>3. PICK l : l = Latest(b)
    OBVIOUS
  <2>4. l \in At(b) /\ \A j \in At(b) : j <= l
    BY <2>2, <2>3
  <2>5. m + l \in At(both) /\ \A j \in At(both) : j <= m + l
    <3>1. m + l \in At(both) /\ l \in 1 .. n
      BY <1>9, <1>12, <2>4
    <3>2. ASSUME NEW j \in At(both) PROVE j <= m + l
      <4>1. CASE j \in At(a)
        BY <1>12, <3>1, <4>1
      <4>2. CASE j - m \in At(b) /\ j = m + (j - m)
        <5>1. PICK k : k = j - m
          OBVIOUS
        <5>2. k \in 1 .. n /\ k <= l /\ j = m + k
          BY <1>12, <2>4, <4>2, <5>1
        <5>3. QED
          BY <3>1, <5>2
      <4>3. QED
        BY <1>8, <3>2, <4>1, <4>2
    <3>3. QED
      BY <3>1, <3>2
  <2>6. PICK h : h = Latest(both)
    OBVIOUS
  <2>7. h \in At(both) /\ \A j \in At(both) : j <= h
    BY <2>5, <2>6
  <2>8. h = m + l
    <3>1. h <= m + l /\ m + l <= h /\ h \in Int /\ l \in Int
      BY <1>12, <2>4, <2>5, <2>7
    <3>2. QED
      BY <3>1
  <2>9. both[h] = b[l]
    BY <1>6, <1>12, <2>4, <2>8
  <2>10. Parsed(both, label, none) = both[h].value /\ Parsed(b, label, none) = b[l].value
    BY <1>11, <1>14, <2>3, <2>5, <2>6
  <2>11. QED
    BY <1>1, <1>10, <1>13, <1>14, <2>9, <2>10
<1>15. CASE At(b) = {}
  <2>1. At(both) = At(a)
    BY <1>8, <1>9, <1>15
  <2>2. CASE At(a) = {}
    BY <1>1, <1>10, <1>11, <1>13, <1>15, <2>1, <2>2
  <2>3. CASE At(a) # {}
    <3>1. At(a) \in SUBSET (0 .. m)
      BY <1>12
    <3>2. \E i \in At(a) : \A j \in At(a) : j <= i
      BY <2>3, <3>1, GreatestElement
    <3>3. PICK l : l = Latest(a)
      OBVIOUS
    <3>4. l \in At(a)
      BY <3>2, <3>3
    <3>5. Latest(both) = l
      BY <2>1, <3>3
    <3>6. both[l] = a[l]
      BY <1>5, <1>12, <3>4
    <3> HIDE DEF Latest
    <3>7. QED
      BY <1>1, <1>10, <1>11, <1>13, <1>15, <2>1, <2>3, <3>3, <3>5, <3>6
  <2>4. QED
    BY <2>2, <2>3
<1>16. QED
  BY <1>14, <1>15

\* A label reads the same in two texts.
ReadAlike(a, b, label, none) ==
  (Labelled(a, label) <=> Labelled(b, label)) /\ Parsed(a, label, none) = Parsed(b, label, none)

\* What a label reads: what it reads in the free text, if anything, or else this value.
Reads(lines, free, label, none, value) ==
  Parsed(lines, label, none) = IF Labelled(free, label) THEN Parsed(free, label, none) ELSE value

\* This goes on from part to part of the text.
LEMMA ReadsOn ==
  ASSUME NEW lines, NEW free, NEW more, NEW moreFree, NEW label, NEW none, NEW value,
         IsList(lines), IsList(free), IsList(more), IsList(moreFree),
         Reads(lines, free, label, none, value), ReadAlike(more, moreFree, label, none)
  PROVE  Reads(lines \o more, free \o moreFree, label, none, value)
<1>1. Parsed(lines \o more, label, none) =
        IF Labelled(more, label) THEN Parsed(more, label, none) ELSE Parsed(lines, label, none)
  BY SecondCounts
<1>2. /\ Labelled(free \o moreFree, label) <=> Labelled(free, label) \/ Labelled(moreFree, label)
      /\ Parsed(free \o moreFree, label, none) =
           IF Labelled(moreFree, label) THEN Parsed(moreFree, label, none) ELSE Parsed(free, label, none)
  BY SecondCounts
<1>3. QED
  BY <1>1, <1>2 DEF Reads, ReadAlike

\* Nothing reads nothing.
LEMMA NothingReads ==
  ASSUME NEW label, NEW none
  PROVE  IsList(<<>>) /\ ~Labelled(<<>>, label) /\ Parsed(<<>>, label, none) = none
<1>1. DOMAIN <<>> = {} /\ <<>> \in Seq({})
  OBVIOUS
<1>2. { <<>>[i] : i \in DOMAIN <<>> } = {}
  BY <1>1
<1>3. IsList(<<>>)
  BY <1>1, <1>2 DEF IsList
<1>4. ~Labelled(<<>>, label)
  BY <1>1 DEF Labelled
<1>5. Parsed(<<>>, label, none) = none
  BY <1>1 DEF Parsed
<1>6. QED
  BY <1>3, <1>4, <1>5

\* A line reads its value under its label, and nothing under any other.
LEMMA LineReads ==
  ASSUME NEW label, NEW own, NEW value, NEW none, NEW line, line = <<[label |-> own, value |-> value]>>
  PROVE  /\ IsList(line)
         /\ Labelled(line, label) <=> own = label
         /\ Parsed(line, label, none) = IF own = label THEN value ELSE none
<1>1. IsList(line)
  BY OneIsList
<1>2. DOMAIN line = {1} /\ line[1].label = own /\ line[1].value = value
  <2>1. PICK rec : rec = [label |-> own, value |-> value]
    OBVIOUS
  <2>2. line = <<rec>> /\ rec.label = own /\ rec.value = value
    BY <2>1
  <2>3. QED
    BY <2>2
<1>3. Labelled(line, label) <=> own = label
  BY <1>2 DEF Labelled
<1> DEFINE places == { i \in DOMAIN line : line[i].label = label }
<1>4. CASE own = label
  <2>1. places = {1}
    BY <1>2, <1>4
  <2>2. (CHOOSE i \in places : \A j \in places : j <= i) = 1
    BY <2>1
  <2>3. Parsed(line, label, none) = line[1].value
    BY <2>1, <2>2 DEF Parsed
  <2>4. QED
    BY <1>1, <1>2, <1>3, <1>4, <2>3
<1>5. CASE own # label
  <2>1. places = {}
    BY <1>2, <1>5
  <2>2. Parsed(line, label, none) = none
    BY <2>1 DEF Parsed
  <2>3. QED
    BY <1>1, <1>3, <1>5, <2>2
<1>6. QED
  BY <1>4, <1>5

\* A line that may be missing.
LEMMA MaybeLine ==
  ASSUME NEW label, NEW own, NEW value, NEW none
  PROVE  /\ IsList(Line(own, value))
         /\ Labelled(Line(own, value), label) <=> own = label /\ value # Empty
         /\ Parsed(Line(own, value), label, none) = IF own = label /\ value # Empty THEN value ELSE none
<1>1. CASE value = Empty
  BY <1>1, NothingReads DEF Line
<1>2. CASE value # Empty
  <2>1. PICK line : line = <<[label |-> own, value |-> value]>>
    OBVIOUS
  <2>2. Line(own, value) = line
    BY <1>2, <2>1 DEF Line
  <2>3. QED
    BY <1>2, <2>1, <2>2, LineReads
<1>3. QED
  BY <1>1, <1>2

\* What a text of several lines has behind its first.
Behind(v) == IF v = Empty THEN <<>> ELSE Tail(v)

\* What follows the first item of a list is a list.
LEMMA RestIsList ==
  ASSUME NEW v, IsList(v), v # <<>>
  PROVE  /\ IsList(Tail(v)) /\ 1 \in DOMAIN v /\ Head(v) = v[1]
         /\ \A k \in DOMAIN Tail(v) : \E j \in DOMAIN v : Tail(v)[k] = v[j]
<1>1. PICK S : S = { v[i] : i \in DOMAIN v }
  OBVIOUS
<1>2. v \in Seq(S)
  BY <1>1 DEF IsList
<1>3. PICK t : t = Tail(v)
  OBVIOUS
<1>4. t \in Seq(S)
  BY <1>2, <1>3
<1>5. PICK n \in Nat : n = Len(t)
  BY <1>4
<1>6. t \in [1 .. n -> S]
  BY <1>4, <1>5, LenProperties
<1>7. t = [i \in 1 .. n |-> t[i]]
  BY <1>6
<1>8. IsList(t) /\ DOMAIN t = 1 .. n
  BY <1>5, <1>7, AList
<1>9. \A k \in DOMAIN t : t[k] \in S
  BY <1>6
<1>10. PICK m \in Nat : m = Len(v)
  BY <1>2
<1>11. DOMAIN v = 1 .. m /\ m # 0 /\ Head(v) = v[1]
  BY <1>2, <1>10
<1>12. QED
  BY <1>1, <1>3, <1>8, <1>9, <1>11

\* Such a text is alike to what it has behind its first line, for every other label.
LEMMA SeveralLines ==
  ASSUME NEW own, NEW v, NEW label, label # own, NEW none, v = Empty \/ (IsList(v) /\ v # <<>>)
  PROVE  IsList(Lines(own, v)) /\ IsList(Behind(v)) /\ ReadAlike(Lines(own, v), Behind(v), label, none)
<1>1. CASE v = Empty
  BY <1>1, NothingReads DEF Lines, Behind, ReadAlike
<1>2. CASE v # Empty
  <2>1. PICK line : line = <<[label |-> own, value |-> Head(v)]>>
    OBVIOUS
  <2>2. PICK t : t = Tail(v)
    OBVIOUS
  <2>3. Lines(own, v) = line \o t /\ Behind(v) = t
    BY <1>2, <2>1, <2>2 DEF Lines, Behind
  <2>4. IsList(t)
    BY <1>2, <2>2, RestIsList
  <2>5. IsList(line) /\ ~Labelled(line, label) /\ Parsed(line, label, none) = none
    BY <2>1, LineReads
  <2>6. IsList(line \o t)
    <3>1. PICK both : both = line \o t
      OBVIOUS
    <3>2. QED
      BY <2>4, <2>5, <3>1, ListsJoin
  <2>7. /\ Labelled(line \o t, label) <=> Labelled(t, label)
        /\ Parsed(line \o t, label, none) = IF Labelled(t, label) THEN Parsed(t, label, none) ELSE none
    BY <2>4, <2>5, SecondCounts
  <2>8. ~Labelled(t, label) => Parsed(t, label, none) = none
    BY DEF Labelled, Parsed
  <2>9. QED
    BY <2>3, <2>4, <2>6, <2>7, <2>8 DEF ReadAlike
<1>3. QED
  BY <1>1, <1>2

\* The lines for the three values that are selected.
Selected(s) ==
  Line("category", s.category) \o Line("level", s.level)
    \o (IF Techniques(s) = <<>> THEN <<>> ELSE Line("techs", Techniques(s)))

\* What a label of these reads there.
Chosen(s, label) ==
  CASE label = "category" -> s.category
    [] label = "level" -> s.level
    [] OTHER -> Techniques(s)

NoneOf(label) == IF label = "techs" THEN <<>> ELSE Empty

LEMMA SelectedReads ==
  ASSUME NEW s, SentAs(s), NEW label \in {"category", "level", "techs"}
  PROVE  IsList(Selected(s)) /\ Reads(Selected(s), <<>>, label, NoneOf(label), Chosen(s, label))
<1>1. PICK none : none = NoneOf(label)
  OBVIOUS
<1>2. PICK c : c = Line("category", s.category)
  OBVIOUS
<1>3. PICK l : l = Line("level", s.level)
  OBVIOUS
<1>4. PICK t : t = IF Techniques(s) = <<>> THEN <<>> ELSE Line("techs", Techniques(s))
  OBVIOUS
<1>5. PICK cl : cl = c \o l
  OBVIOUS
<1>6. PICK all : all = cl \o t
  OBVIOUS
<1>7. Selected(s) = all
  BY <1>2, <1>3, <1>4, <1>5, <1>6 DEF Selected
<1>8. /\ IsList(c) /\ (Labelled(c, label) <=> "category" = label /\ s.category # Empty)
      /\ Parsed(c, label, none) = IF "category" = label /\ s.category # Empty THEN s.category ELSE none
  <2>1. PICK v : v = s.category
    OBVIOUS
  <2>2. c = Line("category", v)
    BY <1>2, <2>1
  <2>3. QED
    BY <2>1, <2>2, MaybeLine
<1>9. /\ IsList(l) /\ (Labelled(l, label) <=> "level" = label /\ s.level # Empty)
      /\ Parsed(l, label, none) = IF "level" = label /\ s.level # Empty THEN s.level ELSE none
  BY <1>3, MaybeLine
<1>10. /\ IsList(t) /\ (Labelled(t, label) <=> "techs" = label /\ Techniques(s) # <<>>)
       /\ Parsed(t, label, none) = IF "techs" = label /\ Techniques(s) # <<>> THEN Techniques(s) ELSE none
  <2>1. CASE Techniques(s) = <<>>
    BY <1>4, <2>1, NothingReads
  <2>2. CASE Techniques(s) # <<>>
    <3>1. Techniques(s) # Empty
      BY <2>2 DEF SentAs
    <3>2. t = Line("techs", Techniques(s))
      BY <1>4, <2>2
    <3>3. QED
      BY <2>2, <3>1, <3>2, MaybeLine
  <2>3. QED
    BY <2>1, <2>2
<1>11. /\ IsList(cl) /\ (Labelled(cl, label) <=> Labelled(c, label) \/ Labelled(l, label))
       /\ Parsed(cl, label, none) = IF Labelled(l, label) THEN Parsed(l, label, none) ELSE Parsed(c, label, none)
  <2>1. IsList(cl)
    BY <1>5, <1>8, <1>9, ListsJoin
  <2>2. /\ Labelled(cl, label) <=> Labelled(c, label) \/ Labelled(l, label)
        /\ Parsed(cl, label, none) = IF Labelled(l, label) THEN Parsed(l, label, none) ELSE Parsed(c, label, none)
    BY <1>5, <1>8, <1>9, SecondCounts
  <2>3. QED
    BY <2>1, <2>2
<1>12. /\ IsList(all)
       /\ Parsed(all, label, none) = IF Labelled(t, label) THEN Parsed(t, label, none) ELSE Parsed(cl, label, none)
  <2>1. IsList(all)
    BY <1>6, <1>10, <1>11, ListsJoin
  <2>2. /\ Labelled(all, label) <=> Labelled(cl, label) \/ Labelled(t, label)
        /\ Parsed(all, label, none) = IF Labelled(t, label) THEN Parsed(t, label, none) ELSE Parsed(cl, label, none)
    BY <1>6, <1>10, <1>11, SecondCounts
  <2>3. QED
    BY <2>1, <2>2
<1>13. Parsed(all, label, none) = Chosen(s, label)
  <2>1. CASE label = "category"
    BY <1>1, <1>8, <1>9, <1>10, <1>11, <1>12, <2>1 DEF Chosen, NoneOf
  <2>2. CASE label = "level"
    BY <1>1, <1>8, <1>9, <1>10, <1>11, <1>12, <2>2 DEF Chosen, NoneOf
  <2>3. CASE label = "techs"
    BY <1>1, <1>8, <1>9, <1>10, <1>11, <1>12, <2>3 DEF Chosen, NoneOf
  <2>4. QED
    BY <2>1, <2>2, <2>3
<1>14. ~Labelled(<<>>, label)
  BY NothingReads
<1>15. QED
  BY <1>1, <1>7, <1>12, <1>13, <1>14 DEF Reads

\* One part more: what is read and that both sides are lists.
LEMMA PartReads ==
  ASSUME NEW lines, NEW free, NEW own, NEW v, NEW label, NEW none, NEW value, label # own,
         IsList(lines), IsList(free), Reads(lines, free, label, none, value),
         v = Empty \/ (IsList(v) /\ v # <<>>)
  PROVE  /\ IsList(lines \o Lines(own, v)) /\ IsList(free \o Behind(v))
         /\ Reads(lines \o Lines(own, v), free \o Behind(v), label, none, value)
<1>1. IsList(Lines(own, v)) /\ IsList(Behind(v)) /\ ReadAlike(Lines(own, v), Behind(v), label, none)
  BY SeveralLines
<1>2. PICK a : a = Lines(own, v)
  OBVIOUS
<1>3. PICK b : b = Behind(v)
  OBVIOUS
<1>4. IsList(a) /\ IsList(b) /\ ReadAlike(a, b, label, none)
  BY <1>1, <1>2, <1>3
<1>5. Reads(lines \o a, free \o b, label, none, value)
  BY <1>4, ReadsOn
<1>6. IsList(lines \o a) /\ IsList(free \o b)
  BY <1>4, ListsJoin
<1>7. QED
  BY <1>2, <1>3, <1>5, <1>6

\* The text that is stored for a selection.
Stored(s) == Build(s) \o Original(s)

\* What a label reads there: what the free text says, or what was selected.
LEMMA StoredReads ==
  ASSUME NEW s, SentAs(s), NEW label \in {"category", "level", "techs"}
  PROVE  IsList(Stored(s)) /\ Reads(Stored(s), FreeText(s), label, NoneOf(label), Chosen(s, label))
<1> DEFINE none == NoneOf(label)
<1> DEFINE value == Chosen(s, label)
<1> DEFINE l0 == Selected(s)
<1> DEFINE l1 == l0 \o Lines("tasks", s.tasks)
<1> DEFINE l2 == l1 \o Lines("requirements", s.requirements)
<1> DEFINE l3 == l2 \o Lines("preferences", s.preferences)
<1> DEFINE l4 == l3 \o Lines("remark", s.remark)
<1> DEFINE f1 == <<>> \o Behind(s.tasks)
<1> DEFINE f2 == f1 \o Behind(s.requirements)
<1> DEFINE f3 == f2 \o Behind(s.preferences)
<1> DEFINE f4 == f3 \o Behind(s.remark)
<1> DEFINE o == Original(s)
<1> DEFINE text5 == l4 \o o
<1> DEFINE free5 == f4 \o o
<1>1. Stored(s) = text5
  BY DEF Stored, Build, Selected
<1>2. /\ s.tasks = Empty \/ (IsList(s.tasks) /\ s.tasks # <<>>)
      /\ s.requirements = Empty \/ (IsList(s.requirements) /\ s.requirements # <<>>)
      /\ s.preferences = Empty \/ (IsList(s.preferences) /\ s.preferences # <<>>)
      /\ s.remark = Empty \/ (IsList(s.remark) /\ s.remark # <<>>)
  <2>1. \A field \in {"tasks", "requirements", "preferences", "remark"} :
          s[field] = Empty \/ (IsList(s[field]) /\ s[field] # <<>>)
    BY DEF SentAs
  <2>2. QED
    BY <2>1
<1>3. label # "tasks" /\ label # "requirements" /\ label # "preferences" /\ label # "remark"
  OBVIOUS
<1>4. FreeText(s) = free5
  <2>1. IsList(Behind(s.tasks))
    BY <1>2, <1>3, SeveralLines
  <2>2. <<>> \o Behind(s.tasks) = Behind(s.tasks)
    <3>1. PICK b : b = Behind(s.tasks)
      OBVIOUS
    <3>2. PICK S : S = { b[i] : i \in DOMAIN b }
      OBVIOUS
    <3>3. b \in Seq(S)
      BY <2>1, <3>1, <3>2 DEF IsList
    <3>4. <<>> \o b = b
      BY <3>3
    <3>5. QED
      BY <3>1, <3>4
  <2>3. QED
    BY <2>2 DEF FreeText, Behind
<1>5. IsList(l0) /\ IsList(<<>>) /\ Reads(l0, <<>>, label, none, value)
  BY SelectedReads, NothingReads
<1> HIDE DEF none, value, l0
<1>6. IsList(l1) /\ IsList(f1) /\ Reads(l1, f1, label, none, value)
  BY <1>2, <1>3, <1>5, PartReads
<1> HIDE DEF l1, f1
<1>7. IsList(l2) /\ IsList(f2) /\ Reads(l2, f2, label, none, value)
  BY <1>2, <1>3, <1>6, PartReads
<1> HIDE DEF l2, f2
<1>8. IsList(l3) /\ IsList(f3) /\ Reads(l3, f3, label, none, value)
  BY <1>2, <1>3, <1>7, PartReads
<1> HIDE DEF l3, f3
<1>9. IsList(l4) /\ IsList(f4) /\ Reads(l4, f4, label, none, value)
  BY <1>2, <1>3, <1>8, PartReads
<1> HIDE DEF l4, f4
<1>10. IsList(o)
  BY NothingReads DEF SentAs, Original
<1> HIDE DEF o
<1>11. IsList(text5) /\ Reads(text5, free5, label, none, value)
  <2>1. ReadAlike(o, o, label, none)
    BY DEF ReadAlike
  <2>2. Reads(text5, free5, label, none, value)
    BY <1>9, <1>10, <2>1, ReadsOn
  <2>3. IsList(text5)
    BY <1>9, <1>10, ListsJoin
  <2>4. QED
    BY <2>2, <2>3
<1> HIDE DEF text5, free5
<1>12. QED
  BY <1>1, <1>4, <1>11 DEF none, value

\* The text is the one of the request that is remembered.
TextInv == SentAs(last) /\ text = Stored(last)

\* A request that sends nothing has sent nothing missing.
LEMMA NothingSent == SentAs(Nothing) /\ Techniques(Nothing) = <<>> /\ Stored(Nothing) = <<>>
<1>1. /\ Nothing.category = Empty /\ Nothing.level = Empty /\ Nothing.techs = <<>>
      /\ Nothing.customTechs = <<>> /\ Nothing.tasks = Empty /\ Nothing.requirements = Empty
      /\ Nothing.preferences = Empty /\ Nothing.remark = Empty /\ Nothing.original = Empty
  BY DEF Nothing
<1>2. Techniques(Nothing) = <<>>
  <2>1. <<>> \o <<>> = <<>> /\ Len(<<>>) = 0
    OBVIOUS
  <2>2. QED
    BY <1>1, <2>1 DEF Techniques, FlattenSeq
<1>3. SentAs(Nothing)
  BY <1>1, <1>2 DEF SentAs
<1>4. Stored(Nothing) = <<>>
  <2>1. <<>> \o <<>> = <<>>
    OBVIOUS
  <2>2. QED
    BY <1>1, <1>2, <2>1 DEF Stored, Build, Original, Line, Lines
<1>5. QED
  BY <1>2, <1>3, <1>4

\* TextInv holds at the start and is kept.
LEMMA TextKept ==
  /\ TextInit => TextInv
  /\ TextInv /\ [TextNext]_textVars => TextInv'
<1>1. TextInit => TextInv
  BY NothingSent DEF TextInit, TextInv
<1>2. ASSUME TextInv, [TextNext]_textVars PROVE TextInv'
  <2>1. ASSUME NEW s, SentAs(s), SaveText(s) PROVE TextInv'
    <3>1. CASE Build(s) # <<>> \/ s.original # Empty
      <4>1. text' = Stored(s) /\ last' = s
        BY <2>1, <3>1 DEF SaveText, Stored
      <4>2. QED
        BY <2>1, <4>1 DEF TextInv
    <3>2. CASE ~(Build(s) # <<>> \/ s.original # Empty)
      <4>1. text' = text /\ last' = last
        BY <2>1, <3>2 DEF SaveText
      <4>2. QED
        BY <1>2, <4>1 DEF TextInv
    <3>3. QED
      BY <3>1, <3>2
  <2>2. ASSUME NEW s \in Selection, CreateText(s) PROVE TextInv'
    BY <2>1, <2>2, SelectionAssumption DEF CreateText
  <2>3. ASSUME NEW s \in Selection, NEW resend \in BOOLEAN, PatchText(s, resend) PROVE TextInv'
    <3>1. PICK sent : sent = IF resend THEN [s EXCEPT !.original = text] ELSE s
      OBVIOUS
    <3>2. SentAs(s)
      BY SelectionAssumption
    <3>3. IsList(text)
      BY <1>2, StoredReads DEF TextInv
    <3>4. SentAs(sent)
      <4>1. CASE resend
        <5>1. sent = [s EXCEPT !.original = text]
          BY <3>1, <4>1
        <5>2. DOMAIN s = DOMAIN Nothing
          BY <3>2 DEF SentAs
        <5>3. DOMAIN Nothing = {"category", "level", "techs", "customTechs", "tasks", "requirements",
                                "preferences", "remark", "customKeywords", "original"}
          BY DEF Nothing
        <5>4. /\ DOMAIN sent = DOMAIN s /\ sent.original = text
              /\ \A field \in {"tasks", "requirements", "preferences", "remark"} : sent[field] = s[field]
              /\ sent.techs = s.techs /\ sent.customTechs = s.customTechs
          BY <5>1, <5>2, <5>3
        <5>5. Techniques(sent) = Techniques(s)
          BY <5>4 DEF Techniques
        <5>6. QED
          BY <3>2, <3>3, <5>4, <5>5 DEF SentAs
      <4>2. CASE ~resend
        BY <3>1, <3>2, <4>2
      <4>3. QED
        BY <4>1, <4>2
    <3>5. SaveText(sent)
      BY <2>3, <3>1 DEF PatchText
    <3>6. QED
      BY <2>1, <3>4, <3>5
  <2>4. CASE UNCHANGED textVars
    BY <1>2, <2>4 DEF TextInv, textVars
  <2>5. QED
    BY <1>2, <2>2, <2>3, <2>4 DEF TextNext
<1>3. QED
  BY <1>1, <1>2

\* TextInv says that the card shows the selection.
LEMMA TextSays == TextInv => CardShowsSelection
<1> SUFFICES ASSUME TextInv PROVE CardShowsSelection
  OBVIOUS
<1>1. ASSUME NEW label \in {"category", "level", "techs"}
      PROVE Reads(text, FreeText(last), label, NoneOf(label), Chosen(last, label))
  BY StoredReads DEF TextInv
<1>2. PICK free : free = FreeText(last)
  OBVIOUS
<1>3. Parsed(text, "category", Empty) =
        IF Labelled(free, "category") THEN Parsed(free, "category", Empty) ELSE last.category
  BY <1>1, <1>2 DEF Reads, NoneOf, Chosen
<1>4. Parsed(text, "level", Empty) =
        IF Labelled(free, "level") THEN Parsed(free, "level", Empty) ELSE last.level
  BY <1>1, <1>2 DEF Reads, NoneOf, Chosen
<1>5. Parsed(text, "techs", <<>>) =
        IF Labelled(free, "techs") THEN Parsed(free, "techs", <<>>) ELSE Techniques(last)
  BY <1>1, <1>2 DEF Reads, NoneOf, Chosen
<1>6. PICK card : card = Card(text)
  OBVIOUS
<1>7. /\ card.category = Parsed(text, "category", Empty)
      /\ card.level = Parsed(text, "level", Empty)
      /\ card.techs = Parsed(text, "techs", <<>>)
  BY <1>6 DEF Card
<1>8. QED
  BY <1>2, <1>3, <1>4, <1>5, <1>6, <1>7 DEF CardShowsSelection

-----------------------------------------------------------------------------
(* What the repositories show *)

\* The projects are gone through one by one; this is the one in hand.
Current == Len(checked) + 1

Reading == {"url", "meta", "languages", "tree", "files"}

\* What the files that were read say, and the statistics of the repositories.
FrameworksRead(projects, r) ==
  Frameworks(Tokens(r[3], Repositories[projects[r[1]].urls[r[2]]].text[r[3]]))

FrameworksFound(projects, reads) == UNION { FrameworksRead(projects, r) : r \in { q \in reads : q[3] # Statistics } }

LanguagesRead(projects, r) == Repositories[projects[r[1]].urls[r[2]]].languages

LanguagesFound(projects, reads) == UNION { LanguagesRead(projects, r) : r \in { q \in reads : q[3] = Statistics } }

\* What was read of a project up to a link, in repositories that answered to the end, ...
SoundReads(reads, i, upTo, errors) ==
  { r \in reads : r[1] = i /\ r[2] <= upTo /\ \A k \in DOMAIN errors : errors[k].link # r[2] }

\* ... and what was read of one link.
OfLink(reads, i, l) == { r \in reads : r[1] = i /\ r[2] = l }

\* The types that matter.
GithubTypes ==
  /\ portfolio \in Portfolio
  /\ IsList(checked) /\ Len(checked) <= Len(portfolio)
  /\ asking \in Reading \cup {"project", "done", "raised"}
  /\ link \in Nat /\ link # 0 /\ budget \in Nat
  /\ DOMAIN merged = DOMAIN NothingMerged /\ DOMAIN data = DOMAIN NothingRead
  /\ IsFiniteSet(ReadLinks)
  /\ \A r \in readFiles : r = <<r[1], r[2], r[3]>> /\ r[1] \in 1 .. Len(checked) + 1 /\ r[2] \in Nat

\* Of the project in hand, nothing is read past the link in hand.
ReadsFit ==
  \A r \in readFiles : r[1] = Current =>
    /\ asking \in Reading \cup {"raised"}
    /\ asking \in Reading => r[2] <= link
    /\ asking \in {"url", "meta"} => r[2] # link

\* Every link that is behind is read to its end or among the errors, once.
LinksFit ==
  /\ Len(checked) < Len(portfolio)
  /\ merged.use \in Nat /\ merged.use <= Len(Here.urls) /\ link <= merged.use + 1
  /\ asking # "url" => link <= merged.use
  /\ IsList(merged.errors) /\ Len(merged.errors) < link
  /\ merged.ok <=> Len(merged.errors) + 1 < link
  /\ \A k \in DOMAIN merged.errors : merged.errors[k].link \in 1 .. link - 1
  /\ \A j, k \in DOMAIN merged.errors : merged.errors[j].link = merged.errors[k].link => j = k

\* The accumulators hold what was read of the links behind.
MergedFits ==
  LET reads == SoundReads(readFiles, Current, link - 1, merged.errors) IN
  /\ { e.framework : e \in merged.evidence } = FrameworksFound(portfolio, reads)
  /\ merged.languages = LanguagesFound(portfolio, reads)

\* What is held of the repository in hand is what was read of it.
DataFits ==
  LET reads == OfLink(readFiles, Current, link) IN
  /\ Url \in DOMAIN Repositories
  /\ data.files = { r[3] : r \in { q \in reads : q[3] # Statistics } }
  /\ data.languages = LanguagesFound(portfolio, reads)

PendingFits == IsList(data.pending) /\ \A k \in DOMAIN data.pending : data.pending[k] # Statistics

\* The links of the project in hand that may still be read first.
LinksLeft ==
  IF asking \notin Reading THEN 0
  ELSE merged.use + 1 - link - (IF <<Current, link>> \in ReadLinks THEN 1 ELSE 0)

BudgetFits == Cardinality(ReadLinks) + budget + LinksLeft <= MaxRepos

Finished == \A i \in DOMAIN checked : portfolio[i].urls # <<>> => ProjectShown(i)

GithubInv ==
  /\ GithubTypes /\ ReadsFit /\ Finished
  /\ asking # "raised" => BudgetFits
  /\ asking = "done" => Len(checked) = Len(portfolio)
  /\ asking \in Reading => LinksFit /\ MergedFits
  /\ asking \in Reading \ {"url"} => DataFits
  /\ asking = "files" => PendingFits

\* What is found in two parts is found in one of them.
LEMMA FoundTogether ==
  ASSUME NEW projects, NEW a, NEW b
  PROVE  /\ FrameworksFound(projects, a \cup b) = FrameworksFound(projects, a) \cup FrameworksFound(projects, b)
         /\ LanguagesFound(projects, a \cup b) = LanguagesFound(projects, a) \cup LanguagesFound(projects, b)
         /\ FrameworksFound(projects, {}) = {} /\ LanguagesFound(projects, {}) = {}
BY DEF FrameworksFound, LanguagesFound

\* The file and its frameworks, as evidence.
LEMMA EvidenceShows ==
  ASSUME NEW paths, NEW repo
  PROVE  { e.framework : e \in Evidence(paths, repo) } = UNION { Frameworks(Tokens(p, repo.text[p])) : p \in paths }
<1> DEFINE fws(p) == Frameworks(Tokens(p, repo.text[p]))
<1> DEFINE evidence(p) == { [framework |-> fw, file |-> p] : fw \in fws(p) }
<1>1. Evidence(paths, repo) = UNION { evidence(p) : p \in paths }
  BY DEF Evidence
<1> HIDE DEF fws
<1>2. ASSUME NEW fw PROVE fw \in { e.framework : e \in UNION { evidence(p) : p \in paths } } <=> \E p \in paths : fw \in fws(p)
  <2>1. ASSUME NEW p \in paths, fw \in fws(p) PROVE fw \in { e.framework : e \in UNION { evidence(q) : q \in paths } }
    <3>1. PICK e : e = [framework |-> fw, file |-> p]
      OBVIOUS
    <3>2. e \in evidence(p) /\ e.framework = fw
      BY <2>1, <3>1
    <3>3. QED
      BY <3>2
  <2>2. ASSUME NEW e \in UNION { evidence(p) : p \in paths }, fw = e.framework PROVE \E p \in paths : fw \in fws(p)
    BY <2>2
  <2>3. QED
    BY <2>1, <2>2
<1>3. QED
  BY <1>1, <1>2 DEF fws

\* A link that fails is left out.
LEMMA SoundAfterError ==
  ASSUME NEW reads, NEW i, NEW l \in Nat, NEW errors, IsList(errors), NEW e, e.link = l,
         \A r \in reads : r[2] \in Nat
  PROVE  SoundReads(reads, i, l, Append(errors, e)) = SoundReads(reads, i, l - 1, errors)
<1>1. PICK n \in Nat : n = Len(errors)
  BY ListAppends
<1>2. PICK more : more = Append(errors, e)
  OBVIOUS
<1>3. /\ DOMAIN errors = 1 .. n /\ DOMAIN more = 1 .. n + 1 /\ more[n + 1] = e
      /\ \A k \in 1 .. n : more[k] = errors[k]
  BY <1>1, <1>2, ListAppends
<1>4. ASSUME NEW r \in reads
      PROVE  (r[2] <= l /\ \A k \in 1 .. n + 1 : more[k].link # r[2])
               <=> (r[2] <= l - 1 /\ \A k \in 1 .. n : errors[k].link # r[2])
  <2>1. PICK m \in Nat : m = r[2]
    OBVIOUS
  <2>2. (\A k \in 1 .. n + 1 : more[k].link # m) <=> l # m /\ \A k \in 1 .. n : errors[k].link # m
    <3>1. \A k \in 1 .. n + 1 : k = n + 1 \/ k \in 1 .. n
      OBVIOUS
    <3>2. n + 1 \in 1 .. n + 1 /\ \A k \in 1 .. n : k \in 1 .. n + 1
      OBVIOUS
    <3>3. more[n + 1].link = l
      BY <1>3
    <3>4. QED
      BY <1>3, <3>1, <3>2, <3>3
  <2>3. m <= l /\ l # m <=> m <= l - 1
    OBVIOUS
  <2>4. QED
    BY <2>1, <2>2, <2>3
<1>5. QED
  BY <1>2, <1>3, <1>4 DEF SoundReads

\* A link that is read to its end is added.
LEMMA SoundAfterRead ==
  ASSUME NEW reads, NEW i, NEW l \in Nat, NEW errors, \A k \in DOMAIN errors : errors[k].link \in 1 .. l - 1,
         \A r \in reads : r[2] \in Nat
  PROVE  SoundReads(reads, i, l, errors) = SoundReads(reads, i, l - 1, errors) \cup OfLink(reads, i, l)
<1>1. ASSUME NEW r \in reads
      PROVE  (r[2] <= l /\ \A k \in DOMAIN errors : errors[k].link # r[2])
               <=> ((r[2] <= l - 1 /\ \A k \in DOMAIN errors : errors[k].link # r[2]) \/ r[2] = l)
  <2>1. PICK m \in Nat : m = r[2]
    OBVIOUS
  <2>2. m <= l <=> m <= l - 1 \/ m = l
    OBVIOUS
  <2>3. m = l => \A k \in DOMAIN errors : errors[k].link # m
    <3>1. \A x \in 1 .. l - 1 : x # l
      OBVIOUS
    <3>2. QED
      BY <3>1
  <2>4. QED
    BY <2>1, <2>2, <2>3
<1>2. QED
  BY <1>1 DEF SoundReads, OfLink

\* The statistics are no manifest and no README, so they are never asked for as a file.
LEMMA WantedAreFiles ==
  ASSUME NEW tree, IsList(tree), NEW wanted, wanted = Wanted(tree)
  PROVE  IsList(wanted) /\ \A k \in DOMAIN wanted : wanted[k] # Statistics
<1> DEFINE deps == { i \in DOMAIN tree : IsDependencyFile(tree[i]) }
<1> DEFINE docs == { i \in DOMAIN tree : IsReadme(tree[i]) }
<1>1. ~IsDependencyFile(Statistics) /\ ~IsReadme(Statistics)
  <2>1. PICK s : s = Statistics
    OBVIOUS
  <2>2. s.name = "languages"
    BY <2>1 DEF Statistics
  <2>3. ~IsDependencyFile(s) /\ ~IsReadme(s)
    BY <2>2, NameAssumption DEF IsDependencyFile, IsReadme, IsRequirementsFile, DEPENDENCY_FILENAMES, README_FILENAMES
  <2>4. QED
    BY <2>1, <2>3
<1>2. (\A i \in deps : tree[i] # Statistics) /\ (\A i \in docs : tree[i] # Statistics)
  BY <1>1
<1>3. Wanted(tree) = Cut(Where(tree, deps), MaxManifests) \o Cut(Where(tree, docs), 1)
  BY DEF Wanted
<1>4. deps \in SUBSET DOMAIN tree /\ docs \in SUBSET DOMAIN tree
  OBVIOUS
<1> HIDE DEF deps, docs
<1>5. ASSUME NEW places \in SUBSET DOMAIN tree, \A i \in places : tree[i] # Statistics, NEW n \in Nat
      PROVE  /\ IsList(Cut(Where(tree, places), n))
             /\ \A k \in DOMAIN Cut(Where(tree, places), n) : Cut(Where(tree, places), n)[k] # Statistics
  <2>1. PICK taken : taken = Where(tree, places)
    OBVIOUS
  <2>2. IsList(taken) /\ \A k \in DOMAIN taken : \E p \in places : taken[k] = tree[p]
    BY <2>1, WhereLists
  <2>3. \A k \in DOMAIN taken : taken[k] # Statistics
    BY <1>5, <2>2
  <2>4. PICK S : S = { taken[k] : k \in DOMAIN taken }
    OBVIOUS
  <2>5. taken \in Seq(S) /\ \A x \in S : x # Statistics
    BY <2>2, <2>3, <2>4 DEF IsList
  <2>6. PICK cut : cut = Cut(taken, n)
    OBVIOUS
  <2>7. cut \in Seq(S)
    BY <2>5, <2>6, CutTakes
  <2>8. PICK m \in Nat : m = Len(cut)
    BY <2>7
  <2>9. cut \in [1 .. m -> S]
    BY <2>7, <2>8, LenProperties
  <2>10. cut = [k \in 1 .. m |-> cut[k]] /\ \A k \in DOMAIN cut : cut[k] # Statistics
    BY <2>5, <2>9
  <2>11. IsList(cut)
    BY <2>8, <2>10, AList
  <2>12. QED
    BY <2>1, <2>6, <2>10, <2>11
<1>6. PICK a : a = Cut(Where(tree, deps), MaxManifests)
  OBVIOUS
<1>7. PICK b : b = Cut(Where(tree, docs), 1)
  OBVIOUS
<1>8. IsList(a) /\ IsList(b) /\ (\A k \in DOMAIN a : a[k] # Statistics) /\ (\A k \in DOMAIN b : b[k] # Statistics)
  BY <1>2, <1>4, <1>5, <1>6, <1>7, RepoBoundAssumption
<1>9. wanted = a \o b
  BY <1>3, <1>6, <1>7
<1>10. PICK m \in Nat : m = Len(a)
  BY <1>8, ListsJoin
<1>11. PICK n \in Nat : n = Len(b)
  BY <1>8, ListsJoin
<1>12. /\ IsList(wanted) /\ DOMAIN a = 1 .. m /\ DOMAIN b = 1 .. n /\ DOMAIN wanted = 1 .. m + n
       /\ \A i \in 1 .. m : wanted[i] = a[i]
       /\ \A i \in 1 .. n : wanted[m + i] = b[i]
  <2>1. /\ IsList(wanted) /\ DOMAIN a = 1 .. Len(a) /\ DOMAIN b = 1 .. Len(b)
        /\ DOMAIN wanted = 1 .. Len(a) + Len(b)
        /\ \A i \in 1 .. Len(a) : wanted[i] = a[i]
        /\ \A i \in 1 .. Len(b) : wanted[Len(a) + i] = b[i]
    <3>1. IsList(a) /\ IsList(b)
      BY <1>8
    <3>2. IsList(wanted)
      BY <1>9, <3>1, ListsJoin
    <3>3. DOMAIN a = 1 .. Len(a) /\ DOMAIN b = 1 .. Len(b)
      BY <3>1, ListAppends
    <3>4. DOMAIN wanted = 1 .. Len(a) + Len(b)
      BY <1>9, <3>1, ListsJoin
    <3>5. \A i \in 1 .. Len(a) : wanted[i] = a[i]
      BY <1>9, <3>1, ListsJoin
    <3>6. \A i \in 1 .. Len(b) : wanted[Len(a) + i] = b[i]
      BY <1>9, <3>1, ListsJoin
    <3>7. QED
      BY <3>2, <3>3, <3>4, <3>5, <3>6
  <2>2. QED
    BY <1>10, <1>11, <2>1
<1>13. ASSUME NEW k \in 1 .. m + n PROVE wanted[k] # Statistics
  <2>1. CASE k \in 1 .. m
    BY <1>8, <1>12, <2>1
  <2>2. CASE k \notin 1 .. m
    <3>1. PICK j \in 1 .. n : k = m + j
      <4>1. k - m \in 1 .. n /\ k = m + (k - m)
        BY <2>2
      <4>2. QED
        BY <4>1
    <3>2. QED
      BY <1>8, <1>12, <3>1
  <2>3. QED
    BY <2>1, <2>2
<1>14. QED
  BY <1>12, <1>13

\* What is said of a project stays as long as its record does and nothing more of it is read.
LEMMA ShownStays ==
  ASSUME NEW i, ProjectShown(i), portfolio' = portfolio, checked'[i] = checked[i],
         \A r : r[1] = i => (r \in readFiles' <=> r \in readFiles)
  PROVE  ProjectShown(i)'
<1>1. ASSUME NEW t PROVE ShownBy(i, t)' <=> ShownBy(i, t)
  BY DEF ShownBy
<1>2. QED
  BY <1>1 DEF ProjectShown

\* What a step that finishes no project leaves of those that are finished.
LEMMA FinishedStays ==
  ASSUME GithubTypes, Finished, portfolio' = portfolio, checked' = checked,
         \A r : r[1] # Current => (r \in readFiles' <=> r \in readFiles)
  PROVE  Finished'
<1>1. PICK n \in Nat : n = Len(checked) /\ DOMAIN checked = 1 .. n
  BY ListAppends DEF GithubTypes
<1>2. ASSUME NEW i \in DOMAIN checked, portfolio[i].urls # <<>> PROVE ProjectShown(i)'
  <2>1. i # Current
    BY <1>1 DEF Current
  <2>2. ProjectShown(i)
    BY <1>2 DEF Finished
  <2>3. QED
    BY <2>1, <2>2, ShownStays
<1>3. QED
  BY <1>2 DEF Finished

\* Numbers that are one.
LEMMA LinksLeftIs ==
  ASSUME asking \in Reading, NEW u \in Nat, merged.use = u, NEW l \in Nat, link = l
  PROVE  /\ LinksLeft \in Int /\ LinksLeft >= u - l /\ LinksLeft <= u + 1 - l
         /\ <<Current, link>> \in ReadLinks => LinksLeft = u - l
         /\ <<Current, link>> \notin ReadLinks => LinksLeft = u + 1 - l
BY DEF LinksLeft

\* A repository that could not be read.
LEMMA FailedKept ==
  ASSUME GithubInv, asking \in Reading, asking = "url" => link <= merged.use, NEW kind, Failed(kind)
  PROVE  GithubInv'
<1>1. /\ merged' = [merged EXCEPT !.errors = Append(@, [link |-> link, kind |-> kind])]
      /\ link' = link + 1 /\ asking' = "url"
      /\ portfolio' = portfolio /\ checked' = checked /\ budget' = budget /\ data' = data /\ readFiles' = readFiles
  BY DEF Failed
<1>2. GithubTypes /\ ReadsFit /\ Finished /\ BudgetFits /\ LinksFit /\ MergedFits
  BY DEF GithubInv, Reading
<1>3. PICK e : e = [link |-> link, kind |-> kind]
  OBVIOUS
<1>4. e.link = link
  BY <1>3
<1>5. PICK errors : errors = merged.errors
  OBVIOUS
<1>6. PICK more : more = Append(errors, e)
  OBVIOUS
<1>7. /\ merged'.errors = more /\ merged'.use = merged.use /\ merged'.ok = merged.ok
      /\ merged'.evidence = merged.evidence /\ merged'.languages = merged.languages
      /\ DOMAIN merged' = DOMAIN merged
  <2>1. DOMAIN merged = {"use", "ok", "evidence", "languages", "errors"}
    BY <1>2 DEF GithubTypes, NothingMerged
  <2>2. merged' = [merged EXCEPT !.errors = more]
    BY <1>1, <1>3, <1>5, <1>6
  <2>3. QED
    BY <2>1, <2>2
<1>8. PICK l \in Nat : l = link /\ l # 0
  BY <1>2 DEF GithubTypes
<1>9. IsList(errors) /\ Len(errors) < l /\ \A k \in DOMAIN errors : errors[k].link \in 1 .. l - 1
  BY <1>2, <1>5, <1>8 DEF LinksFit
<1>10. PICK n \in Nat : n = Len(errors)
  BY <1>9, ListAppends
<1>11. /\ IsList(more) /\ DOMAIN errors = 1 .. n /\ DOMAIN more = 1 .. n + 1 /\ Len(more) = n + 1
       /\ more[n + 1] = e /\ \A k \in 1 .. n : more[k] = errors[k]
  BY <1>6, <1>9, <1>10, ListAppends
<1>12. GithubTypes'
  BY <1>1, <1>2, <1>7 DEF GithubTypes, ReadLinks, Reading
<1>13. ReadsFit'
  <2>1. ASSUME NEW r \in readFiles, r[1] = Current PROVE r[2] <= l + 1 /\ r[2] # l + 1
    <3>1. r[2] <= l /\ r[2] \in Nat
      BY <1>2, <1>8, <2>1 DEF ReadsFit, GithubTypes
    <3>2. QED
      BY <3>1
  <2>2. QED
    BY <1>1, <1>8, <2>1 DEF ReadsFit, Current, Reading
<1>14. Finished'
  BY <1>1, <1>2, FinishedStays
<1>15. PICK u \in Nat : u = merged.use
  BY <1>2 DEF LinksFit
<1>16. l <= u /\ u <= Len(Here.urls)
  BY <1>2, <1>8, <1>15 DEF LinksFit
<1>17. LinksFit'
  <2>1. Here' = Here
    BY <1>1 DEF Here
  <2>2. merged.ok <=> n + 1 < l
    BY <1>2, <1>5, <1>8, <1>10 DEF LinksFit
  <2>3. l + 1 <= u + 1 /\ n + 1 < l + 1 /\ (merged.ok <=> (n + 1) + 1 < l + 1)
    BY <1>9, <1>10, <1>16, <2>2
  <2>4. ASSUME NEW k \in 1 .. n + 1 PROVE more[k].link \in 1 .. l /\ (k # n + 1 => k \in 1 .. n /\ more[k].link # l)
    <3>1. CASE k = n + 1
      BY <1>4, <1>8, <1>11, <3>1
    <3>2. CASE k # n + 1
      <4>1. k \in 1 .. n
        BY <3>2
      <4>2. more[k].link \in 1 .. l - 1
        BY <1>9, <1>11, <4>1
      <4>3. QED
        BY <4>1, <4>2
    <3>3. QED
      BY <3>1, <3>2
  <2>5. ASSUME NEW j \in 1 .. n + 1, NEW k \in 1 .. n + 1, more[j].link = more[k].link PROVE j = k
    <3>1. more[n + 1].link = l
      BY <1>4, <1>8, <1>11
    <3>2. CASE j = n + 1 \/ k = n + 1
      BY <2>4, <2>5, <3>1, <3>2
    <3>3. CASE j # n + 1 /\ k # n + 1
      <4>1. j \in 1 .. n /\ k \in 1 .. n
        BY <2>4, <3>3
      <4>2. errors[j].link = errors[k].link
        BY <1>11, <2>5, <4>1
      <4>3. QED
        BY <1>2, <1>5, <1>11, <4>1, <4>2 DEF LinksFit
    <3>4. QED
      BY <3>2, <3>3
  <2>6. (l + 1) - 1 = l
    OBVIOUS
  <2>7. Len(checked) < Len(portfolio)
    BY <1>2 DEF LinksFit
  <2>8. /\ (Len(checked) < Len(portfolio))' /\ merged'.use \in Nat /\ merged'.use <= Len(Here.urls)'
        /\ link' <= merged'.use + 1
    BY <1>1, <1>7, <1>8, <1>15, <1>16, <2>1, <2>3, <2>7
  <2>9. /\ IsList(merged'.errors) /\ Len(merged'.errors) < link'
        /\ merged'.ok <=> Len(merged'.errors) + 1 < link'
    BY <1>1, <1>7, <1>8, <1>11, <2>3
  <2>10. /\ \A k \in DOMAIN merged'.errors : merged'.errors[k].link \in 1 .. link' - 1
         /\ \A j, k \in DOMAIN merged'.errors : merged'.errors[j].link = merged'.errors[k].link => j = k
    <3>1. merged'.errors = more /\ DOMAIN more = 1 .. n + 1 /\ link' - 1 = l
      BY <1>1, <1>7, <1>8, <1>11, <2>6
    <3>2. \A k \in DOMAIN more : more[k].link \in 1 .. l
      BY <1>11, <2>4
    <3>3. \A j, k \in DOMAIN more : more[j].link = more[k].link => j = k
      BY <1>11, <2>5
    <3>4. QED
      BY <3>1, <3>2, <3>3
  <2>11. asking' = "url"
    BY <1>1
  <2>12. QED
    BY <2>8, <2>9, <2>10, <2>11 DEF LinksFit
<1>18. MergedFits'
  <2>1. SoundReads(readFiles, Current, l, more) = SoundReads(readFiles, Current, l - 1, errors)
    <3>1. \A r \in readFiles : r[2] \in Nat
      BY <1>2 DEF GithubTypes
    <3>2. QED
      BY <1>4, <1>6, <1>8, <1>9, <3>1, SoundAfterError
  <2>2. Current' = Current
    BY <1>1 DEF Current
  <2>3. (l + 1) - 1 = l
    OBVIOUS
  <2>4. QED
    BY <1>1, <1>2, <1>5, <1>7, <1>8, <2>1, <2>2, <2>3 DEF MergedFits
<1>19. BudgetFits'
  <2>1. ReadLinks' = ReadLinks
    BY <1>1 DEF ReadLinks
  <2>2. PICK c \in Nat : c = Cardinality(ReadLinks)
    BY <1>2, FS_CardinalityType DEF GithubTypes
  <2>3. PICK b \in Nat : b = budget
    BY <1>2 DEF GithubTypes
  <2>4. PICK x \in Int : x = LinksLeft /\ x >= u - l
    BY <1>8, <1>15, LinksLeftIs
  <2>5. PICK y \in Int : y = LinksLeft' /\ y <= u - l
    <3>1. asking' \in Reading /\ merged'.use = u /\ link' = l + 1
      BY <1>1, <1>7, <1>8, <1>15 DEF Reading
    <3>2. \/ LinksLeft' = u + 1 - (l + 1) - 1
          \/ LinksLeft' = u + 1 - (l + 1) - 0
      BY <3>1 DEF LinksLeft
    <3>3. QED
      BY <3>2
  <2>6. c + b + x <= MaxRepos
    BY <1>2, <2>2, <2>3, <2>4 DEF BudgetFits
  <2>7. c + b + y <= MaxRepos
    <3>1. MaxRepos \in Int
      BY RepoBoundAssumption
    <3>2. PICK d \in Int : d = u - l
      OBVIOUS
    <3>3. y <= d /\ d <= x
      BY <2>4, <2>5, <3>2
    <3>4. QED
      BY <2>6, <3>1, <3>3
  <2>8. QED
    BY <1>1, <2>1, <2>2, <2>3, <2>5, <2>7 DEF BudgetFits
<1>20. QED
  BY <1>1, <1>12, <1>13, <1>14, <1>17, <1>18, <1>19 DEF GithubInv, Reading

\* One more link something was read of.
LEMMA LinkAdds ==
  ASSUME IsFiniteSet(ReadLinks), NEW i, NEW l, NEW path, NEW extra \in SUBSET {<<i, l, path>>},
         readFiles' = readFiles \cup extra
  PROVE  /\ IsFiniteSet(ReadLinks') /\ Cardinality(ReadLinks') \in Nat /\ Cardinality(ReadLinks) \in Nat
         /\ ReadLinks \subseteq ReadLinks'
         /\ Cardinality(ReadLinks') = Cardinality(ReadLinks)
              \/ (<<i, l>> \notin ReadLinks /\ <<i, l>> \in ReadLinks'
                    /\ Cardinality(ReadLinks') = Cardinality(ReadLinks) + 1)
<1>1. CASE extra = {}
  <2>1. ReadLinks' = ReadLinks
    BY <1>1 DEF ReadLinks
  <2>2. QED
    BY <2>1, FS_CardinalityType
<1>2. CASE extra # {}
  <2>1. PICK row : row = <<i, l, path>>
    OBVIOUS
  <2>2. extra = {row} /\ row[1] = i /\ row[2] = l
    BY <1>2, <2>1
  <2>3. PICK one : one = <<i, l>>
    OBVIOUS
  <2>4. readFiles' = readFiles \cup {row}
    BY <2>2
  <2>5. ReadLinks' = ReadLinks \cup {<<row[1], row[2]>>}
    BY <2>4 DEF ReadLinks
  <2>6. ReadLinks' = ReadLinks \cup {one}
    BY <2>2, <2>3, <2>5
  <2>7. CASE one \in ReadLinks
    <3>1. ReadLinks' = ReadLinks
      BY <2>6, <2>7
    <3>2. QED
      BY <3>1, FS_CardinalityType
  <2>8. CASE one \notin ReadLinks
    <3>1. IsFiniteSet(ReadLinks') /\ Cardinality(ReadLinks') = Cardinality(ReadLinks) + 1
      BY <2>6, <2>8, FS_AddElement
    <3>2. QED
      BY <2>3, <2>6, <2>8, <3>1, FS_CardinalityType
  <2>9. QED
    BY <2>7, <2>8
<1>3. QED
  BY <1>1, <1>2

\* A step on the repository in hand, which reads one thing of it at most.
LEMMA GoesOn ==
  ASSUME GithubInv, asking \in Reading, asking' \in Reading \ {"url"}, link <= merged.use,
         portfolio' = portfolio, checked' = checked, link' = link, budget' = budget, merged' = merged,
         NEW path, NEW extra \in SUBSET {<<Current, link, path>>}, readFiles' = readFiles \cup extra,
         asking' = "meta" => asking = "url" /\ extra = {},
         DOMAIN data' = DOMAIN data, DataFits', asking' = "files" => PendingFits'
  PROVE  GithubInv'
<1>1. GithubTypes /\ ReadsFit /\ Finished /\ BudgetFits /\ LinksFit /\ MergedFits
  BY DEF GithubInv, Reading
<1>2. Current' = Current
  BY DEF Current
<1>3. PICK row : row = <<Current, link, path>>
  OBVIOUS
<1>4. PICK c \in Nat : c = Current /\ c = Len(checked) + 1
  <2>1. Len(checked) \in Nat
    BY <1>1, ListAppends DEF GithubTypes
  <2>2. QED
    BY <2>1 DEF Current
<1>5. PICK l \in Nat : l = link /\ l # 0
  BY <1>1 DEF GithubTypes
<1>6. row = <<row[1], row[2], row[3]>> /\ row[1] = c /\ row[2] = l /\ extra \subseteq {row}
  BY <1>3, <1>4, <1>5
<1>7. /\ IsFiniteSet(ReadLinks') /\ Cardinality(ReadLinks') \in Nat /\ Cardinality(ReadLinks) \in Nat
      /\ ReadLinks \subseteq ReadLinks'
      /\ Cardinality(ReadLinks') = Cardinality(ReadLinks)
           \/ (<<Current, link>> \notin ReadLinks /\ <<Current, link>> \in ReadLinks'
                 /\ Cardinality(ReadLinks') = Cardinality(ReadLinks) + 1)
  BY <1>1, LinkAdds DEF GithubTypes
<1>8. GithubTypes'
  <2>1. \A r \in readFiles' : r = <<r[1], r[2], r[3]>> /\ r[1] \in 1 .. Len(checked) + 1 /\ r[2] \in Nat
    <3>1. ASSUME NEW r \in readFiles' PROVE r = <<r[1], r[2], r[3]>> /\ r[1] \in 1 .. Len(checked) + 1 /\ r[2] \in Nat
      <4>1. CASE r \in readFiles
        BY <1>1, <4>1 DEF GithubTypes
      <4>2. CASE r \notin readFiles
        <5>1. r = row
          BY <1>6, <4>2
        <5>2. c \in 1 .. Len(checked) + 1
          <6>1. c >= 1 /\ c <= Len(checked) + 1
            <7>1. PICK n \in Nat : n = Len(checked)
              BY <1>1, ListAppends DEF GithubTypes
            <7>2. QED
              BY <1>4, <7>1
          <6>2. QED
            BY <1>4, <6>1
        <5>3. QED
          BY <1>6, <5>1, <5>2
      <4>3. QED
        BY <4>1, <4>2
    <3>2. QED
      BY <3>1
  <2>2. asking' \in Reading
    OBVIOUS
  <2>3. IsFiniteSet(ReadLinks)'
    BY <1>7
  <2>4. QED
    BY <1>1, <2>1, <2>2, <2>3 DEF GithubTypes
<1>9. ReadsFit'
  <2>1. ASSUME NEW r \in readFiles', r[1] = Current PROVE r[2] <= link /\ (asking' \in {"url", "meta"} => r[2] # link)
    <3>1. CASE r \in readFiles
      <4>1. r[2] <= link /\ (asking \in {"url", "meta"} => r[2] # link)
        BY <1>1, <2>1, <3>1 DEF ReadsFit
      <4>2. QED
        BY <4>1 DEF Reading
    <3>2. CASE r \notin readFiles
      <4>1. r = row /\ extra # {}
        BY <1>6, <3>2
      <4>2. QED
        BY <1>5, <1>6, <4>1 DEF Reading
    <3>3. QED
      BY <3>1, <3>2
  <2>2. QED
    BY <1>2, <2>1 DEF ReadsFit
<1>10. Finished'
  <2>1. ASSUME NEW r, r[1] # Current PROVE r \in readFiles' <=> r \in readFiles
    BY <1>4, <1>6, <2>1
  <2>2. QED
    BY <1>1, <2>1, FinishedStays
<1>11. PICK u \in Nat : u = merged.use
  BY <1>1 DEF LinksFit
<1>12. LinksFit'
  <2>1. Here' = Here
    BY DEF Here
  <2>2. QED
    BY <1>1, <2>1 DEF LinksFit
<1>13. MergedFits'
  <2>1. SoundReads(readFiles', Current, link - 1, merged.errors) = SoundReads(readFiles, Current, link - 1, merged.errors)
    <3>1. row \notin SoundReads(readFiles', Current, link - 1, merged.errors)
      BY <1>5, <1>6 DEF SoundReads
    <3>2. QED
      BY <1>6, <3>1 DEF SoundReads
  <2>2. QED
    BY <1>1, <1>2, <2>1 DEF MergedFits
<1>14. BudgetFits'
  <2>1. PICK m \in Nat : m = Cardinality(ReadLinks)
    BY <1>7
  <2>2. PICK n \in Nat : n = Cardinality(ReadLinks')
    BY <1>7
  <2>3. PICK b \in Nat : b = budget
    BY <1>1 DEF GithubTypes
  <2>4. PICK x \in Int : x = LinksLeft
    BY <1>5, <1>11, LinksLeftIs
  <2>5. LinksLeft' = u + 1 - l - (IF <<Current, link>> \in ReadLinks' THEN 1 ELSE 0)
    BY <1>2, <1>5, <1>11 DEF LinksLeft
  <2>6. x = u + 1 - l - (IF <<Current, link>> \in ReadLinks THEN 1 ELSE 0)
    BY <1>5, <1>11, <2>4 DEF LinksLeft
  <2>7. PICK y \in Int : y = LinksLeft'
    <3>1. u + 1 - l - 1 \in Int /\ u + 1 - l - 0 \in Int
      OBVIOUS
    <3>2. LinksLeft' = u + 1 - l - 1 \/ LinksLeft' = u + 1 - l - 0
      BY <2>5
    <3>3. QED
      BY <3>1, <3>2
  <2>8. n + y <= m + x
    <3>1. CASE n = m
      <4>1. y <= x
        BY <1>7, <2>5, <2>6, <2>7
      <4>2. QED
        BY <3>1, <4>1
    <3>2. CASE n # m
      <4>1. n = m + 1 /\ x = u + 1 - l - 0 /\ y = u + 1 - l - 1
        BY <1>7, <2>1, <2>2, <2>5, <2>6, <2>7, <3>2
      <4>2. QED
        BY <4>1
    <3>3. QED
      BY <3>1, <3>2
  <2>9. m + b + x <= MaxRepos
    BY <1>1, <2>1, <2>3, <2>4 DEF BudgetFits
  <2>10. n + b + y <= MaxRepos
    <3>1. MaxRepos \in Int
      BY RepoBoundAssumption
    <3>2. QED
      BY <2>8, <2>9, <3>1
  <2>11. QED
    BY <2>2, <2>3, <2>7, <2>10 DEF BudgetFits
<1>15. asking' # "raised" /\ asking' # "done"
  BY DEF Reading
<1>16. QED
  BY <1>8, <1>9, <1>10, <1>12, <1>13, <1>14, <1>15 DEF GithubInv

\* What is read of the link in hand is of its repository.
LEMMA OfThisLink ==
  ASSUME NEW r, r[1] = Current, r[2] = link
  PROVE  /\ LanguagesRead(portfolio, r) = Repo.languages
         /\ FrameworksRead(portfolio, r) = Frameworks(Tokens(r[3], Repo.text[r[3]]))
BY DEF LanguagesRead, FrameworksRead, Repo, Url, Here, Current

\* parse_repo_url finds a repository.
LEMMA UrlKept ==
  ASSUME GithubInv, ParseUrl
  PROVE  GithubInv'
<1>1. CASE Url \in DOMAIN Repositories
  <2>1. /\ asking = "url" /\ link <= merged.use /\ asking' = "meta" /\ data' = NothingRead
        /\ portfolio' = portfolio /\ checked' = checked /\ link' = link /\ budget' = budget
        /\ merged' = merged /\ readFiles' = readFiles
    BY <1>1 DEF ParseUrl
  <2>2. OfLink(readFiles, Current, link) = {}
    <3>1. ReadsFit
      BY DEF GithubInv
    <3>2. QED
      BY <2>1, <3>1 DEF ReadsFit, OfLink
  <2>3. DataFits'
    <3>1. (Url \in DOMAIN Repositories)' /\ Current' = Current
      BY <1>1, <2>1 DEF Url, Here, Current
    <3>2. data'.files = {} /\ data'.languages = {}
      BY <2>1 DEF NothingRead
    <3>3. OfLink(readFiles, Current, link)' = {}
      BY <2>1, <2>2, <3>1
    <3>4. LanguagesFound(portfolio', {}) = {}
      BY FoundTogether
    <3>5. QED
      BY <3>1, <3>2, <3>3, <3>4 DEF DataFits
  <2>4. DOMAIN data' = DOMAIN data
    BY <2>1 DEF GithubInv, GithubTypes
  <2>5. readFiles' = readFiles \cup {} /\ {} \in SUBSET {<<Current, link, 0>>}
    BY <2>1
  <2>6. asking \in Reading /\ asking' \in Reading \ {"url"} /\ asking' # "files"
    BY <2>1 DEF Reading
  <2>7. QED
    BY <2>1, <2>3, <2>4, <2>5, <2>6, GoesOn
<1>2. CASE Url \notin DOMAIN Repositories
  <2>1. asking = "url" /\ link <= merged.use /\ Failed("invalid_url")
    BY <1>2 DEF ParseUrl
  <2>2. asking \in Reading
    BY <2>1 DEF Reading
  <2>3. QED
    BY <2>1, <2>2, FailedKept
<1>3. QED
  BY <1>1, <1>2

\* A request that fails as a whole.
LEMMA FailsInHand ==
  ASSUME GithubInv, asking \in {"meta", "languages", "tree", "files"}, NEW kind, Failed(kind)
  PROVE  GithubInv'
<1>1. asking \in Reading /\ asking # "url"
  BY DEF Reading
<1>2. QED
  BY <1>1, FailedKept

\* What is known of the link in hand while its repository is asked.
LEMMA InHand ==
  ASSUME GithubInv, asking \in {"meta", "languages", "tree", "files"}
  PROVE  asking \in Reading /\ link <= merged.use /\ DataFits /\ DOMAIN data = {"languages", "files", "pending"}
<1>1. asking \in Reading \ {"url"}
  BY DEF Reading
<1>2. LinksFit /\ DataFits /\ GithubTypes
  BY <1>1 DEF GithubInv
<1>3. DOMAIN data = {"languages", "files", "pending"}
  BY <1>2 DEF GithubTypes, NothingRead
<1>4. QED
  BY <1>1, <1>2, <1>3 DEF LinksFit

\* DataFits says nothing of the files that are still to be read.
LEMMA DataStays ==
  ASSUME DataFits, portfolio' = portfolio, checked' = checked, link' = link, readFiles' = readFiles,
         data'.files = data.files, data'.languages = data.languages
  PROVE  DataFits'
<1>1. Current' = Current /\ Url' = Url
  BY DEF Current, Url, Here
<1>2. QED
  BY <1>1 DEF DataFits

LEMMA MetaKept ==
  ASSUME GithubInv, NEW status, ReadMeta(status)
  PROVE  GithubInv'
<1>1. asking = "meta"
  BY DEF ReadMeta
<1>2. CASE status = "200"
  <2>1. /\ asking' = "languages" /\ portfolio' = portfolio /\ checked' = checked /\ link' = link
        /\ budget' = budget /\ merged' = merged /\ data' = data /\ readFiles' = readFiles
    BY <1>2 DEF ReadMeta
  <2>2. asking \in Reading /\ link <= merged.use /\ DataFits
    BY <1>1, InHand
  <2>3. DataFits'
    BY <2>1, <2>2, DataStays
  <2>4. readFiles' = readFiles \cup {} /\ {} \in SUBSET {<<Current, link, 0>>}
    BY <2>1
  <2>5. asking' \in Reading \ {"url"} /\ asking' # "files" /\ asking' # "meta"
    BY <2>1 DEF Reading
  <2>6. QED
    BY <2>1, <2>2, <2>3, <2>4, <2>5, GoesOn
<1>3. CASE status # "200"
  <2>1. Failed(Kind(status))
    BY <1>3 DEF ReadMeta
  <2>2. QED
    BY <1>1, <2>1, FailsInHand
<1>4. QED
  BY <1>2, <1>3

LEMMA LanguagesKept ==
  ASSUME GithubInv, NEW status, ReadLanguages(status)
  PROVE  GithubInv'
<1>1. asking = "languages"
  BY DEF ReadLanguages
<1>2. CASE status = "notJson"
  <2>1. Failed("unknown")
    BY <1>2 DEF ReadLanguages
  <2>2. QED
    BY <1>1, <2>1, FailsInHand
<1>3. asking \in Reading /\ link <= merged.use /\ DataFits /\ DOMAIN data = {"languages", "files", "pending"}
  BY <1>1, InHand
<1>4. CASE status = "200"
  <2>1. /\ asking' = "tree" /\ portfolio' = portfolio /\ checked' = checked /\ link' = link
        /\ budget' = budget /\ merged' = merged /\ data' = [data EXCEPT !.languages = Repo.languages]
        /\ readFiles' = readFiles \cup {<<Current, link, Statistics>>}
    BY <1>4 DEF ReadLanguages, Read, Current
  <2>2. PICK row : row = <<Current, link, Statistics>>
    OBVIOUS
  <2>3. row[1] = Current /\ row[2] = link /\ row[3] = Statistics
    BY <2>2
  <2>4. PICK reads : reads = OfLink(readFiles, Current, link)
    OBVIOUS
  <2>5. OfLink(readFiles', Current, link) = reads \cup {row}
    BY <2>1, <2>2, <2>3, <2>4 DEF OfLink
  <2>6. DataFits'
    <3>1. Current' = Current /\ Url' = Url
      BY <2>1 DEF Current, Url, Here
    <3>2. data'.files = data.files /\ data'.languages = Repo.languages
      BY <1>3, <2>1
    <3>3. { q \in reads \cup {row} : q[3] # Statistics } = { q \in reads : q[3] # Statistics }
      BY <2>3
    <3>4. LanguagesFound(portfolio, reads \cup {row}) = Repo.languages
      <4>1. \A r \in reads \cup {row} : LanguagesRead(portfolio, r) = Repo.languages
        BY <2>3, <2>4, OfThisLink DEF OfLink
      <4>2. row \in { q \in reads \cup {row} : q[3] = Statistics }
        BY <2>3
      <4>3. PICK those : those = { q \in reads \cup {row} : q[3] = Statistics }
        OBVIOUS
      <4>4. LanguagesFound(portfolio, reads \cup {row}) = UNION { LanguagesRead(portfolio, r) : r \in those }
        BY <4>3 DEF LanguagesFound
      <4>5. \A r \in those : LanguagesRead(portfolio, r) = Repo.languages
        BY <4>1, <4>3
      <4>6. row \in those
        BY <4>2, <4>3
      <4>7. QED
        BY <4>4, <4>5, <4>6
    <3>5. data.files = { r[3] : r \in { q \in reads : q[3] # Statistics } } /\ Url \in DOMAIN Repositories
      BY <1>3, <2>4 DEF DataFits
    <3>6. QED
      BY <2>1, <2>5, <3>1, <3>2, <3>3, <3>4, <3>5 DEF DataFits
  <2>7. DOMAIN data' = DOMAIN data
    BY <2>1
  <2>8. asking' \in Reading \ {"url"} /\ asking' # "files" /\ asking' # "meta"
    BY <2>1 DEF Reading
  <2>9. {<<Current, link, Statistics>>} \in SUBSET {<<Current, link, Statistics>>}
    OBVIOUS
  <2>10. QED
    BY <1>3, <2>1, <2>6, <2>7, <2>8, <2>9, GoesOn
<1>5. CASE status # "notJson" /\ status # "200"
  <2>1. /\ asking' = "tree" /\ portfolio' = portfolio /\ checked' = checked /\ link' = link
        /\ budget' = budget /\ merged' = merged /\ data' = data /\ readFiles' = readFiles
    BY <1>5 DEF ReadLanguages
  <2>2. DataFits'
    BY <1>3, <2>1, DataStays
  <2>3. readFiles' = readFiles \cup {} /\ {} \in SUBSET {<<Current, link, 0>>}
    BY <2>1
  <2>4. asking' \in Reading \ {"url"} /\ asking' # "files" /\ asking' # "meta"
    BY <2>1 DEF Reading
  <2>5. QED
    BY <1>3, <2>1, <2>2, <2>3, <2>4, GoesOn
<1>6. QED
  BY <1>2, <1>4, <1>5

LEMMA TreeKept ==
  ASSUME GithubInv, NEW status, ReadTree(status)
  PROVE  GithubInv'
<1>1. asking = "tree"
  BY DEF ReadTree
<1>2. CASE status = "200"
  <2>1. /\ asking' = "files" /\ portfolio' = portfolio /\ checked' = checked /\ link' = link
        /\ budget' = budget /\ merged' = merged /\ data' = [data EXCEPT !.pending = Wanted(Repo.tree)]
        /\ readFiles' = readFiles
    BY <1>2 DEF ReadTree
  <2>2. asking \in Reading /\ link <= merged.use /\ DataFits /\ DOMAIN data = {"languages", "files", "pending"}
    BY <1>1, InHand
  <2>3. /\ data'.files = data.files /\ data'.languages = data.languages /\ DOMAIN data' = DOMAIN data
        /\ data'.pending = Wanted(Repo.tree)
    BY <2>1, <2>2
  <2>4. DataFits'
    BY <2>1, <2>2, <2>3, DataStays
  <2>5. PICK wanted : wanted = Wanted(Repo.tree)
    OBVIOUS
  <2>6. IsList(Repo.tree)
    BY <2>2, PortfolioAssumption DEF DataFits, Repo
  <2>7. IsList(wanted) /\ \A k \in DOMAIN wanted : wanted[k] # Statistics
    BY <2>5, <2>6, WantedAreFiles
  <2>8. PendingFits'
    BY <2>3, <2>5, <2>7 DEF PendingFits
  <2>9. readFiles' = readFiles \cup {} /\ {} \in SUBSET {<<Current, link, 0>>}
    BY <2>1
  <2>10. asking' \in Reading \ {"url"} /\ asking' # "meta"
    BY <2>1 DEF Reading
  <2>11. QED
    BY <2>1, <2>2, <2>3, <2>4, <2>8, <2>9, <2>10, GoesOn
<1>3. CASE status # "200"
  <2>1. Failed(Kind(status))
    BY <1>3 DEF ReadTree
  <2>2. QED
    BY <1>1, <2>1, FailsInHand
<1>4. QED
  BY <1>2, <1>3

LEMMA FileKept ==
  ASSUME GithubInv, NEW status, ReadFile(status)
  PROVE  GithubInv'
<1>1. asking = "files" /\ data.pending # <<>>
  BY DEF ReadFile
<1>2. CASE status = "notJson"
  <2>1. Failed("unknown")
    BY <1>2 DEF ReadFile
  <2>2. QED
    BY <1>1, <2>1, FailsInHand
<1>3. CASE status # "notJson"
  <2>1. PICK path : path = Head(data.pending)
    OBVIOUS
  <2>2. /\ data' = [data EXCEPT !.pending = Tail(@), !.files = IF status = "200" THEN @ \cup {path} ELSE @]
        /\ IF status = "200" THEN readFiles' = readFiles \cup {<<Current, link, path>>} ELSE readFiles' = readFiles
        /\ portfolio' = portfolio /\ checked' = checked /\ link' = link
        /\ budget' = budget /\ merged' = merged /\ asking' = asking
    BY <1>3, <2>1 DEF ReadFile, Read, Current
  <2>3. asking \in Reading /\ link <= merged.use /\ DataFits /\ DOMAIN data = {"languages", "files", "pending"}
    BY <1>1, InHand
  <2>4. /\ data'.files = IF status = "200" THEN data.files \cup {path} ELSE data.files
        /\ data'.pending = Tail(data.pending) /\ data'.languages = data.languages
        /\ DOMAIN data' = DOMAIN data
    BY <2>2, <2>3
  <2>5. PICK pending : pending = data.pending
    OBVIOUS
  <2>6. IsList(pending) /\ pending # <<>> /\ \A k \in DOMAIN pending : pending[k] # Statistics
    BY <1>1, <2>5 DEF GithubInv, PendingFits
  <2>7. PICK tail : tail = Tail(pending)
    OBVIOUS
  <2>8. /\ IsList(tail) /\ 1 \in DOMAIN pending /\ Head(pending) = pending[1]
        /\ \A k \in DOMAIN tail : \E j \in DOMAIN pending : tail[k] = pending[j]
    BY <2>6, <2>7, RestIsList
  <2>9. path # Statistics
    BY <2>1, <2>5, <2>6, <2>8
  <2>10. PendingFits'
    <3>1. \A k \in DOMAIN tail : tail[k] # Statistics
      BY <2>6, <2>8
    <3>2. data'.pending = tail
      BY <2>4, <2>5, <2>7
    <3>3. QED
      BY <2>8, <3>1, <3>2 DEF PendingFits
  <2>11. asking' \in Reading \ {"url"} /\ asking' # "meta"
    BY <1>1, <2>2 DEF Reading
  <2>12. CASE status = "200"
    <3>1. PICK row : row = <<Current, link, path>>
      OBVIOUS
    <3>2. row[1] = Current /\ row[2] = link /\ row[3] = path
      BY <3>1
    <3>3. PICK reads : reads = OfLink(readFiles, Current, link)
      OBVIOUS
    <3>4. OfLink(readFiles', Current, link) = reads \cup {row}
      BY <2>2, <2>12, <3>1, <3>2, <3>3 DEF OfLink
    <3>5. DataFits'
      <4>1. Current' = Current /\ Url' = Url
        BY <2>2 DEF Current, Url, Here
      <4>2. { q \in reads \cup {row} : q[3] = Statistics } = { q \in reads : q[3] = Statistics }
        BY <2>9, <3>2
      <4>3. LanguagesFound(portfolio, reads \cup {row}) = LanguagesFound(portfolio, reads)
        BY <4>2 DEF LanguagesFound
      <4>4. { r[3] : r \in { q \in reads \cup {row} : q[3] # Statistics } }
              = { r[3] : r \in { q \in reads : q[3] # Statistics } } \cup {path}
        <5>1. { q \in reads \cup {row} : q[3] # Statistics } = { q \in reads : q[3] # Statistics } \cup {row}
          BY <2>9, <3>2
        <5>2. PICK those : those = { q \in reads : q[3] # Statistics }
          OBVIOUS
        <5>3. { r[3] : r \in those \cup {row} } = { r[3] : r \in those } \cup {row[3]}
          OBVIOUS
        <5>4. QED
          BY <3>2, <5>1, <5>2, <5>3
      <4>5. /\ data.files = { r[3] : r \in { q \in reads : q[3] # Statistics } } /\ Url \in DOMAIN Repositories
            /\ data.languages = LanguagesFound(portfolio, reads)
        BY <2>3, <3>3 DEF DataFits
      <4>6. QED
        BY <2>2, <2>4, <2>12, <3>4, <4>1, <4>3, <4>4, <4>5 DEF DataFits
    <3>6. {<<Current, link, path>>} \in SUBSET {<<Current, link, path>>}
      OBVIOUS
    <3>7. QED
      BY <2>2, <2>3, <2>4, <2>10, <2>11, <2>12, <3>5, <3>6, GoesOn
  <2>13. CASE status # "200"
    <3>1. DataFits'
      BY <2>2, <2>3, <2>4, <2>13, DataStays
    <3>2. readFiles' = readFiles \cup {} /\ {} \in SUBSET {<<Current, link, path>>}
      BY <2>2, <2>13
    <3>3. QED
      BY <2>2, <2>3, <2>4, <2>10, <2>11, <3>1, <3>2, GoesOn
  <2>14. QED
    BY <2>12, <2>13
<1>4. QED
  BY <1>2, <1>3

\* A repository that is read to its end.
LEMMA ExtractKept ==
  ASSUME GithubInv, Extract
  PROVE  GithubInv'
<1>1. asking = "files"
  BY DEF Extract
<1>2. asking \in Reading /\ link <= merged.use /\ DataFits
  BY <1>1, InHand
<1>3. GithubTypes /\ ReadsFit /\ Finished /\ BudgetFits /\ LinksFit /\ MergedFits
  BY <1>1, <1>2 DEF GithubInv, Reading
<1>4. portfolio' = portfolio /\ checked' = checked /\ budget' = budget /\ data' = data /\ readFiles' = readFiles
  BY DEF Extract
<1>5. Finished'
  BY <1>3, <1>4, FinishedStays
<1>6. Current' = Current
  BY <1>4 DEF Current
<1>7. CASE \E p \in data.files : Raises(p, Repo.text[p])
  <2>1. asking' = "raised" /\ link' = link /\ merged' = merged
    BY <1>7 DEF Extract
  <2>2. asking' \notin Reading /\ asking' # "done"
    BY <2>1 DEF Reading
  <2>3. GithubTypes'
    BY <1>3, <1>4, <2>1 DEF GithubTypes, ReadLinks
  <2>4. ReadsFit'
    BY <2>1, <2>2 DEF ReadsFit
  <2>5. QED
    BY <1>5, <2>1, <2>2, <2>3, <2>4 DEF GithubInv
<1>8. CASE ~\E p \in data.files : Raises(p, Repo.text[p])
  <2>1. /\ merged' = [merged EXCEPT !.ok = TRUE, !.languages = @ \cup data.languages,
                               !.evidence = @ \cup Evidence(data.files, Repo)]
        /\ link' = link + 1 /\ asking' = "url"
    BY <1>8 DEF Extract
  <2>2. /\ merged'.ok = TRUE /\ merged'.languages = merged.languages \cup data.languages
        /\ merged'.evidence = merged.evidence \cup Evidence(data.files, Repo)
        /\ merged'.use = merged.use /\ merged'.errors = merged.errors /\ DOMAIN merged' = DOMAIN merged
    <3>1. DOMAIN merged = {"use", "ok", "evidence", "languages", "errors"}
      BY <1>3 DEF GithubTypes, NothingMerged
    <3>2. QED
      BY <2>1, <3>1
  <2>3. PICK l \in Nat : l = link /\ l # 0
    BY <1>3 DEF GithubTypes
  <2>4. PICK errors : errors = merged.errors
    OBVIOUS
  <2>5. IsList(errors) /\ Len(errors) < l /\ \A k \in DOMAIN errors : errors[k].link \in 1 .. l - 1
    BY <1>3, <2>3, <2>4 DEF LinksFit
  <2>6. PICK n \in Nat : n = Len(errors)
    BY <2>5, ListAppends
  <2>7. PICK u \in Nat : u = merged.use
    BY <1>3 DEF LinksFit
  <2>8. l <= u /\ u <= Len(Here.urls)
    BY <1>2, <1>3, <2>3, <2>7 DEF LinksFit
  <2>9. GithubTypes'
    <3>1. link' \in Nat /\ link' # 0 /\ asking' \in Reading
      BY <2>1, <2>3 DEF Reading
    <3>2. ReadLinks' = ReadLinks
      BY <1>4 DEF ReadLinks
    <3>3. QED
      BY <1>3, <1>4, <2>2, <3>1, <3>2 DEF GithubTypes
  <2>10. ReadsFit'
    <3>1. ASSUME NEW r \in readFiles, r[1] = Current PROVE r[2] <= l + 1 /\ r[2] # l + 1
      <4>1. r[2] <= l /\ r[2] \in Nat
        BY <1>2, <1>3, <2>3, <3>1 DEF ReadsFit, GithubTypes
      <4>2. QED
        BY <4>1
    <3>2. asking' \in Reading
      BY <2>1 DEF Reading
    <3>3. QED
      BY <1>4, <1>6, <2>1, <2>3, <3>1, <3>2 DEF ReadsFit
  <2>11. LinksFit'
    <3>1. Here' = Here
      BY <1>4 DEF Here
    <3>2. l + 1 <= u + 1 /\ n < l + 1 /\ n + 1 < l + 1
      BY <2>5, <2>6, <2>8
    <3>3. \A k \in DOMAIN errors : errors[k].link \in 1 .. (l + 1) - 1
      <4>1. \A x \in 1 .. l - 1 : x \in 1 .. (l + 1) - 1
        OBVIOUS
      <4>2. QED
        BY <2>5, <4>1
    <3>4. /\ (Len(checked) < Len(portfolio))' /\ merged'.use \in Nat /\ merged'.use <= Len(Here.urls)'
          /\ link' <= merged'.use + 1
      BY <1>3, <1>4, <2>1, <2>2, <2>3, <2>7, <2>8, <3>1, <3>2 DEF LinksFit
    <3>5. /\ IsList(merged'.errors) /\ Len(merged'.errors) < link'
          /\ merged'.ok <=> Len(merged'.errors) + 1 < link'
      BY <2>1, <2>2, <2>3, <2>4, <2>5, <2>6, <3>2
    <3>6. /\ \A k \in DOMAIN merged'.errors : merged'.errors[k].link \in 1 .. link' - 1
          /\ \A j, k \in DOMAIN merged'.errors : merged'.errors[j].link = merged'.errors[k].link => j = k
      <4>1. \A j, k \in DOMAIN errors : errors[j].link = errors[k].link => j = k
        BY <1>3, <2>4 DEF LinksFit
      <4>2. merged'.errors = errors /\ link' = l + 1
        BY <2>1, <2>2, <2>3, <2>4
      <4>3. QED
        BY <3>3, <4>1, <4>2
    <3>7. QED
      BY <2>1, <3>4, <3>5, <3>6 DEF LinksFit
  <2>12. MergedFits'
    <3>1. PICK old : old = SoundReads(readFiles, Current, l - 1, errors)
      OBVIOUS
    <3>2. PICK new : new = OfLink(readFiles, Current, l)
      OBVIOUS
    <3>3. SoundReads(readFiles, Current, l, errors) = old \cup new
      <4>1. \A r \in readFiles : r[2] \in Nat
        BY <1>3 DEF GithubTypes
      <4>2. QED
        BY <2>5, <3>1, <3>2, <4>1, SoundAfterRead
    <3>4. { e.framework : e \in merged.evidence } = FrameworksFound(portfolio, old)
          /\ merged.languages = LanguagesFound(portfolio, old)
      BY <1>3, <2>3, <2>4, <3>1 DEF MergedFits
    <3>5. /\ data.files = { r[3] : r \in { q \in new : q[3] # Statistics } }
          /\ data.languages = LanguagesFound(portfolio, new)
      BY <1>2, <2>3, <3>2 DEF DataFits
    <3>6. { e.framework : e \in Evidence(data.files, Repo) } = FrameworksFound(portfolio, new)
      <4>1. PICK those : those = { q \in new : q[3] # Statistics }
        OBVIOUS
      <4>2. \A r \in those : FrameworksRead(portfolio, r) = Frameworks(Tokens(r[3], Repo.text[r[3]]))
        BY <2>3, <3>2, <4>1, OfThisLink DEF OfLink
      <4>3. FrameworksFound(portfolio, new) = UNION { FrameworksRead(portfolio, r) : r \in those }
        BY <4>1 DEF FrameworksFound
      <4>4. data.files = { r[3] : r \in those }
        BY <3>5, <4>1
      <4>5. { e.framework : e \in Evidence(data.files, Repo) }
              = UNION { Frameworks(Tokens(p, Repo.text[p])) : p \in data.files }
        BY EvidenceShows
      <4>6. UNION { Frameworks(Tokens(p, Repo.text[p])) : p \in data.files }
              = UNION { Frameworks(Tokens(r[3], Repo.text[r[3]])) : r \in those }
        BY <4>4
      <4>7. QED
        BY <4>2, <4>3, <4>5, <4>6
    <3>7. { e.framework : e \in merged'.evidence }
            = { e.framework : e \in merged.evidence } \cup { e.framework : e \in Evidence(data.files, Repo) }
      BY <2>2
    <3>8. /\ FrameworksFound(portfolio, old \cup new) = FrameworksFound(portfolio, old) \cup FrameworksFound(portfolio, new)
          /\ LanguagesFound(portfolio, old \cup new) = LanguagesFound(portfolio, old) \cup LanguagesFound(portfolio, new)
      BY FoundTogether
    <3>9. SoundReads(readFiles, Current, link - 1, merged.errors)' = old \cup new
      <4>1. link' - 1 = l
        BY <2>1, <2>3
      <4>2. QED
        BY <1>4, <1>6, <2>2, <2>4, <3>3, <4>1
    <3>10. QED
      BY <1>4, <2>2, <3>4, <3>5, <3>6, <3>7, <3>8, <3>9 DEF MergedFits
  <2>13. BudgetFits'
    <3>1. ReadLinks' = ReadLinks
      BY <1>4 DEF ReadLinks
    <3>2. PICK c \in Nat : c = Cardinality(ReadLinks)
      BY <1>3, FS_CardinalityType DEF GithubTypes
    <3>3. PICK b \in Nat : b = budget
      BY <1>3 DEF GithubTypes
    <3>4. PICK x \in Int : x = LinksLeft /\ x >= u - l
      BY <1>2, <2>3, <2>7, LinksLeftIs
    <3>5. PICK y \in Int : y = LinksLeft' /\ y <= u - l
      <4>1. asking' \in Reading /\ merged'.use = u /\ link' = l + 1
        BY <2>1, <2>2, <2>3, <2>7 DEF Reading
      <4>2. \/ LinksLeft' = u + 1 - (l + 1) - 1
            \/ LinksLeft' = u + 1 - (l + 1) - 0
        BY <4>1 DEF LinksLeft
      <4>3. QED
        BY <4>2
    <3>6. c + b + x <= MaxRepos
      BY <1>3, <3>2, <3>3, <3>4 DEF BudgetFits
    <3>7. c + b + y <= MaxRepos
      <4>1. MaxRepos \in Int
        BY RepoBoundAssumption
      <4>2. PICK d \in Int : d = u - l
        OBVIOUS
      <4>3. y <= d /\ d <= x
        BY <3>4, <3>5, <4>2
      <4>4. QED
        BY <3>6, <4>1, <4>3
    <3>8. QED
      BY <1>4, <3>1, <3>2, <3>3, <3>5, <3>7 DEF BudgetFits
  <2>14. QED
    BY <1>5, <2>1, <2>9, <2>10, <2>11, <2>12, <2>13 DEF GithubInv, Reading
<1>9. QED
  BY <1>7, <1>8

\* Between two projects nothing of the next one is read.
LEMMA BetweenProjects ==
  ASSUME GithubInv, asking = "project"
  PROVE  /\ GithubTypes /\ Finished /\ \A r \in readFiles : r[1] # Current
         /\ Cardinality(ReadLinks) + budget + 0 <= MaxRepos /\ Cardinality(ReadLinks) \in Nat
<1>1. GithubTypes /\ ReadsFit /\ Finished /\ BudgetFits
  BY DEF GithubInv
<1>2. asking \notin Reading
  BY DEF Reading
<1>3. LinksLeft = 0
  BY <1>2 DEF LinksLeft
<1>4. Cardinality(ReadLinks) \in Nat
  BY <1>1, FS_CardinalityType DEF GithubTypes
<1>5. Cardinality(ReadLinks) + budget + 0 <= MaxRepos
  BY <1>1, <1>3 DEF BudgetFits
<1>6. \A r \in readFiles : r[1] # Current
  BY <1>1, <1>2 DEF ReadsFit
<1>7. QED
  BY <1>1, <1>4, <1>5, <1>6

\* merge_with_github takes a share of the budget.
LEMMA StartKept ==
  ASSUME GithubInv, StartProject
  PROVE  GithubInv'
<1>1. asking = "project" /\ Len(checked) < Len(portfolio)
  BY DEF StartProject
<1>2. /\ GithubTypes /\ Finished /\ \A r \in readFiles : r[1] # Current
      /\ Cardinality(ReadLinks) + budget + 0 <= MaxRepos /\ Cardinality(ReadLinks) \in Nat
  BY <1>1, BetweenProjects
<1>3. PICK urls : urls = Here.urls
  OBVIOUS
<1>4. PICK n : n = Len(Cut(urls, budget))
  OBVIOUS
<1>5. /\ merged' = Fresh(n) /\ budget' = budget - n /\ link' = 1 /\ asking' = "url"
      /\ portfolio' = portfolio /\ checked' = checked /\ data' = data /\ readFiles' = readFiles
  BY <1>3, <1>4 DEF StartProject
<1>6. IsList(urls)
  <2>1. PICK c \in Nat : c = Len(checked)
    BY <1>2, ListAppends DEF GithubTypes
  <2>2. IsList(portfolio) /\ \A i \in DOMAIN portfolio : IsList(portfolio[i].urls)
    BY <1>2, PortfolioAssumption DEF GithubTypes
  <2>3. DOMAIN portfolio = 1 .. Len(portfolio) /\ Len(portfolio) \in Nat
    BY <2>2, ListAppends
  <2>4. c + 1 \in DOMAIN portfolio
    BY <1>1, <2>1, <2>3
  <2>5. QED
    BY <1>3, <2>1, <2>2, <2>4 DEF Here
<1>7. PICK b \in Nat : b = budget
  BY <1>2 DEF GithubTypes
<1>8. n \in Nat /\ n <= b /\ n <= Len(urls)
  <2>1. PICK S : S = { urls[i] : i \in DOMAIN urls }
    OBVIOUS
  <2>2. urls \in Seq(S)
    BY <1>6, <2>1 DEF IsList
  <2>3. Cut(urls, b) \in Seq(S) /\ Len(Cut(urls, b)) <= b /\ Len(Cut(urls, b)) <= Len(urls)
    BY <2>2, CutTakes
  <2>4. QED
    BY <1>4, <1>7, <2>3
<1>9. /\ merged'.use = n /\ merged'.ok = FALSE /\ merged'.evidence = {} /\ merged'.languages = {}
      /\ merged'.errors = <<>> /\ DOMAIN merged' = DOMAIN NothingMerged
  BY <1>5 DEF Fresh, NothingMerged
<1>10. ReadLinks' = ReadLinks /\ Current' = Current /\ Here' = Here
  BY <1>5 DEF ReadLinks, Current, Here
<1>11. asking' \in Reading /\ asking' # "raised" /\ asking' # "done" /\ asking' # "files"
  BY <1>5 DEF Reading
<1>12. GithubTypes'
  <2>1. budget' \in Nat /\ link' \in Nat /\ link' # 0
    BY <1>5, <1>7, <1>8
  <2>2. QED
    BY <1>2, <1>5, <1>9, <1>10, <1>11, <2>1 DEF GithubTypes
<1>13. ReadsFit'
  BY <1>2, <1>5, <1>10 DEF ReadsFit
<1>14. Finished'
  BY <1>2, <1>5, FinishedStays
<1>15. LinksFit'
  <2>1. IsList(<<>>) /\ Len(<<>>) = 0 /\ DOMAIN <<>> = {}
    BY NothingReads
  <2>2. n \in Nat /\ n <= Len(Here.urls) /\ 1 <= n + 1 /\ 0 < 1 /\ ~(0 + 1 < 1)
    BY <1>3, <1>8
  <2>3. QED
    BY <1>1, <1>5, <1>9, <1>10, <2>1, <2>2 DEF LinksFit
<1>16. MergedFits'
  <2>1. SoundReads(readFiles, Current, link - 1, merged.errors)' = {}
    BY <1>2, <1>5, <1>10 DEF SoundReads
  <2>2. FrameworksFound(portfolio', {}) = {} /\ LanguagesFound(portfolio', {}) = {}
    BY FoundTogether
  <2>3. { e.framework : e \in {} } = {}
    OBVIOUS
  <2>4. QED
    BY <1>9, <2>1, <2>2, <2>3 DEF MergedFits
<1>17. BudgetFits'
  <2>1. <<Current, link>>' \notin ReadLinks'
    <3>1. ASSUME NEW r \in readFiles, <<r[1], r[2]>> = <<Current, 1>> PROVE FALSE
      BY <1>2, <3>1
    <3>2. <<Current, 1>> \notin ReadLinks
      BY <3>1 DEF ReadLinks
    <3>3. QED
      BY <1>5, <1>10, <3>2
  <2>2. LinksLeft' = n + 1 - 1 - 0
    BY <1>5, <1>9, <1>11, <2>1 DEF LinksLeft
  <2>3. PICK c \in Nat : c = Cardinality(ReadLinks)
    BY <1>2
  <2>4. c + b + 0 <= MaxRepos
    BY <1>2, <1>7, <2>3
  <2>5. c + (b - n) + (n + 1 - 1 - 0) <= MaxRepos
    BY <1>8, <2>4, RepoBoundAssumption
  <2>6. QED
    BY <1>5, <1>7, <1>10, <2>2, <2>3, <2>5 DEF BudgetFits
<1>18. QED
  BY <1>5, <1>11, <1>12, <1>13, <1>14, <1>15, <1>16, <1>17 DEF GithubInv

\* One project more is finished: the others stay as they are.
LEMMA ProjectDone ==
  ASSUME GithubTypes, Finished, BudgetFits, LinksLeft \in Int, LinksLeft >= 0, NEW rec, NEW c, c = Current,
         portfolio' = portfolio, link' = link, budget' = budget, merged' = merged, data' = data,
         readFiles' = readFiles, checked' = Append(checked, rec), asking' = "project",
         Len(checked) < Len(portfolio), portfolio[c].urls # <<>> => ProjectShown(c)'
  PROVE  GithubInv'
<1>1. PICK n \in Nat : n = Len(checked)
  BY ListAppends DEF GithubTypes
<1>2. /\ IsList(checked') /\ DOMAIN checked = 1 .. n /\ DOMAIN checked' = 1 .. n + 1 /\ Len(checked') = n + 1
      /\ \A i \in 1 .. n : checked'[i] = checked[i]
  BY <1>1, ListAppends DEF GithubTypes
<1>3. c = n + 1 /\ Current' = n + 2 /\ n + 1 <= Len(portfolio)
  <2>1. (n + 1) + 1 = n + 2
    OBVIOUS
  <2>2. Len(portfolio) \in Nat
    BY PortfolioAssumption, ListAppends DEF GithubTypes
  <2>3. n + 1 <= Len(portfolio)
    BY <1>1, <2>2
  <2>4. QED
    BY <1>1, <1>2, <2>1, <2>3 DEF Current
<1>4. ReadLinks' = ReadLinks
  BY DEF ReadLinks
<1>5. asking' \notin Reading
  BY DEF Reading
<1>6. \A r \in readFiles : r[1] \in 1 .. n + 1
  BY <1>1 DEF GithubTypes
<1>7. GithubTypes'
  <2>1. \A r \in readFiles : r[1] \in 1 .. (n + 1) + 1
    BY <1>6
  <2>2. IsFiniteSet(ReadLinks)'
    BY <1>4 DEF GithubTypes
  <2>3. \A r \in readFiles' : r = <<r[1], r[2], r[3]>> /\ r[1] \in 1 .. Len(checked') + 1 /\ r[2] \in Nat
    BY <1>2, <2>1 DEF GithubTypes
  <2>4. IsList(checked') /\ Len(checked') <= Len(portfolio')
    BY <1>2, <1>3
  <2>5. QED
    BY <2>2, <2>3, <2>4 DEF GithubTypes
<1>8. ReadsFit'
  BY <1>3, <1>6 DEF ReadsFit
<1>9. Finished'
  <2>1. ASSUME NEW i \in 1 .. n + 1, portfolio[i].urls # <<>> PROVE ProjectShown(i)'
    <3>1. CASE i = n + 1
      BY <1>3, <2>1, <3>1
    <3>2. CASE i # n + 1
      <4>1. i \in 1 .. n
        BY <3>2
      <4>2. ProjectShown(i) /\ checked'[i] = checked[i]
        BY <1>2, <2>1, <4>1 DEF Finished
      <4>3. QED
        BY <4>2, ShownStays
    <3>3. QED
      BY <3>1, <3>2
  <2>2. QED
    BY <1>2, <2>1 DEF Finished
<1>10. BudgetFits'
  <2>1. PICK m \in Nat : m = Cardinality(ReadLinks)
    BY FS_CardinalityType DEF GithubTypes
  <2>2. PICK b \in Nat : b = budget
    BY DEF GithubTypes
  <2>3. PICK x \in Int : x = LinksLeft /\ x >= 0
    OBVIOUS
  <2>4. m + b + x <= MaxRepos
    BY <2>1, <2>2, <2>3 DEF BudgetFits
  <2>5. m + b + 0 <= MaxRepos
    BY <2>3, <2>4, RepoBoundAssumption
  <2>6. LinksLeft' = 0
    BY <1>5 DEF LinksLeft
  <2>7. QED
    BY <1>4, <2>1, <2>2, <2>5, <2>6 DEF BudgetFits
<1>11. QED
  BY <1>5, <1>7, <1>8, <1>9, <1>10 DEF GithubInv, Reading

\* A project without a link.
LEMMA PassKept ==
  ASSUME GithubInv, PassOver
  PROVE  GithubInv'
<1>1. PICK rec : rec = [verified |-> {}, unverified |-> {}, ok |-> FALSE, errors |-> <<>>]
  OBVIOUS
<1>2. /\ asking = "project" /\ Len(checked) < Len(portfolio) /\ Here.urls = <<>>
      /\ checked' = Append(checked, rec) /\ asking' = "project"
      /\ portfolio' = portfolio /\ link' = link /\ budget' = budget /\ merged' = merged
      /\ data' = data /\ readFiles' = readFiles
  BY <1>1 DEF PassOver
<1>3. GithubTypes /\ Finished /\ BudgetFits
  BY <1>2 DEF GithubInv
<1>4. LinksLeft = 0
  BY <1>2 DEF LinksLeft, Reading
<1>5. PICK c : c = Current
  OBVIOUS
<1>6. portfolio[c].urls = <<>>
  BY <1>2, <1>5 DEF Here, Current
<1>7. LinksLeft \in Int /\ LinksLeft >= 0
  BY <1>4
<1>8. QED
  BY <1>2, <1>3, <1>5, <1>6, <1>7, ProjectDone

\* The errors of the URLs past the budget.
Skipped(u, m) == [i \in 1 .. m - u |-> [link |-> u + i, kind |-> "limit_skipped"]]

\* Every link has one error at most.
OncePerLink(errors) == \A j, k \in DOMAIN errors : errors[j].link = errors[k].link => j = k

\* Up to a link, two lists name the same ones.
SameUpTo(u, all, errors) ==
  \A l \in 0 .. u : (\A k \in DOMAIN all : all[k].link # l) <=> \A k \in DOMAIN errors : errors[k].link # l

\* What they add to the errors: links that were not in hand.
LEMMA SkippedAdd ==
  ASSUME NEW errors, IsList(errors), NEW u \in Nat, NEW m \in Nat, u <= m,
         \A k \in DOMAIN errors : errors[k].link \in 1 .. u,
         OncePerLink(errors),
         NEW all, all = errors \o Skipped(u, m)
  PROVE  /\ IsList(all) /\ Len(all) = Len(errors) + (m - u) /\ Len(errors) \in Nat
         /\ OncePerLink(all) /\ SameUpTo(u, all, errors)
<1>1. PICK d \in Nat : d = m - u
  OBVIOUS
<1>2. PICK skipped : skipped = Skipped(u, m)
  OBVIOUS
<1>3. all = errors \o skipped
  BY <1>2
<1>4. skipped = [i \in 1 .. d |-> skipped[i]] /\ \A i \in 1 .. d : skipped[i].link = u + i
  BY <1>1, <1>2 DEF Skipped
<1>5. IsList(skipped) /\ Len(skipped) = d /\ DOMAIN skipped = 1 .. d
  BY <1>4, AList
<1>6. PICK n \in Nat : n = Len(errors)
  BY ListAppends
<1>7. IsList(all)
  BY <1>3, <1>5, ListsJoin
<1>8. DOMAIN errors = 1 .. n
  BY <1>6, ListAppends
<1>9. DOMAIN all = 1 .. n + d
  <2> DEFINE Upto(x) == DOMAIN all = 1 .. x
  <2>1. Upto(Len(errors) + Len(skipped))
    BY <1>3, <1>5, ListsJoin
  <2>2. QED
    BY <1>5, <1>6, <2>1
<1>10. \A i \in 1 .. n : all[i] = errors[i]
  BY <1>3, <1>5, <1>6, ListsJoin
<1>11. \A i \in 1 .. d : all[n + i] = skipped[i]
  <2>1. \A i \in 1 .. Len(skipped) : all[Len(errors) + i] = skipped[i]
    BY <1>3, <1>5, ListsJoin
  <2>2. QED
    BY <1>5, <1>6, <2>1
<1>12. Len(all) = n + d
  <2>1. DOMAIN all = 1 .. Len(all) /\ Len(all) \in Nat
    BY <1>7, ListAppends
  <2>2. QED
    BY <1>9, <2>1
<1>13. ASSUME NEW k \in 1 .. n + d
       PROVE  \/ k \in 1 .. n /\ all[k] = errors[k] /\ all[k].link \in 1 .. u
              \/ k \notin 1 .. n /\ all[k].link = u + (k - n) /\ k - n \in 1 .. d
  <2>1. CASE k \in 1 .. n
    BY <1>8, <1>10, <2>1
  <2>2. CASE k \notin 1 .. n
    <3>1. PICK i : i = k - n
      OBVIOUS
    <3>2. i \in 1 .. d /\ k = n + i
      BY <2>2, <3>1
    <3>3. all[k].link = u + i
      BY <1>4, <1>11, <3>2
    <3>4. QED
      BY <2>2, <3>1, <3>2, <3>3
  <2>3. QED
    BY <2>1, <2>2
<1>14. ASSUME NEW j \in 1 .. n + d, NEW k \in 1 .. n + d, all[j].link = all[k].link PROVE j = k
  <2>1. CASE j \in 1 .. n /\ k \in 1 .. n
    BY <1>8, <1>10, <1>14, <2>1 DEF OncePerLink
  <2>2. CASE j \notin 1 .. n /\ k \notin 1 .. n
    <3>1. u + (j - n) = u + (k - n)
      BY <1>13, <1>14, <2>2
    <3>2. QED
      BY <3>1
  <2>3. CASE j \in 1 .. n /\ k \notin 1 .. n
    <3>1. all[j].link \in 1 .. u /\ all[k].link = u + (k - n) /\ k - n \in 1 .. d
      BY <1>13, <2>3
    <3>2. PICK i \in 1 .. d : i = k - n
      BY <3>1
    <3>3. u + i \notin 1 .. u
      OBVIOUS
    <3>4. QED
      BY <1>14, <3>1, <3>2, <3>3
  <2>4. CASE j \notin 1 .. n /\ k \in 1 .. n
    <3>1. all[k].link \in 1 .. u /\ all[j].link = u + (j - n) /\ j - n \in 1 .. d
      BY <1>13, <2>4
    <3>2. PICK i \in 1 .. d : i = j - n
      BY <3>1
    <3>3. u + i \notin 1 .. u
      OBVIOUS
    <3>4. QED
      BY <1>14, <3>1, <3>2, <3>3
  <2>5. QED
    BY <2>1, <2>2, <2>3, <2>4
<1>15. ASSUME NEW l \in 0 .. u
       PROVE  (\A k \in 1 .. n + d : all[k].link # l) <=> \A k \in 1 .. n : errors[k].link # l
  <2>1. ASSUME NEW k \in 1 .. n + d, all[k].link = l PROVE k \in 1 .. n /\ errors[k].link = l
    <3>1. CASE k \in 1 .. n
      BY <1>10, <2>1, <3>1
    <3>2. CASE k \notin 1 .. n
      <4>1. all[k].link = u + (k - n) /\ k - n \in 1 .. d
        BY <1>13, <3>2
      <4>2. PICK i \in 1 .. d : i = k - n
        BY <4>1
      <4>3. u + i # l
        OBVIOUS
      <4>4. QED
        BY <2>1, <4>1, <4>2, <4>3
    <3>3. QED
      BY <3>1, <3>2
  <2>2. ASSUME NEW k \in 1 .. n PROVE k \in 1 .. n + d /\ all[k] = errors[k]
    <3>1. k \in 1 .. n + d
      OBVIOUS
    <3>2. QED
      BY <1>10, <3>1
  <2>3. QED
    BY <2>1, <2>2
<1>16. QED
  BY <1>1, <1>6, <1>7, <1>8, <1>9, <1>12, <1>14, <1>15 DEF OncePerLink, SameUpTo

\* The claims of the project in hand are compared with what was read of it.
LEMMA ReconcileKept ==
  ASSUME GithubInv, Reconcile
  PROVE  GithubInv'
<1>1. asking = "url" /\ link > merged.use
  BY DEF Reconcile
<1>2. asking \in Reading
  BY <1>1 DEF Reading
<1>3. GithubTypes /\ ReadsFit /\ Finished /\ BudgetFits /\ LinksFit /\ MergedFits
  BY <1>1, <1>2 DEF GithubInv
<1>4. PICK u \in Nat : u = merged.use
  BY <1>3 DEF LinksFit
<1>5. PICK l \in Nat : l = link /\ l # 0
  BY <1>3 DEF GithubTypes
<1>6. l = u + 1
  <2>1. l <= u + 1 /\ l > u
    BY <1>1, <1>3, <1>4, <1>5 DEF LinksFit
  <2>2. QED
    BY <2>1
<1>7. PICK errors : errors = merged.errors
  OBVIOUS
<1>8. PICK m \in Nat : m = Len(Here.urls)
  <2>1. IsList(portfolio) /\ \A i \in DOMAIN portfolio : IsList(portfolio[i].urls)
    BY <1>3, PortfolioAssumption DEF GithubTypes
  <2>2. DOMAIN portfolio = 1 .. Len(portfolio) /\ Len(portfolio) \in Nat
    BY <2>1, ListAppends
  <2>3. PICK n \in Nat : n = Len(checked)
    BY <1>3, ListAppends DEF GithubTypes
  <2>4. n + 1 \in DOMAIN portfolio
    BY <1>3, <2>2, <2>3 DEF LinksFit
  <2>5. IsList(Here.urls)
    BY <2>1, <2>3, <2>4 DEF Here
  <2>6. PICK urls : urls = Here.urls
    OBVIOUS
  <2>7. Len(urls) \in Nat
    BY <2>5, <2>6, ListAppends
  <2>8. QED
    BY <2>6, <2>7
<1>9. /\ u <= m /\ IsList(errors) /\ Len(errors) < l /\ (merged.ok <=> Len(errors) + 1 < l)
      /\ \A k \in DOMAIN errors : errors[k].link \in 1 .. l - 1
      /\ \A j, k \in DOMAIN errors : errors[j].link = errors[k].link => j = k
  BY <1>3, <1>4, <1>5, <1>7, <1>8 DEF LinksFit
<1>10. l - 1 = u
  BY <1>6
<1>11. PICK all : all = errors \o Skipped(u, m)
  OBVIOUS
<1>12. /\ IsList(all) /\ Len(all) = Len(errors) + (m - u) /\ Len(errors) \in Nat
       /\ \A j, k \in DOMAIN all : all[j].link = all[k].link => j = k
       /\ \A x \in 0 .. u : (\A k \in DOMAIN all : all[k].link # x) <=> \A k \in DOMAIN errors : errors[k].link # x
  <2>1. \A k \in DOMAIN errors : errors[k].link \in 1 .. u
    BY <1>9, <1>10
  <2>2. QED
    <3>1. u <= m /\ IsList(errors) /\ OncePerLink(errors)
      BY <1>9 DEF OncePerLink
    <3>2. IsList(all) /\ Len(all) = Len(errors) + (m - u) /\ Len(errors) \in Nat
      BY <1>11, <2>1, <3>1, SkippedAdd
    <3>3. OncePerLink(all) /\ SameUpTo(u, all, errors)
      BY <1>11, <2>1, <3>1, SkippedAdd
    <3>4. QED
      BY <3>2, <3>3 DEF OncePerLink, SameUpTo
<1>13. PICK said : said = Here.claimed
  OBVIOUS
<1>14. PICK rec : rec = [verified |-> { t \in said : Backed(t) }, unverified |-> { t \in said : ~Backed(t) },
                         ok |-> merged.ok, errors |-> all]
  OBVIOUS
<1>15. checked' = Append(checked, rec)
  BY <1>4, <1>7, <1>8, <1>11, <1>13, <1>14 DEF Reconcile, Skipped
<1>16. /\ portfolio' = portfolio /\ link' = link /\ budget' = budget /\ merged' = merged
       /\ data' = data /\ readFiles' = readFiles /\ asking' = "project"
  BY DEF Reconcile
<1>17. PICK c : c = Current
  OBVIOUS
<1>18. checked'[c] = rec
  <2>1. Append(checked, rec)[Len(checked) + 1] = rec
    BY <1>3, ListAppends DEF GithubTypes
  <2>2. QED
    BY <1>15, <1>17, <2>1 DEF Current
<1>19. /\ checked'[c].verified = { t \in said : Backed(t) }
       /\ checked'[c].unverified = { t \in said : ~Backed(t) }
       /\ checked'[c].ok = merged.ok /\ checked'[c].errors = all
  BY <1>14, <1>18
<1>20. portfolio[c] = Here
  BY <1>17 DEF Here, Current
<1>21. PICK reads : reads = SoundReads(readFiles, c, u, errors)
  OBVIOUS
<1>22. /\ { e.framework : e \in merged.evidence } = FrameworksFound(portfolio, reads)
       /\ merged.languages = LanguagesFound(portfolio, reads)
  BY <1>3, <1>5, <1>7, <1>10, <1>17, <1>21 DEF MergedFits
<1>23. ASSUME NEW r \in readFiles
       PROVE  (r[1] = c /\ \A e \in Range(all) : e.link # r[2]) <=> r \in reads
  <2>1. Range(all) = { all[k] : k \in DOMAIN all }
    BY DEF Range
  <2>2. (\A e \in Range(all) : e.link # r[2]) <=> \A k \in DOMAIN all : all[k].link # r[2]
    BY <2>1
  <2>3. r[1] = c => r[2] \in 0 .. u
    <3>1. ASSUME r[1] = c PROVE r[2] \in 0 .. u
      <4>1. r[2] <= l /\ r[2] # l /\ r[2] \in Nat
        BY <1>1, <1>2, <1>3, <1>5, <1>17, <3>1 DEF ReadsFit, GithubTypes
      <4>2. QED
        BY <1>6, <4>1
    <3>2. QED
      BY <3>1
  <2>4. r[2] \in 0 .. u =>
          ((\A k \in DOMAIN all : all[k].link # r[2]) <=> \A k \in DOMAIN errors : errors[k].link # r[2])
    BY <1>12
  <2>5. r[2] \in 0 .. u => r[2] <= u
    OBVIOUS
  <2>6. QED
    BY <1>21, <2>2, <2>3, <2>4, <2>5 DEF SoundReads
<1>24. ASSUME NEW t PROVE ShownBy(c, t)' <=> Backed(t)
  <2>1. ASSUME NEW r \in reads
        PROVE  /\ r[1] = c /\ r \in readFiles
               /\ LanguagesRead(portfolio, r) = Repositories[portfolio[c].urls[r[2]]].languages
               /\ FrameworksRead(portfolio, r)
                    = Frameworks(Tokens(r[3], Repositories[portfolio[c].urls[r[2]]].text[r[3]]))
    BY <1>21 DEF SoundReads, LanguagesRead, FrameworksRead
  <2>2. ShownBy(c, t)' <=>
          \E r \in reads : IF r[3] = Statistics THEN t \in LanguagesRead(portfolio, r)
                           ELSE \/ t \in FrameworksRead(portfolio, r)
                                \/ t \in DOMAIN Alias /\ Alias[t] \in FrameworksRead(portfolio, r)
    <3>1. ShownBy(c, t)' <=>
            \E r \in readFiles :
              /\ r[1] = c
              /\ \A e \in Range(all) : e.link # r[2]
              /\ IF r[3] = Statistics THEN t \in Repositories[portfolio[c].urls[r[2]]].languages
                 ELSE \/ t \in Frameworks(Tokens(r[3], Repositories[portfolio[c].urls[r[2]]].text[r[3]]))
                      \/ t \in DOMAIN Alias /\ Alias[t] \in
                           Frameworks(Tokens(r[3], Repositories[portfolio[c].urls[r[2]]].text[r[3]]))
      BY <1>16, <1>19 DEF ShownBy
    <3>2. QED
      BY <1>23, <2>1, <3>1
  <2>3. Backed(t) <=> \/ t \in FrameworksFound(portfolio, reads) \cup LanguagesFound(portfolio, reads)
                      \/ t \in DOMAIN Alias /\ Alias[t] \in FrameworksFound(portfolio, reads)
    BY <1>22 DEF Backed
  <2>4. \A x : x \in FrameworksFound(portfolio, reads)
                 <=> \E r \in reads : r[3] # Statistics /\ x \in FrameworksRead(portfolio, r)
    BY DEF FrameworksFound
  <2>5. \A x : x \in LanguagesFound(portfolio, reads)
                 <=> \E r \in reads : r[3] = Statistics /\ x \in LanguagesRead(portfolio, r)
    BY DEF LanguagesFound
  <2>6. QED
    BY <2>2, <2>3, <2>4, <2>5
<1>25. ProjectShown(c)'
  <2>1. checked'[c].verified = { t \in portfolio[c].claimed : ShownBy(c, t)' }
    BY <1>13, <1>19, <1>20, <1>24
  <2>2. checked'[c].unverified = portfolio[c].claimed \ checked'[c].verified
    BY <1>13, <1>19, <1>20
  <2>3. checked'[c].ok <=> Len(checked'[c].errors) < Len(portfolio[c].urls)
    <3>1. PICK n \in Nat : n = Len(errors)
      BY <1>12
    <3>2. n + 1 < l <=> n + (m - u) < m
      BY <1>6
    <3>3. QED
      BY <1>8, <1>9, <1>12, <1>19, <1>20, <3>1, <3>2
  <2>4. IsInjective([ k \in DOMAIN all |-> all[k].link ])
    BY <1>12 DEF IsInjective
  <2>5. QED
    BY <1>16, <1>19, <2>1, <2>2, <2>3, <2>4 DEF ProjectShown
<1>26. LinksLeft \in Int /\ LinksLeft >= 0
  <2>1. <<Current, link>> \notin ReadLinks
    <3>1. ASSUME NEW r \in readFiles, <<r[1], r[2]>> = <<Current, link>> PROVE FALSE
      <4>1. r[1] = Current /\ r[2] = link
        BY <3>1
      <4>2. QED
        BY <1>1, <1>3, <4>1 DEF ReadsFit
    <3>2. QED
      BY <3>1 DEF ReadLinks
  <2>2. LinksLeft = u + 1 - l
    BY <1>2, <1>4, <1>5, <2>1, LinksLeftIs
  <2>3. QED
    BY <1>6, <2>2
<1>27. Len(checked) < Len(portfolio)
  BY <1>3 DEF LinksFit
<1>28. QED
  BY <1>3, <1>15, <1>16, <1>17, <1>25, <1>26, <1>27, ProjectDone

\* GithubInv holds at the start ...
LEMMA GithubStarts == GithubInit => GithubInv
<1> SUFFICES ASSUME GithubInit PROVE GithubInv
  OBVIOUS
<1>1. /\ portfolio \in Portfolio /\ checked = <<>> /\ asking = "project" /\ link = 1 /\ budget = MaxRepos
      /\ merged = NothingMerged /\ data = NothingRead /\ readFiles = {}
  BY DEF GithubInit
<1>2. IsList(<<>>) /\ Len(<<>>) = 0 /\ DOMAIN <<>> = {}
  BY NothingReads
<1>3. ReadLinks = {}
  BY <1>1 DEF ReadLinks
<1>4. IsFiniteSet(ReadLinks) /\ Cardinality(ReadLinks) = 0
  BY <1>3, FS_EmptySet
<1>5. asking \notin Reading
  BY <1>1 DEF Reading
<1>6. GithubTypes
  <2>1. Len(portfolio) \in Nat
    BY <1>1, PortfolioAssumption, ListAppends
  <2>2. QED
    BY <1>1, <1>2, <1>4, <2>1, RepoBoundAssumption DEF GithubTypes
<1>7. ReadsFit /\ Finished
  BY <1>1, <1>2 DEF ReadsFit, Finished
<1>8. BudgetFits
  <2>1. LinksLeft = 0
    BY <1>5 DEF LinksLeft
  <2>2. QED
    BY <1>1, <1>4, <2>1, RepoBoundAssumption DEF BudgetFits
<1>9. QED
  BY <1>1, <1>5, <1>6, <1>7, <1>8 DEF GithubInv

\* ... and is kept.
LEMMA GithubKept == GithubInv /\ [GithubNext]_githubVars => GithubInv'
<1> SUFFICES ASSUME GithubInv, [GithubNext]_githubVars PROVE GithubInv'
  OBVIOUS
<1>1. CASE StartProject
  BY <1>1, StartKept
<1>2. CASE PassOver
  BY <1>2, PassKept
<1>3. CASE ParseUrl
  BY <1>3, UrlKept
<1>4. CASE Reconcile
  BY <1>4, ReconcileKept
<1>5. CASE AllDone
  <2>1. /\ asking = "project" /\ Len(checked) = Len(portfolio) /\ asking' = "done"
        /\ portfolio' = portfolio /\ checked' = checked /\ link' = link /\ budget' = budget
        /\ merged' = merged /\ data' = data /\ readFiles' = readFiles
    BY <1>5 DEF AllDone
  <2>2. /\ GithubTypes /\ Finished /\ \A r \in readFiles : r[1] # Current
        /\ Cardinality(ReadLinks) + budget + 0 <= MaxRepos
    BY <2>1, BetweenProjects
  <2>3. asking' \notin Reading /\ ReadLinks' = ReadLinks /\ Current' = Current
    BY <2>1 DEF Reading, ReadLinks, Current
  <2>4. GithubTypes'
    BY <2>1, <2>2, <2>3 DEF GithubTypes
  <2>5. ReadsFit'
    BY <2>1, <2>2, <2>3 DEF ReadsFit
  <2>6. Finished'
    BY <2>1, <2>2, FinishedStays
  <2>7. BudgetFits'
    <3>1. LinksLeft' = 0
      BY <2>3 DEF LinksLeft
    <3>2. QED
      BY <2>1, <2>2, <2>3, <3>1 DEF BudgetFits
  <2>8. QED
    BY <2>1, <2>3, <2>4, <2>5, <2>6, <2>7 DEF GithubInv
<1>6. CASE Extract
  BY <1>6, ExtractKept
<1>7. ASSUME NEW status \in Status,
             ReadMeta(status) \/ ReadLanguages(status) \/ ReadTree(status) \/ ReadFile(status)
      PROVE  GithubInv'
  BY <1>7, MetaKept, LanguagesKept, TreeKept, FileKept
<1>8. CASE UNCHANGED githubVars
  <2>1. /\ asking' = asking /\ portfolio' = portfolio /\ checked' = checked /\ link' = link /\ budget' = budget
        /\ merged' = merged /\ data' = data /\ readFiles' = readFiles
    BY <1>8 DEF githubVars
  <2>2. GithubTypes /\ Finished
    BY DEF GithubInv
  <2>3. Finished'
    BY <2>1, <2>2, FinishedStays
  <2>4. /\ Current' = Current /\ ReadLinks' = ReadLinks /\ Here' = Here /\ Url' = Url
    BY <2>1 DEF Current, ReadLinks, Here, Url
  <2>5. LinksLeft' = LinksLeft
    BY <2>1, <2>4 DEF LinksLeft
  <2>6. GithubTypes' = GithubTypes /\ ReadsFit' = ReadsFit
    BY <2>1, <2>4 DEF GithubTypes, ReadsFit
  <2>7. BudgetFits' = BudgetFits /\ PendingFits' = PendingFits
    BY <2>1, <2>4, <2>5 DEF BudgetFits, PendingFits
  <2>8. LinksFit' = LinksFit
    BY <2>1, <2>4 DEF LinksFit
  <2>9. MergedFits' = MergedFits /\ DataFits' = DataFits
    BY <2>1, <2>4 DEF MergedFits, DataFits
  <2>10. QED
    BY <2>1, <2>3, <2>6, <2>7, <2>8, <2>9 DEF GithubInv
<1>9. QED
  BY <1>1, <1>2, <1>3, <1>4, <1>5, <1>6, <1>7, <1>8 DEF GithubNext

\* GithubInv says what is shown at the end.
LEMMA GithubSays == GithubInv => TechniquesAreShown
<1> SUFFICES ASSUME GithubInv, asking = "done" PROVE TechniquesAreShown
  BY DEF TechniquesAreShown
<1>1. GithubTypes /\ Finished /\ BudgetFits /\ Len(checked) = Len(portfolio) /\ asking \notin Reading
  BY DEF GithubInv, Reading
<1>2. DOMAIN checked = DOMAIN portfolio
  <2>1. IsList(portfolio) /\ IsList(checked)
    BY <1>1, PortfolioAssumption DEF GithubTypes
  <2>2. QED
    BY <1>1, <2>1, ListAppends
<1>3. \A i \in DOMAIN portfolio : portfolio[i].urls # <<>> => ProjectShown(i)
  BY <1>1, <1>2 DEF Finished
<1>4. Cardinality(ReadLinks) <= MaxRepos
  <2>1. PICK c \in Nat : c = Cardinality(ReadLinks)
    BY <1>1, FS_CardinalityType DEF GithubTypes
  <2>2. PICK b \in Nat : b = budget
    BY <1>1 DEF GithubTypes
  <2>3. LinksLeft = 0
    BY <1>1 DEF LinksLeft
  <2>4. c + b + 0 <= MaxRepos
    BY <1>1, <2>1, <2>2, <2>3 DEF BudgetFits
  <2>5. QED
    BY <2>1, <2>4, RepoBoundAssumption
<1>5. QED
  BY <1>3, <1>4 DEF TechniquesAreShown

\* A card shows what was selected for the job description, and a technique is called verified
\* exactly when something that was read for that very project shows it, whatever fails.
THEOREM ShownAsChosenCorrect == TextSpec /\ GithubSpec => []ShownAsChosen
<1>1. TextSpec => []CardShowsSelection
  BY TextKept, TextSays, PTL DEF TextSpec
<1>2. GithubSpec => []TechniquesAreShown
  BY GithubStarts, GithubKept, GithubSays, PTL DEF GithubSpec
<1>3. CardShowsSelection /\ TechniquesAreShown => ShownAsChosen
  BY DEF ShownAsChosen
<1>4. QED
  BY <1>1, <1>2, <1>3, PTL

-----------------------------------------------------------------------------
(* The match of a resume *)

\* What the engines make of a resume, whatever it tells.
Tells(p, c) ==
  /\ c = [techs |-> c.techs, evidence |-> c.evidence, years |-> c.years, education |-> c.education]
  /\ c.years \in Nat
  /\ \A i \in DOMAIN p.traits, e \in c.evidence \cup Stories : Likeness[p.traits[i]][e] \in 0 .. 1000

\* d tells all that c tells.
TellsMore(c, d) ==
  /\ c.techs \subseteq d.techs /\ c.evidence \subseteq d.evidence /\ c.years <= d.years
  /\ EducationRank(c.education) <= EducationRank(d.education)

MatchInv == posting \in Postings /\ Tells(posting, cv) /\ outcome = Outcome(posting, cv)

\* What is said of two resumes of which the second tells more.
NotWorse(p, c, d) ==
  /\ Outcome(p, d).score >= Outcome(p, c).score
  /\ Outcome(p, d).interval.label >= Outcome(p, c).interval.label
  /\ Outcome(p, c).matched \subseteq Outcome(p, d).matched
  /\ Outcome(p, d).gap.required \subseteq Outcome(p, c).gap.required
  /\ Outcome(p, d).gap.preferred \subseteq Outcome(p, c).gap.preferred
  /\ Outcome(p, d).gap.years <= Outcome(p, c).gap.years
  /\ Outcome(p, c).gap.educationFits => Outcome(p, d).gap.educationFits
  /\ c.evidence # {} => Outcome(p, d).gap.weak \subseteq Outcome(p, c).gap.weak

\* And of one.
WellSaid(p, d) ==
  /\ Outcome(p, d).gap.required \cup Outcome(p, d).gap.preferred \subseteq Normals(p.techs)
  /\ \A t \in Outcome(p, d).gap.required \cup Outcome(p, d).gap.preferred, s \in d.techs :
       s # t /\ (s \in DOMAIN Canon => Canon[s] # t)
  /\ Outcome(p, d).score \in Outcome(p, d).interval.low .. Outcome(p, d).interval.high

\* What a score is, out of 1000.
OfThousand(x) == x \in Int /\ 0 <= x /\ x <= 1000

\* The greatest of some likenesses is one of them.
LEMMA MaxOfSome ==
  ASSUME NEW S \in SUBSET (0 .. 1000), S # {}
  PROVE  Max(S) \in S /\ \A y \in S : Max(S) >= y
<1>1. PICK n \in S : \A m \in S : m <= n
  <2>1. \A N \in Nat : S \in SUBSET (0 .. N) => \E n \in S : \A m \in S : m <= n
    BY GreatestElement
  <2>2. 1000 \in Nat
    OBVIOUS
  <2>3. QED
    BY <2>1, <2>2
<1>2. \A y \in S : n >= y
  BY <1>1
<1>3. QED
  BY <1>2 DEF Max

\* More evidence is as like a trait.
LEMMA MoreEvidence ==
  ASSUME NEW p, NEW c, NEW d, Tells(p, d), c.evidence \subseteq d.evidence, c.evidence # {},
         NEW i \in DOMAIN p.traits
  PROVE  /\ OfThousand(BestLikeness(p.traits[i], c)) /\ OfThousand(BestLikeness(p.traits[i], d))
         /\ BestLikeness(p.traits[i], c) <= BestLikeness(p.traits[i], d)
<1> DEFINE S == { Likeness[p.traits[i]][e] : e \in c.evidence }
<1> DEFINE T == { Likeness[p.traits[i]][e] : e \in d.evidence }
<1>1. S \in SUBSET T /\ S # {} /\ T \in SUBSET (0 .. 1000)
  BY DEF Tells
<1>2. BestLikeness(p.traits[i], c) = Max(S) /\ BestLikeness(p.traits[i], d) = Max(T)
  BY DEF BestLikeness
<1> HIDE DEF S, T
<1>3. Max(S) \in S /\ Max(T) \in T /\ \A y \in T : Max(T) >= y
  <2>1. S \in SUBSET (0 .. 1000) /\ T # {}
    BY <1>1
  <2>2. Max(S) \in S
    BY <1>1, <2>1, MaxOfSome
  <2>3. Max(T) \in T /\ \A y \in T : Max(T) >= y
    BY <1>1, <2>1, MaxOfSome
  <2>4. QED
    BY <2>2, <2>3
<1>4. Max(S) \in T
  BY <1>1, <1>3
<1>5. OfThousand(Max(S)) /\ OfThousand(Max(T)) /\ Max(T) >= Max(S)
  <2>1. \A x \in 0 .. 1000 : OfThousand(x)
    BY DEF OfThousand
  <2>2. Max(S) \in 0 .. 1000 /\ Max(T) \in 0 .. 1000 /\ Max(T) >= Max(S)
    BY <1>1, <1>3, <1>4
  <2>3. QED
    BY <2>1, <2>2
<1>6. Max(S) <= Max(T)
  BY <1>5 DEF OfThousand
<1>7. QED
  BY <1>2, <1>5, <1>6

LEMMA HalfGrows ==
  ASSUME NEW a \in Int, NEW b \in Int, a <= b, NEW d \in Nat \ {0}
  PROVE  Half(a, d) \in Int /\ Half(b, d) \in Int /\ Half(a, d) <= Half(b, d)
<1>1. a * d <= b * d
  OBVIOUS
<1>2. QED
  BY <1>1, RatioGrows DEF Half

\* A share of 1000 is none below 0 and none above 1000.
LEMMA HalfWithin ==
  ASSUME NEW a \in Int, NEW d \in Nat \ {0}, 0 <= a, a <= 1000 * d
  PROVE  OfThousand(Half(a, d))
<1>1. Half(0 * d, d) = 0 /\ Half(1000 * d, d) = 1000
  BY RatioOfWhole DEF Half
<1>2. 0 * d \in Int /\ 1000 * d \in Int /\ 0 * d <= a
  OBVIOUS
<1>3. Half(0 * d, d) <= Half(a, d) /\ Half(a, d) <= Half(1000 * d, d) /\ Half(a, d) \in Int
  BY <1>2, HalfGrows
<1>4. QED
  BY <1>1, <1>3 DEF OfThousand

\* Each engine's score is one of 1000 and grows with the resume: of the techs, ...
LEMMA TechScoreGrows ==
  ASSUME NEW p, IsFiniteSet(p.techs), NEW c, NEW d, c.techs \subseteq d.techs
  PROVE  OfThousand(TechScore(p, c)) /\ OfThousand(TechScore(p, d)) /\ TechScore(p, c) <= TechScore(p, d)
<1>1. CASE p.techs = {}
  <2>1. TechScore(p, c) = 0 /\ TechScore(p, d) = 0 /\ OfThousand(0) /\ 0 <= 0
    BY <1>1 DEF TechScore, OfThousand
  <2>2. QED
    BY <2>1
<1>2. CASE p.techs # {}
  <2> DEFINE N == Normals(p.techs)
  <2> DEFINE f == [n \in p.techs |-> Normal(n)]
  <2>1. f \in Surjection(p.techs, N)
    <3>1. N = { f[n] : n \in p.techs }
      BY DEF Normals
    <3> HIDE DEF N
    <3>2. f \in [p.techs -> N] /\ \A t \in N : \E n \in p.techs : f[n] = t
      BY <3>1
    <3>3. QED
      BY <3>2 DEF Surjection
  <2>2. N # {}
    BY <1>2 DEF Normals
  <2>3. Matched(p, c) \in SUBSET Matched(p, d) /\ Matched(p, d) \in SUBSET N
    BY DEF Matched, Normals
  <2> HIDE DEF f, N
  <2>4. IsFiniteSet(N)
    BY <2>1, FS_Surjection
  <2>5. PICK n \in Nat \ {0} : n = Cardinality(N)
    BY <2>2, <2>4, FS_CardinalityType, FS_EmptySet
  <2>6. IsFiniteSet(Matched(p, d)) /\ Cardinality(Matched(p, d)) <= n
    BY <2>3, <2>4, <2>5, FS_Subset
  <2>7. IsFiniteSet(Matched(p, c)) /\ Cardinality(Matched(p, c)) <= Cardinality(Matched(p, d))
    BY <2>3, <2>6, FS_Subset
  <2>8. PICK x \in Nat, y \in Nat : x = Cardinality(Matched(p, c)) /\ y = Cardinality(Matched(p, d))
    BY <2>6, <2>7, FS_CardinalityType
  <2>9. x <= y /\ y <= n
    BY <2>6, <2>7, <2>8
  <2>10. TechScore(p, c) = Half(1000 * x, n) /\ TechScore(p, d) = Half(1000 * y, n)
    BY <1>2, <2>5, <2>8 DEF TechScore, N
  <2>11. /\ 1000 * x \in Int /\ 1000 * y \in Int /\ 0 <= 1000 * x /\ 0 <= 1000 * y
         /\ 1000 * x <= 1000 * y /\ 1000 * x <= 1000 * n /\ 1000 * y <= 1000 * n
    BY <2>9
  <2>12. Half(1000 * x, n) <= Half(1000 * y, n)
    BY <2>11, HalfGrows
  <2>13. OfThousand(Half(1000 * x, n)) /\ OfThousand(Half(1000 * y, n))
    <3>1. PICK u \in Int, v \in Int : u = 1000 * x /\ v = 1000 * y
      BY <2>11
    <3>2. 0 <= u /\ 0 <= v /\ u <= 1000 * n /\ v <= 1000 * n
      BY <2>11, <3>1
    <3>3. QED
      <4>1. OfThousand(Half(u, n))
        BY <2>5, <3>1, <3>2, HalfWithin
      <4>2. OfThousand(Half(v, n))
        BY <2>5, <3>1, <3>2, HalfWithin
      <4>3. QED
        BY <3>1, <4>1, <4>2
  <2>14. QED
    BY <2>10, <2>12, <2>13
<1>3. QED
  BY <1>1, <1>2

LEMMA TraitScoreWithin ==
  ASSUME NEW p, IsList(p.traits), NEW c, Tells(p, c), Compared(p, c)
  PROVE  /\ [i \in DOMAIN p.traits |-> BestLikeness(p.traits[i], c)] \in Seq(Int)
         /\ Total([i \in DOMAIN p.traits |-> BestLikeness(p.traits[i], c)]) \in Int
         /\ TraitScore(p, c) = Half(Total([i \in DOMAIN p.traits |-> BestLikeness(p.traits[i], c)]), Len(p.traits))
         /\ OfThousand(TraitScore(p, c))
<1>1. PICK n \in Nat \ {0} : n = Len(p.traits) /\ DOMAIN p.traits = 1 .. n
  BY DEF IsList, Compared
<1> DEFINE a == [i \in DOMAIN p.traits |-> BestLikeness(p.traits[i], c)]
<1> DEFINE low == [i \in 1 .. n |-> 0]
<1> DEFINE high == [i \in 1 .. n |-> 1000]
<1>2. \A i \in 1 .. n : OfThousand(BestLikeness(p.traits[i], c))
  <2>1. c.evidence \subseteq c.evidence /\ c.evidence # {}
    BY DEF Compared
  <2>2. ASSUME NEW i \in DOMAIN p.traits PROVE OfThousand(BestLikeness(p.traits[i], c))
    BY <2>1, MoreEvidence
  <2>3. QED
    BY <1>1, <2>2
<1>3. a \in Seq(Int) /\ Len(a) = n /\ \A i \in 1 .. n : 0 <= a[i] /\ a[i] <= 1000
  <2>1. a = [i \in 1 .. n |-> BestLikeness(p.traits[i], c)]
    BY <1>1
  <2>2. \A i \in 1 .. n : a[i] \in Int /\ 0 <= a[i] /\ a[i] <= 1000
    BY <1>2, <2>1 DEF OfThousand
  <2> HIDE DEF a
  <2>3. a \in [1 .. n -> Int]
    BY <2>1, <2>2
  <2>4. a \in Seq(Int) /\ Len(a) = n
    BY <2>3
  <2>5. QED
    BY <2>2, <2>4
<1>4. TraitScore(p, c) = Half(Total(a), n)
  BY <1>1 DEF TraitScore
<1>5. /\ low \in Seq(Int) /\ Len(low) = n /\ Total(low) = 0 * n
      /\ high \in Seq(Int) /\ Len(high) = n /\ Total(high) = 1000 * n
  BY TotalOfSame
<1>6. \A i \in 1 .. n : low[i] <= a[i] /\ a[i] <= high[i]
  BY <1>3
<1> HIDE DEF a, low, high
<1>7. Total(a) \in Int /\ Total(low) <= Total(a) /\ Total(a) <= Total(high)
  <2>1. \A i \in 1 .. Len(low) : low[i] <= a[i]
    BY <1>5, <1>6
  <2>2. \A i \in 1 .. Len(a) : a[i] <= high[i]
    BY <1>3, <1>6
  <2>3. Total(low) <= Total(a) /\ Total(a) \in Int
    <3>1. Len(low) = Len(a) /\ low \in Seq(Int) /\ a \in Seq(Int)
      BY <1>3, <1>5
    <3>2. QED
      BY <2>1, <3>1, TotalGrows
  <2>4. Total(a) <= Total(high)
    <3>1. Len(a) = Len(high) /\ high \in Seq(Int) /\ a \in Seq(Int)
      BY <1>3, <1>5
    <3>2. QED
      BY <2>2, <3>1, TotalGrows
  <2>5. QED
    BY <2>3, <2>4
<1>8. 0 <= Total(a) /\ Total(a) <= 1000 * n
  BY <1>5, <1>7
<1>9. OfThousand(Half(Total(a), n))
  BY <1>7, <1>8, HalfWithin
<1>10. QED
  <2>1. TraitScore(p, c) = Half(Total(a), Len(p.traits))
    BY <1>1, <1>4
  <2>2. OfThousand(TraitScore(p, c))
    BY <1>4, <1>9
  <2>3. QED
    BY <1>3, <1>7, <2>1, <2>2 DEF a

\* ... of the traits, ...
LEMMA TraitScoreGrows ==
  ASSUME NEW p, IsList(p.traits), NEW c, NEW d, Tells(p, c), Tells(p, d), c.evidence \subseteq d.evidence
  PROVE  OfThousand(TraitScore(p, c)) /\ OfThousand(TraitScore(p, d)) /\ TraitScore(p, c) <= TraitScore(p, d)
<1>1. OfThousand(TraitScore(p, c)) /\ OfThousand(TraitScore(p, d))
  <2>1. ASSUME NEW e, Tells(p, e) PROVE OfThousand(TraitScore(p, e))
    <3>1. CASE Compared(p, e)
      BY <2>1, <3>1, TraitScoreWithin
    <3>2. CASE ~Compared(p, e)
      <4>1. TraitScore(p, e) = 0
        BY <3>2 DEF TraitScore
      <4>2. QED
        BY <4>1 DEF OfThousand
    <3>3. QED
      BY <3>1, <3>2
  <2>2. QED
    BY <2>1
<1>2. CASE ~Compared(p, c)
  <2>1. TraitScore(p, c) = 0
    BY <1>2 DEF TraitScore
  <2>2. QED
    BY <1>1, <2>1 DEF OfThousand
<1>3. CASE Compared(p, c)
  <2>1. Compared(p, d)
    BY <1>3 DEF Compared
  <2> DEFINE a == [i \in DOMAIN p.traits |-> BestLikeness(p.traits[i], c)]
  <2> DEFINE b == [i \in DOMAIN p.traits |-> BestLikeness(p.traits[i], d)]
  <2>2. PICK n \in Nat \ {0} : n = Len(p.traits) /\ DOMAIN p.traits = 1 .. n
    BY <1>3 DEF IsList, Compared
  <2>3. \A i \in 1 .. n : a[i] <= b[i]
    BY <1>3, <2>2, MoreEvidence DEF Compared
  <2>4. /\ a \in Seq(Int) /\ Total(a) \in Int /\ TraitScore(p, c) = Half(Total(a), n)
        /\ b \in Seq(Int) /\ Total(b) \in Int /\ TraitScore(p, d) = Half(Total(b), n)
    BY <1>3, <2>1, <2>2, TraitScoreWithin
  <2>5. Len(a) = n /\ Len(b) = n
    BY <2>2, <2>4
  <2> HIDE DEF a, b
  <2>6. Total(a) <= Total(b)
    BY <2>3, <2>4, <2>5, TotalGrows
  <2>7. Half(Total(a), n) <= Half(Total(b), n)
    BY <2>4, <2>6, HalfGrows
  <2>8. QED
    BY <1>1, <2>4, <2>7
<1>4. QED
  BY <1>2, <1>3

LEMMA RanksOfEducation == \A e : EducationRank(e) \in 0 .. 3
BY DEF EducationRank

LEMMA EducationStillFits ==
  ASSUME NEW p, NEW c, NEW d, TellsMore(c, d), EducationFits(p, c)
  PROVE  EducationFits(p, d)
<1>1. PICK x \in Int, y \in Int, z \in Int :
        /\ x = EducationRank(p.education) /\ y = EducationRank(c.education) /\ z = EducationRank(d.education)
  BY RanksOfEducation
<1>2. y <= z
  BY <1>1 DEF TellsMore
<1>3. p.education = "any" \/ y >= x
  BY <1>1 DEF EducationFits
<1>4. p.education = "any" \/ z >= x
  BY <1>2, <1>3
<1>5. QED
  BY <1>1, <1>4 DEF EducationFits

\* ... of years and education, ...
LEMMA RuleScoreGrows ==
  ASSUME NEW p, p.years \in Nat, NEW c, NEW d, c.years \in Nat, d.years \in Nat, TellsMore(c, d)
  PROVE  OfThousand(RuleScore(p, c)) /\ OfThousand(RuleScore(p, d)) /\ RuleScore(p, c) <= RuleScore(p, d)
<1>1. CASE ~p.found
  <2>1. RuleScore(p, c) = 0 /\ RuleScore(p, d) = 0
    BY <1>1 DEF RuleScore
  <2>2. QED
    BY <2>1 DEF OfThousand
<1>2. CASE p.found
  <2>1. PICK i \in Nat, j \in Nat : i = YearsShort(p, c) /\ j = YearsShort(p, d) /\ j <= i
    BY DEF YearsShort, TellsMore
  <2>2. /\ Max({0, 400 - 100 * i}) = (IF 0 >= 400 - 100 * i THEN 0 ELSE 400 - 100 * i)
        /\ Max({0, 400 - 100 * j}) = (IF 0 >= 400 - 100 * j THEN 0 ELSE 400 - 100 * j)
    BY MaxOfTwo
  <2>3. PICK x \in Int, y \in Int :
          /\ x = Max({0, 400 - 100 * i}) /\ y = Max({0, 400 - 100 * j})
          /\ 0 <= x /\ x <= y /\ y <= 400
    BY <2>1, <2>2
  <2>4. PICK u \in Int, v \in Int :
          /\ u = (IF EducationFits(p, c) THEN 300 ELSE 0) /\ v = (IF EducationFits(p, d) THEN 300 ELSE 0)
          /\ 0 <= u /\ u <= v /\ v <= 300
    BY EducationStillFits
  <2>5. PICK w \in Int : w = (IF p.roleFits THEN 300 ELSE 0) /\ 0 <= w /\ w <= 300
    OBVIOUS
  <2>6. RuleScore(p, c) = x + u + w /\ RuleScore(p, d) = y + v + w
    BY <1>2, <2>1, <2>3, <2>4, <2>5 DEF RuleScore
  <2>7. OfThousand(x + u + w) /\ OfThousand(y + v + w) /\ x + u + w <= y + v + w
    BY <2>3, <2>4, <2>5 DEF OfThousand
  <2>8. QED
    BY <2>6, <2>7
<1>3. QED
  BY <1>1, <1>2

\* ... and of all three, whatever they weigh.
LEMMA ScoreGrows ==
  ASSUME NEW p \in Postings, NEW c, NEW d, Tells(p, c), Tells(p, d), TellsMore(c, d)
  PROVE  OfThousand(Score(p, c)) /\ OfThousand(Score(p, d)) /\ Score(p, c) <= Score(p, d)
<1>1. IsFiniteSet(p.techs) /\ IsList(p.traits) /\ p.years \in Nat
  BY PostingsAssumption
<1>2. c.years \in Nat /\ d.years \in Nat /\ c.techs \subseteq d.techs /\ c.evidence \subseteq d.evidence
  BY DEF Tells, TellsMore
<1>3. PICK t \in Int, u \in Int : t = TechScore(p, c) /\ u = TechScore(p, d) /\ 0 <= t /\ t <= u /\ u <= 1000
  BY <1>1, <1>2, TechScoreGrows DEF OfThousand
<1>4. PICK x \in Int, y \in Int : x = TraitScore(p, c) /\ y = TraitScore(p, d) /\ 0 <= x /\ x <= y /\ y <= 1000
  BY <1>1, <1>2, TraitScoreGrows DEF OfThousand
<1>5. PICK r \in Int, q \in Int : r = RuleScore(p, c) /\ q = RuleScore(p, d) /\ 0 <= r /\ r <= q /\ q <= 1000
  BY <1>1, <1>2, RuleScoreGrows DEF OfThousand
<1>6. PICK i \in Nat, j \in Nat, k \in Nat :
        /\ i = Weights(p.level).tech /\ j = Weights(p.level).trait /\ k = Weights(p.level).rule
        /\ i \in {40, 45} /\ j \in {20, 40} /\ k = 100 - i - j
  BY DEF Weights
<1> DEFINE a == t * i + x * j + r * k
<1> DEFINE b == u * i + y * j + q * k
<1>7. Score(p, c) = Half(a, 100) /\ Score(p, d) = Half(b, 100)
  BY <1>3, <1>4, <1>5, <1>6 DEF Score
<1>8. a \in Int /\ b \in Int /\ 0 <= a /\ a <= b /\ b <= 1000 * 100
  <2>1. CASE i = 40 /\ j = 40
    BY <1>3, <1>4, <1>5, <1>6, <2>1
  <2>2. CASE i = 40 /\ j = 20
    BY <1>3, <1>4, <1>5, <1>6, <2>2
  <2>3. CASE i = 45 /\ j = 40
    BY <1>3, <1>4, <1>5, <1>6, <2>3
  <2>4. CASE i = 45 /\ j = 20
    BY <1>3, <1>4, <1>5, <1>6, <2>4
  <2>5. QED
    BY <1>6, <2>1, <2>2, <2>3, <2>4
<1> HIDE DEF a, b
<1>9. PICK n \in Nat \ {0} : n = 100
  OBVIOUS
<1>10. Half(a, n) <= Half(b, n)
  BY <1>8, HalfGrows
<1>11. 0 <= b /\ a <= 1000 * n /\ b <= 1000 * n
  BY <1>8, <1>9
<1>12. OfThousand(Half(a, n)) /\ OfThousand(Half(b, n))
  BY <1>8, <1>11, HalfWithin
<1>13. QED
  BY <1>7, <1>9, <1>10, <1>12

\* A score lies in its interval, and a larger one has no lower label.
LEMMA IntervalHolds ==
  ASSUME NEW x, NEW y, OfThousand(x), OfThousand(y), x <= y, NEW r, NEW q
  PROVE  /\ Interval(x, r).label <= Interval(y, q).label
         /\ y \in Interval(y, q).low .. Interval(y, q).high
<1>1. x \in Int /\ y \in Int /\ 0 <= x /\ x <= y /\ y <= 1000
  BY DEF OfThousand
<1>2. Interval(x, r).label = (IF x < 400 THEN 1 ELSE IF x < 600 THEN 2 ELSE IF x < 800 THEN 3 ELSE 4)
  BY <1>1 DEF Interval
<1>3. Interval(y, q).label = (IF y < 400 THEN 1 ELSE IF y < 600 THEN 2 ELSE IF y < 800 THEN 3 ELSE 4)
  BY <1>1 DEF Interval
<1>4. Interval(x, r).label <= Interval(y, q).label
  BY <1>1, <1>2, <1>3
<1> DEFINE around == CASE y < 400 -> [label |-> 1, below |-> 50, above |-> 50]
                       [] y \in 400 .. 599 -> [label |-> 2, below |-> 80, above |-> 80]
                       [] y \in 600 .. 799 -> [label |-> 3, below |-> 50, above |-> 100]
                       [] y >= 800 -> [label |-> 4, below |-> 30, above |-> 50]
<1> DEFINE unsure == IF q = 0 THEN 50 ELSE 0
<1>5. /\ Interval(y, q).low = Max({0, y - around.below - unsure})
      /\ Interval(y, q).high = Min({1000, y + around.above + unsure})
  BY DEF Interval
<1>6. around.below \in Nat /\ around.above \in Nat /\ unsure \in Nat
  BY <1>1
<1> HIDE DEF around, unsure
<1>7. PICK i \in Int, j \in Int :
        /\ i = y - around.below - unsure /\ i <= y
        /\ j = y + around.above + unsure /\ y <= j
  BY <1>1, <1>6
<1>8. Interval(y, q).low = (IF 0 >= i THEN 0 ELSE i) /\ Interval(y, q).high = (IF 1000 <= j THEN 1000 ELSE j)
  BY <1>5, <1>7, MaxOfTwo, MinOfTwo
<1>9. y \in Interval(y, q).low .. Interval(y, q).high
  BY <1>1, <1>7, <1>8
<1>10. QED
  BY <1>4, <1>9

\* Who tells more has no new gap.
LEMMA GapsShrink ==
  ASSUME NEW p \in Postings, NEW c, NEW d, Tells(p, c), Tells(p, d), TellsMore(c, d)
  PROVE  NotWorse(p, c, d)
<1>1. /\ Outcome(p, c).score = Score(p, c) /\ Outcome(p, d).score = Score(p, d)
      /\ Outcome(p, c).interval = Interval(Score(p, c), RuleScore(p, c))
      /\ Outcome(p, d).interval = Interval(Score(p, d), RuleScore(p, d))
      /\ Outcome(p, c).matched = Matched(p, c) /\ Outcome(p, d).matched = Matched(p, d)
      /\ Outcome(p, c).gap = Gap(p, c) /\ Outcome(p, d).gap = Gap(p, d)
  BY DEF Outcome
<1>2. PICK x \in Int, y \in Int : x = Score(p, c) /\ y = Score(p, d) /\ x <= y /\ OfThousand(x) /\ OfThousand(y)
  BY ScoreGrows DEF OfThousand
<1>3. Outcome(p, d).score >= Outcome(p, c).score
  BY <1>1, <1>2
<1>4. Outcome(p, c).interval.label <= Outcome(p, d).interval.label
  BY <1>1, <1>2, IntervalHolds
<1>5. Outcome(p, d).interval.label >= Outcome(p, c).interval.label
  <2>1. PICK i \in Int, j \in Int : i = Outcome(p, c).interval.label /\ j = Outcome(p, d).interval.label
    <3>1. ASSUME NEW z \in Int, NEW r PROVE Interval(z, r).label \in Int
      BY DEF Interval
    <3>2. QED
      BY <1>1, <1>2, <3>1
  <2>2. QED
    BY <1>4, <2>1
<1>6. Normals(c.techs) \subseteq Normals(d.techs)
  BY DEF TellsMore, Normals
<1>7. Matched(p, c) \subseteq Matched(p, d) /\ Unmatched(p, d) \subseteq Unmatched(p, c)
  BY <1>6 DEF Matched, Unmatched
<1>8. Outcome(p, c).matched \subseteq Outcome(p, d).matched
  BY <1>1, <1>7
<1>9. /\ Gap(p, d).required \subseteq Gap(p, c).required
      /\ Gap(p, d).preferred \subseteq Gap(p, c).preferred
  BY <1>7 DEF Gap
<1>10. Gap(p, d).years <= Gap(p, c).years
  <2>1. p.years \in Nat /\ c.years \in Nat /\ d.years \in Nat /\ c.years <= d.years
    BY PostingsAssumption DEF Tells, TellsMore
  <2>2. Gap(p, c).years = p.years - c.years /\ Gap(p, d).years = p.years - d.years
    BY DEF Gap
  <2>3. QED
    BY <2>1, <2>2
<1>11. Gap(p, c).educationFits => Gap(p, d).educationFits
  <2>1. Gap(p, c).educationFits = EducationFits(p, c) /\ Gap(p, d).educationFits = EducationFits(p, d)
    BY DEF Gap
  <2>2. QED
    BY <2>1, EducationStillFits
<1>12. ASSUME c.evidence # {} PROVE Gap(p, d).weak \subseteq Gap(p, c).weak
  <2>1. Compared(p, c) <=> Compared(p, d)
    BY <1>12 DEF Compared, TellsMore
  <2>2. CASE ~Compared(p, c)
    BY <2>1, <2>2 DEF Gap
  <2>3. CASE Compared(p, c)
    <3>1. /\ Gap(p, c).weak = { i \in DOMAIN p.traits : BestLikeness(p.traits[i], c) < 500 }
          /\ Gap(p, d).weak = { i \in DOMAIN p.traits : BestLikeness(p.traits[i], d) < 500 }
      BY <2>1, <2>3 DEF Gap
    <3>2. ASSUME NEW i \in DOMAIN p.traits, BestLikeness(p.traits[i], d) < 500
          PROVE  BestLikeness(p.traits[i], c) < 500
      <4>1. PICK a \in Int, b \in Int :
              a = BestLikeness(p.traits[i], c) /\ b = BestLikeness(p.traits[i], d) /\ a <= b
        BY <1>12, MoreEvidence DEF OfThousand, TellsMore
      <4>2. QED
        BY <3>2, <4>1
    <3>3. QED
      BY <3>1, <3>2
  <2>4. QED
    BY <2>2, <2>3
<1>13. QED
  BY <1>1, <1>3, <1>5, <1>8, <1>9, <1>10, <1>11, <1>12 DEF NotWorse

\* A gap is asked for and not told of.
LEMMA NothingInvented ==
  ASSUME NEW p \in Postings, NEW d, Tells(p, d)
  PROVE  WellSaid(p, d)
<1>1. /\ Outcome(p, d).score = Score(p, d) /\ Outcome(p, d).gap = Gap(p, d)
      /\ Outcome(p, d).interval = Interval(Score(p, d), RuleScore(p, d))
  BY DEF Outcome
<1>2. Gap(p, d).required \subseteq Unmatched(p, d) /\ Gap(p, d).preferred \subseteq Unmatched(p, d)
  BY DEF Gap
<1>3. ASSUME NEW t \in Unmatched(p, d), NEW s \in d.techs PROVE s # t /\ (s \in DOMAIN Canon => Canon[s] # t)
  <2>1. PICK n \in p.techs : t = Normal(n)
    BY DEF Unmatched, Normals
  <2>2. Normal(s) # t
    BY DEF Unmatched, Normals
  <2>3. t \notin DOMAIN Canon \/ (n \notin DOMAIN Canon /\ t = n)
    BY <2>1, CanonAssumption DEF Normal
  <2>4. t \in DOMAIN Canon => Normal(t) # t
    BY CanonAssumption DEF Normal
  <2>5. t \notin DOMAIN Canon
    BY <2>3
  <2>6. s # t
    BY <2>2, <2>5 DEF Normal
  <2>7. QED
    BY <2>2, <2>6 DEF Normal
<1>4. Unmatched(p, d) \subseteq Normals(p.techs)
  BY DEF Unmatched
<1>5. Score(p, d) \in Interval(Score(p, d), RuleScore(p, d)).low .. Interval(Score(p, d), RuleScore(p, d)).high
  <2>1. TellsMore(d, d)
    <3>1. d.years \in Nat /\ EducationRank(d.education) \in 0 .. 3
      BY RanksOfEducation DEF Tells
    <3>2. d.years <= d.years /\ EducationRank(d.education) <= EducationRank(d.education)
      BY <3>1
    <3>3. QED
      BY <3>2 DEF TellsMore
  <2>2. PICK x \in Int : x = Score(p, d) /\ OfThousand(x) /\ x <= x
    BY <2>1, ScoreGrows DEF OfThousand
  <2>3. QED
    BY <2>2, IntervalHolds
<1>6. QED
  BY <1>1, <1>2, <1>3, <1>4, <1>5 DEF WellSaid

-----------------------------------------------------------------------------

LEMMA MatchInitially == MatchInit => MatchInv
<1>1. ASSUME MatchInit PROVE MatchInv
  <2>1. posting \in Postings /\ cv \in Resumes /\ outcome = Outcome(posting, cv)
    BY <1>1 DEF MatchInit
  <2>2. Tells(posting, cv)
    BY <2>1, ResumesAssumption, LikenessAssumption DEF Tells
  <2>3. QED
    BY <2>1, <2>2 DEF MatchInv
<1>2. QED
  BY <1>1

\* Every step makes the resume tell more, and has it analysed again.
LEMMA MatchSteps ==
  ASSUME MatchInv, MatchNext
  PROVE  /\ posting' = posting /\ outcome' = Outcome(posting, cv')
         /\ Tells(posting, cv') /\ TellsMore(cv, cv')
<1>1. posting \in Postings /\ Tells(posting, cv)
  BY DEF MatchInv
<1>2. /\ cv = [techs |-> cv.techs, evidence |-> cv.evidence, years |-> cv.years, education |-> cv.education]
      /\ cv.years \in Nat
      /\ \A i \in DOMAIN posting.traits, e \in cv.evidence \cup Stories :
           Likeness[posting.traits[i]][e] \in 0 .. 1000
  BY <1>1 DEF Tells
<1>3. EducationRank(cv.education) <= EducationRank(cv.education) /\ cv.years <= cv.years
  BY <1>2, RanksOfEducation
<1>4. ASSUME NEW d, d = [techs |-> d.techs, evidence |-> d.evidence, years |-> d.years, education |-> d.education],
             d.years \in Nat, d.evidence \subseteq cv.evidence \cup Stories, TellsMore(cv, d), AnalyseAgain(d)
      PROVE  /\ posting' = posting /\ outcome' = Outcome(posting, cv')
             /\ Tells(posting, cv') /\ TellsMore(cv, cv')
  <2>1. cv' = d /\ posting' = posting /\ outcome' = Outcome(posting, d)
    BY <1>4 DEF AnalyseAgain
  <2>2. Tells(posting, d)
    BY <1>2, <1>4 DEF Tells
  <2>3. QED
    BY <1>4, <2>1, <2>2
<1>5. ASSUME NEW s \in Skills, AnalyseAgain([cv EXCEPT !.techs = @ \cup {s}])
      PROVE  /\ posting' = posting /\ outcome' = Outcome(posting, cv')
             /\ Tells(posting, cv') /\ TellsMore(cv, cv')
  <2>1. PICK d : d = [cv EXCEPT !.techs = @ \cup {s}]
    OBVIOUS
  <2>2. d = [techs |-> cv.techs \cup {s}, evidence |-> cv.evidence, years |-> cv.years, education |-> cv.education]
    BY <1>2, <2>1
  <2>3. TellsMore(cv, d)
    BY <1>3, <2>2 DEF TellsMore
  <2>4. QED
    BY <1>2, <1>4, <1>5, <2>1, <2>2, <2>3
<1>6. ASSUME NEW s \in Stories, AnalyseAgain([cv EXCEPT !.evidence = @ \cup {s}])
      PROVE  /\ posting' = posting /\ outcome' = Outcome(posting, cv')
             /\ Tells(posting, cv') /\ TellsMore(cv, cv')
  <2>1. PICK d : d = [cv EXCEPT !.evidence = @ \cup {s}]
    OBVIOUS
  <2>2. d = [techs |-> cv.techs, evidence |-> cv.evidence \cup {s}, years |-> cv.years, education |-> cv.education]
    BY <1>2, <2>1
  <2>3. TellsMore(cv, d)
    BY <1>3, <2>2 DEF TellsMore
  <2>4. QED
    BY <1>2, <1>4, <1>6, <2>1, <2>2, <2>3
<1>7. ASSUME AnalyseAgain([cv EXCEPT !.years = @ + 1])
      PROVE  /\ posting' = posting /\ outcome' = Outcome(posting, cv')
             /\ Tells(posting, cv') /\ TellsMore(cv, cv')
  <2>1. PICK d : d = [cv EXCEPT !.years = @ + 1]
    OBVIOUS
  <2>2. d = [techs |-> cv.techs, evidence |-> cv.evidence, years |-> cv.years + 1, education |-> cv.education]
    BY <1>2, <2>1
  <2>3. cv.years + 1 \in Nat /\ cv.years <= cv.years + 1
    BY <1>2
  <2>4. TellsMore(cv, d)
    BY <1>3, <2>2, <2>3 DEF TellsMore
  <2>5. QED
    BY <1>4, <1>7, <2>1, <2>2, <2>3, <2>4
<1>8. ASSUME NEW e, EducationRank(e) > EducationRank(cv.education), AnalyseAgain([cv EXCEPT !.education = e])
      PROVE  /\ posting' = posting /\ outcome' = Outcome(posting, cv')
             /\ Tells(posting, cv') /\ TellsMore(cv, cv')
  <2>1. PICK d : d = [cv EXCEPT !.education = e]
    OBVIOUS
  <2>2. d = [techs |-> cv.techs, evidence |-> cv.evidence, years |-> cv.years, education |-> e]
    BY <1>2, <2>1
  <2>3. EducationRank(cv.education) <= EducationRank(e)
    BY <1>8, RanksOfEducation
  <2>4. TellsMore(cv, d)
    BY <1>3, <2>2, <2>3 DEF TellsMore
  <2>5. QED
    BY <1>2, <1>4, <1>8, <2>1, <2>2, <2>4
<1>9. QED
  BY <1>5, <1>6, <1>7, <1>8 DEF MatchNext

\* Who adds something to the documents never loses by it, and nothing that is
\* said to be missing is there (match_service.py, gap_service.py, result_service.py).
THEOREM MoreIsNotWorseCorrect == MatchSpec => MoreIsNotWorse
<1>1. ASSUME MatchInv, [MatchNext]_matchVars PROVE MatchInv'
  <2>1. CASE MatchNext
    <3>1. posting' = posting /\ outcome' = Outcome(posting, cv') /\ Tells(posting, cv')
      BY <1>1, <2>1, MatchSteps
    <3>2. QED
      BY <1>1, <3>1 DEF MatchInv
  <2>2. CASE UNCHANGED matchVars
    BY <1>1, <2>2 DEF MatchInv, matchVars
  <2>3. QED
    BY <1>1, <2>1, <2>2
<1> DEFINE Step ==
      /\ outcome'.score >= outcome.score
      /\ outcome'.interval.label >= outcome.interval.label
      /\ outcome.matched \subseteq outcome'.matched
      /\ outcome'.gap.required \subseteq outcome.gap.required
      /\ outcome'.gap.preferred \subseteq outcome.gap.preferred
      /\ outcome'.gap.years <= outcome.gap.years
      /\ outcome.gap.educationFits => outcome'.gap.educationFits
      /\ cv.evidence # {} => outcome'.gap.weak \subseteq outcome.gap.weak
      /\ outcome'.gap.required \cup outcome'.gap.preferred \subseteq Normals(posting.techs)
      /\ \A t \in outcome'.gap.required \cup outcome'.gap.preferred, s \in cv'.techs :
           s # t /\ (s \in DOMAIN Canon => Canon[s] # t)
      /\ outcome'.score \in outcome'.interval.low .. outcome'.interval.high
<1>2. ASSUME MatchInv, [MatchNext]_matchVars PROVE [Step]_matchVars
  <2>1. CASE MatchNext
    <3>1. PICK d : d = cv'
      OBVIOUS
    <3>2. /\ posting \in Postings /\ Tells(posting, cv) /\ outcome = Outcome(posting, cv)
          /\ outcome' = Outcome(posting, d) /\ Tells(posting, d) /\ TellsMore(cv, d)
      BY <1>2, <2>1, <3>1, MatchSteps DEF MatchInv
    <3>3. NotWorse(posting, cv, d) /\ WellSaid(posting, d)
      BY <3>2, GapsShrink, NothingInvented
    <3>4. QED
      BY <3>1, <3>2, <3>3 DEF NotWorse, WellSaid
  <2>2. QED
    BY <1>2, <2>1
<1>3. MatchInit => MatchInv
  BY MatchInitially
<1>4. [][Step]_matchVars <=> MoreIsNotWorse
  BY PTL DEF MoreIsNotWorse
<1> HIDE DEF Step
<1>5. QED
  BY <1>1, <1>2, <1>3, <1>4, PTL DEF MatchSpec
=============================================================================
