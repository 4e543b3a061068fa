-------------------------- MODULE PointLedgerProofs --------------------------
(***************************************************************************)
(* Theorems about PointLedger for every set of users, requests, keys,      *)
(* policies and calls, without the bounds TLC needs to be small.           *)
(*                                                                         *)
(* The inductive invariant is TypeOK /\ LockedBalanceFresh /\ LedgerChain  *)
(* /\ KeyMovesOnce.  LedgerChain alone is not inductive: a commit keeps it *)
(* only because the balance read under the row lock is still the balance.  *)
(* Behind it stands LimitsInv, for calls of a user that do not overlap.    *)
(***************************************************************************)
EXTENDS PointLedger, Lists, SequenceTheorems, TLAPS

USE NoKeyAssumption, NoRequestAssumption, AmountAssumption, PolicyAssumption,
    CallsAssumption, UpdatesAssumption, BoundAssumption

-----------------------------------------------------------------------------
(* Types *)

\* What resolve_point_policy returns is a policy.
LEMMA ResolveType ==
  ASSUME policies \in [Reason -> [amount : Amount, is_active : BOOLEAN]],
         NEW x \in Reason
  PROVE  ResolvePolicy(x) \in PolicyRecord
<1>1. CASE policies[x].is_active
  <2> DEFINE p == SeedPolicy[x]
  <2>1. p \in PolicyRecord /\ policies[x].amount \in Amount
    OBVIOUS
  <2>2. [p EXCEPT !.amount = policies[x].amount] \in PolicyRecord
    BY <2>1 DEF PolicyRecord
  <2> QED
    BY <1>1, <2>2 DEF ResolvePolicy
<1>2. CASE ~policies[x].is_active
  BY <1>2 DEF ResolvePolicy
<1> QED
  BY <1>1, <1>2

\* The type and the amount of a posting are those of a policy or of a call.
LEMMA PostingType ==
  ASSUME TypeOK, NEW r \in Request
  PROVE  /\ AmountOf(r) \in Amount /\ AmountOf(r) \in Int
         /\ TypeOf(r) \in TransactionType
         /\ call[r].user \in User
         /\ balance[call[r].user] + AmountOf(r) \in Int
<1>1. call[r] \in Call /\ resolved[r] \in PolicyRecord
  BY DEF TypeOK
<1>2. call[r].user \in User /\ call[r].amount \in Amount /\ call[r].type \in TransactionType
  BY <1>1 DEF Call
<1>3. resolved[r].amount \in Amount /\ resolved[r].type \in TransactionType
  BY <1>1 DEF PolicyRecord
<1>4. AmountOf(r) \in Amount /\ TypeOf(r) \in TransactionType
  BY <1>2, <1>3 DEF AmountOf, TypeOf
<1>5. balance[call[r].user] \in Nat
  BY <1>2 DEF TypeOK
<1>6. AmountOf(r) \in Int
  BY <1>4
<1>7. balance[call[r].user] + AmountOf(r) \in Int
  BY <1>5, <1>6
<1> QED
  BY <1>2, <1>4, <1>6, <1>7

\* What a commit inserts is a row.
LEMMA RowType ==
  ASSUME TypeOK, NEW r \in Request
  PROVE  [key |-> call[r].key, amount |-> AmountOf(r),
          balance_after |-> nextBalance[r], reason |-> call[r].reason,
          ref |-> call[r].ref, type |-> TypeOf(r), created_at |-> clock] \in Row
<1>1. call[r] \in Call /\ nextBalance[r] \in Nat /\ clock \in Nat
  BY DEF TypeOK
<1>2. /\ call[r].key \in Key \cup {NoKey}
      /\ call[r].reason \in Reason
      /\ call[r].ref \in Reference \cup {NoReference}
  BY <1>1 DEF Call
<1> QED
  BY <1>1, <1>2, PostingType DEF Row

\* The initial states are typed.
LEMMA InitType == Init => TypeOK
<1> SUFFICES ASSUME Init PROVE TypeOK
  OBVIOUS
<1>1. (CHOOSE c \in Calls : TRUE) \in Call
  OBVIOUS
<1>2. call \in [Request -> Call]
  BY <1>1 DEF Init
<1>3. resolved \in [Request -> PolicyRecord]
  BY <1>2 DEF Init, Call
<1>4. policies \in [Reason -> [amount : Amount, is_active : BOOLEAN]]
  BY DEF Init, PolicyRecord
<1>5. history \in [User -> Seq(Row)]
  BY DEF Init
<1> QED
  BY <1>2, <1>3, <1>4, <1>5 DEF Init, TypeOK, Step, Outcome

\* Every step of a request and of the environment keeps the types.
LEMMA NextType == TypeOK /\ [Next]_vars => TypeOK'
<1> SUFFICES ASSUME TypeOK, [Next]_vars PROVE TypeOK'
  OBVIOUS
<1>0. ASSUME NEW r \in Request
      PROVE  /\ call[r].user \in User
             /\ balance[call[r].user] + AmountOf(r) \in Int
  BY PostingType
<1> USE DEF TypeOK, Goto, Finish, Step, Outcome, tableVars, requestVars
<1>1. ASSUME NEW r \in Request, NEW c \in Calls, Begin(r, c) PROVE TypeOK'
  <2>1. c \in Call /\ c.reason \in Reason
    BY DEF Call
  <2>2. ResolvePolicy(c.reason) \in PolicyRecord
    BY <2>1, ResolveType
  <2> QED
    BY <1>1, <2>1, <2>2 DEF Begin
<1>2. ASSUME NEW r \in Request, KeyCheck(r) PROVE TypeOK'
  BY <1>2 DEF KeyCheck
<1>3. ASSUME NEW r \in Request, Limits(r) PROVE TypeOK'
  BY <1>3 DEF Limits
<1>4. ASSUME NEW r \in Request, TxRead(r) PROVE TypeOK'
  BY <1>4 DEF TxRead
<1>5. ASSUME NEW r \in Request, Lock(r) PROVE TypeOK'
  <2> DEFINE u == call[r].user
  <2> DEFINE next == balance[u] + AmountOf(r)
  <2>1. u \in User /\ next \in Int
    BY <1>0
  <2> HIDE DEF next
  <2>2. CASE ~Covered(next) /\ Finish(r, "insufficient") /\ UNCHANGED <<rowLock, nextBalance>>
    BY <1>5, <2>2 DEF Lock
  <2>3. CASE /\ Covered(next)
             /\ rowLock' = [rowLock EXCEPT ![u] = r]
             /\ nextBalance' = [nextBalance EXCEPT ![r] = next]
             /\ Goto(r, "commit")
    <3>1. next \in Nat
      BY <2>1, <2>3 DEF Covered
    <3>2. nextBalance' \in [Request -> Nat]
      BY <2>3, <3>1
    <3> QED
      BY <1>5, <2>1, <2>3, <3>2 DEF Lock
  <2> QED
    BY <1>5, <2>2, <2>3 DEF Lock, next
<1>6. ASSUME NEW r \in Request, Commit(r) PROVE TypeOK'
  <2> DEFINE u == call[r].user
  <2> DEFINE row == [key |-> call[r].key, amount |-> AmountOf(r),
              balance_after |-> nextBalance[r], reason |-> call[r].reason,
              ref |-> call[r].ref, type |-> TypeOf(r), created_at |-> clock]
  <2>1. u \in User /\ row \in Row
    BY <1>0, RowType
  <2>2. history[u] \in Seq(Row)
    BY <2>1
  <2>3. Append(history[u], row) \in Seq(Row)
    BY <2>1, <2>2
  <2>4. history' \in [User -> Seq(Row)]
    BY <1>6, <2>1, <2>3 DEF Commit
  <2>5. balance' \in [User -> Nat]
    BY <1>6, <2>1 DEF Commit
  <2>6. rowLock' \in [User -> Request \cup {NoRequest}]
    BY <1>6 DEF Commit, Release
  <2>7. pc' \in [Request -> Step] /\ outcome' \in [Request -> Outcome]
    BY <1>6 DEF Commit
  <2> QED
    BY <1>6, <2>4, <2>5, <2>6, <2>7 DEF Commit
<1>7. ASSUME NEW r \in Request, Crash(r) PROVE TypeOK'
  BY <1>7 DEF Crash, Release
<1>8. ASSUME NEW up \in PolicyUpdates, UpdatePolicy(up) PROVE TypeOK'
  BY <1>8 DEF UpdatePolicy
<1>9. CASE Tick
  BY <1>9 DEF Tick
<1>10. CASE UNCHANGED vars
  BY <1>10 DEF vars
<1> QED
  BY <1>1, <1>2, <1>3, <1>4, <1>5, <1>6, <1>7, <1>8, <1>9, <1>10 DEF Next, RequestStep

\* TypeOK is an invariant.
THEOREM TypeCorrect == Spec => []TypeOK
BY InitType, NextType, PTL DEF Spec

-----------------------------------------------------------------------------
(* The row lock *)

\* The amount of a posting is fixed once its request has started.
LEMMA AmountStable ==
  ASSUME NEW r \in Request, UNCHANGED <<call, resolved>>
  PROVE  AmountOf(r)' = AmountOf(r)
BY DEF AmountOf

\* No request holds a lock initially.
LEMMA InitLock == Init => LockedBalanceFresh
BY DEF Init, LockedBalanceFresh

\* A step that leaves balances, locks and the requests at their commits alone.
LEMMA LockUntouched ==
  ASSUME TypeOK, LockedBalanceFresh,
         UNCHANGED <<balance, rowLock>>,
         \A r \in Request : (pc'[r] = "commit") <=> (pc[r] = "commit"),
         \A r \in Request : pc[r] = "commit" =>
           /\ call'[r] = call[r]
           /\ resolved'[r] = resolved[r]
           /\ nextBalance'[r] = nextBalance[r]
  PROVE  LockedBalanceFresh'
<1>1. ASSUME NEW r \in Request, pc'[r] = "commit"
      PROVE  /\ rowLock'[call'[r].user] = r
             /\ nextBalance'[r] = balance'[call'[r].user] + AmountOf(r)'
  BY <1>1 DEF LockedBalanceFresh, AmountOf
<1>2. ASSUME NEW u \in User, rowLock'[u] # NoRequest
      PROVE  pc'[rowLock'[u]] = "commit" /\ call'[rowLock'[u]].user = u
  <2>1. rowLock[u] \in Request
    BY <1>2 DEF TypeOK
  <2> QED
    BY <1>2, <2>1 DEF LockedBalanceFresh
<1> QED
  BY <1>1, <1>2 DEF LockedBalanceFresh

\* The request r leaves its transaction and drops its lock, and only the balance
\* of a row it held can have changed.
LEMMA LockDropped ==
  ASSUME TypeOK, LockedBalanceFresh, NEW r \in Request,
         Release(r),
         pc' = [pc EXCEPT ![r] = "idle"],
         UNCHANGED <<call, resolved, nextBalance>>,
         \A u \in User : rowLock[u] # r => balance'[u] = balance[u]
  PROVE  LockedBalanceFresh'
<1>1. ASSUME NEW q \in Request, pc'[q] = "commit"
      PROVE  /\ rowLock'[call'[q].user] = q
             /\ nextBalance'[q] = balance'[call'[q].user] + AmountOf(q)'
  <2>1. q # r /\ pc[q] = "commit"
    BY <1>1 DEF TypeOK
  <2>2. call[q].user \in User
    BY DEF TypeOK, Call
  <2>3. rowLock[call[q].user] = q /\ nextBalance[q] = balance[call[q].user] + AmountOf(q)
    BY <2>1 DEF LockedBalanceFresh
  <2>4. balance'[call[q].user] = balance[call[q].user]
    BY <2>1, <2>2, <2>3
  <2> QED
    BY <2>1, <2>2, <2>3, <2>4, AmountStable DEF Release
<1>2. ASSUME NEW u \in User, rowLock'[u] # NoRequest
      PROVE  pc'[rowLock'[u]] = "commit" /\ call'[rowLock'[u]].user = u
  <2>1. rowLock[u] # r /\ rowLock'[u] = rowLock[u] /\ rowLock[u] \in Request
    BY <1>2 DEF Release, TypeOK
  <2> QED
    BY <1>2, <2>1 DEF LockedBalanceFresh, TypeOK
<1> QED
  BY <1>1, <1>2 DEF LockedBalanceFresh

\* Every step keeps the balance under a lock fresh.
LEMMA NextLock == TypeOK /\ LockedBalanceFresh /\ [Next]_vars => LockedBalanceFresh'
<1> SUFFICES ASSUME TypeOK, LockedBalanceFresh, [Next]_vars PROVE LockedBalanceFresh'
  OBVIOUS
<1> USE DEF tableVars, requestVars, Goto, Finish
<1>0. pc \in [Request -> Step] /\ call \in [Request -> Call] /\ resolved \in [Request -> PolicyRecord]
  BY DEF TypeOK
<1>1. ASSUME NEW r \in Request, NEW c \in Calls, Begin(r, c) PROVE LockedBalanceFresh'
  <2>1. \A q \in Request : (pc'[q] = "commit") <=> (pc[q] = "commit")
    BY <1>0, <1>1 DEF Begin
  <2>2. \A q \in Request : pc[q] = "commit" =>
          call'[q] = call[q] /\ resolved'[q] = resolved[q] /\ nextBalance'[q] = nextBalance[q]
    BY <1>0, <1>1 DEF Begin
  <2> QED
    BY <1>1, <2>1, <2>2, LockUntouched DEF Begin
<1>2. ASSUME NEW r \in Request, KeyCheck(r) \/ Limits(r) \/ TxRead(r) PROVE LockedBalanceFresh'
  <2>1. \A q \in Request : (pc'[q] = "commit") <=> (pc[q] = "commit")
    BY <1>0, <1>2 DEF KeyCheck, Limits, TxRead
  <2> QED
    BY <1>2, <2>1, LockUntouched DEF KeyCheck, Limits, TxRead
<1>3. ASSUME NEW r \in Request, Lock(r) PROVE LockedBalanceFresh'
  <2> DEFINE u == call[r].user
  <2> DEFINE next == balance[u] + AmountOf(r)
  <2>1. u \in User
    BY PostingType
  <2>2. pc[r] = "lock" /\ rowLock[u] = NoRequest /\ UNCHANGED <<balance, call, resolved>>
    BY <1>3 DEF Lock, RowFree
  <2>3. CASE Finish(r, "insufficient") /\ UNCHANGED <<rowLock, nextBalance>>
    <3>1. \A q \in Request : (pc'[q] = "commit") <=> (pc[q] = "commit")
      BY <1>0, <2>2, <2>3
    <3> QED
      BY <2>2, <2>3, <3>1, LockUntouched
  <2>4. CASE /\ rowLock' = [rowLock EXCEPT ![u] = r]
             /\ nextBalance' = [nextBalance EXCEPT ![r] = next]
             /\ Goto(r, "commit")
    <3>1. ASSUME NEW q \in Request, pc'[q] = "commit"
          PROVE  /\ rowLock'[call'[q].user] = q
                 /\ nextBalance'[q] = balance'[call'[q].user] + AmountOf(q)'
      <4>1. CASE q = r
        BY <2>1, <2>2, <2>4, <4>1, AmountStable DEF TypeOK
      <4>2. CASE q # r
        <5>1. pc[q] = "commit"
          BY <1>0, <2>4, <3>1, <4>2
        <5>2. call[q].user \in User /\ rowLock[call[q].user] = q
              /\ nextBalance[q] = balance[call[q].user] + AmountOf(q)
          BY <5>1, PostingType DEF LockedBalanceFresh
        <5>3. call[q].user # u
          BY <2>2, <5>2
        <5> QED
          BY <2>2, <2>4, <4>2, <5>2, <5>3, AmountStable DEF TypeOK
      <4> QED
        BY <4>1, <4>2
    <3>2. ASSUME NEW v \in User, rowLock'[v] # NoRequest
          PROVE  pc'[rowLock'[v]] = "commit" /\ call'[rowLock'[v]].user = v
      <4>1. CASE v = u
        BY <2>1, <2>2, <2>4, <4>1 DEF TypeOK
      <4>2. CASE v # u
        <5>1. rowLock'[v] = rowLock[v] /\ rowLock[v] \in Request
          BY <2>1, <2>4, <3>2, <4>2 DEF TypeOK
        <5>2. pc[rowLock[v]] = "commit" /\ call[rowLock[v]].user = v
          BY <3>2, <5>1 DEF LockedBalanceFresh
        <5> QED
          BY <2>2, <2>4, <5>1, <5>2 DEF TypeOK
      <4> QED
        BY <4>1, <4>2
    <3> QED
      BY <3>1, <3>2 DEF LockedBalanceFresh
  <2> QED
    BY <1>3, <2>3, <2>4 DEF Lock
<1>4. ASSUME NEW r \in Request, Commit(r) PROVE LockedBalanceFresh'
  <2>1. call[r].user \in User /\ rowLock[call[r].user] = r
    BY <1>4, PostingType DEF Commit, LockedBalanceFresh
  <2>2. \A u \in User : rowLock[u] # r => balance'[u] = balance[u]
    BY <1>4, <2>1 DEF Commit, TypeOK
  <2>3. Release(r) /\ pc' = [pc EXCEPT ![r] = "idle"] /\ UNCHANGED <<call, resolved, nextBalance>>
    BY <1>4 DEF Commit
  <2> QED
    BY <2>2, <2>3, LockDropped
<1>5. ASSUME NEW r \in Request, Crash(r) PROVE LockedBalanceFresh'
  BY <1>5, LockDropped DEF Crash
<1>6. ASSUME NEW up \in PolicyUpdates, UpdatePolicy(up) PROVE LockedBalanceFresh'
  BY <1>6, LockUntouched DEF UpdatePolicy
<1>7. CASE Tick
  BY <1>7, LockUntouched DEF Tick
<1>8. CASE UNCHANGED vars
  BY <1>8, LockUntouched DEF vars
<1> QED
  BY <1>1, <1>2, <1>3, <1>4, <1>5, <1>6, <1>7, <1>8 DEF Next, RequestStep

\* No posting slips in between the locked read of a balance and its save.
THEOREM LockedBalanceFreshCorrect == Spec => []LockedBalanceFresh
<1>1. Init => TypeOK /\ LockedBalanceFresh
  BY InitType, InitLock
<1>2. TypeOK /\ LockedBalanceFresh /\ [Next]_vars => TypeOK' /\ LockedBalanceFresh'
  BY NextType, NextLock
<1> QED
  BY <1>1, <1>2, PTL DEF Spec

-----------------------------------------------------------------------------
(* The rows add up *)

IInv == TypeOK /\ LockedBalanceFresh /\ LedgerChain /\ KeyMovesOnce

\* A step posts when it is the commit of a request whose key is unused; the
\* posting appends one row to the history of the user it is for.
Posts(r, row) ==
  /\ ~KeyUsed(call[r].key)
  /\ row.key = call[r].key
  /\ row.amount = AmountOf(r)
  /\ row.balance_after = balance[call[r].user] + AmountOf(r)
  /\ row.balance_after >= 0
  /\ balance' = [balance EXCEPT ![call[r].user] = row.balance_after]
  /\ history' = [history EXCEPT ![call[r].user] = Append(history[call[r].user], row)]

\* A step leaves the balances and the histories alone, or posts.
LEMMA StepPosts ==
  ASSUME TypeOK, LockedBalanceFresh, [Next]_vars
  PROVE  UNCHANGED <<balance, history>> \/ \E r \in Request : \E row \in Row : Posts(r, row)
<1>1. ASSUME NEW r \in Request, Commit(r)
      PROVE  UNCHANGED <<balance, history>> \/ \E row \in Row : Posts(r, row)
  <2> DEFINE row == [key |-> call[r].key, amount |-> AmountOf(r),
              balance_after |-> nextBalance[r], reason |-> call[r].reason,
              ref |-> call[r].ref, type |-> TypeOf(r), created_at |-> clock]
  <2>1. row \in Row
    BY RowType
  <2>2. row.key = call[r].key /\ row.amount = AmountOf(r) /\ row.balance_after = nextBalance[r]
    OBVIOUS
  <2>3. nextBalance[r] = balance[call[r].user] + AmountOf(r) /\ nextBalance[r] \in Nat
    BY <1>1 DEF Commit, LockedBalanceFresh, TypeOK
  <2>4. CASE ~KeyUsed(call[r].key) /\ balance' = [balance EXCEPT ![call[r].user] = nextBalance[r]]
             /\ history' = [history EXCEPT ![call[r].user] = Append(history[call[r].user], row)]
    <3> HIDE DEF row
    <3>1. row.balance_after >= 0
      BY <2>2, <2>3
    <3> QED
      BY <2>1, <2>2, <2>3, <2>4, <3>1 DEF Posts
  <2> QED
    BY <1>1, <2>4 DEF Commit, UniqueViolation
<1>2. ASSUME NEW r \in Request, NEW c \in Calls, Begin(r, c) PROVE UNCHANGED <<balance, history>>
  BY <1>2 DEF Begin, tableVars
<1>3. ASSUME NEW r \in Request, KeyCheck(r) \/ Limits(r) \/ TxRead(r) \/ Lock(r) \/ Crash(r)
      PROVE  UNCHANGED <<balance, history>>
  BY <1>3 DEF KeyCheck, Limits, TxRead, Lock, Crash, tableVars
<1>4. ASSUME NEW up \in PolicyUpdates, UpdatePolicy(up) PROVE UNCHANGED <<balance, history>>
  BY <1>4 DEF UpdatePolicy
<1>5. CASE Tick
  BY <1>5 DEF Tick
<1>6. CASE UNCHANGED vars
  BY <1>6 DEF vars, tableVars
<1> QED
  BY <1>1, <1>2, <1>3, <1>4, <1>5, <1>6 DEF Next, RequestStep

\* What an appended row does to the domain and to the rows before it.
LEMMA AppendRow ==
  ASSUME NEW S, NEW seq \in Seq(S), NEW x \in S
  PROVE  /\ Append(seq, x) \in Seq(S)
         /\ Len(Append(seq, x)) = Len(seq) + 1
         /\ DOMAIN Append(seq, x) = DOMAIN seq \cup {Len(seq) + 1}
         /\ Append(seq, x)[Len(seq) + 1] = x
         /\ \A i \in DOMAIN seq : Append(seq, x)[i] = seq[i]
         /\ DOMAIN seq = 1 .. Len(seq) /\ Len(seq) \in Nat
OBVIOUS

\* LedgerChain of one user, as a statement about a list of rows and a balance.
Left(h, i) == IF i = 1 THEN 0 ELSE h[i - 1].balance_after

Chained(h, b) ==
  /\ \A i \in DOMAIN h : /\ h[i].balance_after = Left(h, i) + h[i].amount
                         /\ h[i].balance_after >= 0
  /\ b = Left(h, Len(h) + 1)

\* LedgerChain is Chained of every user, in this state and in the next.
LEMMA ChainPerUser == LedgerChain <=> \A u \in User : Chained(history[u], balance[u])
BY DEF LedgerChain, BalanceBefore, Chained, Left

\* The same of the next state.
LEMMA ChainPerUserNext == LedgerChain' <=> \A u \in User : Chained(history'[u], balance'[u])
BY DEF LedgerChain, BalanceBefore, Chained, Left

\* A row that starts from the balance extends the chain.
LEMMA ChainExtended ==
  ASSUME NEW h \in Seq(Row), NEW b, Chained(h, b), NEW row \in Row,
         row.balance_after = b + row.amount, row.balance_after >= 0
  PROVE  Chained(Append(h, row), row.balance_after)
<1> DEFINE n == Len(h) + 1
<1> DEFINE g == Append(h, row)
<1>1. /\ Len(g) = n
      /\ DOMAIN g = DOMAIN h \cup {n}
      /\ g[n] = row
      /\ \A i \in DOMAIN h : g[i] = h[i]
      /\ DOMAIN h = 1 .. Len(h) /\ Len(h) \in Nat
  BY AppendRow
<1> HIDE DEF g
<1>2. ASSUME NEW i \in 1 .. n PROVE Left(g, i) = Left(h, i)
  BY <1>1 DEF Left
<1>3. ASSUME NEW i \in DOMAIN g
      PROVE  g[i].balance_after = Left(g, i) + g[i].amount /\ g[i].balance_after >= 0
  <2>1. CASE i \in DOMAIN h
    <3>1. i \in 1 .. n /\ g[i] = h[i]
      BY <1>1, <2>1
    <3>2. h[i].balance_after = Left(h, i) + h[i].amount /\ h[i].balance_after >= 0
      BY <2>1 DEF Chained
    <3> QED
      BY <1>2, <3>1, <3>2
  <2>2. CASE i = n
    <3>1. n \in 1 .. n
      BY <1>1
    <3>2. Left(g, n) = b
      BY <1>2, <3>1 DEF Chained
    <3> QED
      BY <1>1, <2>2, <3>2
  <2> QED
    BY <1>1, <2>1, <2>2
<1>4. Left(g, Len(g) + 1) = row.balance_after
  BY <1>1 DEF Left
<1> QED
  BY <1>3, <1>4 DEF Chained, g

\* The chain of no rows leaves no points.
LEMMA InitChain == Init => LedgerChain
<1> SUFFICES ASSUME Init, NEW u \in User
             PROVE  /\ DOMAIN history[u] = {}
                    /\ balance[u] = BalanceBefore(u, Len(history[u]) + 1)
  BY DEF LedgerChain
<1>1. history[u] = <<>> /\ balance[u] = 0
  BY DEF Init
<1> QED
  BY <1>1 DEF BalanceBefore

\* A posting extends the chain of its user and touches no other.
LEMMA NextChain ==
  ASSUME TypeOK, LedgerChain, NEW r \in Request, NEW row \in Row, Posts(r, row)
  PROVE  LedgerChain'
<1> DEFINE u == call[r].user
<1>1. u \in User /\ history[u] \in Seq(Row)
  BY PostingType DEF TypeOK
<1>2. history' = [history EXCEPT ![u] = Append(history[u], row)]
      /\ balance' = [balance EXCEPT ![u] = row.balance_after]
      /\ row.balance_after = balance[u] + row.amount /\ row.balance_after >= 0
  BY DEF Posts
<1>3. history \in [User -> Seq(Row)] /\ balance \in [User -> Nat]
  BY DEF TypeOK
<1>4. Chained(history[u], balance[u])
  BY <1>1, ChainPerUser
<1> HIDE DEF u
<1>5. Chained(Append(history[u], row), row.balance_after)
  BY <1>1, <1>2, <1>4, ChainExtended
<1>6. ASSUME NEW v \in User PROVE Chained(history'[v], balance'[v])
  <2>1. CASE v = u
    BY <1>1, <1>2, <1>3, <1>5, <2>1
  <2>2. CASE v # u
    <3>1. history'[v] = history[v] /\ balance'[v] = balance[v]
      BY <1>2, <1>3, <2>2
    <3> QED
      BY <3>1, ChainPerUser
  <2> QED
    BY <2>1, <2>2
<1> QED
  BY <1>6, ChainPerUserNext

\* A step that posts nothing keeps the chain.
LEMMA ChainUntouched ==
  ASSUME LedgerChain, UNCHANGED <<balance, history>>
  PROVE  LedgerChain'
BY DEF LedgerChain, BalanceBefore

-----------------------------------------------------------------------------
(* Keys *)

\* There are no rows initially.
LEMMA InitKeys == Init => KeyMovesOnce
BY DEF Init, KeyMovesOnce

\* A posting carries no key or one no row carries yet.
LEMMA NextKeys ==
  ASSUME TypeOK, KeyMovesOnce, NEW r \in Request, NEW row \in Row, Posts(r, row)
  PROVE  KeyMovesOnce'
<1> DEFINE u == call[r].user
<1> DEFINE n == Len(history[u]) + 1
<1>1. u \in User /\ history[u] \in Seq(Row) /\ history \in [User -> Seq(Row)]
  BY PostingType DEF TypeOK
<1>2. history' = [history EXCEPT ![u] = Append(history[u], row)] /\ ~KeyUsed(row.key)
  BY DEF Posts
<1>3. \A v \in User : v # u => history'[v] = history[v]
  BY <1>1, <1>2
<1>4. /\ DOMAIN history'[u] = DOMAIN history[u] \cup {n}
      /\ history'[u][n] = row
      /\ \A i \in DOMAIN history[u] : history'[u][i] = history[u][i]
  <2>1. history'[u] = Append(history[u], row)
    BY <1>1, <1>2
  <2> QED
    BY <1>1, <2>1, AppendRow
<1>5. row.key # NoKey =>
        \A v \in User : \A i \in DOMAIN history[v] : history[v][i].key # row.key
  BY <1>2 DEF KeyUsed, Rows
<1> HIDE DEF u, n
\* A row after the step is the new one or one from before.
<1>6. ASSUME NEW v \in User, NEW i \in DOMAIN history'[v]
      PROVE  \/ v = u /\ i = n /\ history'[v][i] = row
             \/ i \in DOMAIN history[v] /\ history'[v][i] = history[v][i]
  BY <1>3, <1>4
<1>7. ASSUME NEW v \in User, NEW w \in User,
             NEW i \in DOMAIN history'[v], NEW j \in DOMAIN history'[w],
             history'[v][i].key = history'[w][j].key, history'[v][i].key # NoKey
      PROVE  v = w /\ i = j
  <2>1. CASE i \in DOMAIN history[v] /\ history'[v][i] = history[v][i]
    <3>1. CASE j \in DOMAIN history[w] /\ history'[w][j] = history[w][j]
      BY <1>7, <2>1, <3>1 DEF KeyMovesOnce
    <3>2. CASE w = u /\ j = n /\ history'[w][j] = row
      BY <1>5, <1>7, <2>1, <3>2
    <3> QED
      BY <1>6, <3>1, <3>2
  <2>2. CASE v = u /\ i = n /\ history'[v][i] = row
    <3>1. CASE j \in DOMAIN history[w] /\ history'[w][j] = history[w][j]
      BY <1>5, <1>7, <2>2, <3>1
    <3>2. CASE w = u /\ j = n /\ history'[w][j] = row
      BY <2>2, <3>2
    <3> QED
      BY <1>6, <3>1, <3>2
  <2> QED
    BY <1>6, <2>1, <2>2
<1> QED
  BY <1>7 DEF KeyMovesOnce

\* A step that inserts no row keeps the keys.
LEMMA KeysUntouched ==
  ASSUME KeyMovesOnce, UNCHANGED history
  PROVE  KeyMovesOnce'
BY DEF KeyMovesOnce

-----------------------------------------------------------------------------
(* Theorems *)

\* The inductive invariant holds initially, every step keeps it.
LEMMA InitIInv == Init => IInv
BY InitType, InitLock, InitChain, InitKeys DEF IInv

\* Every step of Next, and a stutter, keeps IInv.
LEMMA NextIInv == IInv /\ [Next]_vars => IInv'
<1> SUFFICES ASSUME IInv, [Next]_vars PROVE IInv'
  OBVIOUS
<1>1. TypeOK /\ LockedBalanceFresh /\ LedgerChain /\ KeyMovesOnce
  BY DEF IInv
<1>2. TypeOK' /\ LockedBalanceFresh'
  BY <1>1, NextType, NextLock
<1>3. CASE UNCHANGED <<balance, history>>
  BY <1>1, <1>2, <1>3, ChainUntouched, KeysUntouched DEF IInv
<1>4. ASSUME NEW r \in Request, NEW row \in Row, Posts(r, row) PROVE IInv'
  BY <1>1, <1>2, <1>4, NextChain, NextKeys DEF IInv
<1> QED
  BY <1>1, <1>3, <1>4, StepPosts

\* IInv is an invariant.
LEMMA Invariance == Spec => []IInv
BY InitIInv, NextIInv, PTL DEF Spec

\* Whatever requests overlap or die, the rows of every user add up to the
\* balance, which is never negative.
THEOREM LedgerChainCorrect == Spec => []LedgerChain
<1>1. IInv => LedgerChain
  BY DEF IInv
<1> QED
  BY <1>1, Invariance, PTL

\* An idempotency key moves points at most once, for one user.
THEOREM KeyMovesOnceCorrect == Spec => []KeyMovesOnce
<1>1. IInv => KeyMovesOnce
  BY DEF IInv
<1> QED
  BY <1>1, Invariance, PTL

-----------------------------------------------------------------------------
(* The once rules *)

\* The call of a request is one the handlers make, and every row is that of a
\* call: OnceRules follows from the keys of the calls and KeyMovesOnce.
CallsKnown == \A r \in Request : call[r] \in Calls

RowsFromCalls ==
  \A u \in User : \A i \in DOMAIN history[u] : \E c \in Calls :
    /\ c.user = u
    /\ c.reason = history[u][i].reason
    /\ c.ref = history[u][i].ref
    /\ c.key = history[u][i].key

\* The initial calls are among Calls and there are no rows.
LEMMA InitRows == Init => CallsKnown /\ RowsFromCalls
BY CallsAssumption DEF Init, CallsKnown, RowsFromCalls

\* Only Begin assigns the call of a request, and it takes one of Calls.
LEMMA NextCalls == TypeOK /\ CallsKnown /\ [Next]_vars => CallsKnown'
<1> SUFFICES ASSUME TypeOK, CallsKnown, [Next]_vars PROVE CallsKnown'
  OBVIOUS
<1>1. ASSUME NEW r \in Request, NEW c \in Calls, Begin(r, c) PROVE CallsKnown'
  BY <1>1 DEF Begin, CallsKnown, TypeOK
<1>2. ASSUME UNCHANGED call PROVE CallsKnown'
  BY <1>2 DEF CallsKnown
<1>3. ASSUME NEW r \in Request, KeyCheck(r) \/ Limits(r) \/ TxRead(r) \/ Lock(r) \/ Commit(r) \/ Crash(r)
      PROVE  UNCHANGED call
  BY <1>3 DEF KeyCheck, Limits, TxRead, Lock, Commit, Crash
<1>4. ASSUME NEW up \in PolicyUpdates, UpdatePolicy(up) PROVE UNCHANGED call
  BY <1>4 DEF UpdatePolicy, requestVars
<1>5. Tick \/ UNCHANGED vars => UNCHANGED call
  BY DEF Tick, vars, requestVars
<1> QED
  BY <1>1, <1>2, <1>3, <1>4, <1>5 DEF Next, RequestStep

\* A commit inserts the row of its call.
LEMMA NextRows ==
  TypeOK /\ CallsKnown /\ RowsFromCalls /\ [Next]_vars => RowsFromCalls'
<1> SUFFICES ASSUME TypeOK, CallsKnown, RowsFromCalls, [Next]_vars PROVE RowsFromCalls'
  OBVIOUS
<1>1. ASSUME UNCHANGED history PROVE RowsFromCalls'
  BY <1>1 DEF RowsFromCalls
<1>2. ASSUME NEW r \in Request, Commit(r) PROVE RowsFromCalls'
  <2> DEFINE u == call[r].user
  <2> DEFINE row == [key |-> call[r].key, amount |-> AmountOf(r),
              balance_after |-> nextBalance[r], reason |-> call[r].reason,
              ref |-> call[r].ref, type |-> TypeOf(r), created_at |-> clock]
  <2>1. row \in Row /\ u \in User /\ history \in [User -> Seq(Row)] /\ call[r] \in Calls
    BY RowType, PostingType DEF TypeOK, CallsKnown
  <2>2. row.key = call[r].key /\ row.reason = call[r].reason /\ row.ref = call[r].ref
    OBVIOUS
  <2>3. UNCHANGED history \/ history' = [history EXCEPT ![u] = Append(history[u], row)]
    BY <1>2 DEF Commit
  <2> HIDE DEF row
  <2>4. ASSUME history' = [history EXCEPT ![u] = Append(history[u], row)],
               NEW v \in User, NEW i \in DOMAIN history'[v]
        PROVE  \E c \in Calls : /\ c.user = v
                                /\ c.reason = history'[v][i].reason
                                /\ c.ref = history'[v][i].ref
                                /\ c.key = history'[v][i].key
    <3>1. CASE v = u /\ i = Len(history[u]) + 1
      <4>1. history'[v][i] = row
        BY <2>1, <2>4, <3>1, AppendRow
      <4> QED
        BY <2>1, <2>2, <3>1, <4>1
    <3>2. CASE ~(v = u /\ i = Len(history[u]) + 1)
      <4>1. i \in DOMAIN history[v] /\ history'[v][i] = history[v][i]
        <5>1. CASE v = u
          BY <2>1, <2>4, <3>2, <5>1, AppendRow
        <5>2. CASE v # u
          BY <2>1, <2>4, <5>2
        <5> QED
          BY <5>1, <5>2
      <4> QED
        BY <4>1 DEF RowsFromCalls
    <3> QED
      BY <3>1, <3>2
  <2>5. CASE history' = [history EXCEPT ![u] = Append(history[u], row)]
    BY <2>4, <2>5 DEF RowsFromCalls
  <2> QED
    BY <1>1, <2>3, <2>5
<1>3. ASSUME NEW r \in Request, NEW c \in Calls, Begin(r, c) PROVE UNCHANGED history
  BY <1>3 DEF Begin, tableVars
<1>4. ASSUME NEW r \in Request, KeyCheck(r) \/ Limits(r) \/ TxRead(r) \/ Lock(r) \/ Crash(r)
      PROVE  UNCHANGED history
  BY <1>4 DEF KeyCheck, Limits, TxRead, Lock, Crash, tableVars
<1>5. ASSUME NEW up \in PolicyUpdates, UpdatePolicy(up) PROVE UNCHANGED history
  BY <1>5 DEF UpdatePolicy
<1>6. Tick \/ UNCHANGED vars => UNCHANGED history
  BY DEF Tick, vars, tableVars
<1> QED
  BY <1>1, <1>2, <1>3, <1>4, <1>5, <1>6 DEF Next, RequestStep

\* Two rows of a once rule would carry the same key.
LEMMA OnceByKey == RowsFromCalls /\ KeyMovesOnce => OnceRules
<1> SUFFICES ASSUME RowsFromCalls, KeyMovesOnce,
                    NEW u \in User, NEW i \in DOMAIN history[u], NEW j \in DOMAIN history[u],
                    i # j, history[u][i].reason = history[u][j].reason
             PROVE  LET p == SeedPolicy[history[u][i].reason]
                    IN  /\ ~p.account_once
                        /\ p.per_reference_once /\ history[u][i].ref # NoReference
                             => history[u][i].ref # history[u][j].ref
  BY DEF OnceRules
<1>1. PICK c \in Calls : c.user = u /\ c.reason = history[u][i].reason
                         /\ c.ref = history[u][i].ref /\ c.key = history[u][i].key
  BY DEF RowsFromCalls
<1>2. PICK d \in Calls : d.user = u /\ d.reason = history[u][j].reason
                         /\ d.ref = history[u][j].ref /\ d.key = history[u][j].key
  BY DEF RowsFromCalls
<1>3. ~(c.key # NoKey /\ c.key = d.key)
  BY <1>1, <1>2 DEF KeyMovesOnce
<1> QED
  BY <1>1, <1>2, <1>3, OnceKeyAssumption

\* The once-per-account and once-per-reference rewards are paid once, whatever
\* requests overlap, because of the keys the handlers pass: the reads of
\* _enforce_policy_limits alone would not do.
THEOREM OnceRulesCorrect == Spec => []OnceRules
<1>1. Init => CallsKnown /\ RowsFromCalls
  BY InitRows
<1>2. TypeOK /\ CallsKnown /\ RowsFromCalls /\ [Next]_vars => CallsKnown' /\ RowsFromCalls'
  BY NextCalls, NextRows
<1>3. IInv => TypeOK /\ KeyMovesOnce
  BY DEF IInv
<1> QED
  BY <1>1, <1>2, <1>3, Invariance, OnceByKey, PTL DEF Spec

-----------------------------------------------------------------------------
(* The implementation of Ledger *)

\* A row, as Ledger sees it.
EntryOf(row) == [key |-> row.key, amount |-> row.amount, balance_after |-> row.balance_after]

EntriesOf(h) == [u \in User |-> [i \in DOMAIN h[u] |-> EntryOf(h[u][i])]]

\* Appending a row appends its entry.
LEMMA AppendEntry ==
  ASSUME NEW h \in Seq(Row), NEW row \in Row
  PROVE  [i \in DOMAIN Append(h, row) |-> EntryOf(Append(h, row)[i])]
         = Append([i \in DOMAIN h |-> EntryOf(h[i])], EntryOf(row))
<1> DEFINE e == [i \in DOMAIN h |-> EntryOf(h[i])]
<1> DEFINE E == {EntryOf(x) : x \in Row}
<1> DEFINE f == [i \in DOMAIN Append(h, row) |-> EntryOf(Append(h, row)[i])]
<1>1. e \in Seq(E) /\ Len(e) = Len(h)
  <2>1. DOMAIN h = 1 .. Len(h) /\ Len(h) \in Nat
    OBVIOUS
  <2>2. \A i \in 1 .. Len(h) : h[i] \in Row
    OBVIOUS
  <2>3. e \in [1 .. Len(h) -> E]
    BY <2>1, <2>2
  <2> QED
    BY <2>1, <2>3
<1>2. f \in Seq(E) /\ Len(f) = Len(h) + 1
  <2>1. /\ Append(h, row) \in Seq(Row)
        /\ DOMAIN Append(h, row) = 1 .. Len(h) + 1
        /\ Len(h) \in Nat
    OBVIOUS
  <2>2. \A i \in 1 .. Len(h) + 1 : Append(h, row)[i] \in Row
    OBVIOUS
  <2>3. f \in [1 .. Len(h) + 1 -> E]
    BY <2>1, <2>2
  <2> QED
    BY <2>1, <2>3
<1>3. EntryOf(row) \in E
  OBVIOUS
<1>4. Append(e, EntryOf(row)) \in Seq(E) /\ Len(Append(e, EntryOf(row))) = Len(h) + 1
  BY <1>1, <1>3
<1>5. ASSUME NEW i \in 1 .. Len(h) + 1 PROVE f[i] = Append(e, EntryOf(row))[i]
  <2>1. CASE i \in DOMAIN h
    <3>1. Append(h, row)[i] = h[i] /\ i \in DOMAIN Append(h, row)
      BY <2>1
    <3>2. Append(e, EntryOf(row))[i] = e[i]
      BY <1>1, <1>3, <2>1
    <3> QED
      BY <2>1, <3>1, <3>2
  <2>2. CASE i = Len(h) + 1
    <3>1. Append(h, row)[i] = row /\ i \in DOMAIN Append(h, row)
      BY <2>2
    <3>2. Append(e, EntryOf(row))[i] = EntryOf(row)
      BY <1>1, <1>3, <2>2
    <3> QED
      BY <3>1, <3>2
  <2> QED
    BY <2>1, <2>2
<1> HIDE DEF e, f, E
<1> QED
  BY <1>2, <1>4, <1>5, SeqEqual DEF e, f

\* The initial states of PointLedger map to those of Ledger.
LEMMA AbstractInit == Init => Abstract!LedgerInit
BY DEF Init, Abstract!LedgerInit

\* A commit that inserts a row maps to a Post, every other step to a stutter.
LEMMA AbstractStep == IInv /\ [Next]_vars => [Abstract!LedgerNext]_<<balance, EntriesOf(history)>>
<1> SUFFICES ASSUME IInv, [Next]_vars
             PROVE  [Abstract!LedgerNext]_<<balance, EntriesOf(history)>>
  OBVIOUS
<1>1. TypeOK /\ LockedBalanceFresh
  BY DEF IInv
<1>2. CASE UNCHANGED <<balance, history>>
  BY <1>2 DEF EntriesOf
<1>3. ASSUME NEW r \in Request, NEW row \in Row, Posts(r, row) PROVE Abstract!LedgerNext
  <2>0. PICK u \in User, a \in Amount, k \in Key \cup {NoKey} :
          u = call[r].user /\ a = AmountOf(r) /\ k = call[r].key
    BY <1>1, PostingType DEF TypeOK, Call
  <2> DEFINE h == history[u]
  <2>1. h \in Seq(Row) /\ history \in [User -> Seq(Row)]
    BY <1>1 DEF TypeOK
  <2>2. /\ history' = [history EXCEPT ![u] = Append(h, row)]
        /\ balance' = [balance EXCEPT ![u] = balance[u] + a]
        /\ balance[u] + a >= 0
        /\ EntryOf(row) = [key |-> k, amount |-> a, balance_after |-> balance[u] + a]
    BY <1>3, <2>0 DEF Posts, EntryOf
  <2>3. ~Abstract!KeyUsed(k)
    BY <1>3, <2>0 DEF Posts, KeyUsed, Rows, Abstract!KeyUsed
  <2>4. EntriesOf(history') = [EntriesOf(history) EXCEPT ![u] =
          Append(EntriesOf(history)[u], EntryOf(row))]
    <3>1. EntriesOf(history)[u] = [i \in DOMAIN h |-> EntryOf(h[i])]
      BY DEF EntriesOf
    <3>2. [i \in DOMAIN history'[u] |-> EntryOf(history'[u][i])]
          = Append(EntriesOf(history)[u], EntryOf(row))
      BY <2>1, <2>2, <3>1, AppendEntry
    <3>3. \A v \in User : v # u => history'[v] = history[v]
      BY <2>1, <2>2
    <3> QED
      BY <3>2, <3>3 DEF EntriesOf
  <2>5. Abstract!Post(u, a, k)
    BY <2>2, <2>3, <2>4 DEF Abstract!Post, EntriesOf, EntryOf
  <2> QED
    BY <2>5, Zenon DEF Abstract!LedgerNext
<1> QED
  BY <1>1, <1>2, <1>3, StepPosts

\* Overlapping and dying requests implement the ledger of indivisible postings.
THEOREM LedgerImplementedCorrect == Spec => LedgerImplemented
<1>1. IInv /\ [Next]_vars => [Abstract!LedgerNext]_Abstract!ledgerVars
  BY AbstractStep DEF Abstract!ledgerVars, EntriesOf, EntryOf
<1> QED
  BY AbstractInit, <1>1, Invariance, PTL DEF Spec, LedgerImplemented, Abstract!LedgerSpec

-----------------------------------------------------------------------------
(* Sums of rows *)

\* The n-th of some rows' contribution to the sum of those at some places.
Part(rows, places, n) == IF n \in places THEN rows[n].amount ELSE 0

\* How the sum comes about: f is what the first rows add up to.
Adds(rows, places, f) ==
  /\ f \in [0 .. Len(rows) -> Int]
  /\ f[0] = 0
  /\ \A n \in 1 .. Len(rows) : f[n] = f[n - 1] + Part(rows, places, n)

\* A contribution is an integer.
LEMMA PartType ==
  ASSUME NEW rows \in Seq(Row), NEW places, NEW n \in 1 .. Len(rows)
  PROVE  Part(rows, places, n) \in Int
<1>1. rows[n] \in Row
  OBVIOUS
<1>2. rows[n].amount \in Int
  BY <1>1 DEF Row
<1>3. QED
  BY <1>2 DEF Part

\* The rows add up, ...
LEMMA SomeAdds == ASSUME NEW rows \in Seq(Row), NEW places PROVE \E f : Adds(rows, places, f)
<1> DEFINE N == Len(rows)
<1> DEFINE Some(m) == \E f \in [0 .. m -> Int] :
                        f[0] = 0 /\ \A n \in 1 .. m : f[n] = f[n - 1] + Part(rows, places, n)
<1> DEFINE S == {m \in 0 .. N : Some(m)}
<1>1. N \in Nat
  OBVIOUS
<1>2. 0 \in S
  <2>1. [n \in 0 .. 0 |-> 0] \in [0 .. 0 -> Int] /\ [n \in 0 .. 0 |-> 0][0] = 0 /\ 1 .. 0 = {}
    OBVIOUS
  <2>2. Some(0)
    BY <2>1
  <2>3. QED
    BY <1>1, <2>2
<1>3. ASSUME NEW m \in 1 .. N, m - 1 \in S PROVE m \in S
  <2>1. PICK f \in [0 .. (m - 1) -> Int] :
          f[0] = 0 /\ \A n \in 1 .. (m - 1) : f[n] = f[n - 1] + Part(rows, places, n)
    BY <1>3
  <2>2. PICK d \in Int : d = Part(rows, places, m)
    BY <1>3, PartType
  <2> DEFINE g == [n \in 0 .. m |-> IF n = m THEN f[m - 1] + d ELSE f[n]]
  <2>3. f[m - 1] \in Int
    BY <1>1, <1>3
  <2>4. ASSUME NEW n \in 0 .. m PROVE (IF n = m THEN f[m - 1] + d ELSE f[n]) \in Int
    BY <1>1, <1>3, <2>3, <2>4
  <2>5. g \in [0 .. m -> Int]
    BY <2>4
  <2>6. g[0] = 0
    BY <1>1, <1>3, <2>1
  <2>7. ASSUME NEW n \in 1 .. m PROVE g[n] = g[n - 1] + Part(rows, places, n)
    <3>1. CASE n = m
      BY <1>1, <1>3, <2>2, <3>1
    <3>2. CASE n # m
      <4>1. n \in 1 .. (m - 1) /\ n - 1 \in 0 .. (m - 1) /\ n - 1 # m
        BY <1>1, <1>3, <3>2
      <4>2. f[n] = f[n - 1] + Part(rows, places, n)
        BY <2>1, <4>1
      <4>3. g[n] = f[n] /\ g[n - 1] = f[n - 1]
        BY <1>3, <3>2, <4>1
      <4>4. QED
        BY <4>2, <4>3
    <3>3. QED
      BY <3>1, <3>2
  <2> HIDE DEF g
  <2>8. Some(m)
    BY <2>5, <2>6, <2>7
  <2> HIDE DEF Some
  <2>9. QED
    BY <1>3, <2>8
<1> HIDE DEF S
<1>4. N \in S
  <2>1. \A m \in 1 .. N : m - 1 \in S => m \in S
    BY <1>3
  <2> HIDE DEF N
  <2>2. N \in 0 .. N
    BY <1>1
  <2>3. QED
    BY <1>1, <1>2, <2>1, <2>2, StepByStep
<1>5. Some(N)
  BY <1>4 DEF S
<1>6. QED
  BY <1>5 DEF Adds

\* ... to what SumOf returns.
LEMMA SumAdds ==
  ASSUME NEW rows \in Seq(Row), NEW places
  PROVE  \E f : Adds(rows, places, f) /\ SumOf(rows, places) = f[Len(rows)]
<1> DEFINE N == Len(rows)
<1>1. N \in Nat
  OBVIOUS
<1>2. PICK f : Adds(rows, places, f)
  BY SomeAdds
<1> DEFINE Is(g) == g = [n \in 0 .. N |-> IF n = 0 THEN 0
                                          ELSE g[n - 1] + (IF n \in places THEN rows[n].amount ELSE 0)]
<1>3. Is(f)
  BY <1>1, <1>2 DEF Adds, Part
<1> DEFINE upto == CHOOSE g : Is(g)
<1>4. Is(upto)
  BY <1>3, Zenon
<1>5. SumOf(rows, places) = upto[N]
  BY DEF SumOf
<1> HIDE DEF upto
<1>6. upto[0] = 0 /\ \A n \in 1 .. N : upto[n] = upto[n - 1] + Part(rows, places, n)
  BY <1>1, <1>4 DEF Part
<1> DEFINE S == {n \in 0 .. N : upto[n] = f[n]}
<1>7. 0 \in S
  BY <1>1, <1>2, <1>6 DEF Adds
<1>8. ASSUME NEW n \in 1 .. N, n - 1 \in S PROVE n \in S
  BY <1>1, <1>2, <1>6, <1>8 DEF Adds
<1> HIDE DEF S
<1>9. N \in S
  <2>1. \A n \in 1 .. N : n - 1 \in S => n \in S
    BY <1>8
  <2> HIDE DEF N
  <2>2. N \in 0 .. N
    BY <1>1
  <2>3. QED
    BY <1>1, <1>7, <2>1, <2>2, StepByStep
<1>10. upto[N] = f[N]
  BY <1>9 DEF S
<1>11. QED
  BY <1>2, <1>5, <1>10

\* Two sums that start and go on alike are the same, as far as they do; here of rows and of
\* the same rows with one more behind.
LEMMA SumAppend ==
  ASSUME NEW rows \in Seq(Row), NEW row \in Row, NEW places, NEW more,
         \A n \in 1 .. Len(rows) : n \in more <=> n \in places
  PROVE  SumOf(Append(rows, row), more) =
           SumOf(rows, places) + (IF Len(rows) + 1 \in more THEN row.amount ELSE 0)
<1> DEFINE N == Len(rows)
<1> DEFINE longer == Append(rows, row)
<1>1. N \in Nat /\ longer \in Seq(Row) /\ Len(longer) = N + 1 /\ longer[N + 1] = row
  OBVIOUS
<1>2. \A n \in 1 .. N : longer[n] = rows[n]
  OBVIOUS
<1>3. PICK f : Adds(rows, places, f) /\ SumOf(rows, places) = f[N]
  BY SumAdds
<1> HIDE DEF longer
<1>4. PICK g : Adds(longer, more, g) /\ SumOf(longer, more) = g[N + 1]
  BY <1>1, SumAdds
<1>5. ASSUME NEW n \in 1 .. N PROVE Part(longer, more, n) = Part(rows, places, n)
  BY <1>2, <1>5 DEF Part
<1> HIDE DEF N
<1> DEFINE S == {n \in 0 .. N : f[n] = g[n]}
<1>6. 0 \in S
  BY <1>1, <1>3, <1>4 DEF Adds
<1>7. ASSUME NEW n \in 1 .. N, n - 1 \in S PROVE n \in S
  <2>1. f[n] = f[n - 1] + Part(rows, places, n)
    BY <1>3 DEF Adds, N
  <2>2. g[n] = g[n - 1] + Part(longer, more, n)
    BY <1>1, <1>4 DEF Adds
  <2>3. QED
    BY <1>5, <1>7, <2>1, <2>2
<1> HIDE DEF S
<1>8. N \in S
  <2>1. (\A n \in 1 .. N : n - 1 \in S => n \in S) /\ N \in 0 .. N
    BY <1>1, <1>7
  <2>2. QED
    BY <1>1, <1>6, <2>1, StepByStep
<1>9. f[N] = g[N]
  BY <1>8 DEF S
<1>10. g[N + 1] = g[N] + Part(longer, more, N + 1)
  BY <1>1, <1>4 DEF Adds
<1>11. Part(longer, more, N + 1) = IF N + 1 \in more THEN row.amount ELSE 0
  BY <1>1 DEF Part
<1>12. QED
  BY <1>3, <1>4, <1>9, <1>10, <1>11 DEF N, longer

\* No rows add up to nothing, rows of earnings to no less, and every sum is an integer.
LEMMA SumBounds ==
  ASSUME NEW rows \in Seq(Row), NEW places
  PROVE  /\ SumOf(rows, places) \in Int
         /\ (\A n \in 1 .. Len(rows) : n \notin places) => SumOf(rows, places) = 0
         /\ (\A n \in 1 .. Len(rows) : n \in places => rows[n].amount >= 0) => SumOf(rows, places) >= 0
<1> DEFINE N == Len(rows)
<1>1. N \in Nat
  OBVIOUS
<1>2. PICK f : Adds(rows, places, f) /\ SumOf(rows, places) = f[N]
  BY SumAdds
<1>3. f[N] \in Int
  BY <1>1, <1>2 DEF Adds
<1>4. ASSUME \A n \in 1 .. N : n \notin places PROVE f[N] = 0
  <2> DEFINE S == {n \in 0 .. N : f[n] = 0}
  <2>1. 0 \in S
    BY <1>1, <1>2 DEF Adds
  <2>2. ASSUME NEW n \in 1 .. N, n - 1 \in S PROVE n \in S
    <3>1. f[n] = f[n - 1] + Part(rows, places, n)
      BY <1>2 DEF Adds
    <3>2. Part(rows, places, n) = 0
      BY <1>4 DEF Part
    <3>3. QED
      BY <2>2, <3>1, <3>2
  <2> HIDE DEF S, N
  <2>3. N \in S
    <3>1. (\A n \in 1 .. N : n - 1 \in S => n \in S) /\ N \in 0 .. N
      BY <1>1, <2>2
    <3>2. QED
      BY <1>1, <2>1, <3>1, StepByStep
  <2>4. QED
    BY <2>3 DEF S
<1>5. ASSUME \A n \in 1 .. N : n \in places => rows[n].amount >= 0 PROVE f[N] >= 0
  <2> DEFINE S == {n \in 0 .. N : f[n] >= 0}
  <2>1. 0 \in S
    BY <1>1, <1>2 DEF Adds
  <2>2. ASSUME NEW n \in 1 .. N, n - 1 \in S PROVE n \in S
    <3>1. f[n] = f[n - 1] + Part(rows, places, n)
      BY <1>2 DEF Adds
    <3>2. Part(rows, places, n) >= 0 /\ Part(rows, places, n) \in Int
      BY <1>5, PartType DEF Part
    <3>3. f[n - 1] \in Int /\ f[n - 1] >= 0
      BY <1>1, <1>2, <2>2 DEF Adds
    <3>4. QED
      BY <2>2, <3>1, <3>2, <3>3
  <2> HIDE DEF S, N
  <2>3. N \in S
    <3>1. (\A n \in 1 .. N : n - 1 \in S => n \in S) /\ N \in 0 .. N
      BY <1>1, <2>2
    <3>2. QED
      BY <1>1, <2>1, <3>1, StepByStep
  <2>4. QED
    BY <2>3 DEF S
<1>6. QED
  BY <1>2, <1>3, <1>4, <1>5

-----------------------------------------------------------------------------
(* The limits of a day and a month *)

\* The calls of a user do not overlap.
OneCallAtATime ==
  \A r, s \in Request : pc[r] # "idle" /\ pc[s] # "idle" /\ call[r].user = call[s].user => r = s

\* A policy that stays on is the one that is found.
PoliciesOn == \A x \in Reason : StaysOn(x) => policies[x].is_active

\* Rows are of the past, and those that are limited are earned.
RowsPast ==
  \A u \in User : \A i \in DOMAIN history[u] :
    /\ history[u][i].created_at <= clock
    /\ history[u][i].reason \in Limited => history[u][i].amount > 0

\* What a call of a limited reason has resolved, and what it may post.
CallFits(r) ==
  pc[r] # "idle" =>
    /\ call[r].reason \in Limited =>
         /\ resolved[r].type = "EARN"
         /\ StaysOn(call[r].reason) =>
              /\ resolved[r].daily_limit = SeedPolicy[call[r].reason].daily_limit
              /\ resolved[r].monthly_limit = SeedPolicy[call[r].reason].monthly_limit
    /\ pc[r] \in {"lock", "commit"} => ValidAmount(TypeOf(r), AmountOf(r))

\* There is room for an amount of a reason, now.
Fits(u, x, a) ==
  /\ x \in DailyOnce => OnDay(u, x, clock) = {}
  /\ StaysOn(x) =>
       /\ WithinLimit(SeedPolicy[x].daily_limit, DaySum(u, x, clock), a)
       /\ WithinLimit(SeedPolicy[x].monthly_limit, MonthSum(u, x, clock), a)

\* Once the limits were checked there is room for what the call will post.
RoomLeft(r) ==
  pc[r] \in {"tx_read", "lock", "commit"} /\ call[r].reason \in Limited /\ AmountOf(r) > 0
    => Fits(call[r].user, call[r].reason, AmountOf(r))

\* The inductive invariant, for calls of a user that do not overlap.
LimitsInv ==
  PoliciesOn /\ RowsPast /\ (\A r \in Request : CallFits(r) /\ RoomLeft(r)) /\ LimitsKept

\* A call of a limited reason is of a policy, whose amount it posts.
LEMMA LimitedCall ==
  ASSUME CallsKnown, NEW r \in Request, call[r].reason \in Limited
  PROVE  /\ call[r].kind = "policy" /\ call[r].reason \in Reason /\ call[r].user \in User
         /\ AmountOf(r) = resolved[r].amount /\ TypeOf(r) = resolved[r].type
<1>1. call[r] \in Calls
  BY DEF CallsKnown
<1>2. call[r].kind = "policy"
  BY <1>1, LimitedAssumption
<1>3. call[r].reason \in Reason /\ call[r].user \in User
  BY <1>1 DEF Call
<1>4. QED
  BY <1>2, <1>3 DEF AmountOf, TypeOf

\* Later times are of no earlier days.
LEMMA DaysPass ==
  ASSUME NEW a \in Nat, NEW b \in Nat, a <= b
  PROVE  LocalDay(a) <= LocalDay(b) /\ LocalDay(a) \in Nat
BY DEF LocalDay

\* The same of months, by the laws of division.
LEMMA MonthsPass ==
  ASSUME NEW a \in Nat, NEW b \in Nat, a <= b
  PROVE  Month(a) <= Month(b) /\ Month(a) \in Nat
<1>1. MonthLength \in Nat /\ MonthLength > 0
  BY BoundAssumption
<1> DEFINE p == a \div MonthLength
<1> DEFINE q == b \div MonthLength
<1>2. p \in Nat /\ q \in Nat
  BY <1>1
<1>3. MonthLength * p <= a /\ a < MonthLength * (p + 1) /\ MonthLength * q <= b /\ b < MonthLength * (q + 1)
  BY <1>1
<1> HIDE DEF p, q
<1>4. ASSUME p > q PROVE FALSE
  <2>1. PICK k \in Nat : p = q + 1 + k
    <3>1. p - (q + 1) \in Nat /\ p = q + 1 + (p - (q + 1))
      BY <1>2, <1>4
    <3>2. QED
      BY <3>1
  <2>2. MonthLength * p = MonthLength * (q + 1) + MonthLength * k /\ MonthLength * k >= 0
    BY <1>1, <1>2, <2>1
  <2>3. MonthLength * p \in Nat /\ MonthLength * (q + 1) \in Nat /\ MonthLength * k \in Nat
    BY <1>1, <1>2, <2>1
  <2>4. QED
    BY <1>3, <2>2, <2>3
<1>5. p <= q
  BY <1>2, <1>4
<1>6. QED
  BY <1>2, <1>5 DEF p, q, Month

\* There are no rows and no calls initially, and every policy is on.
LEMMA InitLimits == Init => LimitsInv
<1> SUFFICES ASSUME Init PROVE LimitsInv
  OBVIOUS
<1>1. PoliciesOn
  BY DEF Init, PoliciesOn
<1>2. \A u \in User : DOMAIN history[u] = {} /\ history[u] \in Seq(Row) /\ Len(history[u]) = 0
  <2>1. \A u \in User : history[u] = <<>>
    BY DEF Init
  <2>2. <<>> \in Seq(Row) /\ Len(<<>>) = 0 /\ DOMAIN <<>> = {}
    OBVIOUS
  <2>3. QED
    BY <2>1, <2>2
<1>3. RowsPast
  BY <1>2 DEF RowsPast
<1>4. \A r \in Request : CallFits(r) /\ RoomLeft(r)
  BY DEF Init, CallFits, RoomLeft
<1>5. ASSUME NEW u \in User, NEW places PROVE SumOf(history[u], places) = 0
  BY <1>2, SumBounds
<1>6. ASSUME NEW u \in User, NEW x \in Reason, NEW now
      PROVE  DaySum(u, x, now) = 0 /\ MonthSum(u, x, now) = 0
  BY <1>5 DEF DaySum, MonthSum
<1>7. \A x \in Reason : /\ SeedPolicy[x].daily_limit # NoLimit => SeedPolicy[x].daily_limit \in Nat
                        /\ SeedPolicy[x].monthly_limit # NoLimit => SeedPolicy[x].monthly_limit \in Nat
  BY DEF PolicyRecord
<1>8. ASSUME NEW u \in User, NEW x \in Reason, NEW now
      PROVE  LET p == SeedPolicy[x]
             IN  /\ p.daily_limit # NoLimit => DaySum(u, x, now) <= p.daily_limit
                 /\ p.monthly_limit # NoLimit => MonthSum(u, x, now) <= p.monthly_limit
  BY <1>6, <1>7
<1>9. LimitsKept
  BY <1>2, <1>8 DEF LimitsKept
<1>10. QED
  BY <1>1, <1>3, <1>4, <1>9 DEF LimitsInv

\* A request whose step changes nothing it depends on keeps its part.
LEMMA RequestKept ==
  ASSUME NEW r \in Request, CallFits(r), RoomLeft(r),
         UNCHANGED <<history, clock>>, call'[r] = call[r], resolved'[r] = resolved[r],
         pc'[r] \in {pc[r], "idle"}
  PROVE  CallFits(r)' /\ RoomLeft(r)'
<1>1. AmountOf(r)' = AmountOf(r) /\ TypeOf(r)' = TypeOf(r)
  BY DEF AmountOf, TypeOf
<1>2. \A u, x, a : Fits(u, x, a)' = Fits(u, x, a)
  BY DEF Fits, OnDay, InMonth, DaySum, MonthSum
<1>3. CallFits(r)'
  BY <1>1 DEF CallFits
<1>4. RoomLeft(r)'
  BY <1>1, <1>2 DEF RoomLeft
<1>5. QED
  BY <1>3, <1>4

\* So do the rows.
LEMMA RowsKept ==
  ASSUME RowsPast, LimitsKept, UNCHANGED <<history, clock>>
  PROVE  RowsPast' /\ LimitsKept'
<1>1. RowsPast'
  BY DEF RowsPast
<1>2. \A u, x, now : DaySum(u, x, now)' = DaySum(u, x, now) /\ MonthSum(u, x, now)' = MonthSum(u, x, now)
  BY DEF OnDay, InMonth, DaySum, MonthSum
<1>3. LimitsKept'
  BY <1>2 DEF LimitsKept
<1>4. QED
  BY <1>1, <1>3

\* A step of one request that inserts no row.
LEMMA OneStep ==
  ASSUME TypeOK, LimitsInv, NEW r \in Request, UNCHANGED <<history, clock, policies>>,
         \A q \in Request : q # r => /\ pc'[q] = pc[q] /\ call'[q] = call[q]
                                     /\ resolved'[q] = resolved[q],
         CallFits(r)', RoomLeft(r)'
  PROVE  LimitsInv'
<1>1. RowsPast' /\ LimitsKept'
  BY RowsKept DEF LimitsInv
<1>2. PoliciesOn'
  BY DEF LimitsInv, PoliciesOn
<1>3. ASSUME NEW q \in Request PROVE CallFits(q)' /\ RoomLeft(q)'
  <2>1. CASE q = r
    BY <2>1
  <2>2. CASE q # r
    <3>1. CallFits(q) /\ RoomLeft(q)
      BY DEF LimitsInv
    <3>2. QED
      BY <2>2, <3>1, RequestKept
  <2>3. QED
    BY <2>1, <2>2
<1>4. QED
  BY <1>1, <1>2, <1>3 DEF LimitsInv


\* A request starts.
LEMMA BeginKeeps ==
  ASSUME TypeOK, LimitsInv, NEW r \in Request, NEW c \in Calls, Begin(r, c)
  PROVE  LimitsInv'
<1>1. /\ pc' = [pc EXCEPT ![r] = IF c.kind = "policy" THEN "key_check" ELSE "tx_read"]
      /\ call' = [call EXCEPT ![r] = c]
      /\ resolved' = [resolved EXCEPT ![r] = ResolvePolicy(c.reason)]
      /\ UNCHANGED <<history, clock, policies>>
  BY DEF Begin, Goto, tableVars
<1>2. pc \in [Request -> Step] /\ call \in [Request -> Call] /\ resolved \in [Request -> PolicyRecord]
  BY DEF TypeOK
<1>3. \A q \in Request : q # r => pc'[q] = pc[q] /\ call'[q] = call[q] /\ resolved'[q] = resolved[q]
  BY <1>1, <1>2
<1>4. /\ call'[r] = c /\ resolved'[r] = ResolvePolicy(c.reason)
      /\ pc'[r] = IF c.kind = "policy" THEN "key_check" ELSE "tx_read"
  BY <1>1, <1>2
<1>5. c.reason \in Reason /\ (c.reason \in Limited => c.kind = "policy")
  BY LimitedAssumption DEF Call
<1>6. ASSUME c.reason \in Limited
      PROVE  /\ ResolvePolicy(c.reason).type = "EARN"
             /\ StaysOn(c.reason) =>
                  /\ ResolvePolicy(c.reason).daily_limit = SeedPolicy[c.reason].daily_limit
                  /\ ResolvePolicy(c.reason).monthly_limit = SeedPolicy[c.reason].monthly_limit
  <2>1. SeedPolicy[c.reason].type = "EARN" /\ DefaultPolicy[c.reason].type = "EARN"
    BY <1>6, LimitedAssumption
  <2>2. SeedPolicy[c.reason] \in PolicyRecord
    BY <1>5
  <2>3. StaysOn(c.reason) => policies[c.reason].is_active
    BY <1>5 DEF LimitsInv, PoliciesOn
  <2>4. CASE policies[c.reason].is_active
    <3>1. ResolvePolicy(c.reason) = [SeedPolicy[c.reason] EXCEPT !.amount = policies[c.reason].amount]
      BY <2>4 DEF ResolvePolicy
    <3>2. QED
      BY <2>1, <2>2, <3>1 DEF PolicyRecord
  <2>5. CASE ~policies[c.reason].is_active
    BY <2>1, <2>3, <2>5 DEF ResolvePolicy
  <2>6. QED
    BY <2>4, <2>5
<1>7. CallFits(r)'
  BY <1>4, <1>6 DEF CallFits
<1>8. RoomLeft(r)'
  BY <1>4, <1>5 DEF RoomLeft
<1>9. QED
  BY <1>1, <1>3, <1>7, <1>8, OneStep

\* A request goes on to a step that needs no more than it has.
LEMMA GoesOn ==
  ASSUME TypeOK, LimitsInv, NEW r \in Request, NEW s, pc' = [pc EXCEPT ![r] = s],
         UNCHANGED <<history, clock, policies, call, resolved>>,
         \/ s = "idle"
         \/ pc[r] = "key_check" /\ s = "limits"
         \/ pc[r] = "limits" /\ s = "tx_read" /\ LimitsAllow(call[r], resolved[r]) /\ CallsKnown
         \/ pc[r] = "tx_read" /\ s = "lock" /\ ValidAmount(TypeOf(r), AmountOf(r))
         \/ pc[r] = "lock" /\ s = "commit"
  PROVE  LimitsInv'
<1>1. pc \in [Request -> Step]
  BY DEF TypeOK
<1>2. pc'[r] = s /\ \A q \in Request : q # r => pc'[q] = pc[q]
  BY <1>1
<1>3. AmountOf(r)' = AmountOf(r) /\ TypeOf(r)' = TypeOf(r)
  BY DEF AmountOf, TypeOf
<1>4. \A u, x, a : Fits(u, x, a)' = Fits(u, x, a)
  BY DEF Fits, OnDay, InMonth, DaySum, MonthSum
<1>5. CallFits(r) /\ RoomLeft(r)
  BY DEF LimitsInv
<1>6. CallFits(r)'
  BY <1>2, <1>3, <1>5 DEF CallFits
<1>7. ASSUME pc[r] = "limits", s = "tx_read", LimitsAllow(call[r], resolved[r]), CallsKnown,
             call[r].reason \in Limited, AmountOf(r) > 0
      PROVE  Fits(call[r].user, call[r].reason, AmountOf(r))
  <2>1. AmountOf(r) = resolved[r].amount
    BY <1>7, LimitedCall
  <2>2. /\ NoneToday(call[r])
        /\ WithinLimit(resolved[r].daily_limit, DaySum(call[r].user, call[r].reason, clock), AmountOf(r))
        /\ WithinLimit(resolved[r].monthly_limit, MonthSum(call[r].user, call[r].reason, clock), AmountOf(r))
    BY <1>7, <2>1 DEF LimitsAllow
  <2>3. StaysOn(call[r].reason) =>
          /\ resolved[r].daily_limit = SeedPolicy[call[r].reason].daily_limit
          /\ resolved[r].monthly_limit = SeedPolicy[call[r].reason].monthly_limit
    BY <1>5, <1>7 DEF CallFits
  <2>4. QED
    BY <2>2, <2>3 DEF Fits, NoneToday
<1>8. RoomLeft(r)'
  BY <1>2, <1>3, <1>4, <1>5, <1>7 DEF RoomLeft
<1>9. QED
  BY <1>2, <1>6, <1>8, OneStep


\* An administrator switches no policy off that stays on.
LEMMA UpdateKeeps ==
  ASSUME TypeOK, LimitsInv, NEW up \in PolicyUpdates, UpdatePolicy(up)
  PROVE  LimitsInv'
<1>1. UNCHANGED <<history, clock, pc, call, resolved>>
  BY DEF UpdatePolicy, requestVars
<1>2. RowsPast' /\ LimitsKept'
  BY <1>1, RowsKept DEF LimitsInv
<1>3. \A r \in Request : CallFits(r)' /\ RoomLeft(r)'
  BY <1>1, RequestKept DEF LimitsInv
<1>4. PoliciesOn'
  <2>1. policies' = [policies EXCEPT ![up.reason] = [amount |-> up.amount, is_active |-> up.is_active]]
    BY DEF UpdatePolicy
  <2>2. policies \in [Reason -> [amount : Amount, is_active : BOOLEAN]]
    BY DEF TypeOK
  <2>3. ASSUME NEW x \in Reason, StaysOn(x) PROVE policies'[x].is_active
    <3>1. CASE x = up.reason
      <4>1. up.is_active
        BY <2>3, <3>1 DEF StaysOn
      <4>2. policies'[x].is_active = up.is_active
        BY <2>1, <2>2, <3>1
      <4>3. QED
        BY <4>1, <4>2
    <3>2. CASE x # up.reason
      <4>1. policies[x].is_active
        BY <2>3 DEF LimitsInv, PoliciesOn
      <4>2. QED
        BY <2>1, <2>2, <3>2, <4>1
    <3>3. QED
      BY <3>1, <3>2
  <2>4. QED
    BY <2>3 DEF PoliciesOn
<1>5. QED
  BY <1>2, <1>3, <1>4 DEF LimitsInv

\* After the clock has gone on, a period is the one from before or has no rows yet.
LEMMA NextPeriod ==
  ASSUME TypeOK, RowsPast, NEW u \in User, NEW x
  PROVE  /\ OnDay(u, x, clock + 1) \in {OnDay(u, x, clock), {}}
         /\ InMonth(u, x, clock + 1) \in {InMonth(u, x, clock), {}}
<1>1. clock \in Nat /\ history[u] \in Seq(Row)
  BY DEF TypeOK
<1>2. \A i \in DOMAIN history[u] : history[u][i].created_at \in Nat /\ history[u][i].created_at <= clock
  <2>1. ASSUME NEW i \in DOMAIN history[u] PROVE history[u][i].created_at \in Nat
    <3>1. history[u][i] \in Row
      BY <1>1
    <3>2. QED
      BY <3>1 DEF Row
  <2>2. QED
    BY <2>1 DEF RowsPast
<1>3. LocalDay(clock) <= LocalDay(clock + 1) /\ Month(clock) <= Month(clock + 1)
      /\ {LocalDay(clock), LocalDay(clock + 1), Month(clock), Month(clock + 1)} \subseteq Nat
  <2>1. clock + 1 \in Nat /\ clock <= clock + 1 /\ clock + 1 <= clock + 1
    BY <1>1
  <2>2. QED
    BY <1>1, <2>1, DaysPass, MonthsPass
<1>4. \A i \in DOMAIN history[u] :
        /\ LocalDay(history[u][i].created_at) <= LocalDay(clock)
        /\ LocalDay(history[u][i].created_at) \in Nat
        /\ Month(history[u][i].created_at) <= Month(clock)
        /\ Month(history[u][i].created_at) \in Nat
  BY <1>1, <1>2, DaysPass, MonthsPass
<1>5. OnDay(u, x, clock + 1) \in {OnDay(u, x, clock), {}}
  <2>1. CASE LocalDay(clock + 1) = LocalDay(clock)
    BY <2>1 DEF OnDay
  <2>2. CASE LocalDay(clock + 1) # LocalDay(clock)
    <3>1. \A i \in DOMAIN history[u] : LocalDay(history[u][i].created_at) # LocalDay(clock + 1)
      BY <1>3, <1>4, <2>2
    <3>2. QED
      BY <3>1 DEF OnDay
  <2>3. QED
    BY <2>1, <2>2
<1>6. InMonth(u, x, clock + 1) \in {InMonth(u, x, clock), {}}
  <2>1. CASE Month(clock + 1) = Month(clock)
    BY <2>1 DEF InMonth
  <2>2. CASE Month(clock + 1) # Month(clock)
    <3>1. \A i \in DOMAIN history[u] : Month(history[u][i].created_at) # Month(clock + 1)
      BY <1>3, <1>4, <2>2
    <3>2. QED
      BY <3>1 DEF InMonth
  <2>3. QED
    BY <2>1, <2>2
<1>7. QED
  BY <1>5, <1>6

\* So the sums of what is limited do not rise.
LEMMA NextSums ==
  ASSUME TypeOK, RowsPast, NEW u \in User, NEW x \in Limited
  PROVE  /\ DaySum(u, x, clock + 1) \in Int /\ DaySum(u, x, clock) \in Int
         /\ DaySum(u, x, clock + 1) <= DaySum(u, x, clock)
         /\ MonthSum(u, x, clock + 1) \in Int /\ MonthSum(u, x, clock) \in Int
         /\ MonthSum(u, x, clock + 1) <= MonthSum(u, x, clock)
<1>1. history[u] \in Seq(Row) /\ DOMAIN history[u] = 1 .. Len(history[u])
  BY DEF TypeOK
<1>2. \A n \in 1 .. Len(history[u]) :
        n \in OnDay(u, x, clock) \cup InMonth(u, x, clock) => history[u][n].amount >= 0
  <2>1. ASSUME NEW n \in 1 .. Len(history[u]), n \in OnDay(u, x, clock) \cup InMonth(u, x, clock)
        PROVE  history[u][n].amount >= 0
    <3>1. history[u][n].reason \in Limited
      BY <2>1 DEF OnDay, InMonth
    <3>2. history[u][n].amount > 0 /\ history[u][n] \in Row
      BY <1>1, <3>1 DEF RowsPast
    <3>3. history[u][n].amount \in Int
      BY <3>2 DEF Row
    <3>4. QED
      BY <3>2, <3>3
  <2>2. QED
    BY <2>1
<1>3. DaySum(u, x, clock) >= 0 /\ MonthSum(u, x, clock) >= 0
  BY <1>1, <1>2, SumBounds DEF DaySum, MonthSum
<1>4. \A now \in {clock, clock + 1} : DaySum(u, x, now) \in Int /\ MonthSum(u, x, now) \in Int
  BY <1>1, SumBounds DEF DaySum, MonthSum
<1>5. SumOf(history[u], {}) = 0
  BY <1>1, SumBounds
<1>6. DaySum(u, x, clock + 1) \in {DaySum(u, x, clock), 0} /\ MonthSum(u, x, clock + 1) \in {MonthSum(u, x, clock), 0}
  BY <1>5, NextPeriod DEF DaySum, MonthSum
<1>7. QED
  BY <1>3, <1>4, <1>6


\* Time passes.
LEMMA TickKeeps ==
  ASSUME TypeOK, LimitsInv, Tick
  PROVE  LimitsInv'
<1>1. clock \in Nat /\ clock' = clock + 1 /\ UNCHANGED <<history, policies, pc, call, resolved>>
  BY DEF TypeOK, Tick, requestVars
<1>2. PoliciesOn /\ RowsPast /\ LimitsKept /\ \A r \in Request : CallFits(r) /\ RoomLeft(r)
  BY DEF LimitsInv
<1>3. PoliciesOn'
  BY <1>1, <1>2 DEF PoliciesOn
<1>4. RowsPast'
  <2>1. ASSUME NEW u \in User, NEW i \in DOMAIN history[u]
        PROVE  history[u][i].created_at <= clock + 1
    <3>1. history[u][i] \in Row
      BY DEF TypeOK
    <3>2. history[u][i].created_at \in Nat
      BY <3>1 DEF Row
    <3>3. QED
      BY <1>1, <1>2, <3>2 DEF RowsPast
  <2>2. QED
    BY <1>1, <1>2, <2>1 DEF RowsPast
<1>5. ASSUME NEW r \in Request PROVE CallFits(r)'
  <2>1. CallFits(r) /\ AmountOf(r)' = AmountOf(r) /\ TypeOf(r)' = TypeOf(r)
    BY <1>1, <1>2 DEF AmountOf, TypeOf
  <2>2. QED
    BY <1>1, <2>1 DEF CallFits
<1>6. ASSUME NEW CONSTANT u, NEW CONSTANT x, NEW CONSTANT now
      PROVE  DaySum(u, x, now)' = DaySum(u, x, now) /\ MonthSum(u, x, now)' = MonthSum(u, x, now)
  BY <1>1 DEF OnDay, InMonth, DaySum, MonthSum
<1>7. ASSUME NEW CONSTANT u \in User, NEW CONSTANT x \in Limited, NEW CONSTANT a \in Int,
             x \in Reason, Fits(u, x, a)
      PROVE  Fits(u, x, a)'
  <2>1. x \in DailyOnce => OnDay(u, x, clock + 1) = {}
    BY <1>2, <1>7, NextPeriod DEF Fits
  <2>2. SeedPolicy[x].daily_limit \in Nat \cup {NoLimit} /\ SeedPolicy[x].monthly_limit \in Nat \cup {NoLimit}
    BY <1>7 DEF PolicyRecord
  <2>3. StaysOn(x) => /\ WithinLimit(SeedPolicy[x].daily_limit, DaySum(u, x, clock + 1), a)
                      /\ WithinLimit(SeedPolicy[x].monthly_limit, MonthSum(u, x, clock + 1), a)
    BY <1>2, <1>7, <2>2, NextSums DEF Fits, WithinLimit
  <2>4. OnDay(u, x, clock)' = OnDay(u, x, clock + 1) /\ DaySum(u, x, clock)' = DaySum(u, x, clock + 1)
        /\ MonthSum(u, x, clock)' = MonthSum(u, x, clock + 1)
    BY <1>1 DEF OnDay, InMonth, DaySum, MonthSum
  <2>5. QED
    BY <2>1, <2>3, <2>4 DEF Fits
<1>8. ASSUME NEW r \in Request PROVE RoomLeft(r)'
  <2>1. call[r] \in Call /\ AmountOf(r) \in Int
    BY PostingType DEF TypeOK
  <2>2. call[r].user \in User /\ call[r].reason \in Reason
    BY <2>1 DEF Call
  <2>3. AmountOf(r)' = AmountOf(r) /\ call'[r] = call[r] /\ pc'[r] = pc[r]
    BY <1>1 DEF AmountOf
  <2>4. ASSUME call[r].reason \in Limited, Fits(call[r].user, call[r].reason, AmountOf(r))
        PROVE  Fits(call[r].user, call[r].reason, AmountOf(r))'
    <3>1. PICK u \in User, x \in Limited, a \in Int :
            u = call[r].user /\ x = call[r].reason /\ a = AmountOf(r)
      BY <2>1, <2>2, <2>4
    <3>2. Fits(u, x, a)'
      BY <1>7, <2>2, <2>4, <3>1
    <3>3. u = call'[r].user /\ x = call'[r].reason /\ a = AmountOf(r)'
      BY <2>3, <3>1
    <3>4. QED
      BY <3>2, <3>3 DEF Fits, OnDay, InMonth, DaySum, MonthSum
  <2>5. QED
    BY <1>2, <2>3, <2>4 DEF RoomLeft
<1>9. LimitsKept'
  <2>1. ASSUME NEW u \in User, NEW x \in Reason, StaysOn(x), NEW now \in 0 .. clock + 1
        PROVE  LET p == SeedPolicy[x]
               IN  /\ p.daily_limit # NoLimit => DaySum(u, x, now) <= p.daily_limit
                   /\ p.monthly_limit # NoLimit => MonthSum(u, x, now) <= p.monthly_limit
    <3>1. CASE now \in 0 .. clock
      BY <1>2, <2>1, <3>1 DEF LimitsKept
    <3>2. CASE now = clock + 1 /\ x \in Limited
      <4>1. clock \in 0 .. clock
        BY <1>1
      <4>2. LET p == SeedPolicy[x]
            IN  /\ p.daily_limit # NoLimit => DaySum(u, x, clock) <= p.daily_limit
                /\ p.monthly_limit # NoLimit => MonthSum(u, x, clock) <= p.monthly_limit
        BY <1>2, <2>1, <4>1 DEF LimitsKept
      <4>3. SeedPolicy[x].daily_limit \in Nat \cup {NoLimit} /\ SeedPolicy[x].monthly_limit \in Nat \cup {NoLimit}
        BY DEF PolicyRecord
      <4>4. QED
        BY <1>2, <3>2, <4>2, <4>3, NextSums
    <3>3. CASE x \notin Limited
      BY <3>3 DEF Limited
    <3>4. QED
      BY <1>1, <2>1, <3>1, <3>2, <3>3
  <2>2. QED
    BY <1>1, <1>2, <1>6, <2>1 DEF LimitsKept
<1>10. QED
  BY <1>3, <1>4, <1>5, <1>8, <1>9 DEF LimitsInv


\* The places OnDay and InMonth name, of any rows.
DayPlaces(h, x, now) == {i \in DOMAIN h : h[i].reason = x /\ LocalDay(h[i].created_at) = LocalDay(now)}
MonthPlaces(h, x, now) == {i \in DOMAIN h : h[i].reason = x /\ Month(h[i].created_at) = Month(now)}

\* What a posting adds to a sum.
LEMMA PostedSums ==
  ASSUME NEW h \in Seq(Row), NEW row \in Row, NEW x \in Reason, NEW now \in Nat
  PROVE  /\ SumOf(h, DayPlaces(h, x, now)) \in Int /\ SumOf(h, MonthPlaces(h, x, now)) \in Int
         /\ LET grown == SumOf(Append(h, row), DayPlaces(Append(h, row), x, now))
                was == SumOf(h, DayPlaces(h, x, now))
            IN  \/ row.reason = x /\ LocalDay(row.created_at) = LocalDay(now) /\ grown = was + row.amount
                \/ ~(row.reason = x /\ LocalDay(row.created_at) = LocalDay(now)) /\ grown = was
         /\ LET grown == SumOf(Append(h, row), MonthPlaces(Append(h, row), x, now))
                was == SumOf(h, MonthPlaces(h, x, now))
            IN  \/ row.reason = x /\ Month(row.created_at) = Month(now) /\ grown = was + row.amount
                \/ ~(row.reason = x /\ Month(row.created_at) = Month(now)) /\ grown = was
<1> DEFINE g == Append(h, row)
<1> DEFINE day == DayPlaces(g, x, now)
<1> DEFINE month == MonthPlaces(g, x, now)
<1>1. /\ DOMAIN g = DOMAIN h \cup {Len(h) + 1} /\ g[Len(h) + 1] = row
      /\ DOMAIN h = 1 .. Len(h) /\ Len(h) \in Nat
      /\ \A i \in DOMAIN h : g[i] = h[i]
  BY AppendRow
<1>2. SumOf(h, DayPlaces(h, x, now)) \in Int /\ SumOf(h, MonthPlaces(h, x, now)) \in Int
  BY SumBounds
<1> HIDE DEF g
<1>3. /\ \A n \in 1 .. Len(h) : n \in day <=> n \in DayPlaces(h, x, now)
      /\ \A n \in 1 .. Len(h) : n \in month <=> n \in MonthPlaces(h, x, now)
  BY <1>1 DEF DayPlaces, MonthPlaces
<1>4. /\ Len(h) + 1 \in day <=> row.reason = x /\ LocalDay(row.created_at) = LocalDay(now)
      /\ Len(h) + 1 \in month <=> row.reason = x /\ Month(row.created_at) = Month(now)
  BY <1>1 DEF DayPlaces, MonthPlaces
<1> HIDE DEF day, month
<1>5. SumOf(Append(h, row), day) = SumOf(h, DayPlaces(h, x, now))
        + (IF Len(h) + 1 \in day THEN row.amount ELSE 0)
  BY <1>3, SumAppend
<1>6. SumOf(Append(h, row), month) = SumOf(h, MonthPlaces(h, x, now))
        + (IF Len(h) + 1 \in month THEN row.amount ELSE 0)
  BY <1>3, SumAppend
<1>7. row.amount \in Int
  BY DEF Row
<1>8. QED
  BY <1>2, <1>4, <1>5, <1>6, <1>7 DEF g, day, month

\* A request posts: no other call of its user is under way.
LEMMA PostKeeps ==
  ASSUME TypeOK, LimitsInv, CallsKnown, OneCallAtATime, NEW r \in Request,
         NEW row \in Row, row.created_at = clock, row.reason = call[r].reason, row.amount = AmountOf(r),
         pc[r] = "commit", pc' = [pc EXCEPT ![r] = "idle"],
         history' = [history EXCEPT ![call[r].user] = Append(history[call[r].user], row)],
         UNCHANGED <<policies, clock, call, resolved>>
  PROVE  LimitsInv'
<1>0. PICK u \in User : u = call[r].user
  BY PostingType
<1>1. /\ history \in [User -> Seq(Row)] /\ history[u] \in Seq(Row)
      /\ pc \in [Request -> Step] /\ clock \in Nat
  BY DEF TypeOK
<1>2. PoliciesOn /\ RowsPast /\ LimitsKept /\ \A q \in Request : CallFits(q) /\ RoomLeft(q)
  BY DEF LimitsInv
<1> DEFINE n == Len(history[u]) + 1
<1>3. \A v \in User : v # u => history'[v] = history[v]
  BY <1>0, <1>1
<1>4. /\ DOMAIN history'[u] = DOMAIN history[u] \cup {n}
      /\ history'[u][n] = row
      /\ \A i \in DOMAIN history[u] : history'[u][i] = history[u][i]
      /\ DOMAIN history[u] = 1 .. Len(history[u]) /\ Len(history[u]) \in Nat
  <2>1. history'[u] = Append(history[u], row)
    BY <1>0, <1>1
  <2>2. QED
    BY <1>1, <2>1, AppendRow
<1> HIDE DEF n
<1>5. row.reason \in Limited => AmountOf(r) > 0 /\ Fits(u, row.reason, AmountOf(r)) /\ row.reason \in Reason
  <2>1. ASSUME row.reason \in Limited PROVE AmountOf(r) > 0 /\ row.reason \in Reason
    <3>1. TypeOf(r) = resolved[r].type /\ resolved[r].type = "EARN" /\ row.reason \in Reason
      BY <1>2, <2>1, LimitedCall DEF CallFits
    <3>2. ValidAmount(TypeOf(r), AmountOf(r))
      BY <1>2 DEF CallFits
    <3>3. QED
      BY <3>1, <3>2 DEF ValidAmount, Earning
  <2>2. QED
    BY <1>0, <1>2, <2>1 DEF RoomLeft
<1>6. PoliciesOn'
  BY <1>2 DEF PoliciesOn
<1>7. RowsPast'
  <2>1. ASSUME NEW v \in User, NEW i \in DOMAIN history'[v]
        PROVE  /\ history'[v][i].created_at <= clock
               /\ history'[v][i].reason \in Limited => history'[v][i].amount > 0
    <3>1. CASE i \in DOMAIN history[v] /\ history'[v][i] = history[v][i]
      BY <1>2, <3>1 DEF RowsPast
    <3>2. CASE history'[v][i] = row
      <4>1. row.created_at <= clock
        BY <1>1
      <4>2. QED
        BY <1>5, <3>2, <4>1
    <3>3. QED
      BY <1>3, <1>4, <2>1, <3>1, <3>2
  <2>2. QED
    BY <2>1 DEF RowsPast
<1>8. ASSUME NEW q \in Request PROVE CallFits(q)' /\ RoomLeft(q)'
  <2>1. AmountOf(q)' = AmountOf(q) /\ TypeOf(q)' = TypeOf(q)
    BY DEF AmountOf, TypeOf
  <2>2. CASE q = r
    <3>1. pc'[q] = "idle"
      BY <1>1, <2>2
    <3>2. QED
      BY <3>1 DEF CallFits, RoomLeft
  <2>3. CASE q # r
    <3>1. pc'[q] = pc[q] /\ CallFits(q) /\ RoomLeft(q)
      BY <1>1, <1>2, <2>3
    <3>2. CallFits(q)'
      BY <2>1, <3>1 DEF CallFits
    <3>3. ASSUME pc[q] # "idle", NEW CONSTANT x, NEW CONSTANT a, Fits(call[q].user, x, a)
          PROVE  Fits(call[q].user, x, a)'
      <4>1. call[q].user # u /\ call[q].user \in User
        BY <1>0, <2>3, <3>3, PostingType DEF OneCallAtATime
      <4>2. history'[call[q].user] = history[call[q].user]
        BY <1>3, <4>1
      <4>3. QED
        BY <3>3, <4>2 DEF Fits, OnDay, InMonth, DaySum, MonthSum
    <3>4. PICK x, a : x = call[q].reason /\ a = AmountOf(q)
      OBVIOUS
    <3>5. x = call'[q].reason /\ a = AmountOf(q)'
      BY <2>1, <3>4
    <3>6. ASSUME pc'[q] \in {"tx_read", "lock", "commit"}, call'[q].reason \in Limited, AmountOf(q)' > 0
          PROVE  Fits(call[q].user, call[q].reason, AmountOf(q))'
      <4>1. Fits(call[q].user, x, a) /\ pc[q] # "idle"
        BY <2>1, <3>1, <3>4, <3>6 DEF RoomLeft
      <4>2. Fits(call[q].user, x, a)'
        BY <3>3, <4>1
      <4>3. QED
        BY <3>5, <4>2 DEF Fits, OnDay, InMonth, DaySum, MonthSum
    <3>7. RoomLeft(q)'
      BY <3>6 DEF RoomLeft
    <3>8. QED
      BY <3>2, <3>7
  <2>4. QED
    BY <2>2, <2>3
<1>9. ASSUME NEW CONSTANT v \in User, NEW CONSTANT x \in Reason, StaysOn(x), NEW CONSTANT now \in 0 .. clock
      PROVE  /\ SeedPolicy[x].daily_limit # NoLimit => DaySum(v, x, now)' <= SeedPolicy[x].daily_limit
             /\ SeedPolicy[x].monthly_limit # NoLimit => MonthSum(v, x, now)' <= SeedPolicy[x].monthly_limit
  <2>1. /\ SeedPolicy[x].daily_limit # NoLimit => DaySum(v, x, now) <= SeedPolicy[x].daily_limit
        /\ SeedPolicy[x].monthly_limit # NoLimit => MonthSum(v, x, now) <= SeedPolicy[x].monthly_limit
    BY <1>2, <1>9 DEF LimitsKept
  <2>2. CASE v # u
    <3>1. history'[v] = history[v]
      BY <1>3, <2>2
    <3>2. DaySum(v, x, now)' = DaySum(v, x, now) /\ MonthSum(v, x, now)' = MonthSum(v, x, now)
      BY <3>1 DEF DaySum, MonthSum, OnDay, InMonth
    <3>3. QED
      BY <2>1, <3>2
  <2>3. CASE v = u
    <3>1. /\ DaySum(u, x, now) \in Int /\ MonthSum(u, x, now) \in Int
          /\ \/ row.reason = x /\ LocalDay(clock) = LocalDay(now)
                /\ DaySum(u, x, now)' = DaySum(u, x, now) + row.amount
             \/ DaySum(u, x, now)' = DaySum(u, x, now)
          /\ \/ row.reason = x /\ Month(clock) = Month(now)
                /\ MonthSum(u, x, now)' = MonthSum(u, x, now) + row.amount
             \/ MonthSum(u, x, now)' = MonthSum(u, x, now)
      <4>1. now \in Nat /\ history'[u] = Append(history[u], row)
        BY <1>0, <1>1
      <4>2. /\ DaySum(u, x, now) = SumOf(history[u], DayPlaces(history[u], x, now))
            /\ MonthSum(u, x, now) = SumOf(history[u], MonthPlaces(history[u], x, now))
        BY DEF DaySum, MonthSum, OnDay, InMonth, DayPlaces, MonthPlaces
      <4>3. /\ DaySum(u, x, now)' = SumOf(history'[u], DayPlaces(history'[u], x, now))
            /\ MonthSum(u, x, now)' = SumOf(history'[u], MonthPlaces(history'[u], x, now))
        BY DEF DaySum, MonthSum, OnDay, InMonth, DayPlaces, MonthPlaces
      <4>4. PICK h \in Seq(Row) : h = history[u]
        BY <1>1
      <4>5. /\ SumOf(h, DayPlaces(h, x, now)) \in Int /\ SumOf(h, MonthPlaces(h, x, now)) \in Int
            /\ LET grown == SumOf(Append(h, row), DayPlaces(Append(h, row), x, now))
                   was == SumOf(h, DayPlaces(h, x, now))
               IN  \/ row.reason = x /\ LocalDay(row.created_at) = LocalDay(now) /\ grown = was + row.amount
                   \/ ~(row.reason = x /\ LocalDay(row.created_at) = LocalDay(now)) /\ grown = was
            /\ LET grown == SumOf(Append(h, row), MonthPlaces(Append(h, row), x, now))
                   was == SumOf(h, MonthPlaces(h, x, now))
               IN  \/ row.reason = x /\ Month(row.created_at) = Month(now) /\ grown = was + row.amount
                   \/ ~(row.reason = x /\ Month(row.created_at) = Month(now)) /\ grown = was
        BY <4>1, PostedSums
      <4>6. QED
        BY <4>1, <4>2, <4>3, <4>4, <4>5
    <3>2. CASE row.reason = x
      <4>1. x \in Limited => Fits(u, x, row.amount)
        BY <1>5, <3>2
      <4>2. row.reason = x /\ LocalDay(clock) = LocalDay(now) => DaySum(u, x, now) = DaySum(u, x, clock)
        BY DEF DaySum, OnDay
      <4>3. row.reason = x /\ Month(clock) = Month(now) => MonthSum(u, x, now) = MonthSum(u, x, clock)
        BY DEF MonthSum, InMonth
      <4>4. SeedPolicy[x].daily_limit # NoLimit \/ SeedPolicy[x].monthly_limit # NoLimit => x \in Limited
        BY DEF Limited
      <4>5. SeedPolicy[x].daily_limit # NoLimit /\ LocalDay(clock) = LocalDay(now)
              => DaySum(u, x, now) + row.amount <= SeedPolicy[x].daily_limit
        BY <1>9, <3>2, <4>1, <4>2, <4>4 DEF Fits, WithinLimit
      <4>6. SeedPolicy[x].monthly_limit # NoLimit /\ Month(clock) = Month(now)
              => MonthSum(u, x, now) + row.amount <= SeedPolicy[x].monthly_limit
        BY <1>9, <3>2, <4>1, <4>3, <4>4 DEF Fits, WithinLimit
      <4>7. QED
        BY <2>1, <2>3, <3>1, <3>2, <4>5, <4>6
    <3>3. CASE row.reason # x
      BY <2>1, <2>3, <3>1, <3>3
    <3>4. QED
      BY <3>2, <3>3
  <2>4. QED
    BY <2>2, <2>3
<1>10. ASSUME NEW v \in User, NEW i \in DOMAIN history'[v], NEW j \in DOMAIN history'[v],
              history'[v][i].reason \in DailyOnce,
              history'[v][i].reason = history'[v][j].reason,
              LocalDay(history'[v][i].created_at) = LocalDay(history'[v][j].created_at),
              i # j
       PROVE  FALSE
  <2>1. CASE v # u
    BY <1>2, <1>3, <1>10, <2>1 DEF LimitsKept
  <2>2. CASE v = u /\ i \in DOMAIN history[u] /\ j \in DOMAIN history[u]
    BY <1>2, <1>4, <1>10, <2>2 DEF LimitsKept
  <2>3. CASE v = u /\ n \in {i, j}
    <3>1. PICK k \in {i, j} : k # n
      BY <1>10
    <3>2. /\ k \in DOMAIN history[u] /\ row.reason \in DailyOnce
          /\ history[u][k].reason = row.reason /\ LocalDay(history[u][k].created_at) = LocalDay(clock)
      BY <1>4, <1>10, <2>3, <3>1
    <3>3. OnDay(u, row.reason, clock) = {}
      BY <1>5, <3>2 DEF Fits, Limited
    <3>4. QED
      BY <3>2, <3>3 DEF OnDay
  <2>4. QED
    BY <1>4, <1>10, <2>1, <2>2, <2>3
<1>11. LimitsKept'
  BY <1>9, <1>10 DEF LimitsKept
<1>12. QED
  BY <1>6, <1>7, <1>8, <1>11 DEF LimitsInv


\* Every step keeps LimitsInv while the calls of a user do not overlap.
LEMMA NextLimits ==
  TypeOK /\ LockedBalanceFresh /\ CallsKnown /\ OneCallAtATime /\ LimitsInv /\ [Next]_vars => LimitsInv'
<1> SUFFICES ASSUME TypeOK, LockedBalanceFresh, CallsKnown, OneCallAtATime, LimitsInv, [Next]_vars
             PROVE  LimitsInv'
  OBVIOUS
<1> USE DEF tableVars, requestVars, Goto, Finish
<1>1. ASSUME NEW r \in Request, NEW c \in Calls, Begin(r, c) PROVE LimitsInv'
  BY <1>1, BeginKeeps
<1>2. ASSUME NEW r \in Request, KeyCheck(r) PROVE LimitsInv'
  BY <1>2, GoesOn DEF KeyCheck
<1>3. ASSUME NEW r \in Request, Limits(r) PROVE LimitsInv'
  BY <1>3, GoesOn DEF Limits
<1>4. ASSUME NEW r \in Request, TxRead(r) PROVE LimitsInv'
  BY <1>4, GoesOn DEF TxRead
<1>5. ASSUME NEW r \in Request, Lock(r) PROVE LimitsInv'
  BY <1>5, GoesOn DEF Lock
<1>6. ASSUME NEW r \in Request, Commit(r) PROVE LimitsInv'
  <2> DEFINE row == [key |-> call[r].key, amount |-> AmountOf(r),
              balance_after |-> nextBalance[r], reason |-> call[r].reason,
              ref |-> call[r].ref, type |-> TypeOf(r), created_at |-> clock]
  <2>1. /\ row \in Row /\ row.created_at = clock /\ row.reason = call[r].reason
        /\ row.amount = AmountOf(r)
    BY RowType
  <2>2. pc[r] = "commit" /\ pc' = [pc EXCEPT ![r] = "idle"] /\ UNCHANGED <<policies, clock, call, resolved>>
    BY <1>6 DEF Commit
  <2>3. UNCHANGED history \/ history' = [history EXCEPT ![call[r].user] = Append(history[call[r].user], row)]
    BY <1>6 DEF Commit
  <2> HIDE DEF row
  <2>4. CASE UNCHANGED history
    BY <2>2, <2>4, GoesOn
  <2>5. CASE history' = [history EXCEPT ![call[r].user] = Append(history[call[r].user], row)]
    BY <2>1, <2>2, <2>5, PostKeeps
  <2>6. QED
    BY <2>3, <2>4, <2>5
<1>7. ASSUME NEW r \in Request, Crash(r) PROVE LimitsInv'
  BY <1>7, GoesOn DEF Crash
<1>8. ASSUME NEW up \in PolicyUpdates, UpdatePolicy(up) PROVE LimitsInv'
  BY <1>8, UpdateKeeps
<1>9. CASE Tick
  BY <1>9, TickKeeps
<1>10. CASE UNCHANGED vars
  <2>1. UNCHANGED <<history, clock, policies, pc, call, resolved>>
    BY <1>10 DEF vars
  <2>2. RowsPast' /\ LimitsKept' /\ \A r \in Request : CallFits(r)' /\ RoomLeft(r)'
    BY <2>1, RowsKept, RequestKept DEF LimitsInv
  <2>3. PoliciesOn'
    BY <2>1 DEF LimitsInv, PoliciesOn
  <2>4. QED
    BY <2>2, <2>3 DEF LimitsInv
<1>11. QED
  BY <1>1, <1>2, <1>3, <1>4, <1>5, <1>6, <1>7, <1>8, <1>9, <1>10 DEF Next, RequestStep

\* While the calls of a user do not overlap, no day's and no month's earnings of a
\* reason pass its limits, and a daily reward is paid once a day, although
\* _enforce_policy_limits reads long before the posting: midnights, crashes and an
\* administrator's new amounts may come in between.
THEOREM LimitsKeptCorrect == Spec /\ []OneCallAtATime => []LimitsKept
<1>1. Init => CallsKnown /\ LimitsInv
  BY InitRows, InitLimits
<1>2. IInv => TypeOK /\ LockedBalanceFresh
  BY DEF IInv
<1>3. TypeOK /\ CallsKnown /\ [Next]_vars => CallsKnown'
  BY NextCalls
<1>4. TypeOK /\ LockedBalanceFresh /\ CallsKnown /\ OneCallAtATime /\ LimitsInv /\ [Next]_vars => LimitsInv'
  BY NextLimits
<1>5. LimitsInv => LimitsKept
  BY DEF LimitsInv
<1>6. QED
  BY <1>1, <1>2, <1>3, <1>4, <1>5, Invariance, PTL DEF Spec
=============================================================================
