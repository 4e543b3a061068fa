----------------------------- MODULE PointLedger -----------------------------
(***************************************************************************)
(* apps/accounts/services/points.py: the point ledger under concurrent     *)
(* requests.                                                               *)
(*                                                                         *)
(* Every request that moves points runs apply_point_policy or one of       *)
(* earn/use/refund/admin_adjust_points.  The first resolves the policy,    *)
(* looks the idempotency key up and enforces the policy's limits, all with *)
(* plain reads outside any transaction; both end in _create_transaction,   *)
(* which looks the key up again, locks the user's row (SELECT FOR UPDATE), *)
(* checks and writes the balance and inserts the history row, whose key    *)
(* column is UNIQUE.  There is one action per database round trip on whose *)
(* result a later one depends; a read sees the last committed rows (READ   *)
(* COMMITTED, Django's level on PostgreSQL and MySQL), and what a          *)
(* transaction writes under the row lock shows at its commit.              *)
(***************************************************************************)
EXTENDS Integers, Sequences

CONSTANTS User, Key, NoKey, Amount,
          Request, NoRequest,      \* concurrent request workers
          Reason,                  \* reason codes
          Reference, NoReference,  \* reference_id, and ""
          NoLimit,                 \* daily_limit or monthly_limit = None
          DailyOnce,               \* DAILY_ONCE_REASON_CODES
          DefaultPolicy,           \* what _default_policy_for returns
          SeedPolicy,              \* the row point_policies is seeded with
          Calls,                   \* the calls the handlers make
          PolicyUpdates,           \* what an administrator may set a policy to
          MonthLength,             \* half-days of a month
          MaxClock,                \* bound: the last half-day
          MaxCalls                 \* bound: calls started

Earning  == {"EARN", "REFUND"}
Spending == {"USE", "EXPIRE"}
TransactionType == Earning \cup Spending \cup {"ADMIN"}

PolicyRecord == [type : TransactionType, amount : Amount,
                 daily_limit : Nat \cup {NoLimit}, monthly_limit : Nat \cup {NoLimit},
                 account_once : BOOLEAN, per_reference_once : BOOLEAN]

\* kind "policy" is apply_point_policy, whose type and amount come from the
\* policy; kind "direct" is one of the four wrappers of _create_transaction.
Call == [kind : {"policy", "direct"}, user : User, reason : Reason,
         ref : Reference \cup {NoReference}, key : Key \cup {NoKey},
         type : TransactionType, amount : Amount]

ASSUME NoKeyAssumption == NoKey \notin Key
ASSUME NoRequestAssumption == NoRequest \notin Request
ASSUME AmountAssumption == Amount \subseteq Int
ASSUME PolicyAssumption ==
  /\ DefaultPolicy \in [Reason -> PolicyRecord]
  /\ SeedPolicy \in [Reason -> PolicyRecord]
ASSUME CallsAssumption == Calls \subseteq Call /\ Calls # {}
\* The handlers key a reward that is due once per account by the account, and
\* one that is due once per reference by the reference.
ASSUME OnceKeyAssumption ==
  \A c, d \in Calls : c.user = d.user /\ c.reason = d.reason =>
    /\ SeedPolicy[c.reason].account_once => c.key # NoKey /\ c.key = d.key
    /\ SeedPolicy[c.reason].per_reference_once /\ c.ref # NoReference /\ c.ref = d.ref
         => c.key # NoKey /\ c.key = d.key
ASSUME UpdatesAssumption ==
  PolicyUpdates \subseteq [reason : Reason, amount : Amount, is_active : BOOLEAN]
\* What is limited is earned, and moved by its policy only: a refund has a reason of
\* its own, and so has an adjustment.
Limited ==
  DailyOnce \cup {x \in Reason : {SeedPolicy[x].daily_limit, SeedPolicy[x].monthly_limit} # {NoLimit}}
ASSUME LimitedAssumption ==
  /\ DailyOnce \subseteq Reason
  /\ \A x \in Limited : SeedPolicy[x].type = "EARN" /\ DefaultPolicy[x].type = "EARN"
  /\ \A c \in Calls : c.reason \in Limited => c.kind = "policy"
ASSUME BoundAssumption ==
  MonthLength \in Nat \ {0} /\ MaxClock \in Nat /\ MaxCalls \in Nat

VARIABLES
  balance,      \* users.point_balance
  history,      \* accounts_point_history, per user, in insertion order
  policies,     \* point_policies: the columns an administrator can change
  clock,        \* the time, in half-days of UTC
  rowLock,      \* the request holding the lock of a user's row
  pc,           \* where a request is
  call,         \* its arguments
  resolved,     \* its policy, read when it started
  nextBalance,  \* next_balance, computed under the lock
  outcome,      \* what its last call ended with
  started       \* calls started so far

requestVars == <<pc, call, resolved, nextBalance, outcome, started>>
tableVars == <<balance, history, policies, clock>>
vars == <<tableVars, rowLock, requestVars>>

Step == {"idle", "key_check", "limits", "tx_read", "lock", "commit"}
Outcome == {"none", "created", "existing", "rejected", "insufficient",
            "integrity_error", "crashed"}

Row == [key : Key \cup {NoKey}, amount : Amount, balance_after : Int,
        reason : Reason, ref : Reference \cup {NoReference},
        type : TransactionType, created_at : Nat]

-----------------------------------------------------------------------------
(* Reads of the history *)

Rows(u) == {history[u][i] : i \in DOMAIN history[u]}

KeyUsed(k) ==
  /\ k # NoKey
  /\ \E u \in User : \E row \in Rows(u) : row.key = k

KeyUsedBy(k, u) == k # NoKey /\ \E row \in Rows(u) : row.key = k

RowsOf(u, reason) == {row \in Rows(u) : row.reason = reason}

\* The day starts at midnight of TIME_ZONE, which is ahead of UTC by a part of
\* a day; the month starts at midnight UTC.
LocalDay(t) == (t + 1) \div 2
Month(t) == t \div MonthLength

\* The rows of a reason on the day, or in the month, of a time, by their places.
OnDay(u, reason, now) ==
  {i \in DOMAIN history[u] : /\ history[u][i].reason = reason
                             /\ LocalDay(history[u][i].created_at) = LocalDay(now)}
InMonth(u, reason, now) ==
  {i \in DOMAIN history[u] : /\ history[u][i].reason = reason
                             /\ Month(history[u][i].created_at) = Month(now)}

\* The amounts of the rows at some places, added up in their order.
SumOf(rows, places) ==
  LET upto[n \in 0 .. Len(rows)] ==
        IF n = 0 THEN 0 ELSE upto[n - 1] + (IF n \in places THEN rows[n].amount ELSE 0)
  IN  upto[Len(rows)]

\* _period_sum
DaySum(u, reason, now) == SumOf(history[u], OnDay(u, reason, now))
MonthSum(u, reason, now) == SumOf(history[u], InMonth(u, reason, now))

\* bug: the amount about to be posted is left out of the sum
WithinLimitWithoutAmount(limit, total, a) == limit = NoLimit \/ total <= limit

WithinLimit(limit, total, a) == limit = NoLimit \/ total + a <= limit

ValidAmount(type, a) ==
  /\ type \in Earning => a > 0
  /\ type \in Spending => a < 0
  /\ a # 0

NoneToday(c) == c.reason \in DailyOnce => OnDay(c.user, c.reason, clock) = {}

\* _enforce_policy_limits.  The rules of a period bind earnings only.
LimitsAllow(c, p) ==
  /\ p.account_once => RowsOf(c.user, c.reason) = {}
  /\ p.per_reference_once /\ c.ref # NoReference
       => \A row \in RowsOf(c.user, c.reason) : row.ref # c.ref
  /\ p.amount > 0 =>
       /\ NoneToday(c)
       /\ WithinLimit(p.daily_limit, DaySum(c.user, c.reason, clock), p.amount)
       /\ WithinLimit(p.monthly_limit, MonthSum(c.user, c.reason, clock), p.amount)

\* resolve_point_policy: the query keeps active rows only, and a reason without
\* one falls back to the built-in policy.
ResolvePolicy(reason) ==
  IF policies[reason].is_active
  THEN [SeedPolicy[reason] EXCEPT !.amount = policies[reason].amount]
  ELSE DefaultPolicy[reason]

-----------------------------------------------------------------------------

Init ==
  /\ balance = [u \in User |-> 0]
  /\ history = [u \in User |-> <<>>]
  /\ policies = [x \in Reason |-> [amount |-> SeedPolicy[x].amount, is_active |-> TRUE]]
  /\ clock = 0
  /\ rowLock = [u \in User |-> NoRequest]
  /\ pc = [r \in Request |-> "idle"]
  /\ call = [r \in Request |-> CHOOSE c \in Calls : TRUE]
  /\ resolved = [r \in Request |-> DefaultPolicy[call[r].reason]]
  /\ nextBalance = [r \in Request |-> 0]
  /\ outcome = [r \in Request |-> "none"]
  /\ started = 0

\* The type and amount _create_transaction is called with.
TypeOf(r)   == IF call[r].kind = "policy" THEN resolved[r].type ELSE call[r].type
AmountOf(r) == IF call[r].kind = "policy" THEN resolved[r].amount ELSE call[r].amount

Goto(r, s) == pc' = [pc EXCEPT ![r] = s] /\ UNCHANGED outcome

\* The call of r returns or raises: its transaction, if any, is over.
Finish(r, o) ==
  /\ pc' = [pc EXCEPT ![r] = "idle"]
  /\ outcome' = [outcome EXCEPT ![r] = o]

\* bug: the lock outlives the transaction
LockKept(r) == UNCHANGED rowLock

Release(r) == rowLock' = [u \in User |-> IF rowLock[u] = r THEN NoRequest ELSE rowLock[u]]

\* A request starts; apply_point_policy first reads the policy.
Begin(r, c) ==
  /\ pc[r] = "idle" /\ started < MaxCalls
  /\ started' = started + 1
  /\ call' = [call EXCEPT ![r] = c]
  /\ resolved' = [resolved EXCEPT ![r] = ResolvePolicy(c.reason)]
  /\ Goto(r, IF c.kind = "policy" THEN "key_check" ELSE "tx_read")
  /\ UNCHANGED <<tableVars, rowLock, nextBalance>>

\* The unlocked look-up of the key: a replay returns the existing row, a key
\* of another user is a ValueError.
KeyCheck(r) ==
  /\ pc[r] = "key_check"
  /\ \/ KeyUsedBy(call[r].key, call[r].user) /\ Finish(r, "existing")
     \/ KeyUsed(call[r].key) /\ ~KeyUsedBy(call[r].key, call[r].user) /\ Finish(r, "rejected")
     \/ ~KeyUsed(call[r].key) /\ Goto(r, "limits")
  /\ UNCHANGED <<tableVars, rowLock, call, resolved, nextBalance, started>>

\* _enforce_policy_limits.  Its reads are one step: rows are never removed, so
\* reads that pass one after the other all pass at the time of the first.
Limits(r) ==
  /\ pc[r] = "limits"
  /\ IF LimitsAllow(call[r], resolved[r]) THEN Goto(r, "tx_read") ELSE Finish(r, "rejected")
  /\ UNCHANGED <<tableVars, rowLock, call, resolved, nextBalance, started>>

\* _create_transaction validates the amount, opens the transaction and looks
\* the key up again, before it takes the lock.
TxRead(r) ==
  /\ pc[r] = "tx_read"
  /\ \/ ~ValidAmount(TypeOf(r), AmountOf(r)) /\ Finish(r, "rejected")
     \/ /\ ValidAmount(TypeOf(r), AmountOf(r))
        /\ \/ KeyUsedBy(call[r].key, call[r].user) /\ Finish(r, "existing")
           \/ /\ KeyUsed(call[r].key) /\ ~KeyUsedBy(call[r].key, call[r].user)
              /\ Finish(r, "rejected")
           \/ ~KeyUsed(call[r].key) /\ Goto(r, "lock")
  /\ UNCHANGED <<tableVars, rowLock, call, resolved, nextBalance, started>>

\* bug: the balance is read without waiting for the row
PlainRead(u) == TRUE

RowFree(u) == rowLock[u] = NoRequest

Covered(next) == next >= 0

\* SELECT ... FOR UPDATE waits for the row, then the balance is checked.
Lock(r) ==
  LET u == call[r].user
      next == balance[u] + AmountOf(r)
  IN /\ pc[r] = "lock"
     /\ RowFree(u)
     /\ \/ ~Covered(next) /\ Finish(r, "insufficient") /\ UNCHANGED <<rowLock, nextBalance>>
        \/ /\ Covered(next)
           /\ rowLock' = [rowLock EXCEPT ![u] = r]
           /\ nextBalance' = [nextBalance EXCEPT ![r] = next]
           /\ Goto(r, "commit")
     /\ UNCHANGED <<tableVars, call, resolved, started>>

\* bug: the key column is not UNIQUE
NoUniqueIndex(k) == FALSE

UniqueViolation(k) == KeyUsed(k)

\* The balance is saved, the row inserted and the transaction committed; a key
\* inserted since the look-up violates the UNIQUE column and rolls all back.
Commit(r) ==
  LET u == call[r].user
      row == [key |-> call[r].key, amount |-> AmountOf(r),
              balance_after |-> nextBalance[r], reason |-> call[r].reason,
              ref |-> call[r].ref, type |-> TypeOf(r), created_at |-> clock]
  IN /\ pc[r] = "commit"
     /\ \/ /\ UniqueViolation(call[r].key)
           /\ Finish(r, "integrity_error")
           /\ UNCHANGED <<balance, history>>
        \/ /\ ~UniqueViolation(call[r].key)
           /\ balance' = [balance EXCEPT ![u] = nextBalance[r]]
           /\ history' = [history EXCEPT ![u] = Append(history[u], row)]
           /\ Finish(r, "created")
     /\ Release(r)
     /\ UNCHANGED <<policies, clock, call, resolved, nextBalance, started>>

\* The worker dies: the database rolls its transaction back.
Crash(r) ==
  /\ pc[r] # "idle"
  /\ Finish(r, "crashed")
  /\ Release(r)
  /\ UNCHANGED <<tableVars, call, resolved, nextBalance, started>>

\* AdminPointPolicyUpdateView: the sign of an amount stays that of its type.
UpdatePolicy(up) ==
  LET type == SeedPolicy[up.reason].type
  IN /\ type = "EARN" => up.amount > 0
     /\ type = "USE" => up.amount < 0
     /\ policies' = [policies EXCEPT ![up.reason] = [amount |-> up.amount,
                                                      is_active |-> up.is_active]]
     /\ UNCHANGED <<balance, history, clock, rowLock, requestVars>>

Tick ==
  /\ clock < MaxClock
  /\ clock' = clock + 1
  /\ UNCHANGED <<balance, history, policies, rowLock, requestVars>>

RequestStep(r) == KeyCheck(r) \/ Limits(r) \/ TxRead(r) \/ Lock(r) \/ Commit(r)

Next ==
  \/ \E r \in Request : (\E c \in Calls : Begin(r, c)) \/ RequestStep(r) \/ Crash(r)
  \/ \E up \in PolicyUpdates : UpdatePolicy(up)
  \/ Tick

Spec == Init /\ [][Next]_vars

\* A worker runs its request to the end, and the database hands a row lock to
\* those that wait for it in turn.
Fairness == \A r \in Request : WF_vars(RequestStep(r)) /\ SF_vars(Lock(r))

FairSpec == Spec /\ Fairness

-----------------------------------------------------------------------------
(* Properties *)

\* Rows, policies and the variables of the requests keep their types; point_balance
\* is a PositiveIntegerField, never negative.
TypeOK ==
  /\ balance \in [User -> Nat]
  /\ history \in [User -> Seq(Row)]
  /\ policies \in [Reason -> [amount : Amount, is_active : BOOLEAN]]
  /\ clock \in Nat
  /\ rowLock \in [User -> Request \cup {NoRequest}]
  /\ pc \in [Request -> Step]
  /\ call \in [Request -> Call]
  /\ resolved \in [Request -> PolicyRecord]
  /\ nextBalance \in [Request -> Nat]
  /\ outcome \in [Request -> Outcome]
  /\ started \in Nat

\* The balance the row before the i-th of u left.
BalanceBefore(u, i) == IF i = 1 THEN 0 ELSE history[u][i - 1].balance_after

\* A row lock belongs to a transaction that is about to commit, and no posting
\* slips in between the balance it read and the one it will save.
LockedBalanceFresh ==
  /\ \A r \in Request : pc[r] = "commit" =>
       /\ rowLock[call[r].user] = r
       /\ nextBalance[r] = balance[call[r].user] + AmountOf(r)
  /\ \A u \in User : rowLock[u] # NoRequest =>
       pc[rowLock[u]] = "commit" /\ call[rowLock[u]].user = u

\* Whatever requests overlap or die, the rows of a user add up: each row's
\* balance_after is the one before plus its amount, none is negative, and
\* point_balance is what the last row says (no update is lost between the
\* locked read of the balance and its save).
LedgerChain ==
  \A u \in User :
    /\ \A i \in DOMAIN history[u] :
         /\ history[u][i].balance_after = BalanceBefore(u, i) + history[u][i].amount
         /\ history[u][i].balance_after >= 0
    /\ balance[u] = BalanceBefore(u, Len(history[u]) + 1)

\* An idempotency key moves points once, for one user, although both look-ups
\* of it precede the lock.
KeyMovesOnce ==
  \A u, v \in User : \A i \in DOMAIN history[u], j \in DOMAIN history[v] :
    /\ history[u][i].key = history[v][j].key
    /\ history[u][i].key # NoKey
    => u = v /\ i = j

\* The once-per-account and once-per-reference rules of the policies hold under
\* concurrency, although _enforce_policy_limits reads without a lock: the keys
\* the handlers pass are functions of the account or of the reference.
OnceRules ==
  \A u \in User : \A i, j \in DOMAIN history[u] :
    LET p == SeedPolicy[history[u][i].reason]
    IN i # j /\ history[u][i].reason = history[u][j].reason
       => /\ ~p.account_once
          /\ p.per_reference_once /\ history[u][i].ref # NoReference
               => history[u][i].ref # history[u][j].ref

\* An administrator may switch a policy off, and then the built-in one, which has no
\* limits, takes its place; the limits are those of a policy that stays on.
StaysOn(x) == \A up \in PolicyUpdates : up.reason = x => up.is_active

\* While the calls of a user do not overlap, the earnings of a reason stay within the
\* daily and the monthly limit of its policy, whatever amounts an administrator sets
\* between a check and its posting and whatever midnights pass there, and
\* INTERVIEW.COMPLETED is rewarded once a day by either policy (tests/test_points.py,
\* test_interview_completed_policy_blocks_other_reference_on_same_day).
LimitsKept ==
  \A u \in User :
    /\ \A x \in Reason : StaysOn(x) => \A now \in 0 .. clock :
         LET p == SeedPolicy[x]
         IN  /\ p.daily_limit # NoLimit => DaySum(u, x, now) <= p.daily_limit
             /\ p.monthly_limit # NoLimit => MonthSum(u, x, now) <= p.monthly_limit
    /\ \A i, j \in DOMAIN history[u] :
         /\ history[u][i].reason \in DailyOnce
         /\ history[u][i].reason = history[u][j].reason
         /\ LocalDay(history[u][i].created_at) = LocalDay(history[u][j].created_at)
         => i = j

\* Every call returns: no death of a worker and no failed insert leaves a row
\* lock behind that another request waits for.
CallsReturn == \A r \in Request : pc[r] # "idle" ~> pc[r] = "idle"

\* The steps of overlapping requests implement the ledger whose postings are
\* indivisible.
Abstract == INSTANCE Ledger WITH
  entries <- [u \in User |->
    [i \in DOMAIN history[u] |->
       [key |-> history[u][i].key, amount |-> history[u][i].amount,
        balance_after |-> history[u][i].balance_after]]]

LedgerImplemented == Abstract!LedgerSpec
=============================================================================
