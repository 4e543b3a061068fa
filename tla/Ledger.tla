------------------------------- MODULE Ledger -------------------------------
(***************************************************************************)
(* What the point ledger of apps/accounts promises, with every posting     *)
(* taken as one indivisible step: a user's balance moves only together     *)
(* with the row that records the move, never below zero, and an            *)
(* idempotency key moves points at most once across all users.             *)
(*                                                                         *)
(* PointLedger implements this module; the modules of the paid features    *)
(* post through its action Post.                                           *)
(***************************************************************************)
EXTENDS Integers, Sequences

CONSTANTS User,     \* accounts
          Key,      \* idempotency keys a caller may pass
          NoKey,    \* idempotency_key = None
          Amount    \* signed amounts a posting may carry

ASSUME NoKeyAssumption == NoKey \notin Key
ASSUME AmountAssumption == Amount \subseteq Int

VARIABLES balance,  \* users.point_balance
          entries   \* accounts_point_history, per user, in insertion order

ledgerVars == <<balance, entries>>

\* A row, reduced to what the promise is about.
Entry == [key : Key \cup {NoKey}, amount : Int, balance_after : Int]

\* Some row of some user carries key k (the unique column of the table).
KeyUsed(k) ==
  /\ k # NoKey
  /\ \E u \in User : \E i \in DOMAIN entries[u] : entries[u][i].key = k

-----------------------------------------------------------------------------

LedgerInit ==
  /\ balance = [u \in User |-> 0]
  /\ entries = [u \in User |-> <<>>]

\* The posting of amount a for user u under key k.
Post(u, a, k) ==
  /\ ~KeyUsed(k)
  /\ balance[u] + a >= 0
  /\ balance' = [balance EXCEPT ![u] = balance[u] + a]
  /\ entries' = [entries EXCEPT ![u] =
                   Append(entries[u], [key |-> k, amount |-> a,
                                       balance_after |-> balance[u] + a])]

LedgerNext ==
  \E u \in User, a \in Amount, k \in Key \cup {NoKey} : Post(u, a, k)

LedgerSpec == LedgerInit /\ [][LedgerNext]_ledgerVars
=============================================================================
