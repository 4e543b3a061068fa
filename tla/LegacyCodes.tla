------------------------------ MODULE LegacyCodes ------------------------------
(***************************************************************************)
(* Verification codes of an account that exists but is not verified        *)
(* (accounts/codes.py issue_code and verify_code, with VerifyEmailView     *)
(* and ResendVerificationView): accounts of before PendingRegistration,    *)
(* and banned ones that an administrator has let in again.                 *)
(*                                                                         *)
(* Unlike PendingSignup, nothing is locked and there is a row per code:    *)
(* two requests may issue codes at once, or count the same attempt.        *)
(***************************************************************************)
EXTENDS Naturals, FiniteSets

CONSTANTS Visitor,      \* requests at work at once
          MaxTries,     \* EMAIL_CODE_MAX_ATTEMPTS
          MaxRows       \* bound: codes issued

ASSUME LegacyBoundAssumption == MaxTries \in Nat \ {0} /\ MaxRows \in Nat
ASSUME VisitorAssumption == IsFiniteSet(Visitor) /\ Visitor # {}

RowId == 1 .. MaxRows

VARIABLES
  rows,      \* the EmailVerificationCode rows: [there, used, tries, cooling, fresh]
  confirmed, \* is_verified
  visitor,   \* where a request is: [at, row, tries read, whether its input matched]
  made,      \* rows created
  compared   \* history: wrong inputs compared with each code

legacyVars == <<rows, confirmed, visitor, made, compared>>

NoRow == [used |-> TRUE, tries |-> 0, cooling |-> FALSE, fresh |-> FALSE]
Outside == [at |-> "idle", row |-> 0, tries |-> 0, match |-> FALSE]

LegacyInit ==
  /\ rows = [i \in RowId |-> NoRow]
  /\ confirmed = FALSE
  /\ visitor = [v \in Visitor |-> Outside]
  /\ made = 0
  /\ compared = [i \in RowId |-> 0]

Unused == { i \in RowId : ~rows[i].used }
LatestUnused == CHOOSE i \in Unused : \A j \in Unused : j <= i
Goes(v, at, i, tries, match) == visitor' = [visitor EXCEPT ![v] = [at |-> at, row |-> i, tries |-> tries, match |-> match]]
IsDone(v) == visitor' = [visitor EXCEPT ![v] = Outside]

InvalidateAll == [i \in RowId |-> [rows[i] EXCEPT !.used = TRUE]]

\* _resend_legacy and the first step of issue_code: the cooldown of the latest
\* unused code.
AskCode(v) ==
  /\ visitor[v].at = "idle" /\ ~confirmed
  /\ Unused # {} => ~rows[LatestUnused].cooling
  /\ Goes(v, "invalidate", 0, 0, FALSE)
  /\ UNCHANGED <<rows, confirmed, made, compared>>

InvalidateOld(v) ==
  /\ visitor[v].at = "invalidate"
  /\ rows' = InvalidateAll
  /\ Goes(v, "insert", 0, 0, FALSE)
  /\ UNCHANGED <<confirmed, made, compared>>

InsertCode(v) ==
  /\ visitor[v].at = "insert" /\ made < MaxRows
  /\ made' = made + 1
  /\ rows' = [rows EXCEPT ![made + 1] = [used |-> FALSE, tries |-> 0, cooling |-> TRUE, fresh |-> TRUE]]
  /\ Goes(v, "mail", made + 1, 0, FALSE)
  /\ UNCHANGED <<confirmed, compared>>

\* A mail that fails invalidates every unused code, the others' too.
MailCode(v, sent) ==
  /\ visitor[v].at = "mail"
  /\ rows' = IF sent THEN rows ELSE InvalidateAll
  /\ IsDone(v)
  /\ UNCHANGED <<confirmed, made, compared>>

\* verify_code reads the latest unused code; none or a stale one is answered as
\* expired, and one without attempts left is used up.
ReadRow(v) ==
  /\ visitor[v].at = "idle" /\ ~confirmed
  /\ Unused # {} /\ rows[LatestUnused].fresh
  /\ \E match \in BOOLEAN : Goes(v, "compare", LatestUnused, rows[LatestUnused].tries, match)
  /\ UNCHANGED <<rows, confirmed, made, compared>>

\* bug: the attempt is not saved when the input is wrong
SavedMatchOnly(v) ==
  LET i == visitor[v].row
  IN IF visitor[v].match THEN [rows EXCEPT ![i].tries = visitor[v].tries + 1, ![i].used = TRUE] ELSE rows

\* The attempt that was counted is saved, and a match uses the code up.
SavedAttempt(v) ==
  LET i == visitor[v].row
  IN [rows EXCEPT ![i].tries = visitor[v].tries + 1, ![i].used = @ \/ visitor[v].match]

CompareCode(v) ==
  /\ visitor[v].at = "compare"
  /\ LET i == visitor[v].row
     IN IF visitor[v].tries >= MaxTries
        THEN /\ rows' = [rows EXCEPT ![i].used = TRUE]
             /\ IsDone(v) /\ UNCHANGED compared
        ELSE /\ rows' = SavedAttempt(v)
             /\ IF visitor[v].match
                THEN Goes(v, "confirm", i, 0, TRUE) /\ UNCHANGED compared
                ELSE IsDone(v) /\ compared' = [compared EXCEPT ![i] = @ + 1]
  /\ UNCHANGED <<confirmed, made>>

\* _verify_legacy saves is_verified; its reward is a posting of PointLedger.
Confirm(v) ==
  /\ visitor[v].at = "confirm"
  /\ confirmed' = TRUE
  /\ IsDone(v)
  /\ UNCHANGED <<rows, made, compared>>

CodeCools(i) ==
  /\ rows[i].cooling
  /\ rows' = [rows EXCEPT ![i].cooling = FALSE]
  /\ UNCHANGED <<confirmed, visitor, made, compared>>

CodeExpires(i) ==
  /\ rows[i].fresh /\ ~rows[i].cooling
  /\ rows' = [rows EXCEPT ![i].fresh = FALSE]
  /\ UNCHANGED <<confirmed, visitor, made, compared>>

LegacyNext ==
  \/ \E v \in Visitor :
        \/ AskCode(v) \/ InvalidateOld(v) \/ InsertCode(v) \/ \E sent \in BOOLEAN : MailCode(v, sent)
        \/ ReadRow(v) \/ CompareCode(v) \/ Confirm(v)
  \/ \E i \in RowId : CodeCools(i) \/ CodeExpires(i)

LegacySpec == LegacyInit /\ [][LegacyNext]_legacyVars

-----------------------------------------------------------------------------
(* Properties *)

RunningSum(a) ==
  LET sum[d \in 0 .. MaxTries] == IF d = 0 THEN a[0] ELSE sum[d - 1] + a[d]
  IN  sum

\* The ways of setting n counts back d times, as binomial coefficients:
\* SetBacks[n][d] is C(n + d - 1, d).
SetBacks[n \in 0 .. Cardinality(Visitor) + 1] ==
  IF n = 0 THEN [d \in 0 .. MaxTries |-> IF d = 0 THEN 1 ELSE 0] ELSE RunningSum(SetBacks[n - 1])

\* A request that read the count before others raised it sets it back, and whoever
\* reads it then counts from there: MaxTries does not bound the wrong inputs that
\* are compared with a code, but with n requests at once C(n + MaxTries, MaxTries)
\* - 1 does (one request: MaxTries).
LegacyGuessesBounded ==
  \A i \in RowId : compared[i] < SetBacks[Cardinality(Visitor) + 1][MaxTries]
=============================================================================
