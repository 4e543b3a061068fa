--------------------------- MODULE AccountLifecycle ---------------------------
(***************************************************************************)
(* One verified account: signing in, dormancy, bans, withdrawal,           *)
(* invitation, password reset and the two nightly jobs (apps/accounts and  *)
(* admin_api/services/member_service.py).  The rewards of a login are      *)
(* postings of PointLedger; agreements to terms decide only about them.    *)
(*                                                                         *)
(* Withdrawal and the administrator's change of status lock the row.  All  *)
(* other handlers read it, decide, and write some of its columns later,    *)
(* from the object they read; what keeps them from undoing one another is  *)
(* that each names the columns it saves.                                   *)
(***************************************************************************)
EXTENDS Naturals, FiniteSets

CONSTANTS Client,        \* requests at work at once
          MaxPasswords,  \* bound: passwords the account has had
          MaxOrders      \* bound: changes ordered by an administrator

ASSUME AccountBoundAssumption == MaxPasswords \in Nat \ {0} /\ MaxOrders \in Nat

MemberStatus == {"active", "dormant", "banned", "withdrawn", "suspended"}

VARIABLES
  member,     \* the columns of the accounts_user row
  client,     \* where a request is, and what of the row it has read
  tokens,     \* the passwords whose hash is in an issued token (hash_password claim)
  resetLink,  \* the mailed reset link: 0, or the password it was made for
  dormancy,   \* check_dormant_accounts: what it is about to do with the account
  cleanup,    \* cleanup_withdrawn_accounts, likewise
  orders

jobVars == <<dormancy, cleanup>>
accountVars == <<member, client, tokens, resetLink, jobVars, orders>>

\* idle: days since the last login, 0 below WARNING_DAYS, 1 below DORMANT_DAYS,
\* 2 from then on.  since: withdrawn_at, "none", "recent", or "over" once the
\* retention is.  password 0 is an unusable one.
NewMember ==
  [status |-> "active", enabled |-> TRUE, verified |-> TRUE, password |-> 1,
   mail |-> "own", idle |-> 0, warned |-> FALSE, since |-> "none"]

AtRest == [at |-> "idle", dormant |-> FALSE, warned |-> FALSE, password |-> 0]
HasRead(at) == [at |-> at, dormant |-> member.status = "dormant", warned |-> member.warned,
                password |-> member.password]

AccountInit ==
  /\ member = NewMember
  /\ client = [c \in Client |-> AtRest]
  /\ tokens = {}
  /\ resetLink = 0
  /\ dormancy = "idle" /\ cleanup = "idle"
  /\ orders = 0

Reads(c, at) == client[c].at = "idle" /\ client' = [client EXCEPT ![c] = HasRead(at)]
Moves(c, at) == client' = [client EXCEPT ![c].at = at]
Finishes(c) == client' = [client EXCEPT ![c] = AtRest]

-----------------------------------------------------------------------------
(* Signing in *)

\* LoginSerializer: the last password signs in.
Login(c) ==
  /\ member.mail = "own" /\ member.password > 0 /\ member.verified
  /\ member.status \in {"active", "dormant"} /\ member.enabled
  /\ Reads(c, "stamp")
  /\ UNCHANGED <<member, tokens, resetLink, jobVars, orders>>

\* OAuthExchangeView with _is_blocked, which lets a suspended account in.
SocialLogin(c) ==
  /\ member.status \notin {"withdrawn", "banned"} /\ member.enabled
  /\ Reads(c, "stamp")
  /\ UNCHANGED <<member, tokens, resetLink, jobVars, orders>>

\* JWTAuthentication with CHECK_REVOKE_TOKEN: what a request with a token needs.
Authenticated == member.enabled /\ member.password \in tokens

\* TermsAcceptanceView completes the login once more, without new tokens.
AcceptTerms(c) ==
  /\ Authenticated
  /\ Reads(c, "stampTerms")
  /\ UNCHANGED <<member, tokens, resetLink, jobVars, orders>>

\* complete_login begins with update_last_login, which makes reset links of
\* before invalid.
Stamp(c) ==
  /\ client[c].at \in {"stamp", "stampTerms"}
  /\ member' = [member EXCEPT !.idle = 0]
  /\ resetLink' = 0
  /\ Moves(c, IF client[c].at = "stamp" THEN "save" ELSE "saveTerms")
  /\ UNCHANGED <<tokens, jobVars, orders>>

\* bug: who comes back from dormancy is enabled as well
SavedEnabled(c) ==
  [member EXCEPT !.status = IF client[c].dormant THEN "active" ELSE @,
                 !.enabled = @ \/ client[c].dormant,
                 !.warned = IF client[c].warned THEN FALSE ELSE @]

\* The columns complete_login saves: status, dormancy_warning_sent_at, both or
\* none, by what it has read.
Saved(c) ==
  [member EXCEPT !.status = IF client[c].dormant THEN "active" ELSE @,
                 !.warned = IF client[c].warned THEN FALSE ELSE @]

SaveLogin(c) ==
  /\ client[c].at \in {"save", "saveTerms"}
  /\ member' = Saved(c)
  /\ IF client[c].at = "save" THEN Moves(c, "issue") ELSE Finishes(c)
  /\ UNCHANGED <<tokens, resetLink, jobVars, orders>>

\* RefreshToken.for_user: tokens for the password that was read.
IssueTokens(c) ==
  /\ client[c].at = "issue"
  /\ tokens' = tokens \cup {client[c].password}
  /\ Finishes(c)
  /\ UNCHANGED <<member, resetLink, jobVars, orders>>

-----------------------------------------------------------------------------
(* Password reset *)

\* PasswordResetRequestView
RequestReset ==
  /\ member.mail = "own" /\ member.enabled /\ member.verified /\ member.password > 0
  /\ member.status \notin {"banned", "withdrawn"}
  /\ resetLink' = member.password
  /\ UNCHANGED <<member, client, tokens, jobVars, orders>>

\* PasswordResetConfirmSerializer
CheckReset(c) ==
  /\ resetLink > 0 /\ member.enabled /\ member.status \notin {"banned", "withdrawn"}
  /\ Reads(c, "reset")
  /\ UNCHANGED <<member, tokens, resetLink, jobVars, orders>>

NextPassword(c) == 1 + (IF member.password > client[c].password THEN member.password ELSE client[c].password)

\* PasswordResetConfirmView.post
SavePassword(c) ==
  /\ client[c].at = "reset" /\ NextPassword(c) <= MaxPasswords
  /\ member' = [member EXCEPT !.password = NextPassword(c)]
  /\ resetLink' = 0
  /\ Finishes(c)
  /\ UNCHANGED <<tokens, jobVars, orders>>

-----------------------------------------------------------------------------
(* Orders of an administrator, and of the user *)

Order == orders < MaxOrders /\ orders' = orders + 1

\* withdraw_member under the lock, by an administrator or, in
\* AccountWithdrawalView, by the user.
Withdraw ==
  /\ member.status # "withdrawn" /\ Order
  /\ member' = [member EXCEPT !.status = "withdrawn", !.since = "recent", !.enabled = FALSE]
  /\ UNCHANGED <<client, tokens, resetLink, jobVars>>

\* change_member_status under the lock: any status from any other.
ChangeStatus(s) ==
  /\ Order
  /\ member' = [member EXCEPT !.status = s]
  /\ UNCHANGED <<client, tokens, resetLink, jobVars>>

\* invite_or_reactivate_member: a banned account is found, and saved later.
Invite(c) ==
  /\ member.status = "banned" /\ member.mail = "own"
  /\ Reads(c, "invite")
  /\ UNCHANGED <<member, tokens, resetLink, jobVars, orders>>

Reactivate(c) ==
  /\ client[c].at = "invite"
  /\ member' = [member EXCEPT !.status = "active", !.verified = FALSE]
  /\ Finishes(c)
  /\ UNCHANGED <<tokens, resetLink, jobVars, orders>>

\* The mailed code confirms the address again (module LegacyCodes).
ConfirmAddress ==
  /\ ~member.verified /\ member.mail = "own"
  /\ member' = [member EXCEPT !.verified = TRUE]
  /\ UNCHANGED <<client, tokens, resetLink, jobVars, orders>>

-----------------------------------------------------------------------------
(* Time and the nightly jobs *)

\* Enough days pass for the next threshold.
TimePasses ==
  /\ member.idle < 2 \/ member.since = "recent"
  /\ member' = [member EXCEPT !.idle = IF @ < 2 THEN @ + 1 ELSE @,
                              !.since = IF @ = "recent" THEN "over" ELSE @]
  /\ UNCHANGED <<client, tokens, resetLink, jobVars, orders>>

\* check_dormant_accounts reads the active accounts, then takes one by one.
ReadActive ==
  /\ dormancy = "idle" /\ member.status = "active"
  /\ \/ member.idle = 2 /\ dormancy' = "mark"
     \/ member.idle = 1 /\ ~member.warned /\ dormancy' = "warn"
  /\ UNCHANGED <<member, client, tokens, resetLink, cleanup, orders>>

\* Whether the mail of the transition was sent changes nothing.
MarkDormant ==
  /\ dormancy = "mark"
  /\ member' = [member EXCEPT !.status = "dormant"]
  /\ dormancy' = "idle"
  /\ UNCHANGED <<client, tokens, resetLink, cleanup, orders>>

\* A warning counts only when it was sent.
Warn(mailed) ==
  /\ dormancy = "warn"
  /\ member' = [member EXCEPT !.warned = @ \/ mailed]
  /\ dormancy' = "idle"
  /\ UNCHANGED <<client, tokens, resetLink, cleanup, orders>>

\* bug: the cutoff is compared the wrong way round
ExpiredReversed == member.status = "withdrawn" /\ member.since = "recent" /\ member.mail = "own"

\* The filter of cleanup_withdrawn_accounts.
Expired == member.status = "withdrawn" /\ member.since = "over" /\ member.mail = "own"

\* cleanup_withdrawn_accounts
ReadExpired ==
  /\ cleanup = "idle" /\ Expired
  /\ cleanup' = "save"
  /\ UNCHANGED <<member, client, tokens, resetLink, dormancy, orders>>

Anonymized == [member EXCEPT !.mail = "anonymous", !.password = 0]

Anonymize ==
  /\ cleanup = "save"
  /\ member' = Anonymized
  /\ resetLink' = 0
  /\ cleanup' = "idle"
  /\ UNCHANGED <<client, tokens, dormancy, orders>>

AccountNext ==
  \/ \E c \in Client :
        \/ Login(c) \/ SocialLogin(c)
        \/ AcceptTerms(c) \/ Stamp(c) \/ SaveLogin(c) \/ IssueTokens(c)
        \/ CheckReset(c) \/ SavePassword(c) \/ Invite(c) \/ Reactivate(c)
  \/ RequestReset \/ Withdraw \/ ConfirmAddress \/ TimePasses
  \/ \E s \in MemberStatus : ChangeStatus(s)
  \/ ReadActive \/ MarkDormant \/ (\E mailed \in BOOLEAN : Warn(mailed)) \/ ReadExpired \/ Anonymize

\* The scheduler starts both jobs every night, and a started job goes on.
NightlyJobs ==
  /\ WF_accountVars(ReadActive) /\ WF_accountVars(MarkDormant \/ \E mailed \in BOOLEAN : Warn(mailed))
  /\ WF_accountVars(ReadExpired) /\ WF_accountVars(Anonymize)

AccountSpec == AccountInit /\ [][AccountNext]_accountVars /\ NightlyJobs

-----------------------------------------------------------------------------
(* Properties *)

\* A dated withdrawal leaves no way in again, and only such an account is ever
\* anonymized, whatever requests and jobs that have read the row before the
\* withdrawal save after it, and whatever status an administrator gives it.
EndedForGood ==
  /\ member.since # "none" => ~member.enabled
  /\ member.mail = "anonymous" => ~member.enabled /\ member.since # "none"

\* No account keeps its personal data when its withdrawal is over the retention,
\* unless somebody gives it another status meanwhile.
WithdrawalExpires ==
  (member.status = "withdrawn" /\ member.since = "over")
    ~> (member.mail = "anonymous" \/ member.status # "withdrawn")
=============================================================================
