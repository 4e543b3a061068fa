---------------------------- MODULE PendingSignup ----------------------------
(***************************************************************************)
(* Signing up with an e-mail address (apps/accounts/views.py SignupView,   *)
(* VerifyEmailView, ResendVerificationView and codes.py), for one address. *)
(*                                                                         *)
(* A PendingRegistration row keeps the draft of the account and the hash   *)
(* of the last code.  Each handler changes the row in a transaction that   *)
(* holds its lock (one step here); the mail is sent after the commit, and  *)
(* when sending fails the handler writes the row once more, from the       *)
(* object it still holds and without the lock.                             *)
(***************************************************************************)
EXTENDS Naturals

CONSTANTS Worker,
          MaxAttempts,  \* EMAIL_CODE_MAX_ATTEMPTS
          MaxCodes      \* bound: codes issued

ASSUME BoundAssumption == MaxAttempts \in Nat \ {0} /\ MaxCodes \in Nat

Codes == 1 .. MaxCodes
NoCode == 0     \* code_hash = ""
Wrong == MaxCodes + 1   \* any input that is no code ever issued

VARIABLES
  exists,    \* the PendingRegistration row is there
  pending,   \* its columns
  account,   \* there is a User row with the address
  pc,        \* where a worker is
  holding,   \* the code a worker is about to mail
  issued,    \* codes issued so far
  inbox,     \* codes that were mailed
  wrong,     \* history: wrong inputs compared with each code
  lapsed,    \* history: codes whose time to live is over
  late,      \* history: a failed mail was noticed after the next code was issued
  response   \* the "code" of the last response

workerVars == <<pc, holding>>
historyVars == <<wrong, lapsed, late>>
vars == <<exists, pending, account, workerVars, issued, inbox, historyVars, response>>

\* live: expires_at > now;  cooling: resend_available_at > now
Columns == [code : Codes \cup {NoCode}, live : BOOLEAN, cooling : BOOLEAN,
            attempts : 0 .. MaxAttempts, used : BOOLEAN]

Init ==
  /\ exists = FALSE
  /\ pending = [code |-> NoCode, live |-> FALSE, cooling |-> FALSE, attempts |-> 0,
                used |-> FALSE]
  /\ account = FALSE
  /\ pc = [w \in Worker |-> "idle"]
  /\ holding = [w \in Worker |-> NoCode]
  /\ issued = 0
  /\ inbox = {}
  /\ wrong = [c \in Codes |-> 0]
  /\ lapsed = {}
  /\ late = FALSE
  /\ response = "none"

Goto(w, s) == pc' = [pc EXCEPT ![w] = s]

\* bug: the attempts at the last code count against the new one
KeepAttempts == pending.attempts

NoAttempts == 0

\* issue_pending_code, on the row p: the new code, to be mailed by w.
Issue(w, p) ==
  /\ issued < MaxCodes
  /\ issued' = issued + 1
  /\ pending' = [p EXCEPT !.code = issued + 1, !.live = TRUE, !.cooling = TRUE,
                          !.attempts = NoAttempts, !.used = FALSE]
  /\ holding' = [holding EXCEPT ![w] = issued + 1]
  /\ Goto(w, "mail")

\* SignupView.post: an address that has an account is answered with 409.
BeginSignup(w) ==
  /\ pc[w] = "idle"
  /\ ~account
  /\ Goto(w, "signup")
  /\ UNCHANGED <<exists, pending, account, holding, issued, inbox, historyVars, response>>

\* The locking query finds no row, so there is none to lock.
FindNone(w) ==
  /\ pc[w] = "signup" /\ ~exists
  /\ Goto(w, "insert")
  /\ UNCHANGED <<exists, pending, account, holding, issued, inbox, historyVars,
                 response>>

\* The row is created with its first code, unless another worker was faster:
\* the address is UNIQUE.
Insert(w) ==
  /\ pc[w] = "insert"
  /\ \/ /\ exists
        /\ Goto(w, "idle")
        /\ response' = "PENDING_REGISTRATION_EXISTS"
        /\ UNCHANGED <<exists, pending, holding, issued>>
     \/ /\ ~exists
        /\ exists' = TRUE
        /\ Issue(w, pending)
        /\ UNCHANGED response
  /\ UNCHANGED <<account, inbox, historyVars>>

\* bug: a form that is sent again gives new attempts at the code that is out
AttemptsAfresh == [pending EXCEPT !.used = FALSE, !.attempts = 0]

\* The password, name and terms the form holds are left out.
NewDraft == [pending EXCEPT !.used = FALSE]

\* The form is sent again: it replaces the draft, and there is a new code only
\* when the cooldown is over.
Resubmit(w) ==
  /\ pc[w] = "signup" /\ exists
  /\ \/ /\ pending.cooling
        /\ pending' = NewDraft
        /\ Goto(w, "idle")
        /\ response' = "VERIFICATION_PENDING"
        /\ UNCHANGED <<holding, issued>>
     \/ /\ ~pending.cooling
        /\ Issue(w, NewDraft)
        /\ UNCHANGED response
  /\ UNCHANGED <<exists, account, inbox, historyVars>>

\* ResendVerificationView._resend_pending
Resend(w) ==
  /\ pc[w] = "idle" /\ exists
  /\ \/ /\ pending.used
        /\ response' = "REGISTRATION_ALREADY_VERIFIED"
        /\ UNCHANGED <<pending, pc, holding, issued>>
     \/ /\ ~pending.used /\ pending.cooling
        /\ response' = "RESEND_COOLDOWN"
        /\ UNCHANGED <<pending, pc, holding, issued>>
     \/ /\ ~pending.used /\ ~pending.cooling
        /\ Issue(w, pending)
        /\ UNCHANGED response
  /\ UNCHANGED <<exists, account, inbox, historyVars>>

Send(w) ==
  /\ pc[w] = "mail"
  /\ inbox' = inbox \cup {holding[w]}
  /\ Goto(w, "idle")
  /\ response' = "sent"
  /\ UNCHANGED <<exists, pending, account, holding, issued, historyVars>>

\* The mail server refuses or times out: invalidate_pending_code, whatever the
\* row has become.
SendFails(w) ==
  /\ pc[w] = "mail"
  /\ pending' = [pending EXCEPT !.code = NoCode, !.live = FALSE, !.cooling = FALSE,
                                !.attempts = 0]
  /\ late' = (late \/ pending.code # holding[w])
  /\ Goto(w, "idle")
  /\ response' = "EMAIL_SEND_FAILED"
  /\ UNCHANGED <<exists, account, holding, issued, inbox, wrong, lapsed>>

\* The worker dies before it has sent its mail.
Crash(w) ==
  /\ pc[w] = "mail"
  /\ Goto(w, "idle")
  /\ UNCHANGED <<exists, pending, account, holding, issued, inbox, historyVars,
                 response>>

AttemptLeft == pending.attempts < MaxAttempts

\* VerifyEmailView._verify_pending refuses before the code is compared.
Refuse ==
  /\ exists
  /\ \/ /\ pending.used
        /\ response' = "REGISTRATION_ALREADY_VERIFIED"
        /\ UNCHANGED pending
     \/ /\ ~pending.used
        /\ pending.code = NoCode \/ ~pending.live
        /\ response' = "VERIFY_CODE_EXPIRED"
        /\ UNCHANGED pending
     \/ /\ ~pending.used /\ pending.code # NoCode /\ pending.live
        /\ ~AttemptLeft
        /\ pending' = [pending EXCEPT !.used = TRUE]
        /\ response' = "VERIFY_TOO_MANY_ATTEMPTS"
  /\ UNCHANGED <<exists, account, workerVars, issued, inbox, historyVars>>

\* The code is compared: the row is locked, and lets one more attempt pass.
Comparable ==
  /\ exists /\ ~pending.used /\ pending.code # NoCode /\ pending.live
  /\ AttemptLeft

Mismatch(input) ==
  /\ Comparable /\ input # pending.code
  /\ pending' = [pending EXCEPT !.attempts = pending.attempts + 1]
  /\ wrong' = [wrong EXCEPT ![pending.code] = wrong[pending.code] + 1]
  /\ response' = "VERIFY_CODE_INVALID"
  /\ UNCHANGED <<exists, account, workerVars, issued, inbox, lapsed, late>>

\* The code is spent; the account is made from the draft, unless the address
\* has one by now.
Match(input) ==
  /\ Comparable /\ input = pending.code
  /\ pending' = [pending EXCEPT !.attempts = pending.attempts + 1, !.used = TRUE]
  /\ account' = TRUE
  /\ response' = IF account THEN "EMAIL_ALREADY_REGISTERED" ELSE "verified"
  /\ UNCHANGED <<exists, workerVars, issued, inbox, historyVars>>

\* Another route inserts an account with the address between the look-up of the
\* account and its creation: the transaction is rolled back, the attempt too.
MatchLost(input) ==
  /\ Comparable /\ input = pending.code /\ ~account
  /\ account' = TRUE
  /\ response' = "EMAIL_ALREADY_REGISTERED"
  /\ UNCHANGED <<exists, pending, workerVars, issued, inbox, historyVars>>

SignupElsewhere ==
  /\ ~account
  /\ account' = TRUE
  /\ UNCHANGED <<exists, pending, workerVars, issued, inbox, historyVars, response>>

CoolDown ==
  /\ pending.cooling
  /\ pending' = [pending EXCEPT !.cooling = FALSE]
  /\ UNCHANGED <<exists, account, workerVars, issued, inbox, historyVars, response>>

\* A code lives longer than the cooldown (600 s and 60 s).
Expire ==
  /\ pending.live /\ ~pending.cooling
  /\ pending' = [pending EXCEPT !.live = FALSE]
  /\ lapsed' = lapsed \cup {pending.code}
  /\ UNCHANGED <<exists, account, workerVars, issued, inbox, wrong, late, response>>

Next ==
  \/ \E w \in Worker :
       \/ BeginSignup(w) \/ FindNone(w) \/ Insert(w) \/ Resubmit(w) \/ Resend(w)
       \/ Send(w) \/ SendFails(w) \/ Crash(w)
  \/ \E input \in inbox \cup {Wrong} :
       Mismatch(input) \/ Match(input) \/ MatchLost(input)
  \/ Refuse \/ SignupElsewhere \/ CoolDown \/ Expire

Spec == Init /\ [][Next]_vars

-----------------------------------------------------------------------------
(* Properties *)

\* The row keeps the types of its columns: attempt_count never passes max_attempts,
\* and every code a worker mails is one that was issued.
TypeOK ==
  /\ exists \in BOOLEAN
  /\ pending \in Columns
  /\ account \in BOOLEAN
  /\ pc \in [Worker -> {"idle", "signup", "insert", "mail"}]
  /\ holding \in [Worker -> Codes \cup {NoCode}]
  /\ issued \in 0 .. MaxCodes
  /\ inbox \subseteq Codes
  /\ wrong \in [Codes -> Nat]
  /\ lapsed \subseteq Codes
  /\ late \in BOOLEAN

\* No interleaving of sign-ups, resends, failing mails and inputs lets more than
\* EMAIL_CODE_MAX_ATTEMPTS wrong inputs be compared with one code.
GuessesBounded == \A c \in Codes : wrong[c] <= MaxAttempts

\* As long as the address has no account, the last code that was issued and
\* mailed is accepted until it expires or has been tried too often, however many
\* mails failed, forms were sent again or codes replaced before; provided a
\* failed mail is noticed before the next code is issued.
LatestCodeWorks ==
  ~late /\ ~account /\ issued \in inbox \ lapsed /\ ~pending.used =>
    /\ pending.code = issued /\ pending.live
    /\ pending.attempts = wrong[issued]

\* "이미 인증이 완료된 가입 요청입니다" (the registration is already verified) is
\* answered only when the address has an account.
AlreadyVerifiedIsTrue ==
  response = "REGISTRATION_ALREADY_VERIFIED" => account
=============================================================================
