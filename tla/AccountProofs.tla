----------------------------- MODULE AccountProofs -----------------------------
(***************************************************************************)
(* Proofs about an account and what hangs on it, where requests overlap    *)
(* and most lock nothing: the codes that are mailed to a new sign-up       *)
(* (PendingSignup) and to an account that exists and is not verified       *)
(* (LegacyCodes), the pages of a report (ReportPages), the learning        *)
(* roadmap (Roadmap), signing in with a social account (SocialSignIn), the *)
(* life of the account (AccountLifecycle), what a user is shown of job     *)
(* offers (JobOffers) and of his growth (GrowthPage), and the recordings   *)
(* of his answers (SpeechAnswers).                                         *)
(*                                                                         *)
(* A row of PendingSignup counts at least the wrong inputs its code has    *)
(* met. One of LegacyCodes may count fewer, since requests read and        *)
(* save the count without a lock: what is bounded there is how often the   *)
(* counts that requests hold can still set the row's count back.           *)
(***************************************************************************)
EXTENDS PendingSignup, LegacyCodes, ReportPages, Roadmap, SocialSignIn, AccountLifecycle,
        JobOffers, SpeechAnswers, GrowthPage, Lists, SequenceTheorems, TLAPS

-----------------------------------------------------------------------------
(* Codes of a new sign-up *)

\* Why the bound holds: the row's attempt_count is at least the number of wrong
\* inputs its code has met, and a code that is to be issued has met none.
Counted ==
  /\ pending.code <= issued
  /\ pending.live => pending.code # NoCode
  /\ \A c \in Codes : c > issued => wrong[c] = 0
  /\ pending.code # NoCode => wrong[pending.code] <= pending.attempts

\* A worker that is about to mail has a code to mail.
HasCode == \A w \in Worker : pc[w] = "mail" => holding[w] # NoCode

IInv == TypeOK /\ Counted /\ HasCode /\ GuessesBounded

\* Only Issue sends a worker to the mail server, with a code in its hands.
LEMMA CodeInHand == TypeOK /\ HasCode /\ [Next]_vars => HasCode'
<1> SUFFICES ASSUME TypeOK, HasCode, [Next]_vars PROVE HasCode'
  OBVIOUS
<1>1. issued \in Nat /\ DOMAIN pc = Worker /\ DOMAIN holding = Worker
  BY BoundAssumption DEF TypeOK
<1>2. ASSUME NEW w \in Worker, NEW s, s # "mail", Goto(w, s), holding' = holding
      PROVE  HasCode'
  BY <1>1, <1>2 DEF Goto, HasCode
<1>3. ASSUME NEW w \in Worker, NEW p, Issue(w, p)
      PROVE  HasCode'
  <2>1. issued + 1 # NoCode
    BY <1>1 DEF NoCode
  <2>2. pc' = [pc EXCEPT ![w] = "mail"] /\ holding' = [holding EXCEPT ![w] = issued + 1]
    BY <1>3 DEF Issue, Goto
  <2>3. QED
    BY <1>1, <2>1, <2>2 DEF HasCode
<1>4. UNCHANGED <<pc, holding>> => HasCode'
  BY DEF HasCode
<1>5. ASSUME NEW w \in Worker, BeginSignup(w) \/ FindNone(w) \/ Send(w) \/ SendFails(w) \/ Crash(w)
      PROVE  HasCode'
  BY <1>2, <1>5 DEF BeginSignup, FindNone, Send, SendFails, Crash
<1>6. ASSUME NEW w \in Worker, Insert(w) \/ Resubmit(w) \/ Resend(w)
      PROVE  HasCode'
  BY <1>2, <1>3, <1>4, <1>6 DEF Insert, Resubmit, Resend
<1>7. ASSUME NEW input, Mismatch(input) \/ Match(input) \/ MatchLost(input)
      PROVE  HasCode'
  BY <1>4, <1>7 DEF Mismatch, Match, MatchLost, workerVars
<1>8. CASE Refuse \/ SignupElsewhere \/ CoolDown \/ Expire \/ UNCHANGED vars
  BY <1>4, <1>8 DEF Refuse, SignupElsewhere, CoolDown, Expire, vars, workerVars
<1>9. QED
  BY <1>5, <1>6, <1>7, <1>8 DEF Next

\* There is no row and no code at first.
LEMMA Initial == Init => IInv
<1> SUFFICES ASSUME Init PROVE IInv
  OBVIOUS
<1>1. /\ pending \in Columns /\ pending.code = 0 /\ pending.live = FALSE
      /\ issued = 0 /\ issued \in 0 .. MaxCodes /\ MaxAttempts \in Nat
  BY BoundAssumption DEF Init, Columns, NoCode
<1>2. wrong \in [Codes -> Nat] /\ \A c \in Codes : wrong[c] = 0
  BY DEF Init
<1>3. TypeOK
  BY <1>1, <1>2 DEF Init, TypeOK
<1>4. Counted
  BY <1>1, <1>2 DEF Counted, NoCode
<1>5. GuessesBounded
  BY <1>1, <1>2 DEF GuessesBounded
<1>6. HasCode
  BY DEF Init, HasCode
<1>7. QED
  BY <1>3, <1>4, <1>5, <1>6 DEF IInv

\* A new code starts with no attempts and has met no input.
LEMMA IssueKeeps ==
  ASSUME IInv, HasCode', NEW w \in Worker, NEW p \in Columns, Issue(w, p),
         UNCHANGED <<account, inbox, historyVars>>, exists' \in BOOLEAN
  PROVE  IInv'
<1>1. /\ issued \in 0 .. MaxCodes /\ issued < MaxCodes /\ issued' = issued + 1
      /\ MaxCodes \in Nat /\ MaxAttempts \in Nat
  BY BoundAssumption DEF IInv, TypeOK, Issue
<1>2. pending' = [code |-> issued + 1, live |-> TRUE, cooling |-> TRUE,
                  attempts |-> 0, used |-> FALSE]
  BY DEF Issue, NoAttempts, Columns
<1>3. issued + 1 \in Codes /\ issued' \in 0 .. MaxCodes
  BY <1>1 DEF Codes
<1>4. TypeOK'
  <2>1. pending' \in Columns
    BY <1>1, <1>2, <1>3 DEF Columns
  <2>2. pc' \in [Worker -> {"idle", "signup", "insert", "mail"}]
    BY DEF IInv, TypeOK, Issue, Goto
  <2>3. holding' \in [Worker -> Codes \cup {NoCode}]
    BY <1>3 DEF IInv, TypeOK, Issue
  <2>4. QED
    BY <1>3, <2>1, <2>2, <2>3 DEF IInv, TypeOK, historyVars
<1>5. wrong' = wrong
  BY DEF historyVars
<1>6. Counted'
  BY <1>1, <1>2, <1>3, <1>5 DEF IInv, Counted, Codes, NoCode
<1>7. GuessesBounded'
  BY <1>5 DEF IInv, GuessesBounded
<1>8. QED
  BY <1>4, <1>6, <1>7 DEF IInv

\* A step that touches neither the code, nor the attempts, nor the inputs.
LEMMA Quiet ==
  ASSUME IInv, HasCode', TypeOK', wrong' = wrong, issued' = issued,
         pending'.code = pending.code, pending'.attempts = pending.attempts,
         pending'.live => pending.live
  PROVE  IInv'
  BY DEF IInv, Counted, GuessesBounded

\* Every step keeps the invariant; only Issue, Mismatch and SendFails touch what it
\* counts.
LEMMA Step == IInv /\ [Next]_vars => IInv'
<1> SUFFICES ASSUME IInv, [Next]_vars PROVE IInv'
  OBVIOUS
<1> USE BoundAssumption
<1>0. HasCode'
  BY CodeInHand DEF IInv
<1>1. ASSUME NEW w \in Worker, BeginSignup(w) \/ FindNone(w) \/ Send(w) \/ Crash(w)
      PROVE  IInv'
  <2>1. pc[w] = "mail" => holding[w] \in Codes
    BY DEF IInv, TypeOK, HasCode
  <2>2. inbox' \subseteq Codes
    BY <1>1, <2>1 DEF IInv, TypeOK, BeginSignup, FindNone, Send, Crash
  <2>3. TypeOK'
    BY <1>1, <2>2 DEF IInv, TypeOK, BeginSignup, FindNone, Send, Crash, Goto, historyVars
  <2>4. wrong' = wrong /\ issued' = issued /\ pending' = pending
    BY <1>1 DEF BeginSignup, FindNone, Send, Crash, historyVars
  <2>5. QED
    BY <2>3, <2>4, <1>0, Quiet
<1>2. ASSUME NEW w \in Worker, Insert(w)
      PROVE  IInv'
  <2>1. CASE exists
    <3>1. TypeOK' /\ wrong' = wrong /\ issued' = issued /\ pending' = pending
      BY <1>2, <2>1 DEF IInv, TypeOK, Insert, Goto, historyVars
    <3>2. QED
      BY <3>1, <1>0, Quiet
  <2>2. CASE ~exists
    <3>1. Issue(w, pending) /\ exists' = TRUE /\ UNCHANGED <<account, inbox, historyVars>>
      BY <1>2, <2>2 DEF Insert
    <3>2. pending \in Columns
      BY DEF IInv, TypeOK
    <3>3. QED
      BY <3>1, <3>2, <1>0, IssueKeeps
  <2>3. QED
    BY <2>1, <2>2 DEF IInv, TypeOK
<1>3. ASSUME NEW w \in Worker, Resubmit(w)
      PROVE  IInv'
  <2>1. NewDraft \in Columns /\ NewDraft.code = pending.code
        /\ NewDraft.attempts = pending.attempts /\ NewDraft.live = pending.live
    BY DEF IInv, TypeOK, NewDraft, Columns
  <2>2. CASE pending.cooling
    <3>1. pending' = NewDraft /\ wrong' = wrong /\ issued' = issued
      BY <1>3, <2>2 DEF Resubmit, historyVars
    <3>2. TypeOK'
      BY <1>3, <2>2, <2>1 DEF IInv, TypeOK, Resubmit, Goto, historyVars
    <3>3. QED
      BY <2>1, <3>1, <3>2, <1>0, Quiet
  <2>3. CASE ~pending.cooling
    <3>1. Issue(w, NewDraft) /\ UNCHANGED <<account, inbox, historyVars>> /\ exists' = exists
      BY <1>3, <2>3 DEF Resubmit
    <3>2. exists' \in BOOLEAN
      BY <3>1 DEF IInv, TypeOK
    <3>3. QED
      BY <2>1, <3>1, <3>2, <1>0, IssueKeeps
  <2>4. QED
    BY <2>2, <2>3
<1>4. ASSUME NEW w \in Worker, Resend(w)
      PROVE  IInv'
  <2>1. CASE ~pending.used /\ ~pending.cooling
    <3>1. Issue(w, pending) /\ UNCHANGED <<account, inbox, historyVars>> /\ exists' = exists
      BY <1>4, <2>1 DEF Resend
    <3>2. exists' \in BOOLEAN /\ pending \in Columns
      BY <3>1 DEF IInv, TypeOK
    <3>3. QED
      BY <3>1, <3>2, <1>0, IssueKeeps
  <2>2. CASE pending.used \/ pending.cooling
    <3>1. UNCHANGED <<exists, pending, account, pc, holding, issued, inbox, historyVars>>
      BY <1>4, <2>2 DEF Resend
    <3>2. TypeOK' /\ wrong' = wrong /\ issued' = issued /\ pending' = pending
      BY <3>1 DEF IInv, TypeOK, historyVars
    <3>3. QED
      BY <3>2, <1>0, Quiet
  <2>3. QED
    BY <2>1, <2>2
<1>5. ASSUME NEW w \in Worker, SendFails(w)
      PROVE  IInv'
  <2>1. pending' = [code |-> NoCode, live |-> FALSE, cooling |-> FALSE, attempts |-> 0,
                    used |-> pending.used]
    BY <1>5 DEF SendFails, IInv, TypeOK, Columns
  <2>2. pending' \in Columns
    BY <2>1 DEF Columns, NoCode, IInv, TypeOK
  <2>3. TypeOK'
    BY <1>5, <2>2 DEF SendFails, IInv, TypeOK, Goto
  <2>4. wrong' = wrong /\ issued' = issued /\ issued \in Nat
    BY <1>5 DEF SendFails, IInv, TypeOK
  <2>5. Counted'
    BY <2>1, <2>4 DEF IInv, Counted, NoCode
  <2>6. QED
    BY <2>3, <2>4, <2>5, <1>0 DEF IInv, GuessesBounded
<1>6. ASSUME NEW input \in inbox \cup {Wrong}, Mismatch(input)
      PROVE  IInv'
  <2> DEFINE c == pending.code
  <2>1. /\ c \in Codes /\ pending \in Columns /\ wrong \in [Codes -> Nat]
        /\ pending.attempts \in 0 .. MaxAttempts /\ pending.attempts < MaxAttempts
        /\ wrong[c] <= pending.attempts /\ c <= issued /\ issued \in Nat
    BY <1>6 DEF IInv, TypeOK, Counted, Mismatch, Comparable, AttemptLeft, Columns, NoCode
  <2>2. /\ pending' = [pending EXCEPT !.attempts = pending.attempts + 1]
        /\ wrong' = [wrong EXCEPT ![c] = wrong[c] + 1]
        /\ issued' = issued
    BY <1>6 DEF Mismatch
  <2>3. pending' \in Columns /\ pending'.code = c /\ pending'.attempts = pending.attempts + 1
        /\ pending'.live = pending.live
    BY <2>1, <2>2 DEF Columns
  <2>4. wrong' \in [Codes -> Nat] /\ wrong'[c] = wrong[c] + 1
        /\ \A d \in Codes : d # c => wrong'[d] = wrong[d]
    BY <2>1, <2>2
  <2>5. TypeOK'
    BY <1>6, <2>3, <2>4 DEF Mismatch, IInv, TypeOK, workerVars
  <2>6. Counted'
    BY <2>1, <2>2, <2>3, <2>4 DEF IInv, Counted, Codes, NoCode
  <2>7. GuessesBounded'
    BY <2>1, <2>4 DEF IInv, GuessesBounded
  <2>8. QED
    BY <2>5, <2>6, <2>7, <1>0 DEF IInv
<1>7. ASSUME NEW input \in inbox \cup {Wrong}, Match(input)
      PROVE  IInv'
  <2>1. /\ pending \in Columns /\ pending.attempts \in 0 .. MaxAttempts
        /\ pending.attempts < MaxAttempts
    BY <1>7 DEF IInv, TypeOK, Match, Comparable, AttemptLeft, Columns
  <2>2. /\ pending' = [pending EXCEPT !.attempts = pending.attempts + 1, !.used = TRUE]
        /\ wrong' = wrong /\ issued' = issued
    BY <1>7 DEF Match, historyVars
  <2>3. pending' \in Columns /\ pending'.code = pending.code
        /\ pending'.attempts = pending.attempts + 1 /\ pending'.live = pending.live
    <3>1. pending' = [code |-> pending.code, live |-> pending.live, cooling |-> pending.cooling,
                      attempts |-> pending.attempts + 1, used |-> TRUE]
      BY <2>1, <2>2 DEF Columns
    <3>2. pending.attempts + 1 \in 0 .. MaxAttempts
      BY <2>1
    <3>3. QED
      BY <2>1, <3>1, <3>2 DEF Columns
  <2>4. TypeOK'
    BY <1>7, <2>3 DEF Match, IInv, TypeOK, workerVars, historyVars
  <2>5. Counted'
    <3>1. pending.code # NoCode => pending.code \in Codes /\ wrong[pending.code] \in Nat
      BY <2>1 DEF IInv, TypeOK, Columns
    <3>2. QED
      BY <2>1, <2>2, <2>3, <3>1 DEF IInv, Counted, NoCode
  <2>6. QED
    BY <2>2, <2>4, <2>5, <1>0 DEF IInv, GuessesBounded
<1>8. ASSUME NEW input \in inbox \cup {Wrong}, MatchLost(input)
      PROVE  IInv'
  <2>1. TypeOK' /\ wrong' = wrong /\ issued' = issued /\ pending' = pending
    BY <1>8 DEF MatchLost, IInv, TypeOK, workerVars, historyVars
  <2>2. QED
    BY <2>1, <1>0, Quiet
<1>9. CASE Refuse
  <2>1. wrong' = wrong /\ issued' = issued
    BY <1>9 DEF Refuse, historyVars
  <2>2. pending' \in Columns /\ pending'.code = pending.code
        /\ pending'.attempts = pending.attempts /\ pending'.live = pending.live
    BY <1>9 DEF Refuse, IInv, TypeOK, Columns
  <2>3. TypeOK'
    BY <1>9, <2>2 DEF Refuse, IInv, TypeOK, workerVars, historyVars
  <2>4. QED
    BY <2>1, <2>2, <2>3, <1>0, Quiet
<1>10. CASE SignupElsewhere
  <2>1. TypeOK' /\ wrong' = wrong /\ issued' = issued /\ pending' = pending
    BY <1>10 DEF SignupElsewhere, IInv, TypeOK, workerVars, historyVars
  <2>2. QED
    BY <2>1, <1>0, Quiet
<1>11. CASE CoolDown \/ Expire
  <2>1. pending' \in Columns /\ pending'.code = pending.code
        /\ pending'.attempts = pending.attempts /\ (pending'.live => pending.live)
    BY <1>11 DEF CoolDown, Expire, IInv, TypeOK, Columns
  <2>2. CASE CoolDown
    <3>1. TypeOK' /\ wrong' = wrong /\ issued' = issued
      BY <2>1, <2>2 DEF CoolDown, IInv, TypeOK, workerVars, historyVars
    <3>2. QED
      BY <2>1, <3>1, <1>0, Quiet
  <2>3. CASE Expire
    <3>1. pending.code \in Codes
      BY <2>3 DEF Expire, IInv, TypeOK, Counted, Columns
    <3>2. TypeOK' /\ wrong' = wrong /\ issued' = issued
      BY <2>1, <2>3, <3>1 DEF Expire, IInv, TypeOK, workerVars
    <3>3. QED
      BY <2>1, <3>2, <1>0, Quiet
  <2>4. QED
    BY <1>11, <2>2, <2>3
<1>12. CASE UNCHANGED vars
  <2>1. TypeOK' /\ wrong' = wrong /\ issued' = issued /\ pending' = pending
    BY <1>12 DEF vars, IInv, TypeOK, workerVars, historyVars
  <2>2. QED
    BY <2>1, <1>0, Quiet
<1>13. QED
  BY <1>1, <1>2, <1>3, <1>4, <1>5, <1>6, <1>7, <1>8, <1>9, <1>10, <1>11, <1>12 DEF Next

\* The strengthened invariant holds in every reachable state.
THEOREM Inductive == Spec => []IInv
  BY Initial, Step, PTL DEF Spec

\* Every column, worker and history variable keeps its type, for any number of
\* workers, attempts and codes.
THEOREM TypeCorrect == Spec => []TypeOK
<1>1. IInv => TypeOK
  BY DEF IInv
<1>2. QED
  BY <1>1, Inductive, PTL

\* No interleaving of sign-ups, resends, failing mails and inputs lets more than
\* EMAIL_CODE_MAX_ATTEMPTS wrong inputs be compared with one code (codes.py).
THEOREM GuessesBoundedCorrect == Spec => []GuessesBounded
<1>1. IInv => GuessesBounded
  BY DEF IInv
<1>2. QED
  BY <1>1, Inductive, PTL

-----------------------------------------------------------------------------
(* The code that was mailed last is the one that works *)

\* Why: a code is held by the worker that issued it until it is mailed, so only a worker that
\* holds an older one, noticed late, can take the newest out of the row again.
Mailed ==
  /\ inbox \subseteq 1 .. issued
  /\ \A w \in Worker : pc[w] = "mail" => holding[w] \in 1 .. issued /\ holding[w] \notin inbox
  /\ \A v, w \in Worker : pc[v] = "mail" /\ pc[w] = "mail" /\ holding[v] = holding[w] => v = w
  /\ ~late => \/ pending.code = issued
              \/ /\ issued \notin inbox
                 /\ \A w \in Worker : pc[w] = "mail" => holding[w] # issued

\* The row's code lives until it lapses, and every attempt at it was a wrong input, but the
\* one that made the account.
CodeCounts ==
  pending.code # NoCode =>
    /\ pending.live \/ pending.code \in lapsed
    /\ ~account => pending.attempts = wrong[pending.code]

\* A code that is issued is new, and in the hands of one worker.
LEMMA IssueMails ==
  ASSUME IInv, Mailed, CodeCounts, NEW w \in Worker, NEW p \in Columns, Issue(w, p),
         UNCHANGED <<account, inbox, historyVars>>
  PROVE  Mailed' /\ CodeCounts'
<1>1. issued \in Nat /\ issued' = issued + 1 /\ issued' \in Codes
  BY BoundAssumption DEF IInv, TypeOK, Issue, Codes
<1>2. pending' = [code |-> issued + 1, live |-> TRUE, cooling |-> TRUE,
                  attempts |-> 0, used |-> FALSE]
  BY DEF Issue, NoAttempts, Columns
<1>3. /\ holding' = [holding EXCEPT ![w] = issued + 1] /\ pc' = [pc EXCEPT ![w] = "mail"]
      /\ DOMAIN holding = Worker /\ DOMAIN pc = Worker
  BY DEF Issue, Goto, IInv, TypeOK
<1>4. wrong'[issued + 1] = 0
  BY <1>1 DEF IInv, Counted, historyVars
<1>5. CodeCounts'
  BY <1>2, <1>4 DEF CodeCounts
<1>6. inbox' \subseteq 1 .. issued' /\ issued + 1 \notin inbox'
  BY <1>1 DEF Mailed
<1>7. \A v \in Worker \ {w} : pc'[v] = pc[v] /\ holding'[v] = holding[v]
  BY <1>3
<1>8. holding'[w] = issued + 1
  BY <1>3
<1>9. \A v \in Worker \ {w} : pc'[v] = "mail" => holding'[v] \in 1 .. issued /\ holding'[v] \notin inbox'
  BY <1>7 DEF Mailed
<1>10. \A v \in Worker : pc'[v] = "mail" => holding'[v] \in 1 .. issued' /\ holding'[v] \notin inbox'
  BY <1>1, <1>6, <1>8, <1>9
<1>11. \A u, v \in Worker : pc'[u] = "mail" /\ pc'[v] = "mail" /\ holding'[u] = holding'[v] => u = v
  BY <1>1, <1>7, <1>8, <1>9 DEF Mailed
<1>12. pending'.code = issued'
  BY <1>1, <1>2
<1>13. QED
  BY <1>5, <1>6, <1>10, <1>11, <1>12 DEF Mailed

\* A step that neither issues nor mails, and keeps the code, its attempts and inputs.
LEMMA NotMailed ==
  ASSUME IInv, Mailed, CodeCounts, UNCHANGED <<issued, inbox, late, wrong, lapsed, holding>>,
         \A w \in Worker : pc'[w] = "mail" => pc[w] = "mail",
         pending'.code = pending.code, account => account'
  PROVE  /\ Mailed'
         /\ pending'.attempts = pending.attempts /\ pending'.live = pending.live => CodeCounts'
  BY DEF Mailed, CodeCounts

\* Every step keeps it.
LEMMA LatestStep == IInv /\ Mailed /\ CodeCounts /\ [Next]_vars => Mailed' /\ CodeCounts'
<1> SUFFICES ASSUME IInv, Mailed, CodeCounts, [Next]_vars PROVE Mailed' /\ CodeCounts'
  OBVIOUS
<1>0. /\ issued \in Nat /\ DOMAIN pc = Worker /\ DOMAIN holding = Worker /\ pending \in Columns
      /\ NewDraft \in Columns /\ NewDraft.code = pending.code
      /\ NewDraft.attempts = pending.attempts /\ NewDraft.live = pending.live
  <2>1. issued \in Nat
    BY BoundAssumption DEF IInv, TypeOK
  <2>2. /\ DOMAIN pc = Worker /\ DOMAIN holding = Worker /\ pending \in Columns
        /\ NewDraft = [pending EXCEPT !.used = FALSE]
    BY DEF IInv, TypeOK, NewDraft
  <2>3. QED
    BY <2>1, <2>2 DEF Columns
<1>1. ASSUME NEW w \in Worker, BeginSignup(w) \/ FindNone(w) \/ Crash(w)
      PROVE  Mailed' /\ CodeCounts'
  <2>1. UNCHANGED <<issued, inbox, late, wrong, lapsed, holding, pending, account>>
    BY <1>1 DEF BeginSignup, FindNone, Crash, historyVars
  <2>2. \A v \in Worker : pc'[v] = "mail" => pc[v] = "mail"
    BY <1>0, <1>1 DEF BeginSignup, FindNone, Crash, Goto
  <2>3. QED
    BY <2>1, <2>2, NotMailed
<1>2. ASSUME NEW w \in Worker, Insert(w) \/ Resubmit(w) \/ Resend(w)
      PROVE  Mailed' /\ CodeCounts'
  <2>1. CASE \E p \in {pending, NewDraft} : Issue(w, p)
    <3>1. UNCHANGED <<account, inbox, historyVars>>
      BY <1>2 DEF Insert, Resubmit, Resend
    <3>2. QED
      BY <1>0, <2>1, <3>1, IssueMails
  <2>2. CASE pending' \in {pending, NewDraft} /\ UNCHANGED <<holding, issued>> /\ (UNCHANGED pc \/ Goto(w, "idle"))
    <3>1. UNCHANGED <<account, inbox, late, wrong, lapsed>>
      BY <1>2 DEF Insert, Resubmit, Resend, historyVars
    <3>2. \A v \in Worker : pc'[v] = "mail" => pc[v] = "mail"
      BY <1>0, <2>2 DEF Goto
    <3>3. QED
      BY <1>0, <2>2, <3>1, <3>2, NotMailed
  <2>3. QED
    BY <1>2, <2>1, <2>2 DEF Insert, Resubmit, Resend
<1>3. ASSUME NEW w \in Worker, Send(w)
      PROVE  Mailed' /\ CodeCounts'
  <2>1. pc[w] = "mail" /\ holding[w] \in 1 .. issued /\ inbox' = inbox \cup {holding[w]}
    BY <1>3 DEF Send, Mailed
  <2>2. UNCHANGED <<holding, issued, pending, account, late, wrong, lapsed>>
    BY <1>3 DEF Send, historyVars
  <2>3. \A v \in Worker : pc'[v] = "mail" => pc[v] = "mail" /\ v # w
    BY <1>0, <1>3 DEF Send, Goto
  <2>4. \A v \in Worker : pc'[v] = "mail" => holding'[v] \notin inbox'
    BY <2>1, <2>2, <2>3 DEF Mailed
  <2>5. ~late => pending.code = issued \/ issued \notin inbox'
    BY <2>1 DEF Mailed
  <2>6. Mailed'
    BY <2>1, <2>2, <2>3, <2>4, <2>5 DEF Mailed
  <2>7. QED
    BY <2>2, <2>6 DEF CodeCounts
<1>4. ASSUME NEW w \in Worker, SendFails(w)
      PROVE  Mailed' /\ CodeCounts'
  <2>1. pc[w] = "mail" /\ holding[w] \in 1 .. issued /\ holding[w] \notin inbox
    BY <1>4 DEF SendFails, Mailed
  <2>2. UNCHANGED <<holding, issued, inbox>>
    BY <1>4 DEF SendFails
  <2>3. \A v \in Worker : pc'[v] = "mail" => pc[v] = "mail" /\ v # w
    BY <1>0, <1>4 DEF SendFails, Goto
  <2>4. pending'.code = NoCode
    BY <1>0, <1>4 DEF SendFails, Columns
  <2>5. ~late' => ~late /\ pending.code = holding[w]
    <3>1. late' = (late \/ pending.code # holding[w])
      BY <1>4 DEF SendFails
    <3>2. QED
      BY <3>1
  <2>6. ~late' => /\ issued \notin inbox
                  /\ \A v \in Worker : pc'[v] = "mail" => holding[v] # issued
    BY <2>1, <2>3, <2>5 DEF Mailed
  <2>7. Mailed'
    BY <2>1, <2>2, <2>3, <2>6 DEF Mailed
  <2>8. QED
    BY <2>4, <2>7 DEF CodeCounts
<1>5. ASSUME NEW input \in inbox \cup {Wrong}, Mismatch(input) \/ Match(input) \/ MatchLost(input)
      PROVE  Mailed' /\ CodeCounts'
  <2>1. UNCHANGED <<holding, pc, issued, inbox, late, lapsed>> /\ pending'.code = pending.code
    BY <1>0, <1>5 DEF Mismatch, Match, MatchLost, workerVars, historyVars, Columns
  <2>2. Mailed'
    BY <2>1 DEF Mailed
  <2>3. CASE Mismatch(input)
    <3>1. pending.code \in Codes /\ wrong \in [Codes -> Nat]
      BY <1>0, <2>3 DEF Mismatch, Comparable, Columns, IInv, TypeOK
    <3>2. /\ pending'.attempts = pending.attempts + 1 /\ pending'.live = pending.live
          /\ wrong'[pending.code] = wrong[pending.code] + 1 /\ account' = account
      BY <1>0, <2>3, <3>1 DEF Mismatch, Columns
    <3>3. QED
      BY <2>1, <2>2, <3>2 DEF CodeCounts
  <2>4. CASE Match(input) \/ MatchLost(input)
    <3>1. account' = TRUE /\ pending'.live = pending.live
      BY <1>0, <2>4 DEF Match, MatchLost, Columns
    <3>2. QED
      BY <2>1, <2>2, <3>1 DEF CodeCounts
  <2>5. QED
    BY <1>5, <2>3, <2>4
<1>6. CASE Refuse \/ SignupElsewhere \/ CoolDown
  <2>1. UNCHANGED <<issued, inbox, late, wrong, lapsed, holding, pc>> /\ (account => account')
    BY <1>6 DEF Refuse, SignupElsewhere, CoolDown, workerVars, historyVars
  <2>2. /\ pending'.code = pending.code /\ pending'.attempts = pending.attempts
        /\ pending'.live = pending.live
    BY <1>0, <1>6 DEF Refuse, SignupElsewhere, CoolDown, Columns
  <2>3. QED
    BY <2>1, <2>2, NotMailed
<1>7. CASE Expire
  <2>1. /\ UNCHANGED <<issued, inbox, late, wrong, holding, pc, account>>
        /\ lapsed' = lapsed \cup {pending.code}
    BY <1>7 DEF Expire, workerVars
  <2>2. pending'.code = pending.code /\ pending'.attempts = pending.attempts
    BY <1>0, <1>7 DEF Expire, Columns
  <2>3. QED
    BY <2>1, <2>2 DEF Mailed, CodeCounts
<1>8. CASE UNCHANGED vars
  BY <1>8 DEF vars, workerVars, historyVars, Mailed, CodeCounts
<1>9. QED
  BY <1>1, <1>2, <1>3, <1>4, <1>5, <1>6, <1>7, <1>8 DEF Next

\* As long as the address has no account, the last code that was issued and mailed is
\* accepted until it expires or has been tried too often, however many mails failed, forms
\* were sent again or codes replaced before (codes.py), for any number of workers and codes.
THEOREM LatestCodeWorksCorrect == Spec => []LatestCodeWorks
<1>1. Init => Mailed /\ CodeCounts
  BY DEF Init, Mailed, CodeCounts, NoCode
<1>2. IInv /\ Mailed /\ CodeCounts => LatestCodeWorks
  <2> SUFFICES ASSUME IInv, Mailed, CodeCounts, ~late, ~account, issued \in inbox, issued \notin lapsed
               PROVE  /\ pending.code = issued /\ pending.live
                      /\ pending.attempts = wrong[issued]
    BY DEF LatestCodeWorks
  <2>1. pending.code = issued /\ issued # NoCode
    BY DEF Mailed, NoCode
  <2>2. QED
    BY <2>1 DEF CodeCounts
<1>3. QED
  BY <1>1, <1>2, LatestStep, Inductive, PTL DEF Spec

-----------------------------------------------------------------------------
(* Codes of accounts that are not verified: how many wrong inputs requests *)
(* that overlap get compared                                               *)

\* A function of numbers and its running sums.
SumRows == [0 .. MaxTries -> Nat]

LEMMA RunningSums ==
  ASSUME NEW a \in SumRows
  PROVE  /\ RunningSum(a) \in SumRows /\ RunningSum(a)[0] = a[0]
         /\ \A d \in 1 .. MaxTries : RunningSum(a)[d] = RunningSum(a)[d - 1] + a[d]
<1> DEFINE step == [d \in 1 .. MaxTries |-> [x \in Nat |-> x + a[d]]]
<1>1. MaxTries \in Nat /\ \A d \in 0 .. MaxTries : a[d] \in Nat
  BY LegacyBoundAssumption DEF SumRows
<1>2. step \in [1 .. MaxTries -> [Nat -> Nat]] /\ a[0] \in Nat
  BY <1>1
<1> HIDE DEF step
<1>3. PICK f \in [0 .. MaxTries -> Nat] : Recurs(f, a[0], step, MaxTries)
  BY <1>1, <1>2, Recursion
<1>4. ASSUME NEW d \in 1 .. MaxTries PROVE f[d] = f[d - 1] + a[d]
  <2>1. f[d - 1] \in Nat
    BY <1>1
  <2>2. step[d][f[d - 1]] = f[d - 1] + a[d]
    BY <2>1 DEF step
  <2>3. QED
    BY <1>3, <2>2 DEF Recurs
<1> DEFINE Is(g) == g = [d \in 0 .. MaxTries |-> IF d = 0 THEN a[0] ELSE g[d - 1] + a[d]]
<1>5. Is(f)
  BY <1>1, <1>3, <1>4 DEF Recurs
<1> DEFINE sum == CHOOSE g : Is(g)
<1>6. Is(sum)
  BY <1>5
<1>7. RunningSum(a) = sum
  BY DEF RunningSum
<1> HIDE DEF sum
<1>8. sum[0] = a[0] /\ \A d \in 1 .. MaxTries : sum[d] = sum[d - 1] + a[d]
  BY <1>1, <1>6
<1> DEFINE S == {d \in 0 .. MaxTries : sum[d] = f[d]}
<1>9. 0 \in S /\ \A d \in 1 .. MaxTries : d - 1 \in S => d \in S
  BY <1>1, <1>3, <1>4, <1>8 DEF Recurs
<1> HIDE DEF S
<1>10. \A d \in 0 .. MaxTries : d \in S
  BY <1>1, <1>9, StepByStep
<1>11. \A d \in 0 .. MaxTries : sum[d] \in Nat
  BY <1>10 DEF S
<1>12. sum \in [0 .. MaxTries -> Nat]
  <2>1. sum = [d \in 0 .. MaxTries |-> sum[d]]
    BY <1>6
  <2>2. QED
    BY <1>11, <2>1
<1>13. QED
  BY <1>7, <1>8, <1>12 DEF SumRows

\* SetBacks is what its equation says: Pascal's triangle.
Many == Cardinality(Visitor)
TopRow == [d \in 0 .. MaxTries |-> IF d = 0 THEN 1 ELSE 0]

LEMMA SetBacksAre ==
  /\ Many \in Nat
  /\ \A n \in 0 .. Many + 1 : SetBacks[n] \in SumRows
  /\ SetBacks[0] = TopRow
  /\ \A n \in 1 .. Many + 1 : SetBacks[n] = RunningSum(SetBacks[n - 1])
<1> DEFINE M == Many + 1
<1> DEFINE step == [n \in 1 .. M |-> [a \in SumRows |-> RunningSum(a)]]
<1>1. Many \in Nat /\ M \in Nat
  BY VisitorAssumption, FS_CardinalityType DEF Many
<1>2. step \in [1 .. M -> [SumRows -> SumRows]] /\ TopRow \in SumRows
  <2>1. \A a \in SumRows : RunningSum(a) \in SumRows
    BY RunningSums
  <2>2. TopRow \in SumRows
    BY DEF TopRow, SumRows
  <2>3. QED
    BY <2>1, <2>2
<1> HIDE DEF step, M
<1>3. PICK f \in [0 .. M -> SumRows] : Recurs(f, TopRow, step, M)
  BY <1>1, <1>2, Recursion
<1>4. ASSUME NEW n \in 1 .. M PROVE f[n] = RunningSum(f[n - 1])
  <2>1. f[n - 1] \in SumRows
    BY <1>1
  <2>2. step[n][f[n - 1]] = RunningSum(f[n - 1])
    BY <2>1 DEF step
  <2>3. QED
    BY <1>3, <2>2 DEF Recurs
<1> DEFINE Is(g) == g = [n \in 0 .. M |-> IF n = 0 THEN TopRow ELSE RunningSum(g[n - 1])]
<1>5. Is(f)
  <2>1. f = [n \in 0 .. M |-> f[n]]
    OBVIOUS
  <2>2. \A n \in 0 .. M : f[n] = IF n = 0 THEN TopRow ELSE RunningSum(f[n - 1])
    BY <1>1, <1>3, <1>4 DEF Recurs
  <2>3. QED
    BY <2>1, <2>2, Zenon
<1>6. SetBacks = CHOOSE g : Is(g)
  BY Zenon DEF SetBacks, TopRow, M, Many
<1>7. Is(SetBacks)
  BY <1>5, <1>6
<1>8. SetBacks[0] = TopRow /\ \A n \in 1 .. M : SetBacks[n] = RunningSum(SetBacks[n - 1])
  BY <1>1, <1>7
<1> DEFINE S == {n \in 0 .. M : SetBacks[n] \in SumRows}
<1>9. 0 \in S /\ \A n \in 1 .. M : n - 1 \in S => n \in S
  BY <1>1, <1>2, <1>8, RunningSums
<1> HIDE DEF S
<1>10. \A n \in 0 .. M : n \in S
  BY <1>1, <1>9, StepByStep
<1>11. QED
  BY <1>1, <1>8, <1>10 DEF S, M

\* Along a row it grows, and down a column it grows by one at least.
LEMMA SetBacksGrow ==
  /\ \A n \in 1 .. Many + 1, d \in 0 .. MaxTries : SetBacks[n][d] >= 1
  /\ \A n \in 0 .. Many, d \in 1 .. MaxTries : SetBacks[n + 1][d] = SetBacks[n + 1][d - 1] + SetBacks[n][d]
<1>1. Many \in Nat /\ MaxTries \in Nat
  BY SetBacksAre, LegacyBoundAssumption
<1>2. ASSUME NEW n \in 1 .. Many + 1
      PROVE  /\ SetBacks[n] \in SumRows /\ SetBacks[n - 1] \in SumRows
             /\ SetBacks[n][0] = SetBacks[n - 1][0]
             /\ \A d \in 1 .. MaxTries : SetBacks[n][d] = SetBacks[n][d - 1] + SetBacks[n - 1][d]
  <2>1. n \in 0 .. Many + 1 /\ n - 1 \in 0 .. Many + 1
    BY <1>1
  <2>2. QED
    BY <2>1, SetBacksAre, RunningSums
<1> DEFINE S == {n \in 0 .. Many + 1 : SetBacks[n][0] = 1}
<1>3. 0 \in S /\ \A n \in 1 .. Many + 1 : n - 1 \in S => n \in S
  BY <1>1, <1>2, SetBacksAre DEF TopRow
<1> HIDE DEF S
<1>4. \A n \in 0 .. Many + 1 : n \in S
  BY <1>1, <1>3, StepByStep
<1>5. ASSUME NEW n \in 1 .. Many + 1, NEW d \in 0 .. MaxTries PROVE SetBacks[n][d] >= 1
  <2> DEFINE T == {e \in 0 .. MaxTries : SetBacks[n][e] >= 1}
  <2>1. SetBacks[n][0] = 1
    BY <1>1, <1>4 DEF S
  <2>2. 0 \in T
    BY <1>1, <2>1
  <2>3. ASSUME NEW e \in 1 .. MaxTries, e - 1 \in T PROVE e \in T
    <3>1. SetBacks[n][e] = SetBacks[n][e - 1] + SetBacks[n - 1][e] /\ SetBacks[n - 1][e] \in Nat
          /\ SetBacks[n][e - 1] \in Nat
      <4>1. e \in 0 .. MaxTries /\ e - 1 \in 0 .. MaxTries
        BY <1>1
      <4>2. QED
        BY <1>2, <4>1 DEF SumRows
    <3>2. QED
      BY <2>3, <3>1
  <2> HIDE DEF T
  <2>4. d \in T
    BY <1>1, <2>2, <2>3, StepByStep
  <2>5. QED
    BY <2>4 DEF T
<1>6. ASSUME NEW n \in 0 .. Many, NEW d \in 1 .. MaxTries
      PROVE  SetBacks[n + 1][d] = SetBacks[n + 1][d - 1] + SetBacks[n][d]
  <2>1. n + 1 \in 1 .. Many + 1 /\ (n + 1) - 1 = n
    BY <1>1
  <2>2. QED
    BY <1>2, <2>1
<1>7. QED
  BY <1>5, <1>6

LEMMA SetBacksMore ==
  ASSUME NEW n \in 0 .. Many, NEW d \in 1 .. MaxTries, NEW k \in 0 .. n
  PROVE  SetBacks[k][d] <= SetBacks[n][d]
<1>1. MaxTries \in Nat /\ Many \in Nat
  BY LegacyBoundAssumption, SetBacksAre
<1>2. \A m \in 0 .. Many + 1, e \in 0 .. MaxTries : SetBacks[m][e] \in Nat
  BY SetBacksAre DEF SumRows
<1> DEFINE T == {m \in 0 .. n : k <= m => SetBacks[k][d] <= SetBacks[m][d]}
<1>3. 0 \in T
  <2>1. k <= 0 => k = 0
    OBVIOUS
  <2>2. SetBacks[0][d] <= SetBacks[0][d]
    BY <1>1, <1>2
  <2>3. QED
    BY <1>1, <2>1, <2>2
<1>4. ASSUME NEW m \in 1 .. n, m - 1 \in T PROVE m \in T
  <2>1. m \in 0 .. Many + 1 /\ m - 1 \in 0 .. Many /\ (m - 1) + 1 = m /\ k \in 0 .. Many + 1
        /\ m - 1 \in 0 .. Many + 1 /\ d - 1 \in 0 .. MaxTries /\ d \in 0 .. MaxTries
    BY <1>1
  <2>2. SetBacks[m][d] = SetBacks[m][d - 1] + SetBacks[m - 1][d]
    BY <2>1, SetBacksGrow
  <2>3. SetBacks[m - 1][d] <= SetBacks[m][d]
    BY <1>2, <2>1, <2>2
  <2>4. SetBacks[k][d] \in Nat /\ SetBacks[m][d] \in Nat /\ SetBacks[m - 1][d] \in Nat
    BY <1>2, <2>1
  <2>5. CASE k = m
    BY <2>4, <2>5
  <2>6. CASE k # m
    <3>1. k <= m => SetBacks[k][d] <= SetBacks[m - 1][d]
      BY <1>4, <2>6
    <3>2. QED
      BY <2>3, <2>4, <3>1
  <2>7. QED
    BY <2>5, <2>6
<1> HIDE DEF T
<1>5. n \in T
  <2>1. n \in Nat /\ n \in 0 .. n
    BY <1>1
  <2>2. QED
    BY <1>3, <1>4, <2>1, StepByStep
<1>6. QED
  BY <1>5 DEF T

\* A number of counts for each number of set-backs that they still allow, and what they allow
\* together.
Heads == [1 .. MaxTries -> 0 .. Many]
Allowed(a) ==
  LET sum[d \in 0 .. MaxTries] == IF d = 0 THEN 0 ELSE sum[d - 1] + SetBacks[a[d]][d]
  IN  sum

LEMMA AllowedAdds ==
  ASSUME NEW a \in Heads
  PROVE  /\ Allowed(a) \in SumRows /\ Allowed(a)[0] = 0
         /\ \A d \in 1 .. MaxTries : Allowed(a)[d] = Allowed(a)[d - 1] + SetBacks[a[d]][d]
<1> DEFINE step == [d \in 1 .. MaxTries |-> [x \in Nat |-> x + SetBacks[a[d]][d]]]
<1>1. MaxTries \in Nat /\ \A d \in 1 .. MaxTries : SetBacks[a[d]][d] \in Nat
  <2>1. MaxTries \in Nat /\ Many \in Nat /\ \A d \in 1 .. MaxTries : a[d] \in 0 .. Many + 1
    BY LegacyBoundAssumption, SetBacksAre DEF Heads
  <2>2. QED
    BY <2>1, SetBacksAre DEF SumRows
<1>2. step \in [1 .. MaxTries -> [Nat -> Nat]] /\ 0 \in Nat
  BY <1>1
<1> HIDE DEF step
<1>3. PICK f \in [0 .. MaxTries -> Nat] : Recurs(f, 0, step, MaxTries)
  BY <1>1, <1>2, Recursion
<1>4. ASSUME NEW d \in 1 .. MaxTries PROVE f[d] = f[d - 1] + SetBacks[a[d]][d]
  <2>1. f[d - 1] \in Nat
    BY <1>1
  <2>2. step[d][f[d - 1]] = f[d - 1] + SetBacks[a[d]][d]
    BY <2>1 DEF step
  <2>3. QED
    BY <1>3, <2>2 DEF Recurs
<1> DEFINE Is(g) == g = [d \in 0 .. MaxTries |-> IF d = 0 THEN 0 ELSE g[d - 1] + SetBacks[a[d]][d]]
<1>5. Is(f)
  BY <1>1, <1>3, <1>4 DEF Recurs
<1> DEFINE sum == CHOOSE g : Is(g)
<1>6. Is(sum)
  BY <1>5
<1>7. Allowed(a) = sum
  BY DEF Allowed
<1> HIDE DEF sum
<1>8. sum[0] = 0 /\ \A d \in 1 .. MaxTries : sum[d] = sum[d - 1] + SetBacks[a[d]][d]
  BY <1>1, <1>6
<1> DEFINE S == {d \in 0 .. MaxTries : sum[d] = f[d]}
<1>9. 0 \in S /\ \A d \in 1 .. MaxTries : d - 1 \in S => d \in S
  BY <1>1, <1>3, <1>4, <1>8 DEF Recurs
<1> HIDE DEF S
<1>10. \A d \in 0 .. MaxTries : d \in S
  BY <1>1, <1>9, StepByStep
<1>11. \A d \in 0 .. MaxTries : sum[d] \in Nat
  BY <1>10 DEF S
<1>12. sum \in [0 .. MaxTries -> Nat]
  <2>1. sum = [d \in 0 .. MaxTries |-> sum[d]]
    BY <1>6
  <2>2. QED
    BY <1>11, <2>1
<1>13. QED
  BY <1>7, <1>8, <1>12 DEF SumRows

\* With no more than n counts each, they allow less than a row of n + 1 does.
LEMMA AllowedBelow ==
  ASSUME NEW a \in Heads, NEW D \in 0 .. MaxTries, NEW n \in 0 .. Many, \A d \in 1 .. D : a[d] <= n
  PROVE  Allowed(a)[D] < SetBacks[n + 1][D]
<1>1. MaxTries \in Nat /\ Many \in Nat /\ D \in Nat
  BY LegacyBoundAssumption, SetBacksAre
<1>2. \A m \in 0 .. Many + 1, d \in 0 .. MaxTries : SetBacks[m][d] \in Nat
  BY SetBacksAre DEF SumRows
<1>3. \A d \in 0 .. MaxTries : Allowed(a)[d] \in Nat
  BY AllowedAdds DEF SumRows
<1>4. \A d \in 1 .. MaxTries, k \in 0 .. n : SetBacks[k][d] <= SetBacks[n][d]
  BY SetBacksMore
<1> DEFINE S == {d \in 0 .. D : Allowed(a)[d] < SetBacks[n + 1][d]}
<1>5. 0 \in S
  <2>1. n + 1 \in 1 .. Many + 1 /\ 0 \in 0 .. MaxTries
    BY <1>1
  <2>2. SetBacks[n + 1][0] >= 1 /\ Allowed(a)[0] = 0 /\ SetBacks[n + 1][0] \in Nat
    BY <1>1, <1>2, <2>1, SetBacksGrow, AllowedAdds
  <2>3. QED
    BY <1>1, <2>2
<1>6. ASSUME NEW d \in 1 .. D, d - 1 \in S PROVE d \in S
  <2>1. d \in 1 .. MaxTries /\ d - 1 \in 0 .. MaxTries /\ n + 1 \in 0 .. Many + 1 /\ n \in 0 .. Many + 1
    BY <1>1
  <2>2. Allowed(a)[d] = Allowed(a)[d - 1] + SetBacks[a[d]][d]
    BY <2>1, AllowedAdds
  <2>3. SetBacks[n + 1][d] = SetBacks[n + 1][d - 1] + SetBacks[n][d]
    BY <2>1, SetBacksGrow
  <2>4. a[d] \in 0 .. n
    BY <1>1, <2>1 DEF Heads
  <2>5. SetBacks[a[d]][d] <= SetBacks[n][d]
    BY <1>4, <2>1, <2>4
  <2>6. /\ SetBacks[a[d]][d] \in Nat /\ SetBacks[n][d] \in Nat /\ Allowed(a)[d - 1] \in Nat
        /\ SetBacks[n + 1][d - 1] \in Nat /\ Allowed(a)[d - 1] < SetBacks[n + 1][d - 1]
    BY <1>1, <1>2, <1>3, <1>6, <2>1, <2>4
  <2>7. Allowed(a)[d] < SetBacks[n + 1][d]
    BY <2>2, <2>3, <2>5, <2>6
  <2>8. QED
    BY <2>7
<1> HIDE DEF S
<1>7. D \in S
  <2>1. D \in 0 .. D
    BY <1>1
  <2>2. QED
    BY <1>1, <1>5, <1>6, <2>1, StepByStep
<1>8. QED
  BY <1>7 DEF S

\* One count more at D outweighs all that is lost below it.
LEMMA OneSetBack ==
  ASSUME NEW a \in Heads, NEW b \in Heads, NEW D \in 1 .. MaxTries, a[D] < b[D],
         \A d \in 1 .. D : a[d] <= a[D],
         \A d \in D .. MaxTries : a[d] <= b[d]
  PROVE  Allowed(a)[MaxTries] < Allowed(b)[MaxTries]
<1>1. MaxTries \in Nat /\ Many \in Nat /\ D \in Nat /\ a[D] \in 0 .. Many /\ b[D] \in 0 .. Many
  BY LegacyBoundAssumption, SetBacksAre DEF Heads
<1>2. \A m \in 0 .. Many + 1, d \in 0 .. MaxTries : SetBacks[m][d] \in Nat
  BY SetBacksAre DEF SumRows
<1>3. \A d \in 0 .. MaxTries : Allowed(a)[d] \in Nat /\ Allowed(b)[d] \in Nat
  BY AllowedAdds DEF SumRows
<1>4. Allowed(a)[D] < Allowed(b)[D]
  <2>1. Allowed(a)[D] < SetBacks[a[D] + 1][D]
    <3>1. D \in 0 .. MaxTries /\ a[D] \in 0 .. Many
      BY <1>1
    <3>2. QED
      BY <3>1, AllowedBelow
  <2>2. SetBacks[a[D] + 1][D] <= SetBacks[b[D]][D]
    <3>1. a[D] + 1 \in 0 .. b[D]
      BY <1>1
    <3>2. QED
      BY <1>1, <3>1, SetBacksMore
  <2>3. Allowed(b)[D] = Allowed(b)[D - 1] + SetBacks[b[D]][D]
    BY AllowedAdds
  <2>4. /\ Allowed(b)[D - 1] \in Nat /\ SetBacks[b[D]][D] \in Nat /\ Allowed(a)[D] \in Nat
        /\ SetBacks[a[D] + 1][D] \in Nat
    <3>1. D - 1 \in 0 .. MaxTries /\ D \in 0 .. MaxTries /\ a[D] + 1 \in 0 .. Many + 1 /\ b[D] \in 0 .. Many + 1
      BY <1>1
    <3>2. QED
      BY <1>2, <1>3, <3>1
  <2>5. QED
    BY <2>1, <2>2, <2>3, <2>4
<1> DEFINE S == {d \in 0 .. MaxTries : D <= d => Allowed(a)[d] < Allowed(b)[d]}
<1>5. 0 \in S
  BY <1>1
<1>6. ASSUME NEW d \in 1 .. MaxTries, d - 1 \in S PROVE d \in S
  <2>1. d \in 0 .. MaxTries /\ d - 1 \in 0 .. MaxTries
    BY <1>1
  <2>2. CASE D = d
    BY <1>4, <2>1, <2>2
  <2>3. CASE D <= d /\ D # d
    <3>1. D <= d - 1 /\ d \in D .. MaxTries
      BY <1>1, <2>3
    <3>2. Allowed(a)[d - 1] < Allowed(b)[d - 1]
      BY <1>6, <3>1
    <3>3. /\ Allowed(a)[d] = Allowed(a)[d - 1] + SetBacks[a[d]][d]
          /\ Allowed(b)[d] = Allowed(b)[d - 1] + SetBacks[b[d]][d]
      BY AllowedAdds
    <3>4. a[d] \in 0 .. b[d] /\ b[d] \in 0 .. Many
      BY <1>1, <3>1 DEF Heads
    <3>5. SetBacks[a[d]][d] <= SetBacks[b[d]][d]
      BY <3>4, SetBacksMore
    <3>6. SetBacks[a[d]][d] \in Nat /\ SetBacks[b[d]][d] \in Nat
      <4>1. a[d] \in 0 .. Many + 1 /\ b[d] \in 0 .. Many + 1
        BY <1>1, <3>4
      <4>2. QED
        BY <1>2, <2>1, <4>1
    <3>7. Allowed(a)[d] < Allowed(b)[d]
      BY <1>3, <2>1, <3>2, <3>3, <3>5, <3>6
    <3>8. QED
      BY <2>1, <3>7
  <2>4. CASE ~(D <= d)
    BY <2>1, <2>4
  <2>5. QED
    BY <2>2, <2>3, <2>4
<1> HIDE DEF S
<1>7. MaxTries \in S
  <2>1. MaxTries \in 0 .. MaxTries
    BY <1>1
  <2>2. QED
    BY <1>1, <1>5, <1>6, <2>1, StepByStep
<1>8. QED
  BY <1>1, <1>7 DEF S

-----------------------------------------------------------------------------
(* Steps *)

\* From where v counts a code: from what it has read, or from what is in the row.
IsComparing(v, i) ==
  visitor[v].at = "compare" /\ visitor[v].row = i /\ visitor[v].tries < MaxTries
CountsFrom(v, i) == IF IsComparing(v, i) THEN visitor[v].tries ELSE rows[i].tries

LegacyTypes ==
  /\ rows \in [RowId -> [used : BOOLEAN, tries : 0 .. MaxTries, cooling : BOOLEAN, fresh : BOOLEAN]]
  /\ visitor \in [Visitor -> [at : {"idle", "invalidate", "insert", "mail", "compare", "confirm"},
                              row : 0 .. MaxRows, tries : 0 .. MaxTries, match : BOOLEAN]]
  /\ made \in 0 .. MaxRows
  /\ compared \in [RowId -> Nat]
  /\ \A i \in RowId : i > made => rows[i].used /\ rows[i].tries = 0 /\ compared[i] = 0
  /\ \A v \in Visitor : visitor[v].at = "compare" => visitor[v].row \in 1 .. made

\* How many requests count from MaxTries - d + 1 or more.
CountingFrom(i, k) == {v \in Visitor : CountsFrom(v, i) >= k}
Standing(i) == [d \in 1 .. MaxTries |-> Cardinality(CountingFrom(i, MaxTries - d + 1))]

\* What has been compared with a code is bounded by what is used up of the set-backs.
LegacyInv == LegacyTypes /\ \A i \in RowId : compared[i] <= Allowed(Standing(i))[MaxTries]

\* The number of requests with a property, and of those with one that is less often true.
LEMMA RequestsCounted ==
  /\ \A S \in SUBSET Visitor : IsFiniteSet(S) /\ Cardinality(S) \in 0 .. Many
  /\ \A S, T \in SUBSET Visitor : S \subseteq T => Cardinality(S) <= Cardinality(T)
  /\ \A S, T \in SUBSET Visitor : S \subseteq T /\ S # T => Cardinality(S) < Cardinality(T)
<1>1. ASSUME NEW S \in SUBSET Visitor PROVE IsFiniteSet(S) /\ Cardinality(S) \in 0 .. Many
  <2>1. IsFiniteSet(S) /\ Cardinality(S) <= Cardinality(Visitor)
    BY VisitorAssumption, FS_Subset
  <2>2. Cardinality(S) \in Nat /\ Many \in Nat
    BY <2>1, SetBacksAre, FS_CardinalityType
  <2>3. QED
    BY <2>1, <2>2 DEF Many
<1>2. ASSUME NEW S \in SUBSET Visitor, NEW T \in SUBSET Visitor, S \subseteq T
      PROVE  Cardinality(S) <= Cardinality(T) /\ (S # T => Cardinality(S) < Cardinality(T))
  <2>1. IsFiniteSet(T) /\ Cardinality(T) \in Nat /\ Cardinality(S) \in Nat
    BY <1>1, SetBacksAre
  <2>2. Cardinality(S) <= Cardinality(T) /\ (Cardinality(S) = Cardinality(T) => S = T)
    BY <1>2, <2>1, FS_Subset
  <2>3. QED
    BY <2>1, <2>2
<1>3. QED
  BY <1>1, <1>2

LEMMA StandingIsHeads ==
  ASSUME NEW i \in RowId
  PROVE  Standing(i) \in Heads
<1>1. \A k : CountingFrom(i, k) \in SUBSET Visitor
  BY DEF CountingFrom
<1>2. QED
  BY <1>1, RequestsCounted DEF Standing, Heads

\* verify_code reads a row that is there.
LEMMA LatestIsARow == Unused # {} => LatestUnused \in Unused
<1> SUFFICES ASSUME Unused # {} PROVE LatestUnused \in Unused
  OBVIOUS
<1>1. Unused \in SUBSET (0 .. MaxRows) /\ MaxRows \in Nat
  BY LegacyBoundAssumption DEF Unused, RowId
<1>2. \E i \in Unused : \A j \in Unused : j <= i
  BY <1>1, GreatestElement
<1>3. QED
  BY <1>2 DEF LatestUnused

CodeRows == [used : BOOLEAN, tries : 0 .. MaxTries, cooling : BOOLEAN, fresh : BOOLEAN]
Visits == [at : {"idle", "invalidate", "insert", "mail", "compare", "confirm"},
           row : 0 .. MaxRows, tries : 0 .. MaxTries, match : BOOLEAN]

\* A row of a code.
LEMMA RowOf ==
  ASSUME NEW u \in BOOLEAN, NEW n \in 0 .. MaxTries, NEW c \in BOOLEAN, NEW f \in BOOLEAN
  PROVE  [used |-> u, tries |-> n, cooling |-> c, fresh |-> f] \in CodeRows
  BY DEF CodeRows

\* A step that leaves the counts of the rows alone, and begins or ends no comparison but one
\* that counts from what is in the row.
LEMMA CountsKept ==
  ASSUME LegacyInv, UNCHANGED compared, made' \in made .. MaxRows,
         rows' \in [RowId -> CodeRows], visitor' \in [Visitor -> Visits],
         \A i \in RowId : rows'[i].tries = rows[i].tries,
         \A i \in RowId : i > made' => rows'[i].used,
         \A v \in Visitor : visitor'[v].at = "compare" =>
            \/ visitor'[v] = visitor[v]
            \/ visitor'[v].row \in 1 .. made /\ visitor'[v].tries = rows[visitor'[v].row].tries,
         \A v \in Visitor : visitor[v].at = "compare" =>
            visitor'[v] = visitor[v] \/ visitor[v].tries >= MaxTries
  PROVE  LegacyInv'
<1> USE LegacyBoundAssumption
<1>0. LegacyTypes /\ made \in Nat
  BY DEF LegacyInv, LegacyTypes
<1>1. LegacyTypes'
  <2>1. \A i \in RowId : i > made' => rows'[i].used /\ rows'[i].tries = 0 /\ compared'[i] = 0
    BY <1>0 DEF LegacyTypes, RowId
  <2>2. \A v \in Visitor : visitor'[v].at = "compare" => visitor'[v].row \in 1 .. made'
    BY <1>0 DEF LegacyTypes
  <2>3. made' \in 0 .. MaxRows /\ compared' \in [RowId -> Nat]
    BY <1>0 DEF LegacyTypes
  <2>4. QED
    BY <2>1, <2>2, <2>3 DEF LegacyTypes, CodeRows, Visits
<1>2. ASSUME NEW v \in Visitor, NEW i \in RowId
      PROVE  CountsFrom(v, i)' = CountsFrom(v, i)
  <2>1. visitor[v].tries \in Nat /\ MaxTries \in Nat
    BY <1>0 DEF LegacyTypes
  <2>2. CASE visitor'[v] = visitor[v]
    BY <2>2 DEF CountsFrom, IsComparing
  <2>3. CASE visitor'[v] # visitor[v]
    <3>1. ~IsComparing(v, i)
      BY <2>1, <2>3 DEF IsComparing
    <3>2. IsComparing(v, i)' => visitor'[v].tries = rows[i].tries
      BY <2>3 DEF IsComparing
    <3>3. QED
      BY <3>1, <3>2 DEF CountsFrom
  <2>4. QED
    BY <2>2, <2>3
<1>3. ASSUME NEW i \in RowId
      PROVE  (compared[i] <= Allowed(Standing(i))[MaxTries])'
  <2>1. Standing(i)' = Standing(i)
    BY <1>2, <1>3 DEF Standing, CountingFrom
  <2>2. QED
    BY <2>1 DEF LegacyInv, Allowed
<1>4. QED
  BY <1>1, <1>3 DEF LegacyInv

\* The request v saves the attempt it has counted at the row i.
LEMMA AttemptSaved ==
  ASSUME LegacyInv, NEW v \in Visitor, visitor[v].at = "compare", visitor[v].tries < MaxTries,
         NEW i, i = visitor[v].row, made' = made,
         rows' = [rows EXCEPT ![i].tries = visitor[v].tries + 1, ![i].used = @ \/ visitor[v].match],
         visitor' \in [Visitor -> Visits], visitor'[v].at # "compare",
         \A w \in Visitor \ {v} : visitor'[w] = visitor[w],
         compared' = compared \/ compared' = [compared EXCEPT ![i] = @ + 1]
  PROVE  LegacyInv'
<1> USE LegacyBoundAssumption
<1> DEFINE r == visitor[v].tries
<1>0. LegacyTypes /\ made \in Nat /\ i \in RowId /\ i \in 1 .. made /\ r \in 0 .. MaxTries
      /\ rows \in [RowId -> CodeRows] /\ compared \in [RowId -> Nat]
  BY DEF LegacyInv, LegacyTypes, RowId, CodeRows
<1>1. rows' \in [RowId -> CodeRows] /\ rows'[i].tries = r + 1
  <2>1. rows[i] \in CodeRows
    BY <1>0
  <2>2. rows'[i] = [used |-> rows[i].used \/ visitor[v].match, tries |-> r + 1,
                    cooling |-> rows[i].cooling, fresh |-> rows[i].fresh]
    BY <1>0, <2>1 DEF CodeRows
  <2>3. r + 1 \in 0 .. MaxTries /\ (rows[i].used \/ visitor[v].match) \in BOOLEAN
    BY <1>0
  <2>4. rows[i].cooling \in BOOLEAN /\ rows[i].fresh \in BOOLEAN
    BY <2>1 DEF CodeRows
  <2>5. rows'[i] \in CodeRows
    <3> DEFINE u == rows[i].used \/ visitor[v].match
               row == [used |-> u, tries |-> r + 1, cooling |-> rows[i].cooling, fresh |-> rows[i].fresh]
    <3>1. row \in CodeRows
      <4> HIDE DEF u
      <4>1. u \in BOOLEAN
        BY <2>3 DEF u
      <4>2. QED
        BY <2>3, <2>4, <4>1, RowOf
    <3>2. QED
      BY <2>2, <3>1
  <2>6. DOMAIN rows' = RowId /\ \A j \in RowId \ {i} : rows'[j] = rows[j]
    BY <1>0
  <2>7. rows' = [j \in RowId |-> rows'[j]]
    BY <1>0
  <2>8. rows' \in [RowId -> CodeRows]
    BY <1>0, <2>5, <2>6, <2>7
  <2>9. QED
    BY <2>2, <2>8
<1>2. \A j \in RowId \ {i} : rows'[j] = rows[j] /\ compared'[j] = compared[j]
  BY <1>0
<1>3. /\ compared' \in [RowId -> Nat] /\ compared'[i] <= compared[i] + 1
      /\ compared[i] \in Nat /\ compared'[i] \in Nat
  BY <1>0
<1>4. LegacyTypes'
  <2>1. \A j \in RowId : j > made => j # i
    BY <1>0 DEF RowId
  <2>2. \A j \in RowId : j > made' => rows'[j].used /\ rows'[j].tries = 0 /\ compared'[j] = 0
    BY <1>0, <1>2, <2>1 DEF LegacyTypes
  <2>3. \A w \in Visitor : visitor'[w].at = "compare" => visitor'[w].row \in 1 .. made'
    BY <1>0 DEF LegacyTypes
  <2>4. made' \in 0 .. MaxRows
    BY <1>0 DEF LegacyTypes
  <2>5. QED
    BY <1>1, <1>3, <2>2, <2>3, <2>4 DEF LegacyTypes, CodeRows, Visits
<1>5. ASSUME NEW w \in Visitor, NEW j \in RowId, j # i
      PROVE  CountsFrom(w, j)' = CountsFrom(w, j)
  <2>1. rows'[j] = rows[j]
    BY <1>2, <1>5
  <2>2. IsComparing(w, j)' <=> IsComparing(w, j)
    <3>1. CASE w = v
      BY <1>5, <3>1 DEF IsComparing
    <3>2. CASE w # v
      BY <3>2 DEF IsComparing
    <3>3. QED
      BY <3>1, <3>2
  <2>3. IsComparing(w, j) => visitor'[w] = visitor[w]
    BY <1>5 DEF IsComparing
  <2>4. CountsFrom(w, j) = IF IsComparing(w, j) THEN visitor[w].tries ELSE rows[j].tries
    BY DEF CountsFrom
  <2>5. CountsFrom(w, j)' = IF IsComparing(w, j)' THEN visitor'[w].tries ELSE rows'[j].tries
    BY DEF CountsFrom
  <2>6. QED
    BY <2>1, <2>2, <2>3, <2>4, <2>5
<1>6. CountsFrom(v, i) = r /\ CountsFrom(v, i)' = r + 1
  BY <1>1 DEF CountsFrom, IsComparing
<1>7. ASSUME NEW w \in Visitor
      PROVE  /\ CountsFrom(w, i) \in 0 .. MaxTries
             /\ CountsFrom(w, i)' = CountsFrom(w, i) \/ CountsFrom(w, i)' = r + 1
  <2>1. CountsFrom(w, i) \in 0 .. MaxTries
    BY <1>0 DEF CountsFrom, IsComparing, LegacyTypes
  <2>2. CASE w # v /\ IsComparing(w, i)
    BY <2>1, <2>2 DEF CountsFrom, IsComparing
  <2>3. CASE ~(w # v /\ IsComparing(w, i))
    BY <1>1, <2>1, <2>3 DEF CountsFrom, IsComparing
  <2>4. QED
    BY <2>2, <2>3
<1>8. PICK D \in 1 .. MaxTries : D = MaxTries - r /\ MaxTries - D + 1 = r + 1
  <2>1. MaxTries - r \in 1 .. MaxTries /\ MaxTries - (MaxTries - r) + 1 = r + 1
    BY <1>0
  <2>2. QED
    BY <2>1
<1> DEFINE a == Standing(i)
           b == Standing(i)'
<1>9. a \in Heads /\ b \in Heads
  <2>1. \A k : CountingFrom(i, k) \in SUBSET Visitor /\ CountingFrom(i, k)' \in SUBSET Visitor
    BY DEF CountingFrom
  <2>2. b = [d \in 1 .. MaxTries |-> Cardinality(CountingFrom(i, MaxTries - d + 1)')]
    BY DEF Standing
  <2>3. QED
    BY <2>1, <2>2, RequestsCounted DEF Standing, Heads
<1>10. ASSUME NEW d \in 1 .. MaxTries
       PROVE  /\ a[d] = Cardinality(CountingFrom(i, MaxTries - d + 1))
              /\ b[d] = Cardinality(CountingFrom(i, MaxTries - d + 1)')
              /\ CountingFrom(i, MaxTries - d + 1) \in SUBSET Visitor
              /\ CountingFrom(i, MaxTries - d + 1)' \in SUBSET Visitor
  BY DEF Standing, CountingFrom
<1>11. ASSUME NEW d \in 1 .. D PROVE a[d] <= a[D]
  <2>1. d \in 1 .. MaxTries /\ MaxTries - d + 1 >= MaxTries - D + 1
    BY <1>8
  <2>2. CountingFrom(i, MaxTries - d + 1) \subseteq CountingFrom(i, MaxTries - D + 1)
    <3>1. \A w \in Visitor : CountsFrom(w, i) \in Int
      BY <1>7
    <3>2. MaxTries - d + 1 \in Int /\ MaxTries - D + 1 \in Int
      BY <1>8
    <3>3. QED
      BY <2>1, <3>1, <3>2 DEF CountingFrom
  <2>3. QED
    BY <1>8, <1>10, <2>1, <2>2, RequestsCounted
<1>12. ASSUME NEW d \in D .. MaxTries
       PROVE  CountingFrom(i, MaxTries - d + 1) \subseteq CountingFrom(i, MaxTries - d + 1)'
  <2>1. MaxTries - d + 1 \in Int /\ MaxTries - d + 1 <= r + 1
    BY <1>0, <1>8
  <2>2. ASSUME NEW w \in Visitor, CountsFrom(w, i) >= MaxTries - d + 1
        PROVE  CountsFrom(w, i)' >= MaxTries - d + 1
    BY <1>0, <1>7, <2>1, <2>2
  <2>3. CountingFrom(i, MaxTries - d + 1)' = {w \in Visitor : CountsFrom(w, i)' >= MaxTries - d + 1}
    BY DEF CountingFrom
  <2>4. QED
    BY <2>2, <2>3 DEF CountingFrom
<1>13. ASSUME NEW d \in D .. MaxTries PROVE a[d] <= b[d]
  <2>1. d \in 1 .. MaxTries
    BY <1>8
  <2>2. QED
    BY <1>10, <1>12, <2>1, RequestsCounted
<1>14. a[D] < b[D]
  <2>1. D \in D .. MaxTries
    BY <1>8
  <2>2. CountingFrom(i, MaxTries - D + 1)' = {w \in Visitor : CountsFrom(w, i)' >= MaxTries - D + 1}
    BY DEF CountingFrom
  <2>3. v \notin CountingFrom(i, MaxTries - D + 1) /\ v \in CountingFrom(i, MaxTries - D + 1)'
    BY <1>0, <1>6, <1>8, <2>2 DEF CountingFrom
  <2>4. QED
    BY <1>8, <1>10, <1>12, <2>1, <2>3, RequestsCounted
<1> HIDE DEF a, b
<1>15. Allowed(a)[MaxTries] < Allowed(b)[MaxTries]
  BY <1>8, <1>9, <1>11, <1>13, <1>14, OneSetBack
<1>16. ASSUME NEW j \in RowId
       PROVE  (compared[j] <= Allowed(Standing(j))[MaxTries])'
  <2>1. CASE j # i
    <3>1. Standing(j)' = Standing(j)
      <4>1. \A w \in Visitor : CountsFrom(w, j)' = CountsFrom(w, j)
        BY <1>5, <2>1
      <4>2. QED
        BY <4>1 DEF Standing, CountingFrom
    <3>2. compared'[j] = compared[j] /\ compared[j] <= Allowed(Standing(j))[MaxTries]
      BY <1>2, <2>1 DEF LegacyInv
    <3>3. QED
      BY <3>1, <3>2 DEF Allowed
  <2>2. CASE j = i
    <3>1. compared[i] <= Allowed(a)[MaxTries]
      BY <1>0 DEF LegacyInv, a
    <3>2. Allowed(a)[MaxTries] \in Nat /\ Allowed(b)[MaxTries] \in Nat
      BY <1>9, AllowedAdds DEF SumRows
    <3>3. compared'[i] <= Allowed(b)[MaxTries]
      BY <1>3, <1>15, <3>1, <3>2
    <3>4. Allowed(Standing(i))' = Allowed(b)
      BY DEF Allowed, b
    <3>5. QED
      BY <2>2, <3>3, <3>4
  <2>3. QED
    BY <2>1, <2>2
<1>17. QED
  BY <1>4, <1>16 DEF LegacyInv

\* A request for a code.
LEMMA VisitOf ==
  ASSUME NEW at \in {"idle", "invalidate", "insert", "mail", "compare", "confirm"},
         NEW n \in 0 .. MaxRows, NEW t \in 0 .. MaxTries, NEW m \in BOOLEAN
  PROVE  [at |-> at, row |-> n, tries |-> t, match |-> m] \in Visits
  BY DEF Visits

\* Where a request goes.
LEMMA VisitorGoes ==
  ASSUME LegacyTypes, NEW v \in Visitor, NEW to \in Visits, visitor' = [visitor EXCEPT ![v] = to]
  PROVE  /\ visitor' \in [Visitor -> Visits] /\ visitor'[v] = to
         /\ \A w \in Visitor \ {v} : visitor'[w] = visitor[w]
<1>1. visitor \in [Visitor -> Visits]
  BY DEF LegacyTypes, Visits
<1>2. QED
  BY <1>1

\* Without a row nothing has been compared.
LEMMA LegacyInitially == LegacyInit => LegacyInv
<1> USE LegacyBoundAssumption
<1> SUFFICES ASSUME LegacyInit PROVE LegacyInv
  OBVIOUS
<1>1. LegacyTypes
  <2>1. Outside \in Visits /\ NoRow \in CodeRows
    BY DEF Outside, Visits, NoRow, CodeRows
  <2>2. \A i \in RowId : rows[i] = NoRow /\ compared[i] = 0
    BY DEF LegacyInit
  <2>3. rows \in [RowId -> CodeRows] /\ visitor \in [Visitor -> Visits] /\ compared \in [RowId -> Nat] /\ made = 0
    BY <2>1 DEF LegacyInit
  <2>4. \A v \in Visitor : visitor[v].at = "idle"
    BY DEF LegacyInit, Outside
  <2>5. QED
    BY <2>2, <2>3, <2>4 DEF LegacyTypes, CodeRows, Visits, NoRow
<1>2. ASSUME NEW i \in RowId PROVE compared[i] <= Allowed(Standing(i))[MaxTries]
  <2>1. compared[i] = 0
    BY DEF LegacyInit
  <2>2. Allowed(Standing(i))[MaxTries] \in Nat
    BY StandingIsHeads, AllowedAdds DEF SumRows
  <2>3. QED
    BY <2>1, <2>2
<1>3. QED
  BY <1>1, <1>2 DEF LegacyInv

\* Every step keeps the invariant.
LEMMA LegacyStep == LegacyInv /\ [LegacyNext]_legacyVars => LegacyInv'
<1> SUFFICES ASSUME LegacyInv, [LegacyNext]_legacyVars PROVE LegacyInv'
  OBVIOUS
<1> USE LegacyBoundAssumption
<1>0. /\ LegacyTypes /\ made \in 0 .. MaxRows /\ rows \in [RowId -> CodeRows]
      /\ visitor \in [Visitor -> Visits]
  BY DEF LegacyInv, LegacyTypes, CodeRows, Visits
<1>1. Outside \in Visits /\ 0 \in 0 .. MaxRows /\ 0 \in 0 .. MaxTries
  BY DEF Outside, Visits
<1>2. /\ InvalidateAll \in [RowId -> CodeRows]
      /\ \A i \in RowId : InvalidateAll[i].used /\ InvalidateAll[i].tries = rows[i].tries
  BY <1>0 DEF InvalidateAll, CodeRows
<1>3. \A i \in RowId : i > made => rows[i].used /\ rows[i].tries = 0
  BY <1>0 DEF LegacyTypes
<1>4. ASSUME NEW v \in Visitor, AskCode(v) \/ InvalidateOld(v) \/ (\E sent \in BOOLEAN : MailCode(v, sent)) \/ Confirm(v)
      PROVE  LegacyInv'
  <2>1. /\ rows' \in {rows, InvalidateAll} /\ UNCHANGED <<made, compared>>
        /\ visitor[v].at # "compare"
    BY <1>4 DEF AskCode, InvalidateOld, MailCode, Confirm
  <2>2. \E to \in Visits : to.at # "compare" /\ visitor' = [visitor EXCEPT ![v] = to]
    <3>1. Goes(v, "invalidate", 0, 0, FALSE) \/ Goes(v, "insert", 0, 0, FALSE) \/ IsDone(v)
      BY <1>4 DEF AskCode, InvalidateOld, MailCode, Confirm
    <3>2. /\ [at |-> "invalidate", row |-> 0, tries |-> 0, match |-> FALSE] \in Visits
          /\ [at |-> "insert", row |-> 0, tries |-> 0, match |-> FALSE] \in Visits
      BY <1>1, VisitOf
    <3>3. QED
      BY <1>1, <3>1, <3>2 DEF Goes, IsDone, Outside
  <2>3. PICK to \in Visits : to.at # "compare" /\ visitor' = [visitor EXCEPT ![v] = to]
    BY <2>2
  <2>4. /\ visitor' \in [Visitor -> Visits] /\ visitor'[v] = to
        /\ \A w \in Visitor \ {v} : visitor'[w] = visitor[w]
    BY <1>0, <2>3, VisitorGoes
  <2>5. rows' \in [RowId -> CodeRows] /\ \A i \in RowId : rows'[i].tries = rows[i].tries /\ (i > made' => rows'[i].used)
    BY <1>0, <1>2, <1>3, <2>1
  <2>6. made' \in made .. MaxRows
    BY <1>0, <2>1
  <2>7. QED
    BY <2>1, <2>3, <2>4, <2>5, <2>6, CountsKept
<1>5. ASSUME NEW v \in Visitor, InsertCode(v)
      PROVE  LegacyInv'
  <2> DEFINE new == [used |-> FALSE, tries |-> 0, cooling |-> TRUE, fresh |-> TRUE]
             to == [at |-> "mail", row |-> made + 1, tries |-> 0, match |-> FALSE]
  <2>1. /\ made < MaxRows /\ made' = made + 1 /\ rows' = [rows EXCEPT ![made + 1] = new]
        /\ visitor' = [visitor EXCEPT ![v] = to] /\ compared' = compared
        /\ visitor[v].at # "compare"
    BY <1>5 DEF InsertCode, Goes
  <2>2. made + 1 \in 0 .. MaxRows /\ made + 1 \in RowId
    BY <1>0, <2>1 DEF RowId
  <2>3. to \in Visits
    BY <1>1, <2>2, VisitOf
  <2>4. /\ visitor' \in [Visitor -> Visits] /\ visitor'[v] = to
        /\ \A w \in Visitor \ {v} : visitor'[w] = visitor[w]
    BY <1>0, <2>1, <2>3, VisitorGoes
  <2>5. new \in CodeRows
    BY DEF CodeRows
  <2>6. rows' \in [RowId -> CodeRows] /\ rows'[made + 1].tries = 0 /\ rows[made + 1].tries = 0
    BY <1>0, <1>3, <2>1, <2>2, <2>5
  <2>7. \A i \in RowId \ {made + 1} : rows'[i] = rows[i]
    BY <1>0, <2>1
  <2>8. \A i \in RowId : rows'[i].tries = rows[i].tries
    BY <2>6, <2>7
  <2>9. \A i \in RowId : i > made' => rows'[i].used
    <3>1. \A i \in RowId : i > made' => i > made /\ i # made + 1
      BY <1>0, <2>1 DEF RowId
    <3>2. QED
      BY <1>3, <2>7, <3>1
  <2>10. made' \in made .. MaxRows
    BY <1>0, <2>1
  <2>11. QED
    BY <2>1, <2>4, <2>6, <2>8, <2>9, <2>10, CountsKept
<1>6. ASSUME NEW v \in Visitor, ReadRow(v)
      PROVE  LegacyInv'
  <2> DEFINE i == LatestUnused
  <2>1. i \in RowId /\ ~rows[i].used
    BY <1>6, LatestIsARow DEF ReadRow, Unused
  <2>2. PICK match \in BOOLEAN : Goes(v, "compare", i, rows[i].tries, match)
    BY <1>6 DEF ReadRow
  <2> DEFINE to == [at |-> "compare", row |-> i, tries |-> rows[i].tries, match |-> match]
  <2> HIDE DEF i
  <2>3. i \in 1 .. made /\ rows[i].tries \in 0 .. MaxTries /\ i \in 0 .. MaxRows
    BY <1>0, <1>3, <2>1 DEF RowId, CodeRows
  <2>4. to \in Visits /\ visitor' = [visitor EXCEPT ![v] = to]
    BY <1>1, <2>2, <2>3, VisitOf DEF Goes
  <2>5. /\ visitor' \in [Visitor -> Visits] /\ visitor'[v] = to
        /\ \A w \in Visitor \ {v} : visitor'[w] = visitor[w]
    BY <1>0, <2>4, VisitorGoes
  <2>6. UNCHANGED <<rows, made, compared>> /\ visitor[v].at # "compare"
    BY <1>6 DEF ReadRow
  <2>7. \A w \in Visitor : visitor'[w].at = "compare" =>
            \/ visitor'[w] = visitor[w]
            \/ visitor'[w].row \in 1 .. made /\ visitor'[w].tries = rows[visitor'[w].row].tries
    BY <2>3, <2>5
  <2>8. made' \in made .. MaxRows
    BY <1>0, <2>6
  <2>9. QED
    BY <1>0, <1>3, <2>5, <2>6, <2>7, <2>8, CountsKept
<1>7. ASSUME NEW v \in Visitor, CompareCode(v)
      PROVE  LegacyInv'
  <2> DEFINE i == visitor[v].row
  <2>1. /\ visitor[v].at = "compare" /\ made' = made /\ i \in RowId
        /\ visitor[v].tries \in Nat /\ MaxTries \in Nat
    BY <1>0, <1>7 DEF CompareCode, LegacyTypes, RowId
  <2>2. CASE visitor[v].tries >= MaxTries
    <3>1. /\ rows' = [rows EXCEPT ![i].used = TRUE] /\ compared' = compared
          /\ visitor' = [visitor EXCEPT ![v] = Outside]
      BY <1>7, <2>2 DEF CompareCode, IsDone
    <3>2. /\ visitor' \in [Visitor -> Visits] /\ visitor'[v] = Outside
          /\ \A w \in Visitor \ {v} : visitor'[w] = visitor[w]
      BY <1>0, <1>1, <3>1, VisitorGoes
    <3>3. rows' \in [RowId -> CodeRows] /\ \A j \in RowId : rows'[j].tries = rows[j].tries /\ (j > made' => rows'[j].used)
      BY <1>0, <1>3, <2>1, <3>1 DEF CodeRows
    <3>4. made' \in made .. MaxRows /\ Outside.at = "idle"
      BY <1>0, <2>1 DEF Outside
    <3>5. QED
      BY <2>2, <3>1, <3>2, <3>3, <3>4, CountsKept
  <2>3. CASE ~(visitor[v].tries >= MaxTries)
    <3>1. visitor[v].tries < MaxTries
      BY <2>1, <2>3
    <3>2. rows' = SavedAttempt(v)
      BY <1>7, <2>3 DEF CompareCode
    <3>3. rows' = [rows EXCEPT ![i].tries = visitor[v].tries + 1, ![i].used = @ \/ visitor[v].match]
      BY <3>2 DEF SavedAttempt
    <3>4. compared' = compared \/ compared' = [compared EXCEPT ![i] = @ + 1]
      BY <1>7, <2>3 DEF CompareCode
    <3>5. i \in 0 .. MaxRows
      BY <2>1 DEF RowId
    <3>6. \E to \in Visits : to.at # "compare" /\ visitor' = [visitor EXCEPT ![v] = to]
      <4>1. Goes(v, "confirm", i, 0, TRUE) \/ IsDone(v)
        BY <1>7, <2>3 DEF CompareCode
      <4>2. [at |-> "confirm", row |-> i, tries |-> 0, match |-> TRUE] \in Visits
        BY <1>1, <3>5, VisitOf
      <4>3. QED
        BY <1>1, <4>1, <4>2 DEF Goes, IsDone, Outside
    <3>7. PICK to \in Visits : to.at # "compare" /\ visitor' = [visitor EXCEPT ![v] = to]
      BY <3>6
    <3>8. /\ visitor' \in [Visitor -> Visits] /\ visitor'[v] = to
          /\ \A w \in Visitor \ {v} : visitor'[w] = visitor[w]
      BY <1>0, <3>7, VisitorGoes
    <3>9. QED
      BY <2>1, <3>1, <3>3, <3>4, <3>7, <3>8, AttemptSaved
  <2>4. QED
    BY <2>2, <2>3
<1>8. ASSUME NEW i \in RowId, CodeCools(i) \/ CodeExpires(i)
      PROVE  LegacyInv'
  <2>1. rows' \in {[rows EXCEPT ![i].cooling = FALSE], [rows EXCEPT ![i].fresh = FALSE]}
        /\ UNCHANGED <<visitor, made, compared>>
    BY <1>8 DEF CodeCools, CodeExpires
  <2>2. rows' \in [RowId -> CodeRows] /\ \A j \in RowId : rows'[j].tries = rows[j].tries /\ rows'[j].used = rows[j].used
    <3>1. rows[i] \in CodeRows
      BY <1>0
    <3>2. [rows[i] EXCEPT !.cooling = FALSE] \in CodeRows /\ [rows[i] EXCEPT !.fresh = FALSE] \in CodeRows
      BY <3>1 DEF CodeRows
    <3>3. PICK row \in {[rows[i] EXCEPT !.cooling = FALSE], [rows[i] EXCEPT !.fresh = FALSE]} :
            rows' = [rows EXCEPT ![i] = row]
      BY <2>1
    <3>4. row \in CodeRows /\ row.tries = rows[i].tries /\ row.used = rows[i].used
      BY <3>1, <3>2 DEF CodeRows
    <3>5. QED
      BY <1>0, <3>3, <3>4
  <2>3. made' \in made .. MaxRows
    BY <1>0, <2>1
  <2>4. QED
    BY <1>0, <1>3, <2>1, <2>2, <2>3, CountsKept
<1>9. CASE UNCHANGED legacyVars
  BY <1>0, <1>3, <1>9, CountsKept DEF legacyVars
<1>10. QED
  BY <1>4, <1>5, <1>6, <1>7, <1>8, <1>9 DEF LegacyNext

\* However many requests overlap, the wrong inputs compared with a code of an unverified
\* account stay bounded although verify_code saves a count it has read before (codes.py): with
\* n requests at once by C(n + MaxTries, MaxTries) - 1, for any number of codes and of attempts.
THEOREM LegacyGuessesBoundedCorrect == LegacySpec => []LegacyGuessesBounded
<1>1. LegacyInv => LegacyGuessesBounded
  <2> USE LegacyBoundAssumption
  <2> SUFFICES ASSUME LegacyInv, NEW i \in RowId
               PROVE  compared[i] < SetBacks[Many + 1][MaxTries]
    BY DEF LegacyGuessesBounded, Many
  <2>1. Standing(i) \in Heads
    BY StandingIsHeads
  <2>2. /\ Many \in Nat /\ Many \in 0 .. Many /\ MaxTries \in 0 .. MaxTries
        /\ \A d \in 1 .. MaxTries : Standing(i)[d] <= Many
    BY <2>1, SetBacksAre DEF Heads
  <2>3. Allowed(Standing(i))[MaxTries] < SetBacks[Many + 1][MaxTries]
    BY <2>1, <2>2, AllowedBelow
  <2>4. Allowed(Standing(i))[MaxTries] \in Nat /\ SetBacks[Many + 1][MaxTries] \in Nat
    BY <2>1, <2>2, AllowedAdds, SetBacksAre DEF SumRows
  <2>5. compared[i] \in Nat /\ compared[i] <= Allowed(Standing(i))[MaxTries]
    BY DEF LegacyInv, LegacyTypes
  <2>6. QED
    BY <2>3, <2>4, <2>5
<1>2. QED
  BY <1>1, LegacyInitially, LegacyStep, PTL DEF LegacySpec

-----------------------------------------------------------------------------
(* Pages of a report *)

\* The requests at one point of a handler.
At(s) == { c \in Viewer : viewer[c] = s }

\* The checks are passed by requests that are counted by where they are, and every
\* plan that is to be rewarded is there already.
PagesInv ==
  /\ plans \in [PlanStates -> Nat]
  /\ viewer \in [Viewer -> {"idle", "insert", "reward", "link"}]
  /\ today \in 0 .. MaxDay
  /\ expires \in Seq(Nat) /\ Len(expires) <= MaxLinks
  /\ planPaid \in Nat /\ planPaid + Cardinality(At("reward")) <= Plans
  /\ Plans + Cardinality(At("insert")) <= PlanLimit + Cardinality(Viewer) - 1
  /\ Cardinality(LiveLinks) + Cardinality(At("link")) <= Cardinality(Viewer)

\* How many requests are at a point is a number, and no more than there are.
LEMMA PointsCounted ==
  ASSUME NEW s
  PROVE  /\ IsFiniteSet(At(s)) /\ Cardinality(At(s)) \in Nat
         /\ Cardinality(Viewer) \in Nat /\ Cardinality(At(s)) <= Cardinality(Viewer)
<1>1. IsFiniteSet(Viewer) /\ At(s) \in SUBSET Viewer
  BY PagesAssumption DEF At
<1>2. QED
  BY <1>1, FS_Subset, FS_CardinalityType

\* A request that goes from one point to another is counted there instead.
LEMMA PointsMoved ==
  ASSUME NEW c \in Viewer, NEW to, viewer \in [Viewer -> {"idle", "insert", "reward", "link"}], ViewerGoes(c, to), NEW s
  PROVE  /\ Cardinality(At(s)') =
              IF viewer[c] = s THEN (IF to = s THEN Cardinality(At(s)) ELSE Cardinality(At(s)) - 1)
              ELSE (IF to = s THEN Cardinality(At(s)) + 1 ELSE Cardinality(At(s)))
         /\ Cardinality(At(s)') <= Cardinality(Viewer)
<1>1. IsFiniteSet(At(s)) /\ IsFiniteSet(Viewer)
  BY PointsCounted, PagesAssumption
<1>2. viewer' = [viewer EXCEPT ![c] = to]
  BY DEF ViewerGoes
<1> DEFINE Moved == Cardinality(At(s)') =
              IF viewer[c] = s THEN (IF to = s THEN Cardinality(At(s)) ELSE Cardinality(At(s)) - 1)
              ELSE (IF to = s THEN Cardinality(At(s)) + 1 ELSE Cardinality(At(s)))
<1>3. ASSUME to = s PROVE Moved
  <2>1. At(s)' = At(s) \cup {c}
    BY <1>2, <1>3 DEF At
  <2>2. c \in At(s) <=> viewer[c] = s
    BY DEF At
  <2>3. QED
    BY <1>1, <1>3, <2>1, <2>2, FS_AddElement
<1>4. ASSUME to # s PROVE Moved
  <2>1. At(s)' = At(s) \ {c}
    BY <1>2, <1>4 DEF At
  <2>2. c \in At(s) <=> viewer[c] = s
    BY DEF At
  <2>3. QED
    BY <1>1, <1>4, <2>1, <2>2, FS_RemoveElement
<1>5. Cardinality(At(s)') <= Cardinality(Viewer)
  <2>1. At(s)' \in SUBSET Viewer
    BY DEF At
  <2>2. QED
    BY <1>1, <2>1, FS_Subset
<1>6. QED
  BY <1>3, <1>4, <1>5

\* Links are counted.
LEMMA LinksCounted ==
  ASSUME expires \in Seq(Nat)
  PROVE  IsFiniteSet(LiveLinks) /\ Cardinality(LiveLinks) \in Nat
<1>1. LiveLinks \in SUBSET (1 .. Len(expires)) /\ Len(expires) \in Nat
  BY DEF LiveLinks
<1>2. IsFiniteSet(1 .. Len(expires))
  BY <1>1, FS_Interval
<1>3. QED
  BY <1>1, <1>2, FS_Subset, FS_CardinalityType

\* The counts hold when no page has been asked for.
LEMMA PagesInitially == PagesInit => PagesInv
<1> SUFFICES ASSUME PagesInit PROVE PagesInv
  OBVIOUS
<1>1. \A s \in {"insert", "reward", "link"} : At(s) = {}
  BY DEF PagesInit, At
<1>2. LiveLinks = {}
  BY DEF PagesInit, LiveLinks
<1>3. Cardinality({}) = 0
  BY FS_EmptySet
<1>4. Cardinality(Viewer) \in Nat /\ Cardinality(Viewer) # 0
  BY PagesAssumption, FS_EmptySet, FS_CardinalityType
<1>5. Plans = 0 /\ PlanLimit \in Nat /\ MaxDay \in Nat /\ MaxLinks \in Nat
  BY PagesAssumption DEF PagesInit, Plans, PlanStates
<1>6. /\ plans \in [PlanStates -> Nat] /\ today \in 0 .. MaxDay
      /\ viewer \in [Viewer -> {"idle", "insert", "reward", "link"}]
      /\ expires \in Seq(Nat) /\ Len(expires) <= MaxLinks /\ planPaid = 0
  BY <1>5 DEF PagesInit
<1>7. /\ \A s \in {"insert", "reward", "link"} : Cardinality(At(s)) = 0
      /\ Cardinality(LiveLinks) = 0
  BY <1>1, <1>2, <1>3
<1>8. planPaid + Cardinality(At("reward")) <= Plans
  BY <1>5, <1>6, <1>7
<1>9. Plans + Cardinality(At("insert")) <= PlanLimit + Cardinality(Viewer) - 1
  BY <1>4, <1>5, <1>7
<1>10. Cardinality(LiveLinks) + Cardinality(At("link")) <= Cardinality(Viewer)
  BY <1>4, <1>7
<1>11. QED
  BY <1>6, <1>8, <1>9, <1>10 DEF PagesInv

\* Every request keeps the counts: who passes a check is counted where he inserts.
LEMMA PagesStep == PagesInv /\ [PagesNext]_pageVars => PagesInv'
<1> SUFFICES ASSUME PagesInv, [PagesNext]_pageVars PROVE PagesInv'
  OBVIOUS
<1> DEFINE I == Cardinality(At("insert"))
           R == Cardinality(At("reward"))
           K == Cardinality(At("link"))
           L == Cardinality(LiveLinks)
           V == Cardinality(Viewer)
<1>1. /\ I \in Nat /\ R \in Nat /\ K \in Nat /\ V \in Nat
      /\ I <= V /\ R <= V /\ K <= V
  BY PointsCounted
<1>2. L \in Nat
  BY LinksCounted DEF PagesInv
<1>3. /\ viewer \in [Viewer -> {"idle", "insert", "reward", "link"}] /\ Plans \in Nat
      /\ PlanLimit \in Nat /\ ExpiryDays \in Nat /\ MaxDay \in Nat /\ MaxLinks \in Nat
  <2>1. viewer \in [Viewer -> {"idle", "insert", "reward", "link"}]
    BY DEF PagesInv
  <2>2. Plans \in Nat
    BY DEF PagesInv, Plans, PlanStates
  <2>3. QED
    BY <2>1, <2>2, PagesAssumption
<1>4. ASSUME UNCHANGED <<expires, today>> PROVE L' = L
  BY <1>4 DEF LiveLinks, Live
<1>5. ASSUME UNCHANGED plans PROVE Plans' = Plans
  BY <1>5 DEF Plans
<1>6. ASSUME UNCHANGED viewer PROVE I' = I /\ R' = R /\ K' = K
  BY <1>6 DEF At
<1>7. ASSUME NEW c \in Viewer, NEW to \in {"idle", "insert", "reward", "link"}, ViewerGoes(c, to)
      PROVE  viewer' \in [Viewer -> {"idle", "insert", "reward", "link"}]
  BY <1>7 DEF ViewerGoes, PagesInv
<1>8. ASSUME NEW c \in Viewer, CountPlans(c) PROVE PagesInv'
  <2>1. I' = I + 1 /\ I' <= V /\ R' = R /\ K' = K
    BY <1>3, <1>8, PointsMoved DEF CountPlans
  <2>2. Plans' = Plans /\ L' = L /\ Plans < PlanLimit
    BY <1>4, <1>5, <1>8 DEF CountPlans, HasRoom
  <2>3. QED
    BY <1>1, <1>2, <1>3, <1>7, <1>8, <2>1, <2>2 DEF CountPlans, PagesInv
<1>9. ASSUME NEW c \in Viewer, InsertPlan(c) PROVE PagesInv'
  <2>1. I' = I - 1 /\ R' = R + 1 /\ K' = K
    BY <1>3, <1>9, PointsMoved DEF InsertPlan
  <2>2. plans' \in [PlanStates -> Nat] /\ Plans' = Plans + 1
    BY <1>9 DEF InsertPlan, Plans, PlanStates, PagesInv
  <2>3. L' = L
    BY <1>4, <1>9 DEF InsertPlan
  <2>4. UNCHANGED <<planPaid, expires, today>> /\ ViewerGoes(c, "reward")
    BY <1>9 DEF InsertPlan
  <2>5. planPaid + R' <= Plans' /\ Plans' + I' <= PlanLimit + V - 1
    BY <1>1, <1>3, <2>1, <2>2 DEF PagesInv
  <2>6. QED
    BY <1>7, <2>1, <2>2, <2>3, <2>4, <2>5 DEF PagesInv
<1>10. ASSUME NEW c \in Viewer, RewardPlan(c) PROVE PagesInv'
  <2>1. I' = I /\ R' = R - 1 /\ K' = K
    BY <1>3, <1>10, PointsMoved DEF RewardPlan
  <2>2. Plans' = Plans /\ L' = L
    BY <1>4, <1>5, <1>10 DEF RewardPlan
  <2>3. planPaid' \in Nat /\ planPaid' + R' <= Plans
    BY <1>1, <1>3, <1>10, <2>1 DEF RewardPlan, PagesInv
  <2>4. QED
    BY <1>1, <1>2, <1>3, <1>7, <1>10, <2>1, <2>2, <2>3 DEF RewardPlan, PagesInv
<1>11. ASSUME NEW from \in PlanStates, NEW to \in PlanStates, PatchPlan(from, to) PROVE PagesInv'
  <2>1. plans' \in [PlanStates -> Nat] /\ Plans' = Plans
    <3>1. /\ plans' = [plans EXCEPT ![from] = @ - 1, ![to] = @ + 1] /\ from # to /\ plans[from] > 0
          /\ plans \in [PlanStates -> Nat]
      BY <1>11 DEF PatchPlan, PagesInv
    <3>2. plans' \in [PlanStates -> Nat]
      BY <3>1
    <3>3. /\ plans'[from] = plans[from] - 1 /\ plans'[to] = plans[to] + 1
          /\ \A s \in PlanStates \ {from, to} : plans'[s] = plans[s]
      BY <3>1
    <3>4. QED
      BY <3>1, <3>2, <3>3 DEF Plans, PlanStates
  <2>2. L' = L /\ I' = I /\ R' = R /\ K' = K
    BY <1>4, <1>6, <1>11 DEF PatchPlan
  <2>3. QED
    BY <1>1, <1>2, <1>3, <1>11, <2>1, <2>2 DEF PatchPlan, PagesInv
<1>12. ASSUME NEW c \in Viewer, FindLink(c) PROVE PagesInv'
  <2>1. I' = I /\ R' = R /\ K' <= V
    BY <1>3, <1>12, PointsMoved DEF FindLink
  <2>2. K' \in Nat
    BY <1>1, <1>3, <1>12, PointsMoved DEF FindLink
  <2>3. L = 0 /\ L' = L /\ Plans' = Plans
    BY <1>4, <1>5, <1>12, FS_EmptySet DEF FindLink
  <2>4. QED
    BY <1>1, <1>2, <1>3, <1>7, <1>12, <2>1, <2>2, <2>3 DEF FindLink, PagesInv
<1>13. ASSUME NEW c \in Viewer, CreateLink(c) PROVE PagesInv'
  <2>1. I' = I /\ R' = R /\ K' = K - 1
    BY <1>3, <1>13, PointsMoved DEF CreateLink
  <2>2. /\ expires' = Append(expires, today + ExpiryDays) /\ today' = today
        /\ expires \in Seq(Nat) /\ today \in Nat /\ Len(expires) \in Nat /\ Len(expires) < MaxLinks
    BY <1>3, <1>13 DEF CreateLink, PagesInv
  <2>3. expires' \in Seq(Nat) /\ Len(expires') <= MaxLinks
    BY <1>3, <2>2
  <2>4. LiveLinks' \subseteq LiveLinks \cup {Len(expires) + 1}
    BY <2>2 DEF LiveLinks, Live
  <2>5. L' <= L + 1
    <3>1. IsFiniteSet(LiveLinks)
      BY <2>2, LinksCounted
    <3> DEFINE x == Len(expires) + 1
    <3>2. IsFiniteSet(LiveLinks \cup {x}) /\ Cardinality(LiveLinks \cup {x}) <= L + 1
      <4>1. /\ IsFiniteSet(LiveLinks \cup {x})
            /\ Cardinality(LiveLinks \cup {x}) = IF x \in LiveLinks THEN L ELSE L + 1
        BY <3>1, FS_AddElement
      <4>2. QED
        BY <1>2, <4>1
    <3>3. QED
      BY <1>2, <2>4, <3>1, <3>2, FS_Subset, FS_CardinalityType
  <2>6. L' \in Nat
    <3>1. IsFiniteSet(LiveLinks \cup {Len(expires) + 1})
      BY <2>2, LinksCounted, FS_AddElement
    <3>2. QED
      BY <2>4, <3>1, FS_Subset, FS_CardinalityType
  <2>7. Plans' = Plans
    BY <1>5, <1>13 DEF CreateLink
  <2>8. QED
    BY <1>1, <1>2, <1>3, <1>7, <1>13, <2>1, <2>3, <2>5, <2>6, <2>7 DEF CreateLink, PagesInv
<1>14. ASSUME ADayPasses PROVE PagesInv'
  <2>1. I' = I /\ R' = R /\ K' = K /\ Plans' = Plans
    BY <1>5, <1>6, <1>14 DEF ADayPasses
  <2>2. today' \in 0 .. MaxDay /\ today' = today + 1 /\ today \in Nat /\ expires' = expires
    BY <1>3, <1>14 DEF ADayPasses, PagesInv
  <2>3. LiveLinks' \in SUBSET LiveLinks
    BY <2>2 DEF LiveLinks, Live, PagesInv
  <2>4. L' <= L /\ L' \in Nat
    <3>1. IsFiniteSet(LiveLinks)
      BY LinksCounted DEF PagesInv
    <3>2. QED
      BY <2>3, <3>1, FS_Subset, FS_CardinalityType
  <2>5. QED
    BY <1>1, <1>2, <1>3, <1>14, <2>1, <2>2, <2>4 DEF ADayPasses, PagesInv
<1>15. ASSUME NEW c \in Viewer, ViewerDies(c) PROVE PagesInv'
  <2>1. viewer[c] # "idle" /\ ViewerGoes(c, "idle")
    BY <1>15 DEF ViewerDies
  <2>2. I' <= I /\ I' \in Int
    BY <1>1, <1>3, <2>1, PointsMoved
  <2>3. R' <= R /\ R' \in Int
    BY <1>1, <1>3, <2>1, PointsMoved
  <2>4. K' <= K /\ K' \in Int
    BY <1>1, <1>3, <2>1, PointsMoved
  <2>5. /\ Plans' = Plans /\ L' = L /\ UNCHANGED <<plans, planPaid, expires, today>>
    BY <1>4, <1>5, <1>15 DEF ViewerDies
  <2>6. /\ planPaid + R' <= Plans /\ Plans + I' <= PlanLimit + V - 1 /\ L + K' <= V
    BY <1>1, <1>2, <1>3, <2>2, <2>3, <2>4 DEF PagesInv
  <2>7. QED
    BY <1>7, <2>1, <2>5, <2>6 DEF PagesInv
<1>16. CASE UNCHANGED pageVars
  BY <1>4, <1>5, <1>6, <1>16 DEF pageVars, PagesInv
<1>17. QED
  BY <1>8, <1>9, <1>10, <1>11, <1>12, <1>13, <1>14, <1>15, <1>16 DEF PagesNext

\* report/views.py:219 and :285 - plans above the limit and live links at the same time are
\* no more than the requests that can overlap, for any number of them.
THEOREM ChecksPassedTogetherCorrect == PagesSpec => []ChecksPassedTogether
<1>1. PagesInv => ChecksPassedTogether
  BY DEF PagesInv, ChecksPassedTogether, At
<1>2. QED
  BY <1>1, PagesInitially, PagesStep, PTL DEF PagesSpec

\* The pages keep their types, and no more plans are rewarded than there are.
THEOREM PagesTypeCorrect == PagesSpec => []PagesTypeOK
<1>1. PagesInv => PagesTypeOK
  <2> SUFFICES ASSUME PagesInv PROVE PagesTypeOK
    OBVIOUS
  <2>1. Cardinality(At("reward")) \in Nat
    BY PointsCounted
  <2>2. Plans \in Nat
    BY DEF PagesInv, Plans, PlanStates
  <2>3. QED
    BY <2>1, <2>2 DEF PagesInv, PagesTypeOK
<1>2. QED
  BY <1>1, PagesInitially, PagesStep, PTL DEF PagesSpec

-----------------------------------------------------------------------------
(* Learning roadmap *)

\* Items change only while there are none, so what a request has found of them is what
\* is kept; and there are none without their row.
RoadmapInv ==
  /\ RoadmapTypeOK
  /\ seen = [c \in Learner |-> seen[c]]
  /\ reply = [c \in Learner |-> reply[c]]
  /\ \A c \in Learner : learner[c] = "store" =>
        reply[c].id \in 1 .. MaxReplies /\ DOMAIN reply[c].items \subseteq 1 .. 2
  /\ texts = Nothing => steps = {}
  /\ \A s \in steps : s.from = texts
  /\ \A c \in Learner : seen[c] = {} \/ seen[c] = steps
  /\ \A r \in shown : r.steps = {} \/ r.steps = steps

\* A request that ends leaves the rest as it is.
LEMMA RoadmapLeft ==
  ASSUME RoadmapInv, NEW c \in Learner, LearnerLeaves(c)
  PROVE  /\ learner' \in [Learner -> {"idle", "row", "ask", "store"}]
         /\ remembered' \in [Learner -> 1 .. MaxReplies \cup {Nothing}]
         /\ seen' = [d \in Learner |-> seen'[d]] /\ reply' = [d \in Learner |-> reply'[d]]
         /\ \A d \in Learner : d # c => learner'[d] = learner[d] /\ reply'[d] = reply[d] /\ seen'[d] = seen[d]
         /\ learner'[c] = "idle" /\ seen'[c] = {}
  BY DEF RoadmapInv, RoadmapTypeOK, LearnerLeaves, LearnerGoes

\* The transaction writes items only where there are none.
LEMMA RoadmapStored ==
  ASSUME RoadmapInv, NEW c \in Learner, learner[c] = "store", OwnRoadmap(c)
  PROVE  /\ steps = {}
         /\ steps' \subseteq [from : {texts'}, rank : 1 .. 2, priority : Priorities]
         /\ texts' \in 1 .. MaxReplies
<1>1. steps = {}
  BY DEF RoadmapInv, OwnRoadmap, StoreRoadmap, FoundMeanwhile, InsertedMeanwhile
<1>2. texts' = reply[c].id /\ texts' \in 1 .. MaxReplies
  BY DEF RoadmapInv, OwnRoadmap, StoreRoadmap
<1>3. steps' \subseteq [from : {texts'}, rank : 1 .. 2, priority : Priorities]
  BY <1>2 DEF RoadmapInv, OwnRoadmap, StoreRoadmap, Rows, Priorities
<1>4. QED
  BY <1>1, <1>2, <1>3

\* A session without a roadmap has no items and no texts.
LEMMA RoadmapInitially == RoadmapInit => RoadmapInv
  BY RoadmapAssumption DEF RoadmapInit, RoadmapInv, RoadmapTypeOK

\* Under the lock items are written only while there are none.
LEMMA RoadmapStep == RoadmapInv /\ [RoadmapNext]_roadmapVars => RoadmapInv'
<1> SUFFICES ASSUME RoadmapInv, [RoadmapNext]_roadmapVars PROVE RoadmapInv'
  OBVIOUS
<1> USE RoadmapAssumption
<1>1. ASSUME NEW c \in Learner, ReadItems(c) PROVE RoadmapInv'
  BY <1>1 DEF ReadItems, LearnerGoes, RoadmapInv, RoadmapTypeOK
<1>2. ASSUME NEW c \in Learner, LookUpRow(c) PROVE RoadmapInv'
  <2>1. UNCHANGED <<texts, steps, replies>>
    BY <1>2 DEF LookUpRow
  <2>2. CASE texts # Nothing /\ seen[c] # {}
    <3>1. /\ shown' = shown \cup {[texts |-> texts, steps |-> seen[c]]}
          /\ LearnerLeaves(c) /\ seen[c] = steps
      BY <1>2, <2>2 DEF LookUpRow, RoadmapInv
    <3>2. QED
      BY <2>1, <3>1, RoadmapLeft DEF RoadmapInv, RoadmapTypeOK
  <2>3. CASE ~(texts # Nothing /\ seen[c] # {})
    BY <1>2, <2>1, <2>3 DEF LookUpRow, LearnerGoes, RoadmapInv, RoadmapTypeOK
  <2>4. QED
    BY <2>2, <2>3
<1>3. ASSUME NEW c \in Learner, NEW items, DOMAIN items \subseteq 1 .. 2, AskForRoadmap(c, items)
      PROVE  RoadmapInv'
  BY <1>3 DEF AskForRoadmap, LearnerGoes, RoadmapInv, RoadmapTypeOK
<1>4. ASSUME NEW c \in Learner, LearnerLeaves(c), UNCHANGED <<texts, steps, replies, shown>>
      PROVE  RoadmapInv'
  BY <1>4, RoadmapLeft DEF RoadmapInv, RoadmapTypeOK
<1>5. ASSUME NEW c \in Learner, FinishRoadmap(c) PROVE RoadmapInv'
  <2>1. learner[c] = "store" /\ LearnerLeaves(c) /\ replies' = replies
    BY <1>5 DEF FinishRoadmap
  <2>2. CASE ShowOthers(c)
    BY <2>1, <2>2, RoadmapLeft DEF ShowOthers, RoadmapInv, RoadmapTypeOK
  <2>3. CASE RoadmapRolledBack(c)
    BY <1>4, <2>1, <2>3 DEF RoadmapRolledBack
  <2>4. CASE OwnRoadmap(c)
    <3>1. /\ steps = {} /\ texts' \in 1 .. MaxReplies
          /\ steps' \subseteq [from : {texts'}, rank : 1 .. 2, priority : Priorities]
      BY <2>1, <2>4, RoadmapStored
    <3>2. shown' = shown \cup {[texts |-> texts', steps |-> steps']}
      BY <2>4 DEF OwnRoadmap, StoreRoadmap
    <3>3. QED
      BY <2>1, <3>1, <3>2, RoadmapLeft DEF RoadmapInv, RoadmapTypeOK
  <2>5. QED
    BY <1>5, <2>2, <2>3, <2>4 DEF FinishRoadmap
<1>6. CASE UNCHANGED roadmapVars
  BY <1>6 DEF roadmapVars, RoadmapInv, RoadmapTypeOK
<1>7. ASSUME NEW c \in Learner, RoadmapFails(c) \/ LearnerDies(c) PROVE RoadmapInv'
  BY <1>4, <1>7 DEF RoadmapFails, LearnerDies
<1>8. \A items \in {<<>>, <<"high", "urgent">>, <<"low">>, <<"mid", "broken">>} : DOMAIN items \subseteq 1 .. 2
  OBVIOUS
<1>9. QED
  BY <1>1, <1>2, <1>3, <1>5, <1>6, <1>7, <1>8 DEF RoadmapNext

\* roadmap_service.py:137-160 - the items a session keeps stem from the reply its texts
\* are from, and whoever was shown items was shown these, for any number of requests.
THEOREM OneRoadmapCorrect == RoadmapSpec => []OneRoadmap
<1>1. RoadmapInv => OneRoadmap
  BY DEF RoadmapInv, OneRoadmap
<1>2. QED
  BY <1>1, RoadmapInitially, RoadmapStep, PTL DEF RoadmapSpec

-----------------------------------------------------------------------------
(* Social sign-in *)

\* Where a request may be.
SocialVisits == [at : {"idle", "fetch", "profile", "issue", "create", "delete", "signIn"}, new : BOOLEAN, code : 0 .. MaxLogins]

\* A code is open to one request at most once it is gone from the cache.
SocialInv ==
  /\ users \in Seq([by : {"social", "other"}, blocked : BOOLEAN])
  /\ linked = welcomed /\ welcomed \in 0 .. 1
  /\ linked > 0 => users # <<>> /\ \A i \in DOMAIN users : users[i].by = "social"
  /\ browser \in [Browser -> SocialVisits]
  /\ exchange \in [CodeId -> {"none", "cached", "gone"}]
  /\ opened \in [CodeId -> 0 .. 1]
  /\ \A b \in Browser : browser[b].at \in {"delete", "signIn"} => browser[b].code \in CodeId
  /\ \A b \in Browser : browser[b].at = "signIn" =>
        exchange[browser[b].code] = "gone" /\ opened[browser[b].code] = 0
  /\ \A b, d \in Browser : browser[b].at = "signIn" /\ browser[d].at = "signIn"
        /\ browser[b].code = browser[d].code => b = d
  /\ \A k \in CodeId : opened[k] > 0 => exchange[k] = "gone"

\* A request that does not go on to sign in leaves the codes as they are.
LEMMA SocialMoved ==
  ASSUME SocialInv, NEW b \in Browser, NEW visit \in SocialVisits, visit.at # "signIn",
         visit.at = "delete" => visit.code \in CodeId,
         browser' = [browser EXCEPT ![b] = visit],
         UNCHANGED <<users, linked, exchange, opened, welcomed>>
  PROVE  SocialInv'
  BY DEF SocialInv, SocialVisits

\* A request that has left is at no point of a handler.
LEMMA AwayVisits == Away \in SocialVisits /\ Away.at = "idle"
  BY SocialBoundAssumption DEF Away, SocialVisits

\* At first no code is issued and no account of the identity linked.
LEMMA SocialInitially == SocialInit => SocialInv
<1> SUFFICES ASSUME SocialInit PROVE SocialInv
  OBVIOUS
<1>1. users \in Seq([by : {"social", "other"}, blocked : BOOLEAN])
  <2> DEFINE User == [by : {"social", "other"}, blocked : BOOLEAN]
  <2>1. <<>> \in Seq(User) /\ \A u \in User : <<u>> \in Seq(User)
    OBVIOUS
  <2>2. \A blocked \in BOOLEAN : [by |-> "other", blocked |-> blocked] \in User
    OBVIOUS
  <2>3. \/ users = <<>> \/ users = <<[by |-> "other", blocked |-> FALSE]>>
        \/ users = <<[by |-> "other", blocked |-> TRUE]>>
    BY DEF SocialInit
  <2> HIDE DEF User
  <2>4. users \in Seq(User)
    BY <2>1, <2>2, <2>3
  <2>5. QED
    BY <2>4 DEF User
<1>2. /\ browser \in [Browser -> SocialVisits] /\ \A b \in Browser : browser[b].at = "idle"
  BY AwayVisits DEF SocialInit
<1>3. /\ exchange = [k \in CodeId |-> "none"] /\ opened = [k \in CodeId |-> 0]
      /\ linked = 0 /\ welcomed = 0
  BY DEF SocialInit
<1>4. QED
  BY <1>1, <1>2, <1>3 DEF SocialInv, SocialVisits

\* Every request and every expiry keeps the codes to one holder and the identity to its own user.
LEMMA SocialStep == SocialInv /\ [SocialNext]_socialVars => SocialInv'
<1> SUFFICES ASSUME SocialInv, [SocialNext]_socialVars PROVE SocialInv'
  OBVIOUS
<1> USE SocialBoundAssumption DEF CodeId
<1>1. ASSUME NEW b \in Browser, FindLinked(b) PROVE SocialInv'
  <2>1. PICK visit \in {Away, [at |-> "issue", new |-> FALSE, code |-> 0]} :
          browser' = [browser EXCEPT ![b] = visit]
    BY <1>1 DEF FindLinked, Leaves, Shows
  <2>2. visit \in SocialVisits /\ visit.at \in {"idle", "issue"}
    <3> DEFINE new == [at |-> "issue", new |-> FALSE, code |-> 0]
    <3>1. new \in SocialVisits /\ new.at = "issue"
      BY DEF SocialVisits
    <3>2. visit = Away \/ visit = new
      BY <2>1
    <3> HIDE DEF new
    <3>3. QED
      BY <3>1, <3>2, AwayVisits
  <2>3. QED
    BY <1>1, <2>1, <2>2, SocialMoved DEF FindLinked, allButBrowser
<1>2. ASSUME NEW b \in Browser, FindAddress(b) PROVE SocialInv'
  <2>1. PICK visit \in {Away, [at |-> "create", new |-> FALSE, code |-> 0]} :
          browser' = [browser EXCEPT ![b] = visit]
    BY <1>2 DEF FindAddress, Leaves, Shows
  <2>2. visit \in SocialVisits /\ visit.at \in {"idle", "create"}
    <3> DEFINE new == [at |-> "create", new |-> FALSE, code |-> 0]
    <3>1. new \in SocialVisits /\ new.at = "create"
      BY DEF SocialVisits
    <3>2. visit = Away \/ visit = new
      BY <2>1
    <3> HIDE DEF new
    <3>3. QED
      BY <3>1, <3>2, AwayVisits
  <2>3. QED
    BY <1>2, <2>1, <2>2, SocialMoved DEF FindAddress, allButBrowser
<1>3. ASSUME NEW b \in Browser, CreateSocialUser(b) PROVE SocialInv'
  <2>1. CASE AddressFree
    <3>1. linked = 0 /\ linked' = 1 /\ welcomed' = 1
      BY <1>3, <2>1 DEF CreateSocialUser, AddressFree, SocialInv
    <3>2. users' = <<[by |-> "social", blocked |-> FALSE]>>
      BY <1>3, <2>1 DEF CreateSocialUser
    <3>3. /\ users' \in Seq([by : {"social", "other"}, blocked : BOOLEAN]) /\ users' # <<>>
          /\ \A i \in DOMAIN users' : users'[i].by = "social"
      BY <3>2
    <3>4. Shows(b, "issue", TRUE, 0) /\ UNCHANGED <<exchange, opened>>
      BY <1>3, <2>1 DEF CreateSocialUser
    <3>5. QED
      BY <3>1, <3>3, <3>4 DEF Shows, SocialInv, SocialVisits
  <2>2. CASE ~AddressFree
    BY <1>3, <2>2, AwayVisits, SocialMoved DEF CreateSocialUser, Leaves
  <2>3. QED
    BY <2>1, <2>2
<1>4. ASSUME NEW b \in Browser, ConsumeCode(b) PROVE SocialInv'
  <2> DEFINE k == browser[b].code
  <2>1. k \in CodeId /\ exchange' = [exchange EXCEPT ![k] = "gone"]
    BY <1>4 DEF ConsumeCode, SocialInv
  <2>2. UNCHANGED <<users, linked, opened, welcomed>>
    BY <1>4 DEF ConsumeCode
  <2>3. CASE Deleted(k)
    <3>1. browser' = [browser EXCEPT ![b] = [at |-> "signIn", new |-> FALSE, code |-> k]]
      BY <1>4, <2>3 DEF ConsumeCode, Shows
    <3>2. /\ exchange[k] = "cached" /\ opened[k] = 0
          /\ \A d \in Browser : browser[d].at = "signIn" => browser[d].code # k
      <4>1. exchange[k] = "cached"
        BY <2>3 DEF Deleted
      <4> HIDE DEF k
      <4>2. QED
        BY <2>1, <4>1 DEF SocialInv
    <3>3. browser' \in [Browser -> SocialVisits]
      BY <2>1, <3>1 DEF SocialInv, SocialVisits
    <3>4. QED
      BY <2>1, <2>2, <3>1, <3>2, <3>3 DEF SocialInv
  <2>4. CASE ~Deleted(k)
    <3>1. browser' = [browser EXCEPT ![b] = Away]
      BY <1>4, <2>4 DEF ConsumeCode, Leaves
    <3>2. QED
      BY <2>1, <2>2, <3>1, AwayVisits DEF SocialInv
  <2>5. QED
    BY <2>3, <2>4
<1>5. ASSUME NEW b \in Browser, SignIn(b) PROVE SocialInv'
  BY <1>5, AwayVisits DEF SignIn, Leaves, SocialInv
<1>6. ASSUME NEW b \in Browser, NEW k \in CodeId, IssueExchangeCode(b, k) PROVE SocialInv'
  BY <1>6, AwayVisits DEF IssueExchangeCode, Cached, Leaves, SocialInv
<1>7. ASSUME NEW b \in Browser, NEW k \in CodeId, ReadCode(b, k) PROVE SocialInv'
  <2>1. [at |-> "delete", new |-> FALSE, code |-> k] \in SocialVisits
    BY DEF SocialVisits
  <2>2. QED
    BY <1>7, <2>1, SocialMoved DEF ReadCode, Shows, allButBrowser
<1>8. ASSUME SignUpElsewhere PROVE SocialInv'
  BY <1>8 DEF SignUpElsewhere, SocialInv
<1>9. ASSUME Block PROVE SocialInv'
  <2>1. /\ users' \in Seq([by : {"social", "other"}, blocked : BOOLEAN]) /\ users' # <<>>
        /\ DOMAIN users' = DOMAIN users /\ \A i \in DOMAIN users : users'[i].by = users[i].by
    <3>1. /\ users \in Seq([by : {"social", "other"}, blocked : BOOLEAN]) /\ users # <<>>
          /\ users' = [i \in DOMAIN users |-> [users[i] EXCEPT !.blocked = TRUE]]
      BY <1>9 DEF Block, SocialInv
    <3>2. /\ Len(users) \in Nat /\ DOMAIN users = 1 .. Len(users) /\ Len(users) # 0
          /\ \A i \in DOMAIN users : users[i] \in [by : {"social", "other"}, blocked : BOOLEAN]
      BY <3>1, EmptySeq, LenProperties, ElementOfSeq
    <3>3. \A i \in DOMAIN users : /\ users'[i] \in [by : {"social", "other"}, blocked : BOOLEAN]
                                  /\ users'[i].by = users[i].by
      BY <3>1, <3>2
    <3>4. users' \in [1 .. Len(users) -> [by : {"social", "other"}, blocked : BOOLEAN]]
      BY <3>1, <3>2, <3>3
    <3>5. users' \in Seq([by : {"social", "other"}, blocked : BOOLEAN])
      BY <3>2, <3>4, SeqDef
    <3>6. DOMAIN users' = DOMAIN users /\ users' # <<>>
      BY <3>1, <3>2
    <3>7. QED
      BY <3>3, <3>5, <3>6
  <2>2. UNCHANGED <<linked, browser, exchange, opened, welcomed>>
    BY <1>9 DEF Block
  <2>3. QED
    BY <2>1, <2>2 DEF SocialInv
<1>10. ASSUME AgreeToTerms PROVE SocialInv'
  BY <1>10 DEF AgreeToTerms, SocialInv
<1>11. ASSUME NEW k \in CodeId, CodeLapses(k) \/ EntryDropped(k) PROVE SocialInv'
  BY <1>11 DEF CodeLapses, EntryDropped, SocialInv
<1>12. CASE UNCHANGED socialVars
  BY <1>12 DEF socialVars, SocialInv
<1>13. ASSUME NEW b \in Browser, CallBack(b) PROVE SocialInv'
  <2>1. [at |-> "fetch", new |-> FALSE, code |-> 0] \in SocialVisits
    BY DEF SocialVisits
  <2>2. QED
    BY <1>13, <2>1, SocialMoved DEF CallBack, Shows, allButBrowser
<1>14. ASSUME NEW b \in Browser, NEW complete \in BOOLEAN, FetchProfile(b, complete) PROVE SocialInv'
  <2>1. [at |-> "profile", new |-> FALSE, code |-> 0] \in SocialVisits
    BY DEF SocialVisits
  <2>2. CASE complete
    BY <1>14, <2>1, <2>2, SocialMoved DEF FetchProfile, Shows, allButBrowser
  <2>3. CASE ~complete
    BY <1>14, <2>3, AwayVisits, SocialMoved DEF FetchProfile, Leaves, allButBrowser
  <2>4. QED
    BY <2>2, <2>3
<1>15. CASE StartSignIn \/ StateAges
  BY <1>15 DEF StartSignIn, StateAges, allButBrowser, SocialInv
<1>16. QED
  BY <1>1, <1>2, <1>3, <1>4, <1>5, <1>6, <1>7, <1>8, <1>9, <1>10, <1>11, <1>12, <1>13, <1>14, <1>15
     DEF SocialNext

\* services/oauth.py:275 and :367 - a code signs in once, one user is created and linked,
\* and never an account that somebody else made, for any number of requests and codes.
THEOREM SignInOnceCorrect == SocialSpec => []SignInOnce
<1>1. SocialInv => SignInOnce
  BY DEF SocialInv, SignInOnce
<1>2. QED
  BY <1>1, SocialInitially, SocialStep, PTL DEF SocialSpec

-----------------------------------------------------------------------------
(* Life of an account *)

MemberRow ==
  [status : MemberStatus, enabled : BOOLEAN, verified : BOOLEAN, password : Nat,
   mail : {"own", "anonymous"}, idle : 0 .. 2, warned : BOOLEAN, since : {"none", "recent", "over"}]

Stages == {"idle", "stamp", "stampTerms", "save", "saveTerms", "issue", "reset", "invite"}
Held == [at : Stages, dormant : BOOLEAN, warned : BOOLEAN, password : Nat]

\* What a handler holds of the row is a status and a warning, never whether the account
\* is enabled; and the clean-up holds only accounts whose withdrawal is dated.
AccountInv ==
  /\ member \in MemberRow
  /\ client \in [Client -> Held]
  /\ cleanup \in {"idle", "save"}
  /\ cleanup = "save" => member.since # "none"
  /\ member.since # "none" => ~member.enabled
  /\ member.mail = "anonymous" => member.since # "none"

\* What a step may do to the row of an account: the date of a withdrawal stays, nobody
\* becomes enabled, and only the clean-up anonymizes.
Harmless ==
  /\ member' \in MemberRow
  /\ member.since # "none" => member'.since # "none"
  /\ member'.since # "none" => ~member'.enabled
  /\ member'.mail = "anonymous" => member.mail = "anonymous" \/ cleanup = "save"

\* No step enables an account again, removes the date of a withdrawal, or anonymizes one without it.
LEMMA HarmlessSteps ==
  ASSUME AccountInv, Harmless, cleanup' \in {"idle", "save"},
         cleanup' = "save" => cleanup = "save" \/ member.since # "none",
         client' \in [Client -> Held]
  PROVE  AccountInv'
  BY DEF AccountInv, Harmless

\* Requests read the row as it is, go on, or end.
LEMMA ClientSteps ==
  ASSUME AccountInv, NEW c \in Client, NEW at \in Stages,
         Reads(c, at) \/ Moves(c, at) \/ Finishes(c)
  PROVE  client' \in [Client -> Held]
<1>1. AtRest \in Held
  BY DEF AtRest, Held, Stages
<1>2. client[c] \in Held /\ client \in [Client -> Held]
  BY DEF AccountInv
<1>3. HasRead(at) \in Held
  BY DEF AccountInv, MemberRow, HasRead, Held
<1>4. [client[c] EXCEPT !.at = at] \in Held
  BY <1>2 DEF Held
<1>5. client' \in {[client EXCEPT ![c] = h] : h \in Held}
  BY <1>1, <1>2, <1>3, <1>4 DEF Reads, Moves, Finishes
<1>6. QED
  BY <1>2, <1>5

\* The account begins enabled, verified and without a date.
LEMMA AccountInitially == AccountInit => AccountInv
  BY DEF AccountInit, AccountInv, NewMember, AtRest, MemberStatus, MemberRow, Held, Stages

\* The clean-up that has read an account whose withdrawal is over still finds it so.
LEMMA AccountStep == AccountInv /\ [AccountNext]_accountVars => AccountInv'
<1> SUFFICES ASSUME AccountInv, [AccountNext]_accountVars PROVE AccountInv'
  OBVIOUS
<1>1. ASSUME UNCHANGED member PROVE Harmless
  BY <1>1 DEF Harmless, AccountInv, MemberRow
<1>2. ASSUME NEW c \in Client,
             Login(c) \/ SocialLogin(c) \/ AcceptTerms(c) \/ IssueTokens(c) \/ CheckReset(c) \/ Invite(c)
      PROVE  AccountInv'
  <2>1. UNCHANGED <<member, cleanup>>
    BY <1>2 DEF Login, SocialLogin, AcceptTerms, IssueTokens, CheckReset, Invite, jobVars
  <2>2. \E at \in Stages : Reads(c, at) \/ Moves(c, at) \/ Finishes(c)
    BY <1>2 DEF Login, SocialLogin, AcceptTerms, IssueTokens, CheckReset, Invite, Stages
  <2>3. cleanup' \in {"idle", "save"} /\ (cleanup' = "save" => cleanup = "save")
    BY <2>1 DEF AccountInv
  <2>4. QED
    BY <1>1, <2>1, <2>2, <2>3, ClientSteps, HarmlessSteps
<1>3. ASSUME NEW c \in Client, Stamp(c) PROVE AccountInv'
  <2>1. member' = [member EXCEPT !.idle = 0] /\ cleanup' = cleanup
    BY <1>3 DEF Stamp, jobVars
  <2>2. Harmless
    BY <2>1 DEF Harmless, AccountInv, MemberRow
  <2>3. \E at \in Stages : Moves(c, at)
    BY <1>3 DEF Stamp, Stages
  <2>4. QED
    BY <2>1, <2>2, <2>3, ClientSteps, HarmlessSteps DEF AccountInv
<1>4. ASSUME NEW c \in Client, SaveLogin(c) PROVE AccountInv'
  <2>1. member' = Saved(c) /\ cleanup' = cleanup
    BY <1>4 DEF SaveLogin, jobVars
  <2>2. Harmless
    BY <2>1 DEF Saved, Harmless, AccountInv, MemberRow, MemberStatus
  <2>3. \E at \in Stages : Moves(c, at) \/ Finishes(c)
    BY <1>4 DEF SaveLogin, Stages
  <2>4. QED
    BY <2>1, <2>2, <2>3, ClientSteps, HarmlessSteps DEF AccountInv
<1>5. ASSUME NEW c \in Client, SavePassword(c) PROVE AccountInv'
  <2>1. /\ member' = [member EXCEPT !.password = NextPassword(c)] /\ cleanup' = cleanup
        /\ Finishes(c) /\ "idle" \in Stages
    BY <1>5 DEF SavePassword, jobVars, Stages
  <2>2. NextPassword(c) \in Nat
    BY DEF NextPassword, AccountInv, MemberRow, Held
  <2>3. Harmless
    BY <2>1, <2>2 DEF Harmless, AccountInv, MemberRow
  <2>4. QED
    BY <2>1, <2>3, ClientSteps, HarmlessSteps DEF AccountInv
<1>6. ASSUME NEW c \in Client, Reactivate(c) PROVE AccountInv'
  <2>1. /\ member' = [member EXCEPT !.status = "active", !.verified = FALSE] /\ cleanup' = cleanup
        /\ Finishes(c) /\ "idle" \in Stages
    BY <1>6 DEF Reactivate, jobVars, Stages
  <2>2. Harmless
    BY <2>1 DEF Harmless, AccountInv, MemberRow, MemberStatus
  <2>3. QED
    BY <2>1, <2>2, ClientSteps, HarmlessSteps DEF AccountInv
<1>7. ASSUME RequestReset PROVE AccountInv'
  BY <1>7 DEF RequestReset, jobVars, AccountInv
<1>8. ASSUME Withdraw PROVE AccountInv'
  BY <1>8 DEF Withdraw, jobVars, AccountInv, MemberRow, MemberStatus
<1>9. ASSUME ConfirmAddress PROVE AccountInv'
  BY <1>9 DEF ConfirmAddress, jobVars, AccountInv, MemberRow
<1>10. ASSUME TimePasses PROVE AccountInv'
  <2>1. /\ member' = [member EXCEPT !.idle = IF @ < 2 THEN @ + 1 ELSE @,
                                   !.since = IF @ = "recent" THEN "over" ELSE @]
        /\ UNCHANGED <<client, cleanup>>
    BY <1>10 DEF TimePasses, jobVars
  <2>2. member.idle \in 0 .. 2 /\ (IF member.idle < 2 THEN member.idle + 1 ELSE member.idle) \in 0 .. 2
    BY DEF AccountInv, MemberRow
  <2>3. QED
    BY <2>1, <2>2 DEF AccountInv, MemberRow
<1>11. ASSUME NEW s \in MemberStatus, ChangeStatus(s) PROVE AccountInv'
  BY <1>11 DEF ChangeStatus, jobVars, AccountInv, MemberRow
<1>12. ASSUME ReadActive PROVE AccountInv'
  BY <1>12 DEF ReadActive, AccountInv
<1>13. ASSUME MarkDormant PROVE AccountInv'
  BY <1>13 DEF MarkDormant, AccountInv, MemberRow, MemberStatus
<1>14. ASSUME NEW mailed \in BOOLEAN, Warn(mailed) PROVE AccountInv'
  BY <1>14 DEF Warn, AccountInv, MemberRow
<1>15. ASSUME ReadExpired PROVE AccountInv'
  BY <1>15 DEF ReadExpired, Expired, AccountInv
<1>16. ASSUME Anonymize PROVE AccountInv'
  BY <1>16 DEF Anonymize, Anonymized, AccountInv, MemberRow
<1>17. CASE UNCHANGED accountVars
  BY <1>17 DEF accountVars, jobVars, AccountInv
<1>18. QED
  BY <1>2, <1>3, <1>4, <1>5, <1>6, <1>7, <1>8, <1>9, <1>10, <1>11, <1>12, <1>13, <1>14, <1>15,
     <1>16, <1>17 DEF AccountNext

\* accounts/tasks.py:97, login.py:25 and member_service.py:11 - a dated withdrawal leaves no
\* way in again, and only such an account is anonymized, for any number of requests.
THEOREM EndedForGoodCorrect == AccountSpec => []EndedForGood
<1>1. AccountInv => EndedForGood
  BY DEF AccountInv, EndedForGood
<1>2. QED
  BY <1>1, AccountInitially, AccountStep, PTL DEF AccountSpec

-----------------------------------------------------------------------------
(* A spoken answer *)

\* The measures of one word: how long it is spoken, and the pause that counts behind it.
Speaks(words, i) == AtLeast(0, words[i].end - words[i].start)
PausesFor(words, i) == IF i \in Pauses(words) THEN Gap(words, i) ELSE 0

\* Speech and pauses of words in sequence lie behind each other, so they fit into the time
\* the words took.
LEMMA MeasuresFit ==
  ASSUME NEW words \in Seq(TimedWord), words # <<>>, InSequence(words)
  PROVE  Stats(words).speech + Stats(words).paused <= words[Len(words)].end - Stats(words).first
<1> DEFINE N == Len(words)
<1> DEFINE said == [ i \in DOMAIN words |-> Speaks(words, i) ]
<1> DEFINE still == [ i \in DOMAIN words |-> PausesFor(words, i) ]
<1>1. N \in Nat /\ N >= 1 /\ DOMAIN words = 1 .. N /\ N - 1 \in Nat
  <2>1. N \in Nat /\ DOMAIN words = 1 .. N
    OBVIOUS
  <2>2. N # 0
    BY EmptySeq
  <2>3. QED
    BY <2>1, <2>2
<1>2. \A i \in 1 .. N : words[i].start \in Int /\ words[i].end \in Int
  <2>1. \A i \in 1 .. N : words[i] \in TimedWord
    BY <1>1
  <2>2. QED
    BY <2>1 DEF TimedWord
<1>3. /\ \A i \in 1 .. N : words[i].start <= words[i].end
      /\ \A i \in 1 .. N - 1 : words[i].end <= words[i + 1].start
  BY <1>1 DEF InSequence
<1>4. \A i \in 1 .. N : Speaks(words, i) = words[i].end - words[i].start
  BY <1>2, <1>3 DEF Speaks, AtLeast
<1>5. ASSUME NEW i \in 1 .. N
      PROVE  /\ PausesFor(words, i) \in Int
             /\ i < N => PausesFor(words, i) <= words[i + 1].start - words[i].end
             /\ i = N => PausesFor(words, i) = 0
  <2>1. CASE i = N
    BY <1>1, <2>1 DEF PausesFor, Pauses, Gap
  <2>2. CASE i < N
    <3>0. i # Len(words)
      <4>1. PICK n : n = Len(words)
        OBVIOUS
      <4>2. n \in Nat /\ i \in Nat /\ i < n
        BY <1>1, <2>2, <4>1
      <4>3. i # n
        BY <4>2
      <4>4. QED
        BY <4>1, <4>3
    <3>1. i \in 1 .. N - 1 /\ i + 1 \in 1 .. N
      BY <1>1, <2>2
    <3>2. Gap(words, i) = AtLeast(0, words[i + 1].start - words[i].end)
      BY ONLY <3>0 DEF Gap
    <3>3. /\ words[i + 1].start \in Int /\ words[i].end \in Int
          /\ words[i].end <= words[i + 1].start
      BY <1>2, <1>3, <3>1
    <3>4. Gap(words, i) = words[i + 1].start - words[i].end
      BY <3>2, <3>3 DEF AtLeast
    <3>5. PausesFor(words, i) \in {0, Gap(words, i)}
      BY DEF PausesFor
    <3>6. PICK p : p = PausesFor(words, i)
      OBVIOUS
    <3>7. PICK d : d = Gap(words, i)
      OBVIOUS
    <3>8. p \in {0, d} /\ d = words[i + 1].start - words[i].end
      BY <3>4, <3>5, <3>6, <3>7
    <3>9. p \in Int /\ p <= words[i + 1].start - words[i].end
      BY <3>3, <3>8
    <3>10. QED
      BY <3>0, <3>6, <3>9
  <2>3. i = N \/ i < N
    <3>1. PICK n \in Nat : n = N
      BY <1>1
    <3>2. i \in 1 .. n
      BY <3>1
    <3>3. i = n \/ i < n
      BY <3>2
    <3>4. QED
      BY <3>1, <3>3
  <2>4. QED
    BY <2>1, <2>2, <2>3
<1>6. \A i \in 1 .. N : Speaks(words, i) \in Int
  BY <1>2, <1>4
<1>7. /\ said \in Seq(Int) /\ Len(said) = N /\ \A i \in 1 .. N : said[i] = words[i].end - words[i].start
      /\ still \in Seq(Int) /\ Len(still) = N /\ \A i \in 1 .. N : still[i] = PausesFor(words, i)
  <2>1. said = [ i \in 1 .. N |-> Speaks(words, i) ] /\ still = [ i \in 1 .. N |-> PausesFor(words, i) ]
    BY <1>1
  <2>2. \A i \in 1 .. N : PausesFor(words, i) \in Int
    BY <1>5
  <2> HIDE DEF said, still
  <2>3. said \in Seq(Int) /\ Len(said) = N /\ \A i \in 1 .. N : said[i] = Speaks(words, i)
    BY <1>1, <1>6, <2>1
  <2>4. still \in Seq(Int) /\ Len(still) = N /\ \A i \in 1 .. N : still[i] = PausesFor(words, i)
    BY <1>1, <2>1, <2>2
  <2>5. QED
    BY <1>4, <2>3, <2>4
<1>8. /\ Stats(words).speech = Total(said) /\ Stats(words).paused = Total(still)
      /\ Stats(words).first = words[1].start
  BY DEF Stats, Speaks, PausesFor
<1> HIDE DEF said, still
<1>9. PICK f \in [0 .. N -> Int] :
        f[0] = 0 /\ (\A n \in 1 .. N : f[n] = f[n - 1] + said[n]) /\ Total(said) = f[N]
  BY <1>7, TotalAdds
<1>10. PICK g \in [0 .. N -> Int] :
         g[0] = 0 /\ (\A n \in 1 .. N : g[n] = g[n - 1] + still[n]) /\ Total(still) = g[N]
  BY <1>7, TotalAdds
<1> DEFINE S == { n \in 0 .. N - 1 : f[n] + g[n] <= words[n + 1].start - words[1].start }
<1>11. 0 \in S
  BY <1>1, <1>2, <1>9, <1>10
<1>12. ASSUME NEW n \in 1 .. N - 1, n - 1 \in S PROVE n \in S
  <2>1. n \in 1 .. N /\ n + 1 \in 1 .. N /\ n < N /\ n - 1 \in 0 .. N /\ n \in 0 .. N - 1
    BY <1>1
  <2>2. f[n] = f[n - 1] + (words[n].end - words[n].start) /\ f[n - 1] \in Int
    BY <1>7, <1>9, <2>1
  <2>3. g[n] = g[n - 1] + PausesFor(words, n) /\ g[n - 1] \in Int
    BY <1>7, <1>10, <2>1
  <2>4. PausesFor(words, n) \in Int /\ PausesFor(words, n) <= words[n + 1].start - words[n].end
    BY <1>5, <2>1
  <2>5. f[n - 1] + g[n - 1] <= words[(n - 1) + 1].start - words[1].start
    BY <1>12
  <2>6. (n - 1) + 1 = n /\ 1 \in 1 .. N
    BY <2>1, <1>1
  <2>7. f[n] + g[n] <= words[n + 1].start - words[1].start
    <3>1. PICK from \in Int, to \in Int, next \in Int, first \in Int :
            from = words[n].start /\ to = words[n].end /\ next = words[n + 1].start /\ first = words[1].start
      BY <1>2, <2>1, <2>6
    <3>2. PICK spoke \in Int, paused \in Int, pauses \in Int :
            spoke = f[n - 1] /\ paused = g[n - 1] /\ pauses = PausesFor(words, n)
      BY <2>2, <2>3, <2>4
    <3>3. spoke + paused <= from - first
      BY <2>5, <2>6, <3>1, <3>2
    <3>4. pauses <= next - to
      BY <2>4, <3>1, <3>2
    <3>5. f[n] = spoke + (to - from) /\ g[n] = paused + pauses
      BY <2>2, <2>3, <3>1, <3>2
    <3>6. (spoke + (to - from)) + (paused + pauses) <= next - first
      BY <3>3, <3>4
    <3>7. f[n] + g[n] <= next - first
      BY <3>5, <3>6
    <3>8. QED
      BY <3>1, <3>7
  <2>8. QED
    BY <2>1, <2>7
<1>13. N - 1 \in S
  <2> HIDE DEF S
  <2>1. N - 1 \in 0 .. N - 1
    BY <1>1
  <2>2. QED
    BY <1>1, <1>11, <1>12, <2>1, StepByStep
<1>14. f[N - 1] + g[N - 1] <= words[N].start - words[1].start
  <2>1. (N - 1) + 1 = N
    BY <1>1
  <2>2. QED
    BY <1>13, <2>1
<1>15. f[N] = f[N - 1] + (words[N].end - words[N].start) /\ g[N] = g[N - 1] + 0
  <2>1. N \in 1 .. N
    BY <1>1
  <2>2. PausesFor(words, N) = 0
    BY <1>5, <2>1
  <2>3. QED
    BY <1>7, <1>9, <1>10, <2>1, <2>2
<1>16. QED
  <2>1. N \in 1 .. N /\ 1 \in 1 .. N /\ N - 1 \in 0 .. N
    BY <1>1
  <2>2. f[N - 1] \in Int /\ g[N - 1] \in Int
    BY <2>1
  <2>3. QED
    BY <1>2, <1>8, <1>9, <1>10, <1>14, <1>15, <2>1, <2>2

\* An answer passes the checks of the route that writes it.
Sound(a) ==
  /\ ~Blocked(a.text)
  /\ Reasons(a.text, a.speech) \subseteq IF a.checked THEN {} ELSE {"short", "few words"}

\* What is about to be stored; the nested route brings no duration.
Ready(route, row) ==
  /\ Sound(row)
  /\ route = "save" =>
       \E q, text : row = [question |-> q, text |-> text, speech |-> -1, checked |-> FALSE]

\* A transcript is measured by its own words and was answerable when it was handed out; a
\* text that was refused as too short is so without its duration; what is about to be stored
\* has been checked, and rows are sound and of different questions.
SpeechInv ==
  /\ DOMAIN speaker = Speaker /\ DOMAIN ownFile = Speaker /\ DOMAIN sending = Speaker
  /\ \A c \in Speaker : recording[c] \in Recordings
  /\ \A f \in tempFiles :
       f \in abandoned \/ \E c \in Speaker : ownFile[c] = f /\ speaker[c] \in {"write", "call"}
  /\ \A t \in heard : /\ t.timed \in Seq(TimedWord) /\ t.timed # <<>> /\ t.stats = Stats(t.timed)
                      /\ Answerable(t.text, t.stats.speech)
  /\ \A text \in refused : ~Answerable(text, -1)
  /\ \A c \in Speaker : speaker[c] \in {"post", "patch", "save"} => Ready(speaker[c], sending[c])
  /\ \A a \in answers : Sound(a)
  /\ \A a, b \in answers : a.question = b.question => a = b

\* A text without its duration, or with that of another, is as good.
LEMMA StillAnswerable ==
  /\ \A text, n : Answerable(text, n) => Answerable(text, -1)
  /\ \A text, one, m, n : Answerable(text, m) /\ "short speech" \notin Reasons(one, n) => Answerable(text, n)
BY DEF Answerable, Reasons

\* A text that is not empty, and not spoken too fast when it comes with a duration, may only
\* be too short.
LEMMA OnlyShort ==
  /\ \A text : text.words # 0 => Reasons(text, -1) \subseteq {"short", "few words"}
  /\ \A text, one, n : /\ Reasons(text, -1) \subseteq {"short", "few words"}
                        /\ "short speech" \notin Reasons(one, n)
                        => Reasons(text, n) \subseteq {"short", "few words"}
BY DEF Reasons

LEMMA SpeechInitially == SpeechInit => SpeechInv
BY DEF SpeechInit, SpeechInv

\* A request that starts or goes on keeps its file, or gets one of its own.
LEMMA FileStep ==
  ASSUME SpeechInv, NEW c \in Speaker, OpenFile(c) \/ WriteFile(c) \/ LeaveFile(c)
  PROVE  SpeechInv'
<1>1. UNCHANGED <<recording, heard, answerVars>>
  BY DEF OpenFile, WriteFile, LeaveFile, fileVars
<1>2. DOMAIN speaker' = Speaker /\ DOMAIN ownFile' = Speaker
  BY DEF SpeechInv, OpenFile, WriteFile, LeaveFile, SpeakerGoes, fileVars
<1>3. ASSUME NEW f \in tempFiles'
      PROVE  f \in abandoned' \/ \E d \in Speaker : ownFile'[d] = f /\ speaker'[d] \in {"write", "call"}
  <2>1. CASE OpenFile(c)
    <3>1. CASE f = filesMade + 1
      BY <2>1, <3>1 DEF OpenFile, SpeechInv, SpeakerGoes
    <3>2. CASE f \in tempFiles
      BY <2>1, <3>2 DEF OpenFile, SpeechInv, SpeakerGoes
    <3>3. QED
      BY <1>3, <2>1, <3>1, <3>2 DEF OpenFile
  <2>2. CASE WriteFile(c)
    BY <1>3, <2>2 DEF WriteFile, SpeechInv, SpeakerGoes, fileVars
  <2>3. CASE LeaveFile(c)
    BY <1>3, <2>3 DEF LeaveFile, SpeechInv, SpeakerGoes
  <2>4. QED
    BY <2>1, <2>2, <2>3
<1>4. \A d \in Speaker : speaker'[d] \in {"post", "patch", "save"} => Ready(speaker'[d], sending[d])
  BY DEF SpeechInv, OpenFile, WriteFile, LeaveFile, SpeakerGoes
<1>5. QED
  BY <1>1, <1>2, <1>3, <1>4 DEF SpeechInv, answerVars

\* A request that ends removes its file.
LEMMA EndStep ==
  ASSUME SpeechInv, NEW c \in Speaker, NotTranscribed(c) \/ Transcribe(c)
  PROVE  SpeechInv'
<1>1. /\ tempFiles' = tempFiles \ {ownFile[c]} /\ UNCHANGED <<recording, ownFile, abandoned, answerVars>>
      /\ speaker' = [speaker EXCEPT ![c] = "idle"]
  BY DEF NotTranscribed, Transcribe, Removed, SpeakerGoes
<1>2. DOMAIN speaker' = Speaker /\ DOMAIN ownFile' = Speaker
  BY <1>1 DEF SpeechInv
<1>3. \A f \in tempFiles' : f \in abandoned' \/ \E d \in Speaker : ownFile'[d] = f /\ speaker'[d] \in {"write", "call"}
  BY <1>1 DEF SpeechInv
<1>4. ASSUME NEW t \in heard'
      PROVE  /\ t.timed \in Seq(TimedWord) /\ t.timed # <<>> /\ t.stats = Stats(t.timed)
             /\ Answerable(t.text, t.stats.speech)
  <2>1. CASE t \in heard
    BY <2>1 DEF SpeechInv
  <2>2. CASE t \notin heard
    <3> DEFINE r == recording[c].heard
    <3>1. Transcribe(c)
      BY <1>4, <2>2 DEF NotTranscribed
    <3>2. t = [text |-> r.text, timed |-> r.timed, stats |-> Stats(r.timed)]
      BY <1>4, <2>2, <3>1 DEF Transcribe
    <3>3. r.timed # <<>> /\ Answerable(r.text, Stats(r.timed).speech)
      BY <3>1 DEF Transcribe
    <3>4. recording[c] \in Recordings
      BY DEF SpeechInv
    <3>5. r.timed \in Seq(TimedWord)
      BY <3>4, RecordingsAssumption
    <3> HIDE DEF r
    <3>6. QED
      BY <3>2, <3>3, <3>5
  <2>3. QED
    BY <2>1, <2>2
<1>5. \A d \in Speaker : speaker'[d] \in {"post", "patch", "save"} => Ready(speaker'[d], sending[d])
  BY <1>1 DEF SpeechInv
<1>6. QED
  BY <1>1, <1>2, <1>3, <1>4, <1>5 DEF SpeechInv, answerVars

\* A request that is let through has an answer that passes both checks.
LEMMA CheckStep ==
  ASSUME SpeechInv, NEW c \in Speaker, NEW route \in {"post", "patch"}, NEW row, NEW speech, NEW objection,
         Check(c, route, row, speech, objection),
         Answerable(row.text, speech) /\ ~objection => Sound(row)
  PROVE  SpeechInv'
<1>1. speaker[c] = "idle" /\ UNCHANGED <<recording, tempFiles, ownFile, abandoned, heard, answers>>
  BY DEF Check, fileVars
<1>2. \/ /\ Ready(route, row) /\ speaker' = [speaker EXCEPT ![c] = route] /\ sending' = [sending EXCEPT ![c] = row]
      \/ UNCHANGED <<speaker, sending>>
  BY DEF Check, SpeakerGoes, Ready
<1>3. \A text \in refused' : ~Answerable(text, -1)
  <2>1. CASE Answerable(row.text, speech)
    BY <2>1 DEF Check, SpeechInv
  <2>2. CASE ~Answerable(row.text, speech)
    <3>1. refused' = refused \cup {row.text}
      BY <2>2 DEF Check
    <3>2. Sendable(row.text, speech)
      BY DEF Check
    <3>3. speech = -1
      <4>1. ASSUME NEW t \in heard, row.text = t.text, speech = t.stats.speech PROVE FALSE
        BY <2>2, <4>1 DEF SpeechInv
      <4>2. QED
        BY <3>2, <4>1 DEF Sendable
    <3>4. QED
      BY <2>2, <3>1, <3>3 DEF SpeechInv
  <2>3. QED
    BY <2>1, <2>2
<1>4. DOMAIN speaker' = Speaker /\ DOMAIN sending' = Speaker
  BY <1>2 DEF SpeechInv
<1>5. \A f \in tempFiles : f \in abandoned \/ \E d \in Speaker : ownFile[d] = f /\ speaker'[d] \in {"write", "call"}
  <2>1. \A d \in Speaker : speaker[d] \in {"write", "call"} => speaker'[d] = speaker[d]
    BY <1>1, <1>2 DEF SpeechInv
  <2>2. QED
    BY <2>1 DEF SpeechInv
<1>6. \A d \in Speaker : speaker'[d] \in {"post", "patch", "save"} => Ready(speaker'[d], sending'[d])
  BY <1>2 DEF SpeechInv
<1>7. QED
  BY <1>1, <1>3, <1>4, <1>5, <1>6 DEF SpeechInv

\* Both routes let through only what passes both checks: a duration that a PATCH leaves as it
\* was is that of an answer that passed them.
LEMMA RouteStep ==
  ASSUME SpeechInv, NEW c \in Speaker, NEW text, NEW speech,
         \/ \E q \in Asked : PostAnswer(c, q, text, speech)
         \/ \E a \in answers : PatchAnswer(c, a, text, speech)
  PROVE  SpeechInv'
<1>1. ASSUME NEW q \in Asked, PostAnswer(c, q, text, speech) PROVE SpeechInv'
  <2> DEFINE row == [question |-> q, text |-> text, speech |-> speech, checked |-> TRUE]
  <2>1. Check(c, "post", row, speech, ~Unanswered(q) \/ Blocked(text))
    BY <1>1 DEF PostAnswer
  <2>2. Answerable(row.text, speech) /\ ~(~Unanswered(q) \/ Blocked(text)) => Sound(row)
    BY DEF Sound, Answerable
  <2> HIDE DEF row
  <2>3. QED
    BY <2>1, <2>2, CheckStep
<1>2. ASSUME NEW a \in answers, PatchAnswer(c, a, text, speech) PROVE SpeechInv'
  <2> DEFINE row == [question |-> a.question, text |-> text, speech |-> IF speech = -1 THEN a.speech ELSE speech,
                     checked |-> TRUE]
  <2>1. Check(c, "patch", row, speech, Blocked(text))
    BY <1>2 DEF PatchAnswer
  <2>2. Answerable(row.text, speech) /\ ~Blocked(text) => Sound(row)
    <3>1. "short speech" \notin Reasons(a.text, a.speech)
      BY DEF SpeechInv, Sound
    <3>2. Answerable(text, speech) => Answerable(text, row.speech)
      BY <3>1, StillAnswerable
    <3>3. QED
      BY <3>2 DEF Sound, Answerable
  <2> HIDE DEF row
  <2>3. QED
    BY <2>1, <2>2, CheckStep
<1>3. QED
  BY <1>1, <1>2

\* The nested route lets short texts through.
LEMMA SaveStep ==
  ASSUME SpeechInv, NEW c \in Speaker, NEW q, NEW text, SaveAnswer(c, q, text)
  PROVE  SpeechInv'
<1> DEFINE row == [question |-> q, text |-> text, speech |-> -1, checked |-> FALSE]
<1>1. /\ speaker[c] = "idle" /\ speaker' = [speaker EXCEPT ![c] = "save"] /\ sending' = [sending EXCEPT ![c] = row]
      /\ UNCHANGED <<recording, tempFiles, ownFile, abandoned, heard, answers, refused>>
  BY DEF SaveAnswer, SpeakerGoes, fileVars
<1>2. Ready("save", row)
  BY OnlyShort DEF SaveAnswer, Sound, Ready
<1> HIDE DEF row
<1>3. DOMAIN speaker' = Speaker /\ DOMAIN sending' = Speaker
  BY <1>1 DEF SpeechInv
<1>4. \A f \in tempFiles : f \in abandoned \/ \E d \in Speaker : ownFile[d] = f /\ speaker'[d] \in {"write", "call"}
  BY <1>1 DEF SpeechInv
<1>5. \A d \in Speaker : speaker'[d] \in {"post", "patch", "save"} => Ready(speaker'[d], sending'[d])
  BY <1>1, <1>2 DEF SpeechInv
<1>6. QED
  BY <1>1, <1>3, <1>4, <1>5 DEF SpeechInv

\* What is stored has been checked, and takes no question that has an answer, or replaces it.
LEMMA StoreStep ==
  ASSUME SpeechInv, NEW c \in Speaker, StorePosted(c) \/ StorePatched(c) \/ StoreSaved(c) \/ NotStored(c)
  PROVE  SpeechInv'
<1>1. speaker[c] \in {"post", "patch", "save"} /\ Ready(speaker[c], sending[c])
  BY DEF SpeechInv, StorePosted, StorePatched, StoreSaved, NotStored
<1>2. /\ UNCHANGED <<recording, tempFiles, ownFile, abandoned, heard, refused>>
      /\ speaker' = [speaker EXCEPT ![c] = "idle"] /\ sending' = [sending EXCEPT ![c] = {}]
  BY DEF StorePosted, StorePatched, StoreSaved, NotStored, Stored, SpeakerGoes, fileVars
<1>3. PICK row : row = sending[c]
  OBVIOUS
<1>12. Sound(row)
  BY <1>1, <1>3 DEF Ready
<1> DEFINE Now(a) == IF a.question = row.question THEN [row EXCEPT !.speech = a.speech] ELSE a
<1>4. \/ answers' = answers
      \/ Unanswered(row.question) /\ answers' = answers \cup {row}
      \/ answers' = { a \in answers : a.question # row.question } \cup {row}
      \/ speaker[c] = "save" /\ answers' = { Now(a) : a \in answers }
  BY <1>3 DEF StorePosted, StorePatched, StoreSaved, NotStored, Stored, Vacant
<1>11. ASSUME speaker[c] = "save", NEW a \in answers PROVE Sound(Now(a)) /\ Now(a).question = a.question
  <2>1. Sound(a)
    BY DEF SpeechInv
  <2>2. CASE a.question = row.question
    <3>1. PICK q, text : row = [question |-> q, text |-> text, speech |-> -1, checked |-> FALSE]
      BY <1>1, <1>3, <1>11 DEF Ready
    <3>2. Now(a) = [question |-> q, text |-> text, speech |-> a.speech, checked |-> FALSE]
      BY <2>2, <3>1
    <3>3. ~Blocked(text) /\ Reasons(text, -1) \subseteq {"short", "few words"}
      BY <1>12, <3>1 DEF Sound
    <3>4. "short speech" \notin Reasons(a.text, a.speech)
      BY <2>1 DEF Sound
    <3>5. Reasons(text, a.speech) \subseteq {"short", "few words"}
      BY <3>3, <3>4, OnlyShort
    <3>6. Now(a).question = a.question
      BY <2>2, <3>1, <3>2
    <3>7. Now(a).text = text /\ Now(a).speech = a.speech /\ Now(a).checked = FALSE
      BY <3>2
    <3> HIDE DEF Now
    <3>8. Sound(Now(a))
      BY <3>3, <3>5, <3>7 DEF Sound
    <3>9. QED
      BY <3>6, <3>8
  <2>3. QED
    BY <2>1, <2>2
<1> HIDE DEF Now
<1>5. \A a \in answers' : Sound(a)
  BY <1>4, <1>11, <1>12 DEF SpeechInv
<1>6. \A a, b \in answers' : a.question = b.question => a = b
  BY <1>4, <1>11 DEF SpeechInv, Unanswered
<1>7. DOMAIN speaker' = Speaker /\ DOMAIN sending' = Speaker
  BY <1>2 DEF SpeechInv
<1>8. \A f \in tempFiles : f \in abandoned \/ \E d \in Speaker : ownFile[d] = f /\ speaker'[d] \in {"write", "call"}
  <2>1. \A d \in Speaker : speaker[d] \in {"write", "call"} => speaker'[d] = speaker[d]
    BY <1>1, <1>2 DEF SpeechInv
  <2>2. QED
    BY <2>1 DEF SpeechInv
<1>9. \A d \in Speaker : speaker'[d] \in {"post", "patch", "save"} => Ready(speaker'[d], sending'[d])
  BY <1>2 DEF SpeechInv
<1>10. QED
  BY <1>2, <1>5, <1>6, <1>7, <1>8, <1>9 DEF SpeechInv

LEMMA SpeechStep == SpeechInv /\ [SpeechNext]_speechVars => SpeechInv'
<1> SUFFICES ASSUME SpeechInv, [SpeechNext]_speechVars PROVE SpeechInv'
  OBVIOUS
<1>1. ASSUME NEW c \in Speaker, OpenFile(c) \/ WriteFile(c) \/ LeaveFile(c) PROVE SpeechInv'
  BY <1>1, FileStep
<1>2. ASSUME NEW c \in Speaker, NotTranscribed(c) \/ Transcribe(c) PROVE SpeechInv'
  BY <1>2, EndStep
<1>3. ASSUME NEW c \in Speaker, StorePosted(c) \/ StorePatched(c) \/ StoreSaved(c) \/ NotStored(c)
      PROVE  SpeechInv'
  BY <1>3, StoreStep
<1>7. ASSUME NEW c \in Speaker, NEW q \in Asked, NEW text, SaveAnswer(c, q, text) PROVE SpeechInv'
  BY <1>7, SaveStep
<1>4. ASSUME NEW c \in Speaker, NEW text, NEW speech,
             \/ \E q \in Asked : PostAnswer(c, q, text, speech)
             \/ \E a \in answers : PatchAnswer(c, a, text, speech)
      PROVE  SpeechInv'
  BY <1>4, RouteStep
<1>5. CASE UNCHANGED speechVars
  BY <1>5 DEF speechVars, fileVars, answerVars, SpeechInv
<1>6. QED
  BY <1>1, <1>2, <1>3, <1>4, <1>5, <1>7 DEF SpeechNext

LEMMA SpeechFits == SpeechInv => TranscriptsFit
<1> SUFFICES ASSUME SpeechInv PROVE TranscriptsFit
  OBVIOUS
<1>1. ASSUME NEW t \in heard, InSequence(t.timed)
      PROVE  t.stats.speech + t.stats.paused <= t.timed[Len(t.timed)].end - t.stats.first
  <2>1. t.timed \in Seq(TimedWord) /\ t.timed # <<>> /\ t.stats = Stats(t.timed)
    BY DEF SpeechInv
  <2>2. QED
    BY <1>1, <2>1, MeasuresFit
<1>2. \A t \in heard : t.text \notin refused
  BY StillAnswerable DEF SpeechInv
<1>3. QED
  BY <1>1, <1>2 DEF SpeechInv, TranscriptsFit, Sound

\* transcribe_uploaded_audio and the routes that take what it returns: no recording outlives
\* its request unless the request was killed or could not write it, what was accepted when it
\* was heard is never refused as too short, a question has one answer and none that a check
\* refuses, and speech and pauses fit into the time the words took.
THEOREM TranscriptsFitCorrect == SpeechSpec => []TranscriptsFit
<1>1. QED
  BY SpeechInitially, SpeechStep, SpeechFits, PTL DEF SpeechSpec

-----------------------------------------------------------------------------
(* The listing of job offers *)

\* Every order compares a number of the offers, and those of the same number by their places.
Ordered(offers, q, key) ==
  \A i, j \in 1 .. Len(offers) :
    Before(offers, q, i, j) <=> key[i] < key[j] \/ (key[i] = key[j] /\ i < j)

\* It does if it compares such numbers.
LEMMA KeyOrders ==
  ASSUME NEW offers, NEW q, NEW key \in [1 .. Len(offers) -> Int],
         \A i, j \in 1 .. Len(offers) : Precedes(q, offers[i], offers[j]) <=> key[i] < key[j]
  PROVE  Ordered(offers, q, key)
  BY DEF Ordered, Before

LEMMA OrderHasKey ==
  ASSUME NEW offers \in Seq(Offers), NEW q
  PROVE  \E key \in [1 .. Len(offers) -> Int] : Ordered(offers, q, key)
<1> DEFINE n == Len(offers)
<1>1. \A i \in 1 .. n : /\ offers[i].posted \in Int /\ offers[i].deadline \in Int
                        /\ offers[i].company \in Int /\ offers[i].position \in Int
  <2>1. \A i \in 1 .. n : offers[i] \in Offers
    OBVIOUS
  <2>2. QED
    BY <2>1, CatalogAssumption
<1>2. CASE q.sort = "oldest"
  <2> DEFINE key == [i \in 1 .. n |-> offers[i].posted]
  <2>1. key \in [1 .. n -> Int] /\ \A i \in 1 .. n : key[i] = offers[i].posted
    BY <1>1
  <2>2. \A i, j \in 1 .. n : Precedes(q, offers[i], offers[j]) <=> offers[i].posted < offers[j].posted
    BY <1>2 DEF Precedes
  <2> HIDE DEF key
  <2>3. \A i, j \in 1 .. n : Precedes(q, offers[i], offers[j]) <=> key[i] < key[j]
    BY <1>1, <2>1, <2>2
  <2>4. QED
    BY <2>1, <2>3, KeyOrders
<1>3. CASE q.sort = "deadline"
  <2> DEFINE key == [i \in 1 .. n |-> offers[i].deadline]
  <2>1. key \in [1 .. n -> Int] /\ \A i \in 1 .. n : key[i] = offers[i].deadline
    BY <1>1
  <2>2. \A i, j \in 1 .. n : Precedes(q, offers[i], offers[j]) <=> offers[i].deadline < offers[j].deadline
    BY <1>3 DEF Precedes
  <2> HIDE DEF key
  <2>3. \A i, j \in 1 .. n : Precedes(q, offers[i], offers[j]) <=> key[i] < key[j]
    BY <1>1, <2>1, <2>2
  <2>4. QED
    BY <2>1, <2>3, KeyOrders
<1>4. CASE q.sort = "-deadline"
  <2> DEFINE key == [i \in 1 .. n |-> 0 - offers[i].deadline]
  <2>1. key \in [1 .. n -> Int] /\ \A i \in 1 .. n : key[i] = 0 - offers[i].deadline
    BY <1>1
  <2>2. \A i, j \in 1 .. n : Precedes(q, offers[i], offers[j]) <=> offers[i].deadline > offers[j].deadline
    BY <1>4 DEF Precedes
  <2> HIDE DEF key
  <2>3. \A i, j \in 1 .. n : Precedes(q, offers[i], offers[j]) <=> key[i] < key[j]
    BY <1>1, <2>1, <2>2
  <2>4. QED
    BY <2>1, <2>3, KeyOrders
<1>5. CASE q.sort = "company"
  <2> DEFINE key == [i \in 1 .. n |-> offers[i].company]
  <2>1. key \in [1 .. n -> Int] /\ \A i \in 1 .. n : key[i] = offers[i].company
    BY <1>1
  <2>2. \A i, j \in 1 .. n : Precedes(q, offers[i], offers[j]) <=> offers[i].company < offers[j].company
    BY <1>5 DEF Precedes
  <2> HIDE DEF key
  <2>3. \A i, j \in 1 .. n : Precedes(q, offers[i], offers[j]) <=> key[i] < key[j]
    BY <1>1, <2>1, <2>2
  <2>4. QED
    BY <2>1, <2>3, KeyOrders
<1>6. CASE q.sort = "position"
  <2> DEFINE key == [i \in 1 .. n |-> offers[i].position]
  <2>1. key \in [1 .. n -> Int] /\ \A i \in 1 .. n : key[i] = offers[i].position
    BY <1>1
  <2>2. \A i, j \in 1 .. n : Precedes(q, offers[i], offers[j]) <=> offers[i].position < offers[j].position
    BY <1>6 DEF Precedes
  <2> HIDE DEF key
  <2>3. \A i, j \in 1 .. n : Precedes(q, offers[i], offers[j]) <=> key[i] < key[j]
    BY <1>1, <2>1, <2>2
  <2>4. QED
    BY <2>1, <2>3, KeyOrders
<1>7. CASE q.sort \notin {"oldest", "deadline", "-deadline", "company", "position"}
  <2> DEFINE key == [i \in 1 .. n |-> 0 - offers[i].posted]
  <2>1. key \in [1 .. n -> Int] /\ \A i \in 1 .. n : key[i] = 0 - offers[i].posted
    BY <1>1
  <2>2. \A i, j \in 1 .. n : Precedes(q, offers[i], offers[j]) <=> offers[i].posted > offers[j].posted
    BY <1>7 DEF Precedes
  <2> HIDE DEF key
  <2>3. \A i, j \in 1 .. n : Precedes(q, offers[i], offers[j]) <=> key[i] < key[j]
    BY <1>1, <2>1, <2>2
  <2>4. QED
    BY <2>1, <2>3, KeyOrders
<1>8. QED
  BY <1>2, <1>3, <1>4, <1>5, <1>6, <1>7

\* Every place of a listing is that of one offer, so sorting loses none and makes up none.
LEMMA PlacesAreDense ==
  ASSUME NEW offers \in Seq(Offers), NEW q, NEW k \in 1 .. Len(offers)
  PROVE  \E i \in 1 .. Len(offers) : Place(offers, q, i) = k
<1> DEFINE n == Len(offers)
<1> DEFINE T == 1 .. n
<1> DEFINE upto(j) == { i \in T : i = j \/ Before(offers, q, i, j) }
<1>1. n \in Nat /\ DOMAIN offers = T /\ IsFiniteSet(T) /\ Cardinality(T) = n
  <2>1. n \in Nat /\ DOMAIN offers = T
    OBVIOUS
  <2> HIDE DEF n
  <2>2. IsFiniteSet(T) /\ Cardinality(T) = n
    BY <2>1, FS_Interval
  <2>3. QED
    BY <2>1, <2>2
<1>2. PICK key \in [T -> Int] : Ordered(offers, q, key)
  BY OrderHasKey
<1>3. ASSUME NEW i \in T, NEW j \in T
      PROVE  Before(offers, q, i, j) <=> key[i] < key[j] \/ (key[i] = key[j] /\ i < j)
  BY <1>2 DEF Ordered
<1>4. ASSUME NEW j \in T PROVE IsFiniteSet(upto(j)) /\ Cardinality(upto(j)) \in T
  <2>1. upto(j) \in SUBSET T /\ j \in upto(j)
    OBVIOUS
  <2> HIDE DEF upto, T
  <2>2. IsFiniteSet(upto(j)) /\ Cardinality(upto(j)) <= Cardinality(T)
    BY <1>1, <2>1, FS_Subset
  <2>3. Cardinality(upto(j)) \in Nat /\ Cardinality(upto(j)) # 0
    BY <2>1, <2>2, FS_CardinalityType, FS_EmptySet
  <2>4. QED
    BY <1>1, <2>2, <2>3 DEF T
<1>5. ASSUME NEW i \in T, NEW j \in T, Before(offers, q, i, j)
      PROVE  Cardinality(upto(i)) # Cardinality(upto(j))
  <2>1. key[i] < key[j] \/ (key[i] = key[j] /\ i < j)
    BY <1>3, <1>5
  <2>2. ASSUME NEW h \in upto(i) PROVE h \in upto(j)
    <3>1. CASE h = i
      BY <1>5, <3>1
    <3>2. CASE Before(offers, q, h, i)
      <4>1. h \in T /\ key[h] \in Int /\ key[i] \in Int /\ key[j] \in Int
        BY <1>2
      <4>2. key[h] < key[i] \/ (key[h] = key[i] /\ h < i)
        BY <1>3, <3>2, <4>1
      <4>3. key[h] < key[j] \/ (key[h] = key[j] /\ h < j)
        BY <2>1, <4>1, <4>2
      <4>4. QED
        BY <1>3, <4>1, <4>3
    <3>3. QED
      BY <3>1, <3>2
  <2>3. j \in upto(j) /\ j \notin upto(i)
    <3>1. key[i] \in Int /\ key[j] \in Int
      BY <1>2
    <3>2. j # i /\ ~Before(offers, q, j, i)
      BY <1>3, <2>1, <3>1
    <3>3. QED
      BY <3>2
  <2>4. upto(i) \in SUBSET upto(j) /\ IsFiniteSet(upto(j))
    BY <1>4, <2>2
  <2> HIDE DEF upto
  <2>5. QED
    BY <2>3, <2>4, FS_Subset
<1> DEFINE f == [j \in T |-> Cardinality(upto(j))]
<1>6. f \in [T -> T]
  BY <1>4
<1>7. ASSUME NEW i \in T, NEW j \in T, f[i] = f[j] PROVE i = j
  <2>1. Cardinality(upto(i)) = Cardinality(upto(j))
    BY <1>7
  <2>2. key[i] \in Int /\ key[j] \in Int
    BY <1>2
  <2>3. ~Before(offers, q, i, j) /\ ~Before(offers, q, j, i)
    BY <1>5, <2>1
  <2>4. QED
    BY <1>3, <2>2, <2>3
<1>8. \A j \in T : Place(offers, q, j) = f[j]
  BY <1>1 DEF Place
<1> HIDE DEF f, T
<1>9. f \in Injection(T, T)
  BY <1>6, <1>7 DEF Injection, IsInjective
<1>10. f \in Surjection(T, T)
  BY <1>1, <1>9, FS_Injection
<1>11. QED
  BY <1>8, <1>10 DEF Surjection, T

LEMMA InOrderTakes ==
  ASSUME NEW offers \in Seq(Offers), NEW q
  PROVE  /\ InOrder(offers, q) \in Seq(Offers)
         /\ \A k \in DOMAIN InOrder(offers, q) : \E i \in DOMAIN offers : InOrder(offers, q)[k] = offers[i]
<1> DEFINE n == Len(offers)
<1> DEFINE at(k) == CHOOSE i \in DOMAIN offers : Place(offers, q, i) = k
<1>1. n \in Nat /\ DOMAIN offers = 1 .. n
  OBVIOUS
<1>2. ASSUME NEW k \in 1 .. n PROVE at(k) \in 1 .. n
  <2>1. \E i \in 1 .. Len(offers) : Place(offers, q, i) = k
    BY PlacesAreDense
  <2>2. \E i \in DOMAIN offers : Place(offers, q, i) = k
    BY <1>1, <2>1
  <2>3. QED
    BY <1>1, <2>2
<1>3. InOrder(offers, q) = [k \in 1 .. n |-> offers[at(k)]]
  BY <1>1 DEF InOrder
<1> HIDE DEF at
<1>4. QED
  BY <1>1, <1>2, <1>3

LEMMA ListedFits ==
  ASSUME NEW c \in DOMAIN Catalogs, NEW q
  PROVE  /\ Listed(c, q) \in Seq(Offers)
         /\ \A k \in DOMAIN Listed(c, q) : \E i \in DOMAIN Catalogs[c] : Listed(c, q)[k] = Catalogs[c][i]
<1> DEFINE offers == Catalogs[c]
<1> DEFINE places == { i \in DOMAIN offers : Matches(offers[i], q) }
<1> DEFINE some == Where(offers, places)
<1>1. offers \in Seq(Offers)
  BY CatalogAssumption
<1>2. places \in SUBSET DOMAIN offers
  OBVIOUS
<1>3. Listed(c, q) = InOrder(some, q)
  BY DEF Listed
<1> HIDE DEF offers, places
<1>4. /\ some \in Seq(Offers) /\ Len(some) = Cardinality(places) /\ Cardinality(places) \in Nat
      /\ \A k \in 1 .. Cardinality(places) : \E p \in places : some[k] = offers[p]
  BY <1>1, <1>2, WhereTakes
<1> HIDE DEF some
<1>5. /\ InOrder(some, q) \in Seq(Offers)
      /\ \A k \in DOMAIN InOrder(some, q) : \E i \in DOMAIN some : InOrder(some, q)[k] = some[i]
  BY <1>4, InOrderTakes
<1>6. \A i \in DOMAIN some : \E p \in DOMAIN offers : some[i] = offers[p]
  BY <1>2, <1>4
<1>7. QED
  BY <1>3, <1>5, <1>6 DEF offers

\* A listing cut into pages, page by page.
LEMMA SlicesJoin ==
  ASSUME NEW S, NEW list \in Seq(S), NEW m \in Nat, NEW k \in Nat, m <= k, k <= Len(list)
  PROVE  SubSeq(list, 1, m) \o SubSeq(list, m + 1, k) = SubSeq(list, 1, k)
<1> DEFINE a == SubSeq(list, 1, m)
<1> DEFINE b == SubSeq(list, m + 1, k)
<1> DEFINE ab == SubSeq(list, 1, k)
<1>1. Len(list) \in Nat
  OBVIOUS
<1>2. a \in Seq(S) /\ Len(a) = m /\ \A i \in 1 .. m : a[i] = list[i]
  BY <1>1
<1>3. b \in Seq(S) /\ Len(b) = k - m /\ \A i \in 1 .. k - m : b[i] = list[m + i]
  BY <1>1
<1>4. ab \in Seq(S) /\ Len(ab) = k /\ \A i \in 1 .. k : ab[i] = list[i]
  BY <1>1
<1> HIDE DEF a, b, ab
<1>5. a \o b \in Seq(S) /\ Len(a \o b) = k
  <2>1. a \o b \in Seq(S) /\ Len(a \o b) = Len(a) + Len(b)
    BY <1>2, <1>3, ConcatProperties
  <2>2. QED
    BY <1>2, <1>3, <2>1
<1>6. ASSUME NEW i \in 1 .. k PROVE (a \o b)[i] = ab[i]
  <2>1. CASE i <= m
    BY <1>2, <1>3, <1>4, <2>1
  <2>2. CASE i > m
    <3>1. i - m \in 1 .. k - m /\ m + (i - m) = i
      BY <2>2
    <3>2. (a \o b)[i] = b[i - m]
      BY <1>2, <1>3, <2>2
    <3>3. QED
      BY <1>3, <1>4, <3>1, <3>2
  <2>3. i <= m \/ i > m
    OBVIOUS
  <2>4. QED
    BY <2>1, <2>2, <2>3
<1>7. a \o b = ab
  BY <1>4, <1>5, <1>6, SeqEqual
<1>8. QED
  BY <1>7 DEF a, b, ab

\* The lists joined one by one are those FlattenSeq joins.
LEMMA FlattenIs ==
  ASSUME NEW S, NEW lists \in Seq(Seq(S)), NEW N \in Nat \ {0}, N = Len(lists),
         NEW f \in [1 .. N -> Seq(S)], f[1] = lists[1],
         \A n \in 2 .. N : f[n] = f[n - 1] \o lists[n]
  PROVE  FlattenSeq(lists) = f[N]
<1> DEFINE Is(g) == g = [i \in 1 .. Len(lists) |-> IF i = 1 THEN lists[i] ELSE g[i - 1] \o lists[i]]
<1> DEFINE flatten == CHOOSE g : Is(g)
<1>1. Is(f)
  <2>1. \A i \in 1 .. N : i # 1 => i \in 2 .. N
    OBVIOUS
  <2>2. \A i \in 1 .. N : f[i] = (IF i = 1 THEN lists[i] ELSE f[i - 1] \o lists[i])
    BY <2>1
  <2>3. QED
    BY <2>2
<1>2. Is(flatten)
  BY <1>1
<1>3. FlattenSeq(lists) = flatten[N]
  BY DEF FlattenSeq
<1> HIDE DEF flatten
<1>4. \A i \in 1 .. N : flatten[i] = (IF i = 1 THEN lists[i] ELSE flatten[i - 1] \o lists[i])
  BY <1>2
<1> DEFINE Same == { n \in 0 .. N - 1 : flatten[n + 1] = f[n + 1] }
<1>5. 0 \in Same
  <2>1. 1 \in 1 .. N /\ 0 \in 0 .. N - 1 /\ 0 + 1 = 1
    OBVIOUS
  <2>2. flatten[1] = lists[1]
    BY <1>4, <2>1
  <2>3. QED
    BY <2>1, <2>2
<1>6. ASSUME NEW n \in 1 .. N - 1, n - 1 \in Same PROVE n \in Same
  <2>1. /\ n + 1 \in 1 .. N /\ n + 1 \in 2 .. N /\ n + 1 # 1 /\ (n + 1) - 1 = n /\ (n - 1) + 1 = n
        /\ n \in 0 .. N - 1
    OBVIOUS
  <2>2. flatten[n] = f[n]
    BY <1>6, <2>1
  <2>3. flatten[n + 1] = flatten[n] \o lists[n + 1]
    BY <1>4, <2>1
  <2>4. f[n + 1] = f[n] \o lists[n + 1]
    BY <2>1
  <2>5. QED
    BY <2>1, <2>2, <2>3, <2>4
<1>7. N - 1 \in Same
  <2> HIDE DEF Same
  <2>1. N - 1 \in Nat /\ N - 1 \in 0 .. N - 1
    OBVIOUS
  <2>2. QED
    BY <1>5, <1>6, <2>1, StepByStep
<1>8. (N - 1) + 1 = N
  OBVIOUS
<1>9. QED
  BY <1>3, <1>7, <1>8

\* The slice of a list that is on its n-th page, and what is on the pages up to it.
Slice(list, size, n) == SubSeq(list, (n - 1) * size + 1, AtMost(n * size, Len(list)))
UpToPage(list, size, n) == SubSeq(list, 1, AtMost(n * size, Len(list)))
Joins(list, size, n) == UpToPage(list, size, n) = UpToPage(list, size, n - 1) \o Slice(list, size, n)

LEMMA PageAdds ==
  ASSUME NEW S, NEW list \in Seq(S), NEW size \in Nat \ {0}, NEW n \in Nat \ {0}
  PROVE  /\ Slice(list, size, n) \in Seq(S) /\ UpToPage(list, size, n) \in Seq(S)
         /\ \A i \in DOMAIN Slice(list, size, n) : \E k \in DOMAIN list : Slice(list, size, n)[i] = list[k]
         /\ n = 1 => UpToPage(list, size, n) = Slice(list, size, n)
         /\ n > 1 => Joins(list, size, n)
         /\ Slice(list, size, n) = <<>> => UpToPage(list, size, n) = list
<1> DEFINE T == Len(list)
<1>1. PICK m : m = (n - 1) * size
  OBVIOUS
<1>2. PICK h : h = n * size
  OBVIOUS
<1>3. m \in Nat /\ h \in Nat /\ h = m + size /\ T \in Nat /\ (n = 1 => m = 0)
  BY <1>1, <1>2
<1>4. PICK k : k = AtMost(h, T)
  OBVIOUS
<1>5. /\ k \in Nat /\ k <= T /\ (h <= T => k = h) /\ (h > T => k = T)
  BY <1>3, <1>4 DEF AtMost
<1>6. Slice(list, size, n) = SubSeq(list, m + 1, k) /\ UpToPage(list, size, n) = SubSeq(list, 1, k)
  BY <1>1, <1>2, <1>4 DEF Slice, UpToPage
<1>7. PICK b : b = SubSeq(list, m + 1, k)
  OBVIOUS
<1>8. /\ b \in Seq(S) /\ (m <= k => Len(b) = k - m) /\ (m > k => b = <<>>)
      /\ \A i \in DOMAIN b : m + i \in DOMAIN list /\ b[i] = list[m + i]
  <2>1. CASE m <= k
    BY <1>3, <1>5, <1>7, <2>1
  <2>2. CASE m > k
    <3>1. b = <<>>
      BY <1>3, <1>5, <1>7, <2>2
    <3>2. QED
      BY <1>3, <1>5, <2>2, <3>1
  <2>3. m <= k \/ m > k
    BY <1>3, <1>5
  <2>4. QED
    BY <2>1, <2>2, <2>3
<1>9. SubSeq(list, 1, k) \in Seq(S)
  BY <1>3, <1>5
<1>10. n = 1 => UpToPage(list, size, n) = Slice(list, size, n)
  <2>1. n = 1 => m + 1 = 1
    BY <1>3
  <2>2. QED
    BY <1>6, <2>1
<1>11. ASSUME n > 1 PROVE UpToPage(list, size, n) = UpToPage(list, size, n - 1) \o Slice(list, size, n)
  <2>1. UpToPage(list, size, n - 1) = SubSeq(list, 1, AtMost(m, T))
    BY <1>1 DEF UpToPage
  <2>2. CASE m <= T
    <3>1. AtMost(m, T) = m /\ m <= k
      BY <1>3, <1>5, <2>2 DEF AtMost
    <3>2. SubSeq(list, 1, m) \o SubSeq(list, m + 1, k) = SubSeq(list, 1, k)
      BY <1>3, <1>5, <3>1, SlicesJoin
    <3>3. QED
      BY <1>6, <2>1, <3>1, <3>2
  <2>3. CASE m > T
    <3>1. AtMost(m, T) = T /\ k = T /\ m > k
      BY <1>3, <1>5, <2>3 DEF AtMost
    <3>2. SubSeq(list, 1, k) \o <<>> = SubSeq(list, 1, k)
      BY <1>9, ConcatEmptySeq
    <3>3. QED
      BY <1>6, <1>7, <1>8, <2>1, <3>1, <3>2
  <2>4. m <= T \/ m > T
    BY <1>3
  <2>5. QED
    BY <2>2, <2>3, <2>4
<1>12. ASSUME Slice(list, size, n) = <<>> PROVE UpToPage(list, size, n) = list
  <2>1. Len(b) = 0
    <3>1. b = <<>>
      BY <1>6, <1>7, <1>12
    <3>2. QED
      BY <3>1
  <2>2. k <= m
    BY <1>3, <1>5, <1>8, <2>1
  <2>3. k = T
    BY <1>3, <1>5, <2>2
  <2>4. SubSeq(list, 1, T) = list
    OBVIOUS
  <2>5. QED
    BY <1>6, <2>3, <2>4
<1>13. QED
  BY <1>6, <1>7, <1>8, <1>9, <1>10, <1>11, <1>12 DEF Joins

\* The pages up to an empty one are the whole list.
LEMMA PagesJoin ==
  ASSUME NEW S, NEW list \in Seq(S), NEW size \in Nat \ {0}, NEW N \in Nat \ {0},
         NEW pagesOf \in Seq(Seq(S)), N = Len(pagesOf),
         \A n \in 1 .. N : pagesOf[n] = Slice(list, size, n), pagesOf[N] = <<>>
  PROVE  FlattenSeq(pagesOf) = list
<1> DEFINE f == [n \in 1 .. N |-> UpToPage(list, size, n)]
<1>1. \A n \in 1 .. N : n \in Nat \ {0}
  OBVIOUS
<1>2. f \in [1 .. N -> Seq(S)] /\ \A n \in 1 .. N : f[n] = UpToPage(list, size, n)
  BY <1>1, PageAdds
<1> HIDE DEF f
<1>3. 1 \in 1 .. N /\ N \in 1 .. N
  OBVIOUS
<1>4. f[1] = pagesOf[1]
  BY <1>2, <1>3, PageAdds
<1>5. ASSUME NEW n \in 2 .. N PROVE f[n] = f[n - 1] \o pagesOf[n]
  <2>1. n \in 1 .. N /\ n - 1 \in 1 .. N /\ n > 1 /\ n \in Nat \ {0}
    OBVIOUS
  <2>2. UpToPage(list, size, n) = UpToPage(list, size, n - 1) \o Slice(list, size, n)
    <3>1. Joins(list, size, n)
      BY <2>1, PageAdds
    <3>2. QED
      BY <3>1 DEF Joins
  <2>3. QED
    BY <1>2, <2>1, <2>2
<1>6. FlattenSeq(pagesOf) = f[N]
  BY <1>2, <1>4, <1>5, FlattenIs
<1>7. UpToPage(list, size, N) = list
  <2>1. Slice(list, size, N) = <<>>
    BY <1>3
  <2>2. QED
    BY <2>1, PageAdds
<1>8. QED
  BY <1>2, <1>3, <1>6, <1>7

LEMMA PageIsSlice ==
  ASSUME NEW c \in DOMAIN Catalogs, NEW q \in Queries, NEW n \in Nat \ {0}
  PROVE  /\ PageSize(q) \in Nat \ {0} /\ Page(c, q, n) = Slice(Listed(c, q), PageSize(q), n)
         /\ Page(c, q, n) \in Seq(Offers)
         /\ \A i \in DOMAIN Page(c, q, n) : \E k \in DOMAIN Catalogs[c] : Page(c, q, n)[i] = Catalogs[c][k]
<1>1. PageSize(q) \in Nat \ {0}
  BY QueriesAssumption DEF PageSize, AtMost
<1>2. Page(c, q, n) = Slice(Listed(c, q), PageSize(q), n)
  BY DEF Page, Slice
<1>3. PICK list \in Seq(Offers) :
        list = Listed(c, q) /\ \A k \in DOMAIN list : \E i \in DOMAIN Catalogs[c] : list[k] = Catalogs[c][i]
  BY ListedFits
<1>4. PICK size \in Nat \ {0} : size = PageSize(q)
  BY <1>1
<1>5. /\ Slice(list, size, n) \in Seq(Offers)
      /\ \A i \in DOMAIN Slice(list, size, n) : \E k \in DOMAIN list : Slice(list, size, n)[i] = list[k]
  BY PageAdds
<1>6. QED
  BY <1>1, <1>2, <1>3, <1>4, <1>5

-----------------------------------------------------------------------------

TurnedPage == [catalog : 1 .. Len(Catalogs), offers : Seq(Offers)]

\* A page is that of the catalog it was turned in, and what is kept has the number of an offer
\* that was shown.
OffersInv ==
  /\ written \in 1 .. Len(Catalogs) /\ dataFile \in {Absent, Unfinished} \cup 1 .. Len(Catalogs)
  /\ loaded \in [Process -> {Absent} \cup 1 .. Len(Catalogs)] /\ listing \in Queries
  /\ turned \in Seq(TurnedPage)
  /\ \A i \in DOMAIN turned : turned[i].offers = Page(turned[i].catalog, listing, i)
  /\ \A k \in keptOffers :
       /\ k = [catalog |-> k.catalog, offer |-> k.offer] /\ k.catalog \in 1 .. Len(Catalogs)
       /\ \E j \in DOMAIN Catalogs[k.catalog] : k.offer = Catalogs[k.catalog][j]
       /\ \E x \in Shown : x.offer.id = k.offer.id

LEMMA OffersInitially == OffersInit => OffersInv
<1> SUFFICES ASSUME OffersInit PROVE OffersInv
  OBVIOUS
<1>1. turned = <<>> /\ <<>> \in Seq(TurnedPage) /\ DOMAIN <<>> = {}
  BY DEF OffersInit
<1>2. Len(Catalogs) \in Nat /\ Len(Catalogs) > 0
  BY CatalogAssumption
<1>3. QED
  BY <1>1, <1>2 DEF OffersInit, OffersInv

\* A process answers from the catalog it keeps, or from the one it finds.
LEMMA LoadsOne ==
  ASSUME OffersInv, NEW p \in Process, Loads(p)
  PROVE  loaded' \in [Process -> {Absent} \cup 1 .. Len(Catalogs)] /\ loaded'[p] \in 1 .. Len(Catalogs)
<1>1. Len(Catalogs) \in Nat /\ Len(Catalogs) > 0 /\ Absent \notin Nat
  BY CatalogAssumption
<1>2. CASE loaded[p] # Absent
  BY <1>2 DEF Loads, OffersInv
<1>3. CASE loaded[p] = Absent
  <2>1. InFile \in 1 .. Len(Catalogs)
    BY <1>1, <1>3 DEF Loads, Loadable, InFile, OffersInv
  <2>2. loaded' = [loaded EXCEPT ![p] = InFile]
    BY <1>3 DEF Loads
  <2>3. QED
    BY <2>1, <2>2 DEF OffersInv
<1>4. QED
  BY <1>2, <1>3

LEMMA CatalogStep ==
  ASSUME OffersInv,
         OpenDataFile \/ WriteDataFile \/ (\E p \in Process : RestartProcess(p)) \/ UNCHANGED offerVars
  PROVE  OffersInv'
<1>1. UNCHANGED <<listing, turned, keptOffers>>
  BY DEF OpenDataFile, WriteDataFile, RestartProcess, offerVars
<1>2. Shown' = Shown
  BY <1>1 DEF Shown
<1>3. Len(Catalogs) \in Nat /\ Len(Catalogs) > 0
  BY CatalogAssumption
<1>4. /\ written' \in 1 .. Len(Catalogs) /\ dataFile' \in {Absent, Unfinished} \cup 1 .. Len(Catalogs)
      /\ loaded' \in [Process -> {Absent} \cup 1 .. Len(Catalogs)]
  BY <1>3 DEF OffersInv, OpenDataFile, WriteDataFile, RestartProcess, offerVars
<1>5. QED
  BY <1>1, <1>2, <1>4 DEF OffersInv

LEMMA TurnPageStep == ASSUME OffersInv, NEW p \in Process, TurnPage(p) PROVE OffersInv'
<1>1. PICK c \in 1 .. Len(Catalogs) : c = loaded'[p] /\ loaded' \in [Process -> {Absent} \cup 1 .. Len(Catalogs)]
  BY LoadsOne DEF TurnPage
<1>2. PICK N \in Nat : N = Len(turned)
  BY DEF OffersInv
<1>3. PICK e : e = [catalog |-> c, offers |-> Page(c, listing, N + 1)]
  OBVIOUS
<1>4. turned' = Append(turned, e) /\ UNCHANGED <<dataFile, written, listing, keptOffers>>
  BY <1>1, <1>2, <1>3 DEF TurnPage
<1>5. c \in DOMAIN Catalogs /\ listing \in Queries /\ N + 1 \in Nat \ {0}
  BY CatalogAssumption DEF OffersInv
<1>6. Page(c, listing, N + 1) \in Seq(Offers)
  BY <1>5, PageIsSlice
<1>7. e \in TurnedPage
  BY <1>3, <1>6 DEF TurnedPage
<1>8. turned \in Seq(TurnedPage)
  BY DEF OffersInv
<1>9. /\ turned' \in Seq(TurnedPage) /\ DOMAIN turned' = 1 .. N + 1 /\ DOMAIN turned = 1 .. N
      /\ turned'[N + 1] = e /\ \A i \in 1 .. N : turned'[i] = turned[i]
  BY <1>2, <1>4, <1>7, <1>8
<1>10. \A i \in DOMAIN turned' : turned'[i].offers = Page(turned'[i].catalog, listing, i)
  <2>1. turned'[N + 1].offers = Page(turned'[N + 1].catalog, listing, N + 1)
    BY <1>3, <1>9
  <2>2. \A i \in 1 .. N : turned'[i].offers = Page(turned'[i].catalog, listing, i)
    BY <1>9 DEF OffersInv
  <2>3. \A i \in 1 .. N + 1 : i \in 1 .. N \/ i = N + 1
    OBVIOUS
  <2>4. QED
    BY <1>9, <2>1, <2>2, <2>3
<1>11. Shown \subseteq Shown'
  BY <1>9 DEF Shown
<1>12. \A k \in keptOffers' :
         /\ k = [catalog |-> k.catalog, offer |-> k.offer] /\ k.catalog \in 1 .. Len(Catalogs)
         /\ \E j \in DOMAIN Catalogs[k.catalog] : k.offer = Catalogs[k.catalog][j]
         /\ \E x \in Shown' : x.offer.id = k.offer.id
  BY <1>4, <1>11 DEF OffersInv
<1>13. QED
  BY <1>1, <1>4, <1>9, <1>10, <1>12 DEF OffersInv

LEMMA KeepOfferStep ==
  ASSUME OffersInv, NEW p \in Process, NEW x \in Shown, KeepOffer(p, x.offer.id) PROVE OffersInv'
<1>1. PICK c \in 1 .. Len(Catalogs) : c = loaded'[p] /\ loaded' \in [Process -> {Absent} \cup 1 .. Len(Catalogs)]
  BY LoadsOne DEF KeepOffer
<1>2. PICK i \in DOMAIN Catalogs[c] :
        Catalogs[c][i].id = x.offer.id
        /\ keptOffers' = keptOffers \cup {[catalog |-> c, offer |-> Catalogs[c][i]]}
  BY <1>1 DEF KeepOffer
<1>3. UNCHANGED <<dataFile, written, listing, turned>>
  BY DEF KeepOffer
<1>4. Shown' = Shown
  BY <1>3 DEF Shown
<1>5. PICK n : n = [catalog |-> c, offer |-> Catalogs[c][i]]
  OBVIOUS
<1>6. /\ n = [catalog |-> n.catalog, offer |-> n.offer] /\ n.catalog \in 1 .. Len(Catalogs)
      /\ \E j \in DOMAIN Catalogs[n.catalog] : n.offer = Catalogs[n.catalog][j]
      /\ \E y \in Shown : y.offer.id = n.offer.id
  BY <1>2, <1>5
<1>7. \A k \in keptOffers' :
        /\ k = [catalog |-> k.catalog, offer |-> k.offer] /\ k.catalog \in 1 .. Len(Catalogs)
        /\ \E j \in DOMAIN Catalogs[k.catalog] : k.offer = Catalogs[k.catalog][j]
        /\ \E y \in Shown' : y.offer.id = k.offer.id
  BY <1>2, <1>4, <1>5, <1>6 DEF OffersInv
<1>8. QED
  BY <1>1, <1>3, <1>7 DEF OffersInv

LEMMA OffersStep == OffersInv /\ [OffersNext]_offerVars => OffersInv'
<1> SUFFICES ASSUME OffersInv, [OffersNext]_offerVars PROVE OffersInv'
  OBVIOUS
<1>1. CASE OpenDataFile \/ WriteDataFile \/ (\E p \in Process : RestartProcess(p)) \/ UNCHANGED offerVars
  BY <1>1, CatalogStep
<1>2. ASSUME NEW p \in Process, TurnPage(p) PROVE OffersInv'
  BY <1>2, TurnPageStep
<1>3. ASSUME NEW p \in Process, NEW x \in Shown, KeepOffer(p, x.offer.id) PROVE OffersInv'
  BY <1>3, KeepOfferStep
<1>4. QED
  BY <1>1, <1>2, <1>3 DEF OffersNext

LEMMA ListingFits == OffersInv => ListingIsWhole
<1> SUFFICES ASSUME OffersInv, OneCatalog PROVE
      /\ TurnedToTheEnd =>
           FlattenSeq([i \in DOMAIN turned |-> turned[i].offers]) = Listed(turned[1].catalog, listing)
      /\ \A k \in keptOffers : turned # <<>> /\ k.catalog = turned[1].catalog => k \in Shown
  BY DEF ListingIsWhole
<1>1. PICK N \in Nat : N = Len(turned)
  BY DEF OffersInv
<1>2. turned \in Seq(TurnedPage) /\ DOMAIN turned = 1 .. N
  BY <1>1 DEF OffersInv
<1>3. \A i \in 1 .. N : turned[i] \in TurnedPage
  BY <1>2
<1>4. \A i \in 1 .. N : turned[i].catalog \in DOMAIN Catalogs /\ turned[i].offers \in Seq(Offers)
  BY <1>3, CatalogAssumption DEF TurnedPage
<1>5. turned # <<>> => N # 0
  BY <1>1, <1>2, EmptySeq
<1>6. \A i \in 1 .. N : turned[i].offers = Page(turned[i].catalog, listing, i)
  BY <1>2 DEF OffersInv
<1>7. listing \in Queries
  BY DEF OffersInv
<1>8. \A i, j \in 1 .. N : turned[i].catalog = turned[j].catalog
  BY <1>2 DEF OneCatalog
<1>9. ASSUME TurnedToTheEnd
      PROVE  FlattenSeq([i \in DOMAIN turned |-> turned[i].offers]) = Listed(turned[1].catalog, listing)
  <2> DEFINE pagesOf == [i \in 1 .. N |-> turned[i].offers]
  <2>1. N \in Nat \ {0} /\ 1 \in 1 .. N /\ N \in 1 .. N
    BY <1>5, <1>9 DEF TurnedToTheEnd
  <2>2. PICK c \in DOMAIN Catalogs : \A i \in 1 .. N : turned[i].catalog = c
    BY <1>4, <1>8, <2>1
  <2>3. PICK list \in Seq(Offers) : list = Listed(c, listing)
    BY ListedFits
  <2>4. PICK size \in Nat \ {0} : size = PageSize(listing)
    BY <1>7, <2>1, <2>2, PageIsSlice
  <2>5. pagesOf \in Seq(Seq(Offers)) /\ Len(pagesOf) = N /\ \A n \in 1 .. N : pagesOf[n] = turned[n].offers
    BY <1>4, <2>1
  <2> HIDE DEF pagesOf
  <2>6. ASSUME NEW n \in 1 .. N PROVE pagesOf[n] = Slice(list, size, n)
    <3>1. n \in Nat \ {0}
      OBVIOUS
    <3>2. Page(c, listing, n) = Slice(list, size, n)
      BY <1>7, <2>3, <2>4, <3>1, PageIsSlice
    <3>3. QED
      BY <1>6, <2>2, <2>5, <3>2
  <2>7. pagesOf[N] = <<>>
    BY <1>1, <1>9, <2>1, <2>5 DEF TurnedToTheEnd
  <2>8. FlattenSeq(pagesOf) = list
    BY <2>1, <2>5, <2>6, <2>7, PagesJoin
  <2>9. turned[1].catalog = c /\ pagesOf = [i \in DOMAIN turned |-> turned[i].offers]
    BY <1>2, <2>1, <2>2 DEF pagesOf
  <2>10. QED
    BY <2>3, <2>8, <2>9
<1>10. ASSUME NEW k \in keptOffers, turned # <<>>, k.catalog = turned[1].catalog PROVE k \in Shown
  <2>1. N # 0 /\ 1 \in 1 .. N
    BY <1>5, <1>10
  <2>2. /\ k = [catalog |-> k.catalog, offer |-> k.offer]
        /\ \E j \in DOMAIN Catalogs[k.catalog] : k.offer = Catalogs[k.catalog][j]
        /\ \E x \in Shown : x.offer.id = k.offer.id
    BY DEF OffersInv
  <2>3. PICK j \in DOMAIN Catalogs[k.catalog] : k.offer = Catalogs[k.catalog][j]
    BY <2>2
  <2>4. PICK x \in Shown : x.offer.id = k.offer.id
    BY <2>2
  <2>5. PICK i \in 1 .. N : \E y \in ToSet(turned[i].offers) : x = [catalog |-> turned[i].catalog, offer |-> y]
    BY <1>2 DEF Shown
  <2>6. PICK c \in DOMAIN Catalogs : c = turned[i].catalog /\ c = k.catalog
    BY <1>4, <1>8, <1>10, <2>1
  <2>14. PICK y \in ToSet(turned[i].offers) : x = [catalog |-> turned[i].catalog, offer |-> y]
    BY <2>5
  <2>7. PICK n \in DOMAIN turned[i].offers : y = turned[i].offers[n]
    BY DEF ToSet
  <2>8. i \in Nat \ {0} /\ turned[i].offers = Page(c, listing, i)
    <3>1. i \in Nat \ {0}
      OBVIOUS
    <3>2. turned[i].offers = Page(turned[i].catalog, listing, i)
      BY <1>6
    <3>3. QED
      BY <2>6, <3>1, <3>2
  <2>9. PICK h \in DOMAIN Catalogs[c] : y = Catalogs[c][h]
    BY <1>7, <2>7, <2>8, PageIsSlice
  <2>10. Catalogs[c][h].id = Catalogs[c][j].id /\ j \in DOMAIN Catalogs[c]
    BY <2>3, <2>4, <2>14, <2>6, <2>9
  <2>11. h = j
    BY <2>10, CatalogAssumption
  <2>12. x = k
    BY <2>2, <2>3, <2>14, <2>6, <2>9, <2>11
  <2>13. QED
    BY <2>12
<1>11. QED
  BY <1>9, <1>10

\* MockJobListView and MockJobSaveAsJdView: as long as one catalog is served, a user who turns the
\* pages to the end sees every matching offer once and in order, and keeps the offer he was shown.
THEOREM ListingIsWholeCorrect == OffersSpec => []ListingIsWhole
<1>1. QED
  BY OffersInitially, OffersStep, ListingFits, PTL DEF OffersSpec

-----------------------------------------------------------------------------
(* The page of growth *)

GrowthInv == history \in Seq(Sessions) /\ growth = GrowthOf(history, filter)

Places(hs, f) == { i \in DOMAIN hs : IsPoint(hs[i], f) }

LEMMA PointsArePlaces == \A hs, f : Points(hs, f) = Where(hs, Places(hs, f))
BY DEF Points, Places

LEMMA SessionTags == \A s \in Sessions : s.tags \in [Weakness -> Nat]
BY TagsAssumption DEF Sessions

\* The points are what is listed as evaluated.
LEMMA PointsAreListed == \A s, f : ListedAsEvaluated(s, f) <=> IsPoint(s, f)
<1>1. ASSUME NEW s, NEW f, s.report = None PROVE ListedAsEvaluated(s, f) <=> IsPoint(s, f)
  BY <1>1 DEF ListedAsEvaluated, IsPoint, Counts, HistoryLine
<1>2. ASSUME NEW s, NEW f, s.report # None PROVE ListedAsEvaluated(s, f) <=> IsPoint(s, f)
  <2>1. /\ HistoryLine(s).evaluated = EvaluationStatus(s.report.summary)
        /\ HistoryLine(s).scored = ScoreStatus(s.report.summary) /\ HistoryLine(s).mock = IsMock(s.report.summary)
    BY <1>2 DEF HistoryLine
  <2>2. ScoreStatus(s.report.summary) = "SCORED" <=> ~IsMock(s.report.summary) /\ OverallScore(s.report.summary) # None
    BY DEF ScoreStatus
  <2>3. QED
    BY <1>2, <2>1, <2>2 DEF ListedAsEvaluated, IsPoint, Counts
<1>3. QED
  BY <1>1, <1>2

\* The points of a history, each at its rank.
LEMMA RankedPoints ==
  ASSUME NEW hs \in Seq(Sessions), NEW f, NEW places, places = Places(hs, f), NEW ps, ps = Points(hs, f)
  PROVE  /\ ps \in Seq(Sessions) /\ places \in SUBSET DOMAIN hs
         /\ Cardinality(places) \in Nat /\ Len(ps) = Cardinality(places)
         /\ \A p \in places : Rank(places, p) \in 1 .. Cardinality(places) /\ ps[Rank(places, p)] = hs[p]
         /\ \A k \in 1 .. Cardinality(places) : \E p \in places : Rank(places, p) = k /\ ps[k] = hs[p]
<1>1. places \in SUBSET DOMAIN hs
  BY DEF Places
<1>2. ps = Where(hs, places)
  BY PointsArePlaces
<1>3. QED
  BY <1>1, <1>2, WhereTakes

\* Sessions that do not count change no point.
LEMMA OthersAreNoPoints ==
  ASSUME NEW hs \in Seq(Sessions), NEW gs \in Seq(Sessions), NEW f, Len(hs) <= Len(gs),
         \A i \in DOMAIN hs : gs[i] = hs[i] \/ (~IsPoint(hs[i], f) /\ ~IsPoint(gs[i], f)),
         \A i \in DOMAIN gs \ DOMAIN hs : ~IsPoint(gs[i], f)
  PROVE  Points(gs, f) = Points(hs, f)
<1>1. DOMAIN hs \in SUBSET DOMAIN gs
  OBVIOUS
<1>2. PICK places : places = Places(hs, f)
  OBVIOUS
<1>3. places = Places(gs, f) /\ \A p \in places : gs[p] = hs[p]
  BY <1>1, <1>2 DEF Places
<1>4. PICK ps : ps = Points(hs, f)
  OBVIOUS
<1>5. PICK qs : qs = Points(gs, f)
  OBVIOUS
<1>6. /\ ps \in Seq(Sessions) /\ Cardinality(places) \in Nat /\ Len(ps) = Cardinality(places)
      /\ \A p \in places : Rank(places, p) \in 1 .. Cardinality(places) /\ ps[Rank(places, p)] = hs[p]
  BY <1>2, <1>4, RankedPoints
<1>7. /\ qs \in Seq(Sessions) /\ Len(qs) = Cardinality(places)
      /\ \A k \in 1 .. Cardinality(places) : \E p \in places : Rank(places, p) = k /\ qs[k] = gs[p]
  BY <1>3, <1>5, RankedPoints
<1>8. PICK m \in Nat : m = Cardinality(places)
  BY <1>6
<1>9. ASSUME NEW k \in 1 .. m PROVE qs[k] = ps[k]
  <2>1. PICK p \in places : Rank(places, p) = k /\ qs[k] = gs[p]
    BY <1>7, <1>8
  <2>2. gs[p] = hs[p]
    BY <1>3, <2>1
  <2>3. ps[k] = hs[p]
    BY <1>6, <2>1
  <2>4. QED
    BY <2>1, <2>2, <2>3
<1>10. ps = qs
  BY <1>6, <1>7, <1>8, <1>9
<1>11. QED
  BY <1>4, <1>5, <1>10

\* A tag is counted if and only if some session has it.
LEMMA TagsCounted ==
  ASSUME NEW ps \in Seq(Sessions), NEW w \in Weakness
  PROVE  TagCount(ps, w) \in Nat /\ (TagCount(ps, w) > 0 <=> \E i \in 1 .. Len(ps) : ps[i].tags[w] > 0)
<1>1. PICK n \in Nat : n = Len(ps) /\ DOMAIN ps = 1 .. n
  OBVIOUS
<1>2. \A i \in 1 .. n : ps[i].tags[w] \in Nat
  BY <1>1, SessionTags
<1>3. PICK a : a = [i \in 1 .. n |-> ps[i].tags[w]]
  OBVIOUS
<1>4. a \in Seq(Nat) /\ Len(a) = n /\ \A i \in 1 .. n : a[i] = ps[i].tags[w]
  BY <1>2, <1>3
<1>5. Total(a) \in Nat /\ (Total(a) > 0 <=> \E i \in 1 .. Len(a) : a[i] > 0)
  BY <1>4, TotalOfNaturals
<1>6. TagCount(ps, w) = Total(a)
  BY <1>1, <1>3 DEF TagCount
<1>7. QED
  BY <1>1, <1>4, <1>5, <1>6

\* Every weakness has its place in the list of their names.
LEMMA NamesAreAll ==
  /\ Names \in Seq(Weakness)
  /\ \A w \in Weakness : \E k \in 1 .. Len(Names) : Names[k] = w
<1>1. PICK n \in Nat : n = Cardinality(Weakness)
  BY GrowthAssumption, FS_CardinalityType
<1>2. PICK e \in Bijection(1 .. n, Weakness) : TRUE
  <2>1. IsFiniteSet(1 .. n) /\ Cardinality(1 .. n) = n
    BY FS_Interval
  <2>2. ExistsBijection(1 .. n, Weakness)
    BY <1>1, <2>1, GrowthAssumption, FS_SameCardinalityBij
  <2>3. QED
    BY <2>2 DEF ExistsBijection
<1>3. e \in [1 .. n -> Weakness] /\ IsInjective(e)
  BY <1>2 DEF Bijection, Injection
<1>4. Names \in [1 .. n -> Weakness] /\ IsInjective(Names)
  BY <1>1, <1>3 DEF Names, SetToSeq
<1>5. Names \in Injection(1 .. n, Weakness)
  BY <1>4 DEF Injection
<1>6. Names \in Surjection(1 .. n, Weakness)
  <2>1. Cardinality(1 .. n) = Cardinality(Weakness)
    BY <1>1, FS_Interval
  <2>2. QED
    BY <1>5, <2>1, GrowthAssumption, FS_Injection
<1>7. \A w \in Weakness : \E k \in 1 .. n : Names[k] = w
  BY <1>6 DEF Surjection
<1>8. QED
  BY <1>4, <1>7

\* The older half of some sessions and the rest, neither empty.
LEMMA HalvesOf ==
  ASSUME NEW ps \in Seq(Sessions), Len(ps) >= 2
  PROVE  /\ Older(ps) \in Seq(Sessions) /\ Recent(ps) \in Seq(Sessions)
         /\ Len(Older(ps)) = Half(ps) /\ Len(Recent(ps)) = Len(ps) - Half(ps) /\ Half(ps) \in 1 .. (Len(ps) - 1)
         /\ \A i \in 1 .. Half(ps) : Older(ps)[i] = ps[i]
         /\ \A i \in 1 .. (Len(ps) - Half(ps)) : Recent(ps)[i] = ps[Half(ps) + i]
<1>1. PICK n \in Nat : n = Len(ps) /\ n >= 2
  OBVIOUS
<1>2. PICK h \in Nat : h = Half(ps) /\ h \in 1 .. (n - 1) /\ (n = 2 => h = 1)
  <2>1. PICK q \in Int : q = n \div 2 /\ 2 * q <= n /\ n < 2 * q + 2
    BY <1>1, Quotient
  <2>2. Half(ps) = IF q = 0 THEN 1 ELSE q
    BY <1>1, <2>1 DEF Half
  <2>3. QED
    BY <1>1, <2>1, <2>2
<1>3. PICK a : a = SubSeq(ps, 1, h)
  OBVIOUS
<1>4. PICK b : b = SubSeq(ps, h + 1, n)
  OBVIOUS
<1>5. a \in Seq(Sessions) /\ Len(a) = h /\ \A i \in 1 .. h : a[i] = ps[i]
  BY <1>1, <1>2, <1>3
<1>6. b \in Seq(Sessions) /\ Len(b) = n - h /\ \A i \in 1 .. (n - h) : b[i] = ps[h + i]
  BY <1>1, <1>2, <1>4
<1>7. QED
  BY <1>1, <1>2, <1>3, <1>4, <1>5, <1>6 DEF Older, Recent

\* How a tag's share was and is.
Was(ps, w) == Share(Older(ps), w, Recent(ps))
Is(ps, w) == Share(Recent(ps), w, Older(ps))

\* What a list of tags adds up to, each as often as another list has tags.
LEMMA SharesAddUp ==
  ASSUME NEW ps \in Seq(Sessions), NEW m \in Nat
  PROVE  /\ TagTotal(ps) \in Nat
         /\ [k \in 1 .. Len(Names) |-> TagCount(ps, Names[k]) * m] \in Seq(Int)
         /\ Len([k \in 1 .. Len(Names) |-> TagCount(ps, Names[k]) * m]) = Len(Names)
         /\ Total([k \in 1 .. Len(Names) |-> TagCount(ps, Names[k]) * m]) = TagTotal(ps) * m
<1>1. PICK n \in Nat : n = Len(Names) /\ DOMAIN Names = 1 .. n /\ \A k \in 1 .. n : Names[k] \in Weakness
  BY NamesAreAll
<1>2. ASSUME NEW k \in 1 .. n PROVE TagCount(ps, Names[k]) \in Nat
  BY <1>1, TagsCounted
<1>3. PICK a : a = [k \in 1 .. n |-> TagCount(ps, Names[k])]
  OBVIOUS
<1>4. a \in Seq(Nat) /\ Len(a) = n /\ \A k \in 1 .. n : a[k] = TagCount(ps, Names[k])
  BY <1>2, <1>3
<1>5. a \in Seq(Int) /\ \A k \in 1 .. n : a[k] \in Nat
  BY <1>4
<1>6. PICK b : b = [k \in 1 .. n |-> a[k] * m]
  OBVIOUS
<1>7. b \in Seq(Int) /\ Len(b) = n /\ \A k \in 1 .. n : b[k] = a[k] * m
  <2>1. \A k \in 1 .. n : a[k] * m \in Int
    BY <1>5
  <2>2. QED
    BY <1>6, <2>1
<1>8. Total(b) = Total(a) * m
  <2>1. Len(a) = Len(b) /\ m \in Int /\ \A i \in 1 .. Len(a) : b[i] = a[i] * m
    BY <1>4, <1>7
  <2>2. QED
    BY <1>5, <1>7, <2>1, TotalScales
<1>9. TagTotal(ps) = Total(a)
  BY <1>1, <1>3 DEF TagTotal
<1>10. Total(a) \in Nat
  BY <1>4, TotalOfNaturals
<1>11. [k \in 1 .. n |-> TagCount(ps, Names[k]) * m] = b
  BY <1>4, <1>6
<1>12. QED
  BY <1>1, <1>7, <1>8, <1>9, <1>10, <1>11

\* With tags in both halves, one is more frequent if and only if another is less.
LEMMA SharesBalance ==
  ASSUME NEW ps \in Seq(Sessions), Len(ps) >= 2, TagTotal(Older(ps)) > 0, TagTotal(Recent(ps)) > 0
  PROVE  (\E w \in Weakness : Is(ps, w) < Was(ps, w)) <=> (\E w \in Weakness : Is(ps, w) > Was(ps, w))
<1>1. PICK n \in Nat : n = Len(Names) /\ \A k \in 1 .. n : Names[k] \in Weakness
  BY NamesAreAll
<1>2. PICK a, b \in Seq(Sessions) : a = Older(ps) /\ b = Recent(ps)
  BY HalvesOf
<1>3. PICK x, y \in Nat : x = TagTotal(a) /\ y = TagTotal(b) /\ x # 0 /\ y # 0
  <2>1. TagTotal(a) \in Nat /\ TagTotal(b) \in Nat
    BY SharesAddUp
  <2>2. QED
    BY <1>2, <2>1
<1>4. \A w : Was(ps, w) = TagCount(a, w) * y /\ Is(ps, w) = TagCount(b, w) * x
  BY <1>2, <1>3 DEF Was, Is, Share, AtLeastOne
<1>5. PICK u : u = [k \in 1 .. n |-> TagCount(a, Names[k]) * y]
  OBVIOUS
<1>6. PICK v : v = [k \in 1 .. n |-> TagCount(b, Names[k]) * x]
  OBVIOUS
<1>7. u \in Seq(Int) /\ Len(u) = n /\ Total(u) = x * y
  BY <1>1, <1>3, <1>5, SharesAddUp
<1>8. v \in Seq(Int) /\ Len(v) = n /\ Total(v) = y * x
  BY <1>1, <1>3, <1>6, SharesAddUp
<1>9. Total(u) = Total(v)
  BY <1>7, <1>8
<1>10. \A k \in 1 .. n : u[k] = Was(ps, Names[k]) /\ v[k] = Is(ps, Names[k]) /\ u[k] \in Int /\ v[k] \in Int
  BY <1>4, <1>5, <1>6, <1>7, <1>8
<1>11. \A w \in Weakness : \E k \in 1 .. n : Names[k] = w
  BY <1>1, NamesAreAll
<1>12. ASSUME NEW w \in Weakness, Is(ps, w) < Was(ps, w) PROVE \E q \in Weakness : Is(ps, q) > Was(ps, q)
  <2>1. PICK k \in 1 .. n : Names[k] = w
    BY <1>11
  <2>2. v[k] < u[k]
    BY <1>10, <1>12, <2>1
  <2>3. PICK i \in 1 .. n : u[i] < v[i]
    BY <1>7, <1>8, <1>9, <2>2, TotalsBalance
  <2>4. Is(ps, Names[i]) > Was(ps, Names[i]) /\ Names[i] \in Weakness
    BY <1>1, <1>10, <2>3
  <2>5. QED
    BY <2>4
<1>13. ASSUME NEW w \in Weakness, Is(ps, w) > Was(ps, w) PROVE \E q \in Weakness : Is(ps, q) < Was(ps, q)
  <2>1. PICK k \in 1 .. n : Names[k] = w
    BY <1>11
  <2>2. u[k] < v[k]
    BY <1>10, <1>13, <2>1
  <2>3. PICK i \in 1 .. n : v[i] < u[i]
    BY <1>7, <1>8, <1>9, <2>2, TotalsBalance
  <2>4. Is(ps, Names[i]) < Was(ps, Names[i]) /\ Names[i] \in Weakness
    BY <1>1, <1>10, <2>3
  <2>5. QED
    BY <2>4
<1>14. QED
  BY <1>12, <1>13

\* A tag that none of the points has is in neither half.
LEMMA SharesOfOthers ==
  ASSUME NEW ps \in Seq(Sessions), Len(ps) >= 2, NEW w \in Weakness
  PROVE  /\ Was(ps, w) \in Nat /\ Is(ps, w) \in Nat
         /\ w \notin Tags(ps) => Was(ps, w) = 0 /\ Is(ps, w) = 0
<1>1. PICK a, b \in Seq(Sessions) : a = Older(ps) /\ b = Recent(ps)
  BY HalvesOf
<1>2. PICK i, j \in Nat : i = TagCount(a, w) /\ j = TagCount(b, w)
  BY TagsCounted
<1>3. PICK x, y \in Nat : x = AtLeastOne(TagTotal(a)) /\ y = AtLeastOne(TagTotal(b))
  <2>1. TagTotal(a) \in Nat /\ TagTotal(b) \in Nat
    BY SharesAddUp
  <2>2. QED
    BY <2>1 DEF AtLeastOne
<1>4. Was(ps, w) = i * y /\ Is(ps, w) = j * x
  BY <1>1, <1>2, <1>3 DEF Was, Is, Share
<1>5. ASSUME w \notin Tags(ps) PROVE i = 0 /\ j = 0
  <2>1. \A k \in 1 .. Len(ps) : ~(ps[k].tags[w] > 0)
    BY <1>5, TagsCounted DEF Tags
  <2>2. PICK n, h \in Nat : n = Len(ps) /\ h = Half(ps) /\ h \in 1 .. (n - 1)
    BY HalvesOf
  <2>3. ASSUME NEW k \in 1 .. Len(a) PROVE ~(a[k].tags[w] > 0)
    <3>1. Len(a) = h /\ a[k] = ps[k] /\ k \in 1 .. n
      BY <1>1, <2>2, <2>3, HalvesOf
    <3>2. QED
      BY <2>1, <2>2, <3>1
  <2>4. ASSUME NEW k \in 1 .. Len(b) PROVE ~(b[k].tags[w] > 0)
    <3>1. Len(b) = n - h /\ k \in 1 .. (n - h)
      BY <1>1, <2>2, <2>4, HalvesOf
    <3>2. h + k \in 1 .. n
      BY <2>2, <3>1
    <3>3. b[k] = ps[h + k]
      <4>1. \A m \in 1 .. (Len(ps) - Half(ps)) : Recent(ps)[m] = ps[Half(ps) + m]
        BY HalvesOf
      <4>2. QED
        BY <1>1, <2>2, <3>1, <4>1
    <3>4. QED
      BY <2>1, <2>2, <3>2, <3>3
  <2>5. ~(TagCount(a, w) > 0) /\ ~(TagCount(b, w) > 0)
    BY <2>3, <2>4, TagsCounted
  <2>6. QED
    BY <1>2, <2>5
<1>6. i * y \in Nat /\ j * x \in Nat /\ 0 * y = 0 /\ 0 * x = 0
  BY <1>3
<1>7. QED
  BY <1>4, <1>5, <1>6

\* The first of two sessions and the last are the two halves.
LEMMA GoneIsImproving ==
  ASSUME NEW ps \in Seq(Sessions), Len(ps) = 2, NEW w \in Weakness,
         Head(ps).tags[w] > 0, ps[Len(ps)].tags[w] = 0
  PROVE  w \in Tags(ps) /\ Is(ps, w) < Was(ps, w)
<1>1. Head(ps) = ps[1] /\ ps[1] \in Sessions /\ ps[2] \in Sessions
  OBVIOUS
<1>2. PICK x, y \in Nat : x = ps[1].tags[w] /\ y = ps[2].tags[w] /\ x > 0 /\ y = 0
  BY <1>1, SessionTags
<1>3. w \in Tags(ps)
  <2>1. 1 \in 1 .. Len(ps) /\ ps[1].tags[w] > 0
    BY <1>2
  <2>2. TagCount(ps, w) > 0
    BY <2>1, TagsCounted
  <2>3. QED
    BY <2>2 DEF Tags
<1>4. PICK a, b \in Seq(Sessions) :
        a = Older(ps) /\ b = Recent(ps) /\ Len(a) = 1 /\ Len(b) = 1 /\ a[1] = ps[1] /\ b[1] = ps[2]
  <2>1. Len(ps) >= 2
    OBVIOUS
  <2>2. Half(ps) \in 1 .. (Len(ps) - 1)
    BY <2>1, HalvesOf
  <2>3. /\ Older(ps) \in Seq(Sessions) /\ Recent(ps) \in Seq(Sessions)
        /\ Len(Older(ps)) = 1 /\ Len(Recent(ps)) = 1
        /\ (\A i \in 1 .. 1 : Older(ps)[i] = ps[i]) /\ (\A i \in 1 .. 1 : Recent(ps)[i] = ps[1 + i])
    <3>1. Half(ps) = 1 /\ Len(ps) - Half(ps) = 1
      BY <2>2
    <3>2. /\ Older(ps) \in Seq(Sessions) /\ Recent(ps) \in Seq(Sessions)
          /\ Len(Older(ps)) = Half(ps) /\ Len(Recent(ps)) = Len(ps) - Half(ps)
          /\ (\A i \in 1 .. Half(ps) : Older(ps)[i] = ps[i])
          /\ \A i \in 1 .. (Len(ps) - Half(ps)) : Recent(ps)[i] = ps[Half(ps) + i]
      BY <2>1, HalvesOf
    <3>3. QED
      BY <3>1, <3>2
  <2>4. Older(ps)[1] = ps[1] /\ Recent(ps)[1] = ps[2]
    BY <2>3
  <2>5. QED
    BY <2>3, <2>4
<1>5. TagCount(a, w) > 0
  <2>1. 1 \in 1 .. Len(a) /\ a[1].tags[w] > 0
    BY <1>2, <1>4
  <2>2. QED
    BY <2>1, TagsCounted
<1>6. ~(TagCount(b, w) > 0)
  <2>1. \A k \in 1 .. Len(b) : ~(b[k].tags[w] > 0)
    BY <1>2, <1>4
  <2>2. QED
    BY <2>1, TagsCounted
<1>7. PICK i, j \in Nat : i = TagCount(a, w) /\ j = TagCount(b, w) /\ i > 0 /\ j = 0
  <2>1. TagCount(a, w) \in Nat /\ TagCount(b, w) \in Nat
    BY TagsCounted
  <2>2. QED
    BY <1>5, <1>6, <2>1
<1>8. PICK p, q \in Nat : p = AtLeastOne(TagTotal(a)) /\ q = AtLeastOne(TagTotal(b)) /\ q > 0
  <2>1. TagTotal(a) \in Nat /\ TagTotal(b) \in Nat
    BY SharesAddUp
  <2>2. QED
    BY <2>1 DEF AtLeastOne
<1>9. Was(ps, w) = i * q /\ Is(ps, w) = j * p
  BY <1>4, <1>7, <1>8 DEF Was, Is, Share
<1>10. j * p = 0 /\ i * q > 0
  BY <1>7, <1>8
<1>11. QED
  BY <1>3, <1>9, <1>10

\* What the page says of weaknesses fits together.
LEMMA TrendsBalance ==
  ASSUME NEW ps \in Seq(Sessions), NEW g, Len(ps) >= 2 => g.trend = Trend(ps), g.improved = Improved(ps)
  PROVE  TrendBalances(g, ps)
<1> SUFFICES ASSUME Cardinality(Tags(ps)) <= MaxShown, Len(ps) >= 2
             PROVE  LET states == { g.trend[w] : w \in DOMAIN g.trend }
                    IN /\ TagTotal(Older(ps)) > 0 /\ TagTotal(Recent(ps)) > 0
                          => ("WORSENING" \in states <=> "IMPROVING" \in states)
                       /\ Len(ps) = 2
                          => Cardinality({ w \in DOMAIN g.trend : g.trend[w] = "IMPROVING" }) >= g.improved
  BY DEF TrendBalances
<1>1. g.trend = [w \in Tags(ps) |-> Direction(Was(ps, w), Is(ps, w))]
  BY DEF Trend, ShownTags, Was, Is
<1>2. /\ DOMAIN g.trend = Tags(ps) /\ Tags(ps) \in SUBSET Weakness
      /\ \A w \in Tags(ps) : g.trend[w] = Direction(Was(ps, w), Is(ps, w))
  BY <1>1 DEF Tags
<1>3. \A w \in Weakness : /\ Was(ps, w) \in Nat /\ Is(ps, w) \in Nat
                          /\ w \notin Tags(ps) => Was(ps, w) = 0 /\ Is(ps, w) = 0
  BY SharesOfOthers
<1>4. \A w \in Tags(ps) : /\ g.trend[w] = "IMPROVING" <=> Is(ps, w) < Was(ps, w)
                          /\ g.trend[w] = "WORSENING" <=> Is(ps, w) > Was(ps, w)
  BY <1>2, <1>3 DEF Direction
<1>5. ASSUME TagTotal(Older(ps)) > 0, TagTotal(Recent(ps)) > 0
      PROVE  (\E w \in Tags(ps) : g.trend[w] = "WORSENING") <=> (\E w \in Tags(ps) : g.trend[w] = "IMPROVING")
  <2>1. (\E w \in Weakness : Is(ps, w) < Was(ps, w)) <=> (\E w \in Weakness : Is(ps, w) > Was(ps, w))
    BY <1>5, SharesBalance
  <2>2. \A w \in Weakness : Is(ps, w) < Was(ps, w) \/ Is(ps, w) > Was(ps, w) => w \in Tags(ps)
    BY <1>3
  <2>3. QED
    BY <1>2, <1>4, <2>1, <2>2
<1>6. ASSUME Len(ps) = 2
      PROVE  Cardinality({ w \in Tags(ps) : g.trend[w] = "IMPROVING" }) >= Improved(ps)
  <2> DEFINE gone == { w \in Weakness : Head(ps).tags[w] > 0 /\ ps[Len(ps)].tags[w] = 0 }
  <2> DEFINE better == { w \in Tags(ps) : g.trend[w] = "IMPROVING" }
  <2>1. ASSUME NEW w \in gone PROVE w \in better
    BY <1>4, <1>6, GoneIsImproving
  <2>2. better \in SUBSET Weakness /\ gone \in SUBSET better
    BY <1>2, <2>1
  <2>3. Improved(ps) = Cardinality(gone)
    BY DEF Improved
  <2> HIDE DEF gone, better
  <2>4. IsFiniteSet(better)
    BY <2>2, GrowthAssumption, FS_Subset
  <2>5. IsFiniteSet(gone) /\ Cardinality(gone) <= Cardinality(better)
    BY <2>2, <2>4, FS_Subset
  <2>6. Cardinality(gone) \in Nat /\ Cardinality(better) \in Nat
    BY <2>4, <2>5, FS_CardinalityType
  <2>7. Cardinality(better) >= Improved(ps)
    BY <2>3, <2>5, <2>6
  <2>8. QED
    BY <2>7 DEF better
<1>7. QED
  BY <1>2, <1>5, <1>6

\* A page has the scores of its points, and trends that balance.
LEMMA PageOfPoints ==
  ASSUME NEW hs \in Seq(Sessions), NEW f, NEW g, g = GrowthOf(hs, f)
  PROVE  ScoredAsListed(hs, f, g) /\ TrendBalances(g, Points(hs, f))
<1>1. PICK ps : ps = Points(hs, f)
  OBVIOUS
<1>2. PICK places : places = Places(hs, f)
  OBVIOUS
<1>3. /\ ps \in Seq(Sessions) /\ places \in SUBSET DOMAIN hs
      /\ Cardinality(places) \in Nat /\ Len(ps) = Cardinality(places)
      /\ \A p \in places : Rank(places, p) \in 1 .. Cardinality(places) /\ ps[Rank(places, p)] = hs[p]
  BY <1>1, <1>2, RankedPoints
<1>4. g.scores = [i \in DOMAIN ps |-> Score(ps[i])]
  <2>1. CASE ps = <<>>
    <3>1. g.scores = <<>>
      BY <1>1, <2>1 DEF GrowthOf
    <3>2. DOMAIN ps = {} /\ [i \in DOMAIN ps |-> Score(ps[i])] = <<>>
      BY <2>1
    <3>3. QED
      BY <3>1, <3>2
  <2>2. CASE ps # <<>>
    BY <1>1, <2>2 DEF GrowthOf
  <2>3. QED
    BY <2>1, <2>2
<1>5. PICK n \in Nat : n = Cardinality(places) /\ Len(ps) = n /\ DOMAIN ps = 1 .. n
  BY <1>3
<1>6. Len(g.scores) = n /\ \A k \in 1 .. n : g.scores[k] = Score(ps[k])
  <2>1. PICK scores : scores = [i \in 1 .. n |-> Score(ps[i])]
    OBVIOUS
  <2>2. scores = [i \in 1 .. n |-> scores[i]]
    BY <2>1
  <2>3. IsList(scores) /\ Len(scores) = n
    BY <2>2, AList
  <2>4. QED
    BY <1>4, <1>5, <2>1, <2>3
<1>7. places = { i \in DOMAIN hs : ListedAsEvaluated(hs[i], f) }
  BY <1>2, PointsAreListed DEF Places
<1>8. ASSUME NEW i \in places
      PROVE  g.scores[Cardinality({ j \in places : j <= i })] = HistoryLine(hs[i]).score
  <2>1. Rank(places, i) \in 1 .. n /\ ps[Rank(places, i)] = hs[i]
    BY <1>3, <1>5
  <2>2. g.scores[Rank(places, i)] = Score(hs[i])
    BY <1>6, <2>1
  <2>3. hs[i].report # None
    BY <1>2 DEF Places, IsPoint, Counts
  <2>4. HistoryLine(hs[i]).score = Score(hs[i])
    BY <2>3 DEF HistoryLine, Score
  <2>5. QED
    BY <2>2, <2>4 DEF Rank
<1>9. ScoredAsListed(hs, f, g)
  BY <1>5, <1>6, <1>7, <1>8 DEF ScoredAsListed
<1>10. TrendBalances(g, ps)
  <2>1. CASE ps = <<>>
    <3>1. ~(Len(ps) >= 2) /\ Len(ps) # 2
      BY <2>1
    <3>2. QED
      BY <3>1 DEF TrendBalances
  <2>2. CASE ps # <<>>
    <3>1. g.trend = Trend(ps) /\ g.improved = Improved(ps)
      BY <1>1, <2>2 DEF GrowthOf
    <3>2. QED
      BY <1>3, <3>1, TrendsBalance
  <2>3. QED
    BY <2>1, <2>2
<1>11. QED
  BY <1>1, <1>9, <1>10

LEMMA ChangedSessions ==
  ASSUME NEW s \in Sessions
  PROVE  /\ \A st \in {"open", "completed"} : [s EXCEPT !.status = st] \in Sessions
         /\ \A t \in TagCounts : [s EXCEPT !.tags = t] \in Sessions
         /\ \A v \in Versions : [s EXCEPT !.versions = v] \in Sessions
         /\ \A r \in ReportRows : [s EXCEPT !.report = r] \in Sessions
         /\ s.report # None => s.report \in ReportRows
BY DEF Sessions

\* A step adds a session or changes some.
LEMMA GrowthChange ==
  ASSUME GrowthInv, GrowthNext
  PROVE  /\ history' \in Seq(Sessions) /\ Len(history) <= Len(history')
         /\ growth' = GrowthOf(history', filter) /\ filter' = filter
<1>1. history \in Seq(Sessions) /\ \A i \in DOMAIN history : history[i] \in Sessions
  BY DEF GrowthInv
<1>2. ASSUME NEW k \in Kinds, NEW v \in Versions, Create(k, v)
      PROVE  history' \in Seq(Sessions) /\ Len(history) <= Len(history')
  <2>1. PICK t \in TagCounts :
          history' = Append(history, [status |-> "open", kind |-> k, versions |-> v, tags |-> t, report |-> None])
    BY <1>2 DEF Create, ChangeAndLook
  <2>2. [status |-> "open", kind |-> k, versions |-> v, tags |-> t, report |-> None] \in Sessions
    BY DEF Sessions
  <2>3. QED
    BY <1>1, <2>1, <2>2
<1>3. ASSUME NEW i \in DOMAIN history, NEW s \in Sessions, Change(i, s)
      PROVE  history' \in Seq(Sessions) /\ Len(history) <= Len(history')
  BY <1>1, <1>3 DEF Change, ChangeAndLook
<1>4. ASSUME NEW i \in DOMAIN history, NEW st \in {"open", "completed"}, SetStatus(i, st)
      PROVE  history' \in Seq(Sessions) /\ Len(history) <= Len(history')
  <2>1. [history[i] EXCEPT !.status = st] \in Sessions
    <3>1. PICK s \in Sessions : s = history[i]
      BY <1>1
    <3>2. [s EXCEPT !.status = st] \in Sessions
      BY ChangedSessions
    <3>3. QED
      BY <3>1, <3>2
  <2>2. QED
    BY <1>3, <1>4, <2>1 DEF SetStatus
<1>5. ASSUME NEW i \in DOMAIN history, NEW t \in TagCounts, TagsFound(i, t)
      PROVE  history' \in Seq(Sessions) /\ Len(history) <= Len(history')
  <2>1. [history[i] EXCEPT !.tags = t] \in Sessions
    <3>1. PICK s \in Sessions : s = history[i]
      BY <1>1
    <3>2. [s EXCEPT !.tags = t] \in Sessions
      BY ChangedSessions
    <3>3. QED
      BY <3>1, <3>2
  <2>2. QED
    BY <1>3, <1>5, <2>1 DEF TagsFound
<1>6. ASSUME NEW i \in DOMAIN history, NEW v \in Versions, PromptsChosen(i, v)
      PROVE  history' \in Seq(Sessions) /\ Len(history) <= Len(history')
  <2>1. [history[i] EXCEPT !.versions = v] \in Sessions
    <3>1. PICK s \in Sessions : s = history[i]
      BY <1>1
    <3>2. [s EXCEPT !.versions = v] \in Sessions
      BY ChangedSessions
    <3>3. QED
      BY <3>1, <3>2
  <2>2. QED
    BY <1>3, <1>6, <2>1 DEF PromptsChosen
<1>7. ASSUME NEW i \in DOMAIN history, NEW r \in ReportRows PROVE [history[i] EXCEPT !.report = r] \in Sessions
  <2>1. PICK s \in Sessions : s = history[i]
    BY <1>1
  <2>2. [s EXCEPT !.report = r] \in Sessions
    BY ChangedSessions
  <2>3. QED
    BY <2>1, <2>2
<1>8. ASSUME NEW i \in DOMAIN history, history[i].report # None PROVE history[i].report \in ReportRows
  <2>1. PICK s \in Sessions : s = history[i]
    BY <1>1
  <2>2. QED
    BY <1>8, <2>1, ChangedSessions
<1>9. ASSUME NEW i \in DOMAIN history, ReportClaimed(i)
      PROVE  history' \in Seq(Sessions) /\ Len(history) <= Len(history')
  <2> DEFINE r == [status |-> "processing", summary |-> IF history[i].report = None THEN EmptySummary
                                                        ELSE history[i].report.summary]
  <2>1. r \in ReportRows
    BY <1>8 DEF ReportRows
  <2>2. Change(i, [history[i] EXCEPT !.report = r])
    BY <1>9 DEF ReportClaimed
  <2> HIDE DEF r
  <2>3. QED
    BY <1>3, <1>7, <2>1, <2>2
<1>10. ASSUME NEW i \in DOMAIN history, NEW sm \in Summaries, ReportWritten(i, sm)
       PROVE  history' \in Seq(Sessions) /\ Len(history) <= Len(history')
  <2> DEFINE r == [status |-> IF sm.answers > 0 /\ sm.evaluated = 0 THEN "failed" ELSE "done", summary |-> sm]
  <2>1. r \in ReportRows
    BY DEF ReportRows
  <2>2. Change(i, [history[i] EXCEPT !.report = r])
    BY <1>10 DEF ReportWritten
  <2> HIDE DEF r
  <2>3. QED
    BY <1>3, <1>7, <2>1, <2>2
<1>11. ASSUME NEW i \in DOMAIN history, ReportFailed(i)
       PROVE  history' \in Seq(Sessions) /\ Len(history) <= Len(history')
  <2>1. history[i].report \in ReportRows /\ history[i] \in Sessions
    BY <1>1, <1>8, <1>11 DEF ReportFailed
  <2>2. [history[i] EXCEPT !.report.status = "failed"] \in Sessions
    BY <2>1 DEF Sessions, ReportRows
  <2>3. QED
    BY <1>3, <1>11, <2>2 DEF ReportFailed
<1>12. history' \in Seq(Sessions) /\ Len(history) <= Len(history')
  BY <1>2, <1>4, <1>5, <1>6, <1>9, <1>10, <1>11 DEF GrowthNext
<1>13. growth' = GrowthOf(history', filter) /\ filter' = filter
  BY DEF GrowthNext, Create, SetStatus, TagsFound, PromptsChosen, ReportClaimed, ReportWritten,
         ReportFailed, Change, ChangeAndLook
<1>14. QED
  BY <1>12, <1>13

\* What the next page is of.
Follows ==
  /\ growth' # growth
       => \E i \in DOMAIN history' :
            \/ i \in DOMAIN history /\ history'[i] # history[i]
               /\ (ListedAsEvaluated(history[i], filter) \/ ListedAsEvaluated(history'[i], filter))
            \/ i \notin DOMAIN history /\ ListedAsEvaluated(history'[i], filter)
  /\ ScoredAsListed(history', filter, growth')
  /\ TrendBalances(growth', Points(history', filter))

LEMMA GrowthSteps ==
  ASSUME GrowthInv, GrowthNext
  PROVE  GrowthInv' /\ Follows
<1>1. PICK hs, gs, f : hs = history /\ gs = history' /\ f = filter
  OBVIOUS
<1>2. hs \in Seq(Sessions) /\ growth = GrowthOf(hs, f)
  BY <1>1 DEF GrowthInv
<1>3. gs \in Seq(Sessions) /\ Len(hs) <= Len(gs) /\ growth' = GrowthOf(gs, f) /\ filter' = f
  BY <1>1, GrowthChange
<1>4. GrowthInv'
  BY <1>1, <1>3 DEF GrowthInv
<1>5. PICK g : g = growth'
  OBVIOUS
<1>6. ScoredAsListed(gs, f, g) /\ TrendBalances(g, Points(gs, f))
  BY <1>3, <1>5, PageOfPoints
<1>7. ASSUME \A i \in DOMAIN gs :
               /\ i \in DOMAIN hs => gs[i] = hs[i] \/ (~IsPoint(hs[i], f) /\ ~IsPoint(gs[i], f))
               /\ i \notin DOMAIN hs => ~IsPoint(gs[i], f)
      PROVE  growth' = growth
  <2>1. \A i \in DOMAIN hs : i \in DOMAIN gs
    BY <1>2, <1>3
  <2>2. Points(gs, f) = Points(hs, f)
    BY <1>2, <1>3, <1>7, <2>1, OthersAreNoPoints
  <2>3. GrowthOf(gs, f) = GrowthOf(hs, f)
    BY <2>2 DEF GrowthOf
  <2>4. QED
    BY <1>2, <1>3, <2>3
<1>8. growth' # growth
        => \E i \in DOMAIN gs :
             \/ i \in DOMAIN hs /\ gs[i] # hs[i] /\ (ListedAsEvaluated(hs[i], f) \/ ListedAsEvaluated(gs[i], f))
             \/ i \notin DOMAIN hs /\ ListedAsEvaluated(gs[i], f)
  <2> SUFFICES ASSUME \A i \in DOMAIN gs :
                        /\ i \in DOMAIN hs /\ gs[i] # hs[i] => ~IsPoint(hs[i], f) /\ ~IsPoint(gs[i], f)
                        /\ i \notin DOMAIN hs => ~IsPoint(gs[i], f)
               PROVE  growth' = growth
    BY PointsAreListed
  <2>1. QED
    BY <1>7
<1>9. Follows
  BY <1>1, <1>5, <1>6, <1>8 DEF Follows
<1>10. QED
  BY <1>4, <1>9

\* The page of growth changes only with a session that is listed as evaluated or was, and has
\* the listed scores in the order the sessions were created, whatever is created, set back,
\* evaluated and generated anew, and its trends balance.
THEOREM GrowthFollowsEvaluationsCorrect == GrowthSpec => GrowthFollowsEvaluations
<1>1. GrowthInit => GrowthInv
  BY HistoriesAssumption DEF GrowthInit, GrowthInv
<1>2. GrowthInv /\ [GrowthNext]_growthVars => GrowthInv' /\ [Follows]_growthVars
  <2>1. ASSUME GrowthInv, UNCHANGED growthVars PROVE GrowthInv'
    BY <2>1 DEF GrowthInv, growthVars
  <2>2. QED
    BY <2>1, GrowthSteps
<1>3. GrowthSpec => [][Follows]_growthVars
  BY <1>1, <1>2, PTL DEF GrowthSpec
<1>4. QED
  BY <1>3 DEF GrowthFollowsEvaluations, Follows
=============================================================================
