--------------------------- MODULE MCPointLedger ---------------------------
(***************************************************************************)
(* Instances of PointLedger for TLC.  Amounts are scaled down; the flags   *)
(* and limits are those the seed migrations and POINT_POLICIES give.       *)
(***************************************************************************)
EXTENDS PointLedger

MCAmount == -1 .. 3

MCReason == {"INTERVIEW.COMPLETED", "JD.FIRST_CREATED", "INTERVIEW.SESSION_STARTED",
             "REPORT.FIRST_VIEWED", "ADMIN.ADJUSTMENT"}

Policy(type, amount, daily, monthly, account, reference) ==
  [type |-> type, amount |-> amount, daily_limit |-> daily, monthly_limit |-> monthly,
   account_once |-> account, per_reference_once |-> reference]

\* migrations 0009 and 0011
MCSeedPolicy ==
  [x \in MCReason |->
     CASE x = "INTERVIEW.COMPLETED"       -> Policy("EARN", 3, 9, 30, FALSE, TRUE)
       [] x = "JD.FIRST_CREATED"          -> Policy("EARN", 2, NoLimit, NoLimit, TRUE, FALSE)
       [] x = "INTERVIEW.SESSION_STARTED" -> Policy("USE", -1, NoLimit, NoLimit, FALSE, TRUE)
       [] x = "REPORT.FIRST_VIEWED"       -> Policy("EARN", 1, 2, 2, FALSE, TRUE)
       [] OTHER                           -> Policy("ADMIN", 1, NoLimit, NoLimit, FALSE, FALSE)]

\* _default_policy_for has no period limits
MCDefaultPolicy ==
  [x \in MCReason |-> [MCSeedPolicy[x] EXCEPT !.daily_limit = NoLimit,
                                             !.monthly_limit = NoLimit]]

PolicyCall(u, reason, ref, key) ==
  [kind |-> "policy", user |-> u, reason |-> reason, ref |-> ref, key |-> key,
   type |-> "ADMIN", amount |-> 1]

Adjust(u, amount, key) ==
  [kind |-> "direct", user |-> u, reason |-> "ADMIN.ADJUSTMENT", ref |-> NoReference,
   key |-> key, type |-> "ADMIN", amount |-> amount]

Refund(u, reason, ref, key) ==
  [kind |-> "direct", user |-> u, reason |-> reason, ref |-> ref,
   key |-> key, type |-> "REFUND", amount |-> 1]

\* two sessions of one user completed; the first document, created twice
Completed(u, s) == PolicyCall(u, "INTERVIEW.COMPLETED", s, "completed " \o s)
Started(u, s)   == PolicyCall(u, "INTERVIEW.SESSION_STARTED", s, "started " \o s)
FirstJd(u, jd)  == PolicyCall(u, "JD.FIRST_CREATED", jd, "jd " \o u)
Viewed(u, x)    == PolicyCall(u, "REPORT.FIRST_VIEWED", x, "viewed " \o x)

MCReference == {"s1", "s2", "jd1", "jd2", "x1", "x2", "x3"}

ConcurrentCalls ==
  {Completed("u1", "s1"), Started("u1", "s1"), FirstJd("u1", "jd1"), FirstJd("u1", "jd2"),
   Adjust("u1", 1, "k"), Adjust("u2", 1, "k"), Adjust("u1", -1, NoKey),
   Adjust("u1", 0, NoKey)}

SerialCalls ==
  {Completed("u1", "s1"), Completed("u1", "s2")}
  \cup {Viewed("u1", x) : x \in {"x1", "x2", "x3"}}

TwoCompletions == {Completed("u1", "s1"), Completed("u1", "s2")}

MCKey == {c.key : c \in ConcurrentCalls \cup SerialCalls} \ {NoKey}

SetTo(x, a, active) == [reason |-> x, amount |-> a, is_active |-> active]

\* a reward is raised, another is switched off and on again
PolicyChanges ==
  {SetTo("REPORT.FIRST_VIEWED", 2, TRUE), SetTo("INTERVIEW.COMPLETED", 3, FALSE),
   SetTo("INTERVIEW.COMPLETED", 3, TRUE)}
=============================================================================
