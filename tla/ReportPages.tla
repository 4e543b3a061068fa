----------------------------- MODULE ReportPages -----------------------------
(***************************************************************************)
(* What a user does with a finished report (report/views.py): action plans *)
(* of which a report has at most three, the reward for each, and links     *)
(* that show it to anybody for some days.  No request runs in a            *)
(* transaction: what was counted or looked for may have changed when the   *)
(* row is inserted.                                                        *)
(***************************************************************************)
EXTENDS Naturals, FiniteSets, Sequences

CONSTANTS Viewer,      \* requests of the report's owner
          PlanLimit,   \* ReportActionPlanCreateView: plans a report may have
          ExpiryDays,  \* ReportShareToken.EXPIRY_DAYS
          MaxDay,      \* bound: days
          MaxLinks     \* bound: links issued

ASSUME PagesAssumption ==
  /\ IsFiniteSet(Viewer) /\ Viewer # {}
  /\ PlanLimit \in Nat /\ ExpiryDays \in Nat \ {0} /\ MaxDay \in Nat /\ MaxLinks \in Nat

VARIABLES
  plans,     \* the report's plans: how many are in each state
  planPaid,  \* how many of them were rewarded
  expires,   \* the links issued: the day each expires
  today,
  viewer     \* where a request is

pageVars == <<plans, planPaid, expires, today, viewer>>

PlanStates == {"TODO", "IN_PROGRESS", "DONE"}

PagesInit ==
  /\ plans = [s \in PlanStates |-> 0] /\ planPaid = 0 /\ expires = <<>>
  /\ today = 0
  /\ viewer = [c \in Viewer |-> "idle"]

ViewerGoes(c, to) == viewer' = [viewer EXCEPT ![c] = to]

Plans == plans["TODO"] + plans["IN_PROGRESS"] + plans["DONE"]

-----------------------------------------------------------------------------
(* Action plans *)

\* As if the plan about to be inserted were not counted.
HasRoomUpToLimit == Plans <= PlanLimit

HasRoom == Plans < PlanLimit

\* ReportActionPlanCreateView.post: with no room left it answers 400.
CountPlans(c) ==
  /\ viewer[c] = "idle" /\ HasRoom
  /\ ViewerGoes(c, "insert")
  /\ UNCHANGED <<plans, planPaid, expires, today>>

InsertPlan(c) ==
  /\ viewer[c] = "insert"
  /\ plans' = [plans EXCEPT !["TODO"] = @ + 1]
  /\ ViewerGoes(c, "reward")
  /\ UNCHANGED <<planPaid, expires, today>>

\* The key of the reward is the plan just inserted.  A policy that refuses is passed over.
RewardPlan(c) ==
  /\ viewer[c] = "reward"
  /\ planPaid' \in {planPaid, planPaid + 1}
  /\ ViewerGoes(c, "idle")
  /\ UNCHANGED <<plans, expires, today>>

\* ActionPlanPatchView.patch: any state follows any other.
PatchPlan(from, to) ==
  /\ from # to /\ plans[from] > 0
  /\ plans' = [plans EXCEPT ![from] = @ - 1, ![to] = @ + 1]
  /\ UNCHANGED <<planPaid, expires, today, viewer>>

-----------------------------------------------------------------------------
(* Shared links *)

Live(k) == today < expires[k]

LiveLinks == { k \in DOMAIN expires : Live(k) }

\* ShareLinkCreateView.post: a live link is handed out again.
FindLink(c) ==
  /\ viewer[c] = "idle" /\ LiveLinks = {}
  /\ ViewerGoes(c, "link")
  /\ UNCHANGED <<plans, planPaid, expires, today>>

CreateLink(c) ==
  /\ viewer[c] = "link" /\ Len(expires) < MaxLinks
  /\ expires' = Append(expires, today + ExpiryDays)
  /\ ViewerGoes(c, "idle")
  /\ UNCHANGED <<plans, planPaid, today>>

ADayPasses ==
  /\ today < MaxDay
  /\ today' = today + 1
  /\ UNCHANGED <<plans, planPaid, expires, viewer>>

\* A worker is killed; what it inserted stays.
ViewerDies(c) ==
  /\ viewer[c] # "idle"
  /\ ViewerGoes(c, "idle")
  /\ UNCHANGED <<plans, planPaid, expires, today>>

PagesNext ==
  \/ \E c \in Viewer :
       CountPlans(c) \/ InsertPlan(c) \/ RewardPlan(c) \/ FindLink(c) \/ CreateLink(c) \/ ViewerDies(c)
  \/ \E from, to \in PlanStates : PatchPlan(from, to)
  \/ ADayPasses

PagesSpec == PagesInit /\ [][PagesNext]_pageVars

-----------------------------------------------------------------------------
(* Properties *)

PagesTypeOK ==
  /\ plans \in [PlanStates -> Nat] /\ planPaid \in 0 .. Plans
  /\ viewer \in [Viewer -> {"idle", "insert", "reward", "link"}]
  /\ today \in 0 .. MaxDay /\ Len(expires) <= MaxLinks

\* However requests overlap or die, and whatever expires meanwhile, the unlocked checks
\* are passed by no more than the requests under way: a report has at most so many
\* plans above its limit as further requests can overlap, and at most one live link for
\* each (report/views.py:219, report/models.py:209).
ChecksPassedTogether ==
  /\ Plans + Cardinality({ c \in Viewer : viewer[c] = "insert" })
       <= PlanLimit + Cardinality(Viewer) - 1
  /\ Cardinality(LiveLinks) + Cardinality({ c \in Viewer : viewer[c] = "link" })
       <= Cardinality(Viewer)
=============================================================================
