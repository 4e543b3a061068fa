------------------------------ MODULE MCAccounts ------------------------------
(***************************************************************************)
(* Instances of the account modules and of the pages a user has of his own *)
(* for TLC.  They share no variable, so one run takes them one after the   *)
(* other: a behaviour is one of signing up, of the codes of accounts from  *)
(* before, of social sign-in, of the life of an account, of a roadmap, of  *)
(* the pages of a report, of the page of growth, of job offers, or of      *)
(* spoken answers.  No symmetry: the run checks a liveness property.       *)
(***************************************************************************)
EXTENDS PendingSignup, LegacyCodes, SocialSignIn, AccountLifecycle,
        Roadmap, ReportPages, GrowthPage, JobOffers, SpeechAnswers

VARIABLE part

CONSTANTS wa, wb, wc, NA

-----------------------------------------------------------------------------
(* Sessions and reports for the page of growth *)

Sum(sc, mk, ex, an, ev, m) ==
  [scores |-> sc, mock |-> mk, stated |-> ex, answers |-> an, evaluated |-> ev, metric |-> m]

Good(n) == Sum(<<n, NA, NA, NA>>, "no", NA, 2, 2, 50)

MCSummaries ==
  { Good(70), Good(90), Sum(<<NA, NA, 60, NA>>, "no", "COMPLETED", 1, 0, NA),
    Sum(<<50, NA, NA, NA>>, "source", NA, 2, 1, 60), Sum(<<0, NA, NA, NA>>, "no", NA, 2, 0, 60) }

TagsOf(a, b, c) == [w \in {wa, wb, wc} |-> IF w = wa THEN a ELSE IF w = wb THEN b ELSE c]

MCTagCounts == { TagsOf(0, 0, 0), TagsOf(1, 0, 0), TagsOf(0, 1, 0), TagsOf(2, 1, 0), TagsOf(1, 0, 2) }

Row(st, k, v, t, rs, sm) ==
  [status |-> st, kind |-> k, versions |-> v, tags |-> t,
   report |-> IF rs = NA THEN NA ELSE [status |-> rs, summary |-> sm]]

MCRows ==
  { Row("completed", "technical", 1, t, "done", Good(70)) : t \in MCTagCounts }
  \cup { Row("completed", "job", 2, t, "done", Good(90)) : t \in {TagsOf(0, 1, 0), TagsOf(2, 1, 0)} }
  \cup { Row("open", "job", 1, TagsOf(1, 0, 0), "done", Good(70)),
         Row("completed", "job", 1, TagsOf(1, 0, 0), "processing", Good(90)),
         Row("completed", "technical", 1, TagsOf(0, 0, 0), NA, NA) }

MCHistories == UNION { [1 .. n -> MCRows] : n \in 0 .. 3 }

MCFilters == {NA, "job"}

-----------------------------------------------------------------------------
(* Catalogs and what is asked of them *)

Offer(i, te, pl, wo, co, pos, po, de) ==
  [id |-> i, tech |-> te, place |-> pl, words |-> wo, company |-> co, position |-> pos, posted |-> po, deadline |-> de]

MCCatalogs ==
  << Generated(<< [tech |-> {"py"}, words |-> {"api"}, position |-> 2],
                  [tech |-> {"js"}, words |-> {"web"}, position |-> 3],
                  [tech |-> {"py", "sql"}, words |-> {"api"}, position |-> 1] >>,
               <<2, 1>>, <<"Seoul", "Seoul", "Busan", "Seoul">>),
     << Offer(1, {"js"}, "Busan", {"web"}, 2, 3, 1, 40),
        Offer(2, {"py", "sql"}, "Seoul", {"data"}, 1, 1, 2, 31),
        Offer(3, {"py"}, "Seoul", {"web"}, 2, 2, 3, 50) >> >>

MCQueries ==
  [word : {"", "api"}, tech : {{}, {"py"}}, place : {"", "Seoul"},
   sort : {"latest", "oldest", "deadline", "-deadline", "company", "position", "unknown"}, size : {0, 1, 3}]

-----------------------------------------------------------------------------
(* What is said in a recording *)

Said(s, a, b) == [word |-> s, start |-> a, end |-> b]

Heard(ws, n, ch) ==
  [timed |-> ws,
   text |-> [words |-> n, chars |-> ch,
             action |-> IF n = 3 THEN "BLOCK_INPUT" ELSE IF ch = 9 THEN "REQUIRE_ADMIN_REVIEW" ELSE "GUIDE"]]

MCTyped == {[words |-> 1, chars |-> 6, action |-> "GUIDE"]}

MCHeard ==
  { Heard(<<>>, 2, 9),
    Heard(<<Said("um", 0, 4), Said("x", 9, 15)>>, 2, 5),
    Heard(<<Said("x", 2, 10), Said("um", 45, 49), Said("y", 53, 60)>>, 3, 8),
    Heard(<<Said("x", 0, 8), Said("y", 6, 12)>>, 2, 9),
    Heard(<<Said("x", 0, 3), Said("y", 6, 12)>>, 2, 9) }

MCRecordings ==
  [type : {"webm"}, size : {1}, heard : MCHeard]
  \cup { [type |-> "webm", size |-> 0, heard |-> Heard(<<>>, 0, 0)],
         [type |-> "webm", size |-> 26, heard |-> Heard(<<>>, 0, 0)],
         [type |-> "wav", size |-> 1, heard |-> Heard(<<>>, 0, 0)] }

MCFillers == {"um"}

-----------------------------------------------------------------------------

\* The initial choices of the parts that are not looked at are fixed.
MCInit ==
  /\ part \in {"signUp", "legacy", "social", "lifecycle", "roadmap", "report", "growth", "offers", "speech"}
  /\ Init /\ LegacyInit /\ AccountInit /\ RoadmapInit /\ PagesInit
  /\ IF part = "growth" THEN GrowthInit
     ELSE history = <<>> /\ filter = NA /\ growth = GrowthOf(<<>>, NA) /\ changed = 0
  /\ OffersInit
  /\ part # "offers" => listing = [word |-> "", tech |-> {}, place |-> "", sort |-> "latest", size |-> 0]
  /\ SpeechInit
  /\ part # "speech" => \A c \in Speaker : recording[c].type = "webm" /\ recording[c].size = 0
  /\ IF part = "social" THEN SocialInit
     ELSE /\ signedState = "none" /\ users = <<>> /\ linked = 0 /\ agreed = FALSE /\ browser = [b \in Browser |-> Away]
          /\ exchange = [k \in CodeId |-> "none"] /\ needsTerms = [k \in CodeId |-> FALSE]
          /\ lapsedCode = {} /\ opened = [k \in CodeId |-> 0] /\ welcomed = 0

signVars == <<vars, legacyVars, socialVars, accountVars>>

ownVars == <<roadmapVars, pageVars, growthVars, offerVars, speechVars>>

SignUpStep == part = "signUp" /\ Next /\ UNCHANGED <<legacyVars, socialVars, accountVars, ownVars>>
LegacyStep == part = "legacy" /\ LegacyNext /\ UNCHANGED <<vars, socialVars, accountVars, ownVars>>
SocialStep == part = "social" /\ SocialNext /\ UNCHANGED <<vars, legacyVars, accountVars, ownVars>>
LifecycleStep == part = "lifecycle" /\ AccountNext /\ UNCHANGED <<vars, legacyVars, socialVars, ownVars>>

RoadmapStep ==
  part = "roadmap" /\ RoadmapNext /\ UNCHANGED <<signVars, pageVars, growthVars, offerVars, speechVars>>
ReportStep ==
  part = "report" /\ PagesNext /\ UNCHANGED <<signVars, roadmapVars, growthVars, offerVars, speechVars>>
GrowthStep ==
  part = "growth" /\ GrowthNext /\ UNCHANGED <<signVars, roadmapVars, pageVars, offerVars, speechVars>>
OffersStep ==
  part = "offers" /\ OffersNext /\ UNCHANGED <<signVars, roadmapVars, pageVars, growthVars, speechVars>>
SpeechStep ==
  part = "speech" /\ SpeechNext /\ UNCHANGED <<signVars, roadmapVars, pageVars, growthVars, offerVars>>

MCNext ==
  /\ \/ SignUpStep \/ LegacyStep \/ SocialStep \/ LifecycleStep
     \/ RoadmapStep \/ ReportStep \/ GrowthStep \/ OffersStep \/ SpeechStep
  /\ UNCHANGED part

MCSpec == MCInit /\ [][MCNext]_<<part, signVars, ownVars>> /\ NightlyJobs
=============================================================================
