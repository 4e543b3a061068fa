---------------------------- MODULE PromptVersions ----------------------------
(***************************************************************************)
(* The prompt templates of one persona and their versions (apps/prompt):   *)
(* what administrators change, and which prompt the interview engine       *)
(* then runs with.                                                         *)
(*                                                                         *)
(* Only the numbering of versions locks a row.  The other routes validate  *)
(* on one read and write by a later statement, so two administrators may   *)
(* delete and activate the same template.                                  *)
(***************************************************************************)
EXTENDS Naturals, FiniteSets

CONSTANTS Template,     \* templates that may be created
          PromptType,   \* prompt types
          SeedType,     \* the type whose template the seed activates
          Admin,        \* administrators at work at once
          MaxVersions,  \* bound: versions of a template
          MaxChanges,   \* bound: writes
          NoTemplate

ASSUME PromptBoundAssumption == MaxVersions \in Nat /\ MaxChanges \in Nat /\ SeedType \in PromptType
ASSUME NoTemplateAssumption == NoTemplate \notin Template

VARIABLES
  template,   \* the rows: [type, live, default, versions, touched]
  activated,  \* persona_configs.active_template
  admin,      \* what each administrator's request has validated: [at, on, version]
  changes     \* writes so far, the clock of updated_at

promptVars == <<template, activated, admin, changes>>

\* versions counts the rows, which are numbered 1, 2, ...; default 0 is null.
Absent == [type |-> SeedType, live |-> FALSE, default |-> 0, versions |-> 0, touched |-> 0]
Created == { t \in Template : template[t].touched > 0 }
Waiting == [at |-> "idle", on |-> NoTemplate, version |-> 0]

PromptInit ==
  /\ template = [t \in Template |-> Absent]
  /\ activated = NoTemplate
  /\ admin = [a \in Admin |-> Waiting]
  /\ changes = 0

Tick == changes < MaxChanges /\ changes' = changes + 1
Validated(a, at, t, v) == admin' = [admin EXCEPT ![a] = [at |-> at, on |-> t, version |-> v]]
Responded(a) == admin' = [admin EXCEPT ![a] = Waiting]

\* PromptTemplateListCreateView.post
CreateTemplate(t, type) ==
  /\ t \notin Created /\ Tick
  /\ template' = [template EXCEPT ![t] =
       [Absent EXCEPT !.type = type, !.live = TRUE, !.touched = changes + 1]]
  /\ UNCHANGED <<activated, admin>>

\* PromptVersionListCreateView.post, under the lock of the template: the next
\* number, and the default when there is none.
CreateVersion(t) ==
  /\ template[t].live /\ template[t].versions < MaxVersions /\ Tick
  /\ template' = [template EXCEPT
       ![t].versions = @ + 1,
       ![t].default = IF @ = 0 THEN template[t].versions + 1 ELSE @,
       ![t].touched = IF template[t].default = 0 THEN changes + 1 ELSE @]
  /\ UNCHANGED <<activated, admin>>

\* PromptDefaultVersionView.patch
AskDefault(a, t, v) ==
  /\ admin[a].at = "idle" /\ template[t].live /\ v \in 1 .. template[t].versions
  /\ Validated(a, "default", t, v)
  /\ UNCHANGED <<template, activated, changes>>

SaveDefault(a) ==
  /\ admin[a].at = "default" /\ Tick
  /\ template' = [template EXCEPT ![admin[a].on].default = admin[a].version,
                                  ![admin[a].on].touched = changes + 1]
  /\ Responded(a)
  /\ UNCHANGED activated

\* PersonaActiveTemplateView.patch: null, or a live template of any type.
AskActive(a, t) ==
  /\ admin[a].at = "idle"
  /\ t # NoTemplate => template[t].live
  /\ Validated(a, "active", t, 0)
  /\ UNCHANGED <<template, activated, changes>>

SaveActive(a) ==
  /\ admin[a].at = "active" /\ Tick
  /\ activated' = admin[a].on
  /\ Responded(a)
  /\ UNCHANGED template

\* PromptTemplateDeleteView.delete refuses the active template, then marks it.
AskDelete(a, t) ==
  /\ admin[a].at = "idle" /\ template[t].live /\ activated # t
  /\ Validated(a, "delete", t, 0)
  /\ UNCHANGED <<template, activated, changes>>

SaveDelete(a) ==
  /\ admin[a].at = "delete" /\ Tick
  /\ template' = [template EXCEPT ![admin[a].on].live = FALSE,
                                  ![admin[a].on].touched = changes + 1]
  /\ Responded(a)
  /\ UNCHANGED activated

\* _select_seed_template: the active one, else one with the seed's title, else one
\* that is live; which one has the title, deleted ones included, is left open.
\* A template is created when the type has none.
SeedChoice(type) ==
  LET all == { t \in Created : template[t].type = type }
  IN IF type = SeedType /\ activated \in all THEN {activated}
     ELSE IF all # {} THEN all ELSE Template \ Created

\* The command seed_interview_prompts, for one type, in its transaction: it
\* revives a template, rewrites version 1 and makes it the default, activates
\* the template of SeedType and, with --dedupe, marks the others deleted.
Seed(t, type, dedupe) ==
  /\ t \in SeedChoice(type) /\ Tick
  /\ template' = [u \in Template |->
       IF u = t THEN [type |-> type, live |-> TRUE, default |-> 1, touched |-> changes + 1,
                      versions |-> IF template[t].versions = 0 THEN 1 ELSE template[t].versions]
       ELSE IF dedupe /\ u \in Created /\ template[u].type = type
       THEN [template[u] EXCEPT !.live = FALSE]
       ELSE template[u]]
  /\ activated' = IF type = SeedType THEN t ELSE activated
  /\ UNCHANGED admin

PromptNext ==
  \/ \E t \in Template, type \in PromptType :
        CreateTemplate(t, type) \/ \E dedupe \in BOOLEAN : Seed(t, type, dedupe)
  \/ \E t \in Template : CreateVersion(t)
  \/ \E a \in Admin :
        \/ \E t \in Template : AskDelete(a, t) \/ \E v \in 1 .. MaxVersions : AskDefault(a, t, v)
        \/ \E t \in Template \cup {NoTemplate} : AskActive(a, t)
        \/ SaveDefault(a) \/ SaveActive(a) \/ SaveDelete(a)

PromptSpec == PromptInit /\ [][PromptNext]_promptVars

-----------------------------------------------------------------------------
(* What the engine runs with *)

Ready(t, type) == template[t].type = type /\ template[t].live /\ template[t].default # 0
Newer(t, u) == template[t].touched >= template[u].touched

\* bug: the active template is served although it was deleted
RuntimeUnchecked(type) ==
  IF activated # NoTemplate /\ template[activated].type = type /\ template[activated].default # 0
  THEN [of |-> activated, version |-> template[activated].default]
  ELSE LET ready == { t \in Template : Ready(t, type) }
       IN IF ready = {} THEN [of |-> NoTemplate, version |-> 0]
          ELSE LET t == CHOOSE t \in ready : \A u \in ready : Newer(t, u)
               IN [of |-> t, version |-> template[t].default]

\* get_runtime_prompt_version: the activated template when it has the type, else
\* the one that was changed last; NoTemplate when the engine falls back to the
\* prompt in its source.
Runtime(type) ==
  IF activated # NoTemplate /\ Ready(activated, type)
  THEN [of |-> activated, version |-> template[activated].default]
  ELSE LET ready == { t \in Template : Ready(t, type) }
       IN IF ready = {} THEN [of |-> NoTemplate, version |-> 0]
          ELSE LET t == CHOOSE t \in ready : \A u \in ready : Newer(t, u)
               IN [of |-> t, version |-> template[t].default]

\* get_runtime_prompt_version_by_id and _resolve_system_prompt: a version that
\* was asked for and is not usable is replaced by the one in use.
Resolved(type, t, v) ==
  IF t \in Created /\ template[t].live /\ template[t].type = type /\ v \in 1 .. template[t].versions
  THEN [of |-> t, version |-> v]
  ELSE Runtime(type)

-----------------------------------------------------------------------------
(* Properties *)

\* However administrators overlap, the engine runs with an existing version of
\* a template that is not deleted, also while a deleted template is still the
\* activated one; and it falls back to its source only when no template of
\* the type that is not deleted has a version.
ServedPromptIsLive ==
  \A type \in PromptType :
    LET live == { t \in Created : template[t].live /\ template[t].type = type /\ template[t].versions > 0 }
    IN /\ Runtime(type).of = NoTemplate => live = {}
       /\ \A t \in Template, v \in 0 .. MaxVersions :
            LET r == Resolved(type, t, v)
            IN r.of # NoTemplate => r.of \in live /\ r.version \in 1 .. template[r.of].versions
=============================================================================
