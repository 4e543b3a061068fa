--------------------------- MODULE InterviewProofs ----------------------------
(***************************************************************************)
(* Proofs about an interview session, for every number of requests,        *)
(* questions and calls: the prompts its questions are generated with       *)
(* (PromptVersions), its follow-up questions (FollowUps), its row, its     *)
(* main questions and its reward (InterviewSession), the weakness rows of  *)
(* its answers (WeaknessRows), what is read of an analysis for its         *)
(* questions (InterviewMaterial), the follow-up question an answer gets    *)
(* (FollowupQuestion), the selection of its questions (QuestionSelection), *)
(* and what is stored of their origin (QuestionTags).                      *)
(*                                                                         *)
(* A session stays consistent because of OneSet and Undisturbed: the index *)
(* of a question is unique, so a call that stores row by row finds either  *)
(* its own rows behind it or a conflict, and as long as no generation      *)
(* overlaps another or dies, what is stored is what the one that runs has  *)
(* stored.                                                                 *)
(***************************************************************************)
EXTENDS PromptVersions, FollowUps, InterviewSession, WeaknessRows, InterviewMaterial, FollowupQuestion,
        QuestionSelection, QuestionTags, Lists, SequenceTheorems, TLAPS

-----------------------------------------------------------------------------
(* Prompt versions *)

PromptRows ==
  /\ template \in [Template -> [type : PromptType, live : BOOLEAN, default : Nat,
                                versions : Nat, touched : Nat]]
  /\ activated \in Template \cup {NoTemplate}
  /\ admin \in [Admin -> [at : {"idle", "default", "active", "delete"},
                          on : Template \cup {NoTemplate}, version : Nat]]
  /\ changes \in Nat

\* A template with a version has a default, which is one of its versions; a template that
\* is not deleted was created; no row was changed after the last write.
TemplateFits(t) ==
  /\ template[t].default <= template[t].versions
  /\ template[t].versions > 0 => template[t].default > 0 /\ template[t].touched > 0
  /\ template[t].live => template[t].touched > 0
  /\ template[t].touched <= changes

\* What a request has validated stays true of the row: versions are never deleted.
RequestFits(a) ==
  /\ admin[a].at = "default" => admin[a].on \in Template
                             /\ admin[a].version \in 1 .. template[admin[a].on].versions
  /\ admin[a].at = "delete" => admin[a].on \in Template

PromptInv ==
  /\ PromptRows
  /\ \A t \in Template : TemplateFits(t)
  /\ \A a \in Admin : RequestFits(a)

\* The seeded prompt is the first version of its template.
LEMMA PromptInitially == PromptInit => PromptInv
<1> USE PromptBoundAssumption
<1> SUFFICES ASSUME PromptInit PROVE PromptInv
  OBVIOUS
<1>1. Absent \in [type : PromptType, live : BOOLEAN, default : Nat, versions : Nat, touched : Nat]
  BY DEF Absent
<1>2. PromptRows
  BY <1>1 DEF PromptInit, PromptRows, Waiting
<1>3. \A t \in Template : TemplateFits(t)
  BY DEF PromptInit, TemplateFits, Absent
<1>4. \A a \in Admin : RequestFits(a)
  BY DEF PromptInit, RequestFits, Waiting
<1>5. QED
  BY <1>2, <1>3, <1>4 DEF PromptInv

\* The rows change, none loses a version and none is changed before now.
LEMMA RequestsFitStill ==
  ASSUME PromptInv, PromptRows',
         \A t \in Template : template'[t].versions >= template[t].versions,
         NEW a \in Admin, admin'[a] = admin[a] \/ admin'[a] = Waiting
  PROVE  RequestFits(a)'
<1>1. RequestFits(a)
  BY DEF PromptInv
<1>2. \A t \in Template : template[t].versions \in Nat /\ template'[t].versions \in Nat
  BY DEF PromptInv, PromptRows
<1>3. CASE admin'[a] = Waiting
  BY <1>3 DEF RequestFits, Waiting
<1>4. CASE admin'[a] = admin[a]
  <2>1. ASSUME admin[a].at = "default"
        PROVE  admin[a].on \in Template /\ admin[a].version \in 1 .. template'[admin[a].on].versions
    BY <2>1, <1>1, <1>2 DEF RequestFits
  <2>2. admin[a].at = "delete" => admin[a].on \in Template
    BY <1>1 DEF RequestFits
  <2>3. QED
    BY <1>4, <2>1, <2>2 DEF RequestFits
<1>5. QED
  BY <1>3, <1>4

\* Every step keeps it.
LEMMA PromptStep == PromptInv /\ [PromptNext]_promptVars => PromptInv'
<1> USE PromptBoundAssumption
<1> SUFFICES ASSUME PromptInv, [PromptNext]_promptVars PROVE PromptInv'
  OBVIOUS
<1> DEFINE PromptRow == [type : PromptType, live : BOOLEAN, default : Nat, versions : Nat, touched : Nat]
           PromptRequest == [at : {"idle", "default", "active", "delete"},
                       on : Template \cup {NoTemplate}, version : Nat]
<1>t. PromptRows /\ (\A t \in Template : TemplateFits(t)) /\ (\A a \in Admin : RequestFits(a))
  BY DEF PromptInv
<1>r. template \in [Template -> PromptRow] /\ admin \in [Admin -> PromptRequest] /\ changes \in Nat
  BY <1>t DEF PromptRows
<1>w. Waiting \in PromptRequest
  BY DEF Waiting
<1>f. \A t \in Template : /\ template[t] \in PromptRow /\ template[t].versions \in Nat
                          /\ template[t].default \in Nat /\ template[t].touched \in Nat
                          /\ template[t].live \in BOOLEAN /\ template[t].type \in PromptType
  BY <1>r
<1>g. \A a \in Admin : /\ admin[a] \in PromptRequest /\ admin[a].version \in Nat
                       /\ admin[a].on \in Template \cup {NoTemplate}
  BY <1>r
\* One template is rewritten, the others are as they were.
<1>k. ASSUME NEW t \in Template, NEW r \in PromptRow, template' = [template EXCEPT ![t] = r],
             r.versions >= template[t].versions, r.default <= r.versions,
             r.versions > 0 => r.default > 0, r.live => r.touched > 0,
             r.versions > 0 => r.touched > 0, r.touched <= changes', changes' = changes + 1,
             activated' \in Template \cup {NoTemplate}, admin' \in [Admin -> PromptRequest],
             \A a \in Admin : admin'[a] = admin[a] \/ admin'[a] = Waiting
      PROVE  PromptInv'
  <2>1. template' \in [Template -> PromptRow] /\ changes' \in Nat
    BY <1>k, <1>r
  <2>2. PromptRows'
    BY <2>1, <1>k DEF PromptRows
  <2>3. template'[t] = r /\ \A u \in Template : u # t => template'[u] = template[u]
    BY <1>k, <1>r
  <2>4. ASSUME NEW u \in Template PROVE TemplateFits(u)' /\ template'[u].versions >= template[u].versions
    <3>1. CASE u = t
      BY <3>1, <2>3, <1>k DEF TemplateFits
    <3>2. CASE u # t
      <4>1. TemplateFits(u) /\ template'[u] = template[u]
        BY <1>t, <2>3, <3>2
      <4>2. QED
        BY <4>1, <1>f, <1>k, <1>r DEF TemplateFits
    <3>3. QED
      BY <3>1, <3>2
  <2>5. \A a \in Admin : RequestFits(a)'
    BY <2>2, <2>4, <1>k, RequestsFitStill
  <2>6. QED
    BY <2>2, <2>4, <2>5 DEF PromptInv
\* A request validates; nothing else changes.
<1>v. ASSUME NEW a \in Admin, NEW at \in {"default", "active", "delete"},
             NEW t \in Template \cup {NoTemplate}, NEW v \in Nat, Validated(a, at, t, v),
             UNCHANGED <<template, activated, changes>>,
             at = "default" => t \in Template /\ v \in 1 .. template[t].versions,
             at = "delete" => t \in Template
      PROVE  PromptInv'
  <2>1. admin' \in [Admin -> PromptRequest] /\ admin'[a] = [at |-> at, on |-> t, version |-> v]
    BY <1>v, <1>r DEF Validated
  <2>2. PromptRows'
    BY <2>1, <1>v, <1>t DEF PromptRows
  <2>3. \A u \in Template : TemplateFits(u)'
    BY <1>t, <1>v DEF TemplateFits
  <2>4. ASSUME NEW b \in Admin PROVE RequestFits(b)'
    <3>1. CASE b = a
      BY <3>1, <2>1, <1>v DEF RequestFits
    <3>2. CASE b # a
      <4>1. RequestFits(b) /\ admin'[b] = admin[b]
        BY <3>2, <1>v, <1>t, <1>r DEF Validated
      <4>2. QED
        BY <4>1, <1>v DEF RequestFits
    <3>3. QED
      BY <3>1, <3>2
  <2>5. QED
    BY <2>2, <2>3, <2>4 DEF PromptInv
<1>1. ASSUME NEW t \in Template, NEW type \in PromptType, CreateTemplate(t, type) PROVE PromptInv'
  <2> DEFINE r == [Absent EXCEPT !.type = type, !.live = TRUE, !.touched = changes + 1]
  <2>1. r.type = type /\ r.default = 0 /\ r.versions = 0 /\ r.touched = changes + 1
    BY DEF Absent
  <2>2. template' = [template EXCEPT ![t] = r]
    BY <1>1 DEF CreateTemplate
  <2>3. changes' = changes + 1 /\ UNCHANGED <<activated, admin>> /\ t \notin Created
    BY <1>1 DEF CreateTemplate, Tick
  <2>4. r \in PromptRow
    <3> DEFINE c == changes + 1
    <3>1. c \in Nat /\ TRUE \in BOOLEAN /\ Absent \in PromptRow
      BY <1>r DEF Absent
    <3> HIDE DEF c
    <3>2. [Absent EXCEPT !.type = type, !.live = TRUE, !.touched = c] \in PromptRow
      BY <3>1
    <3>3. QED
      BY <3>2 DEF c
  <2>5. template[t].versions = 0
    BY <2>3, <1>t, <1>f DEF Created, TemplateFits
  <2> HIDE DEF r
  <2>6. r.versions >= template[t].versions /\ r.default <= r.versions /\ r.touched > 0
    BY <2>1, <2>5, <1>r
  <2>7. r.touched <= changes' /\ ~(r.versions > 0)
    BY <2>1, <2>3, <1>r
  <2>8. QED
    BY <2>2, <2>3, <2>4, <2>6, <2>7, <1>k, <1>r, <1>t DEF PromptRows
<1>2. ASSUME NEW t \in Template, CreateVersion(t) PROVE PromptInv'
  <2> DEFINE d == IF template[t].default = 0 THEN template[t].versions + 1 ELSE template[t].default
             c == IF template[t].default = 0 THEN changes + 1 ELSE template[t].touched
             r == [template[t] EXCEPT !.versions = template[t].versions + 1, !.default = d, !.touched = c]
  <2>1. template' = [template EXCEPT ![t] = r]
    BY <1>2 DEF CreateVersion
  <2>2. d \in Nat /\ c \in Nat /\ template[t].versions + 1 \in Nat
    BY <1>f, <1>r
  <2> HIDE DEF d, c
  <2>3. r \in PromptRow
    BY <2>2, <1>f
  <2>9. r.versions = template[t].versions + 1 /\ r.default = d /\ r.touched = c
    BY <1>f
  <2>4. changes' = changes + 1 /\ UNCHANGED <<activated, admin>> /\ template[t].live
    BY <1>2 DEF CreateVersion, Tick
  <2>5. TemplateFits(t)
    BY <1>t
  <2>6. d <= template[t].versions + 1 /\ d > 0 /\ c > 0 /\ c <= changes + 1
    BY <2>4, <2>5, <1>f, <1>r DEF TemplateFits, d, c
  <2>7. r.versions >= template[t].versions
    BY <2>9, <1>f
  <2> HIDE DEF r
  <2>10. r.live => r.touched > 0
    BY <2>6, <2>9
  <2>8. QED
    BY <2>1, <2>3, <2>4, <2>6, <2>7, <2>9, <2>10, <1>k, <1>r, <1>t DEF PromptRows
<1>3. ASSUME NEW a \in Admin, NEW t \in Template, NEW v \in 1 .. MaxVersions, AskDefault(a, t, v)
      PROVE PromptInv'
  BY <1>3, <1>v DEF AskDefault
<1>4. ASSUME NEW a \in Admin, NEW t \in Template \cup {NoTemplate}, AskActive(a, t) PROVE PromptInv'
  BY <1>4, <1>v DEF AskActive
<1>5. ASSUME NEW a \in Admin, NEW t \in Template, AskDelete(a, t) PROVE PromptInv'
  BY <1>5, <1>v DEF AskDelete
<1>a. ASSUME NEW a \in Admin, Responded(a)
      PROVE admin' \in [Admin -> PromptRequest] /\ \A b \in Admin : admin'[b] = admin[b] \/ admin'[b] = Waiting
  BY <1>a, <1>r, <1>w DEF Responded
<1>6. ASSUME NEW a \in Admin, SaveDefault(a) PROVE PromptInv'
  <2> DEFINE t == admin[a].on
             r == [template[t] EXCEPT !.default = admin[a].version, !.touched = changes + 1]
  <2>1. RequestFits(a) /\ t \in Template /\ admin[a].version \in 1 .. template[t].versions
    BY <1>6, <1>t DEF SaveDefault, RequestFits
  <2>2. template' = [template EXCEPT ![t] = r]
    BY <1>6 DEF SaveDefault
  <2>8. template[t] \in PromptRow /\ admin[a].version \in Nat
    BY <2>1, <1>f, <1>g
  <2> HIDE DEF t
  <2>3. r \in PromptRow
    <3> DEFINE c == changes + 1
    <3>1. c \in Nat
      BY <1>r
    <3> HIDE DEF c
    <3>2. [template[t] EXCEPT !.default = admin[a].version, !.touched = c] \in PromptRow
      BY <3>1, <2>8
    <3>3. QED
      BY <3>2 DEF c
  <2>9. r.versions = template[t].versions /\ r.default = admin[a].version
        /\ r.touched = changes + 1
    BY <2>8
  <2>4. changes' = changes + 1 /\ activated' = activated /\ Responded(a)
    BY <1>6 DEF SaveDefault, Tick
  <2>5. template[t].versions \in Nat
    BY <2>1, <1>f
  <2> HIDE DEF r
  <2>6. r.versions >= template[t].versions /\ r.default <= r.versions /\ r.default > 0
        /\ r.touched > 0 /\ r.touched <= changes'
    BY <2>1, <2>9, <2>4, <2>5, <1>r
  <2>7. QED
    BY <2>1, <2>2, <2>3, <2>4, <2>6, <1>a, <1>k, <1>t DEF PromptRows
<1>7. ASSUME NEW a \in Admin, SaveActive(a) PROVE PromptInv'
  <2>1. template' = template /\ activated' = admin[a].on /\ Responded(a) /\ changes' = changes + 1
    BY <1>7 DEF SaveActive, Tick
  <2>2. PromptRows'
    BY <2>1, <1>a, <1>g, <1>r DEF PromptRows
  <2>3. ASSUME NEW u \in Template PROVE TemplateFits(u)'
    <3>1. TemplateFits(u) /\ template[u].touched \in Nat
      BY <1>t, <1>f
    <3>2. QED
      BY <3>1, <2>1, <1>r DEF TemplateFits
  <2>4. \A u \in Template : template'[u].versions >= template[u].versions
    BY <2>1, <1>f
  <2>5. \A b \in Admin : RequestFits(b)'
    BY <2>1, <2>2, <2>4, <1>a, RequestsFitStill
  <2>6. QED
    BY <2>2, <2>3, <2>5 DEF PromptInv
<1>8. ASSUME NEW a \in Admin, SaveDelete(a) PROVE PromptInv'
  <2> DEFINE t == admin[a].on
             r == [template[t] EXCEPT !.live = FALSE, !.touched = changes + 1]
  <2>1. RequestFits(a) /\ t \in Template
    BY <1>8, <1>t DEF SaveDelete, RequestFits
  <2>2. template' = [template EXCEPT ![t] = r]
    BY <1>8 DEF SaveDelete
  <2>8. template[t] \in PromptRow /\ admin[a].version \in Nat
    BY <2>1, <1>f, <1>g
  <2> HIDE DEF t
  <2>3. r \in PromptRow
    <3> DEFINE c == changes + 1
    <3>1. c \in Nat
      BY <1>r
    <3> HIDE DEF c
    <3>2. [template[t] EXCEPT !.live = FALSE, !.touched = c] \in PromptRow
      BY <3>1, <2>8
    <3>3. QED
      BY <3>2 DEF c
  <2>9. r.versions = template[t].versions /\ r.default = template[t].default
        /\ r.touched = changes + 1
    BY <2>8
  <2>4. changes' = changes + 1 /\ activated' = activated /\ Responded(a)
    BY <1>8 DEF SaveDelete, Tick
  <2>5. TemplateFits(t) /\ template[t].versions \in Nat /\ template[t].default \in Nat
    BY <2>1, <1>t, <1>f
  <2> HIDE DEF r
  <2>6. r.versions >= template[t].versions /\ r.default <= r.versions
        /\ (r.versions > 0 => r.default > 0) /\ r.touched > 0 /\ r.touched <= changes'
    BY <2>9, <2>4, <2>5, <1>r DEF TemplateFits
  <2>7. QED
    BY <2>1, <2>2, <2>3, <2>4, <2>6, <1>a, <1>k, <1>t DEF PromptRows
<1>9. ASSUME NEW t \in Template, NEW type \in PromptType, NEW dedupe \in BOOLEAN, Seed(t, type, dedupe)
      PROVE PromptInv'
  <2> DEFINE n == IF template[t].versions = 0 THEN 1 ELSE template[t].versions
             r == [type |-> type, live |-> TRUE, default |-> 1, touched |-> changes + 1, versions |-> n]
             Others(u) == IF dedupe /\ u \in Created /\ template[u].type = type
                          THEN [template[u] EXCEPT !.live = FALSE] ELSE template[u]
  <2>1. template' = [u \in Template |-> IF u = t THEN r ELSE Others(u)]
    BY <1>9 DEF Seed
  <2>2. changes' = changes + 1 /\ admin' = admin
        /\ activated' = IF type = SeedType THEN t ELSE activated
    BY <1>9 DEF Seed, Tick
  <2>3. n \in Nat /\ n > 0 /\ n >= template[t].versions
    BY <1>f
  <2>4. r \in PromptRow
    BY <2>3, <1>r
  <2>5. ASSUME NEW u \in Template
        PROVE  /\ Others(u) \in PromptRow /\ Others(u).versions = template[u].versions
               /\ Others(u).default = template[u].default /\ Others(u).touched = template[u].touched
    BY <1>f
  <2>6. ASSUME NEW u \in Template PROVE Others(u).live => template[u].live
    BY <1>f
  <2> HIDE DEF Others
  <2>7. template' \in [Template -> PromptRow]
    BY <2>1, <2>4, <2>5
  <2>8. PromptRows'
    BY <2>7, <2>2, <1>r, <1>t DEF PromptRows
  <2>9. ASSUME NEW u \in Template PROVE TemplateFits(u)' /\ template'[u].versions >= template[u].versions
    <3>1. CASE u = t
      <4>1. template'[u] = r
        BY <3>1, <2>1
      <4>2. QED
        BY <4>1, <3>1, <2>2, <2>3, <1>r DEF TemplateFits
    <3>2. CASE u # t
      <4>1. template'[u] = Others(u)
        BY <3>2, <2>1
      <4>2. TemplateFits(u)
        BY <1>t
      <4>3. QED
        BY <4>1, <4>2, <2>2, <2>5, <2>6, <1>f, <1>r DEF TemplateFits
    <3>3. QED
      BY <3>1, <3>2
  <2>10. \A b \in Admin : RequestFits(b)'
    BY <2>2, <2>8, <2>9, RequestsFitStill
  <2>11. QED
    BY <2>8, <2>9, <2>10 DEF PromptInv
<1>10. CASE UNCHANGED promptVars
  BY <1>10 DEF promptVars, PromptInv, PromptRows, TemplateFits, RequestFits
<1>11. QED
  BY <1>1, <1>2, <1>3, <1>4, <1>5, <1>6, <1>7, <1>8, <1>9, <1>10 DEF PromptNext

\* Of the templates that could serve a type one was changed last, so the choice of
\* get_runtime_prompt_version is one of them.
LEMMA NewestIsReady ==
  ASSUME PromptInv, NEW type \in PromptType, NEW ready, ready = {t \in Template : Ready(t, type)},
         ready # {}
  PROVE  (CHOOSE t \in ready : \A u \in ready : Newer(t, u)) \in ready
<1> DEFINE S == {template[t].touched : t \in ready}
<1>1. \A t \in Template : template[t].touched \in 0 .. changes
  BY DEF PromptInv, PromptRows, TemplateFits
<1>2. S \in SUBSET (0 .. changes) /\ S # {} /\ changes \in Nat
  BY <1>1 DEF PromptInv, PromptRows
<1>3. PICK n \in S : \A m \in S : m <= n
  BY <1>2, GreatestElement
<1>4. PICK t \in ready : n = template[t].touched
  OBVIOUS
<1>5. \A u \in ready : Newer(t, u)
  <2> TAKE u \in ready
  <2>1. template[u].touched \in S /\ template[u].touched \in Nat /\ n \in Nat
    BY <1>1, <1>4
  <2>2. QED
    BY <2>1, <1>3, <1>4 DEF Newer
<1>6. QED
  BY <1>5

\* What the engine runs with is usable, whatever it is asked for.
LEMMA ServedIsUsable ==
  ASSUME PromptInv, NEW type \in PromptType,
         NEW live, live = {t \in Created : /\ template[t].live /\ template[t].type = type
                                           /\ template[t].versions > 0}
  PROVE  /\ Runtime(type).of = NoTemplate => live = {}
         /\ Runtime(type).of # NoTemplate =>
              /\ Runtime(type).of \in live
              /\ Runtime(type).version \in 1 .. template[Runtime(type).of].versions
<1> DEFINE ready == {t \in Template : Ready(t, type)}
           newest == CHOOSE t \in ready : \A u \in ready : Newer(t, u)
<1>1. ready = live
  <2>1. \A t \in Template : /\ TemplateFits(t) /\ template[t].versions \in Nat
                            /\ template[t].default \in Nat /\ template[t].touched \in Nat
    BY DEF PromptInv, PromptRows
  <2>2. QED
    BY <2>1 DEF Ready, Created, TemplateFits
<1>2. \A t \in ready : t \in Template /\ template[t].default \in 1 .. template[t].versions
  BY DEF Ready, PromptInv, PromptRows, TemplateFits
<1>3. ready # {} => newest \in ready
  BY NewestIsReady
<1>4. Runtime(type) = IF activated # NoTemplate /\ Ready(activated, type)
                      THEN [of |-> activated, version |-> template[activated].default]
                      ELSE IF ready = {} THEN [of |-> NoTemplate, version |-> 0]
                      ELSE [of |-> newest, version |-> template[newest].default]
  BY DEF Runtime
<1>5. activated \in Template \cup {NoTemplate}
  BY DEF PromptInv, PromptRows
<1> HIDE DEF ready, newest
<1>6. CASE activated # NoTemplate /\ Ready(activated, type)
  <2>1. activated \in ready
    BY <1>6, <1>5 DEF ready
  <2>2. QED
    BY <2>1, <1>6, <1>4, <1>1, <1>2
<1>7. CASE ~(activated # NoTemplate /\ Ready(activated, type))
  <2>1. CASE ready = {}
    BY <2>1, <1>7, <1>4, <1>1
  <2>2. CASE ready # {}
    <3>1. Runtime(type) = [of |-> newest, version |-> template[newest].default]
      BY <2>2, <1>7, <1>4
    <3>2. newest # NoTemplate
      BY <2>2, <1>3, <1>2, NoTemplateAssumption
    <3>3. QED
      BY <3>1, <3>2, <2>2, <1>1, <1>2, <1>3
  <2>3. QED
    BY <2>1, <2>2
<1>8. QED
  BY <1>6, <1>7

\* Whatever administrators create, edit, activate, delete and restore at the same time, the engine runs
\* with an existing version of a template that is not deleted, and falls back to its source only when
\* there is none (PromptTemplate, PromptVersion and their services): for any number of templates,
\* versions and administrators.
THEOREM ServedPromptIsLiveCorrect == PromptSpec => []ServedPromptIsLive
<1>1. PromptInv => ServedPromptIsLive
  <2> SUFFICES ASSUME PromptInv PROVE ServedPromptIsLive
    OBVIOUS
  <2> SUFFICES ASSUME NEW type \in PromptType
               PROVE  LET live == {t \in Created : /\ template[t].live /\ template[t].type = type
                                                   /\ template[t].versions > 0}
                      IN /\ Runtime(type).of = NoTemplate => live = {}
                         /\ \A t \in Template, v \in 0 .. MaxVersions :
                              LET r == Resolved(type, t, v)
                              IN r.of # NoTemplate =>
                                   r.of \in live /\ r.version \in 1 .. template[r.of].versions
    BY DEF ServedPromptIsLive
  <2> DEFINE live == {t \in Created : /\ template[t].live /\ template[t].type = type
                                      /\ template[t].versions > 0}
  <2>1. /\ Runtime(type).of = NoTemplate => live = {}
        /\ Runtime(type).of # NoTemplate =>
             /\ Runtime(type).of \in live
             /\ Runtime(type).version \in 1 .. template[Runtime(type).of].versions
    BY ServedIsUsable
  <2>2. ASSUME NEW t \in Template, NEW v \in 0 .. MaxVersions, Resolved(type, t, v).of # NoTemplate
        PROVE  /\ Resolved(type, t, v).of \in live
               /\ Resolved(type, t, v).version \in 1 .. template[Resolved(type, t, v).of].versions
    <3>1. CASE /\ t \in Created /\ template[t].live /\ template[t].type = type
               /\ v \in 1 .. template[t].versions
      <4>1. Resolved(type, t, v).of = t /\ Resolved(type, t, v).version = v
        BY <3>1 DEF Resolved
      <4>2. template[t].versions \in Nat
        BY DEF PromptInv, PromptRows
      <4>3. template[t].versions > 0
        BY <3>1, <4>2
      <4>4. QED
        BY <4>1, <4>3, <3>1
    <3>2. CASE ~(/\ t \in Created /\ template[t].live /\ template[t].type = type
                 /\ v \in 1 .. template[t].versions)
      <4>1. Resolved(type, t, v) = Runtime(type)
        BY <3>2 DEF Resolved
      <4>2. QED
        BY <4>1, <2>1, <2>2
    <3>3. QED
      BY <3>1, <3>2
  <2> HIDE DEF live
  <2>3. QED
    BY <2>1, <2>2 DEF live
<1>2. QED
  BY <1>1, PromptInitially, PromptStep, PTL DEF PromptSpec

-----------------------------------------------------------------------------
(* Follow-up questions *)

\* A request that has passed the limit of its main question, and that of the session too.
PastMain == {"perSession", "judge", "guard", "generate", "index", "insert"}
PastSession == PastMain \ {"perSession"}

Deciding == { c \in Caller : caller[c].at \in PastSession }
DecidingOn(m) == { c \in Caller : caller[c].at \in PastMain /\ caller[c].on = m }
Active(c) == caller[c].at # "idle"

\* With one follow-up to a main question there are none to a follow-up.
QuestionRows ==
  /\ requests \in Nat
  /\ \A q \in asked :
       \/ q.id \in Main /\ q.parent = 0 /\ q.above = {}
       \/ q.id \in NumMain + 1 .. NumMain + requests /\ q.parent \in Main /\ q.above = {q.parent}
  /\ \A p, q \in asked : p.id = q.id \/ p.ix = q.ix => p = q
  /\ IsFiniteSet(Followups)

AnswerVersions ==
  /\ version \in [Id -> Nat]
  /\ \A i \in Id : version[i] > 0 => Exists(i)
  /\ \A q \in Followups : Exists(q.parent) /\ version[q.parent] > 0

CallerRows ==
  /\ DOMAIN caller = Caller
  /\ \A c \in Caller : DOMAIN caller[c] = {"at", "id", "on", "seen", "last"}

\* What a request holds: an id that no question has yet, and a question whose answer was
\* there; past the first limit that question is a main one, or gone for good.
CallerFits(c) ==
  Active(c) =>
    /\ caller[c].id \in NumMain + 1 .. NumMain + requests /\ ~Exists(caller[c].id)
    /\ caller[c].on \in Id /\ caller[c].on \in 1 .. NumMain + requests
    /\ Exists(caller[c].on) => version[caller[c].on] > 0
    /\ caller[c].at \in PastMain => caller[c].on \in Main \/ ~Exists(caller[c].on)

\* No two requests store under the same id, and none is about what another will store.
IdsApart ==
  \A c, d \in Caller : Active(c) /\ Active(d) =>
    caller[c].on # caller[d].id /\ (caller[c].id = caller[d].id => c = d)

\* The follow-ups that are there and the requests that may still add one.
SessionRoom ==
  Cardinality(Followups) + Cardinality(Deciding) <= MaxPerSession + Cardinality(Caller) - 1
MainRoom(m) ==
  Cardinality(Of(m)) + Cardinality(DecidingOn(m)) <= MaxPerMain + Cardinality(Caller) - 1

FollowInv ==
  /\ QuestionRows /\ AnswerVersions /\ CallerRows
  /\ \A c \in Caller : CallerFits(c)
  /\ IdsApart /\ SessionRoom
  /\ \A m \in Main : MainRoom(m)

-----------------------------------------------------------------------------
(* Counting *)

\* There are finitely many requests.
LEMMA Callers ==
  ASSUME NEW C \in SUBSET Caller
  PROVE  /\ IsFiniteSet(C) /\ Cardinality(C) \in Nat /\ Cardinality(C) <= Cardinality(Caller)
         /\ Cardinality(Caller) \in Nat /\ Cardinality(Caller) >= 1
<1>1. IsFiniteSet(Caller) /\ Caller # {}
  BY FollowUpAssumption
<1>2. IsFiniteSet(C) /\ Cardinality(C) <= Cardinality(Caller)
  BY <1>1, FS_Subset
<1>3. Cardinality(C) \in Nat /\ Cardinality(Caller) \in Nat
  BY <1>1, <1>2, FS_CardinalityType
<1>4. Cardinality(Caller) # 0
  BY <1>1, FS_EmptySet
<1>5. QED
  BY <1>2, <1>3, <1>4

\* With fewer follow-ups and fewer requests there is as much room.
LEMMA FewerFit ==
  ASSUME NEW F, IsFiniteSet(F), NEW G \in SUBSET F, NEW C \in SUBSET Caller, NEW D \in SUBSET C,
         NEW k \in Int, Cardinality(F) + Cardinality(C) <= k
  PROVE  Cardinality(G) + Cardinality(D) <= k
<1>1. IsFiniteSet(C) /\ Cardinality(C) \in Nat
  BY Callers
<1>2. IsFiniteSet(D) /\ Cardinality(D) <= Cardinality(C)
  BY <1>1, FS_Subset
<1>3. IsFiniteSet(G) /\ Cardinality(G) <= Cardinality(F)
  BY FS_Subset
<1>4. Cardinality(F) \in Nat /\ Cardinality(G) \in Nat /\ Cardinality(D) \in Nat
  BY <1>2, <1>3, FS_CardinalityType
<1>5. QED
  BY <1>1, <1>2, <1>3, <1>4

\* A check that finds room leaves some for every request but itself.
LEMMA RoomFits ==
  ASSUME NEW F, IsFiniteSet(F), NEW k \in Nat, Cardinality(F) < k, NEW C \in SUBSET Caller
  PROVE  Cardinality(F) + Cardinality(C) <= k + Cardinality(Caller) - 1
<1>1. Cardinality(F) \in Nat
  BY FS_CardinalityType
<1>2. QED
  BY <1>1, Callers

\* A request that stores takes the room it had.
LEMMA StoredFits ==
  ASSUME NEW F, IsFiniteSet(F), NEW x, NEW C \in SUBSET Caller, NEW c \in C,
         NEW k \in Int, Cardinality(F) + Cardinality(C) <= k
  PROVE  Cardinality(F \cup {x}) + Cardinality(C \ {c}) <= k
<1>1. IsFiniteSet(C) /\ Cardinality(C) \in Nat
  BY Callers
<1>2. Cardinality(C \ {c}) = Cardinality(C) - 1
  BY <1>1, FS_RemoveElement
<1>3. Cardinality(F \cup {x}) = IF x \in F THEN Cardinality(F) ELSE Cardinality(F) + 1
  BY FS_AddElement
<1>4. Cardinality(F) \in Nat
  BY FS_CardinalityType
<1>5. QED
  BY <1>1, <1>2, <1>3, <1>4

\* The bounds are numbers.
LEMMA Limits ==
  /\ MaxPerSession \in Nat /\ MaxPerMain \in Nat
  /\ MaxPerSession + Cardinality(Caller) - 1 \in Int /\ MaxPerMain + Cardinality(Caller) - 1 \in Int
BY FollowUpAssumption, Callers

\* The follow-ups of a main question are follow-ups, ...
LEMMA ChildrenAreFollowups ==
  ASSUME NEW m \in Main
  PROVE  Of(m) \subseteq Followups /\ m # 0 /\ m \in Id
BY FollowUpAssumption DEF Of, Followups, Main, Id

\* ... and finitely many.
LEMMA ChildrenFinite ==
  ASSUME QuestionRows, NEW m \in Main
  PROVE  IsFiniteSet(Of(m))
BY ChildrenAreFollowups, FS_Subset DEF QuestionRows

-----------------------------------------------------------------------------
(* Steps *)

\* Only the main questions are there.
LEMMA FollowInitially == FollowInit => FollowInv
<1> SUFFICES ASSUME FollowInit PROVE FollowInv
  OBVIOUS
<1> USE FollowUpAssumption
<1>1. \A q \in asked : q.id \in Main /\ q.parent = 0 /\ q.above = {} /\ q.ix = q.id
  BY DEF FollowInit
<1>2. Followups = {} /\ \A m \in Main : Of(m) = {}
  BY <1>1 DEF Followups, Of, Main
<1>3. \A p, q \in asked : p.id = q.id \/ p.ix = q.ix => p = q
  <2> TAKE p, q \in asked
  <2>1. PICK m \in Main : p = [id |-> m, ix |-> m, parent |-> 0, above |-> {}]
    BY DEF FollowInit
  <2>2. PICK n \in Main : q = [id |-> n, ix |-> n, parent |-> 0, above |-> {}]
    BY DEF FollowInit
  <2>3. QED
    BY <2>1, <2>2
<1>4. QuestionRows
  BY <1>1, <1>2, <1>3, FS_EmptySet DEF QuestionRows, FollowInit
<1>5. AnswerVersions
  BY <1>2 DEF AnswerVersions, FollowInit
<1>6. \A c \in Caller : caller[c] = Resting /\ ~Active(c)
  BY DEF FollowInit, Resting, Active
<1>7. CallerRows /\ (\A c \in Caller : CallerFits(c)) /\ IdsApart
  <2>1. CallerRows
    BY DEF CallerRows, FollowInit, Resting
  <2>2. QED
    BY <2>1, <1>6 DEF CallerFits, IdsApart
<1>8. Deciding = {} /\ \A m \in Main : DecidingOn(m) = {}
  BY <1>6 DEF Deciding, DecidingOn, Resting, PastMain, PastSession
<1>9. Cardinality({}) = 0 /\ Cardinality(Caller) \in Nat /\ Cardinality(Caller) >= 1
  BY FS_EmptySet, Callers
<1>10. SessionRoom
  BY <1>2, <1>8, <1>9 DEF SessionRoom
<1>11. ASSUME NEW m \in Main PROVE MainRoom(m)
  <2>1. Of(m) = {} /\ DecidingOn(m) = {}
    BY <1>2, <1>8
  <2>2. QED
    BY <2>1, <1>9 DEF MainRoom
<1>12. QED
  BY <1>4, <1>5, <1>7, <1>10, <1>11 DEF FollowInv

\* A request ends, or goes on to a stage with what it holds; it enters the stages behind a
\* limit from those behind the limit, or when there is room.
LEMMA CallerMoves ==
  ASSUME FollowInv, NEW c \in Caller, Active(c), UNCHANGED <<asked, version, requests>>,
         DOMAIN caller' = Caller, \A d \in Caller : d # c => caller'[d] = caller[d],
         DOMAIN caller'[c] = {"at", "id", "on", "seen", "last"},
         caller'[c].at = "idle" \/ (caller'[c].id = caller[c].id /\ caller'[c].on = caller[c].on),
         caller'[c].at \in PastMain => \/ caller[c].at \in PastMain
                                       \/ /\ Cardinality(Of(caller[c].on)) < MaxPerMain
                                          /\ caller[c].on \in Main
                                       \/ ~Exists(caller[c].on),
         caller'[c].at \in PastSession => \/ caller[c].at \in PastSession
                                          \/ Cardinality(Followups) < MaxPerSession
  PROVE  FollowInv'
<1>a. /\ QuestionRows /\ AnswerVersions /\ CallerRows /\ (\A d \in Caller : CallerFits(d))
      /\ IdsApart /\ SessionRoom /\ \A m \in Main : MainRoom(m)
  BY DEF FollowInv
<1>b. /\ Followups' = Followups /\ (\A m : Of(m)' = Of(m)) /\ \A i : Exists(i)' <=> Exists(i)
  BY DEF Followups, Of, Exists
<1>1. QuestionRows' /\ AnswerVersions'
  BY <1>a, <1>b DEF QuestionRows, AnswerVersions
<1>2. CallerRows'
  BY <1>a DEF CallerRows
<1>3. ASSUME NEW d \in Caller PROVE CallerFits(d)'
  <2>1. CallerFits(d)
    BY <1>a
  <2>2. CASE d # c
    BY <2>1, <2>2, <1>b DEF CallerFits, Active
  <2>3. CASE d = c
    BY <2>1, <2>3, <1>b DEF CallerFits, Active
  <2>4. QED
    BY <2>2, <2>3
<1>4. IdsApart'
  BY <1>a DEF IdsApart, Active
<1>5. SessionRoom'
  <2>1. Deciding \in SUBSET Caller /\ Deciding' \in SUBSET Caller
    BY DEF Deciding
  <2>2. CASE Cardinality(Followups) < MaxPerSession
    BY <2>1, <2>2, <1>a, <1>b, Limits, RoomFits DEF SessionRoom, QuestionRows
  <2>3. CASE ~(Cardinality(Followups) < MaxPerSession)
    <3>1. Deciding' \in SUBSET Deciding
      BY <2>3 DEF Deciding
    <3>2. QED
      BY <3>1, <2>1, <1>a, <1>b, Limits, FewerFit DEF SessionRoom, QuestionRows
  <2>4. QED
    BY <2>2, <2>3
<1>6. ASSUME NEW m \in Main PROVE MainRoom(m)'
  <2>1. /\ DecidingOn(m) \in SUBSET Caller /\ DecidingOn(m)' \in SUBSET Caller
        /\ IsFiniteSet(Of(m)) /\ Of(m)' = Of(m) /\ MainRoom(m)
    BY <1>a, <1>b, ChildrenFinite DEF DecidingOn
  <2>2. CASE Cardinality(Of(m)) < MaxPerMain
    BY <2>1, <2>2, Limits, RoomFits DEF MainRoom
  <2>3. CASE ~(Cardinality(Of(m)) < MaxPerMain)
    <3>1. Exists(m)
      <4>1. Of(m) # {}
        <5>1. Cardinality({}) = 0 /\ MaxPerMain > 0
          BY FS_EmptySet, FollowUpAssumption
        <5>2. QED
          BY <5>1, <2>3
      <4>2. PICK q \in Of(m) : TRUE
        BY <4>1
      <4>3. q \in Followups /\ q.parent = m
        BY <4>2, ChildrenAreFollowups DEF Of
      <4>4. QED
        BY <4>3, <1>a DEF AnswerVersions
    <3>2. DecidingOn(m)' \in SUBSET DecidingOn(m)
      BY <2>3, <3>1 DEF DecidingOn, PastMain
    <3>3. QED
      BY <3>2, <2>1, Limits, FewerFit DEF MainRoom
  <2>4. QED
    BY <2>2, <2>3
<1>7. QED
  BY <1>1, <1>2, <1>3, <1>4, <1>5, <1>6 DEF FollowInv

\* An answer is written: its version rises.
LEMMA AnswerWritten ==
  ASSUME FollowInv, NEW i \in Id, Exists(i), version' = [version EXCEPT ![i] = version[i] + 1],
         UNCHANGED <<asked, caller, requests>>
  PROVE  FollowInv'
<1>a. /\ QuestionRows /\ AnswerVersions /\ CallerRows /\ (\A d \in Caller : CallerFits(d))
      /\ IdsApart /\ SessionRoom /\ \A m \in Main : MainRoom(m)
  BY DEF FollowInv
<1>b. /\ Followups' = Followups /\ (\A m : Of(m)' = Of(m)) /\ (\A k : Exists(k)' <=> Exists(k))
      /\ Deciding' = Deciding /\ (\A m : DecidingOn(m)' = DecidingOn(m)) /\ \A c : Active(c)' <=> Active(c)
  BY DEF Followups, Of, Exists, Deciding, DecidingOn, Active
<1>c. version \in [Id -> Nat]
  BY <1>a DEF AnswerVersions
<1>d. version' \in [Id -> Nat] /\ \A k \in Id : version'[k] >= version[k]
  BY <1>c
<1>e. \A k \in Id : version[k] > 0 => version'[k] > 0
  BY <1>c, <1>d
<1>1. QuestionRows' /\ CallerRows' /\ IdsApart' /\ SessionRoom' /\ \A m \in Main : MainRoom(m)'
  BY <1>a, <1>b DEF QuestionRows, CallerRows, IdsApart, SessionRoom, MainRoom
<1>2. AnswerVersions'
  <2>1. \A k \in Id : version'[k] > 0 => Exists(k)
    BY <1>a, <1>c DEF AnswerVersions
  <2>2. \A q \in Followups : q.parent \in Id
    BY <1>a, ChildrenAreFollowups DEF QuestionRows, Followups
  <2>3. \A q \in Followups : Exists(q.parent) /\ version'[q.parent] > 0
    BY <1>a, <1>e, <2>2 DEF AnswerVersions
  <2>4. QED
    BY <2>1, <2>3, <1>b, <1>d DEF AnswerVersions
<1>3. ASSUME NEW c \in Caller PROVE CallerFits(c)'
  <2>1. CallerFits(c)
    BY <1>a
  <2>2. QED
    BY <2>1, <1>b, <1>e DEF CallerFits
<1>4. QED
  BY <1>1, <1>2, <1>3 DEF FollowInv

\* Questions go, with what is below them, and so do their answers.
LEMMA Deleted ==
  ASSUME FollowInv, NEW S, Delete(S), requests' = requests,
         DOMAIN caller' = Caller,
         \A d \in Caller : /\ DOMAIN caller'[d] = {"at", "id", "on", "seen", "last"}
                           /\ caller'[d].id = caller[d].id /\ caller'[d].on = caller[d].on
                           /\ caller'[d].at = "idle" <=> caller[d].at = "idle"
                           /\ caller'[d].at \in PastMain <=> caller[d].at \in PastMain
                           /\ caller'[d].at \in PastSession <=> caller[d].at \in PastSession
  PROVE  FollowInv'
<1> DEFINE gone == { q \in asked : q.id \in S \/ q.above \cap S # {} }
<1>a. /\ QuestionRows /\ AnswerVersions /\ CallerRows /\ (\A d \in Caller : CallerFits(d))
      /\ IdsApart /\ SessionRoom /\ \A m \in Main : MainRoom(m)
  BY DEF FollowInv
<1>b. asked' = asked \ gone /\ version' = [i \in Id |-> IF \E q \in gone : q.id = i THEN 0 ELSE version[i]]
  BY DEF Delete
<1>c. /\ Followups' \in SUBSET Followups /\ (\A m : Of(m)' \in SUBSET Of(m))
      /\ (\A i : Exists(i)' => Exists(i))
      /\ Deciding' = Deciding /\ (\A m : DecidingOn(m)' = DecidingOn(m))
      /\ \A c \in Caller : Active(c)' <=> Active(c)
  BY <1>b DEF Followups, Of, Exists, Deciding, DecidingOn, Active
\* What is left is as it was.
<1>d. ASSUME NEW i \in Id PROVE Exists(i)' => version'[i] = version[i]
  <2> SUFFICES ASSUME Exists(i)' PROVE version'[i] = version[i]
    OBVIOUS
  <2>1. PICK p \in asked : p \notin gone /\ p.id = i
    BY <1>b DEF Exists
  <2>2. \A q \in gone : q.id # i
    BY <2>1, <1>a DEF QuestionRows
  <2>3. QED
    BY <2>2, <1>b
<1>1. QuestionRows'
  <2>1. IsFiniteSet(Followups')
    BY <1>a, <1>c, FS_Subset DEF QuestionRows
  <2>2. QED
    BY <2>1, <1>a, <1>b DEF QuestionRows
<1>2. AnswerVersions'
  <2>1. version' \in [Id -> Nat]
    BY <1>a, <1>b DEF AnswerVersions
  <2>2. ASSUME NEW i \in Id, version'[i] > 0 PROVE Exists(i)'
    <3>1. ~(\E q \in gone : q.id = i) /\ version[i] > 0
      BY <2>2, <1>b
    <3>2. PICK q \in asked : q.id = i
      BY <3>1, <1>a DEF AnswerVersions, Exists
    <3>3. q \in asked'
      BY <3>1, <3>2, <1>b
    <3>4. QED
      BY <3>2, <3>3 DEF Exists
  <2>3. ASSUME NEW q \in Followups' PROVE Exists(q.parent)' /\ version'[q.parent] > 0
    <3>1. /\ q \in Followups /\ q \in asked /\ q \notin gone
          /\ q.parent \in Main /\ q.above = {q.parent} /\ q.parent \in Id
      BY <1>a, <1>b, ChildrenAreFollowups DEF QuestionRows, Followups
    <3>2. q.parent \notin S
      BY <3>1
    <3>3. PICK p \in asked : p.id = q.parent
      BY <3>1, <1>a DEF AnswerVersions, Exists
    <3>4. p.above = {}
      BY <3>1, <3>3, <1>a, FollowUpAssumption DEF QuestionRows, Main
    <3>5. p \in asked'
      BY <3>2, <3>3, <3>4, <1>b
    <3>6. Exists(q.parent)'
      BY <3>3, <3>5 DEF Exists
    <3>7. QED
      BY <3>1, <3>6, <1>a, <1>d DEF AnswerVersions
  <2>4. QED
    BY <2>1, <2>2, <2>3 DEF AnswerVersions
<1>3. ASSUME NEW c \in Caller PROVE CallerFits(c)'
  <2>1. CallerFits(c)
    BY <1>a
  <2>2. QED
    BY <2>1, <1>c, <1>d DEF CallerFits
<1>4. CallerRows' /\ IdsApart'
  BY <1>a, <1>c DEF CallerRows, IdsApart
<1>5. SessionRoom'
  <2>1. Deciding \in SUBSET Caller
    BY DEF Deciding
  <2>2. QED
    BY <2>1, <1>a, <1>c, Limits, FewerFit DEF SessionRoom, QuestionRows
<1>6. ASSUME NEW m \in Main PROVE MainRoom(m)'
  <2>1. DecidingOn(m) \in SUBSET Caller /\ IsFiniteSet(Of(m))
    BY <1>a, ChildrenFinite DEF DecidingOn
  <2>2. QED
    BY <2>1, <1>a, <1>c, Limits, FewerFit DEF MainRoom
<1>7. QED
  BY <1>1, <1>2, <1>3, <1>4, <1>5, <1>6 DEF FollowInv

\* A request begins with an id of its own.
LEMMA RequestBegins ==
  ASSUME FollowInv, NEW c \in Caller, NEW i \in Id, NEW s \in {"look", "drop"},
         caller[c].at = "idle", version[i] > 0,
         caller' = [caller EXCEPT ![c] = [Resting EXCEPT !.at = s, !.id = NumMain + requests + 1,
                                                         !.on = i, !.seen = version[i]]],
         requests' = requests + 1, UNCHANGED <<asked, version>>
  PROVE  FollowInv'
<1> USE FollowUpAssumption
<1>a. /\ QuestionRows /\ AnswerVersions /\ CallerRows /\ (\A d \in Caller : CallerFits(d))
      /\ IdsApart /\ SessionRoom /\ \A m \in Main : MainRoom(m)
  BY DEF FollowInv
<1>b. /\ Followups' = Followups /\ (\A m : Of(m)' = Of(m)) /\ \A k : Exists(k)' <=> Exists(k)
  BY DEF Followups, Of, Exists
<1>c. /\ DOMAIN caller' = Caller /\ \A d \in Caller : d # c => caller'[d] = caller[d]
  BY <1>a DEF CallerRows
<1>d. /\ DOMAIN caller'[c] = {"at", "id", "on", "seen", "last"} /\ caller'[c].at = s
      /\ caller'[c].id = NumMain + requests + 1 /\ caller'[c].on = i
  BY <1>a DEF CallerRows, Resting
<1>e. Exists(i) /\ requests \in Nat /\ \A q \in asked : q.id \in 1 .. NumMain + requests
  BY <1>a DEF QuestionRows, AnswerVersions, Main
<1>f. i \in 1 .. NumMain + requests /\ ~Exists(NumMain + requests + 1)
  BY <1>e DEF Exists
<1>1. QuestionRows' /\ AnswerVersions' /\ CallerRows'
  <2>1. QuestionRows'
    <3>1. \A k : k \in NumMain + 1 .. NumMain + requests => k \in NumMain + 1 .. NumMain + requests'
      BY <1>e
    <3>2. QED
      BY <3>1, <1>a, <1>b, <1>e DEF QuestionRows
  <2>2. AnswerVersions'
    BY <1>a, <1>b DEF AnswerVersions
  <2>3. QED
    BY <2>1, <2>2, <1>a, <1>c, <1>d DEF CallerRows
<1>2. ASSUME NEW d \in Caller PROVE CallerFits(d)'
  <2>1. CASE d = c
    <3>1. /\ caller'[c].id \in NumMain + 1 .. NumMain + requests' /\ (\A q \in asked' : q.id # caller'[c].id)
          /\ caller'[c].on \in 1 .. NumMain + requests'
      BY <1>d, <1>e, <1>f DEF Exists
    <3>2. i \in Id /\ version'[i] > 0 /\ caller'[c].on = i /\ caller'[c].at \notin PastMain
      BY <1>d DEF PastMain
    <3>3. QED
      BY <2>1, <3>1, <3>2 DEF CallerFits, Exists
  <2>2. CASE d # c
    <3>1. CallerFits(d) /\ caller'[d] = caller[d]
      BY <2>2, <1>a, <1>c
    <3>2. Exists(caller[d].on)' = Exists(caller[d].on) /\ Exists(caller[d].id)' = Exists(caller[d].id)
      BY <3>1 DEF Exists
    <3>3. CASE ~Active(d)
      BY <3>1, <3>3 DEF CallerFits, Active
    <3>4. CASE Active(d)
      <4>1. /\ caller[d].id \in NumMain + 1 .. NumMain + requests'
            /\ caller[d].on \in 1 .. NumMain + requests'
        BY <3>1, <3>4, <1>e DEF CallerFits
      <4>2. QED
        BY <3>1, <3>2, <3>4, <4>1 DEF CallerFits
    <3>5. QED
      BY <3>3, <3>4
  <2>3. QED
    BY <2>1, <2>2
<1>3. IdsApart'
  <2> SUFFICES ASSUME NEW d \in Caller, NEW e \in Caller, Active(d)', Active(e)'
               PROVE  caller'[d].on # caller'[e].id /\ (caller'[d].id = caller'[e].id => d = e)
    BY DEF IdsApart
  <2>1. \A f \in Caller : f # c /\ Active(f)' =>
          /\ caller'[f].id \in 1 .. NumMain + requests /\ caller'[f].on \in 1 .. NumMain + requests
          /\ caller'[f] = caller[f] /\ Active(f) /\ ~Exists(caller[f].id)
    BY <1>a, <1>c, <1>e DEF CallerFits, Active
  <2>2. CASE d = c /\ e = c
    BY <2>2, <1>d, <1>e, <1>f
  <2>3. CASE d = c /\ e # c
    BY <2>1, <2>3, <1>d, <1>e, <1>f
  <2>4. CASE d # c /\ e = c
    BY <2>1, <2>4, <1>d, <1>e, <1>f
  <2>5. CASE d # c /\ e # c
    BY <2>1, <2>5, <1>a DEF IdsApart
  <2>6. QED
    BY <2>2, <2>3, <2>4, <2>5
<1>4. Deciding' = Deciding /\ \A m : DecidingOn(m)' = DecidingOn(m)
  BY <1>c, <1>d DEF Deciding, DecidingOn, PastMain, PastSession
<1>5. SessionRoom' /\ \A m \in Main : MainRoom(m)'
  BY <1>a, <1>b, <1>4 DEF SessionRoom, MainRoom
<1>6. QED
  BY <1>1, <1>2, <1>3, <1>5 DEF FollowInv

\* A request stores its follow-up to a main question.
LEMMA FollowupStored ==
  ASSUME FollowInv, NEW c \in Caller, caller[c].at = "insert", NEW i, NEW next,
         caller[c].on = i, Exists(i),
         \A q \in asked : q.ix # next, Finish(c), UNCHANGED <<version, requests>>,
         asked' = asked \cup {[id |-> caller[c].id, ix |-> next, parent |-> i,
                               above |-> The(i).above \cup {i}]}
  PROVE  FollowInv'
<1> USE FollowUpAssumption
<1> DEFINE new == [id |-> caller[c].id, ix |-> next, parent |-> i, above |-> The(i).above \cup {i}]
<1>a. /\ QuestionRows /\ AnswerVersions /\ CallerRows /\ (\A d \in Caller : CallerFits(d))
      /\ IdsApart /\ SessionRoom /\ \A m \in Main : MainRoom(m)
  BY DEF FollowInv
<1>b. Active(c) /\ i \in Main /\ version[i] > 0 /\ ~Exists(caller[c].id)
      /\ caller[c].id \in NumMain + 1 .. NumMain + requests /\ i \in Id /\ i # 0
  <2>1. Active(c) /\ CallerFits(c)
    BY <1>a DEF Active
  <2>2. i \in Main
    BY <2>1 DEF CallerFits, PastMain
  <2>3. QED
    BY <2>1, <2>2, ChildrenAreFollowups DEF CallerFits
<1>c. The(i).above = {}
  <2>1. PICK p \in asked : p.id = i
    BY DEF Exists
  <2>2. The(i) \in asked /\ The(i).id = i
    BY <2>1 DEF The
  <2>3. QED
    BY <2>2, <1>a, <1>b DEF QuestionRows, Main
<1>d. /\ new.id = caller[c].id /\ new.ix = next /\ new.parent = i /\ new.above = {i}
      /\ asked' = asked \cup {new}
  BY <1>c
<1> HIDE DEF new
<1>e. /\ Followups' = Followups \cup {new} /\ Of(i)' = Of(i) \cup {new}
      /\ (\A m : m # i => Of(m)' = Of(m))
      /\ (\A k : Exists(k)' <=> Exists(k) \/ k = caller[c].id)
  <2>1. Followups' = Followups \cup {new}
    BY <1>b, <1>d DEF Followups
  <2>2. Of(i)' = Of(i) \cup {new}
    BY <1>d DEF Of
  <2>3. \A m : m # i => Of(m)' = Of(m)
    BY <1>d DEF Of
  <2>4. \A k : Exists(k)' <=> Exists(k) \/ k = caller[c].id
    BY <1>d DEF Exists
  <2>5. QED
    BY <2>1, <2>2, <2>3, <2>4
<1>f. /\ DOMAIN caller' = Caller /\ caller'[c] = Resting /\ ~Active(c)'
      /\ \A d \in Caller : d # c => caller'[d] = caller[d]
  BY <1>a DEF CallerRows, Finish, Resting, Active
<1>1. QuestionRows'
  <2>1. IsFiniteSet(Followups')
    BY <1>a, <1>e, FS_AddElement DEF QuestionRows
  <2>2. \A q \in asked' : \/ q.id \in Main /\ q.parent = 0 /\ q.above = {}
                          \/ /\ q.id \in NumMain + 1 .. NumMain + requests
                             /\ q.parent \in Main /\ q.above = {q.parent}
    BY <1>a, <1>b, <1>d DEF QuestionRows
  <2>3. \A q \in asked : q.id # new.id /\ q.ix # new.ix
    BY <1>b, <1>d DEF Exists
  <2>4. \A p, q \in asked' : p.id = q.id \/ p.ix = q.ix => p = q
    BY <2>3, <1>a, <1>d DEF QuestionRows
  <2>5. QED
    BY <2>1, <2>2, <2>4, <1>a DEF QuestionRows
<1>2. AnswerVersions'
  BY <1>a, <1>b, <1>d, <1>e DEF AnswerVersions
<1>3. CallerRows'
  BY <1>a, <1>f DEF CallerRows, Resting
<1>4. ASSUME NEW d \in Caller PROVE CallerFits(d)'
  <2>1. CASE d = c
    BY <2>1, <1>f DEF CallerFits
  <2>2. CASE d # c
    <3>1. /\ CallerFits(d) /\ caller'[d] = caller[d]
          /\ Active(d) => caller[d].on # caller[c].id /\ caller[d].id # caller[c].id
      BY <2>2, <1>a, <1>b, <1>f DEF IdsApart
    <3>2. QED
      BY <3>1, <1>e DEF CallerFits, Active
  <2>3. QED
    BY <2>1, <2>2
<1>5. IdsApart'
  BY <1>a, <1>f DEF IdsApart, Active
<1>6. SessionRoom'
  <2>1. Deciding \in SUBSET Caller /\ c \in Deciding /\ Deciding' = Deciding \ {c}
    BY <1>f DEF Deciding, PastMain, PastSession, Resting
  <2>2. QED
    BY <2>1, <1>a, <1>e, Limits, StoredFits DEF SessionRoom, QuestionRows
<1>7. ASSUME NEW m \in Main PROVE MainRoom(m)'
  <2>1. DecidingOn(m) \in SUBSET Caller /\ IsFiniteSet(Of(m)) /\ MainRoom(m)
    BY <1>a, ChildrenFinite DEF DecidingOn
  <2>2. CASE m = i
    <3>1. c \in DecidingOn(m) /\ DecidingOn(m)' = DecidingOn(m) \ {c}
      BY <2>2, <1>f DEF DecidingOn, PastMain, Resting
    <3>2. Of(m)' = Of(m) \cup {new}
      BY <2>2, <1>e
    <3>3. QED
      BY <2>1, <3>1, <3>2, Limits, StoredFits DEF MainRoom
  <2>3. CASE m # i
    <3>1. DecidingOn(m)' \in SUBSET DecidingOn(m) /\ Of(m)' = Of(m)
      BY <2>3, <1>e, <1>f DEF DecidingOn, PastMain, Resting
    <3>2. QED
      BY <2>1, <3>1, Limits, FewerFit DEF MainRoom
  <2>4. QED
    BY <2>2, <2>3
<1>8. QED
  BY <1>1, <1>2, <1>3, <1>4, <1>5, <1>6, <1>7 DEF FollowInv

\* What a request is counted against: when its question is there and it is counted below one,
\* that question is a main one.
LEMMA CountedBelowOne ==
  ASSUME FollowInv, MaxPerMain = 1, NEW c \in Caller, Active(c), Exists(caller[c].on),
         CountOfMain(c) < MaxPerMain
  PROVE  caller[c].on \in Main /\ Cardinality(Of(caller[c].on)) < MaxPerMain
<1> USE FollowUpAssumption
<1> DEFINE i == caller[c].on
<1>a. QuestionRows /\ AnswerVersions
  BY DEF FollowInv
<1>1. PICK p \in asked : p.id = i
  BY DEF Exists
<1>2. The(i) = p
  BY <1>1, <1>a DEF The, QuestionRows
<1>3. CASE p.parent = 0
  <2>1. p.id \in Main
    BY <1>3, <1>a DEF QuestionRows, Main
  <2>2. MainOf(i) = i
    BY <1>2, <1>3 DEF MainOf
  <2>3. QED
    BY <2>1, <2>2, <1>1 DEF CountOfMain
<1>4. CASE p.parent # 0
  <2>1. p.parent \in Main /\ p.above = {p.parent}
    BY <1>4, <1>a DEF QuestionRows
  <2>2. MainOf(i) = p.parent
    BY <2>1, <1>2, <1>4 DEF MainOf
  <2>3. p \in Of(p.parent) /\ IsFiniteSet(Of(p.parent))
    BY <2>1, <1>a, ChildrenFinite DEF Of
  <2>4. Cardinality(Of(p.parent)) \in Nat /\ Cardinality(Of(p.parent)) # 0
    BY <2>3, FS_CardinalityType, FS_EmptySet
  <2>5. QED
    BY <2>2, <2>4 DEF CountOfMain
<1>5. QED
  BY <1>3, <1>4

\* Every step keeps it.
LEMMA FollowStep ==
  ASSUME MaxPerMain = 1
  PROVE  FollowInv /\ [FollowNext]_followVars => FollowInv'
<1> SUFFICES ASSUME FollowInv, [FollowNext]_followVars PROVE FollowInv'
  OBVIOUS
<1>a. /\ QuestionRows /\ AnswerVersions /\ CallerRows /\ (\A d \in Caller : CallerFits(d))
  BY DEF FollowInv
<1>v. version \in [Id -> Nat]
  BY <1>a DEF AnswerVersions
<1>f. ASSUME NEW c \in Caller, Active(c), Finish(c), UNCHANGED <<asked, version, requests>> PROVE FollowInv'
  <2>1. /\ DOMAIN caller' = Caller /\ (\A d \in Caller : d # c => caller'[d] = caller[d])
        /\ caller'[c].at = "idle" /\ DOMAIN caller'[c] = {"at", "id", "on", "seen", "last"}
    BY <1>a, <1>f DEF CallerRows, Finish, Resting
  <2>2. QED
    BY <2>1, <1>f, CallerMoves DEF PastMain, PastSession
<1>s. ASSUME NEW c \in Caller, NEW s, Active(c), Step(c, s), UNCHANGED <<asked, version, requests>>,
             s \in PastMain => caller[c].at \in PastMain,
             s \in PastSession => caller[c].at \in PastSession
      PROVE  FollowInv'
  <2>1. /\ DOMAIN caller' = Caller /\ (\A d \in Caller : d # c => caller'[d] = caller[d])
        /\ caller'[c].at = s /\ DOMAIN caller'[c] = {"at", "id", "on", "seen", "last"}
        /\ caller'[c].id = caller[c].id /\ caller'[c].on = caller[c].on
    BY <1>a, <1>s DEF CallerRows, Step
  <2>2. QED
    BY <2>1, <1>s, CallerMoves
<1>1. ASSUME NEW i \in Id, CreateAnswer(i) PROVE FollowInv'
  <2>1. version' = [version EXCEPT ![i] = version[i] + 1]
    BY <1>1, <1>v DEF CreateAnswer
  <2>2. QED
    BY <2>1, <1>1, AnswerWritten DEF CreateAnswer
<1>2. ASSUME NEW i \in Id, SaveAnswer(i) PROVE FollowInv'
  BY <1>2, AnswerWritten DEF SaveAnswer
<1>3. ASSUME NEW i \in Id, UpdateSpeech(i) PROVE FollowInv'
  <2>1. Exists(i)
    BY <1>3, <1>a DEF UpdateSpeech, MayRewrite, AnswerVersions
  <2>2. QED
    BY <2>1, <1>3, AnswerWritten DEF UpdateSpeech
<1>4. CASE DeleteSession
  <2>1. Delete(Main) /\ requests' = requests /\ caller' = caller
    BY <1>4 DEF DeleteSession
  <2>2. QED
    BY <2>1, <1>a, Deleted DEF CallerRows
<1>5. ASSUME NEW c \in Caller, NEW i \in Id, Request(c, i) PROVE FollowInv'
  BY <1>5, RequestBegins DEF Request
<1>6. ASSUME NEW c \in Caller, NEW i \in Id, NEW force \in BOOLEAN, RequestNested(c, i, force)
      PROVE  FollowInv'
  <2> DEFINE s == IF force THEN "drop" ELSE "look"
  <2>1. s \in {"look", "drop"}
    OBVIOUS
  <2>2. caller' = [caller EXCEPT ![c] = [Resting EXCEPT !.at = s, !.on = i, !.id = NumMain + requests + 1,
                                                        !.seen = version[i]]]
    BY <1>6 DEF RequestNested
  <2>3. [Resting EXCEPT !.at = s, !.on = i, !.id = NumMain + requests + 1, !.seen = version[i]]
          = [Resting EXCEPT !.at = s, !.id = NumMain + requests + 1, !.on = i, !.seen = version[i]]
    BY DEF Resting
  <2> HIDE DEF s
  <2>4. QED
    BY <2>1, <2>2, <2>3, <1>6, RequestBegins DEF RequestNested
<1>7. ASSUME NEW c \in Caller, Drop(c) PROVE FollowInv'
  <2>1. /\ Delete({ q.id : q \in Of(caller[c].on) }) /\ requests' = requests
        /\ Step(c, "look") /\ caller[c].at = "drop"
    BY <1>7 DEF Drop
  <2>2. DOMAIN caller' = Caller /\ \A d \in Caller : d # c => caller'[d] = caller[d]
    BY <2>1, <1>a DEF CallerRows, Step
  <2>3. /\ DOMAIN caller'[c] = {"at", "id", "on", "seen", "last"} /\ caller'[c].at = "look"
        /\ caller'[c].id = caller[c].id /\ caller'[c].on = caller[c].on
    BY <2>1, <1>a DEF CallerRows, Step
  <2>4. {"look", "drop"} \cap PastMain = {} /\ {"look", "drop"} \cap PastSession = {}
    BY DEF PastMain, PastSession
  <2>5. ASSUME NEW d \in Caller
        PROVE  /\ DOMAIN caller'[d] = {"at", "id", "on", "seen", "last"}
               /\ caller'[d].id = caller[d].id /\ caller'[d].on = caller[d].on
               /\ caller'[d].at = "idle" <=> caller[d].at = "idle"
               /\ caller'[d].at \in PastMain <=> caller[d].at \in PastMain
               /\ caller'[d].at \in PastSession <=> caller[d].at \in PastSession
    <3>1. CASE d = c
      BY <3>1, <2>1, <2>3, <2>4
    <3>2. CASE d # c
      BY <3>2, <2>2, <1>a DEF CallerRows
    <3>3. QED
      BY <3>1, <3>2
  <2>6. QED
    BY <2>1, <2>2, <2>5, Deleted
<1>8. ASSUME NEW c \in Caller, Look(c) PROVE FollowInv'
  <2>1. Active(c) /\ "perMain" \notin PastMain /\ "perMain" \notin PastSession
    BY <1>8 DEF Look, Active, PastMain, PastSession
  <2>2. (Finish(c) \/ Step(c, "perMain")) /\ UNCHANGED <<asked, version, requests>>
    BY <1>8 DEF Look
  <2>3. QED
    BY <2>1, <2>2, <1>f, <1>s
<1>9. ASSUME NEW c \in Caller, CountPerMain(c) PROVE FollowInv'
  <2>1. Active(c) /\ UNCHANGED <<asked, version, requests>>
    BY <1>9 DEF CountPerMain, Active
  <2>2. CASE Finish(c)
    BY <2>1, <2>2, <1>f
  <2>3. ASSUME Step(c, "perSession"), ~Exists(caller[c].on) \/ CountOfMain(c) < MaxPerMain
        PROVE  FollowInv'
    <3>1. /\ DOMAIN caller' = Caller /\ (\A d \in Caller : d # c => caller'[d] = caller[d])
          /\ caller'[c].at = "perSession" /\ DOMAIN caller'[c] = {"at", "id", "on", "seen", "last"}
          /\ caller'[c].id = caller[c].id /\ caller'[c].on = caller[c].on
      BY <1>a, <2>3 DEF CallerRows, Step
    <3>2. "perSession" \notin PastSession
      BY DEF PastSession
    <3>3. \/ ~Exists(caller[c].on)
          \/ Cardinality(Of(caller[c].on)) < MaxPerMain /\ caller[c].on \in Main
      BY <2>1, <2>3, CountedBelowOne
    <3>4. QED
      BY <2>1, <3>1, <3>2, <3>3, CallerMoves
  <2>4. QED
    BY <2>2, <2>3, <1>9 DEF CountPerMain
<1>10. ASSUME NEW c \in Caller, CountPerSession(c) PROVE FollowInv'
  <2>1. Active(c) /\ caller[c].at \in PastMain /\ UNCHANGED <<asked, version, requests>>
    BY <1>10 DEF CountPerSession, Active, PastMain
  <2>2. CASE Finish(c)
    BY <2>1, <2>2, <1>f
  <2>3. CASE RoomInSession /\ Step(c, "judge")
    <3>1. /\ DOMAIN caller' = Caller /\ (\A d \in Caller : d # c => caller'[d] = caller[d])
          /\ caller'[c].at = "judge" /\ DOMAIN caller'[c] = {"at", "id", "on", "seen", "last"}
          /\ caller'[c].id = caller[c].id /\ caller'[c].on = caller[c].on
      BY <1>a, <2>3 DEF CallerRows, Step
    <3>2. QED
      BY <2>1, <2>3, <3>1, CallerMoves DEF RoomInSession
  <2>4. QED
    BY <2>2, <2>3, <1>10 DEF CountPerSession
\* Behind both limits a request goes on or ends.
<1>p. ASSUME NEW c \in Caller, caller[c].at \in PastSession, UNCHANGED <<asked, version, requests>>,
             Finish(c) \/ \E s \in PastSession : Step(c, s)
      PROVE  FollowInv'
  <2>1. Active(c) /\ caller[c].at \in PastMain
    BY <1>p DEF Active, PastSession, PastMain
  <2>2. QED
    BY <2>1, <1>p, <1>f, <1>s
<1>11. ASSUME NEW c \in Caller, Judge(c) PROVE FollowInv'
  BY <1>11, <1>p DEF Judge, PastMain, PastSession
<1>12. ASSUME NEW c \in Caller, Guard(c) PROVE FollowInv'
  BY <1>12, <1>p DEF Guard, PastMain, PastSession
<1>13. ASSUME NEW c \in Caller, GenerateQuestion(c) PROVE FollowInv'
  BY <1>13, <1>p DEF GenerateQuestion, PastMain, PastSession
<1>14. ASSUME NEW c \in Caller, ReadIndex(c) PROVE FollowInv'
  <2>1. caller[c].at \in PastSession /\ caller[c].at \in PastMain /\ Active(c)
        /\ UNCHANGED <<asked, version, requests>>
    BY <1>14 DEF ReadIndex, Active, PastSession, PastMain
  <2>2. /\ DOMAIN caller' = Caller /\ (\A d \in Caller : d # c => caller'[d] = caller[d])
        /\ DOMAIN caller'[c] = {"at", "id", "on", "seen", "last"}
        /\ caller'[c].id = caller[c].id /\ caller'[c].on = caller[c].on
    BY <1>a, <1>14 DEF CallerRows, ReadIndex
  <2>3. QED
    BY <2>1, <2>2, CallerMoves
<1>15. ASSUME NEW c \in Caller, Insert(c) PROVE FollowInv'
  <2>1. Active(c) /\ UNCHANGED <<version, requests>> /\ Finish(c) /\ caller[c].at = "insert"
    BY <1>15 DEF Insert, Active
  <2>2. CASE UNCHANGED asked
    BY <2>1, <2>2, <1>f
  <2>3. CASE asked' # asked
    BY <2>1, <2>3, <1>15, FollowupStored DEF Insert
  <2>4. QED
    BY <2>2, <2>3
<1>16. CASE UNCHANGED followVars
  <2>1. UNCHANGED <<asked, version, caller, requests>>
    BY <1>16 DEF followVars
  <2>2. QED
    BY <2>1 DEF FollowInv, QuestionRows, AnswerVersions, CallerRows, CallerFits, IdsApart, SessionRoom,
       MainRoom, Deciding, DecidingOn, Active, Followups, Of, Exists
<1>17. QED
  BY <1>1, <1>2, <1>3, <1>4, <1>5, <1>6, <1>7, <1>8, <1>9, <1>10, <1>11, <1>12, <1>13, <1>14, <1>15,
     <1>16 DEF FollowNext

\* With the one follow-up to a main question that the code allows (follow_up_generator.py): however
\* many requests overlap, delete and store, the follow-ups exceed the limits of the session and of
\* each main question by less than one per request, and each one follows an answer that is there.
THEOREM FollowupsInPlaceCorrect ==
  ASSUME MaxPerMain = 1
  PROVE  FollowSpec => []FollowupsInPlace
<1>1. FollowInv => FollowupsInPlace
  <2> SUFFICES ASSUME FollowInv PROVE FollowupsInPlace
    OBVIOUS
  <2>a. QuestionRows /\ AnswerVersions /\ SessionRoom /\ \A m \in Main : MainRoom(m)
    BY DEF FollowInv
  <2>1. Cardinality(Followups) <= MaxPerSession + Cardinality(Caller) - 1
    <3>1. Deciding \in SUBSET Caller /\ IsFiniteSet(Followups)
      BY <2>a DEF Deciding, QuestionRows
    <3>2. Cardinality(Deciding) \in Nat /\ Cardinality(Followups) \in Nat
      BY <3>1, Callers, FS_CardinalityType
    <3>3. QED
      BY <3>2, <2>a, Limits DEF SessionRoom
  <2>2. ASSUME NEW m \in Main
        PROVE  Cardinality({ q \in Followups : m \in q.above }) <= MaxPerMain + Cardinality(Caller) - 1
    <3> DEFINE below == { q \in Followups : m \in q.above }
    <3>1. below = Of(m)
      BY <2>a, FollowUpAssumption DEF QuestionRows, Followups, Of, Main
    <3>2. DecidingOn(m) \in SUBSET Caller /\ IsFiniteSet(Of(m))
      BY <2>a, ChildrenFinite DEF DecidingOn
    <3>3. Cardinality(DecidingOn(m)) \in Nat /\ Cardinality(Of(m)) \in Nat
      BY <3>2, Callers, FS_CardinalityType
    <3>4. MainRoom(m)
      BY <2>a
    <3> HIDE DEF below
    <3>5. Cardinality(below) <= MaxPerMain + Cardinality(Caller) - 1
      BY <3>1, <3>3, <3>4, Limits DEF MainRoom
    <3>6. QED
      BY <3>5 DEF below
  <2>3. FollowupsAttached
    BY <2>a DEF FollowupsAttached, AnswerVersions, QuestionRows
  <2>4. QED
    BY <2>1, <2>2, <2>3 DEF FollowupsInPlace, FollowupsBounded
<1>2. QED
  BY <1>1, FollowInitially, FollowStep, PTL DEF FollowSpec

-----------------------------------------------------------------------------
(* The session and its main questions *)

SessionRows == [status : Status, started : Nat \cup {Never}, ended : Nat \cup {Never}, total : 1 .. MaxMain]
CallFields == {"at", "id", "route", "to", "asks", "test", "row", "next"}

\* The questions 1 to n as the call b stores them.
Written(b, n) == { [ix |-> i, by |-> b] : i \in 1 .. n }

\* The rows.
Tables ==
  /\ session \in SessionRows \cup {Gone}
  /\ DOMAIN worker = Worker
  /\ \A w \in Worker : DOMAIN worker[w] = CallFields
  /\ calls \in Nat

\* Where each route may be, and what a call holds there.
CallFits(w) ==
  Busy(w) =>
    /\ worker[w].id \in 1 .. calls
    /\ worker[w].row \in SessionRows
    /\ worker[w].to \in Status
    /\ worker[w].route \in Generations => worker[w].asks \in 1 .. MaxMain
    /\ \/ worker[w].route = "flat" /\ worker[w].at \in {"total", "generate", "store"}
       \/ worker[w].route = "nested" /\ worker[w].at \in {"delete", "resolve", "generate", "rows"}
       \/ worker[w].route = "pack" /\ worker[w].at \in {"rows", "total"}
       \/ worker[w].route \in {"statusAll", "statusFlat", "complete"} /\ worker[w].at = "save"
       \/ worker[w].route \in {"statusFlat", "complete"} /\ worker[w].at = "reward"
    /\ worker[w].at = "rows" => worker[w].next \in 1 .. worker[w].asks
    /\ worker[w].at = "rows" \/ worker[w].route = "pack" \/ worker[w].next = 1

\* No two calls have one number.
NumbersApart ==
  \A v, w \in Worker : Busy(v) /\ Busy(w) /\ worker[v].id = worker[w].id => v = w

\* Unless a deletion cut into a call that stores rows, the questions are those of one call,
\* and a call that has stored some has stored all that there are.
OneSet ==
  ~cut => /\ \E b \in Nat, n \in Nat : mains = Written(b, n)
          /\ \A w \in Worker : worker[w].at = "rows" /\ worker[w].next > 1 =>
               mains = Written(worker[w].id, worker[w].next - 1)

\* As long as no generation overlapped another or a write of all columns, or died: ...
Exclusive ==
  \A v, w \in Worker : v # w /\ Busy(v) /\ Busy(w) /\ worker[v].route \in Generations =>
    worker[w].route \notin Generations \cup {"statusAll"}

\* ... what is stored is what the call has stored, and the total what it was asked for, ...
AloneFits(w) ==
  Busy(w) =>
    /\ worker[w].route \in Generations \cup {"statusAll"} => session # Gone
    /\ worker[w].route = "statusAll" => worker[w].row.total = session.total
    /\ worker[w].route = "flat" => mains = {}
    /\ worker[w].route = "flat" /\ worker[w].at # "total" => session.total = worker[w].asks
    /\ worker[w].route = "nested" => session.total = worker[w].asks
    /\ worker[w].route = "nested" /\ worker[w].at \in {"resolve", "generate"} => mains = {}
    /\ worker[w].at = "rows" => mains = Written(worker[w].id, worker[w].next - 1)
    /\ worker[w].route = "pack" /\ worker[w].at = "total" => mains = Written(worker[w].id, worker[w].asks)

\* ... and the total is right when no generation runs.
TotalFits ==
  (\A w \in Worker : ~Writes(w)) /\ mains # {} /\ session # Gone => session.total = Cardinality(mains)

Undisturbed == ~mixed => ~cut /\ Exclusive /\ (\A w \in Worker : AloneFits(w)) /\ TotalFits

\* Whoever has seen the session completed can count on its reward.
RewardSure == rewarded = TRUE \/ \E w \in Worker : worker[w].at = "reward"
PaidOrUnpaid ==
  ~unpaid => /\ session # Gone /\ session.status = "completed" => RewardSure
             /\ \A w \in Worker : Busy(w) /\ worker[w].row.status = "completed" => RewardSure

SessionInv ==
  /\ Tables
  /\ \A w \in Worker : CallFits(w)
  /\ NumbersApart /\ OneSet /\ Undisturbed /\ PaidOrUnpaid

-----------------------------------------------------------------------------
(* The questions of one call *)

\* n questions of b have the indexes 1 to n, ...
LEMMA WrittenCount ==
  ASSUME NEW b, NEW n \in Nat
  PROVE  /\ Cardinality(Written(b, n)) = n
         /\ { q.ix : q \in Written(b, n) } = 1 .. n
         /\ { q.by : q \in Written(b, n) } \subseteq {b}
         /\ Written(b, n) = {} <=> n = 0
<1> DEFINE f == [i \in 1 .. n |-> [ix |-> i, by |-> b]]
<1>1. IsFiniteSet(1 .. n) /\ Cardinality(1 .. n) = n
  BY FS_Interval
<1>2. f \in Bijection(1 .. n, Written(b, n))
  <2>1. f \in [1 .. n -> Written(b, n)]
    BY DEF Written
  <2>2. IsInjective(f)
    <3>1. \A i, j \in 1 .. n : f[i] = f[j] => f[i].ix = f[j].ix
      OBVIOUS
    <3>2. \A i \in 1 .. n : f[i].ix = i
      OBVIOUS
    <3>3. DOMAIN f = 1 .. n
      OBVIOUS
    <3> HIDE DEF f
    <3>4. QED
      BY <3>1, <3>2, <3>3 DEF IsInjective
  <2>3. \A q \in Written(b, n) : \E i \in 1 .. n : f[i] = q
    BY DEF Written
  <2> HIDE DEF f
  <2>4. QED
    BY <2>1, <2>2, <2>3 DEF Bijection, Injection, Surjection
<1>3. ExistsBijection(1 .. n, Written(b, n))
  BY <1>2 DEF ExistsBijection
<1>4. Cardinality(Written(b, n)) = n
  BY <1>1, <1>3, FS_Bijection
<1>5. { q.ix : q \in Written(b, n) } = 1 .. n
  <2>1. \A q \in Written(b, n) : q.ix \in 1 .. n
    BY DEF Written
  <2>2. ASSUME NEW i \in 1 .. n PROVE \E q \in Written(b, n) : q.ix = i
    <3>1. [ix |-> i, by |-> b] \in Written(b, n) /\ [ix |-> i, by |-> b].ix = i
      BY DEF Written
    <3>2. QED
      BY <3>1
  <2>3. QED
    BY <2>1, <2>2
<1>6. { q.by : q \in Written(b, n) } \subseteq {b}
  BY DEF Written
<1>7. Written(b, n) = {} <=> n = 0
  <2>1. CASE n = 0
    <3>1. 1 .. n = {}
      BY <2>1
    <3>2. QED
      BY <2>1, <3>1 DEF Written
  <2>2. CASE n # 0
    <3>1. 1 \in 1 .. n
      BY <2>2
    <3>2. QED
      BY <2>2, <3>1 DEF Written
  <2>3. QED
    BY <2>1, <2>2
<1>8. QED
  BY <1>4, <1>5, <1>6, <1>7

\* ... and are none only if n is 0.
LEMMA WrittenSome == ASSUME NEW b, NEW n \in Nat, n # 0 PROVE Written(b, n) # {}
  BY WrittenCount

\* The next one.
LEMMA WrittenOn ==
  ASSUME NEW b, NEW n \in Nat
  PROVE  Written(b, n) \cup {[ix |-> n + 1, by |-> b]} = Written(b, n + 1)
<1>1. 1 .. n + 1 = (1 .. n) \cup {n + 1}
  OBVIOUS
<1>2. QED
  BY <1>1 DEF Written

\* Who has written them, and how many, can be told from them.
LEMMA WrittenByOne ==
  ASSUME NEW a, NEW b, NEW m \in Nat, NEW n \in Nat, m > 0, Written(a, m) = Written(b, n)
  PROVE  a = b /\ m = n
<1>1. Cardinality(Written(a, m)) = m /\ Cardinality(Written(b, n)) = n
  BY WrittenCount
<1>2. [ix |-> 1, by |-> a] \in Written(a, m)
  BY DEF Written
<1>3. PICK i \in 1 .. n : [ix |-> 1, by |-> a] = [ix |-> i, by |-> b]
  BY <1>2 DEF Written
<1>4. QED
  BY <1>1, <1>3

\* A row is not that of a deleted session.
LEMMA RowIsThere == ASSUME NEW r \in SessionRows PROVE r # Gone
<1>1. 1 .. MaxMain \subseteq Nat
  BY InterviewBoundAssumption
<1>2. r \in [status : Status, started : Nat \cup {Never}, ended : Nat \cup {Never}, total : Nat]
  BY <1>1 DEF SessionRows
<1>3. QED
  BY <1>2, InterviewBoundAssumption

\* A stamped row is a row, with the status asked for and the same number of questions.
LEMMA StampedFits ==
  ASSUME NEW w \in Worker, worker[w].row \in SessionRows, worker[w].to \in Status, calls \in Nat
  PROVE  /\ Stamped(w) \in SessionRows /\ Stamped(w).status = worker[w].to
         /\ Stamped(w).total = worker[w].row.total
<1> DEFINE r == worker[w].row
           s == IF worker[w].to = "in_progress" /\ r.started = Never THEN calls ELSE r.started
           e == IF Ends(w) /\ r.ended = Never THEN calls ELSE r.ended
<1>1. s \in Nat \cup {Never} /\ e \in Nat \cup {Never}
  BY DEF SessionRows
<1>2. Stamped(w) = [r EXCEPT !.status = worker[w].to, !.started = s, !.ended = e]
  BY DEF Stamped
<1> HIDE DEF s, e
<1>3. QED
  BY <1>1, <1>2 DEF SessionRows

-----------------------------------------------------------------------------
(* One worker moves *)

\* What a call holds does not change on its way.
Keeps(w) ==
  /\ worker'[w].id = worker[w].id /\ worker'[w].route = worker[w].route
  /\ worker'[w].to = worker[w].to /\ worker'[w].asks = worker[w].asks
  /\ worker'[w].row = worker[w].row

Follows(w) ==
  /\ DOMAIN worker' = Worker
  /\ \A v \in Worker : DOMAIN worker'[v] = CallFields
  /\ \A v \in Worker \ {w} : worker'[v] = worker[v]
  /\ worker'[w].at = "idle" \/ (Busy(w) /\ Keeps(w))

\* A call goes on, ...
LEMMA GotoFollows ==
  ASSUME Tables, NEW w \in Worker, NEW s, Busy(w), Goto(w, s)
  PROVE  Follows(w) /\ worker'[w].at = s /\ Keeps(w) /\ worker'[w].next = worker[w].next
<1>1. worker' = [worker EXCEPT ![w] = [worker[w] EXCEPT !.at = s]]
  BY DEF Goto
<1> DEFINE r == [worker[w] EXCEPT !.at = s]
<1>2. DOMAIN worker[w] = CallFields
  BY DEF Tables
<1>3. /\ DOMAIN r = CallFields /\ r.at = s
      /\ r.id = worker[w].id /\ r.route = worker[w].route /\ r.to = worker[w].to
      /\ r.asks = worker[w].asks /\ r.row = worker[w].row /\ r.next = worker[w].next
  BY <1>2 DEF CallFields
<1> HIDE DEF r
<1>4. worker'[w] = r
  BY <1>1 DEF Tables, r
<1>5. DOMAIN worker' = Worker /\ \A v \in Worker \ {w} : worker'[v] = worker[v]
  BY <1>1 DEF Tables
<1>6. QED
  BY <1>3, <1>4, <1>5 DEF Follows, Keeps, Tables

\* ... or ends.
LEMMA ReturnFollows ==
  ASSUME Tables, NEW w \in Worker, Return(w)
  PROVE  Follows(w) /\ worker'[w].at = "idle"
<1>1. worker'[w] = Idle
  BY DEF Return, Tables
<1>2. Idle.at = "idle" /\ DOMAIN Idle = CallFields
  BY DEF Idle, CallFields
<1>3. DOMAIN worker' = Worker /\ \A v \in Worker \ {w} : worker'[v] = worker[v]
  BY DEF Return, Tables
<1>4. ASSUME NEW v \in Worker PROVE DOMAIN worker'[v] = CallFields
  <2>1. CASE v = w
    BY <1>1, <1>2, <2>1
  <2>2. CASE v # w
    BY <1>3, <2>2 DEF Tables
  <2>3. QED
    BY <2>1, <2>2
<1>5. worker'[w].at = "idle"
  BY <1>1, <1>2
<1>6. \A v \in Worker : DOMAIN worker'[v] = CallFields
  BY <1>4
<1>7. QED
  BY <1>3, <1>5, <1>6 DEF Follows, Keeps, Busy

\* The calls keep their numbers, so they stay apart; ...
LEMMA NumbersStayApart ==
  ASSUME NumbersApart, NEW w \in Worker, Follows(w)
  PROVE  NumbersApart'
  BY DEF NumbersApart, Follows, Keeps, Busy

\* ... what the others hold still fits; ...
LEMMA CallsFit ==
  ASSUME \A v \in Worker : CallFits(v), NEW w \in Worker, Follows(w), calls' = calls,
         worker'[w].at = "idle" \/ CallFits(w)'
  PROVE  \A v \in Worker : CallFits(v)'
<1> TAKE v \in Worker
<1>1. CASE v # w
  BY <1>1 DEF Follows, CallFits, Busy
<1>2. CASE v = w
  BY <1>2 DEF CallFits, Busy
<1>3. QED
  BY <1>1, <1>2

\* ... no generation overlaps another.
LEMMA StayExclusive ==
  ASSUME Exclusive, NEW w \in Worker, Follows(w)
  PROVE  Exclusive'
  BY DEF Exclusive, Follows, Keeps, Busy

\* Questions that stay are still those of one call.
LEMMA OneSetStays ==
  ASSUME OneSet, NEW w \in Worker, Follows(w), UNCHANGED <<mains, cut>>,
         worker'[w].at = "rows" => worker'[w].next = 1
  PROVE  OneSet'
<1> SUFFICES ASSUME ~cut' PROVE OneSet!2'
  BY DEF OneSet
<1>1. ~cut
  OBVIOUS
<1>2. \E b \in Nat, n \in Nat : mains' = Written(b, n)
  BY <1>1 DEF OneSet
<1>3. ASSUME NEW v \in Worker, worker'[v].at = "rows", worker'[v].next > 1
      PROVE  mains' = Written(worker'[v].id, worker'[v].next - 1)
  <2>1. v # w
    BY <1>3
  <2>2. worker'[v] = worker[v]
    BY <2>1 DEF Follows
  <2>3. QED
    BY <1>1, <1>3, <2>2 DEF OneSet
<1>4. QED
  BY <1>2, <1>3

\* A generation is alone with the questions.
LEMMA OthersFit ==
  ASSUME Exclusive, NEW w \in Worker, Writes(w), \A v \in Worker : CallFits(v), Follows(w)
  PROVE  \A v \in Worker \ {w} : AloneFits(v)'
<1> TAKE v \in Worker \ {w}
<1>1. worker'[v] = worker[v]
  BY DEF Follows
<1>2. Busy(v) => worker[v].route \notin Generations \cup {"statusAll"}
  BY DEF Exclusive, Writes
<1>3. Busy(v) => worker[v].at # "rows"
  BY <1>2 DEF CallFits, Generations
<1>4. QED
  BY <1>1, <1>2, <1>3 DEF AloneFits, Busy, Generations

\* A step of a call that writes no question, and not the total, disturbs nothing.
LEMMA TotalStays ==
  ASSUME ~mixed => ~cut /\ Exclusive /\ (\A v \in Worker : AloneFits(v)) /\ TotalFits,
         NEW w \in Worker, ~Writes(w), Follows(w), worker'[w].at # "rows",
         UNCHANGED <<mains, cut, mixed>>, session = Gone <=> session' = Gone,
         session # Gone => session'.total = session.total
  PROVE  Undisturbed'
<1> SUFFICES ASSUME ~mixed
             PROVE  ~cut' /\ Exclusive' /\ (\A v \in Worker : AloneFits(v)') /\ TotalFits'
  BY DEF Undisturbed
<1>1. ~cut /\ Exclusive /\ TotalFits
  OBVIOUS
<1>2. Exclusive'
  BY <1>1, StayExclusive
<1>3. ASSUME NEW v \in Worker PROVE AloneFits(v)'
  <2>1. AloneFits(v)
    OBVIOUS
  <2>2. CASE v # w
    <3>1. worker'[v] = worker[v]
      BY <2>2 DEF Follows
    <3>2. QED
      BY <2>1, <3>1 DEF AloneFits, Busy, Generations
  <2>3. CASE v = w
    <3>1. worker'[w].at = "idle" \/ (Busy(w) /\ Keeps(w))
      BY DEF Follows
    <3>2. Busy(w) => worker[w].route \notin Generations
      BY DEF Writes
    <3>3. CASE worker'[w].at = "idle"
      BY <2>3, <3>3 DEF AloneFits, Busy
    <3>4. CASE Busy(w) /\ Keeps(w) /\ worker'[w].at # "rows"
      BY <2>1, <2>3, <3>2, <3>4 DEF AloneFits, Busy, Keeps, Generations
    <3>5. QED
      BY <3>1, <3>3, <3>4
  <2>4. QED
    BY <2>2, <2>3
<1>4. TotalFits'
  <2>1. ASSUME NEW v \in Worker PROVE Writes(v) => Writes(v)'
    BY DEF Writes, Busy, Follows
  <2>2. QED
    BY <1>1, <2>1 DEF TotalFits
<1>5. QED
  BY <1>1, <1>2, <1>3, <1>4

\* Whoever could count on the reward still can.
LEMMA PaidStays ==
  ASSUME PaidOrUnpaid, NEW w \in Worker, Follows(w), worker[w].at # "reward",
         UNCHANGED <<rewarded, unpaid>>,
         session' # Gone => session # Gone /\ session'.status = session.status
  PROVE  PaidOrUnpaid'
<1> SUFFICES ASSUME ~unpaid PROVE PaidOrUnpaid!2'
  BY DEF PaidOrUnpaid
<1>1. RewardSure => RewardSure'
  BY DEF RewardSure, Follows
<1>2. session' # Gone /\ session'.status = "completed" => RewardSure'
  BY <1>1 DEF PaidOrUnpaid
<1>3. ASSUME NEW v \in Worker, worker'[v].at # "idle", worker'[v].row.status = "completed"
      PROVE  RewardSure'
  BY <1>1, <1>3 DEF PaidOrUnpaid, Follows, Keeps, Busy
<1>4. QED
  BY <1>2, <1>3 DEF Busy

-----------------------------------------------------------------------------
(* Calls *)

\* A new session has no questions and is not completed.
LEMMA SessionInitially == InterviewInit => SessionInv
<1> SUFFICES ASSUME InterviewInit PROVE SessionInv
  OBVIOUS
<1>1. /\ \A w \in Worker : worker[w] = Idle
      /\ DOMAIN worker = Worker
  BY DEF InterviewInit
<1>2. Idle.at = "idle" /\ DOMAIN Idle = CallFields
  BY DEF Idle, CallFields
<1>3. \A w \in Worker : worker[w].at = "idle" /\ ~Busy(w) /\ DOMAIN worker[w] = CallFields
  BY <1>1, <1>2 DEF Busy
<1>4. session \in SessionRows /\ session.status = "created"
  BY InterviewBoundAssumption DEF InterviewInit, SessionRows, Status
<1>5. Tables
  BY <1>1, <1>3, <1>4 DEF Tables, InterviewInit
<1>6. (\A w \in Worker : CallFits(w)) /\ NumbersApart
  BY <1>3 DEF CallFits, NumbersApart
<1>7. mains = Written(0, 0)
  BY WrittenCount DEF InterviewInit
<1>8. OneSet
  BY <1>3, <1>7 DEF OneSet
<1>9. Undisturbed
  BY <1>3 DEF Undisturbed, InterviewInit, Exclusive, AloneFits, TotalFits
<1>10. PaidOrUnpaid
  BY <1>3, <1>4 DEF PaidOrUnpaid
<1>11. QED
  BY <1>5, <1>6, <1>8, <1>9, <1>10 DEF SessionInv

\* A call that starts where its route starts keeps the invariant.
LEMMA CallKeeps ==
  ASSUME SessionInv, NEW w \in Worker, NEW route, NEW to \in Status, NEW wanted, NEW test, NEW s,
         Call(w, route, to, wanted, test, s),
         \/ route = "flat" /\ s = "total" /\ mains = {}
         \/ /\ route = "nested" /\ wanted = session.total
            /\ s = "delete" \/ (s = "resolve" /\ mains = {})
         \/ route = "pack" /\ s = "rows" /\ mains = {}
         \/ route \in {"statusAll", "statusFlat", "complete"} /\ s = "save",
         route \in Generations => wanted \in 1 .. MaxMain
  PROVE  SessionInv'
<1> DEFINE c == [at |-> s, id |-> calls + 1, route |-> route, to |-> to, asks |-> wanted,
                 test |-> test, row |-> session, next |-> 1]
<1>1. worker[w].at = "idle" /\ session # Gone /\ calls' = calls + 1
  BY DEF Call
<1>2. worker' = [worker EXCEPT ![w] = c]
  BY DEF Call
<1>3. /\ DOMAIN c = CallFields /\ c.at = s /\ c.id = calls + 1 /\ c.route = route /\ c.to = to
      /\ c.asks = wanted /\ c.row = session /\ c.next = 1
  BY DEF CallFields
<1> HIDE DEF c
<1>4. /\ DOMAIN worker' = Worker /\ worker'[w] = c
      /\ \A v \in Worker \ {w} : worker'[v] = worker[v]
  BY <1>2 DEF SessionInv, Tables
<1>5. session \in SessionRows /\ calls \in Nat
  BY <1>1 DEF SessionInv, Tables
<1>6. UNCHANGED <<session, mains, rewarded, deaths, cut, unpaid>>
  BY DEF Call
<1>7. Tables'
  BY <1>1, <1>3, <1>4, <1>5, <1>6 DEF SessionInv, Tables
<1>8. ASSUME NEW v \in Worker PROVE CallFits(v)'
  <2>1. CASE v = w
    <3>1. route \in Generations => 1 \in 1 .. wanted
      BY InterviewBoundAssumption
    <3>2. CASE route = "flat"
      BY <1>1, <1>3, <1>4, <1>5, <2>1, <3>1, <3>2 DEF CallFits, Busy, Generations
    <3>3. CASE route = "nested"
      BY <1>1, <1>3, <1>4, <1>5, <2>1, <3>1, <3>3 DEF CallFits, Busy, Generations
    <3>4. CASE route = "pack"
      BY <1>1, <1>3, <1>4, <1>5, <2>1, <3>1, <3>4 DEF CallFits, Busy, Generations
    <3>5. CASE route \in {"statusAll", "statusFlat", "complete"}
      BY <1>1, <1>3, <1>4, <1>5, <2>1, <3>1, <3>5 DEF CallFits, Busy, Generations
    <3>6. QED
      BY <3>2, <3>3, <3>4, <3>5
  <2>2. CASE v # w
    <3>1. worker'[v] = worker[v] /\ CallFits(v)
      BY <1>4, <2>2 DEF SessionInv
    <3>2. Busy(v) => worker[v].id \in 1 .. calls + 1
      BY <1>5, <3>1 DEF CallFits
    <3>3. QED
      BY <1>1, <3>1, <3>2 DEF CallFits, Busy
  <2>3. QED
    BY <2>1, <2>2
<1>9. NumbersApart'
  <2> SUFFICES ASSUME NEW u \in Worker, NEW v \in Worker, Busy(u)', Busy(v)',
                      worker'[u].id = worker'[v].id, u # v
               PROVE  FALSE
    BY DEF NumbersApart
  <2>1. \A x \in Worker \ {w} : Busy(x)' => worker'[x].id \in 1 .. calls /\ Busy(x)
    BY <1>4 DEF SessionInv, CallFits, Busy
  <2>2. worker'[w].id = calls + 1
    BY <1>3, <1>4
  <2>3. u # w /\ v # w
    BY <1>5, <2>1, <2>2
  <2>4. QED
    BY <1>4, <2>1, <2>3 DEF SessionInv, NumbersApart
<1>10. OneSet'
  <2> SUFFICES ASSUME ~cut' PROVE OneSet!2'
    BY DEF OneSet
  <2>1. ~cut /\ mains' = mains
    BY <1>6
  <2>2. \E b \in Nat, n \in Nat : mains' = Written(b, n)
    BY <2>1 DEF SessionInv, OneSet
  <2>3. ASSUME NEW v \in Worker, worker'[v].at = "rows", worker'[v].next > 1
        PROVE  mains' = Written(worker'[v].id, worker'[v].next - 1)
    <3>1. v # w
      BY <1>3, <1>4, <2>3
    <3>2. worker'[v] = worker[v]
      BY <1>4, <3>1
    <3>3. QED
      BY <2>1, <2>3, <3>2 DEF SessionInv, OneSet
  <2>4. QED
    BY <2>2, <2>3
<1>11. Undisturbed'
  <2> SUFFICES ASSUME ~mixed'
               PROVE  ~cut' /\ Exclusive' /\ (\A v \in Worker : AloneFits(v)') /\ TotalFits'
    BY DEF Undisturbed
  <2>1. /\ ~mixed
        /\ \A v \in Worker \ {w} : Busy(v) =>
             ~(/\ {route, worker[v].route} \cap Generations # {}
               /\ {route, worker[v].route} \subseteq Generations \cup {"statusAll"})
    BY DEF Call
  <2>2. ~cut /\ Exclusive /\ (\A v \in Worker : AloneFits(v)) /\ TotalFits
    BY <2>1 DEF SessionInv, Undisturbed
  <2>3. Exclusive'
    <3> SUFFICES ASSUME NEW u \in Worker, NEW v \in Worker, u # v, Busy(u)', Busy(v)',
                        worker'[u].route \in Generations,
                        worker'[v].route \in Generations \cup {"statusAll"}
                 PROVE  FALSE
      BY DEF Exclusive
    <3>1. worker'[w].route = route
      BY <1>3, <1>4
    <3>2. \A x \in Worker \ {w} : worker'[x] = worker[x]
      BY <1>4
    <3>3. CASE u = w
      <4>1. Busy(v) /\ worker[v].route \in Generations \cup {"statusAll"}
        BY <3>2, <3>3 DEF Busy
      <4>2. QED
        BY <2>1, <3>1, <3>3, <4>1
    <3>4. CASE v = w
      <4>1. Busy(u) /\ worker[u].route \in Generations
        BY <3>2, <3>4 DEF Busy
      <4>2. QED
        BY <2>1, <3>1, <3>4, <4>1
    <3>5. CASE u # w /\ v # w
      BY <2>2, <3>2, <3>5 DEF Exclusive, Busy
    <3>6. QED
      BY <3>3, <3>4, <3>5
  <2>4. ASSUME NEW v \in Worker PROVE AloneFits(v)'
    <3>1. CASE v # w
      <4>1. worker'[v] = worker[v] /\ AloneFits(v)
        BY <1>4, <2>2, <3>1
      <4>2. QED
        BY <1>6, <4>1 DEF AloneFits, Busy
    <3>2. CASE v = w
      <4>1. Written(calls + 1, 1 - 1) = {}
        BY <1>5, WrittenCount
      <4>2. /\ worker'[v].at = s /\ worker'[v].id = calls + 1 /\ worker'[v].route = route
            /\ worker'[v].asks = wanted /\ worker'[v].row = session /\ worker'[v].next = 1
        BY <1>3, <1>4, <3>2
      <4>3. CASE route = "flat"
        BY <1>1, <1>6, <4>2, <4>3 DEF AloneFits, Generations
      <4>4. CASE route = "nested"
        BY <1>1, <1>6, <4>2, <4>4 DEF AloneFits, Generations
      <4>5. CASE route = "pack"
        BY <1>1, <1>6, <4>1, <4>2, <4>5 DEF AloneFits, Generations
      <4>6. CASE route \in {"statusAll", "statusFlat", "complete"}
        BY <1>1, <1>6, <4>2, <4>6 DEF AloneFits, Generations
      <4>7. QED
        BY <4>3, <4>4, <4>5, <4>6
    <3>3. QED
      BY <3>1, <3>2
  <2>5. TotalFits'
    <3>1. ASSUME NEW v \in Worker PROVE Writes(v) => Writes(v)'
      BY <1>1, <1>4 DEF Writes, Busy
    <3>2. QED
      BY <1>6, <2>2, <3>1 DEF TotalFits
  <2>6. QED
    BY <1>6, <2>2, <2>3, <2>4, <2>5
<1>12. PaidOrUnpaid'
  <2> SUFFICES ASSUME ~unpaid' PROVE PaidOrUnpaid!2'
    BY DEF PaidOrUnpaid
  <2>1. ~unpaid /\ UNCHANGED <<session, rewarded>>
    BY <1>6
  <2>2. RewardSure => RewardSure'
    BY <1>1, <1>4, <2>1 DEF RewardSure
  <2>3. session' # Gone /\ session'.status = "completed" => RewardSure'
    BY <2>1, <2>2 DEF SessionInv, PaidOrUnpaid
  <2>4. ASSUME NEW v \in Worker, Busy(v)', worker'[v].row.status = "completed" PROVE RewardSure'
    <3>1. CASE v # w
      BY <1>4, <2>1, <2>2, <2>4, <3>1 DEF SessionInv, PaidOrUnpaid, Busy
    <3>2. CASE v = w
      <4>1. worker'[v].row = session
        BY <1>3, <1>4, <3>2
      <4>2. QED
        BY <1>1, <2>1, <2>3, <2>4, <4>1
    <3>3. QED
      BY <3>1, <3>2
  <2>5. QED
    BY <2>3, <2>4
<1>13. QED
  BY <1>7, <1>8, <1>9, <1>10, <1>11, <1>12 DEF SessionInv

-----------------------------------------------------------------------------
(* The steps of a generation *)

\* What holds of a generation that runs when nothing overlapped it.
LEMMA GenerationAlone ==
  ASSUME SessionInv, ~mixed, NEW w \in Worker, Writes(w), Follows(w)
  PROVE  /\ ~cut /\ session # Gone /\ Exclusive' /\ AloneFits(w)
         /\ \A v \in Worker \ {w} : AloneFits(v)' /\ worker[v].at # "rows"
<1>1. ~cut /\ Exclusive /\ AloneFits(w)
  BY DEF SessionInv, Undisturbed
<1>2. Exclusive'
  BY <1>1, StayExclusive
<1>3. \A v \in Worker \ {w} : AloneFits(v)'
  BY <1>1, OthersFit DEF SessionInv
<1>4. ASSUME NEW v \in Worker \ {w} PROVE worker[v].at # "rows"
  <2>1. Busy(v) => worker[v].route \notin Generations \cup {"statusAll"}
    BY <1>1 DEF Exclusive, Writes
  <2>2. QED
    BY <2>1 DEF SessionInv, CallFits, Generations, Busy
<1>5. session # Gone
  BY <1>1 DEF AloneFits, Writes
<1>6. QED
  BY <1>1, <1>2, <1>3, <1>4, <1>5

\* The session as a generation leaves it: its status and its reward are as before.
LEMMA GenerationStep ==
  ASSUME SessionInv, NEW w \in Worker, Writes(w), Follows(w),
         worker'[w].at = "idle" \/ CallFits(w)',
         session' \in SessionRows \cup {Gone},
         session' # Gone => session # Gone /\ session'.status = session.status,
         UNCHANGED <<rewarded, calls, mixed, unpaid>>,
         OneSet',
         ~mixed => ~cut' /\ AloneFits(w)' /\ TotalFits'
  PROVE  SessionInv'
<1>1. Tables'
  BY DEF SessionInv, Tables, Follows
<1>2. \A v \in Worker : CallFits(v)'
  BY CallsFit DEF SessionInv
<1>3. NumbersApart'
  BY NumbersStayApart DEF SessionInv
<1>4. Undisturbed'
  <2> SUFFICES ASSUME ~mixed'
               PROVE  ~cut' /\ Exclusive' /\ (\A v \in Worker : AloneFits(v)') /\ TotalFits'
    BY DEF Undisturbed
  <2>1. ~mixed
    OBVIOUS
  <2>2. Exclusive' /\ \A v \in Worker \ {w} : AloneFits(v)'
    BY <2>1, GenerationAlone
  <2>3. QED
    BY <2>1, <2>2
<1>5. PaidOrUnpaid'
  <2>1. worker[w].at # "reward"
    BY DEF SessionInv, CallFits, Writes, Generations
  <2>2. QED
    BY <2>1, PaidStays DEF SessionInv
<1>6. QED
  BY <1>1, <1>2, <1>3, <1>4, <1>5 DEF SessionInv

\* Where a generation may be.
LEMMA GenerationAt ==
  ASSUME SessionInv, NEW w \in Worker,
         worker[w].at \in {"total", "delete", "resolve", "generate", "store", "rows"}
  PROVE  /\ Writes(w) /\ CallFits(w) /\ Tables /\ worker[w].asks \in Nat \ {0}
         /\ worker[w].at \in {"resolve", "delete"} => worker[w].route = "nested"
         /\ worker[w].at = "generate" => worker[w].route \in {"flat", "nested"}
         /\ worker[w].at = "store" => worker[w].route = "flat"
         /\ worker[w].at = "rows" => worker[w].route \in {"nested", "pack"}
         /\ worker[w].at = "total" => worker[w].route \in {"flat", "pack"}
<1>1. CallFits(w) /\ Tables /\ Busy(w)
  BY DEF SessionInv, Busy
<1>2. worker[w].route \in Generations
  BY <1>1 DEF CallFits, Generations
<1>3. worker[w].asks \in Nat \ {0}
  BY <1>1, <1>2, InterviewBoundAssumption DEF CallFits
<1>4. QED
  BY <1>1, <1>2, <1>3 DEF CallFits, Writes

\* Only Writes(v) of the others matters to the total when w moves on.
LEMMA BusyTotal ==
  ASSUME NEW w \in Worker, Writes(w)'
  PROVE  TotalFits'
  BY DEF TotalFits

\* total_question_count: a pack has stored as many.
LEMMA SaveTotalKeeps == ASSUME SessionInv, NEW w \in Worker, SaveTotal(w) PROVE SessionInv'
<1>1. /\ Writes(w) /\ CallFits(w) /\ Tables /\ worker[w].asks \in Nat \ {0} /\ worker[w].at = "total"
      /\ worker[w].route \in {"flat", "pack"}
  BY GenerationAt DEF SaveTotal
<1>2. UNCHANGED <<mains, rewarded, calls, deaths, mixed, cut, unpaid>>
  BY DEF SaveTotal
<1>3. CASE session = Gone /\ Return(w) /\ UNCHANGED session
  <2>1. Follows(w) /\ worker'[w].at = "idle"
    BY <1>1, <1>3, ReturnFollows
  <2>2. OneSet'
    BY <1>2, <2>1, OneSetStays DEF SessionInv
  <2>3. ~mixed => FALSE
    BY <1>1, <1>3, <2>1, GenerationAlone
  <2>4. session' \in SessionRows \cup {Gone}
    BY <1>3
  <2>5. QED
    BY <1>1, <1>2, <1>3, <2>1, <2>2, <2>3, <2>4, GenerationStep
<1>4. CASE /\ session # Gone
           /\ session' = [session EXCEPT !.total = worker[w].asks]
           /\ IF worker[w].route = "flat" THEN Goto(w, "generate") ELSE Return(w)
  <2>1. session \in SessionRows /\ worker[w].asks \in 1 .. MaxMain
    BY <1>1, <1>4 DEF Tables, CallFits, Writes
  <2>2. session' \in SessionRows /\ session'.total = worker[w].asks /\ session'.status = session.status
    BY <1>4, <2>1 DEF SessionRows
  <2>3. session' # Gone
    BY <2>2, RowIsThere
  <2>4. CASE worker[w].route = "flat"
    <3>1. Follows(w) /\ worker'[w].at = "generate" /\ Keeps(w) /\ worker'[w].next = worker[w].next
      BY <1>1, <1>4, <2>4, GotoFollows DEF Writes
    <3>2. CallFits(w)'
      BY <1>1, <1>2, <2>4, <3>1 DEF CallFits, Keeps, Busy, Writes, Generations
    <3>3. OneSet'
      BY <1>2, <3>1, OneSetStays DEF SessionInv
    <3>4. Writes(w)'
      BY <1>1, <3>1 DEF Writes, Keeps, Busy
    <3>5. ASSUME ~mixed PROVE ~cut' /\ AloneFits(w)' /\ TotalFits'
      <4>1. ~cut /\ AloneFits(w)
        BY <1>1, <3>1, <3>5, GenerationAlone
      <4>2. AloneFits(w)'
        BY <1>1, <1>2, <2>2, <2>3, <2>4, <3>1, <4>1 DEF AloneFits, Keeps, Busy, Writes, Generations
      <4>3. QED
        BY <1>2, <3>4, <4>1, <4>2, BusyTotal
    <3>6. QED
      BY <1>1, <1>2, <1>4, <2>2, <3>1, <3>2, <3>3, <3>5, GenerationStep
  <2>5. CASE worker[w].route # "flat"
    <3>1. Follows(w) /\ worker'[w].at = "idle"
      BY <1>1, <1>4, <2>5, ReturnFollows
    <3>2. OneSet'
      BY <1>2, <3>1, OneSetStays DEF SessionInv
    <3>3. ASSUME ~mixed PROVE ~cut' /\ AloneFits(w)' /\ TotalFits'
      <4>1. ~cut /\ AloneFits(w)
        BY <1>1, <3>1, <3>3, GenerationAlone
      <4>2. mains = Written(worker[w].id, worker[w].asks)
        BY <1>1, <2>5, <4>1 DEF AloneFits, Writes
      <4>3. Cardinality(mains) = worker[w].asks
        BY <1>1, <4>2, WrittenCount
      <4>4. TotalFits'
        BY <1>2, <2>2, <4>3 DEF TotalFits
      <4>5. AloneFits(w)'
        BY <3>1 DEF AloneFits, Busy
      <4>6. QED
        BY <1>2, <4>1, <4>4, <4>5
    <3>4. QED
      BY <1>1, <1>2, <1>4, <2>2, <3>1, <3>2, <3>3, GenerationStep
  <2>6. QED
    BY <2>4, <2>5
<1>5. QED
  BY <1>3, <1>4 DEF SaveTotal

\* The deletion cuts into no call, or says so.
LEMMA DeleteAllKeeps == ASSUME SessionInv, NEW w \in Worker, DeleteAll(w) PROVE SessionInv'
<1>1. /\ Writes(w) /\ CallFits(w) /\ Tables /\ worker[w].at = "delete" /\ worker[w].route = "nested"
  BY GenerationAt DEF DeleteAll
<1>2. UNCHANGED <<session, rewarded, calls, deaths, mixed, unpaid>> /\ mains' = {}
  BY DEF DeleteAll
<1>3. Follows(w) /\ worker'[w].at = "resolve" /\ Keeps(w) /\ worker'[w].next = worker[w].next
  BY <1>1, GotoFollows DEF Writes, DeleteAll
<1>4. CallFits(w)'
  BY <1>1, <1>2, <1>3 DEF CallFits, Keeps, Busy, Writes, Generations
<1>5. OneSet'
  <2> SUFFICES ASSUME ~cut' PROVE OneSet!2'
    BY DEF OneSet
  <2>1. ~OthersStore(w)
    BY DEF DeleteAll
  <2>2. mains' = Written(0, 0)
    BY <1>2, WrittenCount
  <2>3. \A v \in Worker : worker'[v].at # "rows"
    BY <1>3, <2>1 DEF OthersStore, Follows
  <2>4. QED
    BY <2>2, <2>3
<1>6. Writes(w)'
  BY <1>1, <1>3 DEF Writes, Keeps, Busy
<1>7. ASSUME ~mixed PROVE ~cut' /\ AloneFits(w)' /\ TotalFits'
  <2>1. ~cut /\ AloneFits(w) /\ \A v \in Worker \ {w} : worker[v].at # "rows"
    BY <1>1, <1>3, <1>7, GenerationAlone
  <2>2. ~cut'
    BY <2>1 DEF DeleteAll, OthersStore
  <2>3. AloneFits(w)'
    BY <1>1, <1>2, <1>3, <2>1 DEF AloneFits, Keeps, Busy, Writes, Generations
  <2>4. QED
    BY <1>6, <2>2, <2>3, BusyTotal
<1>8. session' \in SessionRows \cup {Gone}
  BY <1>1, <1>2 DEF Tables
<1>9. QED
  BY <1>1, <1>2, <1>3, <1>4, <1>5, <1>7, <1>8, GenerationStep

\* A generation stops before it stored anything.
LEMMA ReturnKeeps ==
  ASSUME SessionInv, NEW w \in Worker, worker[w].at \in {"resolve", "generate"}, Return(w),
         UNCHANGED <<session, mains, rewarded, calls, mixed, cut, unpaid>>
  PROVE  SessionInv'
<1>1. /\ Writes(w) /\ CallFits(w) /\ Tables /\ worker[w].route \in {"flat", "nested"}
  BY GenerationAt
<1>2. Follows(w) /\ worker'[w].at = "idle"
  BY <1>1, ReturnFollows
<1>3. OneSet'
  BY <1>2, OneSetStays DEF SessionInv
<1>4. ASSUME ~mixed PROVE ~cut' /\ AloneFits(w)' /\ TotalFits'
  <2>1. ~cut /\ AloneFits(w)
    BY <1>1, <1>2, <1>4, GenerationAlone
  <2>2. mains = {}
    BY <1>1, <2>1 DEF AloneFits, Writes
  <2>3. QED
    BY <1>2, <2>1, <2>2 DEF TotalFits, AloneFits, Busy
<1>5. session' \in SessionRows \cup {Gone}
  BY <1>1 DEF Tables
<1>6. QED
  BY <1>1, <1>2, <1>3, <1>4, <1>5, GenerationStep

\* A generation goes on to its next step.
LEMMA GoOnKeeps ==
  ASSUME SessionInv, NEW w \in Worker, NEW s, Goto(w, s),
         \/ worker[w].at = "resolve" /\ s = "generate"
         \/ worker[w].at = "generate" /\ worker[w].route = "flat" /\ s = "store"
         \/ worker[w].at = "generate" /\ worker[w].route = "nested" /\ s = "rows",
         UNCHANGED <<session, mains, rewarded, calls, mixed, cut, unpaid>>
  PROVE  SessionInv'
<1>1. /\ Writes(w) /\ CallFits(w) /\ Tables /\ worker[w].route \in {"flat", "nested"}
      /\ worker[w].asks \in Nat \ {0} /\ worker[w].at \in {"resolve", "generate"}
      /\ worker[w].at = "resolve" => worker[w].route = "nested"
  BY GenerationAt
<1>2. Follows(w) /\ worker'[w].at = s /\ Keeps(w) /\ worker'[w].next = worker[w].next
  BY <1>1, GotoFollows DEF Writes
<1>3. worker[w].next = 1 /\ worker[w].next \in 1 .. worker[w].asks
  BY <1>1 DEF CallFits, Writes
<1>4. CallFits(w)'
  BY <1>1, <1>2, <1>3 DEF CallFits, Keeps, Busy, Writes, Generations
<1>5. OneSet'
  BY <1>2, <1>3, OneSetStays DEF SessionInv
<1>6. Writes(w)'
  BY <1>1, <1>2 DEF Writes, Keeps, Busy
<1>7. ASSUME ~mixed PROVE ~cut' /\ AloneFits(w)' /\ TotalFits'
  <2>1. ~cut /\ AloneFits(w)
    BY <1>1, <1>2, <1>7, GenerationAlone
  <2>2. mains = {}
    BY <1>1, <2>1 DEF AloneFits, Writes
  <2>3. Written(worker[w].id, 1 - 1) = {}
    BY WrittenCount
  <2>4. AloneFits(w)'
    BY <1>1, <1>2, <1>3, <2>1, <2>2, <2>3 DEF AloneFits, Keeps, Busy, Writes, Generations
  <2>5. QED
    BY <1>6, <2>1, <2>4, BusyTotal
<1>8. session' \in SessionRows \cup {Gone}
  BY <1>1 DEF Tables
<1>9. QED
  BY <1>1, <1>2, <1>4, <1>5, <1>7, <1>8, GenerationStep

\* A generation that fails has stored nothing.
LEMMA GenerateFailsKeeps == ASSUME SessionInv, NEW w \in Worker, GenerateFails(w) PROVE SessionInv'
<1>1. worker[w].at = "generate" /\ Return(w) /\ UNCHANGED <<rewarded, calls, deaths, mixed, unpaid>>
  BY DEF GenerateFails
<1>2. CASE ~worker[w].test
  BY <1>1, <1>2, ReturnKeeps DEF GenerateFails
<1>3. CASE worker[w].test
  <2>1. /\ Writes(w) /\ CallFits(w) /\ Tables
    BY <1>1, GenerationAt
  <2>2. Follows(w) /\ worker'[w].at = "idle"
    BY <1>1, <2>1, ReturnFollows
  <2>3. session' = Gone /\ mains' = {}
    BY <1>3 DEF GenerateFails
  <2>4. OneSet'
    <3> SUFFICES ASSUME ~cut' PROVE OneSet!2'
      BY DEF OneSet
    <3>1. ~OthersStore(w)
      BY <1>3 DEF GenerateFails
    <3>2. mains' = Written(0, 0)
      BY <2>3, WrittenCount
    <3>3. \A v \in Worker : worker'[v].at # "rows"
      BY <2>2, <3>1 DEF OthersStore, Follows
    <3>4. QED
      BY <3>2, <3>3
  <2>5. ASSUME ~mixed PROVE ~cut' /\ AloneFits(w)' /\ TotalFits'
    <3>1. ~cut /\ \A v \in Worker \ {w} : worker[v].at # "rows"
      BY <2>1, <2>2, <2>5, GenerationAlone
    <3>2. ~cut'
      BY <1>3, <3>1 DEF GenerateFails, OthersStore
    <3>3. QED
      BY <2>2, <2>3, <3>2 DEF TotalFits, AloneFits, Busy
  <2>6. QED
    BY <1>1, <2>1, <2>2, <2>3, <2>4, <2>5, GenerationStep
<1>4. QED
  BY <1>2, <1>3

\* The flat route stores all questions or none.
LEMMA StoreAllKeeps == ASSUME SessionInv, NEW w \in Worker, StoreAll(w) PROVE SessionInv'
<1>1. worker[w].at = "store" /\ Return(w) /\ UNCHANGED <<session, rewarded, calls, deaths, mixed, cut, unpaid>>
  BY DEF StoreAll
<1>2. /\ Writes(w) /\ CallFits(w) /\ Tables /\ worker[w].asks \in Nat \ {0} /\ worker[w].route = "flat"
  BY <1>1, GenerationAt
<1>3. Follows(w) /\ worker'[w].at = "idle"
  BY <1>1, <1>2, ReturnFollows
<1>4. session' \in SessionRows \cup {Gone}
  BY <1>1, <1>2 DEF Tables
<1>5. CASE UNCHANGED mains
  <2>1. OneSet'
    BY <1>1, <1>3, <1>5, OneSetStays DEF SessionInv
  <2>2. ASSUME ~mixed PROVE ~cut' /\ AloneFits(w)' /\ TotalFits'
    <3>1. ~cut /\ AloneFits(w)
      BY <1>2, <1>3, <2>2, GenerationAlone
    <3>2. mains = {}
      BY <1>2, <3>1 DEF AloneFits, Writes
    <3>3. QED
      BY <1>1, <1>3, <1>5, <3>1, <3>2 DEF TotalFits, AloneFits, Busy
  <2>3. QED
    BY <1>1, <1>2, <1>3, <1>4, <2>1, <2>2, GenerationStep
<1>6. CASE /\ session # Gone /\ Indexes \cap (1 .. worker[w].asks) = {}
           /\ mains' = mains \cup Questions(w)
  <2> DEFINE b == worker[w].id
             n == worker[w].asks
  <2>1. Questions(w) = Written(b, n) /\ n \in Nat \ {0} /\ b \in Nat
    BY <1>2 DEF Questions, Written, CallFits, Writes, Tables
  <2>2. ~cut => mains = {}
    <3> SUFFICES ASSUME ~cut PROVE mains = {}
      OBVIOUS
    <3>1. PICK a \in Nat, m \in Nat : mains = Written(a, m)
      BY DEF SessionInv, OneSet
    <3>2. Indexes = 1 .. m
      BY <3>1, WrittenCount DEF Indexes
    <3>3. 1 \in 1 .. n
      BY <2>1
    <3>4. 1 \notin 1 .. m
      BY <1>6, <3>2, <3>3
    <3>5. m = 0
      BY <3>4
    <3>6. QED
      BY <3>1, <3>5, WrittenCount
  <2>3. ~cut => mains' = Written(b, n)
    BY <1>6, <2>1, <2>2
  <2>4. OneSet'
    <3> SUFFICES ASSUME ~cut' PROVE OneSet!2'
      BY DEF OneSet
    <3>1. ~cut
      BY <1>1
    <3>2. \E a \in Nat, m \in Nat : mains' = Written(a, m)
      BY <2>1, <2>3, <3>1
    <3>3. ASSUME NEW v \in Worker, worker'[v].at = "rows", worker'[v].next > 1 PROVE FALSE
      <4>1. v # w
        BY <1>3, <3>3
      <4>2. worker'[v] = worker[v]
        BY <1>3, <4>1 DEF Follows
      <4>3. worker[v].next \in Nat
        BY <3>3, <4>2, InterviewBoundAssumption DEF SessionInv, CallFits, Busy, Generations
      <4>4. mains = Written(worker[v].id, worker[v].next - 1)
        BY <3>1, <3>3, <4>2 DEF SessionInv, OneSet
      <4>5. PICK k \in Nat : k = worker[v].next - 1 /\ k # 0
        BY <3>3, <4>2, <4>3
      <4>6. mains = Written(worker[v].id, k)
        BY <4>4, <4>5
      <4>7. Written(worker[v].id, k) # {}
        BY <4>5, WrittenSome
      <4>8. QED
        BY <2>2, <3>1, <4>6, <4>7
    <3>4. QED
      BY <3>2, <3>3
  <2>5. ASSUME ~mixed PROVE ~cut' /\ AloneFits(w)' /\ TotalFits'
    <3>1. ~cut /\ AloneFits(w)
      BY <1>2, <1>3, <2>5, GenerationAlone
    <3>2. session.total = n
      BY <1>1, <1>2, <3>1 DEF AloneFits, Writes
    <3>3. Cardinality(mains') = n
      BY <2>1, <2>3, <3>1, WrittenCount
    <3>4. QED
      BY <1>1, <1>3, <3>1, <3>2, <3>3 DEF TotalFits, AloneFits, Busy
  <2>6. QED
    BY <1>1, <1>2, <1>3, <1>4, <2>4, <2>5, GenerationStep
<1>7. QED
  BY <1>5, <1>6 DEF StoreAll

\* A row is stored behind those of its own call, or not at all.
LEMMA StoreRowKeeps == ASSUME SessionInv, NEW w \in Worker, StoreRow(w) PROVE SessionInv'
<1> DEFINE i == worker[w].next
           b == worker[w].id
<1>1. worker[w].at = "rows" /\ UNCHANGED <<session, rewarded, calls, deaths, mixed, cut, unpaid>>
  BY DEF StoreRow
<1>2. /\ Writes(w) /\ CallFits(w) /\ Tables /\ worker[w].asks \in Nat \ {0}
      /\ worker[w].route \in {"nested", "pack"}
  BY <1>1, GenerationAt
<1>3. i \in Nat \ {0} /\ b \in Nat /\ i <= worker[w].asks
  BY <1>1, <1>2 DEF CallFits, Writes, Tables
<1>4. session' \in SessionRows \cup {Gone}
  BY <1>1, <1>2 DEF Tables
<1>5. CASE (session = Gone \/ i \in Indexes) /\ Return(w) /\ UNCHANGED mains
  <2>1. Follows(w) /\ worker'[w].at = "idle"
    BY <1>2, <1>5, ReturnFollows
  <2>2. OneSet'
    BY <1>1, <1>5, <2>1, OneSetStays DEF SessionInv
  <2>3. ASSUME ~mixed PROVE FALSE
    <3>1. session # Gone /\ AloneFits(w)
      BY <1>2, <2>1, <2>3, GenerationAlone
    <3>2. mains = Written(b, i - 1) /\ i - 1 \in Nat
      BY <1>1, <1>2, <1>3, <3>1 DEF AloneFits, Writes
    <3>3. Indexes = 1 .. i - 1
      BY <3>2, WrittenCount DEF Indexes
    <3>4. QED
      BY <1>3, <1>5, <3>1, <3>3
  <2>4. QED
    BY <1>1, <1>2, <1>4, <2>1, <2>2, <2>3, GenerationStep
<1>6. CASE /\ session # Gone /\ i \notin Indexes
           /\ mains' = mains \cup {[ix |-> i, by |-> b]}
           /\ IF i < worker[w].asks THEN worker' = [worker EXCEPT ![w].next = i + 1]
              ELSE IF worker[w].route = "pack" THEN Goto(w, "total")
              ELSE Return(w)
  <2>1. ~cut => mains = Written(b, i - 1)
    <3> SUFFICES ASSUME ~cut PROVE mains = Written(b, i - 1)
      OBVIOUS
    <3>1. CASE i > 1
      BY <1>1, <3>1 DEF SessionInv, OneSet
    <3>2. CASE i = 1
      <4>1. PICK a \in Nat, m \in Nat : mains = Written(a, m)
        BY DEF SessionInv, OneSet
      <4>2. 1 \notin 1 .. m
        <5> SUFFICES ASSUME 1 \in 1 .. m PROVE FALSE
          OBVIOUS
        <5>1. [ix |-> 1, by |-> a] \in mains
          BY <4>1 DEF Written
        <5>2. 1 \in Indexes
          BY <5>1 DEF Indexes
        <5>3. QED
          BY <1>6, <3>2, <5>2
      <4>3. m = 0
        BY <4>2
      <4>4. Written(a, 0) = {} /\ Written(b, 0) = {}
        BY DEF Written
      <4>5. i - 1 = 0
        BY <3>2
      <4>6. QED
        BY <4>1, <4>3, <4>4, <4>5
    <3>3. QED
      BY <1>3, <3>1, <3>2
  <2>2. ~cut => mains' = Written(b, i)
    <3>1. i - 1 \in Nat /\ (i - 1) + 1 = i
      BY <1>3
    <3>2. Written(b, i - 1) \cup {[ix |-> i, by |-> b]} = Written(b, i)
      <4>1. Written(b, i - 1) \cup {[ix |-> (i - 1) + 1, by |-> b]} = Written(b, (i - 1) + 1)
        BY <3>1, WrittenOn
      <4>2. QED
        BY <3>1, <4>1
    <3>3. QED
      BY <1>6, <2>1, <3>2
  <2>3. /\ Follows(w)
        /\ worker'[w].at # "idle" => Keeps(w)
        /\ \/ worker'[w].at = "idle" /\ i = worker[w].asks /\ worker[w].route = "nested"
           \/ worker'[w].at = "total" /\ i = worker[w].asks /\ worker[w].route = "pack"
           \/ worker'[w].at = "rows" /\ worker'[w].next = i + 1 /\ i < worker[w].asks
    <3>1. CASE i < worker[w].asks
      <4> DEFINE r == [worker[w] EXCEPT !.next = i + 1]
      <4>1. DOMAIN worker[w] = CallFields
        BY <1>2 DEF Tables
      <4>2. /\ DOMAIN r = CallFields /\ r.at = "rows" /\ r.next = i + 1
            /\ r.id = worker[w].id /\ r.route = worker[w].route /\ r.to = worker[w].to
            /\ r.asks = worker[w].asks /\ r.row = worker[w].row
        BY <1>1, <4>1 DEF CallFields
      <4>3. worker' = [worker EXCEPT ![w] = r]
        BY <1>6, <3>1
      <4> HIDE DEF r
      <4>4. worker'[w] = r /\ DOMAIN worker' = Worker /\ \A v \in Worker \ {w} : worker'[v] = worker[v]
        BY <1>2, <4>3 DEF Tables
      <4>5. Keeps(w)
        BY <4>2, <4>4 DEF Keeps
      <4>6. \A v \in Worker : DOMAIN worker'[v] = CallFields
        BY <1>2, <4>2, <4>4 DEF Tables
      <4>7. Follows(w)
        BY <1>2, <4>4, <4>5, <4>6 DEF Follows, Writes
      <4>8. QED
        BY <3>1, <4>2, <4>4, <4>5, <4>7
    <3>2. CASE ~(i < worker[w].asks)
      <4>1. i = worker[w].asks
        BY <1>2, <1>3, <3>2
      <4>2. CASE worker[w].route = "pack"
        <5>1. Goto(w, "total") /\ Busy(w)
          BY <1>2, <1>6, <3>2, <4>2 DEF Writes
        <5>2. QED
          BY <1>2, <4>1, <4>2, <5>1, GotoFollows
      <4>3. CASE worker[w].route # "pack"
        <5>1. Return(w) /\ worker[w].route = "nested"
          BY <1>2, <1>6, <3>2, <4>3
        <5>2. QED
          BY <1>2, <4>1, <5>1, ReturnFollows
      <4>4. QED
        BY <4>2, <4>3
    <3>3. QED
      BY <3>1, <3>2
  <2>4. OneSet'
    <3> SUFFICES ASSUME ~cut' PROVE OneSet!2'
      BY DEF OneSet
    <3>1. ~cut
      BY <1>1
    <3>2. \E a \in Nat, m \in Nat : mains' = Written(a, m)
      BY <1>3, <2>2, <3>1
    <3>3. ASSUME NEW v \in Worker, worker'[v].at = "rows", worker'[v].next > 1
          PROVE  mains' = Written(worker'[v].id, worker'[v].next - 1)
      <4>1. CASE v = w
        <5>1. worker'[w].next = i + 1 /\ worker'[w].id = b
          BY <2>3, <3>3, <4>1 DEF Keeps
        <5>2. (i + 1) - 1 = i
          BY <1>3
        <5>3. QED
          BY <2>2, <3>1, <4>1, <5>1, <5>2
      <4>2. CASE v # w
        <5>1. worker'[v] = worker[v]
          BY <2>3, <4>2 DEF Follows
        <5>2. CallFits(v) /\ worker[v].at = "rows" /\ worker[v].next > 1
          BY <3>3, <5>1 DEF SessionInv
        <5>3. PICK k \in Nat : k = worker[v].next - 1 /\ k > 0
          <6>1. worker[v].next \in Nat
            BY <5>2, InterviewBoundAssumption DEF CallFits, Busy, Generations
          <6>2. QED
            BY <5>2, <6>1
        <5>4. mains = Written(worker[v].id, worker[v].next - 1)
          BY <3>1, <5>2 DEF SessionInv, OneSet
        <5>5. i - 1 \in Nat /\ mains = Written(b, i - 1)
          BY <1>3, <2>1, <3>1
        <5>6. worker[v].id = b
          BY <5>3, <5>4, <5>5, WrittenByOne
        <5>7. FALSE
          BY <1>2, <4>2, <5>2, <5>6 DEF SessionInv, NumbersApart, Busy, Writes
        <5>8. QED
          BY <5>7
      <4>3. QED
        BY <4>1, <4>2
    <3>4. QED
      BY <3>2, <3>3
  <2>5. worker'[w].at = "idle" \/ CallFits(w)'
    <3>1. CASE worker'[w].at = "idle"
      BY <3>1
    <3>2. CASE worker'[w].at = "total" /\ worker[w].route = "pack"
      BY <1>1, <1>2, <2>3, <3>2 DEF CallFits, Keeps, Busy, Writes, Generations
    <3>3. CASE worker'[w].at = "rows" /\ worker'[w].next = i + 1 /\ i < worker[w].asks
      <4>1. worker'[w].next \in 1 .. worker[w].asks
        BY <1>2, <1>3, <3>3
      <4>2. QED
        BY <1>1, <1>2, <2>3, <3>3, <4>1 DEF CallFits, Keeps, Busy, Writes, Generations
    <3>4. QED
      BY <2>3, <3>1, <3>2, <3>3
  <2>6. ASSUME ~mixed PROVE ~cut' /\ AloneFits(w)' /\ TotalFits'
    <3>1. ~cut /\ AloneFits(w)
      BY <1>2, <2>3, <2>6, GenerationAlone
    <3>2. mains' = Written(b, i) /\ ~cut'
      BY <1>1, <2>2, <3>1
    <3>3. CASE worker'[w].at = "idle" /\ i = worker[w].asks /\ worker[w].route = "nested"
      <4>1. session.total = worker[w].asks
        BY <1>2, <3>1, <3>3 DEF AloneFits, Writes
      <4>2. Cardinality(mains') = i
        BY <1>3, <3>2, WrittenCount
      <4>3. TotalFits'
        BY <1>1, <3>3, <4>1, <4>2 DEF TotalFits
      <4>4. AloneFits(w)'
        BY <3>3 DEF AloneFits, Busy
      <4>5. QED
        BY <3>2, <4>3, <4>4
    <3>4. CASE worker'[w].at = "total" /\ i = worker[w].asks /\ worker[w].route = "pack"
      <4>1. Writes(w)' /\ Keeps(w)
        BY <1>2, <2>3, <3>4 DEF Writes, Keeps, Busy, Generations
      <4>2. AloneFits(w)'
        BY <1>1, <1>2, <3>1, <3>2, <3>4, <4>1 DEF AloneFits, Keeps, Busy, Writes, Generations
      <4>3. QED
        BY <3>2, <4>1, <4>2, BusyTotal
    <3>5. CASE worker'[w].at = "rows" /\ worker'[w].next = i + 1 /\ i < worker[w].asks
      <4>1. Writes(w)' /\ Keeps(w)
        BY <1>2, <2>3, <3>5 DEF Writes, Keeps, Busy, Generations
      <4>2. mains' = Written(worker'[w].id, worker'[w].next - 1)
        <5>1. (i + 1) - 1 = i
          BY <1>3
        <5>2. QED
          BY <3>2, <3>5, <4>1, <5>1 DEF Keeps
      <4>3. AloneFits(w)'
        BY <1>1, <1>2, <3>1, <3>5, <4>1, <4>2 DEF AloneFits, Keeps, Busy, Writes, Generations
      <4>4. QED
        BY <3>2, <4>1, <4>3, BusyTotal
    <3>6. QED
      BY <2>3, <3>3, <3>4, <3>5
  <2>7. QED
    BY <1>1, <1>2, <1>4, <2>3, <2>4, <2>5, <2>6, GenerationStep
<1>7. QED
  BY <1>5, <1>6 DEF StoreRow

-----------------------------------------------------------------------------
(* The steps of a call that changes the status *)

\* Where such a call may be.
LEMMA StatusAt ==
  ASSUME SessionInv, NEW w \in Worker, worker[w].at \in {"save", "reward"}
  PROVE  /\ Busy(w) /\ ~Writes(w) /\ CallFits(w) /\ Tables
         /\ worker[w].row \in SessionRows /\ worker[w].to \in Status
  BY DEF SessionInv, CallFits, Busy, Writes, Generations

\* It leaves the questions and their number alone.
LEMMA StatusStep ==
  ASSUME SessionInv, NEW w \in Worker, ~Writes(w), Follows(w), worker'[w].at # "rows",
         worker'[w].at = "idle" \/ CallFits(w)',
         session' \in SessionRows \cup {Gone},
         UNCHANGED <<mains, calls, cut>>,
         PaidOrUnpaid', Undisturbed'
  PROVE  SessionInv'
<1>1. Tables'
  BY DEF SessionInv, Tables, Follows
<1>2. \A v \in Worker : CallFits(v)'
  BY CallsFit DEF SessionInv
<1>3. NumbersApart'
  BY NumbersStayApart DEF SessionInv
<1>4. OneSet'
  BY OneSetStays DEF SessionInv
<1>5. QED
  BY <1>1, <1>2, <1>3, <1>4 DEF SessionInv

\* All columns: no generation wrote the total in between.
LEMMA SaveAllKeeps == ASSUME SessionInv, NEW w \in Worker, SaveAll(w) PROVE SessionInv'
<1>1. /\ worker[w].at = "save" /\ worker[w].route = "statusAll" /\ session' = Stamped(w) /\ Return(w)
      /\ UNCHANGED <<mains, rewarded, calls, deaths, mixed, cut>>
  BY DEF SaveAll
<1>2. /\ Busy(w) /\ ~Writes(w) /\ Tables /\ worker[w].row \in SessionRows /\ worker[w].to \in Status
  BY <1>1, StatusAt
<1>3. Follows(w) /\ worker'[w].at = "idle"
  BY <1>1, <1>2, ReturnFollows
<1>4. /\ session' \in SessionRows /\ session'.status = worker[w].to
      /\ session'.total = worker[w].row.total
  BY <1>1, <1>2, StampedFits DEF Tables
<1>5. session' # Gone
  BY <1>4, RowIsThere
<1>6. Undisturbed'
  <2>1. CASE mixed
    BY <1>1, <2>1 DEF Undisturbed
  <2>2. CASE ~mixed
    <3>1. AloneFits(w)
      BY <2>2 DEF SessionInv, Undisturbed
    <3>2. session # Gone /\ worker[w].row.total = session.total
      BY <1>1, <1>2, <3>1 DEF AloneFits
    <3>3. ~mixed => ~cut /\ Exclusive /\ (\A v \in Worker : AloneFits(v)) /\ TotalFits
      BY DEF SessionInv, Undisturbed
    <3>4. worker'[w].at # "rows"
      BY <1>3
    <3>5. QED
      BY <1>1, <1>2, <1>3, <1>4, <1>5, <3>2, <3>3, <3>4, TotalStays
  <2>3. QED
    BY <2>1, <2>2
<1>7. PaidOrUnpaid'
  <2> SUFFICES ASSUME ~unpaid' PROVE PaidOrUnpaid!2'
    BY DEF PaidOrUnpaid
  <2>1. ~unpaid /\ worker[w].to # "completed"
    BY DEF SaveAll
  <2>2. RewardSure => RewardSure'
    BY <1>1, <1>3 DEF RewardSure, Follows
  <2>3. ~(session' # Gone /\ session'.status = "completed")
    BY <1>4, <2>1
  <2>4. ASSUME NEW v \in Worker, Busy(v)', worker'[v].row.status = "completed" PROVE RewardSure'
    <3>1. v # w
      BY <1>3, <2>4 DEF Busy
    <3>2. worker'[v] = worker[v]
      BY <1>3, <3>1 DEF Follows
    <3>3. QED
      BY <2>1, <2>2, <2>4, <3>2 DEF SessionInv, PaidOrUnpaid, Busy
  <2>5. QED
    BY <2>3, <2>4
<1>8. session' \in SessionRows \cup {Gone}
  BY <1>4
<1>9. worker'[w].at # "rows"
  BY <1>3
<1>10. QED
  BY <1>1, <1>2, <1>3, <1>6, <1>7, <1>8, <1>9, StatusStep

\* Only a session that is completed already is completed without a reward.
LEMMA SaveStatusKeeps == ASSUME SessionInv, NEW w \in Worker, SaveStatus(w) PROVE SessionInv'
<1>1. /\ worker[w].at = "save" /\ worker[w].route \in {"statusFlat", "complete"}
      /\ UNCHANGED <<mains, rewarded, calls, deaths, mixed, cut, unpaid>>
  BY DEF SaveStatus
<1>2. /\ Busy(w) /\ ~Writes(w) /\ CallFits(w) /\ Tables
      /\ worker[w].row \in SessionRows /\ worker[w].to \in Status
  BY <1>1, StatusAt
<1>3. ~mixed => ~cut /\ Exclusive /\ (\A v \in Worker : AloneFits(v)) /\ TotalFits
  BY DEF SessionInv, Undisturbed
<1>4. CASE session = Gone /\ Return(w) /\ UNCHANGED session
  <2>1. Follows(w) /\ worker'[w].at = "idle" /\ worker'[w].at # "rows"
    BY <1>2, <1>4, ReturnFollows
  <2>2. session' = session /\ session' \in SessionRows \cup {Gone}
    BY <1>2, <1>4 DEF Tables
  <2>3. Undisturbed'
    BY <1>1, <1>2, <1>3, <2>1, <2>2, TotalStays
  <2>4. PaidOrUnpaid'
    BY <1>1, <2>1, <2>2, PaidStays DEF SessionInv
  <2>5. QED
    BY <1>1, <1>2, <2>1, <2>2, <2>3, <2>4, StatusStep
<1>5. CASE /\ session # Gone
           /\ session' = [session EXCEPT
                !.status = Stamped(w).status, !.ended = Stamped(w).ended,
                !.started = IF worker[w].route = "statusFlat" THEN Stamped(w).started ELSE @]
           /\ IF Earns(w) THEN Goto(w, "reward") ELSE Return(w)
  <2>1. session \in SessionRows
    BY <1>2, <1>5 DEF Tables
  <2>2. /\ Stamped(w) \in SessionRows /\ Stamped(w).status = worker[w].to
    BY <1>2, StampedFits DEF Tables
  <2>3. /\ session' \in SessionRows /\ session'.status = worker[w].to /\ session'.total = session.total
    <3> DEFINE t == Stamped(w)
               b == IF worker[w].route = "statusFlat" THEN t.started ELSE session.started
    <3>1. t.status \in Status /\ t.ended \in Nat \cup {Never} /\ b \in Nat \cup {Never}
      BY <2>1, <2>2 DEF SessionRows
    <3>2. session' = [session EXCEPT !.status = t.status, !.ended = t.ended, !.started = b]
      BY <1>5
    <3> HIDE DEF b, t
    <3>3. /\ session' \in SessionRows /\ session'.status = t.status /\ session'.total = session.total
      BY <2>1, <3>1, <3>2 DEF SessionRows
    <3>4. QED
      BY <2>2, <3>3 DEF t
  <2>4. session' # Gone
    BY <2>3, RowIsThere
  <2>5. /\ Follows(w)
        /\ \/ worker'[w].at = "reward" /\ Keeps(w) /\ worker'[w].next = worker[w].next
           \/ worker'[w].at = "idle" /\ ~Earns(w)
    <3>1. CASE Earns(w)
      BY <1>2, <1>5, <3>1, GotoFollows
    <3>2. CASE ~Earns(w)
      BY <1>2, <1>5, <3>2, ReturnFollows
    <3>3. QED
      BY <3>1, <3>2
  <2>6. worker'[w].at # "rows"
    BY <2>5
  <2>7. worker'[w].at = "idle" \/ CallFits(w)'
    BY <1>1, <1>2, <2>5 DEF CallFits, Keeps, Busy, Generations
  <2>8. Undisturbed'
    <3>1. session = Gone <=> session' = Gone
      BY <1>5, <2>4
    <3>2. QED
      BY <1>1, <1>2, <1>3, <2>3, <2>5, <2>6, <3>1, TotalStays
  <2>9. PaidOrUnpaid'
    <3> SUFFICES ASSUME ~unpaid' PROVE PaidOrUnpaid!2'
      BY DEF PaidOrUnpaid
    <3>1. ~unpaid
      BY <1>1
    <3>2. RewardSure => RewardSure'
      BY <1>1, <2>5 DEF RewardSure, Follows
    <3>3. worker[w].row.status = "completed" => RewardSure'
      BY <1>2, <3>1, <3>2 DEF SessionInv, PaidOrUnpaid
    <3>4. worker[w].to = "completed" => RewardSure'
      <4>1. CASE worker'[w].at = "reward"
        BY <4>1 DEF RewardSure
      <4>2. CASE ~Earns(w)
        BY <3>3, <4>2 DEF Earns
      <4>3. QED
        BY <2>5, <4>1, <4>2
    <3>5. ASSUME NEW v \in Worker, Busy(v)', worker'[v].row.status = "completed" PROVE RewardSure'
      <4>1. CASE v = w
        BY <2>5, <3>3, <3>5, <4>1 DEF Busy, Keeps
      <4>2. CASE v # w
        <5>1. worker'[v] = worker[v]
          BY <2>5, <4>2 DEF Follows
        <5>2. QED
          BY <3>1, <3>2, <3>5, <5>1 DEF SessionInv, PaidOrUnpaid, Busy
      <4>3. QED
        BY <4>1, <4>2
    <3>6. QED
      BY <2>3, <3>4, <3>5
  <2>10. QED
    BY <1>1, <1>2, <2>3, <2>5, <2>6, <2>7, <2>8, <2>9, StatusStep
<1>6. QED
  BY <1>4, <1>5 DEF SaveStatus

\* The reward is written or refused.
LEMMA RewardKeeps == ASSUME SessionInv, NEW w \in Worker, Reward(w) PROVE SessionInv'
<1>1. worker[w].at = "reward" /\ Return(w) /\ UNCHANGED <<session, mains, calls, deaths, mixed, cut>>
  BY DEF Reward
<1>2. /\ Busy(w) /\ ~Writes(w) /\ Tables
  BY <1>1, StatusAt
<1>3. Follows(w) /\ worker'[w].at = "idle" /\ worker'[w].at # "rows"
  BY <1>1, <1>2, ReturnFollows
<1>4. session' = session /\ session' \in SessionRows \cup {Gone}
  BY <1>1, <1>2 DEF Tables
<1>5. Undisturbed'
  <2>1. ~mixed => ~cut /\ Exclusive /\ (\A v \in Worker : AloneFits(v)) /\ TotalFits
    BY DEF SessionInv, Undisturbed
  <2>2. QED
    BY <1>1, <1>2, <1>3, <1>4, <2>1, TotalStays
<1>6. PaidOrUnpaid'
  <2>1. CASE rewarded' = TRUE
    BY <2>1 DEF PaidOrUnpaid, RewardSure
  <2>2. CASE unpaid' = TRUE
    BY <2>2 DEF PaidOrUnpaid
  <2>3. QED
    BY <2>1, <2>2 DEF Reward
<1>7. QED
  BY <1>1, <1>2, <1>3, <1>4, <1>5, <1>6, StatusStep

-----------------------------------------------------------------------------

\* A call that dies is remembered.
LEMMA DieKeeps == ASSUME SessionInv, NEW w \in Worker, Die(w) PROVE SessionInv'
<1>1. Busy(w) /\ Return(w) /\ UNCHANGED <<session, mains, rewarded, calls, cut>>
  BY DEF Die
<1>2. Tables
  BY DEF SessionInv
<1>3. Follows(w) /\ worker'[w].at = "idle" /\ worker'[w].at # "rows"
  BY <1>1, <1>2, ReturnFollows
<1>4. Tables'
  BY <1>1, <1>3 DEF SessionInv, Tables, Follows
<1>5. \A v \in Worker : CallFits(v)'
  BY <1>1, <1>3, CallsFit DEF SessionInv
<1>6. NumbersApart'
  BY <1>3, NumbersStayApart DEF SessionInv
<1>7. OneSet'
  BY <1>1, <1>3, OneSetStays DEF SessionInv
<1>8. Undisturbed'
  <2>1. CASE Writes(w)
    <3>1. mixed'
      BY <2>1 DEF Die
    <3>2. QED
      BY <3>1 DEF Undisturbed
  <2>2. CASE ~Writes(w)
    <3>1. CASE mixed'
      BY <3>1 DEF Undisturbed
    <3>2. CASE ~mixed'
      <4>1. ~mixed /\ ~cut' /\ ~cut /\ Exclusive /\ (\A v \in Worker : AloneFits(v)) /\ TotalFits
        <5>1. ~mixed
          BY <3>2 DEF Die
        <5>2. Undisturbed
          BY DEF SessionInv
        <5>3. cut' = cut
          BY <1>1
        <5>4. QED
          BY <5>1, <5>2, <5>3 DEF Undisturbed
      <4>2. Exclusive'
        BY <1>3, <4>1, StayExclusive
      <4>3. ASSUME NEW v \in Worker PROVE AloneFits(v)'
        <5>1. CASE v = w
          BY <1>3, <5>1 DEF AloneFits, Busy
        <5>2. CASE v # w
          <6>1. worker'[v] = worker[v] /\ AloneFits(v)
            BY <1>3, <4>1, <5>2 DEF Follows
          <6>2. QED
            BY <1>1, <6>1 DEF AloneFits, Busy
        <5>3. QED
          BY <5>1, <5>2
      <4>4. TotalFits'
        <5>1. ASSUME NEW v \in Worker PROVE Writes(v) => Writes(v)'
          BY <1>3, <2>2 DEF Writes, Busy, Follows
        <5>2. QED
          BY <1>1, <4>1, <5>1 DEF TotalFits
      <4>5. QED
        BY <4>1, <4>2, <4>3, <4>4 DEF Undisturbed
    <3>3. QED
      BY <3>1, <3>2
  <2>3. QED
    BY <2>1, <2>2
<1>9. PaidOrUnpaid'
  <2>1. CASE worker[w].at = "reward"
    <3>1. unpaid'
      BY <2>1 DEF Die
    <3>2. QED
      BY <3>1 DEF PaidOrUnpaid
  <2>2. CASE worker[w].at # "reward"
    <3> SUFFICES ASSUME ~unpaid' PROVE PaidOrUnpaid!2'
      BY DEF PaidOrUnpaid
    <3>1. ~unpaid
      BY DEF Die
    <3>2. RewardSure => RewardSure'
      BY <1>1, <1>3, <2>2 DEF RewardSure, Follows
    <3>3. session' # Gone /\ session'.status = "completed" => RewardSure'
      BY <1>1, <3>1, <3>2 DEF SessionInv, PaidOrUnpaid
    <3>4. ASSUME NEW v \in Worker, Busy(v)', worker'[v].row.status = "completed" PROVE RewardSure'
      <4>1. v # w
        BY <1>3, <3>4 DEF Busy
      <4>2. worker'[v] = worker[v]
        BY <1>3, <4>1 DEF Follows
      <4>3. QED
        BY <3>1, <3>2, <3>4, <4>2 DEF SessionInv, PaidOrUnpaid, Busy
    <3>5. QED
      BY <3>3, <3>4
  <2>3. QED
    BY <2>1, <2>2
<1>10. QED
  BY <1>4, <1>5, <1>6, <1>7, <1>8, <1>9 DEF SessionInv

\* Every step keeps it.
LEMMA SessionStep == SessionInv /\ [InterviewNext]_interviewVars => SessionInv'
<1> SUFFICES ASSUME SessionInv, [InterviewNext]_interviewVars PROVE SessionInv'
  OBVIOUS
<1>1. CASE UNCHANGED interviewVars
  BY <1>1 DEF interviewVars, SessionInv, Tables, CallFits, NumbersApart, OneSet, Undisturbed,
              Exclusive, AloneFits, TotalFits, PaidOrUnpaid, RewardSure, Busy, Writes
<1>2. ASSUME NEW w \in Worker, NEW n \in 1 .. MaxMain, NEW test \in BOOLEAN, FlatGenerate(w, n, test)
      PROVE  SessionInv'
  BY <1>2, CallKeeps DEF FlatGenerate, Status
<1>3. ASSUME NEW w \in Worker, NEW n \in 1 .. MaxMain, ApplyPack(w, n) PROVE SessionInv'
  BY <1>3, CallKeeps DEF ApplyPack, Status
<1>4. ASSUME NEW w \in Worker, NEW force \in BOOLEAN, NestedGenerate(w, force) PROVE SessionInv'
  <2>1. session.total \in 1 .. MaxMain
    BY <1>4 DEF NestedGenerate, SessionInv, Tables, SessionRows
  <2>2. CASE force
    <3>1. Call(w, "nested", "created", session.total, FALSE, "delete")
      BY <1>4, <2>2 DEF NestedGenerate
    <3>2. QED
      BY <2>1, <3>1, CallKeeps DEF Status
  <2>3. CASE ~force
    <3>1. Call(w, "nested", "created", session.total, FALSE, "resolve") /\ mains = {}
      BY <1>4, <2>3 DEF NestedGenerate
    <3>2. QED
      BY <2>1, <3>1, CallKeeps DEF Status
  <2>4. QED
    BY <2>2, <2>3
<1>5. ASSUME NEW w \in Worker, Resolve(w) PROVE SessionInv'
  <2>1. worker[w].at = "resolve" /\ UNCHANGED <<session, mains, rewarded, calls, mixed, cut, unpaid>>
    BY <1>5 DEF Resolve
  <2>2. CASE Goto(w, "generate")
    BY <2>1, <2>2, GoOnKeeps
  <2>3. CASE Return(w)
    BY <2>1, <2>3, ReturnKeeps
  <2>4. QED
    BY <1>5, <2>2, <2>3 DEF Resolve
<1>6. ASSUME NEW w \in Worker, Generate(w) PROVE SessionInv'
  <2>1. /\ worker[w].at = "generate" /\ worker[w].route \in {"flat", "nested"}
        /\ UNCHANGED <<session, mains, rewarded, calls, mixed, cut, unpaid>>
    BY <1>6, GenerationAt DEF Generate
  <2>2. CASE worker[w].route = "flat"
    <3>1. Goto(w, "store")
      BY <1>6, <2>2 DEF Generate
    <3>2. QED
      BY <2>1, <2>2, <3>1, GoOnKeeps
  <2>3. CASE worker[w].route = "nested"
    <3>1. Goto(w, "rows")
      BY <1>6, <2>3 DEF Generate
    <3>2. QED
      BY <2>1, <2>3, <3>1, GoOnKeeps
  <2>4. QED
    BY <2>1, <2>2, <2>3
<1>7. ASSUME NEW w \in Worker, NEW s \in Status, PatchAll(w, s) \/ PatchFlat(w, s) PROVE SessionInv'
  BY <1>7, CallKeeps DEF PatchAll, PatchFlat, Generations
<1>8. ASSUME NEW w \in Worker, Complete(w) PROVE SessionInv'
  BY <1>8, CallKeeps DEF Complete, Generations, Status
<1>9. QED
  BY <1>1, <1>2, <1>3, <1>4, <1>5, <1>6, <1>7, <1>8, SaveTotalKeeps, DeleteAllKeeps, GenerateFailsKeeps,
     StoreAllKeeps, StoreRowKeeps, SaveAllKeeps, SaveStatusKeeps, RewardKeeps, DieKeeps
     DEF InterviewNext

\* What is asked of a session follows.
LEMMA SessionInvSuffices == SessionInv => SessionConsistent
<1> SUFFICES ASSUME SessionInv PROVE SessionConsistent
  OBVIOUS
<1>1. ~cut => /\ Cardinality({ q.by : q \in mains }) <= 1
              /\ Indexes = 1 .. Cardinality(mains)
  <2> SUFFICES ASSUME ~cut
               PROVE  Cardinality({ q.by : q \in mains }) <= 1 /\ Indexes = 1 .. Cardinality(mains)
    OBVIOUS
  <2>1. PICK b \in Nat, n \in Nat : mains = Written(b, n)
    BY DEF SessionInv, OneSet
  <2>2. Cardinality(mains) = n /\ Indexes = 1 .. n /\ { q.by : q \in mains } \subseteq {b}
    BY <2>1, WrittenCount DEF Indexes
  <2>3. IsFiniteSet({b}) /\ Cardinality({b}) = 1
    BY FS_Singleton
  <2>4. /\ Cardinality({ q.by : q \in mains }) <= Cardinality({b})
        /\ IsFiniteSet({ q.by : q \in mains })
    BY <2>2, <2>3, FS_Subset
  <2>5. QED
    BY <2>2, <2>3, <2>4
<1>2. ASSUME \A w \in Worker : ~Busy(w), ~mixed, mains # {}, session # Gone
      PROVE  session.total = Cardinality(mains)
  <2>1. TotalFits
    BY <1>2 DEF SessionInv, Undisturbed
  <2>2. QED
    BY <1>2, <2>1 DEF TotalFits, Writes
<1>3. ASSUME \A w \in Worker : ~Busy(w), ~unpaid, session # Gone, session.status = "completed"
      PROVE  rewarded
  <2>1. RewardSure
    BY <1>3 DEF SessionInv, PaidOrUnpaid
  <2>2. rewarded = TRUE
    BY <1>3, <2>1 DEF RewardSure, Busy
  <2>3. QED
    BY <2>2
<1>4. QED
  BY <1>1, <1>2, <1>3 DEF SessionConsistent, OneQuestionSet, CompletedIsRewarded

\* However the three routes that store questions and the three that write the status overlap, fail and
\* die (apps/interview/views.py, mvp_views.py), a session holds the questions of one generation without
\* a gap, its total is their number, and its completion was rewarded, but for the exceptions that
\* OneQuestionSet and CompletedIsRewarded name.
THEOREM SessionConsistentCorrect == InterviewSpec => []SessionConsistent
<1>1. InterviewSpec => []SessionInv
  BY SessionInitially, SessionStep, PTL DEF InterviewSpec
<1>2. QED
  BY <1>1, SessionInvSuffices, PTL

-----------------------------------------------------------------------------
(* The weakness rows of an answer *)

\* The weaknesses requests ask about, and those rows are of.
FollowTags == {NoWeakness} \cup {TagNamed(name) : name \in Names}
RowTags == FollowTags \cup STRING

TagRow == [id : Nat, tag : RowTags, rank : Nat, picked : BOOLEAN, used : BOOLEAN, link : Nat]
AskerRow ==
  [at : {"idle", "find", "flag", "rank", "create", "generate", "insert"},
   id : Nat, tag : FollowTags, row : Nat, rank : Nat]

\* The rows are numbered from 1, and those of the evaluation are the first if there was none
\* before it.
RowsStored ==
  /\ tagRows \in SUBSET TagRow
  /\ \E n \in Nat : { r.id : r \in tagRows } = 1 .. n
  /\ \E m \in Nat : \A r \in tagRows : r.rank \in 1 .. m
  /\ \A r, s \in tagRows : r.id = s.id => r = s
  /\ evaluated.found \in Seq(STRING)
  /\ \A i \in DOMAIN evaluated.found : \E r \in tagRows :
       r.tag = evaluated.found[i] /\ r.rank = i /\ (r.tag = evaluated.picked => r.picked)
  /\ evaluated.first /\ evaluated.found # <<>> =>
       \E r \in tagRows : r.id = 1 /\ r.rank = 1 /\ r.tag = evaluated.found[1]

\* A request that has its row finds it as it left it, or the answer is gone.
AskerFits(a) ==
  /\ asker[a].at \in {"flag", "generate", "insert"} /\ answerKept =>
       \E r \in tagRows : r.id = asker[a].row
  /\ asker[a].at \in {"flag", "generate", "insert"} =>
       \A r \in tagRows : r.id = asker[a].row => r.tag = asker[a].tag
  /\ asker[a].at \in {"generate", "insert"} =>
       \A r \in tagRows : r.id = asker[a].row => r.picked /\ r.used
  /\ asker[a].at = "create" => asker[a].rank # 0

\* Who has found no row of its weakness, and will make one, is counted with the rows.
IdsOf(tag) == { r.id : r \in RowsOf(tag) }
Making(tag) == { a \in Asker : asker[a].at \in {"rank", "create"} /\ asker[a].tag = tag }
CountFits(tag) == Cardinality(IdsOf(tag)) + Cardinality(Making(tag)) <= FoundTimes(tag) + Cardinality(Asker)

\* The links, weakness by weakness.
LinkLeads(r) == r.link # 0 => r.picked /\ r.used /\ \E i \in Told(r.tag) : made[i].id = r.link
LatestLinked(tag) == \A i \in Told(tag) :
  (\A j \in Told(tag) : j <= i) => \E r \in RowsOf(tag) : r.link = made[i].id

RowsInv ==
  /\ RowsStored
  /\ made \in Seq([id : Nat, tag : FollowTags])
  /\ asker \in [Asker -> AskerRow] /\ asks \in Nat
  /\ ~answerKept => tagRows = {} /\ evaluated.found = <<>>
  /\ \A a \in Asker : AskerFits(a)
  /\ \A tag \in RowTags : CountFits(tag)
  /\ \A r \in tagRows : LinkLeads(r)
  /\ answerKept => \A tag \in FollowTags \ {NoWeakness} : LatestLinked(tag)

\* The requests that will make a row of a weakness are finitely many.
LEMMA AskersCounted ==
  ASSUME NEW tag
  PROVE  /\ IsFiniteSet(Making(tag)) /\ Cardinality(Making(tag)) \in Nat
         /\ Cardinality(Asker) \in Nat /\ Cardinality(Making(tag)) <= Cardinality(Asker)
<1>1. Making(tag) \in SUBSET Asker
  BY DEF Making
<1>2. QED
  BY <1>1, RowsAssumption, FS_Subset, FS_CardinalityType

\* The next row has the next number.
LEMMA RowsNumbered ==
  ASSUME RowsStored
  PROVE  NextId \in Nat \ {0} /\ { r.id : r \in tagRows } = 1 .. NextId - 1
<1> DEFINE ids == { r.id : r \in tagRows }
<1>1. PICK n \in Nat : ids = 1 .. n
  BY DEF RowsStored
<1>2. CASE tagRows = {}
  <2>1. ids = {} /\ NextId = 1
    BY <1>2 DEF NextId
  <2>2. n = 0
    BY <1>1, <2>1
  <2>3. QED
    BY <1>1, <2>1, <2>2
<1>3. CASE tagRows # {}
  <2>1. n # 0
    BY <1>1, <1>3
  <2>2. n \in ids /\ \A m \in ids : m <= n
    BY <1>1, <2>1
  <2>3. (CHOOSE k \in ids : \A m \in ids : m <= k) = n
    <3> DEFINE k == CHOOSE k \in ids : \A m \in ids : m <= k
    <3>1. k \in ids /\ \A m \in ids : m <= k
      BY <2>2
    <3>2. k \in Nat /\ n <= k /\ k <= n
      BY <1>1, <2>2, <3>1
    <3>3. QED
      BY <3>2
  <2>4. NextId = 1 + n
    <3>1. \A r \in tagRows : r.id \in ids
      OBVIOUS
    <3>2. NextId = 1 + (CHOOSE k \in { r.id : r \in tagRows } : \A r \in tagRows : r.id <= k)
      BY <1>3 DEF NextId
    <3>3. \A k : (\A r \in tagRows : r.id <= k) <=> (\A m \in ids : m <= k)
      OBVIOUS
    <3>4. (CHOOSE k \in ids : \A r \in tagRows : r.id <= k) = (CHOOSE k \in ids : \A m \in ids : m <= k)
      BY <3>3, Zenon
    <3>5. QED
      BY <2>3, <3>2, <3>4
  <2>5. QED
    BY <1>1, <2>4
<1>4. QED
  BY <1>2, <1>3

\* The last rank is a number.
LEMMA RowsRanked == ASSUME RowsStored PROVE LastRank \in Nat
<1> DEFINE ranks == { r.rank : r \in tagRows }
<1>1. PICK m \in Nat : \A r \in tagRows : r.rank \in 1 .. m
  BY DEF RowsStored
<1>2. CASE tagRows = {}
  BY <1>2 DEF LastRank
<1>3. CASE tagRows # {}
  <2>1. ranks \in SUBSET (0 .. m) /\ ranks # {}
    BY <1>1, <1>3
  <2>2. PICK n \in ranks : \A k \in ranks : k <= n
    BY <2>1, GreatestElement
  <2>3. \A r \in tagRows : r.rank <= n
    BY <2>2
  <2>4. LastRank \in ranks
    BY <1>3, <2>2, <2>3 DEF LastRank
  <2>5. QED
    BY <2>1, <2>4
<1>4. QED
  BY <1>2, <1>3

\* There is a first row among any.
LEMMA FirstRowFound ==
  ASSUME RowsStored, NEW S \in SUBSET tagRows, S # {}
  PROVE  FirstRow(S) \in S /\ \A s \in S : \/ FirstRow(S).rank < s.rank
                                           \/ FirstRow(S).rank = s.rank /\ FirstRow(S).id <= s.id
<1>1. \A r \in S : r.rank \in Nat /\ r.id \in Nat
  BY DEF RowsStored, TagRow
<1> DEFINE ranks == { r.rank : r \in S }
<1>2. ranks \in SUBSET Nat /\ ranks # {}
  BY <1>1
<1>3. PICK n \in ranks : \A k \in ranks : n <= k
  BY <1>2, LeastElement
<1> DEFINE ids == { r.id : r \in { s \in S : s.rank = n } }
<1>4. ids \in SUBSET Nat /\ ids # {}
  BY <1>1, <1>3
<1>5. PICK i \in ids : \A k \in ids : i <= k
  BY <1>4, LeastElement
<1>6. PICK r \in S : r.rank = n /\ r.id = i
  BY <1>5
<1>7. ASSUME NEW s \in S PROVE r.rank < s.rank \/ (r.rank = s.rank /\ r.id <= s.id)
  <2>1. n \in Nat /\ n <= s.rank /\ s.rank \in Nat
    BY <1>1, <1>2, <1>3
  <2>2. s.rank = n => i <= s.id
    BY <1>5
  <2>3. QED
    BY <1>6, <2>1, <2>2
<1>8. \E t \in S : \A s \in S : t.rank < s.rank \/ (t.rank = s.rank /\ t.id <= s.id)
  BY <1>6, <1>7
<1>9. QED
  BY <1>8 DEF FirstRow

\* So are the numbers of its rows.
LEMMA IdsCounted ==
  ASSUME RowsStored, NEW tag
  PROVE  IsFiniteSet(IdsOf(tag)) /\ Cardinality(IdsOf(tag)) \in Nat
<1>1. PICK n \in Nat : { r.id : r \in tagRows } = 1 .. n
  BY DEF RowsStored
<1>2. IdsOf(tag) \in SUBSET (1 .. n)
  BY <1>1 DEF IdsOf, RowsOf
<1> DEFINE ids == IdsOf(tag)
<1>3. ids \in SUBSET Nat /\ \A k \in ids : k <= n
  BY <1>2
<1>4. IsFiniteSet(ids)
  <2> HIDE DEF ids
  <2>1. QED
    BY <1>3, FS_BoundedSetOfNaturals
<1>5. QED
  BY <1>4, FS_CardinalityType

\* How often the evaluation found a weakness.
LEMMA TimesCounted ==
  ASSUME RowsStored, NEW tag
  PROVE  /\ IsFiniteSet({ i \in DOMAIN evaluated.found : evaluated.found[i] = tag })
         /\ FoundTimes(tag) \in Nat
<1>1. Len(evaluated.found) \in Nat /\ DOMAIN evaluated.found = 1 .. Len(evaluated.found)
  BY LenProperties DEF RowsStored
<1>2. { i \in DOMAIN evaluated.found : evaluated.found[i] = tag } \in SUBSET (1 .. Len(evaluated.found))
  BY <1>1
<1> DEFINE places == { i \in DOMAIN evaluated.found : evaluated.found[i] = tag }
<1>3. places \in SUBSET Nat /\ \A k \in places : k <= Len(evaluated.found)
  BY <1>1, <1>2
<1>4. IsFiniteSet(places)
  <2> HIDE DEF places
  <2>1. QED
    BY <1>1, <1>3, FS_BoundedSetOfNaturals
<1>5. QED
  BY <1>4, FS_CardinalityType DEF FoundTimes

\* No row, no request: the invariant holds at the start.
LEMMA RowsInitially == RowsInit => RowsInv
<1> SUFFICES ASSUME RowsInit PROVE RowsInv
  OBVIOUS
<1>1. evaluated.found = <<>> /\ DOMAIN evaluated.found = {} /\ tagRows = {} /\ made = <<>> /\ DOMAIN made = {}
  BY DEF RowsInit, NotEvaluated
<1>2. RowsStored
  <2>1. { r.id : r \in tagRows } = 1 .. 0 /\ \A r \in tagRows : r.rank \in 1 .. 0
    BY <1>1
  <2>2. QED
    BY <1>1, <2>1 DEF RowsStored
<1>3. \A a \in Asker : asker[a] = NotAsking
  BY DEF RowsInit
<1>4. NotAsking \in AskerRow /\ NotAsking.at = "idle"
  BY DEF NotAsking, AskerRow, FollowTags
<1>5. asker \in [Asker -> AskerRow]
  BY <1>4 DEF RowsInit
<1>6. \A a \in Asker : AskerFits(a)
  BY <1>3, <1>4 DEF AskerFits
<1>7. ASSUME NEW tag \in RowTags PROVE CountFits(tag)
  <2>1. IdsOf(tag) = {} /\ Making(tag) = {}
    BY <1>1, <1>3, <1>4 DEF IdsOf, RowsOf, Making
  <2>2. Cardinality(IdsOf(tag)) = 0 /\ Cardinality(Making(tag)) = 0
    BY <2>1, FS_EmptySet
  <2>3. FoundTimes(tag) \in Nat /\ Cardinality(Asker) \in Nat
    BY <1>2, TimesCounted, AskersCounted
  <2>4. QED
    BY <2>2, <2>3 DEF CountFits
<1>8. \A tag : LatestLinked(tag)
  BY <1>1 DEF LatestLinked, Told
<1>9. QED
  BY <1>1, <1>2, <1>5, <1>6, <1>7, <1>8 DEF RowsInv, RowsInit

-----------------------------------------------------------------------------
(* What a step leaves of them *)

\* Rows that are only marked or linked are counted as before.
LEMMA RowsMarked ==
  ASSUME RowsStored, UNCHANGED evaluated,
         NEW f \in [tagRows -> TagRow], tagRows' = { f[r] : r \in tagRows },
         \A r \in tagRows : f[r].id = r.id /\ f[r].tag = r.tag /\ f[r].rank = r.rank
                          /\ (r.picked => f[r].picked)
  PROVE  RowsStored' /\ \A tag : IdsOf(tag)' = IdsOf(tag)
<1>1. { r.id : r \in tagRows }' = { r.id : r \in tagRows }
  OBVIOUS
<1>2. tagRows' \in SUBSET TagRow
  OBVIOUS
<1>3. \A r, s \in tagRows' : r.id = s.id => r = s
  <2>1. \A r, s \in tagRows : r.id = s.id => r = s
    BY DEF RowsStored
  <2>2. QED
    BY <2>1
<1>4. \E m \in Nat : \A r \in tagRows' : r.rank \in 1 .. m
  BY DEF RowsStored
<1>5. \A i \in DOMAIN evaluated.found : \E r \in tagRows' :
       r.tag = evaluated.found[i] /\ r.rank = i /\ (r.tag = evaluated.picked => r.picked)
  <2> SUFFICES ASSUME NEW i \in DOMAIN evaluated.found
               PROVE  \E r \in tagRows' :
                        r.tag = evaluated.found[i] /\ r.rank = i /\ (r.tag = evaluated.picked => r.picked)
    OBVIOUS
  <2>1. PICK r \in tagRows :
          r.tag = evaluated.found[i] /\ r.rank = i /\ (r.tag = evaluated.picked => r.picked)
    BY DEF RowsStored
  <2>2. f[r] \in tagRows' /\ f[r].tag = r.tag /\ f[r].rank = r.rank /\ (r.picked => f[r].picked)
    OBVIOUS
  <2>3. QED
    BY <2>1, <2>2, Zenon
<1>6. evaluated.first /\ evaluated.found # <<>> =>
       \E r \in tagRows' : r.id = 1 /\ r.rank = 1 /\ r.tag = evaluated.found[1]
  <2> SUFFICES ASSUME evaluated.first, evaluated.found # <<>>
               PROVE  \E r \in tagRows' : r.id = 1 /\ r.rank = 1 /\ r.tag = evaluated.found[1]
    OBVIOUS
  <2>1. PICK r \in tagRows : r.id = 1 /\ r.rank = 1 /\ r.tag = evaluated.found[1]
    BY Zenon DEF RowsStored
  <2>2. QED
    BY <2>1
<1>7. \E n \in Nat : { r.id : r \in tagRows }' = 1 .. n
  BY <1>1 DEF RowsStored
<1>8. RowsStored'
  <2>1. evaluated' = evaluated /\ evaluated.found \in Seq(STRING)
    BY DEF RowsStored
  <2>2. PICK those : those = tagRows'
    OBVIOUS
  <2>3. { r.id : r \in tagRows }' = { r.id : r \in those }
    BY <2>2
  <2>4. QED
    BY <1>2, <1>3, <1>4, <1>5, <1>6, <1>7, <2>1, <2>2, <2>3 DEF RowsStored
<1>9. \A tag : IdsOf(tag)' = IdsOf(tag)
  BY DEF IdsOf, RowsOf
<1>10. QED
  BY <1>8, <1>9

\* The count of a weakness holds if no one enters who will make a row of it.
LEMMA CountKept ==
  ASSUME NEW tag, CountFits(tag), RowsStored, UNCHANGED evaluated,
         IdsOf(tag)' = IdsOf(tag), Making(tag)' \in SUBSET Making(tag)
  PROVE  CountFits(tag)'
<1>1. IsFiniteSet(Making(tag)) /\ Cardinality(Making(tag)) \in Nat /\ Cardinality(Asker) \in Nat
  BY AskersCounted
<1>2. Cardinality(IdsOf(tag)) \in Nat /\ FoundTimes(tag) \in Nat
  BY IdsCounted, TimesCounted
<1>3. PICK M : M = Making(tag)'
  OBVIOUS
<1>4. Cardinality(M) \in Nat /\ Cardinality(M) <= Cardinality(Making(tag))
  BY <1>1, <1>3, FS_Subset, FS_CardinalityType
<1>5. FoundTimes(tag)' = FoundTimes(tag)
  BY DEF FoundTimes
<1>6. Cardinality(Making(tag)') <= Cardinality(Making(tag)) /\ Cardinality(Making(tag)') \in Nat
  BY <1>3, <1>4
<1>7. QED
  BY <1>1, <1>2, <1>5, <1>6 DEF CountFits

\* A request that does not move keeps its row if the rows keep what it knows of them.
LEMMA AskerKept ==
  ASSUME NEW b \in Asker, AskerFits(b), asker'[b] = asker[b], answerKept' => answerKept,
         answerKept' => \A r \in tagRows : \E s \in tagRows' : s.id = r.id,
         asker[b].at \in {"flag", "generate", "insert"} =>
           \A s \in tagRows' : s.id = asker[b].row =>
             \E r \in tagRows : r.id = s.id /\ r.tag = s.tag /\ (r.picked /\ r.used => s.picked /\ s.used)
  PROVE  AskerFits(b)'
<1> DEFINE at == asker[b].at
           row == asker[b].row
<1>1. at \in {"flag", "generate", "insert"} /\ answerKept' => \E s \in tagRows' : s.id = row
  BY DEF AskerFits
<1>2. at \in {"flag", "generate", "insert"} => \A s \in tagRows' : s.id = row => s.tag = asker[b].tag
  BY DEF AskerFits
<1>3. at \in {"generate", "insert"} => \A s \in tagRows' : s.id = row => s.picked /\ s.used
  <2> SUFFICES ASSUME at \in {"generate", "insert"}, NEW s \in tagRows', s.id = row
               PROVE  s.picked /\ s.used
    OBVIOUS
  <2>1. PICK r \in tagRows : r.id = s.id /\ (r.picked /\ r.used => s.picked /\ s.used)
    OBVIOUS
  <2>2. r.picked /\ r.used
    BY <2>1, Zenon DEF AskerFits
  <2>3. QED
    BY <2>1, <2>2
<1>4. at = "create" => asker[b].rank # 0
  BY DEF AskerFits
<1>5. QED
  BY <1>1, <1>2, <1>3, <1>4 DEF AskerFits

\* What was stored remains, and no other follow-up about a weakness is stored.
MadeGrows ==
  /\ made' \in Seq([id : Nat, tag : FollowTags])
  /\ \A i \in DOMAIN made : i \in DOMAIN made' /\ made'[i] = made[i]
  /\ \A i \in DOMAIN made' : made'[i].tag # NoWeakness => i \in DOMAIN made

\* A step that stores no follow-up is one of those, ...
LEMMA NoneMade == ASSUME RowsInv, UNCHANGED made PROVE MadeGrows
BY DEF MadeGrows, RowsInv

\* ... and they keep what was told of each weakness.
LEMMA ToldKept ==
  ASSUME MadeGrows
  PROVE  /\ \A t, i : i \in Told(t) => i \in Told(t)' /\ made'[i] = made[i]
         /\ \A t : t # NoWeakness => Told(t)' = Told(t)
BY DEF MadeGrows, Told

\* A step of a request that changes no rows.
LEMMA RowsRead ==
  ASSUME RowsInv, NEW a \in Asker, NEW new \in AskerRow,
         asker' = [asker EXCEPT ![a] = new], asks' \in Nat,
         UNCHANGED <<answerKept, tagRows, evaluated>>,
         MadeGrows,
         AskerFits(a)',
         new.at \in {"rank", "create"} =>
           \/ asker[a].at \in {"rank", "create"} /\ asker[a].tag = new.tag
           \/ RowsOf(new.tag) = {}
  PROVE  RowsInv'
<1>1. RowsStored'
  BY DEF RowsInv, RowsStored
<1>2. made' \in Seq([id : Nat, tag : FollowTags]) /\ (~answerKept' => tagRows' = {} /\ evaluated'.found = <<>>)
  BY DEF RowsInv, MadeGrows
<1>3. asker' \in [Asker -> AskerRow]
  BY DEF RowsInv
<1>4. ASSUME NEW b \in Asker PROVE AskerFits(b)'
  <2>1. CASE b = a
    BY <2>1
  <2>2. CASE b # a
    <3>1. asker'[b] = asker[b] /\ AskerFits(b)
      BY <2>2 DEF RowsInv
    <3>2. QED
      BY <3>1 DEF AskerFits
  <2>3. QED
    BY <2>1, <2>2
<1>5. ASSUME NEW tag \in RowTags PROVE CountFits(tag)'
  <2>1. IdsOf(tag)' = IdsOf(tag)
    BY DEF IdsOf, RowsOf
  <2>2. CountFits(tag) /\ RowsStored
    BY DEF RowsInv
  <2>3. asker[a] \in AskerRow /\ asker'[a] = new /\ \A b \in Asker \ {a} : asker'[b] = asker[b]
    BY DEF RowsInv
  <2>4. CASE Making(tag)' \in SUBSET Making(tag)
    BY <2>1, <2>2, <2>4, CountKept
  <2>5. CASE ~(Making(tag)' \in SUBSET Making(tag))
    <3>1. RowsOf(tag) = {}
      BY <2>3, <2>5 DEF Making
    <3>2. IdsOf(tag)' = {} /\ Cardinality(IdsOf(tag)') = 0
      BY <2>1, <3>1, FS_EmptySet DEF IdsOf
    <3>3. PICK M : M = Making(tag)'
      OBVIOUS
    <3>4. M \in SUBSET Asker
      BY <3>3 DEF Making
    <3>5. Cardinality(M) \in Nat /\ Cardinality(M) <= Cardinality(Asker) /\ Cardinality(Asker) \in Nat
      BY <3>4, RowsAssumption, FS_Subset, FS_CardinalityType
    <3>6. FoundTimes(tag)' = FoundTimes(tag) /\ FoundTimes(tag) \in Nat
      BY <2>2, TimesCounted DEF FoundTimes
    <3>7. Cardinality(Making(tag)') = Cardinality(M)
      BY <3>3
    <3>8. QED
      BY <3>2, <3>5, <3>6, <3>7 DEF CountFits
  <2>6. QED
    BY <2>4, <2>5
<1>6. ASSUME NEW r \in tagRows' PROVE LinkLeads(r)'
  <2>1. LinkLeads(r)
    BY DEF RowsInv
  <2>2. QED
    BY <2>1, ToldKept DEF LinkLeads
<1>7. ASSUME NEW t \in FollowTags \ {NoWeakness}, answerKept' PROVE LatestLinked(t)'
  <2>1. LatestLinked(t)
    BY <1>7 DEF RowsInv
  <2>2. QED
    BY <1>7, <2>1, ToldKept DEF LatestLinked, RowsOf
<1>8. QED
  BY <1>1, <1>2, <1>3, <1>4, <1>5, <1>6, <1>7 DEF RowsInv

-----------------------------------------------------------------------------
(* Requests *)

\* A request starts: it is not yet among those that will make a row.
LEMMA AskForStep ==
  ASSUME RowsInv, NEW a \in Asker, NEW name \in Names, NEW anew \in BOOLEAN, AskFor(a, name, anew)
  PROVE  RowsInv'
<1> DEFINE new == [NotAsking EXCEPT !.at = "find", !.id = asks + 1, !.tag = TagNamed(name)]
<1>1. asks \in Nat /\ asks' = asks + 1
  BY DEF RowsInv, AskFor
<1>2. new \in AskerRow /\ new.at = "find"
  <2>1. PICK tag \in FollowTags : tag = TagNamed(name)
    BY DEF FollowTags
  <2>2. PICK n \in Nat : n = asks + 1
    BY <1>1
  <2>3. NotAsking \in AskerRow
    BY DEF NotAsking, AskerRow, FollowTags
  <2>4. [NotAsking EXCEPT !.at = "find", !.id = n, !.tag = tag] \in AskerRow
    BY <2>3 DEF AskerRow
  <2>5. [NotAsking EXCEPT !.at = "find", !.id = n, !.tag = tag].at = "find"
    BY <2>3 DEF AskerRow
  <2>6. QED
    BY <2>1, <2>2, <2>4, <2>5
<1>3. asker' = [asker EXCEPT ![a] = new] /\ UNCHANGED <<answerKept, tagRows, evaluated>> /\ MadeGrows
  BY NoneMade DEF AskFor
<1>4. asker'[a] = new
  BY <1>3 DEF RowsInv
<1>5. AskerFits(a)'
  BY <1>2, <1>4 DEF AskerFits
<1>6. asks' \in Nat /\ ~(new.at \in {"rank", "create"})
  BY <1>1, <1>2
<1> HIDE DEF new
<1>7. QED
  BY <1>2, <1>3, <1>5, <1>6, RowsRead

\* A request is to make a row only if there is none, when all there are may be.
LEMMA FindRowStep == ASSUME RowsInv, NEW a \in Asker, FindRow(a) PROVE RowsInv'
<1> DEFINE those == RowsOf(asker[a].tag)
           first == IF those = {} THEN 0 ELSE FirstRow(those).id
           at == IF those = {} THEN "rank" ELSE "flag"
           new == [asker[a] EXCEPT !.at = at, !.row = first]
<1>1. asker[a] \in AskerRow /\ asker[a].at = "find" /\ asks \in Nat
  BY DEF RowsInv, FindRow
<1>2. those # {} => FirstRow(those) \in those /\ FirstRow(those).id \in Nat /\ FirstRow(those).tag = asker[a].tag
  <2>1. RowsStored /\ those \in SUBSET tagRows
    BY DEF RowsInv, RowsOf
  <2>2. those # {} => FirstRow(those) \in those
    BY <2>1, FirstRowFound
  <2>3. \A r \in those : r.id \in Nat /\ r.tag = asker[a].tag
    BY DEF RowsInv, RowsStored, TagRow, RowsOf
  <2>4. QED
    BY <2>2, <2>3
<1>3. first \in Nat
  BY <1>2
<1>4. new \in AskerRow /\ new.tag = asker[a].tag /\ new.at = at /\ new.row = first
  BY <1>1, <1>3 DEF AskerRow
<1>5. asker' = [asker EXCEPT ![a] = new]
  BY DEF FindRow, RowsInv
<1>6. UNCHANGED <<answerKept, tagRows, evaluated>> /\ MadeGrows /\ asks' \in Nat
  BY <1>1, NoneMade DEF FindRow
<1>7. asker'[a] = new
  BY <1>5 DEF RowsInv
<1>8. AskerFits(a)'
  <2>1. CASE those = {}
    BY <1>4, <1>7, <2>1 DEF AskerFits
  <2>2. CASE those # {}
    <3>1. at = "flag" /\ first = FirstRow(those).id
      BY <2>2
    <3>2. PICK r \in those : r.id = first /\ r.tag = asker[a].tag
      BY <1>2, <2>2, <3>1
    <3>3. r \in tagRows /\ \A s \in tagRows : s.id = r.id => s = r
      BY DEF RowsInv, RowsStored, RowsOf
    <3>4. asker'[a].at = "flag" /\ asker'[a].row = first /\ asker'[a].tag = asker[a].tag
      BY <1>4, <1>7, <3>1
    <3>5. tagRows' = tagRows
      BY <1>6
    <3>6. QED
      BY <3>2, <3>3, <3>4, <3>5 DEF AskerFits
  <2>3. QED
    BY <2>1, <2>2
<1>9. new.at \in {"rank", "create"} => RowsOf(new.tag) = {}
  BY <1>4
<1> HIDE DEF new
<1>10. QED
  BY <1>4, <1>5, <1>6, <1>8, <1>9, RowsRead

\* The rank of a new row is behind the others.
LEMMA RankRowStep == ASSUME RowsInv, NEW a \in Asker, RankRow(a) PROVE RowsInv'
<1> DEFINE new == [asker[a] EXCEPT !.at = "create", !.rank = LastRank + 1]
<1>1. asker[a] \in AskerRow /\ asker[a].at = "rank" /\ asks \in Nat
  BY DEF RowsInv, RankRow
<1>2. LastRank \in Nat
  BY RowsRanked DEF RowsInv
<1>3. new \in AskerRow /\ new.tag = asker[a].tag /\ new.at = "create" /\ new.rank # 0
  <2>1. LastRank + 1 \in Nat \ {0}
    BY <1>2
  <2> HIDE DEF LastRank
  <2>2. PICK rank \in Nat \ {0} : rank = LastRank + 1
    BY <2>1
  <2>3. new = [asker[a] EXCEPT !.at = "create", !.rank = rank]
    BY <2>2
  <2>4. QED
    BY <1>1, <2>3 DEF AskerRow
<1>4. asker' = [asker EXCEPT ![a] = new]
  BY DEF RankRow, RowsInv
<1>5. UNCHANGED <<answerKept, tagRows, evaluated>> /\ MadeGrows /\ asks' \in Nat
  BY <1>1, NoneMade DEF RankRow
<1>6. asker'[a] = new
  BY <1>4 DEF RowsInv
<1>7. AskerFits(a)'
  BY <1>3, <1>6 DEF AskerFits
<1> HIDE DEF new
<1>8. QED
  BY <1>1, <1>3, <1>4, <1>5, <1>7, RowsRead

\* The model is asked: the row of the request stays as it was marked.
LEMMA AskForQuestionStep == ASSUME RowsInv, NEW a \in Asker, AskForQuestion(a) PROVE RowsInv'
<1>1. asker[a] \in AskerRow /\ asker[a].at = "generate" /\ asks \in Nat /\ AskerFits(a)
  BY DEF RowsInv, AskForQuestion
<1>2. UNCHANGED <<answerKept, tagRows, evaluated>> /\ MadeGrows /\ asks' \in Nat
  BY <1>1, NoneMade DEF AskForQuestion
<1>3. CASE Moves(a, "insert")
  <2> DEFINE new == [asker[a] EXCEPT !.at = "insert"]
  <2>1. new \in AskerRow /\ new.at = "insert" /\ new.row = asker[a].row /\ new.tag = asker[a].tag
    BY <1>1 DEF AskerRow
  <2>2. asker' = [asker EXCEPT ![a] = new] /\ asker'[a] = new
    BY <1>3 DEF Moves, RowsInv
  <2>3. AskerFits(a)'
    BY <1>1, <1>2, <2>1, <2>2 DEF AskerFits
  <2> HIDE DEF new
  <2>4. QED
    BY <1>2, <2>1, <2>2, <2>3, RowsRead
<1>4. CASE Stops(a)
  <2>1. NotAsking \in AskerRow /\ NotAsking.at = "idle"
    BY DEF NotAsking, AskerRow, FollowTags
  <2>2. asker' = [asker EXCEPT ![a] = NotAsking] /\ asker'[a] = NotAsking
    BY <1>4 DEF Stops, RowsInv
  <2>3. AskerFits(a)'
    BY <2>1, <2>2 DEF AskerFits
  <2>4. QED
    BY <1>2, <2>1, <2>2, <2>3, RowsRead
<1>5. QED
  BY <1>3, <1>4 DEF AskForQuestion

\* The follow-ups that were stored, and one more.
LEMMA OneMoreMade ==
  ASSUME made \in Seq([id : Nat, tag : FollowTags]), NEW n \in Nat, NEW tag \in FollowTags,
         made' = Append(made, [id |-> n, tag |-> tag])
  PROVE  /\ made' \in Seq([id : Nat, tag : FollowTags])
         /\ Len(made) \in Nat /\ DOMAIN made = 1 .. Len(made) /\ DOMAIN made' = 1 .. Len(made) + 1
         /\ made'[Len(made) + 1].id = n /\ made'[Len(made) + 1].tag = tag
         /\ \A i \in DOMAIN made : i \in DOMAIN made' /\ made'[i] = made[i]
<1> DEFINE new == [id |-> n, tag |-> tag]
<1>1. new \in [id : Nat, tag : FollowTags] /\ new.id = n /\ new.tag = tag
  OBVIOUS
<1> HIDE DEF new
<1>2. made' \in Seq([id : Nat, tag : FollowTags]) /\ Len(made') = Len(made) + 1 /\ Len(made) \in Nat
       /\ made'[Len(made) + 1] = new /\ \A i \in 1 .. Len(made) : made'[i] = made[i]
  BY <1>1, AppendProperties, LenProperties DEF new
<1>3. DOMAIN made = 1 .. Len(made) /\ DOMAIN made' = 1 .. Len(made')
  BY <1>2, LenProperties
<1>4. \A i \in DOMAIN made : i \in DOMAIN made' /\ made'[i] = made[i]
  BY <1>2, <1>3
<1>5. QED
  BY <1>1, <1>2, <1>3, <1>4

\* A follow-up without a weakness has no row to be linked to.
LEMMA ConfirmStep == ASSUME RowsInv, NEW a \in Asker, Confirm(a) PROVE RowsInv'
<1>1. asker[a] \in AskerRow /\ asks \in Nat /\ made \in Seq([id : Nat, tag : FollowTags])
  BY DEF RowsInv
<1>2. UNCHANGED <<answerKept, tagRows, evaluated>> /\ asks' \in Nat
  BY <1>1 DEF Confirm
<1>3. NotAsking \in AskerRow /\ NotAsking.at = "idle"
  BY DEF NotAsking, AskerRow, FollowTags
<1>4. asker' = [asker EXCEPT ![a] = NotAsking] /\ asker'[a] = NotAsking
  BY DEF Confirm, Stops, RowsInv
<1>5. AskerFits(a)'
  BY <1>3, <1>4 DEF AskerFits
<1>6. CASE answerKept
  <2>1. asker[a].id \in Nat /\ NoWeakness \in FollowTags
    BY <1>1 DEF AskerRow, FollowTags
  <2>2. made' = Append(made, [id |-> asker[a].id, tag |-> NoWeakness])
    BY <1>6 DEF Confirm
  <2>3. MadeGrows
    <3>1. /\ made' \in Seq([id : Nat, tag : FollowTags])
          /\ Len(made) \in Nat /\ DOMAIN made = 1 .. Len(made) /\ DOMAIN made' = 1 .. Len(made) + 1
          /\ made'[Len(made) + 1].tag = NoWeakness
          /\ \A i \in DOMAIN made : i \in DOMAIN made' /\ made'[i] = made[i]
      BY <1>1, <2>1, <2>2, OneMoreMade
    <3>2. \A i \in 1 .. Len(made) + 1 : i # Len(made) + 1 => i \in 1 .. Len(made)
      BY <3>1
    <3>3. QED
      BY <3>1, <3>2 DEF MadeGrows
  <2>4. QED
    BY <1>2, <1>3, <1>4, <1>5, <2>3, RowsRead
<1>7. CASE ~answerKept
  <2>1. MadeGrows
    BY <1>7, NoneMade DEF Confirm
  <2>2. QED
    BY <1>2, <1>3, <1>4, <1>5, <2>1, RowsRead
<1>8. QED
  BY <1>6, <1>7

\* With the answer go its rows, and nothing is left to be told.
LEMMA RemoveAnswerStep == ASSUME RowsInv, RemoveAnswer PROVE RowsInv'
<1>1. answerKept' = FALSE /\ tagRows' = {} /\ evaluated' = NotEvaluated /\ UNCHANGED <<made, asker, asks>>
  BY DEF RemoveAnswer
<1>2. evaluated'.found = <<>> /\ DOMAIN evaluated'.found = {}
  BY <1>1 DEF NotEvaluated
<1>3. RowsStored'
  <2>1. { r.id : r \in tagRows }' = 1 .. 0 /\ \A r \in tagRows' : r.rank \in 1 .. 0
    BY <1>1
  <2>2. evaluated'.found \in Seq(STRING)
    BY <1>2
  <2>3. QED
    BY <1>1, <1>2, <2>1, <2>2 DEF RowsStored
<1>4. ASSUME NEW b \in Asker PROVE AskerFits(b)'
  <2>1. AskerFits(b) /\ asker'[b] = asker[b]
    BY <1>1 DEF RowsInv
  <2>2. QED
    BY <1>1, <2>1 DEF AskerFits
<1>5. ASSUME NEW tag \in RowTags PROVE CountFits(tag)'
  <2>1. IdsOf(tag)' = {} /\ Making(tag)' = Making(tag)
    BY <1>1 DEF IdsOf, RowsOf, Making
  <2>2. Cardinality(IdsOf(tag)') = 0
    BY <2>1, FS_EmptySet
  <2>3. FoundTimes(tag)' = 0
    <3>1. { i \in DOMAIN evaluated.found : evaluated.found[i] = tag }' = {}
      BY <1>2
    <3>2. QED
      BY <3>1, FS_EmptySet DEF FoundTimes
  <2>4. QED
    BY <2>1, <2>2, <2>3, AskersCounted DEF CountFits
<1>6. \A r \in tagRows' : LinkLeads(r)'
  BY <1>1
<1>7. QED
  BY <1>1, <1>2, <1>3, <1>4, <1>5, <1>6 DEF RowsInv

\* A step of a request that marks rows or links them.
LEMMA RowsWritten ==
  ASSUME RowsInv, NEW a \in Asker, NEW new \in AskerRow,
         asker' = [asker EXCEPT ![a] = new], new.at \notin {"rank", "create"}, asks' \in Nat,
         UNCHANGED <<answerKept, evaluated>>,
         NEW f \in [tagRows -> TagRow], tagRows' = { f[r] : r \in tagRows },
         \A r \in tagRows : f[r].id = r.id /\ f[r].tag = r.tag /\ f[r].rank = r.rank
                          /\ (r.picked => f[r].picked) /\ (r.used => f[r].used),
         AskerFits(a)', made' \in Seq([id : Nat, tag : FollowTags]),
         \A s \in tagRows' : LinkLeads(s)',
         answerKept => \A tag \in FollowTags \ {NoWeakness} : LatestLinked(tag)'
  PROVE  RowsInv'
<1>1. RowsStored' /\ \A tag : IdsOf(tag)' = IdsOf(tag)
  BY RowsMarked DEF RowsInv
<1>2. ~answerKept' => tagRows' = {} /\ evaluated'.found = <<>>
  BY DEF RowsInv
<1>3. asker' \in [Asker -> AskerRow] /\ asker'[a] = new /\ \A b \in Asker \ {a} : asker'[b] = asker[b]
  BY DEF RowsInv
<1>4. ASSUME NEW b \in Asker PROVE AskerFits(b)'
  <2>1. CASE b = a
    BY <2>1
  <2>2. CASE b # a
    <3>1. asker'[b] = asker[b] /\ AskerFits(b) /\ answerKept' = answerKept
      BY <1>3, <2>2 DEF RowsInv
    <3>2. answerKept' => \A r \in tagRows : \E s \in tagRows' : s.id = r.id
      OBVIOUS
    <3>3. \A s \in tagRows' : s.id = asker[b].row => \E r \in tagRows :
            r.id = s.id /\ r.tag = s.tag /\ (r.picked /\ r.used => s.picked /\ s.used)
      OBVIOUS
    <3>4. QED
      BY <3>1, <3>2, <3>3, AskerKept
  <2>3. QED
    BY <2>1, <2>2
<1>5. ASSUME NEW tag \in RowTags PROVE CountFits(tag)'
  <2>1. Making(tag)' \in SUBSET Making(tag)
    BY <1>3 DEF Making
  <2>2. CountFits(tag) /\ RowsStored
    BY DEF RowsInv
  <2>3. QED
    BY <1>1, <2>1, <2>2, CountKept
<1>6. QED
  BY <1>1, <1>2, <1>3, <1>4, <1>5 DEF RowsInv

\* The row that was found is marked, if it is still there.
LEMMA FlagRowStep == ASSUME RowsInv, NEW a \in Asker, FlagRow(a) PROVE RowsInv'
<1> DEFINE Marked(r) == [r EXCEPT !.picked = TRUE, !.used = TRUE]
           new == IF Row(a) = {} THEN NotAsking ELSE [asker[a] EXCEPT !.at = "generate"]
<1>0. PICK f : f = [r \in tagRows |-> IF r.id = asker[a].row THEN Marked(r) ELSE r]
  OBVIOUS
<1>1. asker[a] \in AskerRow /\ asker[a].at = "flag" /\ AskerFits(a) /\ tagRows \in SUBSET TagRow
       /\ asks \in Nat /\ made \in Seq([id : Nat, tag : FollowTags])
  BY DEF RowsInv, RowsStored, FlagRow
<1>2. ASSUME NEW r \in tagRows
      PROVE  /\ f[r] \in TagRow /\ f[r].id = r.id /\ f[r].tag = r.tag /\ f[r].rank = r.rank
             /\ f[r].link = r.link /\ (r.picked => f[r].picked) /\ (r.used => f[r].used)
             /\ (r.id = asker[a].row => f[r].picked /\ f[r].used)
  <2>1. r \in TagRow
    BY <1>1
  <2>2. CASE r.id = asker[a].row
    <3>1. f[r] = Marked(r)
      BY <1>0, <2>2
    <3>2. Marked(r) \in TagRow /\ Marked(r).id = r.id /\ Marked(r).tag = r.tag /\ Marked(r).rank = r.rank
          /\ Marked(r).link = r.link
      BY <2>1 DEF TagRow
    <3>3. Marked(r).picked = TRUE /\ Marked(r).used = TRUE
      BY <2>1 DEF TagRow
    <3> HIDE DEF Marked
    <3>4. QED
      BY <3>1, <3>2, <3>3, Zenon
  <2>3. CASE r.id # asker[a].row
    <3>1. f[r] = r
      BY <1>0, <2>3
    <3>2. QED
      BY <2>1, <2>3, <3>1, Zenon
  <2>4. QED
    BY <2>2, <2>3
<1>3. tagRows' = { f[r] : r \in tagRows }
  BY <1>0 DEF FlagRow, Row
<1>4. new \in AskerRow /\ new.at \in {"idle", "generate"} /\ (new.at = "generate" =>
        Row(a) # {} /\ new.row = asker[a].row /\ new.tag = asker[a].tag)
  <2>1. NotAsking \in AskerRow /\ NotAsking.at = "idle"
    BY DEF NotAsking, AskerRow, FollowTags
  <2>2. CASE Row(a) = {}
    BY <2>1, <2>2
  <2>3. CASE Row(a) # {}
    BY <1>1, <2>3 DEF AskerRow
  <2>4. QED
    BY <2>2, <2>3
<1>5. asker' = [asker EXCEPT ![a] = new] /\ asker'[a] = new
  BY <1>1 DEF FlagRow, Stops, Moves, RowsInv
<1>6. UNCHANGED <<answerKept, evaluated, made>> /\ asks' \in Nat
  BY <1>1 DEF FlagRow
<1> HIDE DEF new
<1>7. AskerFits(a)'
  <2>1. CASE new.at = "idle"
    BY <1>5, <2>1 DEF AskerFits
  <2>2. CASE new.at = "generate"
    <3>1. Row(a) # {} /\ asker'[a].row = asker[a].row /\ asker'[a].tag = asker[a].tag
          /\ asker'[a].at = "generate"
      BY <1>4, <1>5, <2>2
    <3>2. \A r \in tagRows : r.id = asker[a].row => r.tag = asker[a].tag
      BY <1>1 DEF AskerFits
    <3>3. \E s \in tagRows' : s.id = asker[a].row
      BY <1>2, <1>3, <3>1 DEF Row
    <3>4. \A s \in tagRows' : s.id = asker[a].row => s.tag = asker[a].tag /\ s.picked /\ s.used
      BY <1>2, <1>3, <3>2
    <3>5. QED
      BY <3>1, <3>3, <3>4 DEF AskerFits
  <2>3. QED
    BY <1>4, <2>1, <2>2
<1>8. ASSUME NEW s \in tagRows' PROVE LinkLeads(s)'
  <2> PICK r \in tagRows : s = f[r]
    BY <1>3
  <2>1. LinkLeads(r)
    BY DEF RowsInv
  <2>2. Told(r.tag)' = Told(r.tag) /\ made' = made
    BY <1>6 DEF Told
  <2>3. f[r].link # 0 => f[r].picked /\ f[r].used /\ \E i \in Told(r.tag) : made[i].id = f[r].link
    BY <1>2, <2>1 DEF LinkLeads
  <2>4. s.tag = r.tag /\ (s.link # 0 => s.picked /\ s.used /\ \E i \in Told(r.tag)' : made'[i].id = s.link)
    BY <1>2, <2>2, <2>3
  <2>5. QED
    BY <2>4 DEF LinkLeads
<1>9. ASSUME NEW tag \in FollowTags \ {NoWeakness}, answerKept PROVE LatestLinked(tag)'
  <2>1. LatestLinked(tag) /\ Told(tag)' = Told(tag) /\ made' = made
    BY <1>6, <1>9 DEF RowsInv, Told
  <2>2. ASSUME NEW i \in Told(tag), \A j \in Told(tag) : j <= i
        PROVE  \E r \in RowsOf(tag)' : r.link = made[i].id
    <3>1. PICK r \in RowsOf(tag) : r.link = made[i].id
      BY <2>1, <2>2 DEF LatestLinked
    <3>2. f[r] \in RowsOf(tag)' /\ f[r].link = r.link
      BY <1>2, <1>3 DEF RowsOf
    <3>3. QED
      BY <3>1, <3>2
  <2>3. QED
    BY <2>1, <2>2 DEF LatestLinked
<1>10. f \in [tagRows -> TagRow]
  BY <1>0, <1>2
<1>11. QED
  BY <1>2, <1>3, <1>4, <1>5, <1>6, <1>7, <1>8, <1>9, <1>10, <1>1, RowsWritten

\* The row of the request is linked to the question that is stored with it.
LEMMA StoreFollowUpStep == ASSUME RowsInv, NEW a \in Asker, StoreFollowUp(a) PROVE RowsInv'
<1> DEFINE Linked(r) == [r EXCEPT !.link = asker[a].id]
<1>0. PICK f : f = [r \in tagRows |-> IF r.id = asker[a].row THEN Linked(r) ELSE r]
  OBVIOUS
<1>1. asker[a] \in AskerRow /\ asker[a].at = "insert" /\ AskerFits(a) /\ tagRows \in SUBSET TagRow
       /\ asks \in Nat /\ made \in Seq([id : Nat, tag : FollowTags])
  BY DEF RowsInv, RowsStored, StoreFollowUp
<1>2. NotAsking \in AskerRow /\ NotAsking.at = "idle"
  BY DEF NotAsking, AskerRow, FollowTags
<1>3. asker' = [asker EXCEPT ![a] = NotAsking] /\ asker'[a] = NotAsking
  BY DEF StoreFollowUp, Stops, RowsInv
<1>4. UNCHANGED <<answerKept, evaluated>> /\ asks' \in Nat
  BY <1>1 DEF StoreFollowUp
<1>5. AskerFits(a)'
  BY <1>2, <1>3 DEF AskerFits
<1>6. CASE UNCHANGED <<shown, made, tagRows>>
  <2>1. MadeGrows /\ UNCHANGED tagRows
    BY <1>6, NoneMade
  <2>2. QED
    BY <1>2, <1>3, <1>4, <1>5, <2>1, RowsRead
<1>7. CASE ~UNCHANGED <<shown, made, tagRows>>
  <2> PICK n \in Nat, tag \in FollowTags, last \in Nat : n = asker[a].id /\ tag = asker[a].tag /\ last = Len(made) + 1
    BY <1>1 DEF AskerRow
  <2>1. /\ answerKept /\ Row(a) # {} /\ made' = Append(made, [id |-> n, tag |-> tag])
        /\ tagRows' = (tagRows \ Row(a)) \cup { Linked(r) : r \in Row(a) }
    BY <1>7 DEF StoreFollowUp
  <2>2. n \in Nat /\ tag \in FollowTags
    OBVIOUS
  <2>3. \A r \in tagRows : r.id = asker[a].row => r.tag = tag /\ r.picked /\ r.used
    BY <1>1 DEF AskerFits
  <2>4. ASSUME NEW r \in tagRows
        PROVE  /\ f[r] \in TagRow /\ f[r].id = r.id /\ f[r].tag = r.tag /\ f[r].rank = r.rank
               /\ (r.picked => f[r].picked) /\ (r.used => f[r].used)
               /\ (r.id = asker[a].row => f[r].link = n) /\ (r.id # asker[a].row => f[r] = r)
    <3>1. r \in TagRow
      BY <1>1
    <3>2. CASE r.id = asker[a].row
      <4>1. f[r] = Linked(r)
        BY <1>0, <3>2
      <4>2. Linked(r) \in TagRow /\ Linked(r).id = r.id /\ Linked(r).tag = r.tag /\ Linked(r).rank = r.rank
            /\ Linked(r).link = n
        BY <2>2, <3>1 DEF TagRow
      <4>3. Linked(r).picked = r.picked /\ Linked(r).used = r.used
        BY <3>1 DEF TagRow
      <4> HIDE DEF Linked
      <4>4. QED
        BY <3>2, <4>1, <4>2, <4>3, Zenon
    <3>3. CASE r.id # asker[a].row
      <4>1. f[r] = r
        BY <1>0, <3>3
      <4>2. QED
        BY <3>1, <3>3, <4>1, Zenon
    <3>4. QED
      BY <3>2, <3>3
  <2>5. tagRows' = { f[r] : r \in tagRows }
    BY <1>0, <2>1 DEF Row
  <2>6. f \in [tagRows -> TagRow]
    BY <1>0, <2>4
  <2>7. /\ made' \in Seq([id : Nat, tag : FollowTags])
        /\ Len(made) \in Nat /\ DOMAIN made = 1 .. Len(made) /\ DOMAIN made' = 1 .. last
        /\ made'[last].id = n /\ made'[last].tag = tag
        /\ \A i \in DOMAIN made : i \in DOMAIN made' /\ made'[i] = made[i]
    BY <1>1, <2>1, <2>2, OneMoreMade
  <2>8. last \in Told(tag)' /\ \A t, i : i \in Told(t) => i \in Told(t)' /\ made'[i] = made[i]
    BY <2>7 DEF Told
  <2>9. ASSUME NEW s \in tagRows' PROVE LinkLeads(s)'
    <3>1. PICK r \in tagRows : s = f[r]
      BY <2>5
    <3>2. CASE r.id = asker[a].row
      <4>1. s.tag = tag /\ s.link = n /\ s.picked /\ s.used
        BY <2>3, <2>4, <3>1, <3>2
      <4>2. last \in Told(s.tag)' /\ made'[last].id = s.link
        BY <2>7, <2>8, <4>1
      <4>3. QED
        BY <4>1, <4>2 DEF LinkLeads
    <3>3. CASE r.id # asker[a].row
      <4>1. s = r /\ LinkLeads(s)
        BY <2>4, <3>1, <3>3 DEF RowsInv
      <4>2. QED
        BY <2>8, <4>1 DEF LinkLeads
    <3>4. QED
      BY <3>2, <3>3
  <2>10. ASSUME NEW t \in FollowTags \ {NoWeakness} PROVE LatestLinked(t)'
    <3>1. ASSUME NEW i \in Told(t)', \A j \in Told(t)' : j <= i
          PROVE  \E s \in RowsOf(t)' : s.link = made'[i].id
      <4>1. CASE t = tag
        <5>1. i = last
          BY <2>7, <2>8, <3>1, <4>1 DEF Told
        <5>2. PICK r \in tagRows : r.id = asker[a].row
          BY <2>1 DEF Row
        <5>3. f[r] \in RowsOf(t)' /\ f[r].link = n
          BY <2>3, <2>4, <2>5, <4>1, <5>2 DEF RowsOf
        <5>4. QED
          BY <2>7, <5>1, <5>3
      <4>2. CASE t # tag
        <5>1. i \in Told(t)
          BY <2>7, <4>2 DEF Told
        <5>2. \A j \in Told(t) : j <= i
          BY <2>8, <3>1
        <5>3. PICK r \in RowsOf(t) : r.link = made[i].id
          BY <2>1, <5>1, <5>2 DEF RowsInv, LatestLinked
        <5>4. r \in tagRows /\ r.tag = t /\ r.id # asker[a].row
          BY <2>3, <4>2 DEF RowsOf
        <5>5. r \in RowsOf(t)'
          BY <2>4, <2>5, <5>4 DEF RowsOf
        <5>6. QED
          BY <2>8, <5>1, <5>3, <5>5
      <4>3. QED
        BY <4>1, <4>2
    <3>2. QED
      BY <3>1 DEF LatestLinked
  <2>11. NotAsking.at \notin {"rank", "create"}
    BY <1>2
  <2>12. QED
    BY <1>2, <1>3, <1>4, <1>5, <2>4, <2>5, <2>6, <2>7, <2>9, <2>10, <2>11, RowsWritten
<1>8. QED
  BY <1>6, <1>7

-----------------------------------------------------------------------------
(* New rows *)

\* New rows, behind the others, leave the links and the other requests alone.
LEMMA RowsAdded ==
  ASSUME RowsInv, answerKept, UNCHANGED <<answerKept, made>>,
         NEW more \in SUBSET TagRow, tagRows' = tagRows \cup more,
         NEW next \in Nat \ {0}, next = NextId, NEW k \in Nat,
         { r.id : r \in more } = next .. next + k - 1,
         \A r, s \in more : r.id = s.id => r = s,
         NEW m \in Nat, \A r \in more : r.rank \in 1 .. m /\ r.link = 0
  PROVE  /\ tagRows' \in SUBSET TagRow
         /\ \E n \in Nat : { r.id : r \in tagRows' } = 1 .. n
         /\ \E n \in Nat : \A r \in tagRows' : r.rank \in 1 .. n
         /\ \A r, s \in tagRows' : r.id = s.id => r = s
         /\ \A r \in tagRows' : LinkLeads(r)'
         /\ \A tag \in FollowTags \ {NoWeakness} : LatestLinked(tag)'
         /\ \A b \in Asker : asker'[b] = asker[b] => AskerFits(b)'
<1>1. RowsStored /\ tagRows \in SUBSET TagRow /\ \A r, s \in tagRows : r.id = s.id => r = s
  BY DEF RowsInv, RowsStored
<1>2. { r.id : r \in tagRows } = 1 .. next - 1
  BY <1>1, RowsNumbered
<1>3. \A r \in tagRows : r.id \in 1 .. next - 1
  BY <1>2
<1>4. \A r \in more : r.id \in next .. next + k - 1
  OBVIOUS
<1>5. { r.id : r \in tagRows' } = 1 .. next + k - 1
  <2>1. { r.id : r \in tagRows' } = { r.id : r \in tagRows } \cup { r.id : r \in more }
    OBVIOUS
  <2>2. (1 .. next - 1) \cup (next .. next + k - 1) = 1 .. next + k - 1
    OBVIOUS
  <2>3. QED
    BY <1>2, <2>1, <2>2
<1>6. next + k - 1 \in Nat
  OBVIOUS
<1>7. \A r, s \in tagRows' : r.id = s.id => r = s
  BY <1>1, <1>3, <1>4
<1>8. \E n \in Nat : \A r \in tagRows' : r.rank \in 1 .. n
  <2>1. PICK n \in Nat : \A r \in tagRows : r.rank \in 1 .. n
    BY <1>1 DEF RowsStored
  <2>2. n + m \in Nat /\ \A r \in tagRows' : r.rank \in 1 .. n + m
    BY <2>1
  <2>3. QED
    BY <2>2
<1>9. ASSUME NEW r \in tagRows' PROVE LinkLeads(r)'
  <2>1. CASE r \in tagRows
    BY <2>1 DEF RowsInv, LinkLeads, Told
  <2>2. CASE r \in more
    BY <2>2 DEF LinkLeads
  <2>3. QED
    BY <2>1, <2>2
<1>10. ASSUME NEW tag \in FollowTags \ {NoWeakness} PROVE LatestLinked(tag)'
  <2>1. LatestLinked(tag) /\ Told(tag)' = Told(tag) /\ made' = made /\ RowsOf(tag) \subseteq RowsOf(tag)'
    BY DEF RowsInv, Told, RowsOf
  <2>2. QED
    BY <2>1 DEF LatestLinked
<1>11. ASSUME NEW b \in Asker, asker'[b] = asker[b] PROVE AskerFits(b)'
  <2>1. AskerFits(b) /\ answerKept' => answerKept
    BY DEF RowsInv
  <2>2. answerKept' => \A r \in tagRows : \E s \in tagRows' : s.id = r.id
    OBVIOUS
  <2>3. asker[b].at \in {"flag", "generate", "insert"} =>
          \A s \in tagRows' : s.id = asker[b].row =>
            \E r \in tagRows : r.id = s.id /\ r.tag = s.tag /\ (r.picked /\ r.used => s.picked /\ s.used)
    <3> SUFFICES ASSUME asker[b].at \in {"flag", "generate", "insert"}, NEW s \in tagRows', s.id = asker[b].row
                 PROVE  s \in tagRows
      BY Zenon
    <3>1. PICK r \in tagRows : r.id = asker[b].row
      BY DEF RowsInv, AskerFits
    <3>2. s.id \in 1 .. next - 1
      BY <1>3, <3>1
    <3>3. QED
      BY <1>4, <3>2
  <2>4. AskerFits(b)
    BY DEF RowsInv
  <2>5. QED
    BY <1>11, <2>2, <2>3, <2>4, AskerKept
<1>12. QED
  BY <1>1, <1>5, <1>6, <1>7, <1>8, <1>9, <1>10, <1>11

\* A request leaves those that will make a row as its row joins the others.
LEMMA CreateRowStep == ASSUME RowsInv, NEW a \in Asker, CreateRow(a) PROVE RowsInv'
<1>1. asker[a] \in AskerRow /\ asker[a].at = "create" /\ asker[a].rank # 0 /\ asks \in Nat /\ RowsStored
  BY DEF RowsInv, CreateRow, AskerFits
<1>2. UNCHANGED <<answerKept, evaluated, made>> /\ asks' \in Nat
  BY <1>1 DEF CreateRow
<1>3. CASE ~answerKept
  <2>1. NotAsking \in AskerRow /\ NotAsking.at = "idle"
    BY DEF NotAsking, AskerRow, FollowTags
  <2>2. asker' = [asker EXCEPT ![a] = NotAsking] /\ asker'[a] = NotAsking /\ UNCHANGED tagRows
    BY <1>3 DEF CreateRow, Stops, RowsInv
  <2>3. AskerFits(a)'
    BY <2>1, <2>2 DEF AskerFits
  <2>4. MadeGrows
    BY <1>2, NoneMade
  <2>5. QED
    BY <1>2, <2>1, <2>2, <2>3, <2>4, RowsRead
<1>4. CASE answerKept
  <2>1. PICK next \in Nat \ {0} : next = NextId
    BY <1>1, RowsNumbered
  <2>2. PICK tag \in FollowTags, rank \in Nat \ {0} : tag = asker[a].tag /\ rank = asker[a].rank
    BY <1>1 DEF AskerRow
  <2>3. PICK row : row = [id |-> next, tag |-> tag, rank |-> rank, picked |-> TRUE, used |-> TRUE, link |-> 0]
    OBVIOUS
  <2>4. row \in TagRow /\ row.id = next /\ row.tag = tag /\ row.rank = rank /\ row.link = 0
    BY <2>3 DEF TagRow, RowTags
  <2>5. row.picked /\ row.used
    BY <2>3
  <2>6. tagRows' = tagRows \cup {row}
    BY <1>4, <2>1, <2>2, <2>3 DEF CreateRow
  <2> DEFINE new == [asker[a] EXCEPT !.at = "generate", !.row = next]
  <2>7. new \in AskerRow /\ new.at = "generate" /\ new.row = next /\ new.tag = tag
    BY <1>1, <2>2 DEF AskerRow
  <2>8. asker' = [asker EXCEPT ![a] = new]
    BY <1>4, <2>1 DEF CreateRow
  <2> HIDE DEF new
  <2>9. asker' \in [Asker -> AskerRow] /\ asker'[a] = new /\ \A b \in Asker \ {a} : asker'[b] = asker[b]
    BY <2>7, <2>8 DEF RowsInv
  <2>10. { r.id : r \in {row} } = next .. next + 1 - 1
    BY <2>4
  <2>11. /\ tagRows' \in SUBSET TagRow
         /\ \E n \in Nat : { r.id : r \in tagRows' } = 1 .. n
         /\ \E n \in Nat : \A r \in tagRows' : r.rank \in 1 .. n
         /\ \A r, s \in tagRows' : r.id = s.id => r = s
         /\ \A r \in tagRows' : LinkLeads(r)'
         /\ \A t \in FollowTags \ {NoWeakness} : LatestLinked(t)'
         /\ \A b \in Asker : asker'[b] = asker[b] => AskerFits(b)'
    <3>1. {row} \in SUBSET TagRow /\ \A r, s \in {row} : r.id = s.id => r = s
      BY <2>4
    <3>2. \A r \in {row} : r.rank \in 1 .. rank /\ r.link = 0
      BY <2>4
    <3>3. rank \in Nat /\ 1 \in Nat
      OBVIOUS
    <3>4. QED
      BY <1>2, <1>4, <2>1, <2>6, <2>10, <3>1, <3>2, <3>3, RowsAdded
  <2>12. RowsStored'
    <3>1. evaluated.found \in Seq(STRING) /\ evaluated' = evaluated
      BY <1>1, <1>2 DEF RowsStored
    <3>2. \A i \in DOMAIN evaluated.found : \E r \in tagRows' :
            r.tag = evaluated.found[i] /\ r.rank = i /\ (r.tag = evaluated.picked => r.picked)
      <4> SUFFICES ASSUME NEW i \in DOMAIN evaluated.found
                   PROVE  \E r \in tagRows' :
                            r.tag = evaluated.found[i] /\ r.rank = i /\ (r.tag = evaluated.picked => r.picked)
        OBVIOUS
      <4>1. PICK r \in tagRows :
              r.tag = evaluated.found[i] /\ r.rank = i /\ (r.tag = evaluated.picked => r.picked)
        BY <1>1 DEF RowsStored
      <4>2. r \in tagRows'
        BY <2>6
      <4>3. QED
        BY <4>1, <4>2
    <3>3. evaluated.first /\ evaluated.found # <<>> =>
            \E r \in tagRows' : r.id = 1 /\ r.rank = 1 /\ r.tag = evaluated.found[1]
      <4>1. evaluated.first /\ evaluated.found # <<>> =>
              \E r \in tagRows : r.id = 1 /\ r.rank = 1 /\ r.tag = evaluated.found[1]
        BY <1>1 DEF RowsStored
      <4>2. QED
        BY <2>6, <4>1, Zenon
    <3>4. PICK those : those = tagRows'
      OBVIOUS
    <3>5. { r.id : r \in tagRows }' = { r.id : r \in those }
      BY <3>4
    <3>6. QED
      BY <2>11, <3>1, <3>2, <3>3, <3>4, <3>5 DEF RowsStored
  <2>13. ASSUME NEW b \in Asker PROVE AskerFits(b)'
    <3>1. CASE b = a
      <4>1. \E r \in tagRows' : r.id = next
        BY <2>4, <2>6
      <4>2. \A r \in tagRows' : r.id = next => r = row
        BY <2>4, <2>6, <2>11
      <4>3. QED
        BY <2>4, <2>5, <2>7, <2>9, <3>1, <4>1, <4>2 DEF AskerFits
    <3>2. CASE b # a
      BY <2>9, <2>11, <3>2
    <3>3. QED
      BY <3>1, <3>2
  <2>14. ASSUME NEW t \in RowTags PROVE CountFits(t)'
    <3>1. CountFits(t) /\ FoundTimes(t)' = FoundTimes(t) /\ FoundTimes(t) \in Nat
      BY <1>1, <1>2, TimesCounted DEF RowsInv, FoundTimes
    <3>2. CASE t = tag
      <4>1. PICK I, M : I = IdsOf(t) /\ M = Making(t)
        OBVIOUS
      <4>2. IsFiniteSet(I) /\ Cardinality(I) \in Nat /\ IsFiniteSet(M) /\ Cardinality(M) \in Nat
            /\ Cardinality(Asker) \in Nat
        BY <1>1, <4>1, IdsCounted, AskersCounted
      <4>3. IdsOf(t)' = I \cup {next}
        <5>1. RowsOf(t)' = RowsOf(t) \cup {row}
          BY <2>4, <2>6, <3>2 DEF RowsOf
        <5>2. IdsOf(t)' = { r.id : r \in RowsOf(t) \cup {row} }
          BY <5>1 DEF IdsOf
        <5>3. QED
          BY <2>4, <4>1, <5>2 DEF IdsOf
      <4>4. a \in M /\ Making(t)' = M \ {a}
        BY <1>1, <2>2, <2>7, <2>9, <3>2, <4>1 DEF Making
      <4>5. Cardinality(I \cup {next}) \in Nat /\ Cardinality(I \cup {next}) <= Cardinality(I) + 1
        <5>1. IsFiniteSet(I)
          BY <4>2
        <5>2. Cardinality(I \cup {next}) = IF next \in I THEN Cardinality(I) ELSE Cardinality(I) + 1
          BY <5>1, FS_AddElement, Zenon
        <5>3. QED
          BY <4>2, <5>2
      <4>6. Cardinality(M \ {a}) = Cardinality(M) - 1
        BY <4>2, <4>4, FS_RemoveElement
      <4>7. Cardinality(IdsOf(t)') <= Cardinality(I) + 1 /\ Cardinality(IdsOf(t)') \in Nat
            /\ Cardinality(Making(t)') = Cardinality(M) - 1
        BY <4>3, <4>4, <4>5, <4>6
      <4>8. Cardinality(I) + Cardinality(M) <= FoundTimes(t) + Cardinality(Asker)
        BY <3>1, <4>1 DEF CountFits
      <4>9. QED
        BY <3>1, <4>2, <4>7, <4>8 DEF CountFits
    <3>3. CASE t # tag
      <4>1. IdsOf(t)' = IdsOf(t)
        BY <2>4, <2>6, <3>3 DEF IdsOf, RowsOf
      <4>2. Making(t)' \in SUBSET Making(t)
        BY <2>7, <2>9 DEF Making
      <4>3. QED
        BY <1>1, <1>2, <3>1, <4>1, <4>2, CountKept
    <3>4. QED
      BY <3>2, <3>3
  <2>15. made' \in Seq([id : Nat, tag : FollowTags]) /\ answerKept'
    BY <1>2, <1>4 DEF RowsInv
  <2>16. QED
    BY <1>2, <2>9, <2>11, <2>12, <2>13, <2>14, <2>15 DEF RowsInv
<1>5. QED
  BY <1>3, <1>4

\* The evaluation adds as many rows of a weakness as it has found it.
LEMMA EvaluateStep == ASSUME RowsInv, NEW v \in Verdicts, Evaluate(v) PROVE RowsInv'
<1>1. answerKept /\ evaluated = NotEvaluated /\ UNCHANGED <<answerKept, shown, made, asker, asks>>
       /\ RowsStored
  BY DEF Evaluate, RowsInv
<1>2. PICK listed : listed = v.found
  OBVIOUS
<1>3. listed \in Seq(STRING)
  BY <1>2, RowsAssumption
<1>4. PICK k \in Nat : k = Len(listed) /\ DOMAIN listed = 1 .. k /\ \A i \in 1 .. k : listed[i] \in STRING
  BY <1>3, LenProperties
<1>5. PICK next \in Nat \ {0} : next = NextId
  BY <1>1, RowsNumbered
<1>6. PICK new : new = [i \in 1 .. k |->
         [id |-> next + i - 1, tag |-> listed[i], rank |-> i, picked |-> listed[i] = v.picked,
          used |-> FALSE, link |-> 0]]
  OBVIOUS
<1>7. ASSUME NEW i \in 1 .. k
      PROVE  /\ new[i] \in TagRow /\ new[i].id = next + i - 1 /\ new[i].tag = listed[i] /\ new[i].rank = i
             /\ (new[i].picked <=> listed[i] = v.picked) /\ new[i].link = 0
  <2>1. PICK id \in Nat, tag \in RowTags : id = next + i - 1 /\ tag = listed[i]
    BY <1>4 DEF RowTags
  <2>2. new[i] = [id |-> id, tag |-> tag, rank |-> i, picked |-> listed[i] = v.picked,
                  used |-> FALSE, link |-> 0] /\ i \in Nat
    <3>1. new[i] = [id |-> next + i - 1, tag |-> listed[i], rank |-> i, picked |-> listed[i] = v.picked,
                    used |-> FALSE, link |-> 0]
      BY <1>6, Zenon
    <3>2. i \in Nat
      OBVIOUS
    <3>3. QED
      BY <2>1, <3>1, <3>2, Zenon
  <2>3. CASE listed[i] = v.picked
    <3>1. new[i] = [id |-> id, tag |-> tag, rank |-> i, picked |-> TRUE, used |-> FALSE, link |-> 0]
      BY <2>2, <2>3
    <3>2. new[i] \in TagRow
      BY <2>2, <3>1 DEF TagRow
    <3>3. new[i].picked = TRUE
      BY <3>1
    <3>4. QED
      BY <2>1, <2>2, <2>3, <3>2, <3>3
  <2>4. CASE listed[i] # v.picked
    <3>1. new[i] = [id |-> id, tag |-> tag, rank |-> i, picked |-> FALSE, used |-> FALSE, link |-> 0]
      BY <2>2, <2>4
    <3>2. new[i] \in TagRow
      BY <2>2, <3>1 DEF TagRow
    <3>3. new[i].picked = FALSE
      BY <3>1
    <3>4. QED
      BY <2>1, <2>2, <2>4, <3>2, <3>3
  <2>5. QED
    BY <2>3, <2>4
<1>8. PICK more : more = { new[i] : i \in 1 .. k }
  OBVIOUS
<1>9. tagRows' = tagRows \cup more
  <2>1. { [id |-> NextId + i - 1, tag |-> v.found[i], rank |-> i, picked |-> v.found[i] = v.picked,
          used |-> FALSE, link |-> 0] : i \in DOMAIN v.found } = more
    BY <1>2, <1>4, <1>5, <1>6, <1>8
  <2>2. QED
    BY <2>1 DEF Evaluate
<1>10. { r.id : r \in more } = next .. next + k - 1
  <2>1. \A r \in more : r.id \in next .. next + k - 1
    BY <1>7, <1>8
  <2>2. ASSUME NEW n \in next .. next + k - 1 PROVE \E r \in more : r.id = n
    <3>1. n - next + 1 \in 1 .. k
      OBVIOUS
    <3>2. PICK i \in 1 .. k : i = n - next + 1
      BY <3>1
    <3>3. new[i] \in more /\ new[i].id = n
      BY <1>7, <1>8, <3>2
    <3>4. QED
      BY <3>3
  <2>3. QED
    BY <2>1, <2>2
<1>11. \A r, s \in more : r.id = s.id => r = s
  BY <1>7, <1>8
<1>12. more \in SUBSET TagRow /\ \A r \in more : r.rank \in 1 .. k /\ r.link = 0
  BY <1>7, <1>8
<1>13. /\ tagRows' \in SUBSET TagRow
       /\ \E n \in Nat : { r.id : r \in tagRows' } = 1 .. n
       /\ \E n \in Nat : \A r \in tagRows' : r.rank \in 1 .. n
       /\ \A r, s \in tagRows' : r.id = s.id => r = s
       /\ \A r \in tagRows' : LinkLeads(r)'
       /\ \A t \in FollowTags \ {NoWeakness} : LatestLinked(t)'
       /\ \A b \in Asker : asker'[b] = asker[b] => AskerFits(b)'
  BY <1>1, <1>5, <1>9, <1>10, <1>11, <1>12, RowsAdded
<1>14. evaluated'.found = listed /\ evaluated'.picked = v.picked /\ (evaluated'.first <=> tagRows = {})
  BY <1>2 DEF Evaluate
<1>15. RowsStored'
  <2>1. \A i \in DOMAIN listed : \E r \in tagRows' :
          r.tag = listed[i] /\ r.rank = i /\ (r.tag = v.picked => r.picked)
    <3> SUFFICES ASSUME NEW i \in 1 .. k
                 PROVE  \E r \in tagRows' : r.tag = listed[i] /\ r.rank = i /\ (r.tag = v.picked => r.picked)
      BY <1>4
    <3>1. new[i] \in tagRows' /\ new[i].tag = listed[i] /\ new[i].rank = i /\ (new[i].tag = v.picked => new[i].picked)
      BY <1>7, <1>8, <1>9
    <3>2. QED
      BY <3>1
  <2>2. tagRows = {} /\ listed # <<>> => \E r \in tagRows' : r.id = 1 /\ r.rank = 1 /\ r.tag = listed[1]
    <3> SUFFICES ASSUME tagRows = {}, listed # <<>>
                 PROVE  \E r \in tagRows' : r.id = 1 /\ r.rank = 1 /\ r.tag = listed[1]
      OBVIOUS
    <3>1. next = 1
      BY <1>5 DEF NextId
    <3>2. 1 \in 1 .. k
      BY <1>3, <1>4, EmptySeq
    <3>3. new[1] \in tagRows' /\ new[1].id = 1 /\ new[1].rank = 1 /\ new[1].tag = listed[1]
      BY <1>7, <1>8, <1>9, <3>1, <3>2
    <3>4. QED
      BY <3>3
  <2>3. PICK those : those = tagRows'
    OBVIOUS
  <2>4. { r.id : r \in tagRows }' = { r.id : r \in those }
    BY <2>3
  <2>5. QED
    BY <1>3, <1>13, <1>14, <2>1, <2>2, <2>3, <2>4 DEF RowsStored
<1>16. ASSUME NEW t \in RowTags PROVE CountFits(t)'
  <2>1. PICK I, D : I = IdsOf(t) /\ D = { i \in 1 .. k : listed[i] = t }
    OBVIOUS
  <2>2. PICK J : J = { new[i].id : i \in D }
    OBVIOUS
  <2>3. IdsOf(t)' = I \cup J
    <3>1. ASSUME NEW n \in IdsOf(t)' PROVE n \in I \cup J
      <4>1. PICK r \in tagRows' : r.id = n /\ r.tag = t
        BY DEF IdsOf, RowsOf
      <4>2. CASE r \in tagRows
        BY <2>1, <4>1, <4>2 DEF IdsOf, RowsOf
      <4>3. CASE r \in more
        BY <1>7, <1>8, <2>1, <2>2, <4>1, <4>3
      <4>4. QED
        BY <1>9, <4>2, <4>3
    <3>2. ASSUME NEW n \in I PROVE n \in IdsOf(t)'
      BY <1>9, <2>1 DEF IdsOf, RowsOf
    <3>3. ASSUME NEW n \in J PROVE n \in IdsOf(t)'
      <4>1. PICK i \in D : n = new[i].id
        BY <2>2
      <4>2. new[i] \in tagRows' /\ new[i].tag = t
        BY <1>7, <1>8, <1>9, <2>1
      <4>3. QED
        BY <4>1, <4>2 DEF IdsOf, RowsOf
    <3>4. QED
      BY <3>1, <3>2, <3>3
  <2>4. IsFiniteSet(I) /\ Cardinality(I) \in Nat /\ Cardinality(Making(t)) \in Nat /\ Cardinality(Asker) \in Nat
    BY <1>1, <2>1, IdsCounted, AskersCounted
  <2>5. IsFiniteSet(D) /\ Cardinality(D) \in Nat
    <3>1. D \in SUBSET Nat /\ \A d \in D : d <= k
      BY <2>1
    <3>2. QED
      BY <3>1, FS_BoundedSetOfNaturals, FS_CardinalityType
  <2>6. IsFiniteSet(J) /\ Cardinality(J) <= Cardinality(D) /\ Cardinality(J) \in Nat
    <3>1. PICK g : g = [i \in D |-> new[i].id]
      OBVIOUS
    <3>2. g \in Surjection(D, J)
      BY <2>2, <3>1 DEF Surjection
    <3>3. QED
      BY <2>5, <3>2, FS_Surjection, FS_CardinalityType
  <2>7. Cardinality(I \cup J) \in Nat /\ Cardinality(I \cup J) <= Cardinality(I) + Cardinality(J)
    <3>1. IsFiniteSet(I \cup J) /\ Cardinality(I \cup J) = Cardinality(I) + Cardinality(J) - Cardinality(I \cap J)
      BY <2>4, <2>6, FS_Union
    <3>2. PICK both : both = I \cap J
      OBVIOUS
    <3>3. Cardinality(both) \in Nat
      BY <2>4, <3>2, FS_Subset, FS_CardinalityType
    <3>4. Cardinality(I \cup J) \in Nat
      BY <3>1, FS_CardinalityType
    <3>5. QED
      BY <2>4, <2>6, <3>1, <3>2, <3>3, <3>4
  <2>8. FoundTimes(t) = 0
    <3>1. { i \in DOMAIN evaluated.found : evaluated.found[i] = t } = {}
      BY <1>1 DEF NotEvaluated
    <3>2. QED
      BY <3>1, FS_EmptySet DEF FoundTimes
  <2>9. FoundTimes(t)' = Cardinality(D)
    <3>1. { i \in DOMAIN evaluated.found : evaluated.found[i] = t }' = D
      BY <1>4, <1>14, <2>1
    <3>2. QED
      BY <3>1 DEF FoundTimes
  <2>10. Making(t)' = Making(t)
    BY <1>1 DEF Making
  <2>11. Cardinality(I) + Cardinality(Making(t)) <= Cardinality(Asker)
    BY <2>1, <2>4, <2>8 DEF RowsInv, CountFits
  <2>12. Cardinality(IdsOf(t)') = Cardinality(I \cup J) /\ Cardinality(Making(t)') = Cardinality(Making(t))
    BY <2>3, <2>10
  <2>13. QED
    BY <2>4, <2>5, <2>6, <2>7, <2>9, <2>11, <2>12 DEF CountFits
<1>17. \A b \in Asker : AskerFits(b)'
  BY <1>1, <1>13
<1>18. made' \in Seq([id : Nat, tag : FollowTags]) /\ asker' \in [Asker -> AskerRow] /\ asks' \in Nat /\ answerKept'
  BY <1>1 DEF RowsInv
<1>19. QED
  BY <1>13, <1>15, <1>16, <1>17, <1>18 DEF RowsInv

-----------------------------------------------------------------------------
(* What the readers are told *)

\* Every step keeps the invariant.
LEMMA RowsStep == ASSUME RowsInv, [RowsNext]_rowVars PROVE RowsInv'
<1>1. ASSUME NEW a \in Asker, NEW name \in Names, NEW anew \in BOOLEAN, AskFor(a, name, anew) PROVE RowsInv'
  BY <1>1, AskForStep
<1>2. ASSUME NEW a \in Asker, Confirm(a) PROVE RowsInv'
  BY <1>2, ConfirmStep
<1>3. ASSUME NEW a \in Asker, FindRow(a) PROVE RowsInv'
  BY <1>3, FindRowStep
<1>4. ASSUME NEW a \in Asker, FlagRow(a) PROVE RowsInv'
  BY <1>4, FlagRowStep
<1>5. ASSUME NEW a \in Asker, RankRow(a) PROVE RowsInv'
  BY <1>5, RankRowStep
<1>6. ASSUME NEW a \in Asker, CreateRow(a) PROVE RowsInv'
  BY <1>6, CreateRowStep
<1>7. ASSUME NEW a \in Asker, AskForQuestion(a) PROVE RowsInv'
  BY <1>7, AskForQuestionStep
<1>8. ASSUME NEW a \in Asker, StoreFollowUp(a) PROVE RowsInv'
  BY <1>8, StoreFollowUpStep
<1>9. ASSUME NEW v \in Verdicts, Evaluate(v) PROVE RowsInv'
  BY <1>9, EvaluateStep
<1>10. ASSUME RemoveAnswer PROVE RowsInv'
  BY <1>10, RemoveAnswerStep
<1>11. CASE UNCHANGED rowVars
  <2>1. UNCHANGED <<answerKept, tagRows, evaluated, made, asker, asks>>
    BY <1>11 DEF rowVars
  <2>2. RowsStored' /\ (\A a \in Asker : AskerFits(a)')
    BY <2>1 DEF RowsInv, RowsStored, AskerFits
  <2>3. \A tag \in RowTags : CountFits(tag)'
    BY <2>1 DEF RowsInv, CountFits, IdsOf, RowsOf, Making, FoundTimes
  <2>4. \A r \in tagRows' : LinkLeads(r)'
    BY <2>1 DEF RowsInv, LinkLeads, Told
  <2>5. answerKept' => \A tag \in FollowTags \ {NoWeakness} : LatestLinked(tag)'
    BY <2>1 DEF RowsInv, LatestLinked, RowsOf, Told
  <2>6. QED
    BY <2>1, <2>2, <2>3, <2>4, <2>5 DEF RowsInv
<1>12. QED
  BY <1>1, <1>2, <1>3, <1>4, <1>5, <1>6, <1>7, <1>8, <1>9, <1>10, <1>11 DEF RowsNext

\* Each row has its own number, so the rows of a weakness are no more than their numbers.
LEMMA RowsHaveIds ==
  ASSUME RowsStored, NEW tag
  PROVE  TagCount(tag) \in Nat /\ TagCount(tag) <= Cardinality(IdsOf(tag))
<1>1. PICK R, I, g : R = RowsOf(tag) /\ I = IdsOf(tag) /\ g = [r \in R |-> r.id]
  OBVIOUS
<1>2. \A r, s \in R : r.id = s.id => r = s
  BY <1>1 DEF RowsStored, RowsOf
<1>3. g \in [R -> I] /\ \A r, s \in R : g[r] = g[s] => r = s
  BY <1>1, <1>2 DEF IdsOf
<1>4. g \in Injection(R, I)
  BY <1>3 DEF Injection, IsInjective
<1>5. IsFiniteSet(I)
  BY <1>1, IdsCounted
<1>6. IsFiniteSet(R) /\ Cardinality(R) <= Cardinality(I)
  BY <1>4, <1>5, FS_Injection
<1>7. Cardinality(R) \in Nat
  BY <1>6, FS_CardinalityType
<1>8. QED
  BY <1>1, <1>6, <1>7 DEF TagCount

\* The invariant says what the readers rely on.
LEMMA RowsTell == ASSUME RowsInv PROVE RowsTellFollowups
<1>1. RowsStored
  BY DEF RowsInv
<1>2. LinksTell
  <2>1. ASSUME NEW i \in DOMAIN made, answerKept,
               made[i].tag # NoWeakness, \A j \in Told(made[i].tag) : j <= i
        PROVE  \E r \in RowsOf(made[i].tag) : r.link = made[i].id
    <3>1. made[i].tag \in FollowTags \ {NoWeakness}
      <4>1. made \in Seq([id : Nat, tag : FollowTags])
        BY DEF RowsInv
      <4>2. made[i] \in [id : Nat, tag : FollowTags]
        BY <4>1, LenProperties, ElementOfSeq
      <4>3. QED
        BY <2>1, <4>2
    <3>2. LatestLinked(made[i].tag)
      BY <2>1, <3>1 DEF RowsInv
    <3>3. i \in Told(made[i].tag)
      BY DEF Told
    <3>4. QED
      BY <2>1, <3>2, <3>3 DEF LatestLinked
  <2>2. \A r \in tagRows : LinkLeads(r)
    BY DEF RowsInv
  <2>3. QED
    BY <2>1, <2>2 DEF LinksTell, LinkLeads
<1>3. ASSUME NEW r \in tagRows PROVE TagCount(r.tag) <= FoundTimes(r.tag) + Cardinality(Asker)
  <2>1. PICK tag \in RowTags : tag = r.tag
    BY <1>1 DEF RowsStored, TagRow
  <2>2. CountFits(tag)
    BY DEF RowsInv
  <2>3. TagCount(tag) \in Nat /\ TagCount(tag) <= Cardinality(IdsOf(tag))
    BY <1>1, RowsHaveIds
  <2>4. Cardinality(IdsOf(tag)) \in Nat /\ FoundTimes(tag) \in Nat
    BY <1>1, IdsCounted, TimesCounted
  <2>5. Cardinality(Making(tag)) \in Nat /\ Cardinality(Asker) \in Nat
    BY AskersCounted
  <2>6. QED
    BY <2>1, <2>2, <2>3, <2>4, <2>5 DEF CountFits
<1>4. ASSUME evaluated.first, evaluated.found # <<>> PROVE Advised = evaluated.found[1]
  <2>1. PICK w \in tagRows : w.id = 1 /\ w.rank = 1 /\ w.tag = evaluated.found[1]
    BY <1>1, <1>4 DEF RowsStored
  <2>2. PICK r : r = FirstRow(tagRows)
    OBVIOUS
  <2>3. r \in tagRows /\ (r.rank < w.rank \/ (r.rank = w.rank /\ r.id <= w.id))
    BY <1>1, <2>1, <2>2, FirstRowFound
  <2>4. r.id \in Nat /\ r.rank \in Nat \ {0}
    BY <1>1, <2>3 DEF RowsStored, TagRow
  <2>5. r.id # 0
    <3>1. PICK n \in Nat : { s.id : s \in tagRows } = 1 .. n
      BY <1>1 DEF RowsStored
    <3>2. r.id \in 1 .. n
      BY <2>3, <3>1
    <3>3. QED
      BY <3>2
  <2>6. r.id = w.id
    BY <2>1, <2>3, <2>4, <2>5
  <2>7. r = w
    BY <1>1, <2>3, <2>6 DEF RowsStored
  <2>8. QED
    BY <2>1, <2>2, <2>7 DEF Advised
<1>5. \A i \in DOMAIN evaluated.found : \E r \in tagRows :
        r.tag = evaluated.found[i] /\ r.rank = i /\ (r.tag = evaluated.picked => r.picked)
  BY <1>1 DEF RowsStored
<1>6. RowsCount
  BY <1>3, <1>4, <1>5 DEF RowsCount
<1>7. QED
  BY <1>2, <1>6 DEF RowsTellFollowups

\* The rows of an answer tell which weakness was followed up and how often each was found,
\* for every number of overlapping requests, whatever fails or is deleted
\* (follow_up_generator.py:838-924, session_evaluation.py _persist_pipeline_tags).
THEOREM RowsTellFollowupsCorrect == RowsSpec => []RowsTellFollowups
<1>1. RowsInit => RowsInv
  BY RowsInitially
<1>2. RowsInv /\ [RowsNext]_rowVars => RowsInv'
  BY RowsStep
<1>3. RowsInv => RowsTellFollowups
  BY RowsTell
<1>4. QED
  BY <1>1, <1>2, <1>3, PTL DEF RowsSpec

-----------------------------------------------------------------------------
(* The material of an interview *)

\* An analysis, a session, what was read for one, and a generation that reads.
AnalysisRow ==
  [id : Nat, jd : Jd, resume : Resume, letter : Letter \cup {NoDoc}, readme : BOOLEAN]
SessionRow ==
  [jd : Jd \cup {NoDoc}, resume : Resume \cup {NoDoc}, letter : Letter \cup {NoDoc}, from : Nat \cup {NoDoc}]
Seen ==
  [jd : Jd \cup {NoDoc}, resume : Resume \cup {NoDoc}, letter : Letter \cup {NoDoc},
   projects : SUBSET Documents, readme : SUBSET AnalysisRow, result : SUBSET AnalysisRow,
   prepared : SUBSET AnalysisRow]
Stage == {"idle", "jd", "resume", "letter", "projects", "readme", "result", "prepared", "done"}
Reading == [at : Stage, row : SessionRow, asked : Nat, projects : SUBSET Project, seen : Seen]

\* Analyses are numbered, and name no document that was deleted.
RowsPlaced ==
  /\ madeSoFar \in Nat /\ kept \in SUBSET Documents /\ rows \in SUBSET AnalysisRow
  /\ \A a \in rows : a.id \in 1 .. madeSoFar /\ a.letter \in kept \cup {NoDoc}
  /\ \A a, b \in rows : a.id = b.id => a = b

\* A session has the documents of the analysis it was created from, as far as it has any; one
\* that is still to be inserted may also name a letter the analysis has lost, which is gone.
SessionFits ==
  /\ interview \in SessionRow /\ (interview # NoSession => interview.from \in 0 .. madeSoFar)
  /\ \A a \in rows : interview # NoSession /\ interview.from = a.id => Accepts(interview, a)
CreationFits ==
  /\ creating \in SessionRow /\ (creating # NoSession => creating.from \in 0 .. madeSoFar)
  /\ \A a \in rows : creating # NoSession /\ creating.from = a.id =>
       /\ creating.jd \in {NoDoc, a.jd} /\ creating.resume \in {NoDoc, a.resume}
       /\ creating.letter \in {NoDoc, a.letter} \/ creating.letter \notin kept \cup {NoDoc}

\* What an analysis must be to be read for the session: the one that was named and was compared
\* with its documents, or one of the same documents.
Goes(row, a) ==
  /\ row.jd \in {NoDoc, a.jd} /\ row.resume \in {NoDoc, a.resume}
  /\ NoDoc \in {a.letter, row.letter} \/ a.letter = row.letter
Suits(row, named, a) ==
  /\ named # 0 => a.id = named /\ Goes(row, a)
  /\ named = 0 => a.jd = row.jd /\ a.resume = row.resume

\* The analyses a generation has read, and what holds of what it has read.
Used == reading.seen.readme \cup reading.seen.result \cup reading.seen.prepared

ReadingFits ==
  /\ reading \in Reading
  /\ reading.seen.jd \in {NoDoc, reading.row.jd} /\ reading.seen.resume \in {NoDoc, reading.row.resume}
  /\ reading.seen.letter \in {NoDoc, reading.row.letter}
  /\ reading.projects # {} => reading.seen.projects \subseteq reading.projects
  /\ \A a \in Used : Suits(reading.row, reading.asked, a)
  /\ reading.asked <= madeSoFar
  /\ \A a \in rows : reading.asked # 0 /\ a.id = reading.asked => Goes(reading.row, a)

\* The inductive invariant.
MaterialInv == RowsPlaced /\ SessionFits /\ CreationFits /\ ReadingFits

\* At the start there is no analysis and no session.
LEMMA MaterialInitially == MaterialInit => MaterialInv
<1> SUFFICES ASSUME MaterialInit PROVE MaterialInv
  OBVIOUS
<1>1. /\ kept = Documents /\ rows = {} /\ madeSoFar = 0
      /\ creating = NoSession /\ interview = NoSession /\ reading = NotReading
  BY DEF MaterialInit
<1>2. NoSession \in SessionRow
  BY DEF NoSession, SessionRow
<1>3. NotReading \in Reading
  <2>1. NoneRead \in Seen
    BY DEF NoneRead, Seen
  <2>2. QED
    BY <1>2, <2>1 DEF NotReading, Reading, Stage
<1>4. Used = {} /\ reading.seen.jd = NoDoc /\ reading.seen.resume = NoDoc /\ reading.seen.letter = NoDoc
      /\ reading.seen.projects = {} /\ reading.asked = 0
  BY <1>1 DEF Used, NotReading, NoneRead
<1>5. ReadingFits
  BY <1>1, <1>3, <1>4 DEF ReadingFits
<1>6. QED
  BY <1>1, <1>2, <1>5 DEF MaterialInv, RowsPlaced, SessionFits, CreationFits

\* What is read of one analysis goes with what is read of the session.
LEMMA MaterialTells == ASSUME MaterialInv PROVE MaterialFits
<1>1. ReadFitsTogether
  <2> DEFINE s == reading.seen
             row == reading.row
  <2>1. \A a \in Used : Suits(row, reading.asked, a)
    BY DEF MaterialInv, ReadingFits
  <2>2. s.jd \in {NoDoc, row.jd} /\ s.resume \in {NoDoc, row.resume} /\ s.letter \in {NoDoc, row.letter}
        /\ (reading.projects # {} => s.projects \subseteq reading.projects)
    BY DEF MaterialInv, ReadingFits
  <2>3. \A a \in Used : s.jd \in {NoDoc, a.jd} /\ s.resume \in {NoDoc, a.resume}
    BY <2>1, <2>2 DEF Suits, Goes
  <2>4. reading.asked # 0 =>
          \A a \in Used : a.id = reading.asked /\ (NoDoc \in {a.letter, s.letter} \/ a.letter = s.letter)
    BY <2>1, <2>2 DEF Suits, Goes
  <2>5. QED
    BY <2>2, <2>3, <2>4 DEF ReadFitsTogether, Used
<1>2. QED
  BY <1>1 DEF MaterialFits, MaterialInv, SessionFits

\* A new analysis has a number no session and no generation names.
LEMMA AnalyseStep ==
  ASSUME MaterialInv, NEW d \in Jd, NEW r \in Resume, NEW l \in Letter \cup {NoDoc}, NEW readme \in BOOLEAN,
         Analyse(d, r, l, readme)
  PROVE  MaterialInv'
<1>1. PICK new : new = [id |-> madeSoFar + 1, jd |-> d, resume |-> r, letter |-> l, readme |-> readme]
  OBVIOUS
<1>2. madeSoFar \in Nat /\ madeSoFar' = madeSoFar + 1 /\ rows' = rows \cup {new} /\ l \in kept \cup {NoDoc}
      /\ UNCHANGED <<kept, creating, interview, reading>>
  BY <1>1 DEF Analyse, MaterialInv, RowsPlaced
<1>3. new \in AnalysisRow /\ new.id = madeSoFar + 1 /\ new.letter = l
  BY <1>1, <1>2 DEF AnalysisRow
<1>4. \A a \in rows : a.id \in 1 .. madeSoFar
  BY DEF MaterialInv, RowsPlaced
<1>5. RowsPlaced'
  BY <1>2, <1>3, <1>4 DEF MaterialInv, RowsPlaced
<1>6. SessionFits'
  <2>1. interview # NoSession => interview.from \in 0 .. madeSoFar /\ interview.from # new.id
    BY <1>2, <1>3 DEF MaterialInv, SessionFits
  <2>2. QED
    BY <1>2, <2>1 DEF MaterialInv, SessionFits, Accepts
<1>7. CreationFits'
  <2>1. creating # NoSession => creating.from \in 0 .. madeSoFar /\ creating.from # new.id
    BY <1>2, <1>3 DEF MaterialInv, CreationFits
  <2>2. QED
    BY <1>2, <2>1 DEF MaterialInv, CreationFits
<1>8. ReadingFits'
  <2>1. reading.asked \in Nat /\ reading.asked <= madeSoFar
    BY DEF MaterialInv, ReadingFits, Reading
  <2>2. reading.asked # new.id /\ reading.asked <= madeSoFar'
    BY <1>2, <1>3, <2>1
  <2>3. \A a \in rows' : reading.asked # 0 /\ a.id = reading.asked => Goes(reading.row, a)
    BY <1>2, <2>2 DEF MaterialInv, ReadingFits
  <2>4. reading' = reading /\ Used' = Used
    BY <1>2 DEF Used
  <2>5. QED
    BY <2>2, <2>3, <2>4 DEF MaterialInv, ReadingFits
<1>9. QED
  BY <1>5, <1>6, <1>7, <1>8 DEF MaterialInv

\* A deleted document leaves the analysis and the session of it at once.
LEMMA DeleteDocumentStep ==
  ASSUME MaterialInv, NEW x \in Documents, DeleteDocument(x)
  PROVE  MaterialInv'
<1>1. x \in kept /\ kept' = kept \ {x} /\ UNCHANGED <<madeSoFar, creating, reading>> /\ madeSoFar \in Nat
  BY DEF DeleteDocument, MaterialInv, RowsPlaced
<1>2. ASSUME NEW a \in rows'
      PROVE  \E b \in rows : /\ a \in AnalysisRow /\ a.id = b.id /\ a.jd = b.jd /\ a.resume = b.resume
                             /\ a.letter = Without(x, b.letter) /\ a = [b EXCEPT !.letter = Without(x, @)]
  <2>1. PICK b \in rows : a = [b EXCEPT !.letter = Without(x, @)]
    BY DEF DeleteDocument
  <2>2. b \in AnalysisRow
    BY DEF MaterialInv, RowsPlaced
  <2>3. PICK l \in Letter \cup {NoDoc} : l = Without(x, b.letter)
    BY <2>2 DEF Without, AnalysisRow
  <2>4. a = [b EXCEPT !.letter = l]
    BY <2>1, <2>3
  <2>5. a \in AnalysisRow /\ a.id = b.id /\ a.jd = b.jd /\ a.resume = b.resume /\ a.letter = l
    BY <2>2, <2>4 DEF AnalysisRow
  <2>6. QED
    BY <2>1, <2>3, <2>5
<1>3. RowsPlaced'
  <2>1. \A a \in rows' : a.id \in 1 .. madeSoFar /\ a.letter \in kept' \cup {NoDoc}
    BY <1>1, <1>2 DEF MaterialInv, RowsPlaced, Without
  <2>2. \A a, b \in rows' : a.id = b.id => a = b
    BY <1>2 DEF MaterialInv, RowsPlaced
  <2>3. QED
    BY <1>1, <1>2, <2>1, <2>2 DEF MaterialInv, RowsPlaced
<1>4. interview \in SessionRow
  BY DEF MaterialInv, SessionFits
<1>5. /\ interview' \in SessionRow /\ interview'.jd = Without(x, interview.jd)
      /\ interview'.resume = Without(x, interview.resume) /\ interview'.letter = Without(x, interview.letter)
      /\ interview'.from = interview.from
  <2>1. PICK d \in Jd \cup {NoDoc}, r \in Resume \cup {NoDoc}, l \in Letter \cup {NoDoc} :
          d = Without(x, interview.jd) /\ r = Without(x, interview.resume) /\ l = Without(x, interview.letter)
    BY <1>4 DEF Without, SessionRow
  <2>2. interview' = [interview EXCEPT !.jd = d, !.resume = r, !.letter = l]
    BY <1>4, <2>1 DEF DeleteDocument, SessionRow
  <2>3. QED
    BY <1>4, <2>1, <2>2 DEF SessionRow
<1>6. interview = NoSession => interview' = NoSession
  <2> SUFFICES ASSUME interview = NoSession PROVE interview' = NoSession
    OBVIOUS
  <2>1. /\ NoSession \in SessionRow /\ NoSession.jd = NoDoc /\ NoSession.resume = NoDoc
        /\ NoSession.letter = NoDoc /\ Without(x, NoDoc) = NoDoc
    BY DEF NoSession, SessionRow, Without
  <2>2. interview' = [NoSession EXCEPT !.jd = NoDoc, !.resume = NoDoc, !.letter = NoDoc]
    BY <2>1 DEF DeleteDocument
  <2>3. QED
    BY <2>2 DEF NoSession
<1>7. SessionFits'
  <2>1. interview' # NoSession => interview'.from \in 0 .. madeSoFar
    BY <1>5, <1>6 DEF MaterialInv, SessionFits
  <2>2. ASSUME NEW a \in rows', interview' # NoSession, interview'.from = a.id
        PROVE  Accepts(interview', a)
    <3>1. PICK b \in rows : a.id = b.id /\ a.jd = b.jd /\ a.resume = b.resume /\ a.letter = Without(x, b.letter)
      BY <1>2
    <3>2. Accepts(interview, b)
      BY <1>5, <1>6, <2>2, <3>1 DEF MaterialInv, SessionFits
    <3>3. QED
      BY <1>5, <3>1, <3>2 DEF Accepts, Without
  <2>3. PICK s : s = interview'
    OBVIOUS
  <2>4. QED
    BY <1>1, <1>5, <2>1, <2>2, <2>3 DEF SessionFits, Accepts, NoSession
<1>8. CreationFits'
  <2>1. ASSUME NEW a \in rows', creating # NoSession, creating.from = a.id
        PROVE  /\ creating.jd \in {NoDoc, a.jd} /\ creating.resume \in {NoDoc, a.resume}
               /\ creating.letter \in {NoDoc, a.letter} \/ creating.letter \notin kept' \cup {NoDoc}
    <3>1. PICK b \in rows : a.id = b.id /\ a.jd = b.jd /\ a.resume = b.resume /\ a.letter = Without(x, b.letter)
      BY <1>2
    <3>2. /\ creating.jd \in {NoDoc, b.jd} /\ creating.resume \in {NoDoc, b.resume}
          /\ creating.letter \in {NoDoc, b.letter} \/ creating.letter \notin kept \cup {NoDoc}
      BY <2>1, <3>1 DEF MaterialInv, CreationFits
    <3>3. QED
      BY <1>1, <3>1, <3>2 DEF Without
  <2>2. QED
    BY <1>1, <2>1 DEF MaterialInv, CreationFits, NoSession
<1>9. ReadingFits'
  <2>1. ASSUME NEW a \in rows', reading.asked # 0, a.id = reading.asked PROVE Goes(reading.row, a)
    <3>1. PICK b \in rows : a.id = b.id /\ a.jd = b.jd /\ a.resume = b.resume /\ a.letter = Without(x, b.letter)
      BY <1>2
    <3>2. Goes(reading.row, b)
      BY <2>1, <3>1 DEF MaterialInv, ReadingFits
    <3>3. QED
      BY <3>1, <3>2 DEF Goes, Without
  <2>2. reading' = reading /\ Used' = Used /\ madeSoFar' = madeSoFar
    BY <1>1 DEF Used
  <2>3. QED
    BY <2>1, <2>2 DEF MaterialInv, ReadingFits
<1>10. QED
  BY <1>3, <1>7, <1>8, <1>9 DEF MaterialInv

\* A session takes the documents of the analysis it is compared with.
LEMMA ValidateCreationStep ==
  ASSUME MaterialInv, NEW q \in Requests, NEW mvp \in BOOLEAN, ValidateCreation(q, mvp)
  PROVE  MaterialInv'
<1>1. creating' \in NewSessions(q, mvp) /\ UNCHANGED <<kept, rows, madeSoFar, interview, reading>>
  BY DEF ValidateCreation
<1>2. /\ q.jd \in Jd \cup {NoDoc} /\ q.resume \in Resume \cup {NoDoc} /\ q.letter \in Letter \cup {NoDoc}
      /\ q.analysis \in Nat /\ q.made \in Nat
  BY MaterialAssumption
<1>3. RowsPlaced
  BY DEF MaterialInv
<1>4. CreationFits'
  <2>1. CASE creating' = AsNamed(q)
    <3>1. AsNamed(q) \in SessionRow /\ AsNamed(q).from = 0
      BY <1>2 DEF AsNamed, SessionRow
    <3>2. \A a \in rows : a.id # 0
      BY <1>3 DEF RowsPlaced
    <3>3. madeSoFar \in Nat
      BY <1>3 DEF RowsPlaced
    <3>4. QED
      BY <1>1, <2>1, <3>1, <3>2, <3>3 DEF CreationFits, NoSession
  <2>2. CASE creating' # AsNamed(q)
    <3>1. PICK a \in rows :
            /\ IF mvp THEN MvpAccepts(q, a) ELSE NestedAccepts(q, a)
            /\ creating' = IF mvp THEN MvpSession(q, a) ELSE NestedSession(q, a)
      BY <1>1, <2>2 DEF NewSessions, NamedAnalysis
    <3>2. a \in AnalysisRow /\ a.id \in 1 .. madeSoFar /\ madeSoFar \in Nat
          /\ \A b \in rows : b.id = a.id => b = a
      BY <1>3 DEF RowsPlaced
    <3>3. /\ a.jd \in Jd /\ a.resume \in Resume /\ a.letter \in Letter \cup {NoDoc} /\ a.id \in Nat
      BY <3>2 DEF AnalysisRow
    <3>4. /\ creating' \in SessionRow /\ creating'.from = a.id /\ creating'.jd = a.jd
          /\ creating'.resume \in {NoDoc, a.resume} /\ creating'.letter \in {NoDoc, a.letter}
      <4>1. CASE mvp
        <5>1. PICK d \in Jd \cup {NoDoc}, r \in Resume \cup {NoDoc}, l \in Letter \cup {NoDoc} :
                d = Or(q.jd, a.jd) /\ r = Or(q.resume, a.resume) /\ l = Or(q.letter, a.letter)
          BY <1>2, <3>3 DEF Or
        <5>2. creating' = [jd |-> d, resume |-> r, letter |-> l, from |-> a.id]
          BY <3>1, <4>1, <5>1 DEF MvpSession
        <5>3. MvpAccepts(q, a)
          BY <3>1, <4>1
        <5>4. d = a.jd /\ r \in {NoDoc, a.resume} /\ l \in {NoDoc, a.letter}
          BY <5>1, <5>3 DEF MvpAccepts, MvpSession
        <5>5. QED
          BY <3>3, <5>2, <5>4 DEF SessionRow
      <4>2. CASE ~mvp
        <5>1. PICK l \in Letter \cup {NoDoc} : l = Or(a.letter, q.letter)
          BY <1>2, <3>3 DEF Or
        <5>2. creating' = [jd |-> a.jd, resume |-> a.resume, letter |-> l, from |-> a.id]
          BY <3>1, <4>2, <5>1 DEF NestedSession
        <5>3. l \in {NoDoc, a.letter}
          BY <3>1, <4>2, <5>1 DEF NestedAccepts, Or
        <5>4. QED
          BY <3>3, <5>2, <5>3 DEF SessionRow
      <4>3. QED
        BY <4>1, <4>2
    <3>5. QED
      BY <1>1, <3>2, <3>4 DEF CreationFits
  <2>3. QED
    BY <2>1, <2>2
<1>5. RowsPlaced' /\ SessionFits' /\ ReadingFits'
  BY <1>1 DEF MaterialInv, RowsPlaced, SessionFits, ReadingFits, Used, Accepts
<1>6. QED
  BY <1>4, <1>5 DEF MaterialInv

\* A session that names a letter which was deleted meanwhile is not inserted.
LEMMA InsertSessionStep == ASSUME MaterialInv, InsertSession PROVE MaterialInv'
<1>1. creating # NoSession /\ creating' = NoSession /\ UNCHANGED <<kept, rows, madeSoFar, reading>>
  BY DEF InsertSession
<1>2. CreationFits'
  <2>1. NoSession \in SessionRow
    BY DEF NoSession, SessionRow
  <2>2. QED
    BY <1>1, <2>1 DEF CreationFits, NoSession
<1>3. SessionFits'
  <2>1. CASE interview' = interview
    BY <1>1, <2>1 DEF MaterialInv, SessionFits, Accepts
  <2>2. CASE interview' # interview
    <3>1. interview' = creating /\ creating.letter \in kept \cup {NoDoc}
      BY <2>2 DEF InsertSession
    <3>2. \A a \in rows : creating.from = a.id => Accepts(creating, a)
      BY <1>1, <3>1 DEF MaterialInv, CreationFits, Accepts
    <3>3. creating \in SessionRow /\ creating.from \in 0 .. madeSoFar
      BY <1>1 DEF MaterialInv, CreationFits
    <3>4. QED
      BY <1>1, <3>1, <3>2, <3>3 DEF SessionFits, Accepts, NoSession
  <2>3. QED
    BY <2>1, <2>2
<1>4. RowsPlaced' /\ ReadingFits'
  BY <1>1 DEF MaterialInv, RowsPlaced, ReadingFits, Used
<1>5. QED
  BY <1>2, <1>3, <1>4 DEF MaterialInv

\* A generation that starts or ends leaves the rest alone.
LEMMA OnlyReads ==
  ASSUME MaterialInv, UNCHANGED <<kept, rows, madeSoFar, creating, interview>>, ReadingFits'
  PROVE  MaterialInv'
BY DEF MaterialInv, RowsPlaced, SessionFits, CreationFits, Accepts

\* A generation that gives up has read nothing.
LEMMA NotReadingFits == ASSUME MaterialInv, reading' = NotReading, madeSoFar' = madeSoFar PROVE ReadingFits'
<1>1. NotReading \in Reading
  <2>1. NoneRead \in Seen
    BY DEF NoneRead, Seen
  <2>2. NoSession \in SessionRow
    BY DEF NoSession, SessionRow
  <2>3. QED
    BY <2>1, <2>2 DEF NotReading, Reading, Stage
<1>2. Used' = {} /\ reading'.seen.jd = NoDoc /\ reading'.seen.resume = NoDoc /\ reading'.seen.letter = NoDoc
      /\ reading'.seen.projects = {} /\ reading'.asked = 0
  BY DEF Used, NotReading, NoneRead
<1>3. madeSoFar \in Nat
  BY DEF MaterialInv, RowsPlaced
<1>4. QED
  BY <1>1, <1>2, <1>3 DEF ReadingFits

\* A generation is compared with the analysis it names before it reads.
LEMMA StartReadingStep ==
  ASSUME MaterialInv, NEW q \in Requests, NEW projects \in SUBSET Project, StartReading(q, projects)
  PROVE  MaterialInv'
<1>1. PICK named : named = IF q.analysis > q.made THEN q.analysis ELSE q.made
  OBVIOUS
<1>2. /\ reading' = [at |-> "jd", row |-> interview, projects |-> projects, seen |-> NoneRead, asked |-> named]
      /\ AnalysisFound(q) /\ \A a \in NamedAnalysis(q) : Accepts(interview, a)
      /\ UNCHANGED <<kept, rows, madeSoFar, creating, interview>>
  BY <1>1 DEF StartReading
<1>3. q.analysis \in Nat /\ q.made \in Nat /\ named \in Nat
  BY <1>1, MaterialAssumption
<1>4. RowsPlaced /\ interview \in SessionRow
  BY DEF MaterialInv, SessionFits
<1>5. ASSUME named # 0
      PROVE  \E a \in NamedAnalysis(q) : a.id = named
  <2>1. NamedAnalysis(q) # {}
    BY <1>1, <1>2, <1>5 DEF AnalysisFound
  <2>2. PICK a \in NamedAnalysis(q) : TRUE
    BY <2>1
  <2>3. a.id \in {q.analysis, q.made} /\ q.analysis \in {0, a.id} /\ q.made \in {0, a.id} /\ a.id \in Nat \ {0}
    BY <1>4 DEF NamedAnalysis, RowsPlaced
  <2>4. a.id = named
    BY <1>1, <1>3, <2>3
  <2>5. QED
    BY <2>4
<1>6. named <= madeSoFar
  <2>1. CASE named = 0
    BY <1>4, <2>1 DEF RowsPlaced
  <2>2. CASE named # 0
    BY <1>4, <1>5, <2>2 DEF RowsPlaced, NamedAnalysis
  <2>3. QED
    BY <2>1, <2>2
<1>7. ASSUME NEW a \in rows, named # 0, a.id = named PROVE Goes(interview, a)
  <2>1. a \in NamedAnalysis(q)
    BY <1>4, <1>5, <1>7 DEF NamedAnalysis, RowsPlaced
  <2>2. Accepts(interview, a)
    BY <1>2, <2>1
  <2>3. QED
    BY <2>2 DEF Accepts, Goes
<1>8. reading' \in Reading
  <2>1. NoneRead \in Seen
    BY DEF NoneRead, Seen
  <2>2. QED
    BY <1>2, <1>3, <1>4, <2>1 DEF Reading, Stage
<1>9. Used' = {} /\ reading'.seen.jd = NoDoc /\ reading'.seen.resume = NoDoc /\ reading'.seen.letter = NoDoc
      /\ reading'.seen.projects = {} /\ reading'.asked = named /\ reading'.row = interview
  BY <1>2 DEF Used, NoneRead
<1>10. ReadingFits'
  BY <1>2, <1>6, <1>7, <1>8, <1>9 DEF ReadingFits
<1>11. QED
  BY <1>2, <1>10, OnlyReads

\* What a source adds to what was read.
LEMMA SourceRead ==
  ASSUME reading \in Reading, NEW field, NEW value, NEW next \in Stage, Reads(field, value, next),
         NEW seen \in Seen, seen = [reading.seen EXCEPT ![field] = value]
  PROVE  /\ reading' \in Reading /\ reading'.seen = seen /\ reading'.row = reading.row
         /\ reading'.asked = reading.asked /\ reading'.projects = reading.projects
<1>1. reading' = [reading EXCEPT !.at = next, !.seen = seen]
  BY DEF Reads, Reading
<1>2. QED
  BY <1>1 DEF Reading

\* A document is read by the name the session had at the start.
LEMMA ReadDocumentStep ==
  ASSUME MaterialInv, NEW field \in {"jd", "resume", "letter"}, NEW next \in Stage, ReadDocument(field, next)
  PROVE  MaterialInv'
<1>1. reading \in Reading /\ UNCHANGED <<kept, rows, madeSoFar, creating, interview>>
  BY DEF MaterialInv, ReadingFits, ReadDocument
<1>2. CASE reading' = NotReading
  BY <1>1, <1>2, NotReadingFits, OnlyReads
<1>3. CASE reading' # NotReading
  <2>1. PICK value : value = reading.row[field]
    OBVIOUS
  <2>2. Reads(field, value, next)
    BY <1>3, <2>1 DEF ReadDocument
  <2>3. reading.row \in SessionRow /\ reading.seen \in Seen
    BY <1>1 DEF Reading
  <2>4. PICK seen : seen = [reading.seen EXCEPT ![field] = value]
    OBVIOUS
  <2>5. /\ seen \in Seen /\ seen.jd \in {reading.seen.jd, reading.row.jd}
        /\ seen.resume \in {reading.seen.resume, reading.row.resume}
        /\ seen.letter \in {reading.seen.letter, reading.row.letter} /\ seen.projects = reading.seen.projects
        /\ seen.readme = reading.seen.readme /\ seen.result = reading.seen.result
        /\ seen.prepared = reading.seen.prepared
    <3>1. CASE field = "jd"
      BY <2>1, <2>3, <2>4, <3>1 DEF Seen, SessionRow
    <3>2. CASE field = "resume"
      BY <2>1, <2>3, <2>4, <3>2 DEF Seen, SessionRow
    <3>3. CASE field = "letter"
      BY <2>1, <2>3, <2>4, <3>3 DEF Seen, SessionRow
    <3>4. QED
      BY <3>1, <3>2, <3>3
  <2>6. /\ reading' \in Reading /\ reading'.seen = seen /\ reading'.row = reading.row
        /\ reading'.asked = reading.asked /\ reading'.projects = reading.projects
    BY <1>1, <2>2, <2>4, <2>5, SourceRead
  <2>7. Used' = Used
    BY <2>5, <2>6 DEF Used
  <2>8. ReadingFits'
    BY <1>1, <2>5, <2>6, <2>7 DEF MaterialInv, ReadingFits
  <2>9. QED
    BY <1>1, <2>8, OnlyReads
<1>4. QED
  BY <1>2, <1>3

\* Projects that were chosen limit those that are read.
LEMMA ReadProjectsStep == ASSUME MaterialInv, ReadProjects PROVE MaterialInv'
<1>1. reading \in Reading /\ reading.seen \in Seen /\ UNCHANGED <<kept, rows, madeSoFar, creating, interview>>
  BY DEF MaterialInv, ReadingFits, ReadProjects, Reading
<1>2. PICK value : value = kept \cap (IF reading.projects = {} THEN Project ELSE reading.projects)
  OBVIOUS
<1>3. Reads("projects", value, "readme") /\ "readme" \in Stage
  BY <1>2 DEF ReadProjects, Stage
<1>4. PICK seen : seen = [reading.seen EXCEPT !["projects"] = value]
  OBVIOUS
<1>5. value \in SUBSET Documents /\ (reading.projects # {} => value \subseteq reading.projects)
  BY <1>2 DEF MaterialInv, RowsPlaced
<1>6. /\ seen \in Seen /\ seen.jd = reading.seen.jd /\ seen.resume = reading.seen.resume
      /\ seen.letter = reading.seen.letter /\ seen.projects = value
      /\ seen.readme = reading.seen.readme /\ seen.result = reading.seen.result
      /\ seen.prepared = reading.seen.prepared
  BY <1>1, <1>4, <1>5 DEF Seen
<1>7. /\ reading' \in Reading /\ reading'.seen = seen /\ reading'.row = reading.row
      /\ reading'.asked = reading.asked /\ reading'.projects = reading.projects
  BY <1>1, <1>3, <1>4, <1>6, SourceRead
<1>8. Used' = Used
  BY <1>6, <1>7 DEF Used
<1>9. ReadingFits'
  BY <1>1, <1>5, <1>6, <1>7, <1>8 DEF MaterialInv, ReadingFits
<1>10. QED
  BY <1>1, <1>9, OnlyReads

\* The analysis that is looked for is the one that was named, or one of the same documents.
LEMMA LatestSuits ==
  ASSUME MaterialInv, NEW a \in Latest
  PROVE  a \in rows /\ Suits(reading.row, reading.asked, a)
<1>1. CASE reading.asked # 0
  <2>1. a \in rows /\ a.id = reading.asked
    BY <1>1 DEF Latest, LatestFor
  <2>2. QED
    BY <1>1, <2>1 DEF MaterialInv, ReadingFits, Suits
<1>2. CASE reading.asked = 0
  BY <1>2 DEF Latest, LatestFor, NewestOf, Suits
<1>3. QED
  BY <1>1, <1>2

\* One of the three sources that stem from an analysis.
LEMMA SourceFits ==
  ASSUME MaterialInv, UNCHANGED <<kept, rows, madeSoFar, creating, interview>>,
         NEW field \in {"readme", "result", "prepared"}, NEW value \in SUBSET Latest, NEW next \in Stage,
         Reads(field, value, next)
  PROVE  MaterialInv'
<1>1. reading \in Reading /\ reading.seen \in Seen
  BY DEF MaterialInv, ReadingFits, Reading
<1>2. value \in SUBSET AnalysisRow /\ \A a \in value : Suits(reading.row, reading.asked, a)
  BY LatestSuits DEF MaterialInv, RowsPlaced
<1>3. PICK seen : seen = [reading.seen EXCEPT ![field] = value]
  OBVIOUS
<1>4. /\ seen \in Seen /\ seen.jd = reading.seen.jd /\ seen.resume = reading.seen.resume
      /\ seen.letter = reading.seen.letter /\ seen.projects = reading.seen.projects
      /\ seen.readme \cup seen.result \cup seen.prepared \subseteq Used \cup value
  <2>1. CASE field = "readme"
    BY <1>1, <1>2, <1>3, <2>1 DEF Seen, Used
  <2>2. CASE field = "result"
    BY <1>1, <1>2, <1>3, <2>2 DEF Seen, Used
  <2>3. CASE field = "prepared"
    BY <1>1, <1>2, <1>3, <2>3 DEF Seen, Used
  <2>4. QED
    BY <2>1, <2>2, <2>3
<1>5. /\ reading' \in Reading /\ reading'.seen = seen /\ reading'.row = reading.row
      /\ reading'.asked = reading.asked /\ reading'.projects = reading.projects
  BY <1>1, <1>3, <1>4, SourceRead
<1>6. Used' \subseteq Used \cup value
  BY <1>4, <1>5 DEF Used
<1>7. \A a \in Used' : Suits(reading'.row, reading'.asked, a)
  BY <1>2, <1>5, <1>6 DEF MaterialInv, ReadingFits
<1>8. ReadingFits'
  BY <1>4, <1>5, <1>7 DEF MaterialInv, ReadingFits
<1>9. QED
  BY <1>8, OnlyReads

\* Every step of every request keeps it.
LEMMA MaterialStep == ASSUME MaterialInv, [MaterialNext]_materialVars PROVE MaterialInv'
<1>1. ASSUME NEW d \in Jd, NEW r \in Resume, NEW l \in Letter \cup {NoDoc}, NEW readme \in BOOLEAN,
             Analyse(d, r, l, readme)
      PROVE  MaterialInv'
  BY <1>1, AnalyseStep
<1>2. ASSUME NEW x \in Documents, DeleteDocument(x) PROVE MaterialInv'
  BY <1>2, DeleteDocumentStep
<1>3. ASSUME NEW q \in Requests, NEW mvp \in BOOLEAN, ValidateCreation(q, mvp) PROVE MaterialInv'
  BY <1>3, ValidateCreationStep
<1>4. ASSUME InsertSession PROVE MaterialInv'
  BY <1>4, InsertSessionStep
<1>5. ASSUME NEW q \in Requests, NEW projects \in SUBSET Project, StartReading(q, projects) PROVE MaterialInv'
  BY <1>5, StartReadingStep
<1>6. ASSUME ReadDocument("jd", "resume") PROVE MaterialInv'
  BY <1>6, ReadDocumentStep DEF Stage
<1>7. ASSUME ReadDocument("resume", "letter") PROVE MaterialInv'
  BY <1>7, ReadDocumentStep DEF Stage
<1>8. ASSUME ReadDocument("letter", "projects") PROVE MaterialInv'
  BY <1>8, ReadDocumentStep DEF Stage
<1>9. ASSUME ReadProjects PROVE MaterialInv'
  BY <1>9, ReadProjectsStep
<1>10. ASSUME ReadReadme PROVE MaterialInv'
  <2>1. PICK value \in SUBSET Latest : value = { a \in Latest : a.readme }
    OBVIOUS
  <2>2. Reads("readme", value, "result") /\ UNCHANGED <<kept, rows, madeSoFar, creating, interview>>
    BY <1>10, <2>1 DEF ReadReadme
  <2>3. QED
    BY <2>2, SourceFits DEF Stage
<1>11. ASSUME ReadResult PROVE MaterialInv'
  <2>1. PICK value \in SUBSET Latest : value = Latest
    OBVIOUS
  <2>2. Reads("result", value, "prepared") /\ UNCHANGED <<kept, rows, madeSoFar, creating, interview>>
    BY <1>11, <2>1 DEF ReadResult
  <2>3. QED
    BY <2>2, SourceFits DEF Stage
<1>12. ASSUME ReadPrepared PROVE MaterialInv'
  <2>1. PICK value \in SUBSET Latest : value = Latest
    OBVIOUS
  <2>2. Reads("prepared", value, "done") /\ UNCHANGED <<kept, rows, madeSoFar, creating, interview>>
    BY <1>12, <2>1 DEF ReadPrepared
  <2>3. QED
    BY <2>2, SourceFits DEF Stage
<1>13. ASSUME FinishReading PROVE MaterialInv'
  BY <1>13, NotReadingFits, OnlyReads DEF FinishReading
<1>14. CASE UNCHANGED materialVars
  BY <1>14 DEF materialVars, MaterialInv, RowsPlaced, SessionFits, CreationFits, ReadingFits, Used, Accepts
<1>15. QED
  BY <1>1, <1>2, <1>3, <1>4, <1>5, <1>6, <1>7, <1>8, <1>9, <1>10, <1>11, <1>12, <1>13, <1>14
     DEF MaterialNext

\* Whatever is analysed and deleted while a session is created and its questions are generated,
\* what one generation reads fits together: README, result and prepared questions stem from an
\* analysis of the posting and the resume that were read, a named analysis is not exchanged for
\* another one and is of no other letter, and projects that were not chosen are not told.  And a
\* session created from an analysis by either route passes the check of the generation as long
\* as the analysis is there (mvp_serializers.py:63, interview/serializers.py:142, views.py:494).
THEOREM MaterialFitsCorrect == MaterialSpec => []MaterialFits
<1>1. MaterialInit => MaterialInv
  BY MaterialInitially
<1>2. MaterialInv /\ [MaterialNext]_materialVars => MaterialInv'
  BY MaterialStep
<1>3. MaterialInv => MaterialFits
  BY MaterialTells
<1>4. QED
  BY <1>1, <1>2, <1>3, PTL DEF MaterialSpec

-----------------------------------------------------------------------------
(* The follow-up question an answer gets *)

\* What the rules leave: a decision, and with a follow-up a weakness that is defined.
Decided(j) == j.next \in {"follow", "next"} /\ (j.next = "follow" => j.selected \in WeaknessTag)

\* What either engine has made of the answer so far; the mock engine has one name for a weakness.
JudgedFits ==
  /\ engine \in {"openai", "mock"}
  /\ judging = "normalize" => reply \in Replies
  /\ engine = "openai" /\ judging \in {"overrule", "done"} => Decided(judged)
  /\ engine = "openai" /\ judging = "done" =>
       (answer.length = "tooShort" \/ OffTopic(answer) => judged.next = "follow")
  /\ engine = "mock" /\ judging = "done" /\ judged.next = "follow" =>
       judged.selected.name = judged.selected.id

\* The judgement ends before the guardrail, and only a follow-up goes beyond it.
AskingFits ==
  /\ asking # "judge" => judging \in {"done", "raised"}
  /\ asking \in {"guard", "confirm", "generate", "stored"} => judging = "done" /\ judged.next = "follow"

\* What the guardrail has seen when the model is asked to word the question, and when it is not.
Grounded ==
  content.claims => content.names \subseteq (UNION { content.held[p] : p \in Place }) \cup (UNION Range(content.analyses))
Questioned ==
  \/ content.claims /\ ~(content.names \subseteq UNION { content.held[p] : p \in Place })
  \/ judged.selected.id \in UnverifiedTags

QuestionFits ==
  /\ asking = "generate" => Grounded
  /\ asking = "confirm" => Questioned
  /\ asking = "stored" => \/ followup.by = "guardrail" /\ Questioned
                          \/ followup.by = engine /\ followup.purpose = Purpose /\ Grounded

\* The inductive invariant.
FollowupInv == JudgedFits /\ AskingFits /\ ShortAnswerAsked /\ QuestionFits

\* An answer that is too short or off the topic does not suffice, and forces a follow-up.
LEMMA WeakIsDetected ==
  ASSUME NEW a, a.length = "tooShort" \/ OffTopic(a)
  PROVE  ~Sufficient(a) /\ LocalTriggers(a) # {}
<1>1. ~Sufficient(a)
  BY DEF Sufficient
<1>2. CASE a.length = "tooShort"
  <2>1. Detected(a, "TOO_SHORT") /\ "TOO_SHORT" \in Trigger
    BY <1>2 DEF Detected, Trigger
  <2>2. QED
    BY <1>1, <2>1 DEF LocalTriggers
<1>3. CASE OffTopic(a)
  <2>1. Detected(a, "OFF_TOPIC") /\ "OFF_TOPIC" \in Trigger
    BY <1>3 DEF Detected, Trigger
  <2>2. QED
    BY <1>1, <2>1 DEF LocalTriggers
<1>4. QED
  BY <1>2, <1>3

\* A name is kept if it is defined, and an id if it is given.
LEMMA KnownIsTag == ASSUME NEW name PROVE Known(name) \in WeaknessTag
BY DEF Known, WeaknessTag, Trigger

LEMMA WeaknessIsTag == ASSUME NEW tag \in Given PROVE Weakness(tag) \in WeaknessTag
<1>1. PICK known \in Trigger : Known(tag.name) = [name |-> known, id |-> known]
  BY DEF Known, Trigger
<1>2. PICK id \in Trigger \cup {t.id : t \in Given} : id = IF tag.id = Nothing THEN known ELSE tag.id
  BY <1>1
<1>3. Weakness(tag) = [name |-> known, id |-> id]
  BY <1>1, <1>2 DEF Weakness
<1>4. QED
  BY <1>3 DEF WeaknessTag

\* Whatever a reply leaves out or contradicts, it is normalized to a decision or refused.
LEMMA NormalizedDecides ==
  ASSUME NEW r \in Replies, r # Garbage, NextOf(r) # Nothing
  PROVE  Decided(Normalized(r))
<1>1. /\ r.decision \in {"follow", "next", Nothing}
      /\ r.tags \in Seq(Given) /\ r.selected \in Given \cup {Nothing}
  BY JudgementAssumption DEF ReplyOK
<1>2. NextOf(r) \in {"follow", "next"}
  BY <1>1 DEF NextOf
<1>3. Normalized(r).next = NextOf(r)
  BY DEF Normalized
<1>4. ASSUME NextOf(r) = "follow" PROVE Normalized(r).selected \in WeaknessTag
  <2>1. CASE r.selected # Nothing
    <3>1. Normalized(r).selected = Weakness(r.selected) /\ r.selected \in Given
      BY <1>1, <2>1 DEF Normalized
    <3>2. QED
      BY <3>1, WeaknessIsTag
  <2>2. CASE r.selected = Nothing /\ r.tags # <<>>
    <3>1. Normalized(r).selected = Weakness(r.tags[1])
      BY <1>4, <2>2 DEF Normalized
    <3>2. r.tags[1] \in Given
      BY <1>1, <2>2
    <3>3. QED
      BY <3>1, <3>2, WeaknessIsTag
  <2>3. CASE r.selected = Nothing /\ r.tags = <<>>
    <3>1. Normalized(r).selected = Known("ABSTRACT_ANSWER")
      BY <1>4, <2>3 DEF Normalized
    <3>2. QED
      BY <3>1, KnownIsTag
  <2>4. QED
    BY <2>1, <2>2, <2>3
<1>5. QED
  BY <1>2, <1>3, <1>4 DEF Decided

\* At the start nothing is judged.
LEMMA FollowupInitially == FollowupInit => FollowupInv
BY DEF FollowupInit, JudgementInit, FollowupInv, JudgedFits, AskingFits, ShortAnswerAsked, QuestionFits

\* The judgement changes nothing of the rest, which has not begun.
LEMMA JudgingKeeps ==
  ASSUME FollowupInv, judging \notin {"done", "raised"}, UNCHANGED <<answer, followupVars>>, JudgedFits'
  PROVE  FollowupInv'
<1>1. asking = "judge" /\ asking' = asking
  BY DEF FollowupInv, AskingFits, followupVars
<1>2. QED
  BY <1>1 DEF FollowupInv, AskingFits, ShortAnswerAsked, QuestionFits

LEMMA JudgeByModelStep == ASSUME FollowupInv, JudgeByModel PROVE FollowupInv'
<1> USE DEF FollowupInv
<1>1. engine = "openai" /\ engine' = engine /\ JudgementNext /\ UNCHANGED followupVars
  BY DEF JudgeByModel, followupVars
<1>2. ASSUME NEW r \in Replies, RequestText(r) PROVE FollowupInv'
  <2>1. judging = "request" /\ judging' = "normalize" /\ reply' = r /\ answer' = answer
    BY <1>2 DEF RequestText
  <2>2. JudgedFits'
    BY <1>1, <2>1 DEF JudgedFits
  <2>3. QED
    BY <1>1, <2>1, <2>2, JudgingKeeps
<1>3. CASE Normalize
  <2>1. judging = "normalize" /\ answer' = answer /\ reply \in Replies
    BY <1>3 DEF Normalize, JudgedFits
  <2>2. CASE judging' = "raised"
    <3>1. JudgedFits'
      BY <1>1, <2>2 DEF JudgedFits
    <3>2. QED
      BY <1>1, <2>1, <3>1, JudgingKeeps
  <2>3. CASE judging' = "overrule" /\ judged' = Normalized(reply) /\ reply # Garbage /\ NextOf(reply) # Nothing
    <3>1. Decided(judged')
      BY <2>1, <2>3, NormalizedDecides
    <3>2. JudgedFits'
      BY <1>1, <2>3, <3>1 DEF JudgedFits, Decided
    <3>3. QED
      BY <1>1, <2>1, <3>2, JudgingKeeps
  <2>4. QED
    BY <1>3, <2>2, <2>3 DEF Normalize
<1>4. CASE Overrule
  <2>1. judging = "overrule" /\ judging' = "done" /\ answer' = answer /\ reply' = reply /\ Decided(judged)
    BY <1>1, <1>4 DEF Overrule, JudgedFits
  <2>2. /\ Decided(judged')
        /\ answer.length = "tooShort" \/ OffTopic(answer) => judged'.next = "follow"
    <3>1. CASE judged.next = "next" /\ LocalTriggers(answer) # {}
      <4>1. judged' = Forced(LocalTriggers(answer))
        BY <1>4, <3>1 DEF Overrule
      <4>2. judged'.next = "follow" /\ judged'.selected = Known(FirstOf(TriggerOrder, LocalTriggers(answer)))
        BY <4>1 DEF Forced
      <4>3. judged'.selected \in WeaknessTag
        BY <4>2, KnownIsTag
      <4>4. QED
        BY <4>2, <4>3 DEF Decided
    <3>2. CASE judged.next = "follow" /\ Suppressed(answer, judged)
      <4>1. Sufficient(answer) /\ judged' = [judged EXCEPT !.next = "next", !.sufficient = TRUE, !.selected = Nothing]
        BY <1>4, <3>2 DEF Overrule, Suppressed
      <4>2. ~(answer.length = "tooShort" \/ OffTopic(answer))
        BY <4>1, WeakIsDetected
      <4>3. QED
        BY <4>1, <4>2 DEF Decided
    <3>3. CASE /\ ~(judged.next = "next" /\ LocalTriggers(answer) # {})
               /\ ~(judged.next = "follow" /\ Suppressed(answer, judged))
      <4>1. judged' = judged
        BY <1>4, <3>3 DEF Overrule
      <4>2. QED
        BY <2>1, <3>3, <4>1, WeakIsDetected DEF Decided
    <3>4. QED
      BY <3>1, <3>2, <3>3
  <2>3. JudgedFits'
    BY <1>1, <2>1, <2>2 DEF JudgedFits, Decided, OffTopic
  <2>4. QED
    BY <1>1, <2>1, <2>3, JudgingKeeps
<1>5. QED
  BY <1>1, <1>2, <1>3, <1>4 DEF JudgementNext

LEMMA JudgeByMockStep == ASSUME FollowupInv, JudgeByMock PROVE FollowupInv'
<1>1. engine = "mock" /\ judging = "request" /\ judging' = "done" /\ UNCHANGED <<answer, reply, followupVars>>
  BY DEF JudgeByMock
<1>2. PICK missing \in SUBSET Range(MockTriggers) : judged' = MockJudged(missing)
  BY DEF JudgeByMock
<1>3. judged'.next = "follow" => judged'.selected.name = judged'.selected.id
  <2>1. CASE missing = {}
    BY <1>2, <2>1 DEF MockJudged
  <2>2. CASE missing # {}
    <3>1. judged'.selected = MockTag(FirstOf(MockTriggers, missing))
      BY <1>2, <2>2 DEF MockJudged
    <3>2. QED
      BY <3>1 DEF MockTag
  <2>3. QED
    BY <2>1, <2>2
<1>4. JudgedFits'
  BY <1>1, <1>3 DEF JudgedFits, followupVars
<1>5. QED
  BY <1>1, <1>4, JudgingKeeps

\* Beyond the judgement, the judgement stays.
LEMMA JudgementStays ==
  ASSUME FollowupInv, judging \in {"done", "raised"}, UNCHANGED <<answer, judging, judged, engine>>
  PROVE  JudgedFits'
BY DEF FollowupInv, JudgedFits, Decided, OffTopic

LEMMA DecideStep == ASSUME FollowupInv, Decide PROVE FollowupInv'
<1> USE DEF FollowupInv
<1>1. /\ asking = "judge" /\ judging \in {"done", "raised"}
      /\ UNCHANGED <<answer, judging, judged, engine, content, found, followup>>
      /\ asking' \in {"failed", "guard", "none"}
      /\ asking' = "guard" => judging = "done" /\ judged.next = "follow"
      /\ asking' = "none" => judging = "done" /\ (judged.next = "follow" => judged.selected = Nothing)
  BY DEF Decide
<1>2. JudgedFits'
  BY <1>1, JudgementStays
<1>3. AskingFits'
  BY <1>1 DEF AskingFits
<1>4. ShortAnswerAsked'
  <2>1. ~(engine = "openai" /\ answer.length = "tooShort" /\ asking' = "none")
    <3> SUFFICES ASSUME engine = "openai", answer.length = "tooShort", asking' = "none"
                 PROVE  FALSE
      OBVIOUS
    <3>1. judged.next = "follow" /\ judged.selected \in WeaknessTag
      BY <1>1 DEF JudgedFits, Decided
    <3>2. QED
      BY <1>1, <3>1, JudgementAssumption
  <2>2. QED
    BY <1>1, <2>1 DEF ShortAnswerAsked
<1>5. QuestionFits'
  BY <1>1 DEF QuestionFits
<1>6. QED
  BY <1>2, <1>3, <1>4, <1>5

\* A tag that doubts the answer by either name doubts it by its id: no trigger is called so.
LEMMA DoubtfulById ==
  ASSUME FollowupInv, judging = "done", judged.next = "follow",
         {judged.selected.name, judged.selected.id} \cap UnverifiedTags # {}
  PROVE  judged.selected.id \in UnverifiedTags
<1>1. CASE engine = "mock"
  BY <1>1 DEF FollowupInv, JudgedFits
<1>2. CASE engine = "openai"
  <2>1. judged.selected \in WeaknessTag
    BY <1>2 DEF FollowupInv, JudgedFits, Decided
  <2>2. judged.selected.name \in Trigger
    BY <2>1 DEF WeaknessTag
  <2>3. Trigger \cap UnverifiedTags = {}
    BY DEF Trigger, UnverifiedTags
  <2>4. QED
    BY <2>2, <2>3
<1>3. QED
  BY <1>1, <1>2 DEF FollowupInv, JudgedFits

\* What is mentioned is in the question or a document, or else in an analysis.
LEMMA MentionedSomewhere ==
  ASSUME NEW c \in Contents, NEW readable \in BOOLEAN
  PROVE  /\ UNION { c.held[p] : p \in Place } \subseteq Mentioned(c, readable)
         /\ Mentioned(c, readable) \subseteq (UNION { c.held[p] : p \in Place }) \cup (UNION Range(c.analyses))
<1>1. c.held \in [Place -> SUBSET Technology] /\ c.analyses \in Seq(SUBSET Technology)
  BY FollowupAssumption DEF Content
<1>2. Range(c.held) = { c.held[p] : p \in Place }
  BY <1>1 DEF Range
<1>3. c.analyses # <<>> => Last(c.analyses) \in Range(c.analyses)
  <2>1. c.analyses # <<>> => Len(c.analyses) \in DOMAIN c.analyses
    BY <1>1
  <2>2. QED
    BY <2>1 DEF Last, Range
<1>4. QED
  BY <1>2, <1>3 DEF Mentioned

LEMMA GuardrailStep ==
  ASSUME FollowupInv, NEW c \in Contents, NEW readable \in BOOLEAN, Guardrail(c, readable)
  PROVE  FollowupInv'
<1> USE DEF FollowupInv
<1>1. /\ asking = "guard" /\ content' = c /\ found' = Looked(c, judged.selected, readable)
      /\ UNCHANGED <<judgementVars, engine, followup>>
  BY DEF Guardrail
<1>2. judging = "done" /\ judged.next = "follow"
  BY <1>1 DEF AskingFits
<1>3. JudgedFits'
  BY <1>1, <1>2, JudgementStays DEF judgementVars
<1>4. /\ asking' \in {"none", "confirm", "generate"}
      /\ asking' = "none" => found' \cap OffLimits # {}
      /\ asking' = "confirm" => found' \cap Doubtful # {}
      /\ asking' = "generate" => found' \cap Doubtful = {}
  BY DEF Guardrail, GuardrailDecision
<1>5. AskingFits' /\ ShortAnswerAsked'
  BY <1>1, <1>2, <1>4 DEF AskingFits, ShortAnswerAsked, judgementVars
<1>6. c.asks \subseteq {"prompt_injection", "internal_criteria"}
  BY FollowupAssumption DEF Content
<1>7. asking' = "generate" => Grounded'
  <2> SUFFICES ASSUME asking' = "generate", c.claims
               PROVE  c.names \subseteq (UNION { c.held[p] : p \in Place }) \cup (UNION Range(c.analyses))
    BY <1>1 DEF Grounded
  <2>1. "claim_not_in_documents" \notin found'
    BY <1>4 DEF Doubtful
  <2>2. Unverified(c, readable) = {}
    BY <1>1, <2>1 DEF Looked
  <2>3. c.names \subseteq Mentioned(c, readable)
    BY <2>2 DEF Unverified
  <2>4. QED
    BY <2>3, MentionedSomewhere
<1>8. asking' = "confirm" => Questioned'
  <2> SUFFICES ASSUME asking' = "confirm"
               PROVE  \/ c.claims /\ ~(c.names \subseteq UNION { c.held[p] : p \in Place })
                      \/ judged.selected.id \in UnverifiedTags
    BY <1>1 DEF Questioned, judgementVars
  <2>1. "claim_not_in_documents" \in found' \/ "unverified_claim_tag" \in found'
    BY <1>4 DEF Doubtful
  <2>2. CASE Unverified(c, readable) # {}
    <3>1. c.claims /\ ~(c.names \subseteq Mentioned(c, readable))
      BY <2>2 DEF Unverified
    <3>2. QED
      BY <3>1, MentionedSomewhere
  <2>3. CASE {judged.selected.name, judged.selected.id} \cap UnverifiedTags # {}
    BY <1>2, <2>3, DoubtfulById
  <2>4. QED
    BY <1>1, <1>6, <2>1, <2>2, <2>3 DEF Looked
<1>9. QuestionFits'
  BY <1>4, <1>7, <1>8 DEF QuestionFits
<1>10. QED
  BY <1>3, <1>5, <1>9

LEMMA FinishesStep ==
  ASSUME FollowupInv, asking \in {"confirm", "generate"}, NEW how \in {"stored", "failed"}, NEW q,
         Finishes(how, q),
         how = "stored" => \/ q.by = "guardrail" /\ asking = "confirm"
                           \/ q.by = engine /\ q.purpose = Purpose /\ asking = "generate"
  PROVE  FollowupInv'
<1> USE DEF FollowupInv
<1>1. asking' = how /\ followup' = q /\ UNCHANGED <<answer, reply, judging, judged, engine, content, found>>
  BY DEF Finishes, judgementVars
<1>2. judging = "done" /\ judged.next = "follow"
  BY DEF AskingFits
<1>3. JudgedFits'
  BY <1>1, <1>2, JudgementStays
<1>4. AskingFits' /\ ShortAnswerAsked'
  BY <1>1, <1>2 DEF AskingFits, ShortAnswerAsked
<1>5. (Grounded <=> Grounded') /\ (Questioned <=> Questioned') /\ Purpose' = Purpose
  BY <1>1 DEF Grounded, Questioned, Purpose
<1>6. QuestionFits'
  BY <1>1, <1>5 DEF QuestionFits
<1>7. QED
  BY <1>3, <1>4, <1>6

LEMMA ConfirmationStep == ASSUME FollowupInv, Confirmation PROVE FollowupInv'
<1>1. asking = "confirm" /\ Finishes("stored", [by |-> "guardrail", purpose |-> Nothing, reference |-> "guardrail"])
  BY DEF Confirmation
<1>2. QED
  BY <1>1, FinishesStep

LEMMA WordQuestionStep == ASSUME FollowupInv, WordQuestion PROVE FollowupInv'
<1>1. CASE Finishes("stored", [by |-> engine, purpose |-> Purpose, reference |-> Reference])
  BY <1>1, FinishesStep DEF WordQuestion
<1>2. CASE Finishes("failed", Nothing)
  BY <1>2, FinishesStep DEF WordQuestion
<1>3. QED
  BY <1>1, <1>2 DEF WordQuestion

LEMMA FollowupStep == ASSUME FollowupInv, [FollowupNext]_<<judgementVars, followupVars>> PROVE FollowupInv'
<1>1. CASE UNCHANGED <<judgementVars, followupVars>>
  <2>1. UNCHANGED <<answer, reply, judging, judged, engine, content, found, asking, followup>>
    BY <1>1 DEF judgementVars, followupVars
  <2>2. JudgedFits' /\ AskingFits'
    BY <2>1 DEF FollowupInv, JudgedFits, AskingFits, Decided, OffTopic
  <2>3. ShortAnswerAsked' /\ QuestionFits'
    BY <2>1 DEF FollowupInv, ShortAnswerAsked, QuestionFits, Grounded, Questioned, Purpose
  <2>4. QED
    BY <2>2, <2>3 DEF FollowupInv
<1>2. QED
  BY <1>1, JudgeByModelStep, JudgeByMockStep, DecideStep, GuardrailStep, ConfirmationStep, WordQuestionStep
     DEF FollowupNext

\* Through the three tables, every weakness that is defined is asked about as what it is.
LEMMA PurposeFits ==
  ASSUME NEW name \in Trigger
  PROVE  PurposeOf(TagOf(name)) =
           CASE name = "TECH_DEPTH_LOW" -> "technical_understanding"
             [] name \in {"MISSING_REASON", "NO_ALTERNATIVE"} -> "technology_choice_reasoning"
             [] name = "WEAK_JD_LINK" -> "job_requirement_alignment"
             [] OTHER -> "answer_clarification"
BY DEF Trigger, TagOf, TriggerAliases, PurposeOf, TechnicalPurposes

LEMMA FollowupTells == ASSUME FollowupInv PROVE WeakAnswerFollowed
<1> USE DEF FollowupInv
<1>1. ASSUME engine = "openai", judging = "done", judged.next = "follow" PROVE judged.selected.name \in Trigger
  <2>1. judged.selected \in WeaknessTag
    BY <1>1 DEF JudgedFits, Decided
  <2>2. QED
    BY <2>1 DEF WeaknessTag
<1>2. JudgedByRules
  BY <1>1 DEF JudgedFits, JudgedByRules
<1>3. ClaimsChecked
  <2> SUFFICES ASSUME asking = "stored" PROVE ClaimsChecked
    BY DEF ClaimsChecked
  <2>1. CASE followup.by = "guardrail" /\ Questioned
    BY <2>1 DEF Questioned, ClaimsChecked
  <2>2. CASE followup.by = engine /\ Grounded
    <3>1. followup.by # "guardrail"
      BY <2>2 DEF JudgedFits
    <3>2. QED
      BY <2>2, <3>1, Zenon DEF Grounded, ClaimsChecked
  <2>3. QED
    BY <2>1, <2>2 DEF QuestionFits
<1>4. FitsWeakness
  <2> SUFFICES ASSUME asking = "stored", followup.by = "openai" PROVE FitsWeakness
    BY DEF FitsWeakness
  <2>1. engine = "openai" /\ followup.purpose = Purpose
    BY DEF QuestionFits
  <2>2. judged.selected.name \in Trigger
    BY <1>1, <2>1 DEF AskingFits
  <2>3. QED
    BY <2>1, <2>2, PurposeFits DEF Purpose, FitsWeakness
<1>5. QED
  BY <1>2, <1>3, <1>4 DEF WeakAnswerFollowed

\* Whatever the two models reply, for every answer, set of documents and tags: the rules follow
\* up an answer that is too short or off the topic, by a weakness that is defined, and only the
\* guardrail or a failure keeps it from a follow-up; no question builds upon a claim that neither
\* the question, a document nor an analysis holds; and what the second model is told to ask about
\* is the weakness that was found (ai_chain_openai_engine.py:949, follow_up_generator.py:370, 741).
THEOREM WeakAnswerFollowedCorrect == FollowupSpec => []WeakAnswerFollowed
<1>1. FollowupInit => FollowupInv
  BY FollowupInitially
<1>2. FollowupInv /\ [FollowupNext]_<<judgementVars, followupVars>> => FollowupInv'
  BY FollowupStep
<1>3. FollowupInv => WeakAnswerFollowed
  BY FollowupTells
<1>4. QED
  BY <1>1, <1>2, <1>3, PTL DEF FollowupSpec

-----------------------------------------------------------------------------
(* The selection of questions *)

\* What _append_unique_questions makes of a list: it stays as it is, and what comes behind is
\* new to it and to itself; either it is full or every candidate that is not blank is excluded
\* or in it.
Extends(out, target, candidates, limit, excluded) ==
  /\ Len(target) <= Len(out) /\ Len(out) <= limit
  /\ \A i \in 1 .. Len(target) : out[i] = target[i]
  /\ \A i \in (Len(target) + 1) .. Len(out) :
       /\ out[i].text \notin excluded \cup {Blank}
       /\ \E p \in DOMAIN candidates : out[i] = candidates[p]
  /\ \A i, j \in (Len(target) + 1) .. Len(out) : i # j => out[i].text # out[j].text
  /\ \/ Len(out) = limit
     \/ /\ Len(out) = Len(target) + Cardinality(Fresh(candidates, excluded))
        /\ \A p \in DOMAIN candidates : candidates[p].text \in excluded \cup {Blank} \cup Texts(out)

\* The first of the candidates with a text is fresh if the text is.
LEMMA FirstIsFresh ==
  ASSUME NEW S, NEW candidates \in Seq(S), NEW excluded, NEW p \in DOMAIN candidates,
         candidates[p].text \notin excluded \cup {Blank}
  PROVE  \E q \in Fresh(candidates, excluded) : candidates[q].text = candidates[p].text
<1> DEFINE same == { q \in DOMAIN candidates : candidates[q].text = candidates[p].text }
<1>1. same \in SUBSET Nat /\ same # {}
  OBVIOUS
<1>2. PICK q \in same : \A r \in same : q <= r
  <2> HIDE DEF same
  <2>1. QED
    BY <1>1, LeastElement
<1>3. q \in 1 .. Len(candidates)
  OBVIOUS
<1>4. \A j \in 1 .. q - 1 : j \in DOMAIN candidates /\ ~(q <= j)
  BY <1>3
<1>5. \A j \in 1 .. q - 1 : candidates[j].text # candidates[q].text
  BY <1>2, <1>4
<1>6. q \in Fresh(candidates, excluded)
  BY <1>3, <1>5 DEF Fresh
<1>7. QED
  BY <1>6

\* Fresh candidates differ.
LEMMA FreshDiffer ==
  ASSUME NEW S, NEW candidates \in Seq(S), NEW excluded,
         NEW p \in Fresh(candidates, excluded), NEW q \in Fresh(candidates, excluded), p # q
  PROVE  candidates[p].text # candidates[q].text
<1>1. p \in 1 .. Len(candidates) /\ q \in 1 .. Len(candidates)
  BY DEF Fresh
<1>2. CASE p < q
  <2>1. p \in 1 .. q - 1
    BY <1>1, <1>2
  <2>2. QED
    BY <2>1 DEF Fresh
<1>3. CASE q < p
  <2>1. q \in 1 .. p - 1
    BY <1>1, <1>3
  <2>2. QED
    BY <2>1 DEF Fresh
<1>4. QED
  BY <1>1, <1>2, <1>3

LEMMA AppendExtends ==
  ASSUME NEW S, NEW target \in Seq(S), NEW candidates \in Seq(S), NEW limit \in Nat, NEW excluded,
         Len(target) <= limit
  PROVE  /\ AppendUnique(target, candidates, limit, excluded) \in Seq(S)
         /\ Extends(AppendUnique(target, candidates, limit, excluded), target, candidates, limit, excluded)
<1> DEFINE F == Fresh(candidates, excluded)
<1> DEFINE W == Where(candidates, F)
<1> DEFINE C == Cut(W, limit - Len(target))
<1> DEFINE out == AppendUnique(target, candidates, limit, excluded)
<1> DEFINE N == Len(target)
<1>1. F \in SUBSET DOMAIN candidates
  BY DEF Fresh
<1> HIDE DEF F
<1>2. /\ W \in Seq(S) /\ Cardinality(F) \in Nat /\ Len(W) = Cardinality(F)
      /\ \A p \in F : Rank(F, p) \in 1 .. Cardinality(F) /\ W[Rank(F, p)] = candidates[p]
      /\ \A k \in 1 .. Cardinality(F) : \E p \in F : Rank(F, p) = k /\ W[k] = candidates[p]
  BY <1>1, WhereTakes
<1> HIDE DEF W
<1>3. N \in Nat /\ limit - N \in Nat
  OBVIOUS
<1>4. /\ C \in Seq(S) /\ Len(C) <= limit - N /\ Len(C) <= Len(W)
      /\ Len(C) = limit - N \/ Len(C) = Len(W)
      /\ \A i \in 1 .. Len(C) : C[i] = W[i]
  BY <1>2, <1>3, CutTakes
<1>5. out = target \o C
  BY DEF AppendUnique, F, W
<1> HIDE DEF C, out
<1>6. /\ out \in Seq(S) /\ Len(out) = N + Len(C) /\ Len(C) \in Nat
      /\ \A i \in 1 .. N : out[i] = target[i]
      /\ \A i \in (N + 1) .. Len(out) : i - N \in 1 .. Len(C) /\ out[i] = C[i - N]
      /\ \A i \in 1 .. Len(C) : i + N \in 1 .. Len(out) /\ out[i + N] = C[i]
  BY <1>4, <1>5
<1>7. ASSUME NEW i \in (N + 1) .. Len(out)
      PROVE  \E p \in F : Rank(F, p) = i - N /\ out[i] = candidates[p]
  <2>1. i - N \in 1 .. Cardinality(F) /\ out[i] = W[i - N]
    BY <1>2, <1>4, <1>6
  <2>2. QED
    BY <1>2, <2>1
<1>8. ASSUME NEW i \in (N + 1) .. Len(out)
      PROVE  out[i].text \notin excluded \cup {Blank} /\ \E p \in DOMAIN candidates : out[i] = candidates[p]
  BY <1>1, <1>7 DEF F, Fresh
<1>9. ASSUME NEW i \in (N + 1) .. Len(out), NEW j \in (N + 1) .. Len(out), i # j
      PROVE  out[i].text # out[j].text
  <2>1. PICK p \in F : Rank(F, p) = i - N /\ out[i] = candidates[p]
    BY <1>7
  <2>2. PICK q \in F : Rank(F, q) = j - N /\ out[j] = candidates[q]
    BY <1>7
  <2>3. i - N # j - N
    BY <1>3, <1>9
  <2>4. p # q
    BY <2>1, <2>2, <2>3
  <2>5. QED
    BY <2>1, <2>2, <2>4, FreshDiffer DEF F
<1>10. ASSUME Len(out) # limit
       PROVE  /\ Len(out) = N + Cardinality(F)
              /\ \A p \in DOMAIN candidates : candidates[p].text \in excluded \cup {Blank} \cup Texts(out)
  <2>1. Len(C) = Len(W) /\ Len(out) = N + Cardinality(F)
    BY <1>2, <1>3, <1>4, <1>6, <1>10
  <2>2. ASSUME NEW p \in DOMAIN candidates, candidates[p].text \notin excluded \cup {Blank}
        PROVE  candidates[p].text \in Texts(out)
    <3>1. PICK q \in F : candidates[q].text = candidates[p].text
      BY <2>2, FirstIsFresh DEF F
    <3>2. Rank(F, q) \in 1 .. Len(C) /\ C[Rank(F, q)] = candidates[q]
      BY <1>2, <1>4, <2>1
    <3>3. Rank(F, q) + N \in DOMAIN out /\ out[Rank(F, q) + N] = candidates[q]
      BY <1>6, <3>2
    <3>4. QED
      BY <3>1, <3>3 DEF Texts
  <2>3. QED
    BY <2>1, <2>2
<1>11. Len(target) <= Len(out) /\ Len(out) <= limit
  BY <1>3, <1>4, <1>6
<1>12. Extends(out, target, candidates, limit, excluded)
  BY <1>6, <1>8, <1>9, <1>10, <1>11 DEF Extends, F
<1>13. QED
  BY <1>6, <1>12 DEF out

\* Candidates that are new to a list and to each other are all fresh.
LEMMA AllFresh ==
  ASSUME NEW S, NEW candidates \in Seq(S), NEW excluded,
         \A p \in DOMAIN candidates : candidates[p].text \notin excluded \cup {Blank},
         \A p, q \in DOMAIN candidates : p # q => candidates[p].text # candidates[q].text
  PROVE  Cardinality(Fresh(candidates, excluded)) = Len(candidates)
<1>1. Len(candidates) \in Nat
  OBVIOUS
<1>2. ASSUME NEW p \in 1 .. Len(candidates), NEW j \in 1 .. p - 1
      PROVE  candidates[j].text # candidates[p].text
  <2>1. j \in DOMAIN candidates /\ p \in DOMAIN candidates /\ j # p
    BY <1>1, <1>2
  <2>2. QED
    BY <2>1
<1>3. Fresh(candidates, excluded) = 1 .. Len(candidates)
  BY <1>2 DEF Fresh
<1>4. QED
  BY <1>1, <1>3, FS_Interval

-----------------------------------------------------------------------------
(* The sources *)

QuestionText == Text \cup {Blank} \cup { RuleText(i) : i \in 1 .. MaxCount }

Question ==
  [text : QuestionText, by : {"ai", "prepared", "bank", "rule"},
   category : {"general"} \cup InterviewType, ix : Nat]

\* A list of texts as questions of one source.
LEMMA FromFits ==
  ASSUME NEW texts \in Seq(QuestionText), NEW by \in {"ai", "prepared", "bank", "rule"}
  PROVE  /\ From(texts, by) \in Seq(Question) /\ Len(From(texts, by)) = Len(texts)
         /\ \A i \in DOMAIN From(texts, by) : From(texts, by)[i].text = texts[i] /\ From(texts, by)[i].by = by
<1> DEFINE q(i) == [text |-> texts[i], by |-> by, category |-> "general", ix |-> 0]
<1>1. \A i \in 1 .. Len(texts) : texts[i] \in QuestionText
  OBVIOUS
<1>2. \A i \in 1 .. Len(texts) : q(i) \in Question
  BY <1>1 DEF Question
<1>3. From(texts, by) = [i \in 1 .. Len(texts) |-> q(i)]
  BY DEF From
<1>4. \A i \in 1 .. Len(texts) : q(i).text = texts[i] /\ q(i).by = by
  OBVIOUS
<1> HIDE DEF q
<1>5. QED
  BY <1>2, <1>3, <1>4

\* The texts of stored questions.
LEMMA TextsOfFits ==
  ASSUME NEW qs \in Seq(StoredQuestion)
  PROVE  /\ TextsOf(qs) \in Seq(QuestionText) /\ Len(TextsOf(qs)) = Len(qs)
         /\ \A i \in DOMAIN qs : TextsOf(qs)[i] = qs[i].text
<1>1. ASSUME NEW i \in 1 .. Len(qs) PROVE qs[i].text \in QuestionText
  <2>1. qs[i] \in StoredQuestion
    OBVIOUS
  <2>2. QED
    BY <2>1 DEF StoredQuestion, QuestionText
<1>2. TextsOf(qs) = [i \in 1 .. Len(qs) |-> qs[i].text]
  BY DEF TextsOf
<1>3. QED
  BY <1>1, <1>2

\* A session has a newest analysis if it has any.
LEMMA NewestIsOne ==
  ASSUME NEW analyses, IsFiniteSet(analyses), analyses # {}, \A a \in analyses : AnalysisOK(a)
  PROVE  Newest(analyses) \in analyses
<1> DEFINE older(a) == { b \in analyses : b.at <= a.at }
<1> DEFINE sizes == { Cardinality(older(a)) : a \in analyses }
<1>1. \A a \in analyses : a.at \in Nat
  BY DEF AnalysisOK
<1>2. Cardinality(analyses) \in Nat
  BY FS_CardinalityType
<1>3. ASSUME NEW a \in analyses
      PROVE  IsFiniteSet(older(a)) /\ Cardinality(older(a)) \in 0 .. Cardinality(analyses)
  <2>1. older(a) \in SUBSET analyses
    OBVIOUS
  <2> HIDE DEF older
  <2>2. IsFiniteSet(older(a)) /\ Cardinality(older(a)) <= Cardinality(analyses)
    BY <2>1, FS_Subset
  <2>3. Cardinality(older(a)) \in Nat
    BY <2>2, FS_CardinalityType
  <2>4. QED
    BY <1>2, <2>2, <2>3
<1>4. sizes \in SUBSET (0 .. Cardinality(analyses)) /\ sizes # {}
  BY <1>3
<1>5. PICK n \in sizes : \A m \in sizes : m <= n
  <2> HIDE DEF sizes
  <2>1. QED
    BY <1>2, <1>4, GreatestElement
<1>6. PICK a \in analyses : n = Cardinality(older(a))
  OBVIOUS
<1>7. ASSUME NEW b \in analyses, ~(b.at <= a.at) PROVE FALSE
  <2>1. older(a) \in SUBSET older(b) /\ b \in older(b) /\ b \notin older(a)
    BY <1>1, <1>7
  <2>2. IsFiniteSet(older(b)) /\ Cardinality(older(a)) \in Nat /\ Cardinality(older(b)) \in Nat
    BY <1>3
  <2>3. Cardinality(older(b)) <= Cardinality(older(a))
    BY <1>5, <1>6
  <2> HIDE DEF older
  <2>4. Cardinality(older(a)) = Cardinality(older(b))
    BY <2>1, <2>2, <2>3, FS_Subset
  <2>5. QED
    BY <2>1, <2>2, <2>4, FS_Subset
<1>8. \A b \in analyses : b.at <= a.at
  BY <1>7
<1>9. QED
  BY <1>8 DEF Newest

LEMMA LatestFits ==
  ASSUME NEW s, SessionOK(s)
  PROVE  LatestAnalysis(s) = NoAnalysis \/ AnalysisOK(LatestAnalysis(s))
<1>1. CASE s.requested # NoAnalysis
  BY <1>1 DEF LatestAnalysis, SessionOK
<1>2. CASE s.requested = NoAnalysis /\ (~s.jd \/ ~s.resume \/ s.analyses = {})
  BY <1>2 DEF LatestAnalysis
<1>3. CASE s.requested = NoAnalysis /\ ~(~s.jd \/ ~s.resume \/ s.analyses = {})
  <2> DEFINE same == { a \in s.analyses : a.letter }
  <2> DEFINE choice == IF s.letter /\ same # {} THEN same ELSE s.analyses
  <2>1. LatestAnalysis(s) = Newest(choice)
    BY <1>3 DEF LatestAnalysis
  <2>2. IsFiniteSet(s.analyses) /\ \A a \in s.analyses : AnalysisOK(a)
    BY DEF SessionOK
  <2>3. same \in SUBSET s.analyses
    OBVIOUS
  <2>4. IsFiniteSet(same)
    <3> HIDE DEF same
    <3>1. QED
      BY <2>2, <2>3, FS_Subset
  <2>5. IsFiniteSet(choice) /\ choice # {} /\ choice \in SUBSET s.analyses
    BY <1>3, <2>2, <2>3, <2>4
  <2> HIDE DEF choice
  <2>6. Newest(choice) \in choice
    BY <2>2, <2>5, NewestIsOne
  <2>7. QED
    BY <2>1, <2>2, <2>5, <2>6
<1>4. QED
  BY <1>1, <1>2, <1>3

LEMMA PreparedOfFits == ASSUME NEW s, SessionOK(s) PROVE PreparedOf(s) \in Seq(StoredQuestion)
<1>1. CASE LatestAnalysis(s) = NoAnalysis
  BY <1>1 DEF PreparedOf
<1>2. CASE LatestAnalysis(s) # NoAnalysis
  <2> DEFINE qs == LatestAnalysis(s).questions
  <2> DEFINE places == { i \in DOMAIN qs : Allowed(qs[i], s.type) }
  <2>1. qs \in Seq(StoredQuestion)
    BY <1>2, LatestFits DEF AnalysisOK
  <2>2. PreparedOf(s) = Where(qs, places)
    BY <1>2 DEF PreparedOf
  <2>3. places \in SUBSET DOMAIN qs
    OBVIOUS
  <2> HIDE DEF qs, places
  <2>4. QED
    BY <2>1, <2>2, <2>3, WhereTakes
<1>3. QED
  BY <1>1, <1>2

LEMMA CandidatesFit ==
  ASSUME NEW s, SessionOK(s), NEW count \in Nat PROVE Candidates(s, count) \in Seq(StoredQuestion)
<1> DEFINE places == { i \in DOMAIN s.bank : s.bank[i].type \in BankTypes(s.type) }
<1>1. s.bank \in Seq(StoredQuestion)
  BY DEF SessionOK
<1>2. places \in SUBSET DOMAIN s.bank
  OBVIOUS
<1>3. Candidates(s, count) = Cut(Where(s.bank, places), count)
  BY DEF Candidates
<1> HIDE DEF places
<1>4. Where(s.bank, places) \in Seq(StoredQuestion)
  BY <1>1, <1>2, WhereTakes
<1>5. QED
  BY <1>3, <1>4, CutTakes

\* The templates never run out: of as many as are missing and excluded together, no more are
\* excluded than there are texts to exclude.
LEMMA RulesSuffice ==
  ASSUME NEW count \in Nat, NEW excluded, IsFiniteSet(excluded), count + Cardinality(excluded) <= MaxCount
  PROVE  /\ Rules(count, excluded) \in Seq(Question) /\ Len(Rules(count, excluded)) = count
         /\ \A i \in DOMAIN Rules(count, excluded) :
              /\ Rules(count, excluded)[i].text \notin excluded \cup {Blank}
              /\ Rules(count, excluded)[i].by = "rule"
         /\ \A i, j \in DOMAIN Rules(count, excluded) :
              i # j => Rules(count, excluded)[i].text # Rules(count, excluded)[j].text
<1> DEFINE n == count + Cardinality(excluded)
<1> DEFINE tries == [ i \in 1 .. n |-> RuleText(i) ]
<1> DEFINE qs == From(tries, "rule")
<1> DEFINE K == { i \in 1 .. n : RuleText(i) \in excluded }
<1>1. /\ Cardinality(excluded) \in Nat /\ n \in Nat /\ n <= MaxCount /\ MaxCount \in Nat
      /\ n = count + Cardinality(excluded)
  BY FS_CardinalityType, SessionsAssumption
<1> HIDE DEF n
<1>2. \A i \in 1 .. n : RuleText(i) \in QuestionText /\ RuleText(i) # Blank
  BY <1>1, TemplatesAssumption DEF QuestionText
<1>3. tries \in Seq(QuestionText) /\ Len(tries) = n /\ \A i \in 1 .. n : tries[i] = RuleText(i)
  BY <1>1, <1>2
<1>4. \A i, j \in 1 .. n : i # j => RuleText(i) # RuleText(j)
  BY DEF RuleText
<1>5. Rules(count, excluded) = AppendUnique(<<>>, qs, count, excluded)
  BY DEF Rules, n
<1> HIDE DEF tries
<1>6. /\ qs \in Seq(Question) /\ Len(qs) = n
      /\ \A i \in 1 .. n : qs[i].text = RuleText(i) /\ qs[i].by = "rule"
  BY <1>1, <1>3, FromFits
<1> HIDE DEF qs
<1>7. Fresh(qs, excluded) = (1 .. n) \ K
  <2>1. \A i \in 1 .. n : \A j \in 1 .. i - 1 : j \in 1 .. n /\ j # i
    BY <1>1
  <2>2. \A i \in 1 .. n : \A j \in 1 .. i - 1 : qs[j].text # qs[i].text
    BY <1>4, <1>6, <2>1
  <2>3. DOMAIN qs = 1 .. n
    BY <1>6
  <2>4. \A i \in 1 .. n : qs[i].text \notin excluded \cup {Blank} <=> i \notin K
    BY <1>2, <1>6
  <2>5. QED
    BY <2>2, <2>3, <2>4 DEF Fresh
<1>8. IsFiniteSet(K) /\ Cardinality(K) <= Cardinality(excluded)
  <2> DEFINE f == [i \in K |-> RuleText(i)]
  <2>1. f \in [K -> excluded]
    OBVIOUS
  <2>2. \A i, j \in K : f[i] = f[j] => i = j
    BY <1>4
  <2> HIDE DEF f, K
  <2>3. f \in Injection(K, excluded)
    BY <2>1, <2>2 DEF Injection, IsInjective
  <2>4. QED
    BY <2>3, FS_Injection
<1>9. Cardinality(Fresh(qs, excluded)) >= count
  <2>1. IsFiniteSet(1 .. n) /\ Cardinality(1 .. n) = n
    BY <1>1, FS_Interval
  <2>2. (1 .. n) \cap K = K
    OBVIOUS
  <2> HIDE DEF K
  <2>3. Cardinality((1 .. n) \ K) = n - Cardinality(K)
    BY <2>1, <2>2, FS_Difference
  <2>4. Cardinality(K) \in Nat
    BY <1>8, FS_CardinalityType
  <2>5. QED
    BY <1>1, <1>7, <1>8, <2>3, <2>4
<1> HIDE DEF K
<1>10. PICK none \in Seq(Question) : none = <<>> /\ Len(none) = 0
  <2>1. <<>> \in Seq(Question) /\ Len(<<>>) = 0
    OBVIOUS
  <2>2. QED
    BY <2>1
<1>11. /\ Rules(count, excluded) \in Seq(Question)
       /\ Extends(Rules(count, excluded), none, qs, count, excluded)
  <2>1. Len(none) <= count /\ Rules(count, excluded) = AppendUnique(none, qs, count, excluded)
    BY <1>5, <1>10
  <2>2. QED
    BY <1>6, <1>10, <2>1, AppendExtends
<1>12. Cardinality(Fresh(qs, excluded)) \in Nat
  <2>1. IsFiniteSet(1 .. n) /\ (1 .. n) \ K \in SUBSET (1 .. n)
    BY <1>1, FS_Interval
  <2>2. QED
    BY <1>7, <2>1, FS_Subset, FS_CardinalityType
<1>13. Len(Rules(count, excluded)) = count
  BY <1>9, <1>10, <1>11, <1>12 DEF Extends
<1>14. QED
  <2> DEFINE r == Rules(count, excluded)
  <2>1. r \in Seq(Question) /\ DOMAIN r = 1 .. Len(r) /\ 1 .. Len(r) = (Len(none) + 1) .. Len(r)
    BY <1>10, <1>11
  <2>2. DOMAIN qs = 1 .. n
    BY <1>6
  <2> HIDE DEF r
  <2>3. Extends(r, none, qs, count, excluded)
    BY <1>11 DEF r
  <2>4. \A i \in DOMAIN r : r[i].text \notin excluded \cup {Blank} /\ r[i].by = "rule"
    <3>1. \A p \in DOMAIN qs : qs[p].by = "rule"
      BY <1>6, <2>2
    <3>2. \A i \in (Len(none) + 1) .. Len(r) :
            r[i].text \notin excluded \cup {Blank} /\ \E p \in DOMAIN qs : r[i] = qs[p]
      BY <2>3 DEF Extends
    <3>3. QED
      BY <2>1, <3>1, <3>2
  <2>5. \A i, j \in DOMAIN r : i # j => r[i].text # r[j].text
    BY <2>1, <2>3 DEF Extends
  <2>6. QED
    BY <1>11, <1>13, <2>4, <2>5 DEF r

\* No question is blank, and no two are alike.
Clear(qs) ==
  /\ \A i \in DOMAIN qs : qs[i].text # Blank
  /\ \A i, j \in DOMAIN qs : i # j => qs[i].text # qs[j].text

\* What a source's candidates make of a list that is clear.
Grows(s, c, limit, out) ==
  /\ out \in Seq(Question) /\ Clear(out) /\ Len(out) <= limit /\ Texts(s) \subseteq Texts(out)
  /\ \A i \in DOMAIN out :
       (\E j \in DOMAIN s : out[i] = s[j]) \/ (\E p \in DOMAIN c : out[i] = c[p])
  /\ Len(out) = limit \/ Texts(c) \ {Blank} \subseteq Texts(out)
  /\ Clear(c) /\ Texts(c) \cap Texts(s) = {} => Len(out) = limit \/ Len(out) = Len(s) + Len(c)

LEMMA TakeFacts ==
  ASSUME NEW s \in Seq(Question), Clear(s), NEW c \in Seq(Question), NEW limit \in Nat, Len(s) <= limit,
         NEW out, out = AppendUnique(s, c, limit, Texts(s))
  PROVE  Grows(s, c, limit, out)
<1> DEFINE N == Len(s)
<1>1. out \in Seq(Question) /\ Extends(out, s, c, limit, Texts(s))
  BY AppendExtends
<1>2. /\ N \in Nat /\ Len(out) \in Nat /\ N <= Len(out) /\ DOMAIN out = 1 .. Len(out) /\ DOMAIN s = 1 .. N
      /\ Len(c) \in Nat /\ DOMAIN c = 1 .. Len(c)
  BY <1>1 DEF Extends
<1>3. \A i \in DOMAIN out : i \in 1 .. N \/ i \in (N + 1) .. Len(out)
  BY <1>2
<1>4. \A i \in 1 .. N : i \in DOMAIN s /\ i \in DOMAIN out /\ out[i] = s[i] /\ out[i].text \in Texts(s)
  <2>1. \A i \in 1 .. N : i \in DOMAIN s /\ i \in DOMAIN out
    BY <1>2
  <2>2. \A i \in 1 .. N : out[i] = s[i]
    BY <1>1 DEF Extends
  <2>3. \A i \in DOMAIN s : s[i].text \in Texts(s)
    BY DEF Texts
  <2>4. QED
    BY <2>1, <2>2, <2>3
<1>5. \A i \in (N + 1) .. Len(out) :
        out[i].text \notin Texts(s) \cup {Blank} /\ \E p \in DOMAIN c : out[i] = c[p]
  BY <1>1 DEF Extends
<1>6. \A i, j \in (N + 1) .. Len(out) : i # j => out[i].text # out[j].text
  BY <1>1 DEF Extends
<1>7. Clear(out)
  <2>1. \A i \in DOMAIN out : out[i].text # Blank
    BY <1>3, <1>4, <1>5 DEF Clear
  <2>2. \A i, j \in 1 .. N : i # j => out[i].text # out[j].text
    BY <1>4 DEF Clear
  <2>3. \A i, j \in DOMAIN out : i # j => out[i].text # out[j].text
    BY <1>3, <1>4, <1>5, <1>6, <2>2
  <2>4. QED
    BY <2>1, <2>3 DEF Clear
<1>8. Texts(s) \subseteq Texts(out)
  <2>1. \A i \in DOMAIN s : i \in DOMAIN out /\ out[i].text = s[i].text
    BY <1>2, <1>4
  <2>2. QED
    BY <2>1 DEF Texts
<1>9. Len(out) = limit \/ Texts(c) \ {Blank} \subseteq Texts(out)
  <2>1. ASSUME Len(out) # limit, NEW p \in DOMAIN c PROVE c[p].text \in {Blank} \cup Texts(out)
    BY <1>1, <1>8, <2>1 DEF Extends
  <2>2. QED
    BY <2>1 DEF Texts
<1>10. ASSUME Clear(c), Texts(c) \cap Texts(s) = {}
       PROVE  Len(out) = limit \/ Len(out) = N + Len(c)
  <2>1. \A p \in DOMAIN c : c[p].text \in Texts(c)
    BY DEF Texts
  <2>2. \A p \in DOMAIN c : c[p].text \notin Texts(s) \cup {Blank}
    BY <1>10, <2>1 DEF Clear
  <2>3. \A p, q \in DOMAIN c : p # q => c[p].text # c[q].text
    BY <1>10 DEF Clear
  <2>4. Cardinality(Fresh(c, Texts(s))) = Len(c)
    BY <2>2, <2>3, AllFresh
  <2>5. QED
    BY <1>1, <2>4 DEF Extends
<1>11. \A i \in DOMAIN out : (\E j \in DOMAIN s : out[i] = s[j]) \/ (\E p \in DOMAIN c : out[i] = c[p])
  BY <1>3, <1>4, <1>5
<1>12. QED
  BY <1>1, <1>7, <1>8, <1>9, <1>10, <1>11 DEF Extends, Grows

\* What _append_unique_questions makes of an empty list.
LEMMA StartFacts ==
  ASSUME NEW c \in Seq(Question), NEW limit \in Nat, NEW excluded,
         NEW out, out = AppendUnique(<<>>, c, limit, excluded)
  PROVE  /\ out \in Seq(Question) /\ Clear(out) /\ Len(out) <= limit /\ Texts(out) \cap excluded = {}
         /\ \A i \in DOMAIN out : \E p \in DOMAIN c : out[i] = c[p]
         /\ Len(out) = limit \/ Texts(c) \ {Blank} \subseteq Texts(out) \cup excluded
<1>1. PICK none \in Seq(Question) : none = <<>> /\ Len(none) = 0
  <2>1. <<>> \in Seq(Question) /\ Len(<<>>) = 0
    OBVIOUS
  <2>2. QED
    BY <2>1
<1>2. out \in Seq(Question) /\ Extends(out, none, c, limit, excluded)
  <2>1. Len(none) <= limit /\ out = AppendUnique(none, c, limit, excluded)
    BY <1>1
  <2>2. QED
    BY <1>1, <2>1, AppendExtends
<1>3. Len(out) \in Nat /\ DOMAIN out = 1 .. Len(out) /\ (Len(none) + 1) .. Len(out) = 1 .. Len(out)
  BY <1>1, <1>2
<1>4. \A i \in DOMAIN out :
        out[i].text \notin excluded \cup {Blank} /\ \E p \in DOMAIN c : out[i] = c[p]
  BY <1>2, <1>3 DEF Extends
<1>5. \A i, j \in DOMAIN out : i # j => out[i].text # out[j].text
  BY <1>2, <1>3 DEF Extends
<1>6. Clear(out) /\ Texts(out) \cap excluded = {}
  BY <1>4, <1>5 DEF Clear, Texts
<1>7. Len(out) = limit \/ Texts(c) \ {Blank} \subseteq Texts(out) \cup excluded
  BY <1>2 DEF Extends, Texts
<1>8. QED
  BY <1>2, <1>4, <1>6, <1>7 DEF Extends

-----------------------------------------------------------------------------

Covered == Texts(PreparedOf(source)) \ {Blank} \subseteq Texts(selected)

\* Why the selection is complete: templates are taken last, and only when something is missing
\* though every prepared question has been taken.
SelectionInv ==
  /\ source \in Sessions
  /\ stage \in {"askFirst", "prepared", "bank", "askLast", "rules", "number", "done", "raised"}
  /\ selected \in Seq(Question) /\ Len(selected) <= source.count /\ Clear(selected)
  /\ stage \in {"askFirst", "prepared", "bank", "askLast", "rules"}
       => \A i \in DOMAIN selected : selected[i].by # "rule"
  /\ stage \in {"bank", "askLast", "rules"} => Missing = 0 \/ Covered
  /\ stage \in {"number", "done"} =>
       Len(selected) = source.count /\ ((\E i \in DOMAIN selected : selected[i].by = "rule") => Covered)
  /\ stage = "done" /\ source.type = "comprehensive" /\ source.count > 1
       => { selected[i].category : i \in DOMAIN selected } = {"technical", "personality"}

LEMMA SelectionInitially == SelectionInit => SelectionInv
<1> SUFFICES ASSUME SelectionInit PROVE SelectionInv
  OBVIOUS
<1>1. <<>> \in Seq(Question) /\ Len(<<>>) = 0 /\ DOMAIN <<>> = {}
  OBVIOUS
<1>2. SessionOK(source)
  BY SessionsAssumption DEF SelectionInit
<1>3. source.count \in Nat /\ MaxCount \in Nat
  BY <1>2, SessionsAssumption DEF SessionOK
<1>4. Clear(selected)
  BY <1>1 DEF Clear, SelectionInit
<1>5. QED
  BY <1>1, <1>3, <1>4 DEF SelectionInit, SelectionInv

\* The numbers of a selection.
LEMMA MissingCounts ==
  ASSUME SelectionInv
  PROVE  /\ SessionOK(source) /\ source.count \in 1 .. MaxCount /\ MaxCount \in Nat
         /\ Missing \in Nat /\ Len(selected) + Missing = source.count
<1>1. SessionOK(source) /\ MaxCount \in Nat
  BY SessionsAssumption DEF SelectionInv
<1>2. source.count \in 1 .. MaxCount
  BY <1>1 DEF SessionOK
<1>3. Len(selected) \in Nat /\ Len(selected) <= source.count
  BY DEF SelectionInv
<1>4. QED
  BY <1>1, <1>2, <1>3 DEF Missing

\* Where a stage leads.
LEMMA StagesGoOn ==
  /\ After("askFirst") = "prepared" /\ After("prepared") = "bank"
  /\ After("bank") \in {"askLast", "rules"} /\ After("askLast") = "rules" /\ After("rules") = "number"
BY DEF After

LEMMA SkipStep == ASSUME SelectionInv, Skip PROVE SelectionInv'
<1>1. UNCHANGED <<source, selected>> /\ Missing = 0 /\ stage' = After(stage)
  BY DEF Skip
<1>2. Len(selected) = source.count
  BY <1>1, MissingCounts DEF SelectionInv
<1>3. /\ Missing' = Missing /\ (Covered <=> Covered') /\ (Clear(selected) <=> Clear(selected'))
  BY <1>1 DEF Missing, Covered
<1>4. stage' \in {"bank", "askLast", "rules", "number"}
  BY <1>1, StagesGoOn DEF Skip
<1>5. \A i \in DOMAIN selected : selected[i].by # "rule"
  BY DEF Skip, SelectionInv
<1>6. QED
  BY <1>1, <1>2, <1>3, <1>4, <1>5 DEF SelectionInv

LEMMA ModelFailsStep == ASSUME SelectionInv, ModelFails PROVE SelectionInv'
<1>1. UNCHANGED <<source, selected>>
  BY DEF ModelFails
<1>2. /\ Missing' = Missing /\ (Covered <=> Covered') /\ (Clear(selected) <=> Clear(selected'))
  BY <1>1 DEF Missing, Covered
<1>3. CASE stage' = "raised"
  BY <1>1, <1>2, <1>3 DEF SelectionInv
<1>4. CASE stage = "askFirst" /\ stage' = "prepared"
  BY <1>1, <1>2, <1>4 DEF SelectionInv
<1>5. CASE stage = "askLast" /\ stage' = "rules"
  BY <1>1, <1>2, <1>5 DEF SelectionInv
<1>6. QED
  BY <1>3, <1>4, <1>5, StagesGoOn DEF ModelFails, AtAsk

\* Questions of any source but the templates are taken.
LEMMA TakenStep ==
  ASSUME SelectionInv, NEW c \in Seq(Question), Take(c, Texts(selected)),
         \A p \in DOMAIN c : c[p].by # "rule",
         \/ stage = "askFirst" \/ stage \in {"bank", "askLast"}
         \/ stage = "prepared" /\ (\/ Len(c) = Missing /\ Clear(c) /\ Texts(c) \cap Texts(selected) = {}
                                  \/ Texts(PreparedOf(source)) \ {Blank} \subseteq Texts(c) \cup Texts(selected))
  PROVE  SelectionInv'
<1>1. /\ selected' = AppendUnique(selected, c, source.count, Texts(selected))
      /\ stage' = After(stage) /\ source' = source
  BY DEF Take
<1>2. selected \in Seq(Question) /\ Clear(selected) /\ source.count \in Nat /\ Len(selected) <= source.count
  BY MissingCounts DEF SelectionInv
<1>3. /\ selected' \in Seq(Question) /\ Clear(selected') /\ Len(selected') <= source.count
      /\ Texts(selected) \subseteq Texts(selected')
      /\ \A i \in DOMAIN selected' :
           (\E j \in DOMAIN selected : selected'[i] = selected[j]) \/ (\E p \in DOMAIN c : selected'[i] = c[p])
      /\ Len(selected') = source.count \/ Texts(c) \ {Blank} \subseteq Texts(selected')
      /\ Clear(c) /\ Texts(c) \cap Texts(selected) = {}
           => Len(selected') = source.count \/ Len(selected') = Len(selected) + Len(c)
  <2>1. PICK out : out = AppendUnique(selected, c, source.count, Texts(selected))
    OBVIOUS
  <2>2. PICK limit : limit = source.count
    OBVIOUS
  <2>3. PICK s : s = selected
    OBVIOUS
  <2>4. /\ s \in Seq(Question) /\ Clear(s) /\ limit \in Nat /\ Len(s) <= limit
        /\ out = AppendUnique(s, c, limit, Texts(s))
    BY <1>2, <2>1, <2>2, <2>3
  <2>5. Grows(s, c, limit, out)
    BY <2>4, TakeFacts
  <2>6. out = selected'
    BY <1>1, <2>1
  <2>7. Clear(selected') /\ Texts(selected') = Texts(out)
    BY <2>5, <2>6 DEF Grows, Clear, Texts
  <2>8. QED
    BY <2>2, <2>3, <2>5, <2>6, <2>7 DEF Grows
<1>4. \A i \in DOMAIN selected' : selected'[i].by # "rule"
  <2>1. \A j \in DOMAIN selected : selected[j].by # "rule"
    BY DEF SelectionInv
  <2>2. QED
    BY <1>3, <2>1
<1>5. Len(selected') = source.count => Missing' = 0
  BY <1>1, <1>2 DEF Missing
<1>6. Covered => Covered'
  BY <1>1, <1>3 DEF Covered
<1>7. Missing = 0 => Missing' = 0
  <2>1. SUFFICES ASSUME Missing = 0 PROVE Len(selected') = source.count
    BY <1>5
  <2>2. Len(selected) = source.count
    BY <2>1, MissingCounts DEF SelectionInv
  <2>3. Len(selected) <= Len(selected')
    BY <1>1, <1>2, AppendExtends DEF Extends
  <2>4. QED
    BY <1>2, <1>3, <2>2, <2>3
<1>8. CASE stage = "askFirst"
  <2>1. stage' = "prepared"
    BY <1>1, <1>8, StagesGoOn
  <2>2. QED
    BY <1>1, <1>3, <1>4, <2>1 DEF SelectionInv
<1>9. CASE stage \in {"bank", "askLast"}
  <2>1. stage' \in {"askLast", "rules"}
    BY <1>1, <1>9, StagesGoOn
  <2>2. Missing' = 0 \/ Covered'
    BY <1>6, <1>7, <1>9 DEF SelectionInv
  <2>3. QED
    BY <1>1, <1>3, <1>4, <2>1, <2>2 DEF SelectionInv
<1>10. CASE stage = "prepared"
  <2>1. stage' = "bank"
    BY <1>1, <1>10, StagesGoOn
  <2>2. Missing' = 0 \/ Covered'
    <3>1. CASE Len(c) = Missing /\ Clear(c) /\ Texts(c) \cap Texts(selected) = {}
      <4>1. Len(selected) + Len(c) = source.count
        BY <3>1, MissingCounts
      <4>2. QED
        BY <1>3, <1>5, <3>1, <4>1
    <3>2. CASE Texts(PreparedOf(source)) \ {Blank} \subseteq Texts(c) \cup Texts(selected)
      BY <1>1, <1>3, <1>5, <3>2 DEF Covered
    <3>3. QED
      BY <1>10, <3>1, <3>2
  <2>3. QED
    BY <1>1, <1>3, <1>4, <2>1, <2>2 DEF SelectionInv
<1>11. QED
  BY <1>8, <1>9, <1>10

\* The texts of a clear list are as many as its questions.
LEMMA TextsCount ==
  ASSUME NEW qs \in Seq(Question), Clear(qs)
  PROVE  IsFiniteSet(Texts(qs)) /\ Cardinality(Texts(qs)) = Len(qs)
<1> DEFINE n == Len(qs)
<1> DEFINE f == [i \in 1 .. n |-> qs[i].text]
<1>1. n \in Nat /\ DOMAIN qs = 1 .. n
  OBVIOUS
<1>2. f \in [1 .. n -> Texts(qs)] /\ \A i \in 1 .. n : f[i] = qs[i].text
  BY <1>1 DEF Texts
<1>3. \A i, j \in 1 .. n : f[i] = f[j] => i = j
  BY <1>1, <1>2 DEF Clear
<1>4. \A t \in Texts(qs) : \E i \in 1 .. n : f[i] = t
  BY <1>1, <1>2 DEF Texts
<1> HIDE DEF f
<1>5. f \in Bijection(1 .. n, Texts(qs))
  BY <1>2, <1>3, <1>4 DEF Bijection, Injection, Surjection, IsInjective
<1>6. IsFiniteSet(1 .. n) /\ Cardinality(1 .. n) = n
  BY <1>1, FS_Interval
<1>7. QED
  BY <1>5, <1>6, FS_Bijection DEF ExistsBijection

LEMMA AskModelStep == ASSUME SelectionInv, NEW said \in Reply, AskModel(said) PROVE SelectionInv'
<1> DEFINE all == From(said, "ai")
<1> DEFINE first == Cut(all, Missing)
<1> DEFINE c == AppendUnique(<<>>, first, Missing, Texts(selected))
<1>1. Missing \in Nat
  BY MissingCounts
<1>2. said \in Seq(QuestionText)
  <2>1. PICK n \in 0 .. MaxReply : said \in [1 .. n -> Text \cup {Blank}]
    BY DEF Reply
  <2>2. n \in Nat /\ said \in [1 .. n -> QuestionText]
    BY <2>1 DEF QuestionText
  <2>3. QED
    BY <2>2
<1>3. all \in Seq(Question) /\ \A i \in DOMAIN all : all[i].by = "ai"
  BY <1>2, FromFits
<1> HIDE DEF all
<1>4. first \in Seq(Question) /\ \A i \in DOMAIN first : first[i].by = "ai"
  <2>1. /\ first \in Seq(Question) /\ Len(first) <= Len(all)
        /\ \A i \in 1 .. Len(first) : first[i] = all[i]
    BY <1>1, <1>3, CutTakes
  <2> HIDE DEF first
  <2>2. \A i \in DOMAIN first : i \in DOMAIN all /\ first[i] = all[i]
    BY <1>3, <2>1
  <2>3. QED
    BY <1>3, <2>1, <2>2
<1> HIDE DEF first
<1>5. c \in Seq(Question) /\ \A i \in DOMAIN c : \E p \in DOMAIN first : c[i] = first[p]
  BY <1>1, <1>4, StartFacts
<1>6. Take(c, Texts(selected))
  BY DEF AskModel, Converted, first, all
<1>7. stage \in {"askFirst", "askLast"}
  BY DEF AskModel, AtAsk
<1> HIDE DEF c
<1>8. \A p \in DOMAIN c : c[p].by # "rule"
  BY <1>4, <1>5
<1>9. QED
  BY <1>5, <1>6, <1>7, <1>8, TakenStep

LEMMA TakePreparedStep == ASSUME SelectionInv, TakePrepared PROVE SelectionInv'
<1> DEFINE P == PreparedOf(source)
<1> DEFINE all == From(TextsOf(P), "prepared")
<1> DEFINE c == AppendUnique(<<>>, all, Missing, Texts(selected))
<1>1. Missing \in Nat /\ SessionOK(source)
  BY MissingCounts
<1>2. P \in Seq(StoredQuestion)
  BY <1>1, PreparedOfFits
<1> HIDE DEF P
<1>3. TextsOf(P) \in Seq(QuestionText) /\ Len(TextsOf(P)) = Len(P) /\ \A i \in DOMAIN P : TextsOf(P)[i] = P[i].text
  BY <1>2, TextsOfFits
<1>4. /\ all \in Seq(Question) /\ Len(all) = Len(P)
      /\ \A i \in DOMAIN all : all[i].text = TextsOf(P)[i] /\ all[i].by = "prepared"
  BY <1>3, FromFits
<1> HIDE DEF all
<1>5. Texts(all) = Texts(P)
  <2>1. DOMAIN all = DOMAIN P
    BY <1>2, <1>4
  <2>2. \A i \in DOMAIN P : all[i].text = P[i].text
    BY <1>3, <1>4, <2>1
  <2>3. QED
    BY <2>1, <2>2 DEF Texts
<1>6. /\ c \in Seq(Question) /\ Clear(c) /\ Texts(c) \cap Texts(selected) = {}
      /\ \A i \in DOMAIN c : \E p \in DOMAIN all : c[i] = all[p]
      /\ Len(c) = Missing \/ Texts(all) \ {Blank} \subseteq Texts(c) \cup Texts(selected)
  BY <1>1, <1>4, StartFacts
<1>7. Take(c, Texts(selected)) /\ stage = "prepared"
  BY DEF TakePrepared, Prepared, all, P
<1> HIDE DEF c
<1>8. \A p \in DOMAIN c : c[p].by # "rule"
  BY <1>4, <1>6
<1>9. \/ Len(c) = Missing /\ Clear(c) /\ Texts(c) \cap Texts(selected) = {}
      \/ Texts(PreparedOf(source)) \ {Blank} \subseteq Texts(c) \cup Texts(selected)
  BY <1>5, <1>6 DEF P
<1>10. QED
  BY <1>6, <1>7, <1>8, <1>9, TakenStep

LEMMA TakeBankStep == ASSUME SelectionInv, TakeBank PROVE SelectionInv'
<1> DEFINE ranked == Candidates(source, Missing)
<1> DEFINE all == From(TextsOf(ranked), "bank")
<1> DEFINE offered == FromBank(source, Missing)
<1> DEFINE c == AppendUnique(<<>>, offered, Missing, Texts(selected))
<1>1. Missing \in Nat /\ SessionOK(source)
  BY MissingCounts
<1>2. ranked \in Seq(StoredQuestion)
  BY <1>1, CandidatesFit
<1> HIDE DEF ranked
<1>3. TextsOf(ranked) \in Seq(QuestionText)
  BY <1>2, TextsOfFits
<1>4. all \in Seq(Question) /\ \A i \in DOMAIN all : all[i].by = "bank"
  BY <1>3, FromFits
<1>5. offered = <<>> \/ offered = AppendUnique(<<>>, all, Missing, {})
  BY DEF FromBank, ranked
<1> HIDE DEF all, offered
<1>6. offered \in Seq(Question) /\ \A i \in DOMAIN offered : offered[i].by = "bank"
  <2>1. CASE offered = <<>>
    BY <2>1
  <2>2. CASE offered = AppendUnique(<<>>, all, Missing, {})
    <3>1. offered \in Seq(Question) /\ \A i \in DOMAIN offered : \E p \in DOMAIN all : offered[i] = all[p]
      BY <1>1, <1>4, <2>2, StartFacts
    <3>2. QED
      BY <1>4, <3>1
  <2>3. QED
    BY <1>5, <2>1, <2>2
<1>7. c \in Seq(Question) /\ \A i \in DOMAIN c : \E p \in DOMAIN offered : c[i] = offered[p]
  BY <1>1, <1>6, StartFacts
<1>8. Take(c, Texts(selected)) /\ stage = "bank"
  BY DEF TakeBank, offered
<1> HIDE DEF c
<1>9. \A p \in DOMAIN c : c[p].by # "rule"
  BY <1>6, <1>7
<1>10. QED
  BY <1>7, <1>8, <1>9, TakenStep

LEMMA TakeRulesStep == ASSUME SelectionInv, TakeRules PROVE SelectionInv'
<1> DEFINE c == Rules(Missing, Texts(selected))
<1>1. /\ stage = "rules" /\ Missing > 0 /\ stage' = After(stage) /\ source' = source
      /\ selected' = AppendUnique(selected, c, source.count, Texts(selected))
  BY DEF TakeRules, Take
<1>2. /\ SessionOK(source) /\ source.count \in 1 .. MaxCount /\ MaxCount \in Nat
      /\ Missing \in Nat /\ Len(selected) + Missing = source.count
  BY MissingCounts
<1>3. selected \in Seq(Question) /\ Clear(selected) /\ Len(selected) <= source.count /\ Len(selected) \in Nat
  BY DEF SelectionInv
<1>4. IsFiniteSet(Texts(selected)) /\ Cardinality(Texts(selected)) = Len(selected)
  BY <1>3, TextsCount
<1>5. Missing + Cardinality(Texts(selected)) <= MaxCount
  BY <1>2, <1>3, <1>4
<1>6. /\ c \in Seq(Question) /\ Len(c) = Missing
      /\ \A i \in DOMAIN c : c[i].text \notin Texts(selected) \cup {Blank} /\ c[i].by = "rule"
      /\ \A i, j \in DOMAIN c : i # j => c[i].text # c[j].text
  <2>1. PICK m : m = Missing
    OBVIOUS
  <2>2. PICK excluded : excluded = Texts(selected)
    OBVIOUS
  <2>3. m \in Nat /\ IsFiniteSet(excluded) /\ m + Cardinality(excluded) <= MaxCount
    BY <1>2, <1>4, <1>5, <2>1, <2>2
  <2>4. /\ Rules(m, excluded) \in Seq(Question) /\ Len(Rules(m, excluded)) = m
        /\ \A i \in DOMAIN Rules(m, excluded) :
             /\ Rules(m, excluded)[i].text \notin excluded \cup {Blank}
             /\ Rules(m, excluded)[i].by = "rule"
        /\ \A i, j \in DOMAIN Rules(m, excluded) :
             i # j => Rules(m, excluded)[i].text # Rules(m, excluded)[j].text
    BY <2>3, RulesSuffice
  <2>5. QED
    BY <2>1, <2>2, <2>4
<1> HIDE DEF c
<1>7. Clear(c) /\ Texts(c) \cap Texts(selected) = {}
  BY <1>6 DEF Clear, Texts
<1>8. PICK out : out = AppendUnique(selected, c, source.count, Texts(selected))
  OBVIOUS
<1>9. Grows(selected, c, source.count, out)
  BY <1>2, <1>3, <1>6, <1>8, TakeFacts
<1>10. out = selected'
  BY <1>1, <1>8
<1>11. /\ out \in Seq(Question) /\ Len(out) = source.count /\ Clear(out) /\ Texts(selected) \subseteq Texts(out)
  BY <1>2, <1>6, <1>7, <1>9 DEF Grows
<1>12. Clear(selected') /\ Texts(selected') = Texts(out)
  BY <1>10, <1>11 DEF Clear, Texts
<1>13. Covered
  BY <1>1 DEF SelectionInv
<1>14. Covered'
  BY <1>1, <1>11, <1>12, <1>13 DEF Covered
<1>15. stage' = "number"
  BY <1>1, StagesGoOn
<1>16. source.count \in Nat
  BY <1>2
<1>17. source' \in Sessions /\ selected' \in Seq(Question) /\ Len(selected') = source'.count
  BY <1>1, <1>10, <1>11 DEF SelectionInv
<1>18. QED
  BY <1>1, <1>12, <1>14, <1>15, <1>16, <1>17 DEF SelectionInv

\* A comprehensive interview of two or more has technical questions and others.
LEMMA PlanIsMixed ==
  ASSUME NEW count \in Nat, count > 1
  PROVE  TechnicalCount(count) \in 1 .. count - 1
BY DEF TechnicalCount

\* Number and category of a question change, its text and its source do not.
LEMMA Renumbered ==
  ASSUME NEW x \in Question, NEW i \in Nat, NEW c \in {"general"} \cup InterviewType
  PROVE  /\ [x EXCEPT !.ix = i, !.category = c] \in Question
         /\ [x EXCEPT !.ix = i, !.category = c].text = x.text
         /\ [x EXCEPT !.ix = i, !.category = c].by = x.by
         /\ [x EXCEPT !.ix = i, !.category = c].category = c
<1> DEFINE y == [x EXCEPT !.ix = i]
<1>1. y \in Question /\ y.text = x.text /\ y.by = x.by
  BY DEF Question
<1>2. [x EXCEPT !.ix = i, !.category = c] = [y EXCEPT !.category = c]
  OBVIOUS
<1> HIDE DEF y
<1>3. /\ [y EXCEPT !.category = c] \in Question /\ [y EXCEPT !.category = c].text = y.text
      /\ [y EXCEPT !.category = c].by = y.by /\ [y EXCEPT !.category = c].category = c
  BY <1>1 DEF Question
<1>4. QED
  BY <1>1, <1>2, <1>3

LEMMA NumberStep == ASSUME SelectionInv, Number PROVE SelectionInv'
<1> DEFINE plan == CategoryPlan(source.type, source.count)
<1> DEFINE q(i) == [selected[i] EXCEPT !.ix = i, !.category = plan[i]]
<1> DEFINE out == [i \in DOMAIN selected |-> q(i)]
<1>1. stage = "number" /\ stage' = "done" /\ source' = source /\ selected' = out
  BY DEF Number
<1>2. /\ selected \in Seq(Question) /\ Len(selected) = source.count /\ Clear(selected) /\ source \in Sessions
      /\ (\E i \in DOMAIN selected : selected[i].by = "rule") => Covered
  BY <1>1 DEF SelectionInv
<1>3. source.count \in Nat /\ source.type \in InterviewType /\ DOMAIN selected = 1 .. source.count
  BY <1>2, MissingCounts DEF SessionOK
<1>4. \A i \in 1 .. source.count : selected[i] \in Question
  BY <1>2
<1>5. /\ \A i \in 1 .. source.count : plan[i] \in InterviewType
      /\ source.type = "comprehensive" =>
           \A i \in 1 .. source.count :
             plan[i] = (IF i <= TechnicalCount(source.count) THEN "technical" ELSE "personality")
  BY <1>3 DEF CategoryPlan, InterviewType
<1> HIDE DEF plan
<1>6. ASSUME NEW i \in 1 .. source.count
      PROVE  /\ q(i) \in Question /\ q(i).text = selected[i].text /\ q(i).by = selected[i].by
             /\ q(i).category = plan[i]
  <2>1. selected[i] \in Question /\ i \in Nat /\ plan[i] \in {"general"} \cup InterviewType
    BY <1>3, <1>4, <1>5
  <2>2. PICK x \in Question : x = selected[i]
    BY <2>1
  <2>3. PICK c \in {"general"} \cup InterviewType : c = plan[i]
    BY <2>1
  <2>4. PICK y : y = [x EXCEPT !.ix = i, !.category = c]
    OBVIOUS
  <2>5. y \in Question /\ y.text = x.text /\ y.by = x.by /\ y.category = c
    BY <2>1, <2>4, Renumbered
  <2>6. y = q(i)
    BY <2>2, <2>3, <2>4
  <2> HIDE DEF q
  <2>7. QED
    BY <2>2, <2>3, <2>5, <2>6
<1> HIDE DEF q
<1>7. /\ out \in Seq(Question) /\ Len(out) = source.count /\ DOMAIN out = 1 .. source.count
      /\ \A i \in 1 .. source.count : /\ out[i].text = selected[i].text /\ out[i].by = selected[i].by
                                      /\ out[i].category = plan[i]
  BY <1>3, <1>6
<1> HIDE DEF out
<1>8. Clear(out) /\ Texts(out) = Texts(selected)
  BY <1>2, <1>3, <1>7 DEF Clear, Texts
<1>9. (\E i \in DOMAIN out : out[i].by = "rule") => Covered
  BY <1>2, <1>3, <1>7
<1>10. ASSUME source.type = "comprehensive", source.count > 1
       PROVE  { out[i].category : i \in DOMAIN out } = {"technical", "personality"}
  <2>1. TechnicalCount(source.count) \in 1 .. source.count - 1
    BY <1>3, <1>10, PlanIsMixed
  <2>2. 1 \in 1 .. source.count /\ source.count \in 1 .. source.count
    BY <1>3, <1>10
  <2>3. out[1].category = "technical"
    BY <1>5, <1>7, <1>10, <2>1, <2>2
  <2>4. out[source.count].category = "personality"
    BY <1>3, <1>5, <1>7, <1>10, <2>1, <2>2
  <2>5. \A i \in 1 .. source.count : out[i].category \in {"technical", "personality"}
    BY <1>5, <1>7, <1>10
  <2>6. QED
    BY <1>7, <2>2, <2>3, <2>4, <2>5
<1>11. Covered' <=> Covered
  <2>1. Texts(selected') = Texts(selected)
    BY <1>1, <1>8
  <2>2. QED
    BY <1>1, <2>1 DEF Covered
<1>12. Clear(selected')
  BY <1>1, <1>8
<1>13. /\ selected' \in Seq(Question) /\ Len(selected') = source'.count /\ source' \in Sessions
       /\ (\E i \in DOMAIN selected' : selected'[i].by = "rule") => Covered'
       /\ source'.type = "comprehensive" /\ source'.count > 1
            => { selected'[i].category : i \in DOMAIN selected' } = {"technical", "personality"}
  BY <1>1, <1>2, <1>7, <1>9, <1>10, <1>11
<1>14. QED
  BY <1>1, <1>3, <1>12, <1>13 DEF SelectionInv

LEMMA SelectionStep == SelectionInv /\ [SelectionNext]_selectionVars => SelectionInv'
<1> SUFFICES ASSUME SelectionInv, [SelectionNext]_selectionVars PROVE SelectionInv'
  OBVIOUS
<1>1. CASE Skip
  BY <1>1, SkipStep
<1>2. ASSUME NEW said \in Reply, AskModel(said) PROVE SelectionInv'
  BY <1>2, AskModelStep
<1>3. CASE ModelFails
  BY <1>3, ModelFailsStep
<1>4. CASE TakePrepared
  BY <1>4, TakePreparedStep
<1>5. CASE TakeBank
  BY <1>5, TakeBankStep
<1>6. CASE TakeRules
  BY <1>6, TakeRulesStep
<1>7. CASE Number
  BY <1>7, NumberStep
<1>8. CASE UNCHANGED selectionVars
  <2>1. UNCHANGED <<source, stage, selected>>
    BY <1>8 DEF selectionVars
  <2>2. Missing' = Missing /\ (Covered' <=> Covered) /\ (Clear(selected') <=> Clear(selected))
    BY <2>1 DEF Missing, Covered
  <2>3. QED
    BY <2>1, <2>2 DEF SelectionInv
<1>9. QED
  BY <1>1, <1>2, <1>3, <1>4, <1>5, <1>6, <1>7, <1>8 DEF SelectionNext

LEMMA SelectionIsComplete == SelectionInv => QuestionsComplete
<1> SUFFICES ASSUME SelectionInv, stage = "done" PROVE QuestionsComplete
  BY DEF QuestionsComplete
<1>1. /\ selected \in Seq(Question) /\ Clear(selected) /\ Len(selected) = source.count
      /\ (\E i \in DOMAIN selected : selected[i].by = "rule") => Covered
      /\ source.type = "comprehensive" /\ source.count > 1
           => { selected[i].category : i \in DOMAIN selected } = {"technical", "personality"}
  BY DEF SelectionInv
<1>2. Cardinality(Texts(selected)) = source.count
  BY <1>1, TextsCount
<1>3. Blank \notin Texts(selected)
  BY <1>1 DEF Clear, Texts
<1>4. QED
  BY <1>1, <1>2, <1>3 DEF QuestionsComplete, Covered

\* generate_interview_questions: whatever the model, the analysis and the bank return, repeat or
\* fail to return, a generation that does not raise ends with exactly the questions first for, no
\* two alike and none blank, of both categories where the session is comprehensive; a template is
\* among them only when every prepared question that the interview type allows has been taken.
THEOREM QuestionsCompleteCorrect == SelectionSpec => []QuestionsComplete
<1>1. SelectionInit => SelectionInv
  BY SelectionInitially
<1>2. SelectionInv /\ [SelectionNext]_selectionVars => SelectionInv'
  BY SelectionStep
<1>3. SelectionInv => QuestionsComplete
  BY SelectionIsComplete
<1>4. QED
  BY <1>1, <1>2, <1>3, PTL DEF SelectionSpec

-----------------------------------------------------------------------------
(* The tags of a question *)

\* The texts of the tags that the model wrote keywords into.
OwnTexts(d) == { t.text : t \in OwnWords(d) }

\* Tags whose texts can be looked into.
AreTags(tags) == IsList(tags) /\ \A i \in DOMAIN tags : IsList(tags[i].text)

\* What may have become of the tags that came in: a tag with keywords is one of those.
FromSource(d, tags) ==
  AreTags(tags) /\ \A i \in DOMAIN tags : IsKeywordTag(tags[i]) => tags[i].text \in OwnTexts(d)

\* The sources are told if any were named.
SourcesTold(d, tags) ==
  (d.tags = <<>> \/ \E i \in DOMAIN d.tags : d.tags[i].label \notin {KeywordLabel, MetadataLabel})
    => \E i \in DOMAIN tags : tags[i].label \notin {KeywordLabel, MetadataLabel}

\* The origin is noted, and by the last tag of that label.
Noted(d, tags) ==
  \E i \in DOMAIN tags :
    tags[i] = Metadata(d.origin) /\ \A j \in DOMAIN tags : tags[j].label = MetadataLabel => j <= i

\* A list without blank parts stays as it is.
LEMMA JoinedFits ==
  ASSUME NEW text, IsList(text)
  PROVE  IsList(Joined(text)) /\ Joined(Joined(text)) = Joined(text)
<1> DEFINE places == { i \in DOMAIN text : text[i] # Space }
<1>1. PICK joined : joined = Joined(text)
  OBVIOUS
<1>2. joined = Where(text, places)
  BY <1>1 DEF Joined
<1>3. places \in SUBSET DOMAIN text /\ \A p \in places : text[p] # Space
  OBVIOUS
<1> HIDE DEF places
<1>4. IsList(joined) /\ \A k \in DOMAIN joined : \E p \in places : joined[k] = text[p]
  BY <1>2, <1>3, WhereLists
<1>5. \A k \in DOMAIN joined : joined[k] # Space
  BY <1>3, <1>4
<1>6. { i \in DOMAIN joined : joined[i] # Space } = DOMAIN joined
  BY <1>5
<1>7. Joined(joined) = Where(joined, DOMAIN joined)
  BY <1>6 DEF Joined
<1>8. Where(joined, DOMAIN joined) = joined
  BY <1>4, WhereAll DEF IsList
<1>9. QED
  BY <1>1, <1>4, <1>7, <1>8

\* A list is empty when it has no places.
LEMMA NotEmpty == ASSUME NEW seq, IsList(seq) PROVE seq # <<>> <=> DOMAIN seq # {}
<1>1. PICK n \in Nat : n = Len(seq) /\ DOMAIN seq = 1 .. n
  BY DEF IsList
<1>2. seq = <<>> <=> n = 0
  BY <1>1 DEF IsList
<1>3. DOMAIN seq = {} <=> n = 0
  BY <1>1
<1>4. QED
  BY <1>2, <1>3

\* ... and so does the empty one.
LEMMA JoinedNothing == IsList(<<>>) /\ Joined(<<>>) = <<>>
<1>1. PICK none : none = <<>>
  OBVIOUS
<1>2. none \in Seq({ none[i] : i \in DOMAIN none }) /\ DOMAIN none = {}
  BY <1>1
<1>3. { i \in DOMAIN none : none[i] # Space } = DOMAIN none
  BY <1>2
<1>4. Joined(none) = Where(none, DOMAIN none)
  BY <1>3 DEF Joined
<1>5. Where(none, DOMAIN none) = none
  BY <1>2, WhereAll
<1>6. QED
  BY <1>1, <1>2, <1>4, <1>5 DEF IsList

\* Keywords that were found have no blank parts.
LEMMA WordsFit ==
  ASSUME NEW n \in 1 .. 4, NEW d \in Drafts
  PROVE  IsList(WordsUnder(d, n)) /\ Joined(WordsUnder(d, n)) = WordsUnder(d, n)
<1> DEFINE filled == { i \in 1 .. n : Joined(d.words[WordKeys[i]]) # <<>> }
<1>1. CASE filled = {}
  <2>1. WordsUnder(d, n) = <<>>
    BY <1>1 DEF WordsUnder
  <2>2. QED
    BY <2>1, JoinedNothing
<1>2. CASE filled # {}
  <2> DEFINE first == CHOOSE i \in filled : \A j \in filled : i <= j
  <2>1. filled \in SUBSET Nat
    OBVIOUS
  <2>2. \E i \in filled : \A j \in filled : i <= j
    <3> HIDE DEF filled
    <3>1. QED
      BY <1>2, <2>1, LeastElement
  <2>3. first \in filled
    BY <2>2
  <2>4. WordsUnder(d, n) = Joined(d.words[WordKeys[first]])
    BY <1>2 DEF WordsUnder
  <2>5. first \in 1 .. 4
    BY <2>3
  <2> HIDE DEF first
  <2>6. first \in DOMAIN WordKeys
    BY <2>5 DEF WordKeys
  <2>7. PICK text : text = d.words[WordKeys[first]]
    OBVIOUS
  <2>8. IsList(text)
    <3>1. WordKeys[first] \in DOMAIN d.words
      BY <2>6, DraftsAssumption
    <3>2. QED
      BY <2>7, <3>1, DraftsAssumption
  <2>9. QED
    BY <2>4, <2>7, <2>8, JoinedFits
<1>3. QED
  BY <1>1, <1>2

\* Nor have those the source knew of.
LEMMA KnownWordsFit ==
  ASSUME NEW d \in Drafts PROVE IsList(KnownWords(d)) /\ Joined(KnownWords(d)) = KnownWords(d)
<1>1. \A n \in {1, 3, 4} : IsList(WordsUnder(d, n)) /\ Joined(WordsUnder(d, n)) = WordsUnder(d, n)
  BY WordsFit
<1>2. KnownWords(d) \in {<<>>, WordsUnder(d, 1), WordsUnder(d, 3), WordsUnder(d, 4)}
  BY DEF KnownWords
<1>3. QED
  BY <1>1, <1>2, JoinedNothing

\* Normalizing tags keeps their number, their texts and the labels they have.
LabelsKept(d, new, tags) ==
  /\ DOMAIN new = DOMAIN tags
  /\ \A i \in DOMAIN tags :
       /\ new[i].text = tags[i].text
       /\ new[i].label \in {KeywordLabel, MetadataLabel} => new[i].label = tags[i].label
       /\ tags[i].label \in {KeywordLabel, MetadataLabel} => new[i].label = tags[i].label
       /\ tags[i] = Metadata(d.origin) => new[i] = Metadata(d.origin)

\* That is what a normalization does, or puts the tag for a question without any.
LEMMA WithLabelsFits ==
  ASSUME NEW d, NEW tags, AreTags(tags), NEW fallback, NEW new, new = WithLabels(tags, fallback)
  PROVE  /\ IsList(new)
         /\ tags = <<>> => new = <<fallback>>
         /\ tags # <<>> => LabelsKept(d, new, tags)
<1>1. CASE tags = <<>>
  <2>1. new = <<fallback>>
    BY <1>1 DEF WithLabels
  <2>2. IsList(new)
    BY <2>1, OneIsList
  <2>3. QED
    BY <1>1, <2>1, <2>2
<1>2. CASE tags # <<>>
  <2>1. PICK N \in Nat : N = Len(tags) /\ DOMAIN tags = 1 .. N
    BY DEF AreTags, IsList
  <2> DEFINE to(t) ==
        [type |-> TypeOf(t.type), label |-> IF t.label = "" THEN TypeOf(t.type) ELSE t.label, text |-> t.text]
  <2>2. new = [ i \in 1 .. N |-> to(tags[i]) ]
    BY <1>2, <2>1 DEF WithLabels
  <2>3. DOMAIN new = DOMAIN tags /\ \A i \in DOMAIN tags : new[i] = to(tags[i])
    BY <2>1, <2>2
  <2>4. IsList(new)
    <3>1. new = [ i \in 1 .. N |-> new[i] ]
      BY <2>2
    <3>2. QED
      BY <3>1, AList
  <2>5. \A type : TypeOf(type) \notin {KeywordLabel, MetadataLabel}
    BY DEF TypeOf, SourceTypes, KeywordLabel, MetadataLabel
  <2>6. KeywordLabel # "" /\ MetadataLabel # ""
    BY DEF KeywordLabel, MetadataLabel
  <2>7. ASSUME NEW t
        PROVE  /\ to(t).text = t.text
               /\ to(t).label \in {KeywordLabel, MetadataLabel} => to(t).label = t.label
               /\ t.label \in {KeywordLabel, MetadataLabel} => to(t).label = t.label
    BY <2>5, <2>6
  <2>8. ASSUME NEW t, NEW origin, t = Metadata(origin) PROVE to(t) = Metadata(origin)
    <3>1. t.type = "general" /\ t.label = MetadataLabel /\ t.text = <<origin>>
      BY <2>8 DEF Metadata, Tag
    <3>2. TypeOf("general") = "general"
      BY DEF TypeOf, SourceTypes
    <3>3. to(t) = [type |-> "general", label |-> MetadataLabel, text |-> <<origin>>]
      BY <2>6, <3>1, <3>2
    <3>4. QED
      BY <3>3 DEF Metadata, Tag
  <2> HIDE DEF to
  <2>9. LabelsKept(d, new, tags)
    BY <2>3, <2>7, <2>8 DEF LabelsKept
  <2>10. QED
    BY <1>2, <2>4, <2>9
<1>3. QED
  BY <1>1, <1>2

\* The first normalization of what came in.
LEMMA NamedFits ==
  ASSUME NEW d \in Drafts, NEW fallback, IsList(fallback.text),
         fallback.label \notin {KeywordLabel, MetadataLabel}, NEW new, new = WithLabels(d.tags, fallback)
  PROVE  new # <<>> /\ FromSource(d, new) /\ SourcesTold(d, new)
<1>1. AreTags(d.tags)
  BY DraftsAssumption DEF AreTags
<1>2. /\ IsList(new)
      /\ d.tags = <<>> => new = <<fallback>>
      /\ d.tags # <<>> => LabelsKept(d, new, d.tags)
  BY <1>1, WithLabelsFits
<1>3. CASE d.tags = <<>>
  <2>1. DOMAIN new = {1} /\ new[1] = fallback
    BY <1>2, <1>3
  <2>2. FromSource(d, new)
    BY <1>2, <2>1 DEF FromSource, AreTags, IsKeywordTag
  <2>3. QED
    BY <1>2, <2>1, <2>2, NotEmpty DEF SourcesTold
<1>4. CASE d.tags # <<>>
  <2>1. LabelsKept(d, new, d.tags)
    BY <1>2, <1>4
  <2>2. AreTags(new)
    BY <1>1, <1>2, <2>1 DEF AreTags, LabelsKept
  <2>3. ASSUME NEW i \in DOMAIN new, IsKeywordTag(new[i]) PROVE new[i].text \in OwnTexts(d)
    <3>1. i \in DOMAIN d.tags /\ d.tags[i].label = KeywordLabel /\ new[i].text = d.tags[i].text
      BY <2>1, <2>3 DEF LabelsKept, IsKeywordTag
    <3>2. d.tags[i] \in OwnWords(d)
      BY <3>1 DEF OwnWords
    <3>3. QED
      BY <3>1, <3>2 DEF OwnTexts
  <2>4. SourcesTold(d, new)
    BY <1>4, <2>1 DEF SourcesTold, LabelsKept
  <2>5. new # <<>>
    BY <1>1, <1>2, <1>4, <2>1, NotEmpty DEF AreTags, LabelsKept
  <2>6. QED
    BY <2>2, <2>3, <2>4, <2>5 DEF FromSource
<1>5. QED
  BY <1>3, <1>4

\* Another normalization.
LEMMA NormalizedFits ==
  ASSUME NEW d, NEW tags, tags # <<>>, FromSource(d, tags), SourcesTold(d, tags),
         NEW fallback, NEW new, new = WithLabels(tags, fallback)
  PROVE  new # <<>> /\ FromSource(d, new) /\ SourcesTold(d, new) /\ (Noted(d, tags) => Noted(d, new))
<1>1. IsList(new) /\ LabelsKept(d, new, tags)
  BY WithLabelsFits DEF FromSource
<1>2. FromSource(d, new)
  BY <1>1 DEF FromSource, AreTags, LabelsKept, IsKeywordTag
<1>3. SourcesTold(d, new)
  BY <1>1 DEF SourcesTold, LabelsKept
<1>4. ASSUME Noted(d, tags) PROVE Noted(d, new)
  BY <1>1, <1>4 DEF Noted, LabelsKept
<1>5. DOMAIN tags # {} /\ DOMAIN new = DOMAIN tags
  BY <1>1, NotEmpty DEF FromSource, AreTags, LabelsKept
<1>6. QED
  BY <1>1, <1>2, <1>3, <1>4, <1>5, NotEmpty

\* The note of the origin is put last.
LEMMA NoteFits ==
  ASSUME NEW d, NEW tags, FromSource(d, tags), SourcesTold(d, tags), NEW new, new = Append(tags, Metadata(d.origin))
  PROVE  new # <<>> /\ FromSource(d, new) /\ SourcesTold(d, new) /\ Noted(d, new)
<1>1. PICK N \in Nat : N = Len(tags) /\ DOMAIN tags = 1 .. N
  BY DEF FromSource, AreTags, IsList
<1>2. /\ IsList(new) /\ DOMAIN new = 1 .. N + 1 /\ new[N + 1] = Metadata(d.origin)
      /\ \A i \in 1 .. N : new[i] = tags[i]
  BY <1>1, ListAppends DEF FromSource, AreTags
<1>3. /\ \A i \in DOMAIN new : i \in DOMAIN tags \/ i = N + 1
      /\ \A i \in DOMAIN tags : i \in DOMAIN new /\ new[i] = tags[i]
      /\ N + 1 \in DOMAIN new /\ \A i \in DOMAIN new : i <= N + 1
  BY <1>1, <1>2
<1>4. Metadata(d.origin).label # KeywordLabel /\ IsList(Metadata(d.origin).text)
  <2>1. Metadata(d.origin).text = <<d.origin>> /\ Metadata(d.origin).label = MetadataLabel
    BY DEF Metadata, Tag
  <2>2. QED
    BY <2>1, OneIsList DEF MetadataLabel, KeywordLabel
<1>5. FromSource(d, new)
  BY <1>2, <1>3, <1>4 DEF FromSource, AreTags, IsKeywordTag
<1>6. SourcesTold(d, new)
  BY <1>3 DEF SourcesTold
<1>7. Noted(d, new)
  BY <1>2, <1>3 DEF Noted
<1>8. new # <<>>
  BY <1>3
<1>9. QED
  BY <1>5, <1>6, <1>7, <1>8

\* Only tags with keywords are left out.
LEMMA TakenFits ==
  ASSUME NEW d, NEW tags, AreTags(tags), SourcesTold(d, tags), Noted(d, tags), NEW places \in SUBSET DOMAIN tags,
         \A i \in DOMAIN tags \ places : IsKeywordTag(tags[i]), NEW new, new = Where(tags, places)
  PROVE  AreTags(new) /\ SourcesTold(d, new) /\ Noted(d, new)
<1>1. /\ IsList(new) /\ DOMAIN new = 1 .. Len(new) /\ Len(new) \in Nat
      /\ \A k \in DOMAIN new : \E p \in places : Rank(places, p) = k /\ new[k] = tags[p]
      /\ \A p \in places : Rank(places, p) \in DOMAIN new /\ new[Rank(places, p)] = tags[p]
      /\ \A p, q \in places : p < q => Rank(places, p) < Rank(places, q)
  BY WhereLists DEF AreTags
<1>2. AreTags(new)
  BY <1>1 DEF AreTags
<1>3. SourcesTold(d, new)
  <2>1. SUFFICES ASSUME NEW i \in DOMAIN tags, tags[i].label \notin {KeywordLabel, MetadataLabel}
                 PROVE  \E k \in DOMAIN new : new[k].label \notin {KeywordLabel, MetadataLabel}
    BY DEF SourcesTold
  <2>2. i \in places
    BY <2>1 DEF IsKeywordTag
  <2>3. QED
    BY <1>1, <2>1, <2>2
<1>4. Noted(d, new)
  <2>1. PICK i \in DOMAIN tags :
          tags[i] = Metadata(d.origin) /\ \A j \in DOMAIN tags : tags[j].label = MetadataLabel => j <= i
    BY DEF Noted
  <2>2. i \in places
    <3>1. tags[i].label = MetadataLabel
      BY <2>1 DEF Metadata, Tag
    <3>2. ~IsKeywordTag(tags[i])
      BY <3>1 DEF IsKeywordTag, MetadataLabel, KeywordLabel
    <3>3. QED
      BY <3>2
  <2>3. ASSUME NEW k \in DOMAIN new, new[k].label = MetadataLabel PROVE k <= Rank(places, i)
    <3>1. PICK p \in places : Rank(places, p) = k /\ new[k] = tags[p]
      BY <1>1
    <3>2. p <= i /\ p \in Nat /\ i \in Nat
      <4>1. DOMAIN tags \subseteq Nat
        BY DEF AreTags, IsList
      <4>2. QED
        BY <2>1, <2>3, <3>1, <4>1
    <3>3. p < i \/ p = i
      BY <3>2
    <3>4. Rank(places, i) \in Nat /\ k \in Nat
      BY <1>1, <2>2
    <3>5. QED
      BY <1>1, <2>2, <3>1, <3>3, <3>4
  <2>4. QED
    BY <1>1, <2>1, <2>2, <2>3 DEF Noted
<1>5. QED
  BY <1>2, <1>3, <1>4

\* What is known of a question when its tags are about to be stored.
ToStore(d, q) ==
  /\ q.category = d.planned
  /\ AreTags(q.tags) /\ SourcesTold(d, q.tags) /\ Noted(d, q.tags)
  /\ IF d.planned # "technical" \/ KnownWords(d) = <<>> THEN \A i \in DOMAIN q.tags : ~IsKeywordTag(q.tags[i])
     ELSE /\ \E i \in DOMAIN q.tags : IsKeywordTag(q.tags[i])
          /\ \A i \in DOMAIN q.tags : IsKeywordTag(q.tags[i]) => q.tags[i].text \in OwnTexts(d) \cup {KnownWords(d)}

IsQuestion(q) == q = [category |-> q.category, words |-> q.words, tags |-> q.tags]

\* The last pass before the rows.
LEMMA TaggedIsToStore ==
  ASSUME NEW q, IsQuestion(q), NEW d \in Drafts, q.category = d.planned, q.words = KnownWords(d),
         FromSource(d, q.tags), SourcesTold(d, q.tags), Noted(d, q.tags), NEW new, new = Tagged(q)
  PROVE  IsQuestion(new) /\ ToStore(d, new)
<1> DEFINE without == { i \in DOMAIN q.tags : ~IsKeywordTag(q.tags[i]) }
<1>1. CASE q.category # "technical" \/ q.words = <<>>
  <2>1. new = [q EXCEPT !.tags = Where(q.tags, without)]
    BY <1>1 DEF Tagged
  <2>2. /\ new = [category |-> q.category, words |-> q.words, tags |-> Where(q.tags, without)]
    BY <2>1 DEF IsQuestion
  <2>3. PICK tags : tags = Where(q.tags, without)
    OBVIOUS
  <2>4. without \in SUBSET DOMAIN q.tags /\ \A i \in DOMAIN q.tags \ without : IsKeywordTag(q.tags[i])
    OBVIOUS
  <2>5. \A i \in without : ~IsKeywordTag(q.tags[i])
    OBVIOUS
  <2> HIDE DEF without
  <2>6. AreTags(tags) /\ SourcesTold(d, tags) /\ Noted(d, tags)
    BY <2>3, <2>4, TakenFits DEF FromSource
  <2>7. \A k \in DOMAIN tags : ~IsKeywordTag(tags[k])
    <3>1. \A k \in DOMAIN tags : \E p \in without : tags[k] = q.tags[p]
      BY <2>3, <2>4, WhereLists DEF FromSource, AreTags
    <3>2. QED
      BY <2>5, <3>1
  <2>8. new.category = d.planned /\ new.tags = tags /\ IsQuestion(new)
    BY <2>2, <2>3 DEF IsQuestion
  <2>9. QED
    BY <1>1, <2>6, <2>7, <2>8 DEF ToStore
<1>2. CASE ~(q.category # "technical" \/ q.words = <<>>) /\ \E i \in DOMAIN q.tags : IsKeywordTag(q.tags[i])
  <2>1. new = q
    BY <1>2 DEF Tagged
  <2>2. QED
    BY <1>2, <2>1 DEF ToStore, FromSource
<1>3. CASE ~(q.category # "technical" \/ q.words = <<>>) /\ ~\E i \in DOMAIN q.tags : IsKeywordTag(q.tags[i])
  <2>1. new = [q EXCEPT !.tags = Append(q.tags, Tag("general", KeywordLabel, q.words))]
    BY <1>3 DEF Tagged
  <2>2. PICK tag : tag = Tag("general", KeywordLabel, q.words)
    OBVIOUS
  <2>3. tag.label = KeywordLabel /\ tag.text = KnownWords(d) /\ IsList(tag.text)
    <3>1. tag.label = KeywordLabel /\ tag.text = KnownWords(d)
      BY <2>2 DEF Tag
    <3>2. QED
      BY <3>1, KnownWordsFit
  <2>4. PICK tags : tags = Append(q.tags, tag)
    OBVIOUS
  <2>5. new.category = d.planned /\ new.tags = tags /\ IsQuestion(new)
    BY <2>1, <2>2, <2>4 DEF IsQuestion
  <2>6. PICK N \in Nat : N = Len(q.tags) /\ DOMAIN q.tags = 1 .. N
    BY DEF FromSource, AreTags, IsList
  <2>7. PICK old : old = q.tags
    OBVIOUS
  <2>8. IsList(tags) /\ DOMAIN tags = 1 .. N + 1 /\ tags[N + 1] = tag /\ \A i \in 1 .. N : tags[i] = q.tags[i]
    <3>1. IsList(old)
      BY <2>7 DEF FromSource, AreTags
    <3>2. QED
      BY <2>4, <2>6, <2>7, <3>1, ListAppends
  <2>9. /\ \A i \in DOMAIN tags : i \in DOMAIN q.tags \/ i = N + 1
        /\ \A i \in DOMAIN q.tags : i \in DOMAIN tags /\ tags[i] = q.tags[i]
        /\ N + 1 \in DOMAIN tags
    BY <2>6, <2>8
  <2>10. AreTags(tags) /\ SourcesTold(d, tags)
    BY <2>3, <2>8, <2>9 DEF AreTags, SourcesTold, FromSource
  <2>11. Noted(d, tags)
    <3>1. tag.label # MetadataLabel
      BY <2>3 DEF MetadataLabel, KeywordLabel
    <3>2. QED
      BY <2>8, <2>9, <3>1 DEF Noted
  <2>12. \A i \in DOMAIN tags : IsKeywordTag(tags[i]) => tags[i].text \in OwnTexts(d) \cup {KnownWords(d)}
    BY <1>3, <2>3, <2>8, <2>9
  <2>13. \E i \in DOMAIN tags : IsKeywordTag(tags[i])
    BY <2>3, <2>8, <2>9 DEF IsKeywordTag
  <2>14. QED
    BY <1>3, <2>5, <2>10, <2>11, <2>12, <2>13 DEF ToStore
<1>4. QED
  BY <1>1, <1>2, <1>3

\* Tags that the program writes itself.
LEMMA PlainFits ==
  ASSUME NEW d, NEW tags, AreTags(tags), tags # <<>>,
         \A i \in DOMAIN tags : tags[i].label \notin {KeywordLabel, MetadataLabel}
  PROVE  FromSource(d, tags) /\ SourcesTold(d, tags)
<1>1. \E i \in DOMAIN tags : TRUE
  BY NotEmpty DEF AreTags
<1>2. QED
  BY <1>1 DEF FromSource, SourcesTold, IsKeywordTag

\* The tags of the mock engine are of this kind.
LEMMA MockFits ==
  ASSUME NEW d, NEW given, NEW n \in {1, 2}, NEW new, new = Cut(MockSourceTags(given), n)
  PROVE  new # <<>> /\ FromSource(d, new) /\ SourcesTold(d, new)
<1> DEFINE places == { i \in DOMAIN MockSources : MockSources[i] \in given }
<1>1. PICK sources : sources = Where(MockSources, places)
  OBVIOUS
<1>2. IsList(sources)
  <2>1. IsList(MockSources)
    <3>1. MockSources = [i \in 1 .. 5 |-> MockSources[i]]
      BY DEF MockSources
    <3>2. QED
      BY <3>1, AList
  <2>2. places \in SUBSET DOMAIN MockSources
    OBVIOUS
  <2> HIDE DEF places
  <2>3. QED
    BY <1>1, <2>1, <2>2, WhereLists
<1>3. PICK tags : tags = MockSourceTags(given)
  OBVIOUS
<1>0. PICK words : words = <<"text">> /\ IsList(words)
  BY OneIsList
<1>4. tags = IF sources = <<>> THEN <<Tag("question_bank", "question bank", words)>>
             ELSE [ i \in DOMAIN sources |-> Tag(sources[i], "based on it", words) ]
  BY <1>0, <1>1, <1>3 DEF MockSourceTags
<1>5. /\ IsList(tags) /\ tags # <<>>
      /\ \A i \in DOMAIN tags : IsList(tags[i].text) /\ tags[i].label \in {"question bank", "based on it"}
  <2>1. IsList(words)
    BY <1>0
  <2>2. CASE sources = <<>>
    <3>1. PICK tag : tag = Tag("question_bank", "question bank", words)
      OBVIOUS
    <3>2. tags = <<tag>> /\ IsList(tag.text) /\ tag.label = "question bank"
      BY <1>4, <2>1, <2>2, <3>1 DEF Tag
    <3>3. tags = <<tag>>
      BY <3>2
    <3>4. DOMAIN tags = {1} /\ tags[1] = tag
      BY <3>3
    <3>5. IsList(tags)
      BY <3>3, OneIsList
    <3>6. QED
      BY <3>2, <3>4, <3>5, NotEmpty
  <2>3. CASE sources # <<>>
    <3>1. PICK N \in Nat : N = Len(sources) /\ DOMAIN sources = 1 .. N
      BY <1>2 DEF IsList
    <3>2. tags = [ i \in 1 .. N |-> Tag(sources[i], "based on it", words) ]
      BY <1>4, <2>3, <3>1
    <3>3. tags = [ i \in 1 .. N |-> tags[i] ]
      BY <3>2
    <3>4. IsList(tags) /\ DOMAIN tags = DOMAIN sources
      BY <3>1, <3>3, AList
    <3>5. \A i \in DOMAIN tags : tags[i] = Tag(sources[i], "based on it", words)
      BY <3>1, <3>2, <3>4
    <3>6. ASSUME NEW i \in DOMAIN tags PROVE IsList(tags[i].text) /\ tags[i].label = "based on it"
      <4>1. PICK tag : tag = tags[i]
        OBVIOUS
      <4>2. tag = Tag(sources[i], "based on it", words)
        BY <3>5, <4>1
      <4>3. tag.text = words /\ tag.label = "based on it"
        BY <4>2 DEF Tag
      <4>4. QED
        BY <2>1, <4>1, <4>3
    <3>7. QED
      BY <1>2, <2>3, <3>4, <3>6, NotEmpty
  <2>4. QED
    BY <2>2, <2>3
<1>6. PICK N \in Nat : N = Len(tags) /\ DOMAIN tags = 1 .. N /\ N # 0
  <2>1. DOMAIN tags # {}
    BY <1>5, NotEmpty
  <2>2. IsList(tags)
    BY <1>5
  <2>3. PICK m \in Nat : m = Len(tags) /\ DOMAIN tags = 1 .. m
    BY <2>2 DEF IsList
  <2>4. m # 0
    BY <2>1, <2>3
  <2>5. QED
    BY <2>3, <2>4
<1>7. new = Cut(tags, n) /\ n \in Nat
  BY <1>3
<1>8. PICK M \in Nat : M = Len(new) /\ M <= N /\ M # 0 /\ DOMAIN new = 1 .. M /\ \A i \in 1 .. M : new[i] = tags[i]
  <2> DEFINE S == { tags[i] : i \in DOMAIN tags }
  <2>1. tags \in Seq(S)
    BY <1>5 DEF IsList
  <2> HIDE DEF S
  <2>2. /\ new \in Seq(S) /\ Len(new) <= N /\ (Len(new) = n \/ Len(new) = N)
        /\ \A i \in 1 .. Len(new) : new[i] = tags[i]
    BY <1>6, <1>7, <2>1, CutTakes
  <2>3. QED
    BY <1>6, <2>2
<1>9. IsList(new)
  <2> DEFINE S == { tags[i] : i \in DOMAIN tags }
  <2>1. tags \in Seq(S)
    BY <1>5 DEF IsList
  <2> HIDE DEF S
  <2>2. new \in Seq(S)
    BY <1>7, <2>1, CutTakes
  <2>3. new = [i \in 1 .. M |-> new[i]]
    BY <1>8, <2>2
  <2>4. QED
    BY <2>3, AList
<1>10. \A i \in DOMAIN new : i \in DOMAIN tags /\ new[i] = tags[i]
  BY <1>6, <1>8
<1>11. AreTags(new) /\ new # <<>>
  <2>1. DOMAIN new # {}
    BY <1>8
  <2>2. QED
    BY <1>5, <1>9, <1>10, <2>1, NotEmpty DEF AreTags
<1>12. \A i \in DOMAIN new : new[i].label \notin {KeywordLabel, MetadataLabel}
  <2>1. \A i \in DOMAIN new : new[i].label \in {"question bank", "based on it"}
    BY <1>5, <1>10
  <2>2. {"question bank", "based on it"} \cap {KeywordLabel, MetadataLabel} = {}
    BY DEF KeywordLabel, MetadataLabel
  <2>3. QED
    BY <2>1, <2>2
<1>13. QED
  BY <1>11, <1>12, PlainFits

\* At most one tag with keywords is stored; none is when the only ones are blank.
TagsFit(d, tags) ==
  /\ \A i, j \in DOMAIN tags : IsKeywordTag(tags[i]) /\ IsKeywordTag(tags[j]) => i = j
  /\ \A i \in DOMAIN tags : IsKeywordTag(tags[i]) =>
       d.planned = "technical" /\ KnownWords(d) # <<>> /\ tags[i].text \in OwnTexts(d) \cup {KnownWords(d)}
  /\ d.planned = "technical" /\ KnownWords(d) # <<>> =>
       \/ \E i \in DOMAIN tags : IsKeywordTag(tags[i])
       \/ \E text \in OwnTexts(d) : Joined(text) = <<>>

\* What is kept of the tags.
LEMMA KeptFits ==
  ASSUME NEW q, NEW d \in Drafts, ToStore(d, q), NEW new, new = Kept(q)
  PROVE  AreTags(new) /\ SourcesTold(d, new) /\ Noted(d, new) /\ TagsFit(d, new)
<1> DEFINE full == { i \in DOMAIN q.tags :
                       IsKeywordTag(q.tags[i]) /\ q.category = "technical" /\ Joined(q.tags[i].text) # <<>> }
<1> DEFINE places == { i \in DOMAIN q.tags : IsKeywordTag(q.tags[i]) => i \in full /\ \A j \in full : i <= j }
<1>1. new = Where(q.tags, places)
  BY DEF Kept
<1>2. places \in SUBSET DOMAIN q.tags /\ \A i \in DOMAIN q.tags \ places : IsKeywordTag(q.tags[i])
  OBVIOUS
<1>3. AreTags(q.tags) /\ SourcesTold(d, q.tags) /\ Noted(d, q.tags)
  BY DEF ToStore
<1>4. DOMAIN q.tags \subseteq Nat
  BY <1>3 DEF AreTags, IsList
<1>5. \A i, j \in places : IsKeywordTag(q.tags[i]) /\ IsKeywordTag(q.tags[j]) => i = j
  <2>1. SUFFICES ASSUME NEW i \in places, NEW j \in places, IsKeywordTag(q.tags[i]), IsKeywordTag(q.tags[j])
                 PROVE  i = j
    OBVIOUS
  <2>2. i <= j /\ j <= i /\ i \in Nat /\ j \in Nat
    BY <1>4, <2>1
  <2>3. QED
    BY <2>2
<1>6. full # {} => \E i \in places : IsKeywordTag(q.tags[i])
  <2>1. SUFFICES ASSUME full # {} PROVE \E i \in places : IsKeywordTag(q.tags[i])
    OBVIOUS
  <2>2. full \in SUBSET Nat
    BY <1>4
  <2>3. PICK i \in full : \A j \in full : i <= j
    <3> HIDE DEF full
    <3>1. QED
      BY <2>1, <2>2, LeastElement
  <2>4. QED
    BY <2>3
<1>7. \A i \in DOMAIN q.tags : IsKeywordTag(q.tags[i]) /\ full = {} /\ q.category = "technical" =>
        Joined(q.tags[i].text) = <<>>
  OBVIOUS
<1> HIDE DEF full, places
<1>8. AreTags(new) /\ SourcesTold(d, new) /\ Noted(d, new)
  BY <1>1, <1>2, <1>3, TakenFits
<1>9. /\ \A k \in DOMAIN new : \E p \in places : Rank(places, p) = k /\ new[k] = q.tags[p]
      /\ \A p \in places : Rank(places, p) \in DOMAIN new /\ new[Rank(places, p)] = q.tags[p]
  BY <1>1, <1>2, <1>3, WhereLists DEF AreTags
<1>10. ASSUME NEW i \in DOMAIN new, NEW j \in DOMAIN new, IsKeywordTag(new[i]), IsKeywordTag(new[j])
       PROVE  i = j
  BY <1>5, <1>9, <1>10
<1>11. ASSUME NEW i \in DOMAIN new, IsKeywordTag(new[i])
       PROVE  d.planned = "technical" /\ KnownWords(d) # <<>> /\ new[i].text \in OwnTexts(d) \cup {KnownWords(d)}
  <2>1. PICK p \in DOMAIN q.tags : new[i] = q.tags[p]
    BY <1>2, <1>9
  <2>2. QED
    BY <1>11, <2>1 DEF ToStore
<1>12. ASSUME d.planned = "technical", KnownWords(d) # <<>>, \A i \in DOMAIN new : ~IsKeywordTag(new[i])
       PROVE  \E text \in OwnTexts(d) : Joined(text) = <<>>
  <2>1. full = {}
    BY <1>6, <1>9, <1>12
  <2>2. PICK p \in DOMAIN q.tags : IsKeywordTag(q.tags[p]) /\ q.tags[p].text \in OwnTexts(d) \cup {KnownWords(d)}
    BY <1>12 DEF ToStore
  <2>3. Joined(q.tags[p].text) = <<>>
    BY <1>7, <1>12, <2>1, <2>2 DEF ToStore
  <2>4. Joined(KnownWords(d)) # <<>>
    BY <1>12, KnownWordsFit
  <2>5. QED
    BY <2>2, <2>3, <2>4
<1>13. QED
  BY <1>8, <1>10, <1>11, <1>12 DEF TagsFit

\* What is stored is what the readers need.
LEMMA StoredIsTagged ==
  ASSUME draft \in Drafts, question.category = draft.planned, IsList(stored),
         TagsFit(draft, stored), Noted(draft, stored),
         draft.origin # "followUp" => SourcesTold(draft, stored)
  PROVE  KeywordsReach /\ OriginTold
<1> DEFINE is == { i \in DOMAIN stored : IsKeywordTag(stored[i]) }
<1>1. is = {} \/ \E i \in DOMAIN stored : is = {i}
  BY DEF TagsFit
<1>2. Cardinality(is) <= 1
  <2> HIDE DEF is
  <2>1. CASE is = {}
    BY <2>1, FS_EmptySet
  <2>2. ASSUME NEW i \in DOMAIN stored, is = {i} PROVE Cardinality(is) <= 1
    <3>1. Cardinality({i}) = 1
      BY FS_Singleton
    <3>2. QED
      BY <2>2, <3>1
  <2>3. QED
    BY <1>1, <2>1, <2>2
<1>3. OriginTold
  BY <1>2 DEF OriginTold, Noted, SourcesTold
<1>4. KeywordsReach
  <2>1. CASE is = {}
    <3>1. ComparedWith = <<>>
      BY <2>1 DEF ComparedWith, FirstKeywords
    <3>2. JudgedBy = <<>> /\ Joined(ComparedWith) = <<>>
      BY <3>1, JoinedNothing DEF JudgedBy, ComparedWith
    <3>3. ASSUME draft.planned = "technical", KnownWords(draft) # <<>>
          PROVE  \E t \in OwnWords(draft) : JudgedBy = Joined(t.text)
      <4>1. PICK text \in OwnTexts(draft) : Joined(text) = <<>>
        BY <2>1, <3>3 DEF TagsFit
      <4>2. QED
        BY <3>2, <4>1 DEF OwnTexts
    <3>4. QED
      BY <3>1, <3>2, <3>3 DEF KeywordsReach
  <2>2. ASSUME NEW i \in DOMAIN stored, is = {i} PROVE KeywordsReach
    <3>1. i \in Nat
      BY DEF IsList
    <3>2. (CHOOSE k \in is : \A j \in is : k <= j) = i
      BY <2>2, <3>1
    <3>3. FirstKeywords = stored[i].text
      BY <2>2, <3>2 DEF FirstKeywords
    <3>4. IsKeywordTag(stored[i])
      BY <2>2
    <3>5. draft.planned = "technical" /\ KnownWords(draft) # <<>> /\ stored[i].text \in OwnTexts(draft) \cup {KnownWords(draft)}
      BY <3>4 DEF TagsFit
    <3>6. ComparedWith = stored[i].text /\ JudgedBy = Joined(stored[i].text)
      BY <3>3, <3>5 DEF ComparedWith, JudgedBy
    <3>7. JudgedBy = KnownWords(draft) \/ \E t \in OwnWords(draft) : JudgedBy = Joined(t.text)
      BY <3>5, <3>6, KnownWordsFit DEF OwnTexts
    <3>8. QED
      BY <3>5, <3>6, <3>7 DEF KeywordsReach
  <2>3. QED
    BY <1>1, <2>1, <2>2
<1>5. QED
  BY <1>3, <1>4

\* A pass hands on the keywords its source knew of and tags that tell of it, and once the tags
\* are to be stored, those with keywords are the question's.
TagsInv ==
  /\ draft \in Drafts /\ IsQuestion(question)
  /\ pass \in {"engine", "mock", "collect", "convert", "append", "plan", "tag", "store", "stored"}
  /\ pass \in {"engine", "collect"} => question.tags = draft.tags
  /\ pass = "engine" => draft.origin = "openai"
  /\ pass = "mock" => draft.origin = "mock"
  /\ pass = "collect" => draft.origin \in {"prepared", "bank", "rule"}
  /\ pass = "convert" =>
       /\ draft.origin \in {"openai", "mock"}
       /\ draft.origin = "openai" => question.words = KnownWords(draft)
       /\ question.tags # <<>> /\ FromSource(draft, question.tags) /\ SourcesTold(draft, question.tags)
  /\ pass \in {"append", "plan", "tag"} =>
       /\ question.words = KnownWords(draft) /\ question.tags # <<>>
       /\ FromSource(draft, question.tags) /\ SourcesTold(draft, question.tags) /\ Noted(draft, question.tags)
  /\ pass = "tag" => question.category = draft.planned
  /\ pass = "store" => draft.origin = "followUp" \/ ToStore(draft, question)
  /\ pass = "stored" =>
       /\ question.category = draft.planned /\ IsList(stored) /\ TagsFit(draft, stored) /\ Noted(draft, stored)
       /\ draft.origin # "followUp" => SourcesTold(draft, stored)

\* It holds at first.
LEMMA TagsStart == TagsInit => TagsInv
<1>1. SUFFICES ASSUME TagsInit PROVE TagsInv
  OBVIOUS
<1>2. /\ draft \in Drafts /\ draft.origin \in Origins
      /\ pass = CASE draft.origin = "openai" -> "engine" [] draft.origin = "mock" -> "mock"
                  [] draft.origin = "followUp" -> "store" [] OTHER -> "collect"
      /\ question = [category |-> draft.category, words |-> <<>>, tags |-> draft.tags]
  BY <1>1, DraftsAssumption DEF TagsInit
<1>3. IsQuestion(question) /\ question.tags = draft.tags
  BY <1>2 DEF IsQuestion
<1>4. \/ pass = "engine" /\ draft.origin = "openai"
      \/ pass = "mock" /\ draft.origin = "mock"
      \/ pass = "store" /\ draft.origin = "followUp"
      \/ pass = "collect" /\ draft.origin \in {"prepared", "bank", "rule"}
  BY <1>2 DEF Origins
<1>5. QED
  BY <1>2, <1>3, <1>4 DEF TagsInv

\* A pass leaves a question.
LEMMA BecomesOne ==
  ASSUME NEW q, NEW next, Becomes(q, next), IsQuestion(q)
  PROVE  IsQuestion(question')
BY DEF Becomes, IsQuestion

\* Each of the passes.
LEMMA EngineKeeps == ASSUME TagsInv, PassEngine PROVE TagsInv'
<1> DEFINE tags == WithLabels(question.tags, Tag("general", "general question", <<>>))
<1>1. pass = "engine" /\ draft \in Drafts /\ draft.origin = "openai" /\ question.tags = draft.tags
  BY DEF TagsInv, PassEngine
<1>2. /\ question' = [category |-> CategoryOf(question.category), words |-> WordsUnder(draft, 1), tags |-> tags]
      /\ pass' = "convert" /\ draft' = draft
  BY DEF PassEngine, Becomes
<1>3. PICK new : new = tags
  OBVIOUS
<1>4. PICK fallback : fallback = Tag("general", "general question", <<>>)
  OBVIOUS
<1>5. IsList(fallback.text) /\ fallback.label \notin {KeywordLabel, MetadataLabel}
  BY <1>4, JoinedNothing DEF Tag, KeywordLabel, MetadataLabel
<1>6. new # <<>> /\ FromSource(draft, new) /\ SourcesTold(draft, new)
  BY <1>1, <1>3, <1>4, <1>5, NamedFits
<1> HIDE DEF tags
<1>7. question'.words = KnownWords(draft) /\ question'.tags = new /\ IsQuestion(question')
  BY <1>1, <1>2, <1>3 DEF KnownWords, IsQuestion
<1>8. QED
  BY <1>1, <1>2, <1>6, <1>7 DEF TagsInv

LEMMA MockKeeps == ASSUME TagsInv, PassMock PROVE TagsInv'
<1> DEFINE n == IF draft.several THEN 2 ELSE 1
<1> DEFINE tags == Cut(MockSourceTags(draft.given), n)
<1> DEFINE category == IF draft.category = "" THEN MockType(draft.number) ELSE draft.category
<1>1. draft \in Drafts /\ draft.origin = "mock"
  BY DEF TagsInv, PassMock
<1>2. /\ question' = [category |-> category, words |-> <<>>, tags |-> tags]
      /\ pass' = "convert" /\ draft' = draft
  BY DEF PassMock, Becomes
<1> HIDE DEF category
<1>3. PICK new : new = tags
  OBVIOUS
<1>4. new # <<>> /\ FromSource(draft, new) /\ SourcesTold(draft, new)
  <2>1. n \in {1, 2}
    OBVIOUS
  <2> HIDE DEF n
  <2>2. QED
    BY <1>3, <2>1, MockFits
<1> HIDE DEF tags
<1>5. question'.tags = new /\ IsQuestion(question')
  BY <1>2, <1>3 DEF IsQuestion
<1>6. QED
  BY <1>1, <1>2, <1>4, <1>5 DEF TagsInv

LEMMA ConvertKeeps == ASSUME TagsInv, Convert PROVE TagsInv'
<1>1. /\ draft \in Drafts /\ draft.origin \in {"openai", "mock"}
      /\ draft.origin = "openai" => question.words = KnownWords(draft)
      /\ question.tags # <<>> /\ FromSource(draft, question.tags) /\ SourcesTold(draft, question.tags)
  BY DEF TagsInv, Convert
<1>2. PICK fallback : fallback = Tag("general", "general", <<>>)
  OBVIOUS
<1>3. PICK old : old = question.tags
  OBVIOUS
<1>4. PICK named : named = WithLabels(old, fallback)
  OBVIOUS
<1>5. FromSource(draft, named) /\ SourcesTold(draft, named)
  BY <1>1, <1>3, <1>4, NormalizedFits
<1>6. PICK new : new = Append(named, Metadata(draft.origin))
  OBVIOUS
<1>7. new # <<>> /\ FromSource(draft, new) /\ SourcesTold(draft, new) /\ Noted(draft, new)
  BY <1>5, <1>6, NoteFits
<1>8. PICK words : words = IF draft.origin = "openai" THEN question.words ELSE WordsUnder(draft, 3)
  OBVIOUS
<1>9. words = KnownWords(draft)
  BY <1>1, <1>8 DEF KnownWords
<1>10. /\ question' = [category |-> CategoryOf(question.category), words |-> words, tags |-> new]
       /\ pass' = "append" /\ draft' = draft
  BY <1>2, <1>3, <1>4, <1>6, <1>8 DEF Convert, Becomes
<1>11. question'.tags = new /\ question'.words = KnownWords(draft) /\ IsQuestion(question')
  BY <1>9, <1>10 DEF IsQuestion
<1>12. QED
  BY <1>1, <1>7, <1>10, <1>11 DEF TagsInv

LEMMA CollectKeeps == ASSUME TagsInv, Collect PROVE TagsInv'
<1>1. draft \in Drafts /\ draft.origin \in {"prepared", "bank", "rule"} /\ question.tags = draft.tags
  BY DEF TagsInv, Collect
<1> DEFINE prepared == <<Tag("jd", "grounds", <<>>), Tag("prepared_question", "prepared", <<"text">>)>>
<1> DEFINE banked == WithLabels(question.tags, Tag("question_bank", "question_bank", <<>>))
<1> DEFINE ruled == <<Tag("rule", "Rule fallback", <<"reference">>)>>
<1>2. PICK named :
        named = CASE draft.origin = "prepared" -> prepared [] draft.origin = "bank" -> banked [] OTHER -> ruled
  OBVIOUS
<1>3. PICK new : new = Append(named, Metadata(draft.origin))
  OBVIOUS
<1>4. PICK words : words = IF draft.origin = "prepared" THEN WordsUnder(draft, 4) ELSE <<>>
  OBVIOUS
<1>5. /\ question' = [category |-> CategoryOf(question.category), words |-> words, tags |-> new]
      /\ pass' = "append" /\ draft' = draft
  BY <1>2, <1>3, <1>4 DEF Collect, Becomes
<1>6. words = KnownWords(draft)
  BY <1>1, <1>4 DEF KnownWords
<1>7. FromSource(draft, named) /\ SourcesTold(draft, named)
  <2>1. CASE draft.origin = "prepared"
    <3>1. PICK one : one = Tag("jd", "grounds", <<>>)
      OBVIOUS
    <3>2. PICK text : text = <<"text">>
      OBVIOUS
    <3>3. PICK two : two = Tag("prepared_question", "prepared", text)
      OBVIOUS
    <3>4. named = <<one, two>>
      BY <1>2, <2>1, <3>1, <3>2, <3>3
    <3>5. named = [i \in 1 .. 2 |-> named[i]] /\ DOMAIN named = {1, 2} /\ named[1] = one /\ named[2] = two
      BY <3>4
    <3>6. IsList(named)
      BY <3>5, AList
    <3>7. IsList(one.text) /\ one.label = "grounds"
      BY <3>1, JoinedNothing DEF Tag
    <3>8. two.text = text /\ two.label = "prepared"
      BY <3>3 DEF Tag
    <3>9. IsList(text)
      BY <3>2, OneIsList
    <3>10. AreTags(named) /\ \A i \in DOMAIN named : named[i].label \in {"grounds", "prepared"}
      BY <3>5, <3>6, <3>7, <3>8, <3>9 DEF AreTags
    <3>11. named # <<>>
      BY <3>5, <3>6, NotEmpty
    <3>12. {"grounds", "prepared"} \cap {KeywordLabel, MetadataLabel} = {}
      BY DEF KeywordLabel, MetadataLabel
    <3>13. \A i \in DOMAIN named : named[i].label \notin {KeywordLabel, MetadataLabel}
      BY <3>10, <3>12
    <3>14. QED
      BY <3>10, <3>11, <3>13, PlainFits
  <2>2. CASE draft.origin = "bank"
    <3>1. PICK fallback : fallback = Tag("question_bank", "question_bank", <<>>)
      OBVIOUS
    <3>2. named = WithLabels(draft.tags, fallback)
      BY <1>1, <1>2, <2>2, <3>1
    <3>3. IsList(fallback.text) /\ fallback.label \notin {KeywordLabel, MetadataLabel}
      BY <3>1, JoinedNothing DEF Tag, KeywordLabel, MetadataLabel
    <3>4. QED
      BY <1>1, <3>2, <3>3, NamedFits
  <2>3. CASE draft.origin = "rule"
    <3>1. PICK text : text = <<"reference">>
      OBVIOUS
    <3>2. PICK one : one = Tag("rule", "Rule fallback", text)
      OBVIOUS
    <3>3. named = <<one>>
      BY <1>2, <2>3, <3>1, <3>2
    <3>4. one.text = text /\ one.label = "Rule fallback"
      BY <3>2 DEF Tag
    <3>5. IsList(text) /\ IsList(named)
      BY <3>1, <3>3, OneIsList
    <3>6. DOMAIN named = {1} /\ named[1] = one
      BY <3>3
    <3>7. AreTags(named) /\ \A i \in DOMAIN named : named[i].label = "Rule fallback"
      BY <3>4, <3>5, <3>6 DEF AreTags
    <3>8. named # <<>>
      BY <3>5, <3>6, NotEmpty
    <3>9. \A i \in DOMAIN named : named[i].label \notin {KeywordLabel, MetadataLabel}
      BY <3>7 DEF KeywordLabel, MetadataLabel
    <3>10. QED
      BY <3>7, <3>8, <3>9, PlainFits
  <2>4. QED
    BY <1>1, <2>1, <2>2, <2>3
<1> HIDE DEF prepared, banked, ruled
<1>8. new # <<>> /\ FromSource(draft, new) /\ SourcesTold(draft, new) /\ Noted(draft, new)
  BY <1>3, <1>7, NoteFits
<1>9. question'.tags = new /\ question'.words = KnownWords(draft) /\ IsQuestion(question')
  BY <1>5, <1>6 DEF IsQuestion
<1>10. QED
  BY <1>1, <1>5, <1>8, <1>9 DEF TagsInv

LEMMA AppendKeeps == ASSUME TagsInv, AppendPass PROVE TagsInv'
<1>1. /\ draft \in Drafts /\ question.words = KnownWords(draft) /\ question.tags # <<>>
      /\ FromSource(draft, question.tags) /\ SourcesTold(draft, question.tags) /\ Noted(draft, question.tags)
  BY DEF TagsInv, AppendPass
<1>2. PICK fallback : fallback = Tag("general", "general", <<>>)
  OBVIOUS
<1>3. PICK old : old = question.tags
  OBVIOUS
<1>4. PICK new : new = WithLabels(old, fallback)
  OBVIOUS
<1>5. new # <<>> /\ FromSource(draft, new) /\ SourcesTold(draft, new) /\ Noted(draft, new)
  BY <1>1, <1>3, <1>4, NormalizedFits
<1>6. Joined(question.words) = KnownWords(draft)
  BY <1>1, KnownWordsFit
<1>7. /\ question' = [category |-> CategoryOf(question.category), words |-> Joined(question.words), tags |-> new]
      /\ pass' = "plan" /\ draft' = draft
  BY <1>2, <1>3, <1>4 DEF AppendPass, Becomes
<1>8. question'.tags = new /\ question'.words = KnownWords(draft) /\ IsQuestion(question')
  BY <1>6, <1>7 DEF IsQuestion
<1>9. QED
  BY <1>1, <1>5, <1>7, <1>8 DEF TagsInv

\* The plan changes the category alone.
LEMMA PlannedFits ==
  ASSUME IsQuestion(question)
  PROVE  /\ IsQuestion(Planned(question)) /\ Planned(question).category = draft.planned
         /\ Planned(question).words = question.words /\ Planned(question).tags = question.tags
<1>1. Planned(question) = [category |-> draft.planned, words |-> question.words, tags |-> question.tags]
  BY DEF Planned, IsQuestion
<1>2. QED
  BY <1>1 DEF IsQuestion

LEMMA PlanKeeps == ASSUME TagsInv, Plan PROVE TagsInv'
<1>1. question' = Planned(question) /\ pass = "plan" /\ pass' = "tag" /\ draft' = draft
  BY DEF Plan, Becomes
<1>2. PICK new : new = Planned(question)
  OBVIOUS
<1>3. /\ IsQuestion(new) /\ new.category = draft.planned
      /\ new.words = question.words /\ new.tags = question.tags
  BY <1>2, PlannedFits DEF TagsInv
<1>4. QED
  BY <1>1, <1>2, <1>3 DEF TagsInv

LEMMA TagPassKeeps == ASSUME TagsInv, TagPass PROVE TagsInv'
<1>1. question' = Tagged(question) /\ pass = "tag" /\ pass' = "store" /\ draft' = draft
  BY DEF TagPass, Becomes
<1>2. PICK new : new = Tagged(question)
  OBVIOUS
<1>3. PICK q : q = question
  OBVIOUS
<1>4. /\ draft \in Drafts /\ IsQuestion(q) /\ q.category = draft.planned /\ q.words = KnownWords(draft)
      /\ FromSource(draft, q.tags) /\ SourcesTold(draft, q.tags) /\ Noted(draft, q.tags)
  BY <1>1, <1>3 DEF TagsInv
<1>5. IsQuestion(new) /\ ToStore(draft, new)
  BY <1>2, <1>3, <1>4, TaggedIsToStore
<1>6. QED
  BY <1>1, <1>2, <1>4, <1>5 DEF TagsInv

LEMMA StoreTagsKeeps == ASSUME TagsInv, Store PROVE TagsInv'
<1>1. pass = "store" /\ pass' = "stored" /\ draft' = draft /\ draft \in Drafts /\ IsQuestion(question)
  BY DEF TagsInv, Store
<1>2. CASE draft.origin = "followUp"
  <2>1. PICK note : note = Metadata(draft.origin)
    OBVIOUS
  <2>2. PICK new : new = <<note>>
    OBVIOUS
  <2>3. stored' = new /\ question' = Planned(question)
    BY <1>2, <2>1, <2>2 DEF Store
  <2>4. IsList(new)
    BY <2>2, OneIsList
  <2>5. DOMAIN new = {1} /\ new[1] = note
    BY <2>2
  <2>6. note.label = MetadataLabel /\ ~IsKeywordTag(note)
    BY <2>1 DEF Metadata, Tag, IsKeywordTag, KeywordLabel, MetadataLabel
  <2>7. KnownWords(draft) = <<>>
    BY <1>2 DEF KnownWords
  <2>8. TagsFit(draft, new) /\ Noted(draft, new)
    BY <2>1, <2>5, <2>6, <2>7 DEF TagsFit, Noted
  <2>9. PICK q : q = Planned(question)
    OBVIOUS
  <2>10. IsQuestion(q) /\ q.category = draft.planned
    BY <1>1, <2>9, PlannedFits
  <2>11. QED
    BY <1>1, <1>2, <2>3, <2>4, <2>8, <2>9, <2>10 DEF TagsInv
<1>3. CASE draft.origin # "followUp"
  <2>1. PICK q : q = question
    OBVIOUS
  <2>2. PICK new : new = Kept(q)
    OBVIOUS
  <2>3. ToStore(draft, q)
    BY <1>1, <1>3, <2>1 DEF TagsInv
  <2>4. IsList(new) /\ SourcesTold(draft, new) /\ Noted(draft, new) /\ TagsFit(draft, new)
    BY <1>1, <2>2, <2>3, KeptFits DEF AreTags
  <2>5. stored' = new /\ question' = q
    BY <1>3, <2>1, <2>2 DEF Store
  <2>6. q.category = draft.planned
    BY <2>3 DEF ToStore
  <2>7. QED
    BY <1>1, <2>1, <2>4, <2>5, <2>6 DEF TagsInv
<1>4. QED
  BY <1>2, <1>3

\* Whatever the sources give, a technical question is stored with the keywords that were known
\* or that the model wrote itself and no other question is, the origin is told by the last
\* tag of that label, and the sources are told unless the model named none.
THEOREM KeywordsAreTaggedCorrect == TagsSpec => []KeywordsAreTagged
<1>1. TagsInv /\ [TagsNext]_tagVars => TagsInv'
  <2> SUFFICES ASSUME TagsInv, [TagsNext]_tagVars PROVE TagsInv'
    OBVIOUS
  <2>1. CASE UNCHANGED tagVars
    BY <2>1 DEF tagVars, TagsInv
  <2>2. QED
    BY <2>1, EngineKeeps, MockKeeps, ConvertKeeps, CollectKeeps, AppendKeeps, PlanKeeps, TagPassKeeps,
       StoreTagsKeeps DEF TagsNext
<1>2. TagsInv => KeywordsAreTagged
  BY StoredIsTagged DEF TagsInv, KeywordsAreTagged
<1>3. QED
  BY <1>1, <1>2, TagsStart, PTL DEF TagsSpec
=============================================================================
