--------------------------- MODULE InterviewMaterial ---------------------------
(***************************************************************************)
(* From which documents an interview is asked.  Both routes that create a  *)
(* session (mvp_serializers.py and interview/serializers.py) take          *)
(* documents, an analysis of documents, or both; both routes that generate *)
(* its questions may name an analysis again; the generation then reads one *)
(* source after the other (question_generator.py, _build_ai_input_sources).*)
(* Nothing is locked, and the user may delete documents and analyse others *)
(* meanwhile.                                                              *)
(***************************************************************************)
EXTENDS Naturals, FiniteSets

CONSTANTS Jd, Resume, Letter, Project,  \* the user's documents
          NoDoc,                        \* none, or one that was deleted
          Requests,                     \* what is named: [jd, resume, letter, analysis, made]
          MaxAnalyses                   \* bound: analyses

ASSUME MaterialAssumption ==
  /\ MaxAnalyses \in Nat /\ NoDoc \notin Jd \cup Resume \cup Letter
  /\ Requests \subseteq [jd : Jd \cup {NoDoc}, resume : Resume \cup {NoDoc}, letter : Letter \cup {NoDoc},
                         analysis : Nat, made : Nat]

VARIABLES
  kept,        \* the documents there are
  rows,        \* the rows of JdAnalysis: [id, jd, resume, letter, readme]
  madeSoFar,   \* analyses so far; a later one has a larger id
  creating,    \* a validated creation that is not inserted yet
  interview,   \* the session's row: [jd, resume, letter, from], or NoSession
  reading      \* a generation: [at, row, asked, projects, seen]

materialVars == <<kept, rows, madeSoFar, creating, interview, reading>>

Documents == Jd \cup Resume \cup Letter \cup Project
NoSession == [jd |-> NoDoc, resume |-> NoDoc, letter |-> NoDoc, from |-> NoDoc]
NoneRead == [jd |-> NoDoc, resume |-> NoDoc, letter |-> NoDoc, projects |-> {},
             readme |-> {}, result |-> {}, prepared |-> {}]
NotReading == [at |-> "idle", row |-> NoSession, asked |-> 0, projects |-> {}, seen |-> NoneRead]

MaterialInit ==
  /\ kept = Documents /\ rows = {} /\ madeSoFar = 0
  /\ creating = NoSession /\ interview = NoSession /\ reading = NotReading

-----------------------------------------------------------------------------
(* Documents and analyses *)

\* An analysis finishes (JdAnalysis); its letter may be none.
Analyse(d, r, l, readme) ==
  /\ madeSoFar < MaxAnalyses /\ {d, r} \subseteq kept /\ l \in kept \cup {NoDoc}
  /\ madeSoFar' = madeSoFar + 1
  /\ rows' = rows \cup
       {[id |-> madeSoFar + 1, jd |-> d, resume |-> r, letter |-> l, readme |-> readme]}
  /\ UNCHANGED <<kept, creating, interview, reading>>

Without(x, f) == IF f = x THEN NoDoc ELSE f

\* The analyses of a job description or a resume go with it, and those of a letter lose it;
\* a session loses each.
DeleteDocument(x) ==
  /\ x \in kept
  /\ kept' = kept \ {x}
  /\ rows' = { [a EXCEPT !.letter = Without(x, @)] :
                     a \in { b \in rows : x \notin {b.jd, b.resume} } }
  /\ interview' = [interview EXCEPT !.jd = Without(x, @), !.resume = Without(x, @),
                                    !.letter = Without(x, @)]
  /\ UNCHANGED <<madeSoFar, creating, reading>>

-----------------------------------------------------------------------------
(* Creation *)

\* A request names at most one analysis, itself or by the session that made it; two
\* must be the same, and it must be the user's (_resolve_jd_analysis).
NamedAnalysis(q) ==
  { a \in rows : a.id \in {q.analysis, q.made} /\ {q.analysis, q.made} \subseteq {0, a.id} }

AnalysisFound(q) == {q.analysis, q.made} = {0} \/ NamedAnalysis(q) # {}

Owned(q) == {q.jd, q.resume, q.letter} \subseteq kept \cup {NoDoc}

Or(x, y) == IF x = NoDoc THEN y ELSE x

\* MVPSessionCreateSerializer.validate: what is left out is taken from the analysis, and
\* what there is then must be its.
MvpSession(q, a) ==
  [jd |-> Or(q.jd, a.jd), resume |-> Or(q.resume, a.resume), letter |-> Or(q.letter, a.letter),
   from |-> a.id]

MvpAccepts(q, a) ==
  LET s == MvpSession(q, a)
  IN  s.jd = a.jd /\ s.resume \in {NoDoc, a.resume} /\ s.letter \in {NoDoc, a.letter}

\* InterviewSessionCreateSerializer.validate: what is named must be the analysis's, which
\* then takes its place.
NestedAccepts(q, a) ==
  q.jd \in {NoDoc, a.jd} /\ q.resume \in {NoDoc, a.resume} /\ q.letter \in {NoDoc, a.letter}

NestedSession(q, a) ==
  [jd |-> a.jd, resume |-> a.resume, letter |-> Or(a.letter, q.letter), from |-> a.id]

AsNamed(q) == [jd |-> q.jd, resume |-> q.resume, letter |-> q.letter, from |-> 0]

\* The sessions that a request may be given, by either route: none when it is refused.
NewSessions(q, mvp) ==
  IF ~AnalysisFound(q) \/ ~Owned(q) THEN {}
  ELSE IF NamedAnalysis(q) = {} THEN { s \in {AsNamed(q)} : s.jd # NoDoc }
  ELSE { IF mvp THEN MvpSession(q, a) ELSE NestedSession(q, a) :
           a \in { b \in NamedAnalysis(q) : IF mvp THEN MvpAccepts(q, b) ELSE NestedAccepts(q, b) } }

ValidateCreation(q, mvp) ==
  /\ creating = NoSession /\ interview = NoSession
  /\ creating' \in NewSessions(q, mvp)
  /\ UNCHANGED <<kept, rows, madeSoFar, interview, reading>>

\* A document that was deleted since then violates its foreign key.
InsertSession ==
  /\ creating # NoSession
  /\ IF {creating.jd, creating.resume, creating.letter} \subseteq kept \cup {NoDoc}
     THEN interview' = creating
     ELSE UNCHANGED interview
  /\ creating' = NoSession
  /\ UNCHANGED <<kept, rows, madeSoFar, reading>>

-----------------------------------------------------------------------------
(* Generation *)

\* As if only the job description were compared.
AcceptsSameJd(row, a) == row.jd \in {NoDoc, a.jd}

\* An analysis may be named for a session whose documents are its, as far as it has any.
Accepts(row, a) ==
  row.jd \in {NoDoc, a.jd} /\ row.resume \in {NoDoc, a.resume} /\ row.letter \in {NoDoc, a.letter}

\* The documents a request names again are the session's (_validate_session_reference).
SameDocuments(q, row) ==
  q.jd \in {NoDoc, row.jd} /\ q.resume \in {NoDoc, row.resume} /\ q.letter \in {NoDoc, row.letter}

\* MVPQuestionGenerateSerializer.validate and _resolve_requested_jd_analysis; the latter's
\* requests name neither documents nor projects.
StartReading(q, projects) ==
  /\ interview # NoSession /\ reading.at = "idle"
  /\ SameDocuments(q, interview) /\ projects \subseteq kept
  /\ AnalysisFound(q) /\ \A a \in NamedAnalysis(q) : Accepts(interview, a)
  /\ reading' = [at |-> "jd", row |-> interview, projects |-> projects, seen |-> NoneRead,
                 asked |-> IF q.analysis > q.made THEN q.analysis ELSE q.made]
  /\ UNCHANGED <<kept, rows, madeSoFar, creating, interview>>

Reads(field, value, next) == reading' = [reading EXCEPT !.at = next, !.seen[field] = value]

\* A document of the row as it was loaded; one that is gone by now raises.
ReadDocument(field, next) ==
  /\ reading.at = field
  /\ IF reading.row[field] \in kept \cup {NoDoc} THEN Reads(field, reading.row[field], next)
     ELSE reading' = NotReading
  /\ UNCHANGED <<kept, rows, madeSoFar, creating, interview>>

\* _build_project_experience_sources: those selected, or all.
ReadProjects ==
  /\ reading.at = "projects"
  /\ Reads("projects",
           kept \cap (IF reading.projects = {} THEN Project ELSE reading.projects), "readme")
  /\ UNCHANGED <<kept, rows, madeSoFar, creating, interview>>

NewestOf(as) == { a \in as : \A b \in as : b.id <= a.id }

\* _get_latest_jd_analysis: the one named, if it is still there; else the newest of the same
\* job description and resume, of the same letter if there is one.
LatestFor(row, named) ==
  LET same == { a \in rows : a.jd = row.jd /\ a.resume = row.resume }
      lettered == { a \in same : row.letter # NoDoc /\ a.letter = row.letter }
  IN  IF named # 0 THEN { a \in rows : a.id = named }
      ELSE IF NoDoc \in {row.jd, row.resume} THEN {}
      ELSE NewestOf(IF lettered # {} THEN lettered ELSE same)

Latest == LatestFor(reading.row, reading.asked)

\* The analysis is looked for anew for each of the three sources that stem from it.
ReadReadme ==
  /\ reading.at = "readme"
  /\ Reads("readme", { a \in Latest : a.readme }, "result")
  /\ UNCHANGED <<kept, rows, madeSoFar, creating, interview>>

ReadResult ==
  /\ reading.at = "result"
  /\ Reads("result", Latest, "prepared")
  /\ UNCHANGED <<kept, rows, madeSoFar, creating, interview>>

ReadPrepared ==
  /\ reading.at = "prepared"
  /\ Reads("prepared", Latest, "done")
  /\ UNCHANGED <<kept, rows, madeSoFar, creating, interview>>

FinishReading ==
  /\ reading.at = "done"
  /\ reading' = NotReading
  /\ UNCHANGED <<kept, rows, madeSoFar, creating, interview>>

MaterialNext ==
  \/ \E d \in Jd, r \in Resume, l \in Letter \cup {NoDoc}, readme \in BOOLEAN : Analyse(d, r, l, readme)
  \/ \E x \in Documents : DeleteDocument(x)
  \/ \E q \in Requests, mvp \in BOOLEAN : ValidateCreation(q, mvp)
  \/ InsertSession
  \/ \E q \in Requests, projects \in SUBSET Project : StartReading(q, projects)
  \/ ReadDocument("jd", "resume") \/ ReadDocument("resume", "letter") \/ ReadDocument("letter", "projects")
  \/ ReadProjects \/ ReadReadme \/ ReadResult \/ ReadPrepared \/ FinishReading

MaterialSpec == MaterialInit /\ [][MaterialNext]_materialVars

-----------------------------------------------------------------------------
(* Properties *)

MaterialTypeOK ==
  /\ kept \subseteq Documents /\ madeSoFar \in 0 .. MaxAnalyses
  /\ \A a \in rows : a.id \in 1 .. madeSoFar /\ {a.jd, a.resume} \subseteq kept
  /\ interview.letter \in kept \cup {NoDoc}

\* What is read for a session fits together, whatever is deleted or analysed between the
\* steps: what stems from an analysis is about the job description and the resume that were
\* read, a named analysis is not exchanged for another and is about no other letter, and
\* projects that were not selected are not told.
ReadFitsTogether ==
  LET s == reading.seen
      used == s.readme \cup s.result \cup s.prepared
  IN  /\ \A a \in used : s.jd \in {NoDoc, a.jd} /\ s.resume \in {NoDoc, a.resume}
      /\ reading.asked # 0 =>
           \A a \in used : a.id = reading.asked /\ (NoDoc \in {a.letter, s.letter} \/ a.letter = s.letter)
      /\ reading.projects # {} => s.projects \subseteq reading.projects

\* And the three checks agree: a session created from an analysis, by either route, may name
\* it when its questions are generated as long as it is there, also after its letter was
\* deleted (mvp_serializers.py:63, interview/serializers.py:142, views.py:494).
MaterialFits ==
  /\ ReadFitsTogether
  /\ \A a \in rows : interview # NoSession /\ interview.from = a.id => Accepts(interview, a)
=============================================================================
