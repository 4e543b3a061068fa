---------------------------- MODULE InputDocuments ----------------------------
(***************************************************************************)
(* The documents of one user: apps/input/views.py and apps/document/views  *)
(* store, link and delete them.  No request runs in a transaction: a row,  *)
(* its parts, a file and the reward are written one after the other, and   *)
(* a request may end after any of them.  What becomes of a kept job      *)
(* description is in DocumentAnalysis and JobDescriptionText.              *)
(***************************************************************************)
EXTENDS DocumentIntake

CONSTANTS Author,     \* requests
          NoRow,
          MaxRows,    \* bound: rows inserted
          MaxItems    \* bound: items of a letter, skills of a resume at once

ASSUME RowAssumption == MaxRows \in Nat /\ NoRow \notin Nat
ASSUME ItemAssumption == MaxItems \in Nat

VARIABLES
  kept,     \* the rows: [id, kind, jd, asked, items]
  files,      \* the rows whose file is in the storage
  claimed,    \* the reasons a reward was asked for so far
  author,     \* where a request is
  draft,      \* the row it is about
  left,       \* the items it has yet to insert
  answered,   \* history: the rows whose creation was answered with 201
  unwanted,   \* history: the uploaded documents somebody began to delete
  inserted    \* rows inserted so far

inputVars == <<kept, files, claimed, author, draft, left, answered, unwanted, inserted>>

\* JobDescription, CoverLetter, ProjectExperience, UserProfile and UploadedDocument;
\* a letter may name a job description.
NewRow(kind) == [id |-> NoRow, kind |-> kind, jd |-> NoRow, asked |-> 0, items |-> 0]

InputInit ==
  /\ kept = {} /\ files = {} /\ claimed = {} /\ answered = {} /\ unwanted = {}
  /\ inserted = 0
  /\ author = [c \in Author |-> "idle"]
  /\ draft = [c \in Author |-> NewRow("none")]
  /\ left = [c \in Author |-> 0]

AuthorGoes(c, to) == author' = [author EXCEPT ![c] = to]

Ids(kind) == { x.id : x \in { y \in kept : y.kind = kind } }

-----------------------------------------------------------------------------
(* What is accepted *)

\* A request is accepted: it goes on to insert a row with some items.
Accept(c, row, at) ==
  /\ author[c] = "idle"
  /\ AuthorGoes(c, at)
  /\ draft' = [draft EXCEPT ![c] = row]
  /\ left' = [left EXCEPT ![c] = row.asked]
  /\ UNCHANGED <<kept, files, claimed, answered, unwanted, inserted>>

\* The kinds some file, page or scan is accepted as.
Uploadable == { kind \in Places : \E f \in Uploads : UploadVerdict(f, kind) = Accepted }

Fetchable == \E p \in Pages : PageVerdict(p) = Accepted

Scannable == \E f \in Uploads : ScanVerdict(f, "mock") = Accepted

\* JDUploadView and ResumeUploadView; a request that is refused leaves nothing.
UploadJd(c) == "jd" \in Uploadable /\ Accept(c, NewRow("jd"), "insert")

UploadResume(c) == "resume" \in Uploadable /\ Accept(c, NewRow("resume"), "insert")

\* DocumentUploadView: the file is stored with the row.
UploadDocument(c) == "other" \in Uploadable /\ Accept(c, NewRow("uploaded"), "file")

\* JDURLAnalyzeView and JDOCRUploadView
FetchJd(c) == Fetchable /\ Accept(c, NewRow("jd"), "insert")

ScanJd(c) == Scannable /\ Accept(c, NewRow("jd"), "insert")

\* JDListCreateView.create, ResumeMasterCreateView.post and the list of projects:
\* what is typed is only checked for its form.
TypeJd(c) == Accept(c, NewRow("jd"), "insert")

TypeResume(c) == Accept(c, NewRow("resume"), "insert")

CreateProject(c) == Accept(c, NewRow("project"), "insert")

\* CoverLetterListCreateView.create: validate_jd_id looks for the job description.
CreateLetter(c, link, n) ==
  /\ link \in Ids("jd") \cup {NoRow}
  /\ Accept(c, [NewRow("letter") EXCEPT !.jd = link, !.asked = n], "insert")

\* UserProfileView.post: a user has one profile.
CreateProfile(c) == Ids("profile") = {} /\ Accept(c, NewRow("profile"), "insert")

\* UserProfileView.patch with a desired job: the row is saved, and its reward asked for anew.
PatchProfile(c, x) ==
  x \in kept /\ x.kind = "profile" /\ Accept(c, [x EXCEPT !.kind = "desiredJob"], "reward")

\* The views that add to a resume look for it first.
AddParts(c, x, n) ==
  x \in kept /\ x.kind = "resume" /\ Accept(c, [x EXCEPT !.kind = "part", !.asked = n], "items")

\* ResumeEducationCreateView, ResumeCareerCreateView and ResumeCertificateCreateView
AddEducation(c, x) == AddParts(c, x, 1)
AddCareer(c, x) == AddParts(c, x, 1)
AddCertificate(c, x) == AddParts(c, x, 1)

\* ResumeSkillCreateView: skills are inserted one by one.
AddSkills(c, x, n) == AddParts(c, x, n)

-----------------------------------------------------------------------------
(* What is kept *)

\* The storage has the file before the database has its row.
StoreFile(c) ==
  /\ author[c] = "file" /\ inserted < MaxRows
  /\ inserted' = inserted + 1
  /\ files' = files \cup {inserted + 1}
  /\ draft' = [draft EXCEPT ![c].id = inserted + 1]
  /\ AuthorGoes(c, "row")
  /\ UNCHANGED <<kept, claimed, left, answered, unwanted>>

InsertFileRow(c) ==
  /\ author[c] = "row"
  /\ kept' = kept \cup {draft[c]}
  /\ AuthorGoes(c, "answer")
  /\ UNCHANGED <<files, claimed, draft, left, answered, unwanted, inserted>>

\* bug: the database checks nothing
AnyRow(x) == TRUE

\* The foreign key to a job description and the one profile of a user are checked
\* by the database.
Insertable(x) ==
  /\ x.jd \in Ids("jd") \cup {NoRow}
  /\ x.kind = "profile" => Ids("profile") = {}

InsertRow(c) ==
  /\ author[c] = "insert" /\ inserted < MaxRows /\ Insertable(draft[c])
  /\ inserted' = inserted + 1
  /\ LET x == [draft[c] EXCEPT !.id = inserted + 1]
     IN kept' = kept \cup {x} /\ draft' = [draft EXCEPT ![c] = x]
  /\ AuthorGoes(c, IF left[c] > 0 THEN "items" ELSE "reward")
  /\ UNCHANGED <<files, claimed, left, answered, unwanted>>

\* CoverLetterCreateSerializer.create and ResumeSkillCreateSerializer.create: the row
\* must still be there; the parts of a resume earn nothing.
InsertItem(c) ==
  /\ author[c] = "items" /\ left[c] > 0
  /\ \E x \in kept :
       /\ x.id = draft[c].id
       /\ kept' = (kept \ {x}) \cup
            {IF x.kind = "letter" THEN [x EXCEPT !.items = @ + 1] ELSE x}
       /\ AuthorGoes(c, IF left[c] > 1 THEN "items" ELSE IF x.kind = "letter" THEN "reward" ELSE "answer")
  /\ left' = [left EXCEPT ![c] = @ - 1]
  /\ UNCHANGED <<files, claimed, draft, answered, unwanted, inserted>>

\* _reward_first_saved_item: a posting of the ledger under a key of the user and
\* the reason, so that the first document of a kind earns (Ledger!Post).  It may be refused,
\* as when the policy is switched off: the request goes on all the same.
Reward(c) ==
  /\ author[c] = "reward"
  /\ claimed' = claimed \cup {draft[c].kind}
  /\ AuthorGoes(c, "answer")
  /\ UNCHANGED <<kept, files, draft, left, answered, unwanted, inserted>>

EndRequest(c) ==
  /\ AuthorGoes(c, "idle")
  /\ draft' = [draft EXCEPT ![c] = NewRow("none")]
  /\ left' = [left EXCEPT ![c] = 0]
  /\ UNCHANGED <<kept, claimed, unwanted, inserted>>

Answer(c) ==
  /\ author[c] = "answer"
  /\ answered' = IF draft[c].kind \in {"part", "desiredJob"} THEN answered
                 ELSE answered \cup {draft[c].id}
  /\ EndRequest(c) /\ UNCHANGED files

\* bug: a failure in the middle is answered like the whole
FailsSilently(c) == author[c] = "items"

\* A failure of the database, of the storage, or of a reward that overlaps another
\* is answered with an error: nothing is undone.
Fails(c) == FALSE

Break(c) ==
  /\ author[c] # "idle"
  /\ answered' = IF Fails(c) THEN answered \cup {draft[c].id} ELSE answered
  /\ EndRequest(c) /\ UNCHANGED files

-----------------------------------------------------------------------------
(* What is deleted *)

\* bug: the link stays
LinkStays(x, gone) == x

\* The letters of a job description lose their link (SET_NULL).
WithoutLink(x, gone) == IF x.jd = gone THEN [x EXCEPT !.jd = NoRow] ELSE x

\* destroy of the views: a row goes with its parts.
Delete(x) ==
  /\ x \in kept /\ x.kind \notin {"uploaded", "profile"}
  /\ kept' = { WithoutLink(y, x.id) : y \in kept \ {x} }
  /\ UNCHANGED <<files, claimed, author, draft, left, answered, unwanted, inserted>>

\* DocumentDetailView.destroy deletes the file, and then the row.
DeleteFile(c, x) ==
  /\ author[c] = "idle" /\ x \in kept /\ x.kind = "uploaded"
  /\ files' = files \ {x.id}
  /\ draft' = [draft EXCEPT ![c] = x]
  /\ AuthorGoes(c, "unfile")
  /\ unwanted' = unwanted \cup {x.id}
  /\ UNCHANGED <<kept, claimed, left, answered, inserted>>

DeleteFileRow(c) ==
  /\ author[c] = "unfile"
  /\ kept' = kept \ {draft[c]}
  /\ AuthorGoes(c, "idle")
  /\ draft' = [draft EXCEPT ![c] = NewRow("none")]
  /\ UNCHANGED <<files, claimed, left, answered, unwanted, inserted>>

-----------------------------------------------------------------------------

AcceptNext(c) ==
  \/ UploadJd(c) \/ UploadResume(c) \/ UploadDocument(c) \/ FetchJd(c) \/ ScanJd(c)
  \/ TypeJd(c) \/ TypeResume(c) \/ CreateProject(c) \/ CreateProfile(c)
  \/ \E link \in Ids("jd") \cup {NoRow}, n \in 1 .. MaxItems : CreateLetter(c, link, n)
  \/ \E x \in kept :
       \/ PatchProfile(c, x) \/ AddEducation(c, x) \/ AddCareer(c, x) \/ AddCertificate(c, x)
       \/ \E n \in 1 .. MaxItems : AddSkills(c, x, n)

StoreNext(c) ==
  \/ StoreFile(c) \/ InsertFileRow(c) \/ InsertRow(c) \/ InsertItem(c) \/ Reward(c)
  \/ Answer(c) \/ Break(c) \/ DeleteFileRow(c)
  \/ \E x \in kept : DeleteFile(c, x)

InputNext ==
  \/ \E c \in Author : AcceptNext(c) \/ StoreNext(c)
  \/ \E x \in kept : Delete(x)

InputSpec == InputInit /\ [][InputNext]_inputVars

-----------------------------------------------------------------------------
(* Properties *)

\* A creation that was answered with 201 is there as a whole while it is there: a
\* letter with all its items, an uploaded document with its file unless its deletion
\* began, the others with their reward asked for, whatever failed or went meanwhile.
\* And a letter names no job description that is gone, although requests look for it
\* long before they insert; and two overlapping requests leave one profile.
DocumentsAreWhole ==
  /\ \A x \in kept : x.id \in answered =>
       /\ x.items = x.asked
       /\ IF x.kind = "uploaded" THEN x.id \in files \cup unwanted ELSE x.kind \in claimed
  /\ \A x \in kept : x.jd \in Ids("jd") \cup {NoRow}
  /\ Cardinality(Ids("profile")) <= 1

\* A document that one upload refuses for its kind is not refused by the other for the same
\* reason, and one that was accepted is stored with all its parts or not at all.
UploadsHold == DocumentsAreWhole /\ RefusedFitsElsewhere
=============================================================================
