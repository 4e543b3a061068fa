---------------------------- MODULE DocumentIntake ----------------------------
(***************************************************************************)
(* Which uploads, pages and texts become documents:                        *)
(* apps/document/services (guardrails, parser), apps/input/services (pages *)
(* and scans of job descriptions) and the scan of what users write         *)
(* (apps/interview/services/guardrails.py).                                *)
(*                                                                         *)
(* A text is what the checks look for in it: how many letters and digits   *)
(* it has and how many other characters, how many words of a resume and of *)
(* a job description, and its marks.                                       *)
(***************************************************************************)
EXTENDS Integers, FiniteSets, Sequences, SequencesExt

CONSTANTS Uploads,     \* the files that are uploaded or scanned
          Pages,       \* the pages job descriptions are fetched from
          MaxUpload,   \* MAX_UPLOAD_SIZE, in some unit
          MinChars     \* MIN_EXTRACTED_CHARS

ASSUME LimitAssumption == MaxUpload \in Nat /\ MinChars \in Nat \ {0}

\* A file is no page, and words are counted.
ASSUME UploadAssumption ==
  /\ Uploads \cap Pages = {}
  /\ \A f \in Uploads : {f.text.jdWords, f.text.resumeWords} \subseteq Nat

VARIABLES
  upload,     \* a file or page somebody has
  tried       \* what each place to put it said

intakeVars == <<upload, tried>>

Accepted == "accepted"

\* The code of the first check that fails.
Verdict(checks) ==
  LET failed == { i \in DOMAIN checks : checks[i].fails }
  IN IF failed = {} THEN Accepted ELSE checks[CHOOSE i \in failed : \A j \in failed : i <= j].code

Check(code, fails) == [code |-> code, fails |-> fails]

-----------------------------------------------------------------------------
(* Files *)

\* _validate_file_signature
SignatureChecks(f) ==
  IF f.type = "pdf" THEN << Check("INVALID_FILE_SIGNATURE", f.header # "pdf") >>
  ELSE << Check("INVALID_FILE_SIGNATURE", f.header # "zip"),
          Check("DOCUMENT_CORRUPTED", f.header = "zip" /\ "badArchive" \in f.marks),
          Check("INVALID_FILE_SIGNATURE", "noWordDocument" \in f.marks),
          Check("DOCUMENT_MACRO_DETECTED", "macro" \in f.marks) >>

\* validate_upload_file; a type that browsers leave open is not compared.
FileChecks(f) ==
  << Check("INVALID_FILE_TYPE", f.type \notin {"pdf", "docx"} \/ "longName" \in f.marks),
     Check("FILE_EMPTY", f.size <= 0),
     Check("FILE_TOO_LARGE", f.size > MaxUpload),
     Check("INVALID_FILE_TYPE", f.mime \notin {"", "octet-stream", f.type}) >>
    \o SignatureChecks(f)

\* extract_text_from_file with _extract_pdf and _extract_docx, and the answer that
\* map_text_extraction_error gives to what they raise.
ExtractionChecks(f) ==
  << Check("DOCUMENT_ENCRYPTED", "encrypted" \in f.marks),
     Check("DOCUMENT_CORRUPTED", "broken" \in f.marks),
     Check("TEXT_EXTRACTION_FAILED", "unreadable" \in f.marks) >>

-----------------------------------------------------------------------------
(* Texts *)

Looks(t, more, less) == t[more] >= 3 /\ t[more] > 2 * t[less]

\* _validate_document_type: DOCUMENT_TYPE_MISMATCH_SCORE and _RATIO
TypeChecks(t, kind) ==
  << Check("DOCUMENT_TYPE_MISMATCH", kind = "resume" /\ Looks(t, "jdWords", "resumeWords")),
     Check("DOCUMENT_TYPE_MISMATCH", kind = "jd" /\ Looks(t, "resumeWords", "jdWords")),
     Check("DOCUMENT_NOT_RELEVANT", kind = "jd" /\ t.jdWords = 0 /\ t.resumeWords = 0) >>

\* _looks_like_noise: addresses only, few letters, no space, few distinct ones.
Noise(t) ==
  \/ "onlyUrls" \in t.marks
  \/ 100 * t.chars < 35 * (t.chars + t.others)
  \/ t.chars + t.others >= 80 /\ "noSpace" \in t.marks
  \/ t.chars + t.others >= 50 /\ "fewDistinct" \in t.marks

\* _validate_safe_content
SafetyChecks(t) ==
  << Check("UNSAFE_DOCUMENT_CONTENT", "instructions" \in t.marks),
     Check("DOCUMENT_NOT_RELEVANT", Noise(t)) >>

\* validate_extracted_text
TextChecks(t, kind, fileType) ==
  << Check(IF fileType = "pdf" THEN "OCR_NOT_SUPPORTED" ELSE "TEXT_EXTRACTION_FAILED", t.chars = 0),
     Check("DOCUMENT_TOO_SHORT", t.chars < MinChars) >>
    \o TypeChecks(t, kind) \o SafetyChecks(t)

\* JDUploadView, ResumeUploadView and DocumentUploadView, up to what they store.
UploadVerdict(f, kind) ==
  Verdict(FileChecks(f) \o ExtractionChecks(f) \o TextChecks(f.text, kind, f.type))

-----------------------------------------------------------------------------
(* What users write, and scans of job descriptions *)

\* scan_user_input: the rules in their order; minLength is 15 for answers.
ScanRules(t, previous, minLength) ==
  << Check("SECRET_PATTERN", "secret" \in t.marks),
     Check("RRN_PATTERN", "residentNumber" \in t.marks),
     Check("XSS_PATTERN", "script" \in t.marks),
     Check("SQL_INJECTION_PATTERN", "sql" \in t.marks),
     Check("PROMPT_INJECTION_PATTERN", "instructions" \in t.marks),
     Check("AUTOMATION_OR_PRIVILEGE_ABUSE", "automation" \in t.marks),
     Check("HARMFUL_OR_ILLEGAL_REQUEST", "harm" \in t.marks),
     Check("PII_PATTERN", "personal" \in t.marks),
     Check("ANSWER_TOO_SHORT", t.chars + t.others < minLength),
     Check("REPEATED_ANSWER", t \in previous) >>

Scan(t, previous, minLength) == Verdict(ScanRules(t, previous, minLength))

\* GuardrailResult.should_block: warnings, guidance and reviews let the text pass.
Blocks(reason) ==
  reason \in {"SECRET_PATTERN", "RRN_PATTERN", "XSS_PATTERN", "SQL_INJECTION_PATTERN",
              "PROMPT_INJECTION_PATTERN", "HARMFUL_OR_ILLEGAL_REQUEST"}

\* validate_ocr_upload
ScanFileChecks(f) ==
  << Check("UNSUPPORTED", f.type \notin {"pdf", "png", "jpg"} \/ f.mime \notin {"", "pdf", "png", "jpg"}),
     Check("FILE_EMPTY", f.size <= 0),
     Check("FILE_TOO_LARGE", f.size > MaxUpload) >>

\* extract_job_text_from_upload: the text of a PDF is read here, that of a picture
\* by a provider, which only the mock is.  An exception of the PDF parser ends the
\* request.
ScanVerdict(f, provider) ==
  Verdict(ScanFileChecks(f)
    \o << Check("FAILED", f.type = "pdf" /\ Verdict(ExtractionChecks(f)) # Accepted),
          Check("OCR_PROVIDER_NOT_CONFIGURED", f.type # "pdf" /\ provider # "mock"),
          Check("OCR_PROVIDER_FAILED", f.type = "pdf" /\ f.text.chars + f.text.others = 0),
          Check("OCR_GUARDRAIL_BLOCKED", f.type = "pdf" /\ Blocks(Scan(f.text, {}, 1))) >>)

-----------------------------------------------------------------------------
(* Pages *)

\* validate_public_url, of the address given and of the one that answered.
PublicUrl(host) == host = "public"

\* analyze_job_url, with _strip_html
PageVerdict(p) ==
  Verdict(<< Check("JD_URL_BLOCKED", ~PublicUrl(p.host)),
             Check("JD_URL_FETCH_FAILED", ~p.answers),
             Check("JD_URL_BLOCKED", ~PublicUrl(p.answeredBy) \/ ~p.html \/ p.large),
             Check("JD_URL_FETCH_FAILED", p.text.chars + p.text.others = 0) >>)

-----------------------------------------------------------------------------

Places == {"jd", "resume", "other", "scan"}

IntakeInit == upload \in Uploads \cup Pages /\ tried = [place \in Places |-> "untried"]

Answered(place, code) == tried' = [tried EXCEPT ![place] = code] /\ UNCHANGED upload

\* The views that upload, in any order.
TryUpload(kind) == upload \in Uploads /\ Answered(kind, UploadVerdict(upload, kind))

TryScan(provider) == upload \in Uploads /\ Answered("scan", ScanVerdict(upload, provider))

TryPage == upload \in Pages /\ Answered("jd", PageVerdict(upload))

IntakeNext ==
  \/ \E kind \in Places \ {"scan"} : TryUpload(kind)
  \/ \E provider \in {"mock", "none"} : TryScan(provider)
  \/ TryPage

IntakeSpec == IntakeInit /\ [][IntakeNext]_intakeVars

\* A file that is refused for looking like another kind of document is not refused
\* as that kind for its type, so there is a place for it; and what passes as a
\* document of some kind passes as one of no kind.
RefusedFitsElsewhere ==
  /\ tried["resume"] = "DOCUMENT_TYPE_MISMATCH" =>
       tried["jd"] \notin {"DOCUMENT_TYPE_MISMATCH", "DOCUMENT_NOT_RELEVANT"} \/ Noise(upload.text)
  /\ tried["jd"] = "DOCUMENT_TYPE_MISMATCH" => tried["resume"] # "DOCUMENT_TYPE_MISMATCH"
  /\ upload \in Uploads /\ Accepted \in {tried["jd"], tried["resume"]}
       => tried["other"] \in {Accepted, "untried"}
=============================================================================
