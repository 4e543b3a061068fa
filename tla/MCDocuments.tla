----------------------------- MODULE MCDocuments -----------------------------
(***************************************************************************)
(* Instances for TLC of the features that start from a user's documents:   *)
(* the documents themselves, the paid features, the analyses, and the      *)
(* talent profiles.  They share no variable, so one run takes them one     *)
(* after the other.  No symmetry: the run checks a liveness property.      *)
(***************************************************************************)
EXTENDS PaidFeatures, DocumentAnalysis, TalentProfile, InputDocuments, JobDescriptionText,
        GithubImport, PreparedQuestions, MatchScore

(* Paid features: one user, one item of each feature, two prices. *)

CONSTANTS ann, pack, weak, session, analysis

OneUser == {ann}
Packs == {pack}
Practices == {weak}
Sessions == {session}
Analyses == {analysis}
None == {}
AllOwnedByAnn == [i \in Item |-> ann]
MCPrices == {-1, -2}
OnePrice == {-1}
Amounts == -2 .. 3
Keys == [item : Item, n : 0 .. MaxRuns, refund : BOOLEAN]

(* Files and pages: one that is accepted and, for each check, one that is not;
   texts on both sides of the limits of TypeChecks. *)

PlainText == [chars |-> 60, others |-> 20, jdWords |-> 3, resumeWords |-> 1, marks |-> {}]

Mixed(j, r) == [PlainText EXCEPT !.jdWords = j, !.resumeWords = r]

PlainFile ==
  [type |-> "pdf", size |-> 10, mime |-> "pdf", header |-> "pdf", marks |-> {}, text |-> PlainText]

WordFile == [PlainFile EXCEPT !.type = "docx", !.mime = "docx", !.header = "zip"]

MCUploads ==
  {PlainFile, WordFile, [PlainFile EXCEPT !.type = "png", !.mime = ""],
   [PlainFile EXCEPT !.size = 0], [PlainFile EXCEPT !.size = 101], [PlainFile EXCEPT !.header = "zip"],
   [WordFile EXCEPT !.mime = "pdf"]}
  \cup {[PlainFile EXCEPT !.marks = {m}] : m \in {"longName", "encrypted", "broken", "unreadable"}}
  \cup {[WordFile EXCEPT !.marks = {m}] : m \in {"badArchive", "noWordDocument", "macro"}}
  \cup {[PlainFile EXCEPT !.text = t] :
           t \in {Mixed(j, r) : j \in {0, 3, 7}, r \in {0, 1, 3, 7}}
                \cup {[PlainText EXCEPT !.chars = 0], [PlainText EXCEPT !.chars = 49],
                      [PlainText EXCEPT !.others = 200]}
                \cup {[PlainText EXCEPT !.marks = {m}] :
                        m \in {"onlyUrls", "noSpace", "fewDistinct", "instructions", "secret", "personal"}}}

PlainPage ==
  [host |-> "public", answers |-> TRUE, answeredBy |-> "public", html |-> TRUE, large |-> FALSE,
   text |-> PlainText]

MCPages ==
  {PlainPage, [PlainPage EXCEPT !.host = "local"], [PlainPage EXCEPT !.answers = FALSE],
   [PlainPage EXCEPT !.answeredBy = "local"], [PlainPage EXCEPT !.html = FALSE],
   [PlainPage EXCEPT !.large = TRUE]}

(* Selections: a technique whose name has a comma, a text with a line that looks
   like a category, a request without selected values. *)

Server == <<"server">>
Plain(v) == [label |-> "none", value |-> v]

MCSelection ==
  {[Nothing EXCEPT !.category = Server, !.level = <<"junior">>, !.techs = <<<<"django">>>>,
                   !.customTechs = <<<<"spring", "boot">>>>],
   [Nothing EXCEPT !.category = <<"data">>, !.techs = <<<<"sql">>, <<"django">>>>,
                   !.customKeywords = <<<<"sql">>>>],
   [Nothing EXCEPT !.tasks = <<<<"build">>, [label |-> "category", value |-> <<"other">>]>>,
                   !.requirements = <<<<"years">>>>, !.remark = <<<<"remote">>, Plain(<<"b">>)>>],
   [Nothing EXCEPT !.original = <<Plain(<<"a">>)>>],
   [Nothing EXCEPT !.original = <<>>],
   [Nothing EXCEPT !.level = <<"senior">>, !.preferences = <<<<"degree">>>>,
                   !.original = <<Plain(<<"a">>), [label |-> "techs", value |-> <<"rust">>]>>],
   [Nothing EXCEPT !.customKeywords = <<<<"cloud">>, <<"cloud">>>>]}

(* Repositories: a Python one with a manifest in a directory, a JavaScript and
   Go one with a manifest that cannot be parsed, and one with a manifest that is
   a list; projects with more links than are read, with a wrong link, and with
   none. *)

MCAlias ==
  [p \in {"django", "djangorestframework", "react", "react-dom", "gin-gonic/gin"} |->
     CASE p = "djangorestframework" -> "django rest framework"
       [] p \in {"react", "react-dom"} -> "react"
       [] p = "gin-gonic/gin" -> "gin"
       [] OTHER -> p]

MCSubstringKeys ==
  [p \in {"github.com/gin-gonic/gin", "left-pad"} |->
     IF p = "left-pad" THEN <<>> ELSE <<"gin-gonic/gin">>]

Path(dirs, name) == [dirs |-> dirs, name |-> name]

Repository(texts, order, languages) == [tree |-> order, text |-> texts, languages |-> languages]

MCRepositories ==
  LET readme == Path(<<>>, "readme.md")
      base == Path(<<"requirements">>, "base.txt")
      plain == Path(<<>>, "requirements.txt")
      package == Path(<<"web">>, "package.json")
      gomod == Path(<<>>, "go.mod")
      other == Path(<<"web">>, "readme.md")
      good(ps) == [form |-> "good", packages |-> ps]
      none == good({})
  IN [u \in {"api", "shop", "list"} |->
        CASE u = "api" ->
               Repository((base :> good({"djangorestframework"})) @@ (plain :> good({"django", "left-pad"}))
                            @@ (readme :> none) @@ (other :> none),
                          <<base, readme, plain, other>>, {"python"})
          [] u = "shop" ->
               Repository((package :> [form |-> "broken", packages |-> {"react-dom"}])
                            @@ (gomod :> good({"github.com/gin-gonic/gin"})),
                          <<gomod, package>>, {"go", "javascript"})
          [] u = "list" ->
               Repository((package :> [form |-> "otherShape", packages |-> {}]) , <<package>>, {})]

MCPortfolio ==
  LET of(urls, names) == [urls |-> urls, claimed |-> names]
      claims == {"django", "djangorestframework", "gin", "react", "python"}
  IN {<<of(<<"api">>, claims), of(<<"shop">>, claims)>>,
      <<of(<<>>, {"django"}), of(<<"api", "shop", "wrong">>, claims), of(<<"shop">>, claims)>>,
      <<of(<<"wrong", "api">>, claims), of(<<"list">>, {"react"})>>, <<>>}

(* Prepared questions: drafts with a pair that is alike and a question of a kind
   that has no slot, a bank and code questions that repeat some of them, answers
   in another order, twice, and with figures of the model's own. *)

Question(t, type, by) == [text |-> t, type |-> type, by |-> by]

MCAlike == {<<"p1", "p2">>, <<"t1", "bankT">>, <<"t2", "codeT">>}

MCBanks ==
  {<<>>, <<Question("bankT", "technical", "bank"), Question("bankP", "personality", "bank"),
           Question("bankE", "experience", "bank")>>}

MCDrafts ==
  LET own == <<Question("p1", "personality", "model"), Question("p2", "personality", "model"),
               Question("t1", "technical", "model"), Question("e1", "experience", "model"),
               Question("talent", "talent", "model")>>
  IN {own, SelectSeq(own, LAMBDA q : q.type # "experience"),
      <<Question("t1", "technical", "model"), Question("p3", "personality", "model"),
        Question("t2", "technical", "model"), Question("t3", "technical", "model"),
        Question("short", "experience", "model")>>}

MCCodeDrafts ==
  {<<>>, <<Question("codeT", "technical", "code"), Question("codeE", "experience", "code"),
           Question("codeU", "technical", "code"), Question("codeV", "technical", "code")>>}

MCWritten ==
  LET answerNo(n, figures, others) == [number |-> n, figures |-> figures, others |-> others]
  IN {<<>>, <<answerNo(2, {"40%"}, {}), answerNo(1, {}, {"3x"})>>,
      <<answerNo(1, {}, {}), answerNo(3, {}, {"40%"}), answerNo(1, {"3x"}, {}), answerNo(9, {}, {})>>}

MCTraits == {<<>>, <<"honesty">>}

MCBefore ==
  {<<>>, <<[row |-> [text |-> "p1", type |-> "personality", by |-> "model", answer |-> NoAnswer,
                     grounded |-> TRUE],
            text |-> "p1", order |-> 0]>>}

(* Match scores: a description that names techniques by short names, one that
   does not tell what is required, and one nothing was found in. *)

MCCanon == ("aws" :> "amazon web services") @@ ("k8s" :> "kubernetes")

MCLikeness == ("lead" :> ("led" :> 800 @@ "argued" :> 300)) @@ ("care" :> ("led" :> 100 @@ "argued" :> 450))

MCPostings ==
  LET full == [techs |-> {"aws", "python", "kubernetes"}, required |-> {"aws", "python"},
               preferred |-> {"kubernetes"}, traits |-> <<"lead", "care">>, years |-> 3,
               education |-> "university", level |-> "experienced", found |-> TRUE, roleFits |-> TRUE]
      bare == [full EXCEPT !.required = {}, !.preferred = {}, !.years = 0]
  IN {full, [full EXCEPT !.years = 6, !.level = "entry", !.education = "postgraduate"],
      [bare EXCEPT !.education = "any", !.level = "entry", !.roleFits = FALSE],
      [bare EXCEPT !.techs = {}, !.traits = <<>>, !.found = FALSE]}

MCResumes == {[techs |-> {"java"}, evidence |-> {}, years |-> 0, education |-> "school"]}

-----------------------------------------------------------------------------

VARIABLE part

MCInit ==
  /\ part \in {"paid", "analyses", "profiles", "inputs", "intake", "texts", "github", "questions",
              "scores"}
  /\ PaidInit /\ DocumentInit /\ TalentInit /\ InputInit /\ TextInit /\ IntakeInit /\ GithubInit
  /\ PreparedInit /\ MatchInit
  /\ part = "paid" \/ price = -1
  /\ part = "intake" \/ upload = PlainPage
  /\ part = "github" \/ portfolio = <<>>
  /\ part = "scores" \/ posting.years = 3
  /\ part = "questions" \/ (rows = <<>> /\ anew)

PaidStep ==
  /\ part = "paid" /\ PaidNext
  /\ UNCHANGED <<part, documentVars, profileVars, inputVars, textVars, intakeVars, githubVars,
                 preparedVars, matchVars>>
AnalysisStep ==
  /\ part = "analyses" /\ DocumentNext
  /\ UNCHANGED <<part, paidVars, profileVars, inputVars, textVars, intakeVars, githubVars,
                 preparedVars, matchVars>>
ProfileStep ==
  /\ part = "profiles" /\ TalentNext
  /\ UNCHANGED <<part, paidVars, documentVars, inputVars, textVars, intakeVars, githubVars,
                 preparedVars, matchVars>>
InputStep ==
  /\ part = "inputs" /\ InputNext
  /\ UNCHANGED <<part, paidVars, documentVars, profileVars, textVars, intakeVars, githubVars,
                 preparedVars, matchVars>>
TextStep ==
  /\ part = "texts" /\ TextNext
  /\ UNCHANGED <<part, paidVars, documentVars, profileVars, inputVars, intakeVars, githubVars,
                 preparedVars, matchVars>>
IntakeStep ==
  /\ part = "intake" /\ IntakeNext
  /\ UNCHANGED <<part, paidVars, documentVars, profileVars, inputVars, textVars, githubVars,
                 preparedVars, matchVars>>
GithubStep ==
  /\ part = "github" /\ GithubNext
  /\ UNCHANGED <<part, paidVars, documentVars, profileVars, inputVars, textVars, intakeVars,
                 preparedVars, matchVars>>
PreparedStep ==
  /\ part = "questions" /\ PreparedNext
  /\ UNCHANGED <<part, paidVars, documentVars, profileVars, inputVars, textVars, intakeVars,
                 githubVars, matchVars>>
MatchStep ==
  /\ part = "scores" /\ MatchNext
  /\ UNCHANGED <<part, paidVars, documentVars, profileVars, inputVars, textVars, intakeVars,
                 githubVars, preparedVars>>

MCSpec ==
  /\ MCInit
  /\ [][PaidStep \/ AnalysisStep \/ ProfileStep \/ InputStep \/ TextStep \/ IntakeStep \/ GithubStep
       \/ PreparedStep \/ MatchStep]_<<part, paidVars, documentVars, profileVars, inputVars, textVars, intakeVars,
                                      githubVars, preparedVars, matchVars>>
  /\ ThreadsGoOn
=============================================================================
