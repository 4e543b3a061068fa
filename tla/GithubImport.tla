------------------------------ MODULE GithubImport ------------------------------
(***************************************************************************)
(* What a user's repositories say of the projects in a resume              *)
(* (analysis/services: github_service.py, and merge_with_github of         *)
(* project_service.py).  The projects are gone through one by one; every   *)
(* repository takes several requests to GitHub, each of which may fail in  *)
(* its own way, and one that fails must change nothing of the others.      *)
(*                                                                         *)
(* Names of packages, frameworks and languages stand for their lower-case  *)
(* forms.  The byte counts of languages and all messages are left out.     *)
(***************************************************************************)
EXTENDS JobDescriptionText

CONSTANTS Portfolio,      \* the lists of projects to check
          Repositories,   \* the content of the repository behind each valid URL
          Alias,          \* FRAMEWORK_ALIASES
          SubstringKeys,  \* per package, the keys with "/" or "-starter" it contains
          TextNames,      \* the names of files that end in .txt,
          RequirementsNames, \* and those of them that begin with requirements
          MaxRepos,       \* MAX_REPOS
          MaxManifests    \* _MAX_MANIFESTS

ASSUME NameAssumption == RequirementsNames \subseteq TextNames /\ "languages" \notin TextNames
ASSUME RepoBoundAssumption == MaxRepos \in Nat /\ MaxManifests \in Nat

\* Projects, their links and the files of a repository come in lists.
ASSUME PortfolioAssumption ==
  /\ \A p \in Portfolio : IsList(p) /\ \A i \in DOMAIN p : IsList(p[i].urls)
  /\ \A url \in DOMAIN Repositories : IsList(Repositories[url].tree)

VARIABLES
  portfolio,  \* the projects: their URLs and the techniques their author claims
  checked,    \* of the projects that are done
  asking,     \* the next request to GitHub, or what is done without one
  link,       \* the URL of the project in hand that is read
  budget,     \* remaining
  merged,     \* what the repositories of this project have shown so far
  data,       \* what the requests for this repository have answered so far
  readFiles   \* history: the <<project, link, path>> that were read

githubVars == <<portfolio, checked, asking, link, budget, merged, data, readFiles>>

-----------------------------------------------------------------------------
(* Manifests *)

\* A path has its directories and the name of its file.
DEPENDENCY_FILENAMES ==
  {"requirements.txt", "pyproject.toml", "pipfile", "package.json", "go.mod", "gemfile",
   "pom.xml", "build.gradle", "build.gradle.kts"}

IsRequirementsFile(path) ==
  \/ path.name \in RequirementsNames
  \/ path.name \in TextNames /\ "requirements" \in Range(path.dirs)

IsDependencyFile(path) == path.name \in DEPENDENCY_FILENAMES \/ IsRequirementsFile(path)

README_FILENAMES == {"readme.md", "readme.rst", "readme.txt", "readme"}
IsReadme(path) == path.dirs = <<>> /\ path.name \in README_FILENAMES

\* How the parser of a path reads it: line by line, taking the lines it
\* understands, or as a whole.
ParserFor(path) ==
  CASE IsRequirementsFile(path) -> "lines"
    [] path.name \in {"pyproject.toml", "pipfile", "package.json"} -> "whole"
    [] path.name \in DEPENDENCY_FILENAMES -> "lines"
    [] OTHER -> "none"

\* A text that cannot be parsed as a whole yields nothing; one that can be but
\* has another shape, such as a list in package.json, raises in every parser.
Tokens(path, content) ==
  IF ParserFor(path) = "none" \/ (ParserFor(path) = "whole" /\ content.form # "good") THEN {}
  ELSE content.packages

Raises(path, content) == ParserFor(path) = "whole" /\ content.form = "otherShape"

\* _to_frameworks
Frameworks(tokens) ==
  { Alias[t] : t \in tokens \cap DOMAIN Alias }
    \cup { Alias[Head(SubstringKeys[t])] : t \in { u \in tokens \ DOMAIN Alias : SubstringKeys[u] # <<>> } }

\* extract_dependencies: the frameworks, each with a file that shows it.
Evidence(files, repo) ==
  UNION { {[framework |-> fw, file |-> p] : fw \in Frameworks(Tokens(p, repo.text[p]))} : p \in files }

-----------------------------------------------------------------------------
(* Projects and their repositories *)

Here == portfolio[Len(checked) + 1]
Url == Here.urls[link]
Repo == Repositories[Url]

NothingRead == [languages |-> {}, files |-> {}, pending |-> <<>>]

NothingMerged == [use |-> 0, ok |-> FALSE, evidence |-> {}, languages |-> {}, errors |-> <<>>]

\* bug: what was found for the project before is not cleared
CarriedOn(n) == [merged EXCEPT !.use = n, !.errors = <<>>]

\* The accumulators of a project, n of whose URLs are used.
Fresh(n) == [NothingMerged EXCEPT !.use = n]

GithubInit ==
  /\ portfolio \in Portfolio
  /\ checked = <<>> /\ asking = "project" /\ link = 1
  /\ budget = MaxRepos
  /\ merged = NothingMerged /\ data = NothingRead
  /\ readFiles = {}

\* merge_with_github: the budget is for all projects together.
StartProject ==
  /\ asking = "project" /\ Len(checked) < Len(portfolio) /\ Here.urls # <<>>
  /\ LET n == Len(Cut(Here.urls, budget))
     IN merged' = Fresh(n) /\ budget' = budget - n
  /\ link' = 1 /\ asking' = "url"
  /\ UNCHANGED <<portfolio, checked, data, readFiles>>

\* A project without a link is passed over: nothing is said of its techniques.
PassOver ==
  /\ asking = "project" /\ Len(checked) < Len(portfolio) /\ Here.urls = <<>>
  /\ checked' = Append(checked, [verified |-> {}, unverified |-> {}, ok |-> FALSE, errors |-> <<>>])
  /\ UNCHANGED <<portfolio, asking, link, budget, merged, data, readFiles>>

Failed(kind) ==
  /\ merged' = [merged EXCEPT !.errors = Append(@, [link |-> link, kind |-> kind])]
  /\ link' = link + 1 /\ asking' = "url"
  /\ UNCHANGED <<portfolio, checked, budget, data, readFiles>>

\* parse_repo_url
ParseUrl ==
  /\ asking = "url" /\ link <= merged.use
  /\ IF Url \in DOMAIN Repositories
     THEN /\ asking' = "meta" /\ data' = NothingRead
          /\ UNCHANGED <<portfolio, checked, link, budget, merged, readFiles>>
     ELSE Failed("invalid_url")

\* _reconcile_tech
Backed(tech) ==
  LET fws == { e.framework : e \in merged.evidence }
  IN \/ tech \in fws \cup merged.languages
     \/ tech \in DOMAIN Alias /\ Alias[tech] \in fws

\* The URLs past the budget are recorded, and the claims compared.
Reconcile ==
  /\ asking = "url" /\ link > merged.use
  /\ LET skipped == [ i \in 1 .. Len(Here.urls) - merged.use |->
                        [link |-> merged.use + i, kind |-> "limit_skipped"] ]
     IN checked' = Append(checked,
          [verified |-> { t \in Here.claimed : Backed(t) },
           unverified |-> { t \in Here.claimed : ~Backed(t) },
           ok |-> merged.ok, errors |-> merged.errors \o skipped])
  /\ asking' = "project"
  /\ UNCHANGED <<portfolio, link, budget, merged, data, readFiles>>

AllDone ==
  /\ asking = "project" /\ Len(checked) = Len(portfolio)
  /\ asking' = "done"
  /\ UNCHANGED <<portfolio, checked, link, budget, merged, data, readFiles>>

-----------------------------------------------------------------------------
(* Requests to GitHub *)

\* What GitHub may say, or the network: a 403 with and without calls left, and an
\* answer whose body is no JSON.
Status == {"200", "404", "403", "exhausted", "500", "timeout", "notJson"}

\* _get and _check; a body that is no JSON raises something else.
Kind(status) ==
  CASE status = "404" -> "not_found"
    [] status = "exhausted" -> "rate_limit"
    [] status = "403" -> "auth"
    [] status = "notJson" -> "unknown"
    [] OTHER -> "network"

\* The answer of /languages, among the files that are read.
Statistics == [dirs |-> <<"">>, name |-> "languages"]

Read(path) == readFiles' = readFiles \cup {<<Len(checked) + 1, link, path>>}

\* fetch_manifests, first call
ReadMeta(status) ==
  /\ asking = "meta"
  /\ IF status = "200"
     THEN asking' = "languages" /\ UNCHANGED <<portfolio, checked, link, budget, merged, data, readFiles>>
     ELSE Failed(Kind(status))

\* Languages that cannot be had are none.
ReadLanguages(status) ==
  /\ asking = "languages"
  /\ IF status = "notJson" THEN Failed("unknown")
     ELSE /\ asking' = "tree"
          /\ IF status = "200"
             THEN data' = [data EXCEPT !.languages = Repo.languages] /\ Read(Statistics)
             ELSE UNCHANGED <<data, readFiles>>
          /\ UNCHANGED <<portfolio, checked, link, budget, merged>>

\* The manifests in the order of the tree, as many as are allowed, and the first
\* README of the root.
Wanted(tree) ==
  LET taken(P(_)) == Where(tree, { i \in DOMAIN tree : P(tree[i]) })
  IN  Cut(taken(IsDependencyFile), MaxManifests) \o Cut(taken(IsReadme), 1)

ReadTree(status) ==
  /\ asking = "tree"
  /\ IF status = "200"
     THEN /\ asking' = "files" /\ data' = [data EXCEPT !.pending = Wanted(Repo.tree)]
          /\ UNCHANGED <<portfolio, checked, link, budget, merged, readFiles>>
     ELSE Failed(Kind(status))

\* fetch_file: a file that cannot be had is left out.
ReadFile(status) ==
  /\ asking = "files" /\ data.pending # <<>>
  /\ IF status = "notJson" THEN Failed("unknown")
     ELSE LET path == Head(data.pending)
          IN /\ data' = [data EXCEPT !.pending = Tail(@),
                           !.files = IF status = "200" THEN @ \cup {path} ELSE @]
             /\ IF status = "200" THEN Read(path) ELSE UNCHANGED readFiles
             /\ UNCHANGED <<portfolio, checked, asking, link, budget, merged>>

\* analyze_repo: the manifests are parsed after the handlers of its exceptions, so
\* that one of an unexpected shape ends the whole call.
Extract ==
  /\ asking = "files" /\ data.pending = <<>>
  /\ IF \E p \in data.files : Raises(p, Repo.text[p])
     THEN asking' = "raised" /\ UNCHANGED <<link, merged>>
     ELSE /\ merged' = [merged EXCEPT !.ok = TRUE,
                          !.languages = @ \cup data.languages,
                          !.evidence = @ \cup Evidence(data.files, Repo)]
          /\ link' = link + 1 /\ asking' = "url"
  /\ UNCHANGED <<portfolio, checked, budget, data, readFiles>>

GithubNext ==
  \/ StartProject \/ PassOver \/ ParseUrl \/ Reconcile \/ AllDone \/ Extract
  \/ \E status \in Status :
       ReadMeta(status) \/ ReadLanguages(status) \/ ReadTree(status) \/ ReadFile(status)

GithubSpec == GithubInit /\ [][GithubNext]_githubVars

-----------------------------------------------------------------------------
(* Properties *)

\* What was read of a project, in repositories that answered to the end, shows a
\* technique: as a language, or as a package of a manifest.
ShownBy(i, tech) ==
  \E r \in readFiles :
    /\ r[1] = i
    /\ \A e \in Range(checked[i].errors) : e.link # r[2]
    /\ LET repo == Repositories[portfolio[i].urls[r[2]]]
       IN IF r[3] = Statistics THEN tech \in repo.languages
          ELSE LET fws == Frameworks(Tokens(r[3], repo.text[r[3]]))
               IN tech \in fws \/ (tech \in DOMAIN Alias /\ Alias[tech] \in fws)

\* A technique is called verified exactly when something read for that very project
\* shows it, whatever fails in between: the questions on techniques without a proof
\* are about the others.  No link is forgotten: each one is read to its end or
\* listed with its error.
ProjectShown(i) ==
  /\ checked[i].verified = { t \in portfolio[i].claimed : ShownBy(i, t) }
  /\ checked[i].unverified = portfolio[i].claimed \ checked[i].verified
  /\ checked[i].ok <=> Len(checked[i].errors) < Len(portfolio[i].urls)
  /\ IsInjective([ k \in DOMAIN checked[i].errors |-> checked[i].errors[k].link ])

\* The repositories something was read of, by their place in the portfolio.
ReadLinks == { <<r[1], r[2]>> : r \in readFiles }

\* At the end this is so of every project that has a link, and no more repositories were
\* read than allowed.
TechniquesAreShown ==
  asking = "done" =>
    /\ \A i \in DOMAIN portfolio : portfolio[i].urls # <<>> => ProjectShown(i)
    /\ Cardinality(ReadLinks) <= MaxRepos

\* What an analysis is started from, on one page: the card of the job description shows
\* what was selected for it, and the techniques of the resume's projects are verified as
\* above.
ShownAsChosen == CardShowsSelection /\ TechniquesAreShown
=============================================================================
