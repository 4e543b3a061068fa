------------------------------ MODULE MatchScore ------------------------------
(***************************************************************************)
(* What an analysis says of a resume against a job description: the match  *)
(* score with its interval (match_service.py, result_service.py) and the   *)
(* gaps with their message (gap_service.py).  The user adds something to   *)
(* the documents and has them analysed again.                              *)
(*                                                                         *)
(* Scores are in tenths of a point, as they are rounded; round(x, 1) of a  *)
(* float is taken as rounding half up.  Years are whole.  A technique is a *)
(* name in lower case, a trait and a sentence of evidence are model        *)
(* values, and what their embeddings have in common is Likeness, in        *)
(* thousandths.                                                            *)
(***************************************************************************)
EXTENDS Integers, FiniteSetsExt, Lists

CONSTANTS Canon,     \* TECH_ALIASES: the names that stand for another one, and that one
          Likeness,  \* [trait -> [evidence -> 0..1000]]
          Postings,  \* what jd_service makes of the job descriptions
          Resumes,   \* what resume_service makes of the resumes at first
          Skills, Stories, MaxYears  \* what a resume may come to tell

\* An alias stands for a name that is none.
ASSUME CanonAssumption == \A name \in DOMAIN Canon : Canon[name] \notin DOMAIN Canon

ASSUME PostingsAssumption ==
  \A p \in Postings : IsFiniteSet(p.techs) /\ IsList(p.traits) /\ p.years \in Nat

ASSUME ResumesAssumption ==
  \A c \in Resumes :
    /\ c = [techs |-> c.techs, evidence |-> c.evidence, years |-> c.years, education |-> c.education]
    /\ IsFiniteSet(c.evidence) /\ c.years \in Nat

\* cosine_similarity says "0.0 to 1.0" of itself.
ASSUME LikenessAssumption ==
  \A p \in Postings, c \in Resumes : \A i \in DOMAIN p.traits, e \in c.evidence \cup Stories :
    Likeness[p.traits[i]][e] \in 0 .. 1000

VARIABLES
  posting,    \* the job description, and the career level and role of the session
  cv,         \* resume_analysis
  outcome     \* the scores and gaps the last analysis has stored

matchVars == <<posting, cv, outcome>>

Half(n, d) == (2 * n + d) \div (2 * d)

-----------------------------------------------------------------------------
(* Scores *)

\* _normalize
Normal(name) == IF name \in DOMAIN Canon THEN Canon[name] ELSE name

Normals(names) == { Normal(n) : n \in names }

Matched(p, c) == Normals(p.techs) \cap Normals(c.techs)
Unmatched(p, c) == Normals(p.techs) \ Normals(c.techs)

\* _calc_tech_score
TechScore(p, c) ==
  IF p.techs = {} THEN 0 ELSE Half(1000 * Cardinality(Matched(p, c)), Cardinality(Normals(p.techs)))

\* The sentence that says most of a trait counts.
BestLikeness(trait, c) == Max({ Likeness[trait][e] : e \in c.evidence })

Compared(p, c) == p.traits # <<>> /\ c.evidence # {}

\* _calc_trait_score
TraitScore(p, c) ==
  IF ~Compared(p, c) THEN 0
  ELSE Half(Total([i \in DOMAIN p.traits |-> BestLikeness(p.traits[i], c)]), Len(p.traits))

\* An unknown degree counts as that of a university.
EducationRank(e) ==
  CASE e = "any" -> 0 [] e = "school" -> 1 [] e = "postgraduate" -> 3 [] OTHER -> 2

EducationFits(p, c) ==
  p.education = "any" \/ EducationRank(c.education) >= EducationRank(p.education)

\* bug: more years than are asked for weigh against the resume
YearsOff(p, c) == IF p.years > c.years THEN p.years - c.years ELSE c.years - p.years

YearsShort(p, c) == IF p.years > c.years THEN p.years - c.years ELSE 0

\* _calc_rule_score: up to 40 points for the years, 30 for the degree and 30 for
\* the kind of job; nothing when no requirement was found.
RuleScore(p, c) ==
  IF ~p.found THEN 0
  ELSE Max({0, 400 - 100 * YearsShort(p, c)}) + (IF EducationFits(p, c) THEN 300 ELSE 0)
         + (IF p.roleFits THEN 300 ELSE 0)

\* CAREER_WEIGHTS, in hundredths
Weights(level) ==
  IF level = "experienced" THEN [tech |-> 45, trait |-> 20, rule |-> 35]
  ELSE [tech |-> 40, trait |-> 40, rule |-> 20]

\* calculate_match_score
Score(p, c) ==
  LET w == Weights(p.level)
  IN Half(TechScore(p, c) * w.tech + TraitScore(p, c) * w.trait + RuleScore(p, c) * w.rule, 100)

\* calc_confidence_interval
Interval(score, rule) ==
  LET around == CASE score < 400 -> [label |-> 1, below |-> 50, above |-> 50]
                  [] score \in 400 .. 599 -> [label |-> 2, below |-> 80, above |-> 80]
                  [] score \in 600 .. 799 -> [label |-> 3, below |-> 50, above |-> 100]
                  [] score >= 800 -> [label |-> 4, below |-> 30, above |-> 50]
      unsure == IF rule = 0 THEN 50 ELSE 0
  IN [label |-> around.label, low |-> Max({0, score - around.below - unsure}),
      high |-> Min({1000, score + around.above + unsure})]

-----------------------------------------------------------------------------
(* Gaps *)

\* calculate_gap: the required and the preferred techniques are looked up in the
\* unmatched ones by the name they have in the description; without a list of the
\* required ones all the unmatched are.
Gap(p, c) ==
  [required |-> IF p.required = {} THEN Unmatched(p, c) ELSE p.required \cap Unmatched(p, c),
   preferred |-> IF p.required = {} THEN {} ELSE p.preferred \cap Unmatched(p, c),
   years |-> p.years - c.years,
   educationFits |-> EducationFits(p, c),
   weak |-> IF Compared(p, c) THEN { i \in DOMAIN p.traits : BestLikeness(p.traits[i], c) < 500 } ELSE {}]

\* build_gap_message: how much the summary says is missing; the degree is not
\* counted.  The items of action are those of the first gaps.
Summary(gap) ==
  LET total == Cardinality(gap.required) + Cardinality(gap.preferred) + Cardinality(gap.weak)
                 + (IF gap.years > 0 THEN 1 ELSE 0)
  IN CASE total = 0 -> "fits" [] total \in 1 .. 2 -> "nearly" [] total > 2 -> "some way to go"

ActionItems(gap) == Min({3, Cardinality(gap.required)}) + Min({2, Cardinality(gap.weak)})

-----------------------------------------------------------------------------

Outcome(p, c) ==
  [score |-> Score(p, c), rule |-> RuleScore(p, c), interval |-> Interval(Score(p, c), RuleScore(p, c)),
   matched |-> Matched(p, c), unmatched |-> Unmatched(p, c),
   gap |-> Gap(p, c), summary |-> Summary(Gap(p, c)), items |-> ActionItems(Gap(p, c))]

MatchInit ==
  /\ posting \in Postings /\ cv \in Resumes
  /\ outcome = Outcome(posting, cv)

\* The documents tell something more, and are analysed again.
AnalyseAgain(c) ==
  /\ cv' = c /\ outcome' = Outcome(posting, c)
  /\ UNCHANGED posting

MatchNext ==
  \/ \E s \in Skills \ cv.techs : AnalyseAgain([cv EXCEPT !.techs = @ \cup {s}])
  \/ \E s \in Stories \ cv.evidence : AnalyseAgain([cv EXCEPT !.evidence = @ \cup {s}])
  \/ cv.years < MaxYears /\ AnalyseAgain([cv EXCEPT !.years = @ + 1])
  \/ \E e \in {"university", "postgraduate"} :
       /\ EducationRank(e) > EducationRank(cv.education)
       /\ AnalyseAgain([cv EXCEPT !.education = e])

MatchSpec == MatchInit /\ [][MatchNext]_matchVars

-----------------------------------------------------------------------------
(* Properties *)

\* Who adds a technique under whatever name, a year, a degree or a sentence never
\* loses by it: neither the score nor its label falls, no technique turns from
\* matched to unmatched, and no gap appears; only the first sentence of evidence
\* may reveal weak traits.  Nor is a gap ever invented: what is said to be missing
\* is in the description, and is not in the resume under any of its names, and
\* the score lies in its interval.  The reply of the model that words the result is
\* merged into it (match_service.py:317): a reply that names a key of its own accord,
\* which it is not asked for, would replace what was computed, and is not modelled.
MoreIsNotWorse ==
  [][ /\ outcome'.score >= outcome.score
      /\ outcome'.interval.label >= outcome.interval.label
      /\ outcome.matched \subseteq outcome'.matched
      /\ outcome'.gap.required \subseteq outcome.gap.required
      /\ outcome'.gap.preferred \subseteq outcome.gap.preferred
      /\ outcome'.gap.years <= outcome.gap.years
      /\ outcome.gap.educationFits => outcome'.gap.educationFits
      /\ cv.evidence # {} => outcome'.gap.weak \subseteq outcome.gap.weak
      /\ outcome'.gap.required \cup outcome'.gap.preferred \subseteq Normals(posting.techs)
      /\ \A t \in outcome'.gap.required \cup outcome'.gap.preferred, s \in cv'.techs :
           s # t /\ (s \in DOMAIN Canon => Canon[s] # t)
      /\ outcome'.score \in outcome'.interval.low .. outcome'.interval.high ]_matchVars
=============================================================================
