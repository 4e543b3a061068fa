-------------------------- MODULE JobDescriptionText --------------------------
(***************************************************************************)
(* What a job description keeps of the values a user selects: the          *)
(* serializers of apps/input/serializers.py write them into lines of the   *)
(* original text, each behind a label, and read the cards of the list back *)
(* from there.  The columns for category, level and techniques do not      *)
(* exist.                                                                  *)
(*                                                                         *)
(* A line is its label and its value.  A name stands for the parts its     *)
(* commas divide it into: a line of techniques cannot tell them apart.     *)
(***************************************************************************)
EXTENDS Naturals, SequencesExt, Lists

CONSTANTS Selection,  \* what requests send
          Empty,      \* a value or text that is not sent, or blank
          MaxSaves    \* bound: requests

ASSUME SaveAssumption == MaxSaves \in Nat

VARIABLES
  text,       \* original_text, as lines
  keywords,   \* the keywords column, as a sequence
  required,   \* the job_requirements column
  last,       \* the last request that sent a selected value
  saves       \* requests so far

textVars == <<text, keywords, required, last, saves>>

Nothing ==
  [category |-> Empty, level |-> Empty, techs |-> <<>>, customTechs |-> <<>>, tasks |-> Empty,
   requirements |-> Empty, preferences |-> Empty, remark |-> Empty, customKeywords |-> <<>>,
   original |-> Empty]

TextInit == text = <<>> /\ keywords = <<>> /\ required = Empty /\ last = Nothing /\ saves = 0

Line(label, value) == IF value = Empty THEN <<>> ELSE <<[label |-> label, value |-> value]>>

\* A text of several lines: its first comes behind the label, the others as they are.
Lines(label, value) ==
  IF value = Empty THEN <<>>
  ELSE <<[label |-> label, value |-> Head(value)]>> \o Tail(value)

Techniques(s) == FlattenSeq(s.techs \o s.customTechs)

\* What is sent of a selection: names and lines, none of them a missing value.
SentAs(s) ==
  /\ DOMAIN s = DOMAIN Nothing
  /\ \A field \in {"tasks", "requirements", "preferences", "remark"} :
       s[field] = Empty \/ (IsList(s[field]) /\ s[field] # <<>>)
  /\ s.original = Empty \/ IsList(s.original)
  /\ Techniques(s) # <<>> => Techniques(s) # Empty

ASSUME SelectionAssumption == \A s \in Selection : SentAs(s)

\* _build_original_text_from_dropdown
Build(s) ==
  Line("category", s.category) \o Line("level", s.level)
    \o (IF Techniques(s) = <<>> THEN <<>> ELSE Line("techs", Techniques(s)))
    \o Lines("tasks", s.tasks) \o Lines("requirements", s.requirements)
    \o Lines("preferences", s.preferences) \o Lines("remark", s.remark)

Original(s) == IF s.original = Empty THEN <<>> ELSE s.original

Present(v) == IF v = Empty THEN <<>> ELSE <<v>>

\* _build_keywords_from_dropdown: the first of each, a technique with its commas.
Keywords(s) ==
  FoldLeft(LAMBDA seen, k : IF Contains(seen, k) THEN seen ELSE Append(seen, k), <<>>,
           Present(s.category) \o Present(s.level) \o s.techs \o s.customTechs \o s.customKeywords)

\* _parse_dropdown_fields_from_original_text: the last line of a label counts.
Parsed(lines, label, none) ==
  LET at == { i \in DOMAIN lines : lines[i].label = label }
  IN IF at = {} THEN none ELSE lines[CHOOSE i \in at : \A j \in at : j <= i].value

\* JobDescriptionListSerializer
Card(lines) ==
  [category |-> Parsed(lines, "category", Empty), level |-> Parsed(lines, "level", Empty),
   techs |-> Parsed(lines, "techs", <<>>)]

\* JobDescriptionCreateSerializer.validate: something must be given.
Valid(s) == [s EXCEPT !.original = Empty] # Nothing \/ s.original \notin {Empty, <<>>}

-----------------------------------------------------------------------------

\* create and update of the two serializers; with a selected value the text is
\* written anew, without one it stays unless another is sent.
SaveText(s) ==
  LET built == Build(s) written == built # <<>> \/ s.original # Empty IN
  /\ saves < MaxSaves /\ saves' = saves + 1
  /\ text' = IF written THEN built \o Original(s) ELSE text
  /\ keywords' = IF Keywords(s) # <<>> THEN Keywords(s) ELSE keywords
  /\ required' = IF s.requirements # Empty THEN s.requirements ELSE required
  /\ last' = IF written THEN s ELSE last

\* JDListCreateView.create
CreateText(s) == saves = 0 /\ Valid(s) /\ SaveText(s)

\* JDDetailView.patch: the client may send the text back that it was shown.
PatchText(s, resend) ==
  /\ saves > 0
  /\ SaveText(IF resend THEN [s EXCEPT !.original = text] ELSE s)

TextNext == \E s \in Selection : CreateText(s) \/ \E resend \in BOOLEAN : PatchText(s, resend)

TextSpec == TextInit /\ [][TextNext]_textVars

-----------------------------------------------------------------------------
(* Properties *)

FreeText(s) ==
  LET rest(v) == IF v = Empty THEN <<>> ELSE Tail(v)
  IN rest(s.tasks) \o rest(s.requirements) \o rest(s.preferences) \o rest(s.remark) \o Original(s)

Labelled(lines, label) == \E i \in DOMAIN lines : lines[i].label = label

\* A card shows what was selected last (category, level, and every technique as
\* often as it was given), and nothing that was not selected, across the text and
\* back, unless a line of the free text passes for a label's: then it shows that.
CardShowsSelection ==
  LET card == Card(text) free == FreeText(last) IN
  /\ card.category = IF Labelled(free, "category") THEN Parsed(free, "category", Empty)
                     ELSE last.category
  /\ card.level = IF Labelled(free, "level") THEN Parsed(free, "level", Empty) ELSE last.level
  /\ card.techs = IF Labelled(free, "techs") THEN Parsed(free, "techs", <<>>) ELSE Techniques(last)
=============================================================================
