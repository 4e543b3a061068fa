------------------------------ MODULE JobOffers ------------------------------
(***************************************************************************)
(* The synthetic job offers (external/services/mock_jobs_service.py and    *)
(* external/views_jobs.py).  Every server process loads the catalog when   *)
(* it is first asked for and keeps it; the command seed_mock_jobs rewrites *)
(* the file it is loaded from, in a process of its own.  A user turns the  *)
(* pages of a listing, each request for itself, and keeps an offer as a    *)
(* job description.                                                        *)
(***************************************************************************)
EXTENDS Naturals, SequencesExt, Lists

CONSTANTS Process,     \* server processes
          Absent,      \* no file, nothing loaded
          Catalogs,    \* Catalogs[1] is generated when there is no file, the others are written
          Queries      \* what is asked: [word, tech, place, sort, size]

Offers == UNION { ToSet(Catalogs[c]) : c \in DOMAIN Catalogs }

\* The offers of a catalog are numbered, each of another number.
ASSUME CatalogAssumption ==
  /\ Len(Catalogs) > 0 /\ Absent \notin Nat /\ Catalogs \in Seq(Seq(Offers))
  /\ \A x \in Offers : {x.company, x.position, x.posted, x.deadline} \subseteq Nat
  /\ \A c \in DOMAIN Catalogs : \A i, j \in DOMAIN Catalogs[c] :
       Catalogs[c][i].id = Catalogs[c][j].id => i = j

ASSUME QueriesAssumption == \A q \in Queries : q.size \in Nat

VARIABLES
  dataFile,   \* the file: Absent, 0 while it is being written, or a catalog
  written,    \* the catalogs written so far
  loaded,     \* the catalog each process keeps
  listing,    \* what the user asked for
  turned,     \* the pages turned so far: [catalog, offers]
  keptOffers  \* the offers kept as job descriptions

offerVars == <<dataFile, written, loaded, listing, turned, keptOffers>>

Unfinished == 0

-----------------------------------------------------------------------------
(* What a listing holds *)

\* generate_mock_jobs: profiles and companies take turns, a place is drawn, and the dates
\* go round.  Companies and positions stand for their places in the alphabet.
Generated(profiles, companies, draws) ==
  [i \in DOMAIN draws |->
     LET profile == profiles[((i - 1) % Len(profiles)) + 1]
     IN  [id |-> i, tech |-> profile.tech, words |-> profile.words, place |-> draws[i],
          company |-> companies[((i - 1) % Len(companies)) + 1], position |-> profile.position,
          posted |-> (i - 1) % 30, deadline |-> ((i - 1) % 30) + 30 + (i % 45)]]

\* _contains_any: each term is part of some technique.  A word is looked for in all of
\* an offer's fields together.
Matches(offer, q) ==
  /\ q.tech \subseteq offer.tech
  /\ q.place \in {"", offer.place}
  /\ q.word \in {"", offer.place} \cup offer.words \cup offer.tech

\* _apply_sort is stable in both directions; an unknown order is the latest first.
Precedes(q, x, y) ==
  CASE q.sort = "oldest" -> x.posted < y.posted
    [] q.sort = "deadline" -> x.deadline < y.deadline
    [] q.sort = "-deadline" -> x.deadline > y.deadline
    [] q.sort = "company" -> x.company < y.company
    [] q.sort = "position" -> x.position < y.position
    [] OTHER -> x.posted > y.posted

Before(offers, q, i, j) ==
  \/ Precedes(q, offers[i], offers[j])
  \/ ~Precedes(q, offers[j], offers[i]) /\ i < j

\* The place of the j-th offer behind those that come before it.
Place(offers, q, j) == Cardinality({ i \in DOMAIN offers : i = j \/ Before(offers, q, i, j) })

InOrder(offers, q) ==
  [k \in DOMAIN offers |-> offers[CHOOSE i \in DOMAIN offers : Place(offers, q, i) = k]]

Listed(catalog, q) ==
  LET offers == Catalogs[catalog]
  IN  InOrder(Where(offers, { i \in DOMAIN offers : Matches(offers[i], q) }), q)

\* The parameters are clamped: a page from 1 on, from 1 to 100 offers on it.  No size
\* at all, and 0, mean ten.
AtMost(a, b) == IF a > b THEN b ELSE a

PageSize(q) == IF q.size = 0 THEN 10 ELSE AtMost(q.size, 100)

\* As if the first page were page 0.
PageFromZero(catalog, q, n) ==
  SubSeq(Listed(catalog, q), n * PageSize(q) + 1,
         AtMost((n + 1) * PageSize(q), Len(Listed(catalog, q))))

Page(catalog, q, n) ==
  SubSeq(Listed(catalog, q), (n - 1) * PageSize(q) + 1,
         AtMost(n * PageSize(q), Len(Listed(catalog, q))))

-----------------------------------------------------------------------------

OffersInit ==
  /\ dataFile = Absent /\ written = 1 /\ loaded = [p \in Process |-> Absent]
  /\ listing \in Queries /\ turned = <<>> /\ keptOffers = {}

\* seed_mock_jobs: the file is emptied when it is opened.
OpenDataFile ==
  /\ written < Len(Catalogs) /\ dataFile # Unfinished
  /\ dataFile' = Unfinished /\ written' = written + 1
  /\ UNCHANGED <<loaded, listing, turned, keptOffers>>

\* The command's own copy is loaded anew; no server process hears of it.
WriteDataFile ==
  /\ dataFile = Unfinished
  /\ dataFile' = written
  /\ UNCHANGED <<written, loaded, listing, turned, keptOffers>>

\* The catalog a process would load; the file may be cut short.
Loadable == dataFile # Unfinished

InFile == IF dataFile = Absent THEN 1 ELSE dataFile

\* _load_all: under a lock of the process, once; what cannot be read is not kept.
Loads(p) ==
  IF loaded[p] # Absent THEN UNCHANGED loaded
  ELSE Loadable /\ loaded' = [loaded EXCEPT ![p] = InFile]

\* MockJobListView.get, for the next page of the user's listing.
TurnPage(p) ==
  /\ turned # <<>> => turned[Len(turned)].offers # <<>>
  /\ Loads(p)
  /\ turned' = Append(turned, [catalog |-> loaded'[p],
                               offers |-> Page(loaded'[p], listing, Len(turned) + 1)])
  /\ UNCHANGED <<dataFile, written, listing, keptOffers>>

\* MockJobSaveAsJdView.post: the offer with an id, in the catalog of the process asked;
\* none is a 404.
KeepOffer(p, id) ==
  /\ turned # <<>>
  /\ Loads(p)
  /\ \E i \in DOMAIN Catalogs[loaded'[p]] :
        /\ Catalogs[loaded'[p]][i].id = id
        /\ keptOffers' = keptOffers \cup {[catalog |-> loaded'[p], offer |-> Catalogs[loaded'[p]][i]]}
  /\ UNCHANGED <<dataFile, written, listing, turned>>

\* A process is replaced by a new one.
RestartProcess(p) ==
  /\ loaded[p] # Absent
  /\ loaded' = [loaded EXCEPT ![p] = Absent]
  /\ UNCHANGED <<dataFile, written, listing, turned, keptOffers>>

\* What the pages show that were turned.
Shown == UNION { { [catalog |-> turned[i].catalog, offer |-> x] : x \in ToSet(turned[i].offers) } :
                   i \in DOMAIN turned }

OffersNext ==
  \/ OpenDataFile \/ WriteDataFile
  \/ \E p \in Process :
       \/ TurnPage(p)
       \/ \E x \in Shown : Cardinality(keptOffers) = 0 /\ KeepOffer(p, x.offer.id)
       \/ RestartProcess(p)

OffersSpec == OffersInit /\ [][OffersNext]_offerVars

-----------------------------------------------------------------------------
(* Properties *)

OneCatalog == \A i, j \in DOMAIN turned : turned[i].catalog = turned[j].catalog

TurnedToTheEnd == turned # <<>> /\ turned[Len(turned)].offers = <<>>

\* A user who turns the pages to the end sees every matching offer once and in order,
\* and keeps the offer he was shown, whichever processes answer and whatever is written
\* or restarted meanwhile, as long as one catalog is served (mock_jobs_service.py:263,
\* views_jobs.py:85).
ListingIsWhole ==
  OneCatalog =>
    /\ TurnedToTheEnd =>
         FlattenSeq([i \in DOMAIN turned |-> turned[i].offers]) = Listed(turned[1].catalog, listing)
    /\ \A k \in keptOffers : turned # <<>> /\ k.catalog = turned[1].catalog => k \in Shown
=============================================================================
