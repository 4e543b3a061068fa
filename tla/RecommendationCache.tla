------------------------- MODULE RecommendationCache -------------------------
(***************************************************************************)
(* apps/report/services/recommendation_service.py: the recommended         *)
(* questions of one session, cached under a version.                       *)
(*                                                                         *)
(* A reader takes the version, looks the entry of that version up and, on  *)
(* a miss, aggregates the weakness tags and stores the result under the    *)
(* version it took.  A generation that has changed the tags increments the *)
(* version.  Entries live 30 minutes; the version is stored without a      *)
(* timeout of its own, so it lives the 300 seconds of Django's default,    *)
(* and a version that is not there reads as 0.                             *)
(***************************************************************************)
EXTENDS Naturals

CONSTANTS Reader, Generation,
          Miss,        \* a miss
          MaxTags,     \* bound: changes of the session's weakness tags
          MaxVersion   \* bound: increments of the version

ASSUME MissAssumption == Miss \notin Nat
ASSUME RecoBoundAssumption == MaxTags \in Nat /\ MaxVersion \in Nat \ {0}

VARIABLES
  tags,      \* which state of the weakness tags the database holds
  cacheVersion,   \* weakness_recos_ver:<session>, None when absent
  entry,     \* weakness_recos:<session>:<limit>:v<version>, per version
  reading,   \* where a reader is
  taken,     \* the version a reader took
  result,    \* the state of the tags a reader's response is made from
  writing,   \* where a generation is
  written,   \* the tags when it began to invalidate
  floor,     \* history variable: the tags of the last complete invalidation
  due,       \* history variable: floor, when a reader began
  expired,   \* history variable: the version has expired
  lowered    \* history variable: a first set has lowered the version

readerVars == <<reading, taken, result, due>>
generationVars == <<writing, written, floor>>
recoVars == <<tags, cacheVersion, entry, readerVars, generationVars, expired, lowered>>

CacheVersions == 0 .. MaxVersion

\* The version in the cache is absent or counts from 1 (cache.set(..., 1), cache.incr).
RecoTypeOK ==
  /\ tags \in 0 .. MaxTags
  /\ cacheVersion \in (1 .. MaxVersion) \cup {Miss}
  /\ entry \in [CacheVersions -> Nat \cup {Miss}]
  /\ reading \in [Reader -> {"idle", "version", "lookup", "aggregate", "store"}]
  /\ taken \in [Reader -> CacheVersions]
  /\ result \in [Reader -> Nat \cup {Miss}]
  /\ writing \in [Generation -> {"idle", "incr", "set"}]
  /\ written \in [Generation -> Nat]
  /\ floor \in Nat
  /\ due \in [Reader -> Nat]
  /\ expired \in BOOLEAN
  /\ lowered \in BOOLEAN

RecoInit ==
  /\ tags = 0
  /\ cacheVersion = Miss
  /\ entry = [v \in CacheVersions |-> Miss]
  /\ reading = [r \in Reader |-> "idle"]
  /\ taken = [r \in Reader |-> 0]
  /\ result = [r \in Reader |-> Miss]
  /\ writing = [g \in Generation |-> "idle"]
  /\ written = [g \in Generation |-> 0]
  /\ floor = 0
  /\ due = [r \in Reader |-> 0]
  /\ expired = FALSE
  /\ lowered = FALSE

ReaderGoes(r, s) == reading' = [reading EXCEPT ![r] = s]

BeginRead(r) ==
  /\ reading[r] = "idle"
  /\ ReaderGoes(r, "version")
  /\ result' = [result EXCEPT ![r] = Miss]
  /\ due' = [due EXCEPT ![r] = floor]
  /\ UNCHANGED <<tags, cacheVersion, entry, taken, generationVars, expired, lowered>>

\* _reco_version
ReadVersion(r) ==
  /\ reading[r] = "version"
  /\ taken' = [taken EXCEPT ![r] = IF cacheVersion = Miss THEN 0 ELSE cacheVersion]
  /\ ReaderGoes(r, "lookup")
  /\ UNCHANGED <<tags, cacheVersion, entry, result, due, generationVars, expired, lowered>>

LookUp(r) ==
  /\ reading[r] = "lookup"
  /\ result' = [result EXCEPT ![r] = entry[taken[r]]]
  /\ IF entry[taken[r]] = Miss
     THEN ReaderGoes(r, "aggregate") /\ UNCHANGED taken
     ELSE ReaderGoes(r, "idle") /\ taken' = [taken EXCEPT ![r] = 0]
  /\ UNCHANGED <<tags, cacheVersion, entry, due, generationVars, expired, lowered>>

Aggregate(r) ==
  /\ reading[r] = "aggregate"
  /\ result' = [result EXCEPT ![r] = tags]
  /\ ReaderGoes(r, "store")
  /\ UNCHANGED <<tags, cacheVersion, entry, taken, due, generationVars, expired, lowered>>

\* bug: the entry is stored under the version of the moment
CurrentVersion(r) == IF cacheVersion = Miss THEN 0 ELSE cacheVersion

StoredUnder(r) == taken[r]

StoreEntry(r) ==
  /\ reading[r] = "store"
  /\ entry' = [entry EXCEPT ![StoredUnder(r)] = result[r]]
  /\ ReaderGoes(r, "idle")
  /\ taken' = [taken EXCEPT ![r] = 0]
  /\ UNCHANGED <<tags, cacheVersion, result, due, generationVars, expired, lowered>>

\* A generation evaluates answers, which changes the tags, and writes its report.
ChangeTags(g) ==
  /\ writing[g] = "idle" /\ tags < MaxTags
  /\ tags' = tags + 1
  /\ writing' = [writing EXCEPT ![g] = "incr"]
  /\ written' = [written EXCEPT ![g] = tags + 1]
  /\ UNCHANGED <<cacheVersion, entry, readerVars, floor, expired, lowered>>

\* The invalidation of g is complete.
Invalidated(g) ==
  /\ writing' = [writing EXCEPT ![g] = "idle"]
  /\ floor' = IF written[g] > floor THEN written[g] ELSE floor
  /\ written' = [written EXCEPT ![g] = 0]

NextVersion(v) == v + 1

\* cache.incr, which raises when the version is absent.
IncrementVersion(g) ==
  /\ writing[g] = "incr"
  /\ \/ /\ cacheVersion # Miss /\ cacheVersion < MaxVersion
        /\ cacheVersion' = NextVersion(cacheVersion)
        /\ Invalidated(g)
     \/ /\ cacheVersion = Miss
        /\ writing' = [writing EXCEPT ![g] = "set"]
        /\ UNCHANGED <<cacheVersion, floor, written>>
  /\ UNCHANGED <<tags, entry, readerVars, expired, lowered>>

\* The first invalidation: cache.set(..., 1).
SetOne(g) ==
  /\ writing[g] = "set"
  /\ cacheVersion' = 1
  /\ lowered' = (lowered \/ (cacheVersion # Miss /\ cacheVersion > 1))
  /\ Invalidated(g)
  /\ UNCHANGED <<tags, entry, readerVars, expired>>

ExpireVersion ==
  /\ cacheVersion # Miss
  /\ cacheVersion' = Miss
  /\ expired' = TRUE
  /\ UNCHANGED <<tags, entry, readerVars, generationVars, lowered>>

ExpireEntry(v) ==
  /\ entry[v] # Miss
  /\ entry' = [entry EXCEPT ![v] = Miss]
  /\ UNCHANGED <<tags, cacheVersion, readerVars, generationVars, expired, lowered>>

RecoNext ==
  \/ \E r \in Reader : BeginRead(r) \/ ReadVersion(r) \/ LookUp(r) \/ Aggregate(r) \/ StoreEntry(r)
  \/ \E g \in Generation : ChangeTags(g) \/ IncrementVersion(g) \/ SetOne(g)
  \/ ExpireVersion
  \/ \E v \in CacheVersions : ExpireEntry(v)

RecoSpec == RecoInit /\ [][RecoNext]_recoVars

-----------------------------------------------------------------------------

\* invalidate_weakness_reco_cache: once the tags have changed and the cache is
\* invalidated, no reader is shown what was aggregated before.
FreshAfterInvalidation ==
  \A r \in Reader :
    reading[r] = "idle" /\ result[r] # Miss => result[r] >= due[r]

\* The order of the reads and writes is right: as long as the version only rises
\* (it neither expires nor is lowered by a late first set), no overlap of readers
\* and generations shows a stale result.
FreshWhileVersionRises == ~expired /\ ~lowered => FreshAfterInvalidation
=============================================================================
