---------------------------- MODULE TalentProfile ----------------------------
(***************************************************************************)
(* The talent profile of one job description and its items, replaced as a  *)
(* whole by two handlers: JDTalentProfileView.put of apps/input locks the  *)
(* row it reads, that of apps/analysis reads it without a lock.  Each runs *)
(* in a transaction; others see its writes when it commits.                *)
(***************************************************************************)
EXTENDS Naturals, FiniteSets

CONSTANTS Writer,     \* transactions
          NoWriter,   \* holder of a free row, writer of no profile
          MaxPuts     \* bound: profiles put

ASSUME WriterAssumption == NoWriter \notin Writer
ASSUME PutAssumption == MaxPuts \in Nat

VARIABLES
  profile,    \* the JDTalentProfile row: which put it stems from, and its confirmation
  items,      \* the JDTalentProfileItem rows, by the put that inserted them
  rowLock,    \* the transaction that has locked, written or inserted the row
  put,        \* where a transaction is
  request,    \* what it puts: its number, its handler, and whether it confirms
  seen,       \* the row it read
  doomedItems, \* the items its DELETE found
  puts        \* profiles put so far

profileVars == <<profile, items, rowLock, put, request, seen, doomedItems, puts>>

NoProfile == [by |-> 0, confirmed |-> FALSE, confirmedAt |-> 0]

NoRequest == [number |-> 0, locks |-> FALSE, confirms |-> FALSE]

TalentInit ==
  /\ profile = NoProfile
  /\ items = {}
  /\ rowLock = NoWriter
  /\ put = [w \in Writer |-> "idle"]
  /\ request = [w \in Writer |-> NoRequest]
  /\ seen = [w \in Writer |-> NoProfile]
  /\ doomedItems = [w \in Writer |-> {}]
  /\ puts = 0

PutGoes(w, s) == put' = [put EXCEPT ![w] = s]

BeginPut(w, locks, confirms) ==
  /\ put[w] = "idle" /\ puts < MaxPuts
  /\ puts' = puts + 1
  /\ request' = [request EXCEPT ![w] = [number |-> puts + 1, locks |-> locks, confirms |-> confirms]]
  /\ PutGoes(w, "open")
  /\ UNCHANGED <<profile, items, rowLock, seen, doomedItems>>

\* get_or_create, select_for_update or not: a row that is inserted is locked by that,
\* and another insert of it waits for the first to commit.
OpenProfile(w) ==
  /\ put[w] = "open"
  /\ IF request[w].locks \/ profile = NoProfile
     THEN rowLock = NoWriter /\ rowLock' = w
     ELSE UNCHANGED rowLock
  /\ seen' = [seen EXCEPT ![w] = profile]
  /\ PutGoes(w, "save")
  /\ UNCHANGED <<profile, items, request, doomedItems, puts>>

\* bug: the row is saved behind the items
SavedLast(w) == UNCHANGED rowLock

RowWritten(w) == rowLock \in {w, NoWriter} /\ rowLock' = w

\* profile.save() locks the row, whoever has read it.
SaveProfile(w) ==
  /\ put[w] = "save"
  /\ RowWritten(w)
  /\ PutGoes(w, "delete")
  /\ UNCHANGED <<profile, items, request, seen, doomedItems, puts>>

DeleteItems(w) ==
  /\ put[w] = "delete"
  /\ doomedItems' = [doomedItems EXCEPT ![w] = items]
  /\ PutGoes(w, "commit")
  /\ UNCHANGED <<profile, items, rowLock, request, seen, puts>>

\* confirmed_at: of the first confirmation in a row for apps/input, of the last for
\* apps/analysis, which leaves it when the profile is not confirmed.
ConfirmedAt(w) ==
  LET r == request[w] IN
  IF r.locks
  THEN IF ~r.confirms THEN 0 ELSE IF seen[w].confirmed THEN seen[w].confirmedAt ELSE r.number
  ELSE IF r.confirms THEN r.number ELSE seen[w].confirmedAt

\* The transaction ends, and what it held with it.
EndPut(w) ==
  /\ rowLock' = IF rowLock = w THEN NoWriter ELSE rowLock
  /\ request' = [request EXCEPT ![w] = NoRequest]
  /\ seen' = [seen EXCEPT ![w] = NoProfile]
  /\ doomedItems' = [doomedItems EXCEPT ![w] = {}]
  /\ PutGoes(w, "idle")
  /\ UNCHANGED puts

\* The items are inserted and the transaction commits.
CommitPut(w) ==
  /\ put[w] = "commit"
  /\ profile' = [by |-> request[w].number, confirmed |-> request[w].confirms,
                 confirmedAt |-> ConfirmedAt(w)]
  /\ items' = (items \ doomedItems[w]) \cup {request[w].number}
  /\ EndPut(w)

\* An insert fails, or the process dies.
RollBack(w) ==
  /\ put[w] # "idle"
  /\ EndPut(w)
  /\ UNCHANGED <<profile, items>>

TalentNext ==
  \E w \in Writer :
    \/ \E l \in BOOLEAN, c \in BOOLEAN : BeginPut(w, l, c)
    \/ OpenProfile(w) \/ SaveProfile(w) \/ DeleteItems(w) \/ CommitPut(w) \/ RollBack(w)

TalentSpec == TalentInit /\ [][TalentNext]_profileVars

-----------------------------------------------------------------------------

\* A profile, its items and its confirmation stem from one and the same put, also
\* when the handler that locks and the one that does not overlap: a confirmed
\* profile has the time it was confirmed at.
ProfileOfOnePut ==
  /\ items = IF profile = NoProfile THEN {} ELSE {profile.by}
  /\ profile.confirmed => profile.confirmedAt # 0
=============================================================================
