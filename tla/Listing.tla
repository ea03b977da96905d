------------------------------- MODULE Listing -------------------------------
(***************************************************************************)
(* What the read-only requests of the admin API answer, and the full-state *)
(* digest an admin sends on demand.                                        *)
(*                                                                         *)
(* Each list is kept in the order its query sorts by: the waiting list by  *)
(* weighted_created_at and email, those with access by access_granted_at,  *)
(* newest first, and email.  A query is one statement and sees one state;  *)
(* the digest reads the two lists in two statements.                       *)
(***************************************************************************)
EXTENDS Integers, Sequences, FiniteSets, SequencesExt

CONSTANTS
  Accounts,
  ProjectOf,   \* the project of an account
  Searches,    \* what may be searched for: the accounts whose email matches
  AllProjects, \* the filter that names no project
  DefaultLimit, MaxLimit,  \* defaultAdminListLimit, maxAdminListLimit
  MaxEntries   \* bound: the waiting_list rows an account ever has

Projects == {ProjectOf[a] : a \in Accounts}
Filters == Projects \cup {AllProjects}

ASSUME ListingAssumption ==
  /\ AllProjects \notin Projects
  /\ Searches \subseteq SUBSET Accounts
  /\ DefaultLimit \in 1 .. MaxLimit /\ MaxLimit \in Nat /\ MaxEntries \in Nat

VARIABLES
  waiting,  \* waiting_list
  access,   \* user_entity WHERE has_access
  entry,    \* the number of an account's last row in waiting_list
  digest    \* handleSendDigest between its two statements: {} or one record

lists == <<waiting, access, entry>>

ListingTypeOK ==
  /\ waiting \in Seq(Accounts) /\ access \in Seq(Accounts)
  /\ IsInjective(waiting) /\ IsInjective(access)
  /\ entry \in [Accounts -> 0 .. MaxEntries]
  /\ digest \subseteq [project : Projects, found : SUBSET Accounts, granted : SUBSET Accounts]
  /\ Cardinality(digest) <= 1

ListingInit ==
  /\ waiting = <<>> /\ access = <<>>
  /\ entry = [a \in Accounts |-> 0]
  /\ digest = {}

-----------------------------------------------------------------------------
\* The queries.

Of(project, a) == project \in {AllProjects, ProjectOf[a]}

\* WHERE and ORDER BY: where the rows asked for are on their list.
Matching(list, project, search) ==
  {i \in DOMAIN list : Of(project, list[i]) /\ list[i] \in search}

\* LIMIT and OFFSET: the rows that have more than `offset' and not more than `offset'
\* and `limit' of them up to them.  Their order on the page is left out.
Page(list, matching, limit, offset) ==
  LET UpTo(i) == Cardinality({j \in matching : j <= i})
  IN {list[i] : i \in {j \in matching : UpTo(j) - offset \in 1 .. limit}}

ListWithAccess(project, search, limit, offset) ==
  Page(access, Matching(access, project, search), limit, offset)

ListJoined(project, search, limit, offset) ==
  Page(waiting, Matching(waiting, project, search), limit, offset)

ListAllWithAccess(project) == {a \in ToSet(access) : Of(project, a)}

\* Mutant: a page instead of the whole list.
ListAllJoinedFirstPage(project) == ListJoined(project, Accounts, DefaultLimit, 0)

ListAllJoined(project) == {a \in ToSet(waiting) : Of(project, a)}

\* parseIntQuery and resolveProjectFilter: anything else is answered with 400.
Accepts(project, limit, offset) ==
  /\ project \in Filters
  /\ limit \in 1 .. MaxLimit
  /\ offset \in 0 .. 2^30

-----------------------------------------------------------------------------
\* What changes the lists.  created_at is the time a transaction began, and rows
\* of one second go by email: a new row may come to lie anywhere.

\* A list names an account at most once.
Without(s, a) == IF a \in ToSet(s) THEN RemoveAt(s, CHOOSE i \in DOMAIN s : s[i] = a) ELSE s

\* The digest under way, when a is granted access.
Granting(a) == digest' = {[d EXCEPT !.granted = @ \cup {a}] : d \in digest}

\* An account that has access signs up only on PostgreSQL, after a check that is stale.
SignUp(a) ==
  /\ a \notin ToSet(waiting)
  /\ entry[a] < MaxEntries
  /\ entry' = [entry EXCEPT ![a] = @ + 1]
  /\ \E i \in 1 .. Len(waiting) + 1 : waiting' = InsertAt(waiting, i, a)
  /\ UNCHANGED <<access, digest>>

\* A grant needs no entry.  A new access_granted_at moves the account.
Grant(a) ==
  /\ entry[a] > 0
  /\ waiting' = Without(waiting, a)
  /\ \E i \in 1 .. Len(Without(access, a)) + 1 : access' = InsertAt(Without(access, a), i, a)
  /\ Granting(a)
  /\ UNCHANGED entry

Revoke(a) ==
  /\ access' = Without(access, a)
  /\ UNCHANGED <<waiting, entry, digest>>

DeleteEntry(a) ==
  /\ waiting' = Without(waiting, a)
  /\ UNCHANGED <<access, entry, digest>>

-----------------------------------------------------------------------------
\* handleSendDigest, for a project that has recipients.  The record keeps, beside
\* what was read, who has been granted access since.

ReadAccess(project) ==
  /\ digest = {}
  /\ digest' = {[project |-> project, found |-> ListAllWithAccess(project), granted |-> {}]}
  /\ UNCHANGED lists

\* Whom the digest lists if its second statement runs now.
FullState(d) == d.found \cup ListAllJoined(d.project)

ReadWaitlist ==
  /\ digest # {}
  /\ digest' = {}
  /\ UNCHANGED lists

Listed(project) == {a \in ToSet(waiting) \cup ToSet(access) : Of(project, a)}

\* Whenever the second statement runs, the digest lists everybody who then is on the
\* list or has access, unless access was granted since the first: such a person was not
\* yet in the first list and is no longer in the second.
FullStateComplete ==
  \A d \in digest : Listed(d.project) \ d.granted \subseteq FullState(d)

-----------------------------------------------------------------------------
\* The chart of the dashboard: sign-ups per UTC day.  The query counts from `days'
\* times 24 hours before the time `queried'; the days listed end with that of the
\* clock of the server when it has read the answer.

Day == 86400
DayOf(t) == t \div Day

Counted(created, days, queried) ==
  {u \in DOMAIN created : created[u] >= queried - days * Day /\ created[u] <= queried}

EnlistmentsByDay(created, days, queried, listed) ==
  [day \in DayOf(listed) - days + 1 .. DayOf(listed) |->
     {u \in Counted(created, days, queried) : DayOf(created[u]) = day}]
=============================================================================
