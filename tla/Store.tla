------------------------------- MODULE Store -------------------------------
(***************************************************************************)
(* The database of the waiting-list service as its repositories use it:    *)
(* the tables user_entity, waiting_list and scheduler_state, and the       *)
(* transactions that are open on them.                                     *)
(*                                                                         *)
(* A transaction is the set of writes its statements have made so far.     *)
(* They become visible to the others when it commits.  Until then they are *)
(* also its row locks: a statement that needs a row (or a unique key)      *)
(* another transaction has written waits for that transaction to end, as   *)
(* PostgreSQL's READ COMMITTED does.  SQLite is opened with a pool of one  *)
(* connection, so there a transaction has the database to itself           *)
(* (Serialized = TRUE).                                                    *)
(*                                                                         *)
(* Time is kept as ages, counted in steps of the clock up to AgeCap: how   *)
(* long an entry has waited, and how long ago a project's scheduler last   *)
(* succeeded.                                                              *)
(***************************************************************************)
EXTENDS Naturals, FiniteSets

CONSTANTS
  Projects,     \* the slugs of the configured projects
  Emails,       \* addresses people sign up with
  Clients,      \* concurrent POST requests of the public API
  Admins,       \* concurrent requests of the admin API
  Schedulers,   \* the scheduler goroutines, one per running server
  Serialized,   \* TRUE: SQLite, one connection.  FALSE: PostgreSQL
  AgeCap,       \* bound: ages are not told apart beyond it
  MaxEntries    \* bound: the rows the waiting list may ever have

ASSUME BoundsAssumption ==
  /\ AgeCap \in Nat \ {0}
  /\ MaxEntries \in Nat \ {0}

ASSUME EngineAssumption == Serialized \in BOOLEAN

\* A process has one role, and whoever grants access is not a public request.
ASSUME RolesAssumption ==
  /\ Clients \cap Admins = {}
  /\ Clients \cap Schedulers = {}
  /\ Admins \cap Schedulers = {}

\* Everything that may hold a connection.
Sessions == Clients \cup Admins \cup Schedulers

\* A user row is named by what its unique index (project_slug, email) allows
\* once; its uuid is in one-to-one correspondence with that.
Accounts == Projects \X Emails
ProjectOf(a) == a[1]

Ages == 0 .. AgeCap
Ids  == Nat

\* The n-th waiting-list row of an account: the row's uuid.
Refs == [acct : Accounts, id : Ids]

Sources == {"none", "scheduler", "admin"}

VARIABLES
  user,    \* user_entity, one row per account that is known
  entry,   \* waiting_list, at most one live row per account
  cool,    \* scheduler_state: the age of a project's last success
  tx       \* the open transaction of every session

storeVars == <<user, entry, cool, tx>>

Users == [known : BOOLEAN, access : BOOLEAN, by : Sources, revoked : BOOLEAN]

Unknown == [known |-> FALSE, access |-> FALSE, by |-> "none", revoked |-> FALSE]
Signed  == [Unknown EXCEPT !.known = TRUE]

\* "id" outlives the row, so that the next row of the account gets a new one.
Entries == [on : BOOLEAN, id : Ids, age : Ages]

Transactions ==
  [open : BOOLEAN, create : SUBSET Accounts, add : SUBSET Accounts,
   del : SUBSET Refs, grant : SUBSET Accounts, by : Sources,
   stamp : SUBSET Projects, age : Ages]

NoTx == [open |-> FALSE, create |-> {}, add |-> {}, del |-> {}, grant |-> {},
         by |-> "none", stamp |-> {}, age |-> 0]
Begun == [NoTx EXCEPT !.open = TRUE]

StoreTypeOK ==
  /\ user \in [Accounts -> Users]
  /\ entry \in [Accounts -> Entries]
  /\ cool \in [Projects -> Ages]
  /\ tx \in [Sessions -> Transactions]

\* Empty tables.  A project without a scheduler_state row is due, as one whose
\* last success is as old as can be told.
StoreInit ==
  /\ user = [a \in Accounts |-> Unknown]
  /\ entry = [a \in Accounts |-> [on |-> FALSE, id |-> 0, age |-> 0]]
  /\ cool = [j \in Projects |-> AgeCap]
  /\ tx = [p \in Sessions |-> NoTx]

-----------------------------------------------------------------------------
\* What a reader sees: the committed rows.

EntryRef(a) == [acct |-> a, id |-> entry[a].id]
Live(r) == entry[r.acct].on /\ entry[r.acct].id = r.id

OnList(j) == {a \in Accounts : ProjectOf(a) = j /\ entry[a].on}

\* Mutant: the query without WHERE project_slug.
OldestFirstOfAll(j, n) ==
  {S \in SUBSET {a \in Accounts : entry[a].on} :
     /\ Cardinality(S) <= n
     /\ Cardinality(S) = n \/ S = {a \in Accounts : entry[a].on}
     /\ \A a \in S, b \in OnList(j) \ S : entry[a].age >= entry[b].age}

\* Mutant: LIMIT without ORDER BY.
OldestFirstUnordered(j, n) ==
  {S \in SUBSET OnList(j) :
     Cardinality(S) <= n /\ (Cardinality(S) = n \/ S = OnList(j))}

\* The n oldest rows of a project: the results of ORDER BY .. LIMIT n.  Rows of
\* the same age come in any order, so there may be several.
OldestFirst(j, n) ==
  {S \in SUBSET OnList(j) :
     /\ Cardinality(S) <= n
     /\ Cardinality(S) = n \/ S = OnList(j)
     /\ \A a \in S, b \in OnList(j) \ S : entry[a].age >= entry[b].age}

-----------------------------------------------------------------------------
\* Who makes a statement wait.

Others(p) == Sessions \ {p}

ConnectionFree == Serialized => \A q \in Sessions : ~tx[q].open

CreatorsOf(a)  == {q \in Sessions : a \in tx[q].create}
InsertersOf(a) == {q \in Sessions : a \in tx[q].add}
DeletersOf(R)  == {q \in Sessions : tx[q].del \cap R # {}}
GrantersOf(A)  == {q \in Sessions : tx[q].grant \cap A # {}}
StampersOf(j)  == {q \in Sessions : j \in tx[q].stamp}

\* NOW() is the start of the transaction on PostgreSQL and the time of the
\* statement on SQLite.
NowAge(p) == IF Serialized THEN 0 ELSE tx[p].age

-----------------------------------------------------------------------------
\* Statements inside a transaction.  Those of several rows are made row by row: A
\* and R are the rows the statement has got to.

CreateTx(p, a) == tx' = [tx EXCEPT ![p].create = {a}]

Add(p, a) == tx' = [tx EXCEPT ![p].add = {a}, ![p].age = NowAge(p)]

GrantAccessTx(p, A, source) ==
  tx' = [tx EXCEPT ![p].grant = A, ![p].by = source]

DeleteByIDsTx(p, R) == tx' = [tx EXCEPT ![p].del = R]

UpdateLastSuccess(p, j) ==
  tx' = [tx EXCEPT ![p].stamp = {j}, ![p].age = NowAge(p)]

Rollback(p) == tx' = [tx EXCEPT ![p] = NoTx]

\* Mutant: the columns of an earlier revocation stay.
CommittedUserKeepsRevocation(p, a) ==
  IF a \in tx[p].grant
  THEN [user[a] EXCEPT !.access = TRUE, !.by = tx[p].by]
  ELSE IF a \in tx[p].create THEN Signed ELSE user[a]

\* The tables once the transaction of p is applied to them.
CommittedUser(p, a) ==
  IF a \in tx[p].grant
  THEN [user[a] EXCEPT !.access = TRUE, !.by = tx[p].by, !.revoked = FALSE]
  ELSE IF a \in tx[p].create THEN Signed ELSE user[a]

CommittedEntry(p, a) ==
  IF a \in tx[p].add
  THEN [on |-> TRUE, id |-> entry[a].id + 1, age |-> tx[p].age]
  ELSE [entry[a] EXCEPT !.on = @ /\ EntryRef(a) \notin tx[p].del]

Commit(p) ==
  /\ user' = [a \in Accounts |-> CommittedUser(p, a)]
  /\ entry' = [a \in Accounts |-> CommittedEntry(p, a)]
  /\ cool' = [j \in Projects |-> IF j \in tx[p].stamp THEN tx[p].age ELSE cool[j]]
  /\ Rollback(p)

-----------------------------------------------------------------------------
\* Statements on their own, committed as they finish.

\* Mutant: the source of the grant is cleared with the grant.
RevokeAccessForgets(a) ==
  /\ user[a].known
  /\ GrantersOf({a}) = {}
  /\ user' = [user EXCEPT ![a].access = FALSE, ![a].revoked = TRUE, ![a].by = "none"]
  /\ UNCHANGED <<entry, cool, tx>>

RevokeAccess(a) ==
  /\ user[a].known
  /\ GrantersOf({a}) = {}
  /\ user' = [user EXCEPT ![a].access = FALSE, ![a].revoked = TRUE]
  /\ UNCHANGED <<entry, cool, tx>>

DeleteByID(r) ==
  /\ Live(r)
  /\ DeletersOf({r}) = {}
  /\ entry' = [entry EXCEPT ![r.acct].on = FALSE]
  /\ UNCHANGED <<user, cool, tx>>

-----------------------------------------------------------------------------
Older(n) == IF n < AgeCap THEN n + 1 ELSE AgeCap

\* The clock moves, for the rows and for the transactions that are open.
Clock ==
  /\ entry' = [a \in Accounts |->
                 IF entry[a].on THEN [entry[a] EXCEPT !.age = Older(@)] ELSE entry[a]]
  /\ cool' = [j \in Projects |-> Older(cool[j])]
  /\ tx' = [p \in Sessions |->
              IF tx[p].open THEN [tx[p] EXCEPT !.age = Older(@)] ELSE tx[p]]
  /\ UNCHANGED user
=============================================================================
