---------------------------- MODULE PromiseProofs ----------------------------
(***************************************************************************)
(* Module Waitlist implements module Membership: every step of a request   *)
(* or a scheduler, whatever the others do between its statements, is one   *)
(* of the promised steps or changes nothing that is promised.              *)
(*                                                                         *)
(* A batch is the step that needs an invariant of its own: it commits what *)
(* its scheduler has read several statements ago, outside of any           *)
(* transaction.  What it has read stays true of the rows that are still    *)
(* there, because rows only age, and an id is never given to another row   *)
(* (Rows); a row that has gone stays gone, so that the batch has deleted   *)
(* all its rows when it commits.                                           *)
(***************************************************************************)
EXTENDS SerialProofs, FiniteSetTheorems, FunctionTheorems

\* A scheduler that holds a batch, from its query to its commit.
Holding == {"begin", "grant", "delete", "stamp", "batchCommit"}

\* What is true of the rows a scheduler has read.
Held(s) ==
  /\ batch[s] # {} /\ IsFiniteSet(batch[s]) /\ Cardinality(batch[s]) <= Batch[proj[s]]
  /\ \A r \in batch[s] :
       /\ ProjectOf(r.acct) = proj[s]
       /\ r.id \in 1 .. entry[r.acct].id
       /\ Live(r) => entry[r.acct].age >= Window[proj[s]]
       /\ Live(r) /\ pc[s] \in {"stamp", "batchCommit"} => r \in tx[s].del

Batched(s) ==
  /\ pc[s] \in {"fetch"} \cup Holding => proj[s] \notin Disabled
  /\ pc[s] \in Holding => Held(s)

\* One server, one scheduler.
Sole == \A s, t \in Schedulers : s = t

Cooled(s) == pc[s] \in {"fetch"} \cup Holding => cool[proj[s]] >= Window[proj[s]]

\* Rows are numbered from one, and there are finitely many.
Rows ==
  /\ \A a \in Accounts : entry[a].on => entry[a].id >= 1
  /\ IsFiniteSet({a \in Accounts : entry[a].on})

BatchInv ==
  /\ SessionInv
  /\ Rows
  /\ \A s \in Schedulers : Batched(s)
  /\ Sole => \A s \in Schedulers : Cooled(s)

-----------------------------------------------------------------------------
(* What a step does to the tables *)

CommitSteps == {"addCommit", "grantCommit", "batchCommit"}

\* A session writes to the tables when it commits, revokes or removes.
LEMMA Effects ==
  ASSUME NEW p \in Sessions, Acts(p)
  PROVE  \/ UNCHANGED <<user, entry, cool>>
         \/ pc[p] \in CommitSteps /\ Commit(p)
         \/ \E a \in Accounts : RevokeAccess(a)
         \/ \E a \in Accounts : DeleteByID(EntryRef(a))
<1>1. CASE p \in Clients /\ (AddStep(p) \/ \E a \in Accounts : AddLookup(p, a))
  BY <1>1 DEF AddStep, AddLookup, AddCreate, AddInsert, AddCommit, CommitSteps
<1>2. CASE p \in Admins /\ (GrantStep(p) \/ AdminRequest(p))
  BY <1>2
  DEF GrantStep, GrantAccess, GrantCommit, GrantNotify, AdminRequest, GrantDelete, Revoke,
      DeleteWaitlist, CommitSteps
<1>3. CASE p \in Schedulers /\ (Poll(p) \/ BatchStep(p) \/ Crash(p))
  BY <1>3
  DEF Poll, CheckAllProjects, ProcessProject, BatchStep, FetchEntries, BatchBegin, BatchGrant,
      BatchDelete, BatchStamp, BatchCommit, BatchNotify, Crash, CommitSteps
<1>4. CASE DeadlockVictim(p) \/ Fault(p) \/ CommitUnacknowledged(p)
  BY <1>4 DEF DeadlockVictim, Fault, CommitUnacknowledged, CommitSteps
<1> QED
  BY <1>1, <1>2, <1>3, <1>4 DEF Acts


LEMMA OlderAge ==
  ASSUME NEW n \in Ages
  PROVE  n <= Older(n) /\ Older(n) \in Ages
BY BoundsAssumption DEF Ages, Older

\* The row of an account stays and ages, goes, or makes place for the next one.
RowsAge ==
  \A a \in Accounts :
    /\ entry[a].id <= entry'[a].id
    /\ entry'[a].on /\ entry'[a].id = entry[a].id =>
         entry[a].on /\ entry[a].age <= entry'[a].age

LEMMA CommittedRow ==
  ASSUME Typed, NEW p \in Sessions, Commit(p), NEW a \in Accounts
  PROVE  /\ a \in tx[p].add => entry'[a].on /\ entry'[a].id = entry[a].id + 1
                               /\ entry'[a].age = tx[p].age
         /\ a \notin tx[p].add =>
              /\ entry'[a].on <=> entry[a].on /\ EntryRef(a) \notin tx[p].del
              /\ entry'[a].id = entry[a].id /\ entry'[a].age = entry[a].age
<1>1. entry[a] \in Entries /\ entry'[a] = CommittedEntry(p, a)
  BY DEF Typed, TypeOK, StoreTypeOK, Commit
<1>2. CASE a \in tx[p].add
  BY <1>1, <1>2 DEF CommittedEntry
<1>3. CASE a \notin tx[p].add
  BY <1>1, <1>3 DEF CommittedEntry, Entries
<1> QED
  BY <1>2, <1>3

LEMMA RemovedRow ==
  ASSUME Typed, NEW a \in Accounts, DeleteByID(EntryRef(a)), NEW b \in Accounts
  PROVE  /\ entry'[b].on <=> entry[b].on /\ b # a
         /\ entry'[b].id = entry[b].id /\ entry'[b].age = entry[b].age
<1>1. entry' = [entry EXCEPT ![a].on = FALSE] /\ entry[b] \in Entries
  BY DEF Typed, TypeOK, StoreTypeOK, DeleteByID, EntryRef
<1> QED
  BY <1>1 DEF Typed, TypeOK, StoreTypeOK, Entries

LEMMA AgedRow ==
  ASSUME Typed, Clock, NEW a \in Accounts
  PROVE  /\ entry'[a].on <=> entry[a].on
         /\ entry'[a].id = entry[a].id
         /\ entry'[a].age = IF entry[a].on THEN Older(entry[a].age) ELSE entry[a].age
<1>1. entry[a] \in Entries
  BY DEF Typed, TypeOK, StoreTypeOK
<1>2. CASE entry[a].on
  BY <1>1, <1>2 DEF Clock, Entries
<1>3. CASE ~entry[a].on
  BY <1>1, <1>3 DEF Clock
<1> QED
  BY <1>2, <1>3

LEMMA RowsStep ==
  ASSUME SessionInv, Rows, Next
  PROVE  RowsAge /\ Rows'
<1>1. Typed /\ TypeOK /\ \A p \in Sessions : Written(p)
  BY DEF SessionInv, AccountInv, Typed
<1>2. \A a \in Accounts : entry[a].id \in Nat /\ entry[a].age \in Ages
  BY <1>1 DEF TypeOK, StoreTypeOK, Entries, Ids
<1>3. \A a \in Accounts : entry[a].age \in Nat
  BY <1>2, BoundsAssumption DEF Ages
<1> DEFINE listed == {a \in Accounts : entry[a].on}
<1>4. IsFiniteSet(listed) /\ \A a \in Accounts : entry[a].on => entry[a].id >= 1
  BY DEF Rows
<1>5. ASSUME NEW joined, \A a \in Accounts : entry'[a].on => entry[a].on \/ a = joined
      PROVE  IsFiniteSet({a \in Accounts : entry'[a].on})
  <2>1. IsFiniteSet(listed \cup {joined})
    BY <1>4, FS_AddElement
  <2>2. {a \in Accounts : entry'[a].on} \in SUBSET (listed \cup {joined})
    BY <1>5
  <2> HIDE DEF listed
  <2> QED
    BY <2>1, <2>2, FS_Subset
<1>6. CASE Tick
  <2>1. Clock
    BY <1>6 DEF Tick
  <2>2. RowsAge
    BY <1>1, <1>2, <1>3, <2>1, AgedRow, OlderAge DEF RowsAge
  <2>3. Rows'
    BY <1>1, <1>4, <1>5, <2>1, AgedRow DEF Rows
  <2> QED
    BY <2>2, <2>3
<1>7. ASSUME NEW p \in Sessions, Commit(p) PROVE RowsAge /\ Rows'
  <2>1. tx[p].add \subseteq {acct[p]}
    <3>1. tx[p].add = IF pc[p] = "addCommit" THEN {acct[p]} ELSE {}
      BY <1>1 DEF Written
    <3> QED
      BY <3>1
  <2>2. RowsAge
    BY <1>1, <1>2, <1>3, <1>7, CommittedRow DEF RowsAge
  <2>3. \A a \in Accounts : entry'[a].on => entry[a].on \/ a = acct[p]
    BY <1>1, <1>7, <2>1, CommittedRow
  <2>4. \A a \in Accounts : entry'[a].on => entry'[a].id >= 1
    BY <1>1, <1>2, <1>4, <1>7, CommittedRow
  <2> QED
    BY <1>5, <2>2, <2>3, <2>4 DEF Rows
<1>8. ASSUME NEW a \in Accounts, DeleteByID(EntryRef(a)) PROVE RowsAge /\ Rows'
  <2>1. RowsAge
    BY <1>1, <1>2, <1>3, <1>8, RemovedRow DEF RowsAge
  <2>2. Rows'
    BY <1>1, <1>4, <1>5, <1>8, RemovedRow DEF Rows
  <2> QED
    BY <2>1, <2>2
<1>9. CASE entry' = entry
  <2>1. RowsAge
    BY <1>2, <1>3, <1>9 DEF RowsAge
  <2> QED
    BY <1>9, <2>1 DEF Rows
<1>10. ASSUME NEW p \in Sessions, Acts(p) PROVE RowsAge /\ Rows'
  BY <1>7, <1>8, <1>9, <1>10, Effects DEF RevokeAccess
<1> QED
  BY <1>6, <1>10, NextActs

\* A row that has gone stays gone: a row that is there was there before.
LEMMA LiveBefore ==
  ASSUME Typed, Typed', RowsAge, NEW r \in Refs, r.id \in 1 .. entry[r.acct].id, Live(r)'
  PROVE  Live(r) /\ entry[r.acct].age <= entry'[r.acct].age
<1>1. r.acct \in Accounts
  BY DEF Refs
<1>2. /\ entry[r.acct].id \in Nat /\ entry'[r.acct].id \in Nat
      /\ entry[r.acct].id <= entry'[r.acct].id /\ r.id <= entry[r.acct].id /\ r.id \in Nat
  BY <1>1 DEF Typed, TypeOK, StoreTypeOK, Entries, Ids, RowsAge
<1>3. entry'[r.acct].on /\ entry'[r.acct].id = r.id
  BY DEF Live
<1>4. entry'[r.acct].id = entry[r.acct].id
  BY <1>2, <1>3
<1> QED
  BY <1>1, <1>3, <1>4 DEF Live, RowsAge

\* What a scheduler has read stays true while it goes on to commit it.
LEMMA HeldKept ==
  ASSUME Typed, Typed', RowsAge, NEW s \in Schedulers, Held(s), proj[s] \in Projects,
         batch'[s] = batch[s], proj'[s] = proj[s],
         \A r \in batch[s] :
           Live(r) /\ Live(r)' /\ pc'[s] \in {"stamp", "batchCommit"} => r \in tx'[s].del
  PROVE  Held(s)'
<1>1. batch[s] \subseteq Refs
  BY DEF Typed, TypeOK
<1>2. ASSUME NEW r \in batch[s]
      PROVE  /\ r.id \in 1 .. entry'[r.acct].id
             /\ Live(r)' => entry'[r.acct].age >= Window[proj[s]]
             /\ Live(r)' /\ pc'[s] \in {"stamp", "batchCommit"} => r \in tx'[s].del
  <2>1. r.acct \in Accounts /\ r.id \in 1 .. entry[r.acct].id /\ r \in Refs
    BY <1>1 DEF Held, Refs
  <2>2. /\ entry[r.acct].id \in Nat /\ entry'[r.acct].id \in Nat
        /\ entry[r.acct].age \in Ages /\ entry'[r.acct].age \in Ages
    BY <2>1 DEF Typed, TypeOK, StoreTypeOK, Entries, Ids
  <2>3. r.id \in 1 .. entry'[r.acct].id
    BY <2>1, <2>2 DEF RowsAge
  <2>4. Live(r)' => Live(r) /\ entry[r.acct].age <= entry'[r.acct].age
    BY <2>1, LiveBefore
  <2>5. Live(r)' => entry'[r.acct].age >= Window[proj[s]]
    <3>1. Live(r)' => entry[r.acct].age >= Window[proj[s]]
      BY <2>4 DEF Held
    <3>2. Window[proj[s]] \in 0 .. AgeCap
      BY ConfigAssumption
    <3> QED
      BY <2>2, <2>4, <3>1, <3>2, BoundsAssumption DEF Ages
  <2> QED
    BY <2>3, <2>4, <2>5
<1> QED
  BY <1>2 DEF Held

-----------------------------------------------------------------------------
(* What a scheduler reads *)

\* Accounts and their rows are one to one.
LEMMA RowsOf ==
  ASSUME NEW S \in SUBSET Accounts, IsFiniteSet(S)
  PROVE  LET R == {EntryRef(a) : a \in S}
         IN  IsFiniteSet(R) /\ Cardinality(R) = Cardinality(S)
<1> DEFINE R == {EntryRef(a) : a \in S}
           f == [a \in S |-> EntryRef(a)]
<1>1. f \in Bijection(S, R)
  <2>1. \A a, b \in S : f[a] = f[b] => a = b
    BY DEF EntryRef
  <2>2. f \in [S -> R] /\ \A r \in R : \E a \in S : f[a] = r
    OBVIOUS
  <2> HIDE DEF f, R
  <2> QED
    BY <2>1, <2>2, Fun_IsBij
<1>2. ExistsBijection(S, R)
  BY <1>1 DEF ExistsBijection
<1> HIDE DEF R
<1> QED
  BY <1>2, FS_Bijection DEF R

LEMMA Fetched ==
  ASSUME Typed, Rows, NEW s \in Schedulers, proj[s] \in Projects,
         NEW page \in OldestFirst(proj[s], Batch[proj[s]]),
         NEW ready, ready = {a \in page : entry[a].age >= Window[proj[s]]}, ready # {},
         entry' = entry, proj' = proj, pc'[s] = "begin",
         batch'[s] = {EntryRef(a) : a \in ready}
  PROVE  Held(s)'
<1>1. /\ page \subseteq Accounts /\ Cardinality(page) <= Batch[proj[s]]
      /\ \A a \in page : ProjectOf(a) = proj[s] /\ entry[a].on
  BY DEF OldestFirst, OnList
<1>2. IsFiniteSet(page)
  <2>1. page \in SUBSET {a \in Accounts : entry[a].on}
    BY <1>1
  <2> QED
    BY <2>1, FS_Subset DEF Rows
<1>3. IsFiniteSet(ready) /\ Cardinality(ready) <= Cardinality(page) /\ ready \subseteq Accounts
  BY <1>1, <1>2, FS_Subset
<1>4. IsFiniteSet(batch'[s]) /\ Cardinality(batch'[s]) = Cardinality(ready)
  BY <1>3, RowsOf
<1>5. Cardinality(batch'[s]) <= Batch[proj[s]]
  <2>1. Cardinality(ready) \in Nat /\ Cardinality(page) \in Nat
    BY <1>2, <1>3, FS_CardinalityType
  <2>2. Batch[proj[s]] \in Nat
    BY ConfigAssumption
  <2> QED
    BY <1>1, <1>3, <1>4, <2>1, <2>2
<1>6. ASSUME NEW r \in batch'[s]
      PROVE  /\ ProjectOf(r.acct) = proj[s] /\ r.id \in 1 .. entry[r.acct].id
             /\ entry[r.acct].age >= Window[proj[s]]
  <2>1. PICK a \in ready : r = EntryRef(a)
    OBVIOUS
  <2>2. r.acct = a /\ r.id = entry[a].id /\ a \in page /\ a \in Accounts
    BY <1>1, <2>1 DEF EntryRef
  <2>3. entry[a].id \in Nat /\ entry[a].id >= 1
    BY <1>1, <2>2 DEF Rows, Typed, TypeOK, StoreTypeOK, Entries, Ids
  <2> QED
    BY <1>1, <2>2, <2>3
<1>7. batch'[s] # {}
  OBVIOUS
<1> QED
  BY <1>4, <1>5, <1>6, <1>7 DEF Held

-----------------------------------------------------------------------------
(* From the query to the commit *)

\* The statements of a batch, as its scheduler makes them.
LEMMA OwnBatched ==
  ASSUME SessionInv, SessionInv', Rows, RowsAge, NEW s \in Schedulers, Batched(s), Acts(s)
  PROVE  Batched(s)'
<1>1. /\ Typed /\ Typed' /\ TypeOK /\ s \in Sessions /\ s \notin Clients /\ s \notin Admins
      /\ Written(s) /\ LocalsOK
  BY RolesAssumption DEF SessionInv, AccountInv, Typed, Sessions
<1>2. pc'[s] \notin {"fetch"} \cup Holding => Batched(s)'
  BY DEF Batched
<1>3. Abort(s) \/ Finish(s, "idle") \/ Goto(s, "idle") => pc'[s] = "idle"
  BY <1>1 DEF Abort, Finish, Goto, TypeOK
<1>4. CASE Poll(s)
  <2>1. CASE CheckAllProjects(s)
    BY <1>2, <2>1 DEF CheckAllProjects, Holding
  <2>2. ASSUME NEW j \in Projects, ProcessProject(s, j) PROVE Batched(s)'
    <3>1. CASE UNCHANGED <<pc, proj>>
      BY <1>2, <2>2, <3>1 DEF ProcessProject, Holding
    <3>2. CASE Goto(s, "fetch") /\ proj' = [proj EXCEPT ![s] = j] /\ j \notin Disabled
      BY <1>1, <3>2 DEF Goto, TypeOK, Batched, Holding
    <3> QED
      BY <2>2, <3>1, <3>2 DEF ProcessProject
  <2> QED
    BY <1>4, <2>1, <2>2 DEF Poll
<1>5. CASE FetchEntries(s)
  <2>1. pc[s] = "fetch" /\ proj[s] \in Projects /\ proj[s] \notin Disabled
    BY <1>1, <1>5 DEF FetchEntries, LocalsOK, BatchBusy, Batched
  <2>2. PICK page \in OldestFirst(proj[s], Batch[proj[s]]) :
          LET ready == {a \in page : entry[a].age >= Window[proj[s]]} IN
          IF ready = {}
          THEN Finish(s, "idle")
          ELSE /\ batch' = [batch EXCEPT ![s] = {EntryRef(a) : a \in ready}]
               /\ Goto(s, "begin")
               /\ UNCHANGED <<acct, round, proj>>
    BY <1>5 DEF FetchEntries
  <2> DEFINE ready == {a \in page : entry[a].age >= Window[proj[s]]}
  <2>3. CASE ready = {}
    BY <1>2, <1>3, <2>2, <2>3 DEF Holding
  <2>4. CASE ready # {}
    <3>1. /\ batch'[s] = {EntryRef(a) : a \in ready} /\ pc'[s] = "begin" /\ proj' = proj
          /\ entry' = entry
      BY <1>1, <1>5, <2>2, <2>4 DEF FetchEntries, Goto, TypeOK
    <3> HIDE DEF ready
    <3>2. Held(s)'
      BY <1>1, <2>1, <2>4, <3>1, Fetched DEF ready
    <3> QED
      BY <2>1, <3>1, <3>2 DEF Batched
  <2> QED
    BY <2>3, <2>4
<1>6. ASSUME pc[s] \in Holding, UNCHANGED <<batch, proj, entry>>,
             pc'[s] \in {"stamp", "batchCommit"} =>
               \A r \in batch[s] : Live(r) => r \in tx'[s].del
      PROVE  Batched(s)'
  <2>1. Held(s) /\ proj[s] \in Projects /\ proj[s] \notin Disabled
    BY <1>1, <1>6 DEF Batched, Holding, LocalsOK, BatchBusy
  <2>2. Held(s)'
    BY <1>1, <1>6, <2>1, HeldKept
  <2> QED
    BY <1>6, <2>1, <2>2 DEF Batched
<1>7. CASE BatchBegin(s) \/ BatchGrant(s)
  <2>1. pc'[s] \in {"grant", "delete"} /\ UNCHANGED <<batch, proj, entry>> /\ pc[s] \in Holding
    BY <1>1, <1>7 DEF BatchBegin, BatchGrant, Goto, TypeOK, Holding
  <2> QED
    BY <1>6, <2>1
<1>8. CASE BatchDelete(s)
  <2>1. UNCHANGED <<batch, proj, entry>> /\ pc[s] \in Holding
    BY <1>8 DEF BatchDelete, Holding
  <2>2. CASE Left(s) = {}
    <3>1. tx' = tx /\ \A r \in batch[s] : Live(r) => r \in tx[s].del
      BY <1>8, <2>2 DEF BatchDelete, Left
    <3> QED
      BY <1>6, <2>1, <3>1
  <2>3. CASE Left(s) # {}
    <3>1. pc'[s] = "delete"
      BY <1>8, <2>3 DEF BatchDelete
    <3> QED
      BY <1>6, <2>1, <3>1
  <2> QED
    BY <2>2, <2>3
<1>9. CASE BatchStamp(s)
  <2>1. UNCHANGED <<batch, proj, entry>> /\ pc[s] = "stamp"
    BY <1>9 DEF BatchStamp
  <2>2. tx'[s].del = tx[s].del
    BY <1>1, <1>9, StampEffect DEF BatchStamp, SameDel
  <2>3. \A r \in batch[s] : Live(r) => r \in tx[s].del
    BY <2>1 DEF Batched, Holding, Held
  <2> QED
    BY <1>6, <2>1, <2>2, <2>3 DEF Holding
<1>10. CASE BatchCommit(s)
  BY <1>1, <1>2, <1>10 DEF BatchCommit, Goto, TypeOK, Holding
<1>11. CASE \/ BatchNotify(s) \/ Crash(s) \/ DeadlockVictim(s) \/ Fault(s)
            \/ CommitUnacknowledged(s)
  BY <1>2, <1>3, <1>11
  DEF BatchNotify, Crash, DeadlockVictim, Fault, CommitUnacknowledged, Holding
<1> QED
  BY <1>1, <1>4, <1>5, <1>7, <1>8, <1>9, <1>10, <1>11 DEF Acts, BatchStep

\* A batch while others act and time passes.
LEMMA BatchedBeside ==
  ASSUME SessionInv, SessionInv', RowsAge, NEW s \in Schedulers, Batched(s),
         pc'[s] = pc[s], batch'[s] = batch[s], proj'[s] = proj[s], tx'[s].del = tx[s].del
  PROVE  Batched(s)'
<1>1. Typed /\ Typed'
  BY DEF SessionInv, AccountInv
<1>2. CASE pc[s] \in Holding
  <2>1. Held(s) /\ proj[s] \in Projects
    BY <1>1, <1>2 DEF Batched, Holding, Typed, LocalsOK, BatchBusy
  <2>2. Held(s)'
    BY <1>1, <2>1, HeldKept DEF Held
  <2> QED
    BY <2>2 DEF Batched
<1>3. CASE pc[s] \notin Holding
  BY <1>3 DEF Batched
<1> QED
  BY <1>2, <1>3

LEMMA BatchedStep ==
  ASSUME SessionInv, SessionInv', Rows, Next, NEW s \in Schedulers, Batched(s)
  PROVE  Batched(s)'
<1>1. Typed /\ RowsAge /\ s \in Sessions
  BY RowsStep DEF SessionInv, AccountInv, Sessions
<1>2. CASE Tick
  <2>1. UNCHANGED <<pc, batch, proj>> /\ tx'[s].del = tx[s].del
    BY <1>1, <1>2, ClockEffect DEF Tick, Typed, SameDel
  <2> QED
    BY <1>1, <2>1, BatchedBeside
<1>3. CASE Acts(s)
  BY <1>1, <1>3, OwnBatched
<1>4. ASSUME NEW q \in Sessions, q # s, Acts(q) PROVE Batched(s)'
  <2>1. /\ pc'[s] = pc[s] /\ batch'[s] = batch[s] /\ proj'[s] = proj[s]
        /\ tx'[s].del = tx[s].del
    BY <1>1, <1>4, ActsKept DEF Kept, Others
  <2> QED
    BY <1>1, <2>1, BatchedBeside
<1> QED
  BY <1>2, <1>3, <1>4, NextActs

\* How a scheduler comes to hold a batch.
LEMMA OnItsWay ==
  ASSUME Typed, NEW s \in Schedulers, Acts(s), pc'[s] \in {"fetch"} \cup Holding
  PROVE  /\ pc[s] # "batchCommit"
         /\ \/ pc[s] \in {"fetch"} \cup Holding /\ proj'[s] = proj[s]
            \/ \E j \in Projects : proj'[s] = j /\ ~(cool[j] < Window[j])
<1>1. TypeOK /\ s \in Sessions /\ s \notin Clients /\ s \notin Admins
  BY RolesAssumption DEF Typed, Sessions
<1>2. \/ Abort(s) \/ Finish(s, "idle") \/ Goto(s, "idle") \/ Goto(s, "batchNotify")
      => pc'[s] \in {"idle", "batchNotify"}
  BY <1>1, RolesAssumption DEF Abort, Finish, Goto, TypeOK
<1>3. CASE Poll(s)
  <2>1. pc[s] = "idle" /\ ~CheckAllProjects(s)
    BY <1>3 DEF Poll, CheckAllProjects, ProcessProject, Holding
  <2>2. PICK j \in Projects : ProcessProject(s, j)
    BY <1>3, <2>1 DEF Poll
  <2>3. ~UNCHANGED <<pc, proj>>
    BY <2>1 DEF Holding
  <2>4. proj' = [proj EXCEPT ![s] = j] /\ ~(cool[j] < Window[j])
    BY <2>2, <2>3 DEF ProcessProject
  <2> QED
    BY <1>1, <2>1, <2>4 DEF TypeOK
<1>4. CASE BatchStep(s)
  <2>1. CASE FetchEntries(s)
    BY <1>2, <2>1 DEF FetchEntries, Holding
  <2>2. CASE BatchBegin(s) \/ BatchGrant(s) \/ BatchDelete(s) \/ BatchStamp(s)
    BY <2>2 DEF BatchBegin, BatchGrant, BatchDelete, BatchStamp, Holding
  <2>3. ~BatchCommit(s) /\ ~BatchNotify(s)
    BY <1>2 DEF BatchCommit, BatchNotify, Holding
  <2> QED
    BY <1>4, <2>1, <2>2, <2>3 DEF BatchStep
<1>5. ~Crash(s) /\ ~DeadlockVictim(s) /\ ~Fault(s) /\ ~CommitUnacknowledged(s)
  BY <1>2 DEF Crash, DeadlockVictim, Fault, CommitUnacknowledged, Holding
<1> QED
  BY <1>1, <1>3, <1>4, <1>5 DEF Acts

\* Only a batch starts a cooldown.
LEMMA CoolGrows ==
  ASSUME SessionInv, Next, NEW j \in Projects,
         \A s \in Schedulers : pc[s] = "batchCommit" => ~Acts(s)
  PROVE  cool[j] <= cool'[j]
<1>1. Typed /\ TypeOK /\ \A p \in Sessions : Written(p)
  BY DEF SessionInv, AccountInv, Typed
<1>2. cool[j] \in Ages /\ cool[j] <= cool[j]
  BY <1>1, BoundsAssumption DEF TypeOK, StoreTypeOK, Ages
<1>3. CASE Tick
  BY <1>2, <1>3, OlderAge DEF Tick, Clock
<1>4. ASSUME NEW p \in Sessions, Acts(p) PROVE cool[j] <= cool'[j]
  <2>1. CASE pc[p] = "batchCommit"
    BY <1>1, <1>4, <2>1 DEF Written, InRole, BatchSteps
  <2>2. CASE Commit(p) /\ pc[p] # "batchCommit"
    <3>1. tx[p].stamp = {}
      BY <1>1, <2>2 DEF Written
    <3> QED
      BY <1>2, <2>2, <3>1 DEF Commit
  <2>3. CASE cool' = cool
    BY <1>2, <2>3
  <2> QED
    BY <1>4, <2>1, <2>2, <2>3, Effects DEF RevokeAccess, DeleteByID
<1> QED
  BY <1>3, <1>4, NextActs

\* With one scheduler nobody starts a cooldown between its look at the clock and
\* its commit.
LEMMA CooledStep ==
  ASSUME Sole, SessionInv, SessionInv', Next, NEW s \in Schedulers, Cooled(s)
  PROVE  Cooled(s)'
<1> SUFFICES ASSUME pc'[s] \in {"fetch"} \cup Holding
             PROVE  cool'[proj'[s]] >= Window[proj'[s]]
  BY DEF Cooled
<1>1. Typed /\ TypeOK /\ TypeOK' /\ s \in Sessions
  BY DEF SessionInv, AccountInv, Typed, Sessions
<1>2. proj'[s] \in Projects
  BY DEF SessionInv, AccountInv, Typed, LocalsOK, Holding, BatchBusy
<1>3. pc[s] = "batchCommit" => ~Acts(s)
  BY <1>1, OnItsWay
<1>4. cool[proj'[s]] <= cool'[proj'[s]]
  BY <1>2, <1>3, CoolGrows DEF Sole
<1>5. cool[proj'[s]] >= Window[proj'[s]]
  <2>1. \A j \in Projects : cool[j] \in Nat /\ Window[j] \in Nat
    BY <1>1, ConfigAssumption, BoundsAssumption DEF TypeOK, StoreTypeOK, Ages
  <2>2. CASE Acts(s)
    BY <1>1, <1>2, <2>1, <2>2, OnItsWay DEF Cooled
  <2>3. CASE pc'[s] = pc[s] /\ proj'[s] = proj[s]
    BY <2>3 DEF Cooled
  <2>4. ASSUME NEW q \in Sessions, q # s, Acts(q) PROVE pc'[s] = pc[s] /\ proj'[s] = proj[s]
    BY <1>1, <2>4, ActsKept DEF Kept, Others
  <2> QED
    BY <2>2, <2>3, <2>4, NextActs DEF Tick
<1>6. cool[proj'[s]] \in Nat /\ cool'[proj'[s]] \in Nat /\ Window[proj'[s]] \in Nat
  BY <1>1, <1>2, ConfigAssumption, BoundsAssumption DEF TypeOK, StoreTypeOK, Ages
<1> QED
  BY <1>4, <1>5, <1>6

LEMMA BatchInit == Init => BatchInv
<1> SUFFICES ASSUME Init PROVE BatchInv
  OBVIOUS
<1>1. \A s \in Schedulers : pc[s] = "idle"
  BY DEF Init, Sessions
<1>2. Rows
  <2>1. \A a \in Accounts : ~entry[a].on
    BY DEF Init, StoreInit
  <2>2. {a \in Accounts : entry[a].on} = {}
    BY <2>1
  <2> QED
    BY <2>1, <2>2, FS_EmptySet DEF Rows
<1> QED
  BY <1>1, <1>2, SessionInit DEF BatchInv, Batched, Cooled, Holding

LEMMA BatchKept ==
  ASSUME BatchInv, UNCHANGED vars
  PROVE  BatchInv'
<1>1. SessionInv'
  BY SessionStep DEF BatchInv
<1>2. Rows' /\ \A s \in Schedulers : Batched(s)' /\ (Cooled(s) => Cooled(s)')
  BY DEF vars, BatchInv, Rows, Batched, Held, Cooled, Live
<1> QED
  BY <1>1, <1>2 DEF BatchInv, Sole

LEMMA BatchInvStep == BatchInv /\ [Next]_vars => BatchInv'
<1> SUFFICES ASSUME BatchInv, Next PROVE BatchInv'
  BY BatchKept
<1>1. SessionInv /\ SessionInv' /\ Rows /\ Rows'
  BY SessionStep, RowsStep DEF BatchInv
<1>2. \A s \in Schedulers : Batched(s)'
  BY <1>1, BatchedStep DEF BatchInv
<1>3. Sole => \A s \in Schedulers : Cooled(s)'
  BY <1>1, CooledStep DEF BatchInv
<1>4. Sole' <=> Sole
  BY DEF Sole
<1> QED
  BY <1>1, <1>2, <1>3, <1>4 DEF BatchInv

\* What a scheduler has read is true of what its commit finds, for any number of
\* schedulers, requests and faults; and with one scheduler its project is still
\* cool then.
THEOREM BatchesStayTrue == Spec => []BatchInv
BY BatchInit, BatchInvStep, PTL DEF Spec

-----------------------------------------------------------------------------
(* The commit of a batch *)

LEMMA BatchReady ==
  ASSUME BatchInv, NEW s \in Schedulers, pc[s] = "batchCommit"
  PROVE  /\ Held(s) /\ proj[s] \in Projects /\ proj[s] \notin Disabled
         /\ batch[s] \subseteq Refs
         /\ tx[s].create = {} /\ tx[s].add = {} /\ tx[s].stamp = {proj[s]}
         /\ tx[s].grant = UsersToAllow(s) /\ tx[s].by = "scheduler"
         /\ tx[s].del \subseteq batch[s]
         /\ \A r \in batch[s] : Live(r) => r \in tx[s].del
<1>1. s \in Sessions /\ Typed /\ Written(s) /\ Relies(s) /\ Batched(s)
  BY DEF BatchInv, SessionInv, AccountInv, Sessional, Sessions
<1>2. proj[s] \in Projects /\ batch[s] \subseteq Refs
  BY <1>1 DEF Typed, TypeOK, LocalsOK, BatchBusy
<1>3. tx[s].del \subseteq batch[s]
  BY <1>1 DEF Relies, SchedulerRelies
<1>4. Held(s) /\ proj[s] \notin Disabled
  BY <1>1 DEF Batched, Holding
<1>5. \A r \in batch[s] : Live(r) => r \in tx[s].del
  BY <1>4 DEF Held
<1>6. /\ tx[s].create = {} /\ tx[s].add = {} /\ tx[s].stamp = {proj[s]}
      /\ tx[s].grant = UsersToAllow(s) /\ tx[s].by = "scheduler"
  BY <1>1 DEF Written
<1> QED
  BY <1>2, <1>3, <1>4, <1>5, <1>6

LEMMA BatchCommits ==
  ASSUME BatchInv, NEW s \in Schedulers, BatchCommitted(s)
  PROVE  pc[s] = "batchCommit" /\ Commit(s) /\ s \in Sessions /\ s \notin Clients \cup Admins
<1>1. s \in Sessions /\ Written(s) /\ s \notin Clients /\ s \notin Admins
  BY RolesAssumption DEF BatchInv, SessionInv, Sessions
<1> QED
  BY <1>1
  DEF BatchCommitted, BatchCommit, CommitUnacknowledged, Written, InRole, AddSteps, GrantSteps

LEMMA AdmissionStep ==
  ASSUME BatchInv, NEW s \in Schedulers, BatchCommitted(s)
  PROVE  /\ Cardinality(Leaving) <= Batch[proj[s]]
         /\ \A a \in Leaving : /\ ProjectOf(a) = proj[s]
                               /\ proj[s] \notin Disabled
                               /\ entry[a].age >= Window[proj[s]]
<1>1. Typed /\ Rows /\ pc[s] = "batchCommit" /\ Commit(s) /\ s \in Sessions
  BY BatchCommits DEF BatchInv, SessionInv, AccountInv
<1>2. /\ Held(s) /\ proj[s] \in Projects /\ proj[s] \notin Disabled /\ tx[s].add = {}
      /\ tx[s].del \subseteq batch[s]
  BY <1>1, BatchReady
<1>3. ASSUME NEW a \in Leaving PROVE a \in Accounts /\ EntryRef(a) \in batch[s] /\ Live(EntryRef(a))
  <2>1. a \in Accounts /\ entry[a].on /\ ~entry'[a].on
    BY DEF Leaving
  <2>2. EntryRef(a) \in tx[s].del
    BY <1>1, <1>2, <2>1, CommittedRow
  <2> QED
    BY <1>2, <2>1, <2>2 DEF Live, EntryRef
<1> DEFINE R == {EntryRef(a) : a \in Leaving}
<1>4. IsFiniteSet(Leaving) /\ Leaving \in SUBSET Accounts
  <2>1. Leaving \in SUBSET {a \in Accounts : entry[a].on}
    BY DEF Leaving
  <2> QED
    BY <1>1, <2>1, FS_Subset DEF Rows
<1>5. IsFiniteSet(R) /\ Cardinality(R) = Cardinality(Leaving) /\ R \in SUBSET batch[s]
  BY <1>3, <1>4, RowsOf
<1> HIDE DEF R
<1>6. Cardinality(Leaving) <= Batch[proj[s]]
  <2>1. IsFiniteSet(batch[s]) /\ Cardinality(batch[s]) <= Batch[proj[s]]
    BY <1>2 DEF Held
  <2>2. /\ Cardinality(R) <= Cardinality(batch[s])
        /\ Cardinality(R) \in Nat /\ Cardinality(batch[s]) \in Nat /\ Batch[proj[s]] \in Nat
    BY <1>2, <1>5, <2>1, FS_Subset, FS_CardinalityType, ConfigAssumption
  <2> QED
    BY <1>5, <2>1, <2>2
<1>7. \A a \in Leaving : ProjectOf(a) = proj[s] /\ entry[a].age >= Window[proj[s]]
  BY <1>2, <1>3 DEF Held, EntryRef
<1> QED
  BY <1>2, <1>6, <1>7

\* A batch takes off the list only applicants of its own project that have waited
\* for a window, no more than the batch size, and none of a disabled project.
THEOREM OnlyTheDueAreAdmitted == Spec => Admission
<1>1. BatchInv /\ [Next]_vars =>
        [\A s \in Schedulers : BatchCommitted(s) =>
           /\ Cardinality(Leaving) <= Batch[proj[s]]
           /\ \A a \in Leaving : /\ ProjectOf(a) = proj[s]
                                 /\ proj[s] \notin Disabled
                                 /\ entry[a].age >= Window[proj[s]]]_vars
  BY AdmissionStep
<1> QED
  BY <1>1, BatchesStayTrue, PTL DEF Spec, Admission

LEMMA CooldownStep ==
  ASSUME Sole, BatchInv, NEW s \in Schedulers, BatchCommitted(s)
  PROVE  cool[proj[s]] >= Window[proj[s]] /\ cool'[proj[s]] = tx[s].age
<1>1. pc[s] = "batchCommit" /\ Commit(s)
  BY BatchCommits
<1>2. proj[s] \in Projects /\ tx[s].stamp = {proj[s]}
  BY <1>1, BatchReady
<1>3. cool[proj[s]] >= Window[proj[s]]
  BY <1>1 DEF BatchInv, Cooled, Holding
<1> QED
  BY <1>1, <1>2, <1>3 DEF Commit

\* One scheduler keeps the cooldown of every project, whatever restarts and faults.
\* (Two of them do not: run two_schedulers.)
THEOREM CooldownIsRespected ==
  ASSUME Sole
  PROVE  Spec => CooldownRespected
<1>1. BatchInv /\ [Next]_vars =>
        [\A s \in Schedulers : BatchCommitted(s) =>
           /\ cool[proj[s]] >= Window[proj[s]]
           /\ cool'[proj[s]] = tx[s].age]_vars
  BY CooldownStep
<1> QED
  BY <1>1, BatchesStayTrue, PTL DEF Spec, CooldownRespected

-----------------------------------------------------------------------------
(* The refinement: the commit of a sign-up *)

PromiseInv == BatchInv /\ (Serialized => SerialInv)

\* The rows of the list, and how many each account has had.
Listed == {EntryRef(a) : a \in {b \in Accounts : entry[b].on}}
Last   == [a \in Accounts |-> entry[a].id]

LEMMA ListedRows ==
  ASSUME NEW a \in Accounts
  PROVE  {r \in Listed : r.acct = a} = IF entry[a].on THEN {EntryRef(a)} ELSE {}
BY DEF Listed, EntryRef

LEMMA PromiseInvTyped ==
  ASSUME PromiseInv
  PROVE  /\ Typed /\ TypeOK /\ StoreTypeOK
         /\ \A p \in Sessions : Written(p) /\ Fits(p) /\ Relies(p)
         /\ \A p \in Sessions : Serialized /\ tx[p].open => Owns(p)
BY DEF PromiseInv, BatchInv, SessionInv, AccountInv, Sessional, SerialInv, Typed, TypeOK

LEMMA EnlistMaps ==
  ASSUME PromiseInv, NEW c \in Clients, pc[c] = "addCommit", Commit(c)
  PROVE  \E a \in Accounts : Promise!Enlist(a)
<1>1. /\ c \in Sessions /\ c \notin Admins /\ c \notin Schedulers
      /\ Typed /\ TypeOK /\ StoreTypeOK /\ Written(c) /\ Fits(c) /\ Relies(c)
  BY RolesAssumption, PromiseInvTyped DEF Sessions
<1>2. PICK a \in Accounts : a = acct[c]
  BY <1>1 DEF Typed, LocalsOK, ClientBusy
<1>3. /\ tx[c].create \subseteq {a} /\ tx[c].add = {a} /\ tx[c].grant = {} /\ tx[c].stamp = {}
      /\ tx[c].del = {} /\ tx[c].open
  BY <1>1, <1>2 DEF Written, Relies, ClientRelies, TxSteps, AddSteps, BatchSteps
<1>4. /\ ~entry[a].on
      /\ user[a].known <=> a \notin tx[c].create
  BY <1>1, <1>3 DEF Fits
<1>5. Serialized => ~user[a].access
  BY <1>1, <1>2, <1>3, PromiseInvTyped DEF Owns
<1>6. user' = [user EXCEPT ![a] = IF user[a].known THEN @ ELSE Signed]
  BY <1>1, <1>2, <1>3, <1>4 DEF Commit, CommittedUser, StoreTypeOK
<1>7. cool' = cool
  BY <1>1, <1>3 DEF Commit, StoreTypeOK
<1>8. \A b \in Accounts :
        /\ entry'[b].on <=> entry[b].on \/ b = a
        /\ entry'[b].id = IF b = a THEN entry[a].id + 1 ELSE entry[b].id
  BY <1>1, <1>3, CommittedRow
<1>9. Last' = [Last EXCEPT ![a] = @ + 1]
  BY <1>2, <1>8 DEF Last
<1>10. Listed' = Listed \cup {[acct |-> a, id |-> Last[a] + 1]}
  <2>1. EntryRef(a)' = [acct |-> a, id |-> Last[a] + 1]
    BY <1>2, <1>8 DEF EntryRef, Last
  <2>2. \A b \in Accounts : entry[b].on => EntryRef(b)' = EntryRef(b)
    BY <1>4, <1>8 DEF EntryRef
  <2>3. Listed' = {EntryRef(b)' : b \in {b \in Accounts : entry[b].on \/ b = a}}
    BY <1>8 DEF Listed
  <2> QED
    BY <1>2, <2>1, <2>2, <2>3 DEF Listed
<1>11. {r \in Listed : r.acct = a} = {}
  BY <1>2, <1>4, ListedRows
<1> QED
  BY <1>2, <1>5, <1>6, <1>7, <1>9, <1>10, <1>11
  DEF Promise!Enlist, Promise!OnList, Promise!Signed, Promise!Unknown, Signed, Unknown,
      Listed, Last

-----------------------------------------------------------------------------
(* The refinement: the commit of a grant *)

\* The list when rows have gone and none has come.
LEMMA RowsGone ==
  ASSUME NEW gone,
         \A a \in Accounts : /\ entry'[a].on <=> entry[a].on /\ EntryRef(a) \notin gone
                             /\ entry'[a].id = entry[a].id
  PROVE  Listed' = Listed \ gone /\ Last' = Last
<1>1. \A a \in Accounts : EntryRef(a)' = EntryRef(a)
  BY DEF EntryRef
<1>2. Listed' = {EntryRef(a) : a \in {b \in Accounts : entry[b].on /\ EntryRef(b) \notin gone}}
  BY <1>1 DEF Listed
<1> QED
  BY <1>2 DEF Listed, Last

LEMMA AdminGrantMaps ==
  ASSUME PromiseInv, NEW d \in Admins, pc[d] = "grantCommit", Commit(d)
  PROVE  \E a \in Accounts : Promise!AdminGrant(a)
<1>1. /\ d \in Sessions /\ d \notin Clients /\ d \notin Schedulers
      /\ Typed /\ TypeOK /\ StoreTypeOK /\ Written(d) /\ Fits(d) /\ Relies(d)
  BY RolesAssumption, PromiseInvTyped DEF Sessions
<1>2. PICK a \in Accounts : a = acct[d]
  BY <1>1 DEF Typed, LocalsOK
<1>3. /\ tx[d].create = {} /\ tx[d].add = {} /\ tx[d].grant = {a} /\ tx[d].by = "admin"
      /\ tx[d].stamp = {} /\ tx[d].open
  BY <1>1, <1>2 DEF Written, TxSteps, GrantSteps
<1>4. user[a].known /\ \A r \in tx[d].del : r.acct = a
  BY <1>1, <1>2, <1>3 DEF Fits, Relies, AdminRelies
<1>5. Serialized /\ entry[a].on => EntryRef(a) \in tx[d].del
  BY <1>1, <1>2, <1>3, PromiseInvTyped, NamesAssumption DEF Owns
<1>6. user' = [user EXCEPT ![a] =
                 [user[a] EXCEPT !.access = TRUE, !.by = "admin", !.revoked = FALSE]]
  BY <1>1, <1>2, <1>3 DEF Commit, CommittedUser, StoreTypeOK
<1>7. cool' = cool
  BY <1>1, <1>3 DEF Commit, StoreTypeOK
<1>8. Listed' = Listed \ tx[d].del /\ Last' = Last
  <2>1. \A b \in Accounts : /\ entry'[b].on <=> entry[b].on /\ EntryRef(b) \notin tx[d].del
                            /\ entry'[b].id = entry[b].id
    BY <1>1, <1>3, CommittedRow
  <2> QED
    BY <2>1, RowsGone
<1>9. \/ Listed' = Listed \ {r \in Listed : r.acct = a}
      \/ ~Serialized /\ Listed' = Listed
  <2>1. \A r \in Listed : r \in tx[d].del => r.acct = a
    BY <1>4
  <2>2. {r \in Listed : r.acct = a} = IF entry[a].on THEN {EntryRef(a)} ELSE {}
    BY ListedRows
  <2>3. CASE entry[a].on /\ EntryRef(a) \in tx[d].del
    BY <1>8, <2>1, <2>2, <2>3
  <2>4. CASE ~entry[a].on
    BY <1>8, <2>1, <2>2, <2>4
  <2>5. CASE entry[a].on /\ EntryRef(a) \notin tx[d].del
    BY <1>5, <1>8, <2>1, <2>2, <2>5
  <2> QED
    BY <2>3, <2>4, <2>5
<1> QED
  BY <1>2, <1>4, <1>6, <1>7, <1>8, <1>9
  DEF Promise!AdminGrant, Promise!OnList, Promise!Granted, Listed, Last

-----------------------------------------------------------------------------
(* The refinement: the commit of a batch *)

LEMMA PromoteMaps ==
  ASSUME PromiseInv, NEW s \in Schedulers, pc[s] = "batchCommit", Commit(s)
  PROVE  \E j \in Projects, B \in SUBSET Promise!RowsEver : Promise!Promote(j, B)
<1>1. s \in Sessions /\ Typed /\ TypeOK /\ StoreTypeOK
  BY PromiseInvTyped DEF Sessions
<1>2. BatchInv /\ (Sole => Cooled(s))
  BY DEF PromiseInv, BatchInv
<1>3. PICK j \in Projects : j = proj[s]
  BY <1>2, BatchReady
<1>4. PICK B : B = batch[s]
  OBVIOUS
<1>5. /\ j \notin Disabled /\ B \subseteq Refs /\ B # {} /\ Cardinality(B) <= Batch[j]
      /\ \A r \in B : r.acct[1] = j /\ r.id \in 1 .. entry[r.acct].id
      /\ \A r \in B : Live(r) => r \in tx[s].del
      /\ tx[s].create = {} /\ tx[s].add = {} /\ tx[s].stamp = {j} /\ tx[s].by = "scheduler"
      /\ tx[s].grant = {r.acct : r \in B} /\ tx[s].del \subseteq B
  BY <1>2, <1>3, <1>4, BatchReady DEF Held, UsersToAllow, ProjectOf
<1>6. Sole => cool[j] >= Window[j]
  BY <1>2, <1>3 DEF Cooled, Holding
<1>7. user' = [a \in Accounts |->
                 IF \E r \in B : r.acct = a
                 THEN [user[a] EXCEPT !.access = TRUE, !.by = "scheduler", !.revoked = FALSE]
                 ELSE user[a]]
  <2>1. \A a \in Accounts :
          CommittedUser(s, a) =
            IF \E r \in B : r.acct = a
            THEN [user[a] EXCEPT !.access = TRUE, !.by = "scheduler", !.revoked = FALSE]
            ELSE user[a]
    BY <1>5 DEF CommittedUser
  <2> QED
    BY <2>1 DEF Commit
<1>8. tx[s].age \in 0 .. AgeCap /\ cool' = [cool EXCEPT ![j] = tx[s].age]
  BY <1>1, <1>5 DEF StoreTypeOK, Transactions, Ages, Commit
<1>9. Listed' = Listed \ B /\ Last' = Last
  <2>1. ASSUME NEW a \in Accounts
        PROVE  /\ entry'[a].on <=> entry[a].on /\ EntryRef(a) \notin B
               /\ entry'[a].id = entry[a].id
    <3>1. /\ entry'[a].on <=> entry[a].on /\ EntryRef(a) \notin tx[s].del
          /\ entry'[a].id = entry[a].id
      BY <1>1, <1>5, CommittedRow
    <3>2. entry[a].on => Live(EntryRef(a))
      BY DEF Live, EntryRef
    <3> QED
      BY <1>5, <3>1, <3>2
  <2> QED
    BY <2>1, RowsGone
<1>10. B \in SUBSET Promise!RowsEver
  <2>1. ASSUME NEW r \in B PROVE r \in Promise!RowsEver
    <3>1. r.acct \in Projects \X Emails /\ r.id \in 1 .. Last[r.acct]
      BY <1>5 DEF Refs, Last, Accounts
    <3>2. r = [acct |-> r.acct, id |-> r.id]
      BY <1>5 DEF Refs
    <3> QED
      BY <3>1, <3>2 DEF Promise!RowsEver, Promise!Accounts, Last
  <2> QED
    BY <2>1
<1>11. Promise!Cardinality(B) = Cardinality(B)
  BY DEF Promise!Cardinality, Cardinality
<1>12. Promise!Promote(j, B)
  BY <1>5, <1>6, <1>7, <1>8, <1>9, <1>11
  DEF Promise!Promote, Promise!Granted, Promise!Accounts, Accounts, Listed, Last, Sole
<1> QED
  BY <1>10, <1>12

-----------------------------------------------------------------------------
(* The refinement: statements on their own, time, and the rest *)

LEMMA RevokeMaps ==
  ASSUME NEW a \in Accounts, RevokeAccess(a)
  PROVE  Promise!Revoke(a)
<1>1. Listed' = Listed /\ Last' = Last
  BY DEF RevokeAccess, Listed, Last, EntryRef
<1> QED
  BY <1>1 DEF RevokeAccess, Promise!Revoke, Listed, Last

LEMMA RemoveMaps ==
  ASSUME Typed, NEW a \in Accounts, DeleteByID(EntryRef(a))
  PROVE  \E r \in Listed : Promise!Remove(r)
<1>1. PICK r : r = EntryRef(a)
  OBVIOUS
<1>2. r \in Listed
  BY <1>1 DEF DeleteByID, Live, EntryRef, Listed
<1>3. \A b \in Accounts : /\ entry'[b].on <=> entry[b].on /\ EntryRef(b) \notin {r}
                          /\ entry'[b].id = entry[b].id
  BY <1>1, RemovedRow DEF EntryRef
<1>4. Listed' = Listed \ {r} /\ Last' = Last
  BY <1>3, RowsGone
<1>5. user' = user /\ cool' = cool
  BY DEF DeleteByID
<1> QED
  BY <1>2, <1>4, <1>5 DEF Promise!Remove, Listed, Last

LEMMA TickMaps ==
  ASSUME Typed, Tick
  PROVE  Promise!Tick
<1>1. Clock
  BY DEF Tick
<1>2. \A a \in Accounts : (entry'[a].on <=> entry[a].on) /\ entry'[a].id = entry[a].id
  BY <1>1, AgedRow
<1>3. Listed' = Listed /\ Last' = Last
  <2>1. \A a \in Accounts : EntryRef(a)' = EntryRef(a)
    BY <1>2 DEF EntryRef
  <2> QED
    BY <1>2, <2>1 DEF Listed, Last
<1>4. /\ user' = user
      /\ cool' = [j \in Projects |-> IF cool[j] < AgeCap THEN cool[j] + 1 ELSE AgeCap]
  BY <1>1 DEF Clock, Older
<1> QED
  BY <1>3, <1>4 DEF Promise!Tick, Listed, Last

LEMMA QuietMaps ==
  ASSUME UNCHANGED <<user, entry, cool>>
  PROVE  UNCHANGED Promise!memberVars
<1>1. Listed' = Listed /\ Last' = Last
  BY DEF Listed, Last, EntryRef
<1> QED
  BY <1>1 DEF Promise!memberVars, Listed, Last

LEMMA PromiseInit == Init => PromiseInv /\ Promise!Init
<1> SUFFICES ASSUME Init PROVE PromiseInv /\ Promise!Init
  OBVIOUS
<1>1. PromiseInv
  BY BatchInit, SerialInit DEF PromiseInv
<1>2. Listed = {} /\ Last = [a \in Accounts |-> 0]
  BY DEF Init, StoreInit, Listed, Last
<1>3. Promise!Init
  BY <1>2
  DEF Init, StoreInit, Promise!Init, Promise!Accounts, Accounts, Promise!Unknown, Unknown,
      Listed, Last
<1> QED
  BY <1>1, <1>3

LEMMA PromiseInvStep == PromiseInv /\ [Next]_vars => PromiseInv'
BY BatchInvStep, SerialStep DEF PromiseInv

\* Every step is one of the promised ones, or changes nothing that is promised.
LEMMA StepMaps ==
  ASSUME PromiseInv, [Next]_vars
  PROVE  [Promise!Next]_Promise!memberVars
<1>1. Typed /\ \A p \in Sessions : Written(p)
  BY PromiseInvTyped
<1>2. Promise!Accounts = Accounts
  BY DEF Promise!Accounts, Accounts
<1>3. CASE UNCHANGED vars
  BY <1>3, QuietMaps DEF vars
<1>4. CASE Tick
  BY <1>1, <1>4, TickMaps DEF Promise!Next
<1>5. ASSUME NEW p \in Sessions, Acts(p) PROVE [Promise!Next]_Promise!memberVars
  <2>1. CASE UNCHANGED <<user, entry, cool>>
    BY <2>1, QuietMaps
  <2>2. CASE pc[p] \in CommitSteps /\ Commit(p)
    <3>1. CASE pc[p] = "addCommit"
      <4>1. p \in Clients
        BY <1>1, <3>1 DEF Written, InRole, AddSteps
      <4> QED
        BY <1>2, <2>2, <3>1, <4>1, EnlistMaps DEF Promise!Next
    <3>2. CASE pc[p] = "grantCommit"
      <4>1. p \in Admins
        BY <1>1, <3>2 DEF Written, InRole, GrantSteps
      <4> QED
        BY <1>2, <2>2, <3>2, <4>1, AdminGrantMaps DEF Promise!Next
    <3>3. CASE pc[p] = "batchCommit"
      <4>1. p \in Schedulers
        BY <1>1, <3>3 DEF Written, InRole, BatchSteps
      <4> QED
        BY <2>2, <3>3, <4>1, PromoteMaps DEF Promise!Next
    <3> QED
      BY <2>2, <3>1, <3>2, <3>3 DEF CommitSteps
  <2>3. CASE \E a \in Accounts : RevokeAccess(a)
    BY <1>2, <2>3, RevokeMaps DEF Promise!Next
  <2>4. CASE \E a \in Accounts : DeleteByID(EntryRef(a))
    BY <1>1, <2>4, RemoveMaps DEF Promise!Next, Listed
  <2> QED
    BY <1>5, <2>1, <2>2, <2>3, <2>4, Effects
<1> QED
  BY <1>3, <1>4, <1>5, NextActs

\* The service keeps its promise: requests, batches and faults that overlap, on one
\* database or the other, with any number of each, do to the accounts what the
\* indivisible steps of module Membership do.
THEOREM PromiseIsKept == Spec => KeepsPromise
<1>1. PromiseInv /\ [Next]_vars => [Promise!Next]_Promise!memberVars
  BY StepMaps
<1> QED
  BY <1>1, PromiseInit, PromiseInvStep, PTL DEF Spec, KeepsPromise, Promise!Spec

-----------------------------------------------------------------------------
(* The queue, on SQLite *)

\* A batch has been read while no transaction was open: whoever is on the list
\* beside its rows, or on the way to it, has not waited longer than they have.
Ahead(s) ==
  pc[s] \in Holding =>
    \A r \in batch[s] : Live(r) =>
      /\ \A b \in OnList(proj[s]) :
           EntryRef(b) \notin batch[s] => entry[b].age <= entry[r.acct].age
      /\ \A c \in Clients : pc[c] = "addCommit" => tx[c].age <= entry[r.acct].age

QueueInv == SerialInv /\ BatchInv /\ \A s \in Schedulers : Ahead(s)

LEMMA OlderMonotone ==
  ASSUME NEW m \in Ages, NEW n \in Ages, m <= n
  PROVE  Older(m) <= Older(n)
BY BoundsAssumption DEF Ages, Older

\* The rows of a step that is not the clock's: those there were, and the row of a
\* sign-up that commits.
LEMMA RowsBeside ==
  ASSUME SessionInv, NEW p \in Sessions, Acts(p), NEW a \in Accounts, entry'[a].on
  PROVE  \/ entry[a].on /\ entry'[a].id = entry[a].id /\ entry'[a].age = entry[a].age
         \/ \E c \in Clients : /\ pc[c] = "addCommit" /\ entry'[a].id = entry[a].id + 1
                               /\ entry'[a].age = tx[c].age
<1>1. Typed /\ Written(p)
  BY DEF SessionInv, AccountInv
<1>2. CASE entry' = entry
  BY <1>2
<1>3. CASE Commit(p)
  <2>1. CASE a \in tx[p].add
    <3>1. pc[p] = "addCommit" /\ p \in Clients
      BY <1>1, <2>1 DEF Written, InRole, AddSteps
    <3> QED
      BY <1>1, <1>3, <2>1, <3>1, CommittedRow
  <2> QED
    BY <1>1, <1>3, <2>1, CommittedRow
<1>4. CASE \E b \in Accounts : DeleteByID(EntryRef(b))
  BY <1>1, <1>4, RemovedRow
<1> QED
  BY <1>2, <1>3, <1>4, Effects DEF RevokeAccess

\* The sign-ups that are about to commit: those there were, and one whose row is new.
LEMMA AddsBeside ==
  ASSUME Serialized, SessionInv, NEW p \in Sessions, Acts(p), NEW c \in Clients,
         pc'[c] = "addCommit"
  PROVE  \/ pc[c] = "addCommit" /\ tx'[c].age = tx[c].age
         \/ tx'[c].age = 0
<1>1. Typed /\ TypeOK /\ StoreTypeOK /\ c \in Sessions /\ c \notin Admins /\ c \notin Schedulers
  BY RolesAssumption DEF SessionInv, AccountInv, Typed, TypeOK, Sessions
<1>2. CASE p # c
  BY <1>1, <1>2, ActsKept DEF Kept, Others
<1>3. CASE p = c
  <2>1. Abort(c) => pc'[c] = "ServerError"
    BY <1>1 DEF Abort, Finish, Goto, TypeOK
  <2>2. AddInsert(c)
    BY <1>1, <1>3, <2>1
    DEF Acts, AddStep, AddLookup, AddCreate, AddCommit, DeadlockVictim, Fault,
        CommitUnacknowledged, Finish, Goto, TypeOK
  <2>3. ~Finish(c, "Conflict")
    BY <1>1 DEF Finish, Goto, TypeOK
  <2>4. tx' = [tx EXCEPT ![c].add = {acct[c]}, ![c].age = 0]
    BY <2>2, <2>3 DEF AddInsert, Add, NowAge
  <2> QED
    BY <1>1, <2>4 DEF StoreTypeOK, Transactions
<1> QED
  BY <1>2, <1>3

LEMMA AheadActs ==
  ASSUME Serialized, SessionInv, SessionInv', Rows, Next, NEW p \in Sessions, Acts(p),
         NEW s \in Schedulers, Held(s), Ahead(s), pc[s] \in Holding,
         batch'[s] = batch[s], proj'[s] = proj[s]
  PROVE  Ahead(s)'
<1>1. Typed /\ Typed' /\ RowsAge /\ batch[s] \subseteq Refs
  BY RowsStep DEF SessionInv, AccountInv, Typed, TypeOK
<1> SUFFICES ASSUME NEW r \in batch[s], Live(r)'
             PROVE  /\ \A b \in Accounts :
                         /\ ProjectOf(b) = proj[s] /\ entry'[b].on
                         /\ EntryRef(b)' \notin batch[s]
                         => entry'[b].age <= entry'[r.acct].age
                    /\ \A c \in Clients :
                         pc'[c] = "addCommit" => tx'[c].age <= entry'[r.acct].age
  BY DEF Ahead, OnList
<1>2. /\ r \in Refs /\ r.acct \in Accounts /\ Live(r)
  BY <1>1, LiveBefore DEF Held, Refs
<1>3. entry[r.acct].id = r.id /\ entry'[r.acct].id = r.id /\ r.id \in Nat /\ entry'[r.acct].on
  BY <1>2 DEF Live, Refs, Ids
<1>4. entry'[r.acct].age = entry[r.acct].age /\ entry[r.acct].age \in Nat
  <2>1. entry'[r.acct].age = entry[r.acct].age
    BY <1>2, <1>3, RowsBeside
  <2> QED
    BY <1>1, <1>2, <2>1, BoundsAssumption DEF Typed, TypeOK, StoreTypeOK, Entries, Ages
<1>5. /\ \A b \in Accounts :
           ProjectOf(b) = proj[s] /\ entry[b].on /\ EntryRef(b) \notin batch[s] =>
             entry[b].age <= entry[r.acct].age
      /\ \A c \in Clients : pc[c] = "addCommit" => tx[c].age <= entry[r.acct].age
  BY <1>2 DEF Ahead, OnList
<1>6. ASSUME NEW b \in Accounts, ProjectOf(b) = proj[s], entry'[b].on,
             EntryRef(b)' \notin batch[s]
      PROVE  entry'[b].age <= entry'[r.acct].age
  <2>1. CASE entry[b].on /\ entry'[b].id = entry[b].id /\ entry'[b].age = entry[b].age
    <3>1. EntryRef(b)' = EntryRef(b)
      BY <2>1 DEF EntryRef
    <3> QED
      BY <1>4, <1>5, <1>6, <2>1, <3>1
  <2>2. CASE \E c \in Clients : pc[c] = "addCommit" /\ entry'[b].age = tx[c].age
    BY <1>4, <1>5, <2>2
  <2> QED
    BY <1>6, <2>1, <2>2, RowsBeside
<1>7. ASSUME NEW c \in Clients, pc'[c] = "addCommit" PROVE tx'[c].age <= entry'[r.acct].age
  BY <1>4, <1>5, <1>7, AddsBeside
<1> QED
  BY <1>6, <1>7

LEMMA AheadTick ==
  ASSUME SessionInv, NEW s \in Schedulers, Ahead(s), Held(s), Tick
  PROVE  Ahead(s)'
<1>1. /\ Typed /\ TypeOK /\ StoreTypeOK /\ batch[s] \subseteq Refs /\ Clock
      /\ \A p \in Sessions : Written(p)
  BY DEF SessionInv, AccountInv, Typed, TypeOK, Tick
<1>2. pc' = pc /\ batch' = batch /\ proj' = proj
  BY DEF Tick
<1>3. \A a \in Accounts : /\ entry'[a].on <=> entry[a].on
                          /\ EntryRef(a)' = EntryRef(a)
                          /\ entry[a].on => entry'[a].age = Older(entry[a].age)
                          /\ entry[a].age \in Ages
  BY <1>1, AgedRow DEF EntryRef, StoreTypeOK, Entries
<1>4. \A c \in Clients : pc[c] = "addCommit" =>
        tx'[c].age = Older(tx[c].age) /\ tx[c].age \in Ages
  <2>1. ASSUME NEW c \in Clients, pc[c] = "addCommit"
        PROVE  tx'[c].age = Older(tx[c].age) /\ tx[c].age \in Ages
    <3>1. c \in Sessions /\ tx[c].open /\ tx[c] \in Transactions
      BY <1>1, <2>1 DEF Sessions, Written, TxSteps, AddSteps, StoreTypeOK
    <3>2. tx'[c] = [tx[c] EXCEPT !.age = Older(tx[c].age)]
      BY <1>1, <3>1 DEF Clock
    <3> QED
      BY <3>1, <3>2 DEF Transactions
  <2> QED
    BY <2>1
<1> SUFFICES ASSUME NEW r \in batch[s], Live(r)', pc[s] \in Holding
             PROVE  /\ \A b \in Accounts :
                         /\ ProjectOf(b) = proj[s] /\ entry'[b].on
                         /\ EntryRef(b)' \notin batch[s]
                         => entry'[b].age <= entry'[r.acct].age
                    /\ \A c \in Clients :
                         pc[c] = "addCommit" => tx'[c].age <= entry'[r.acct].age
  BY <1>2 DEF Ahead, OnList
<1>5. /\ r.acct \in Accounts /\ entry[r.acct].on /\ Live(r)
  <2>1. r.acct \in Accounts /\ entry'[r.acct].on /\ entry'[r.acct].id = r.id
    BY <1>1 DEF Refs, Live
  <2> QED
    BY <1>1, <2>1, AgedRow DEF Live
<1>6. /\ \A b \in Accounts :
           ProjectOf(b) = proj[s] /\ entry[b].on /\ EntryRef(b) \notin batch[s] =>
             entry[b].age <= entry[r.acct].age
      /\ \A c \in Clients : pc[c] = "addCommit" => tx[c].age <= entry[r.acct].age
  BY <1>5 DEF Ahead, OnList
<1> QED
  BY <1>3, <1>4, <1>5, <1>6, OlderMonotone

\* The oldest rows, read while no sign-up is about to commit.
LEMMA AheadFetched ==
  ASSUME Serialized, SessionInv, NEW s \in Schedulers, FetchEntries(s)
  PROVE  Ahead(s)'
<1>1. /\ Typed /\ TypeOK /\ s \in Sessions /\ entry' = entry /\ pc[s] = "fetch"
      /\ proj[s] \in Projects /\ \A p \in Sessions : Written(p) /\ ~tx[p].open
  BY DEF SessionInv, AccountInv, Typed, LocalsOK, BatchBusy, FetchEntries, ConnectionFree, Sessions
<1>2. PICK page \in OldestFirst(proj[s], Batch[proj[s]]) :
        LET ready == {a \in page : entry[a].age >= Window[proj[s]]} IN
        IF ready = {}
        THEN Finish(s, "idle")
        ELSE /\ batch' = [batch EXCEPT ![s] = {EntryRef(a) : a \in ready}]
             /\ Goto(s, "begin")
             /\ UNCHANGED <<acct, round, proj>>
  BY DEF FetchEntries
<1> DEFINE ready == {a \in page : entry[a].age >= Window[proj[s]]}
<1>3. CASE ready = {}
  BY <1>1, <1>2, <1>3 DEF Finish, Goto, TypeOK, Ahead, Holding
<1>4. CASE ready # {}
  <2>1. /\ batch'[s] = {EntryRef(a) : a \in ready} /\ proj' = proj
        /\ \A q \in Sessions : pc'[q] = IF q = s THEN "begin" ELSE pc[q]
    BY <1>1, <1>2, <1>4 DEF Goto, TypeOK
  <2>2. \A c \in Clients : pc'[c] # "addCommit"
    BY <1>1, <2>1 DEF Written, TxSteps, AddSteps, Sessions
  <2>3. ASSUME NEW a \in ready, NEW b \in OnList(proj[s]), EntryRef(b) \notin batch'[s]
        PROVE  entry[b].age <= entry[a].age
    <3>1. b \notin ready /\ a \in page /\ page \subseteq OnList(proj[s])
      BY <2>1, <2>3 DEF OldestFirst
    <3>2. b \notin page => entry[a].age >= entry[b].age
      BY <2>3, <3>1 DEF OldestFirst
    <3>3. a \in Accounts /\ b \in Accounts
      BY <2>3, <3>1 DEF OnList
    <3>4. entry[a].age \in Nat /\ entry[b].age \in Nat /\ Window[proj[s]] \in Nat
      BY <1>1, <3>3, ConfigAssumption, BoundsAssumption
      DEF TypeOK, StoreTypeOK, Entries, Ages
    <3> QED
      BY <3>1, <3>2, <3>4
  <2>4. OnList(proj[s])' = OnList(proj[s]) /\ \A b \in Accounts : EntryRef(b)' = EntryRef(b)
    BY <1>1, <2>1 DEF OnList, EntryRef
  <2> HIDE DEF ready
  <2>5. ASSUME NEW r \in batch'[s]
        PROVE  \A b \in OnList(proj[s]) :
                 EntryRef(b) \notin batch'[s] => entry[b].age <= entry[r.acct].age
    <3>1. PICK a \in ready : r = EntryRef(a)
      BY <2>1
    <3>2. r.acct = a
      BY <3>1 DEF EntryRef
    <3> QED
      BY <2>3, <3>2
  <2>6. \A b \in OnList(proj[s]) : b \in Accounts
    BY DEF OnList
  <2> QED
    BY <1>1, <2>1, <2>2, <2>4, <2>5, <2>6 DEF Ahead
<1> QED
  BY <1>3, <1>4

\* The statements of a scheduler that holds a batch.
LEMMA HoldingKept ==
  ASSUME Typed, NEW s \in Schedulers, Acts(s), pc'[s] \in Holding, ~FetchEntries(s)
  PROVE  pc[s] \in Holding /\ batch'[s] = batch[s] /\ proj'[s] = proj[s]
<1>1. TypeOK /\ s \in Sessions /\ s \notin Clients /\ s \notin Admins
  BY RolesAssumption DEF Typed, Sessions
<1>2. \/ Abort(s) \/ Finish(s, "idle") \/ Goto(s, "idle") \/ Goto(s, "fetch")
      \/ Goto(s, "batchNotify")
      => pc'[s] \in {"idle", "fetch", "batchNotify"}
  BY <1>1 DEF Abort, Finish, Goto, TypeOK
<1>3. ~Poll(s)
  <2>1. CASE UNCHANGED pc
    BY <2>1 DEF Poll, CheckAllProjects, ProcessProject, Holding
  <2>2. CASE Goto(s, "fetch")
    BY <1>2, <2>2 DEF Holding
  <2> QED
    BY <2>1, <2>2 DEF Poll, CheckAllProjects, ProcessProject
<1>4. ~BatchCommit(s) /\ ~BatchNotify(s)
  BY <1>2 DEF BatchCommit, BatchNotify, Holding
<1>5. ~Crash(s) /\ ~DeadlockVictim(s) /\ ~Fault(s) /\ ~CommitUnacknowledged(s)
  BY <1>2 DEF Crash, DeadlockVictim, Fault, CommitUnacknowledged, Holding
<1>6. BatchBegin(s) \/ BatchGrant(s) \/ BatchDelete(s) \/ BatchStamp(s)
  BY <1>1, <1>3, <1>4, <1>5 DEF Acts, BatchStep
<1> QED
  BY <1>6 DEF BatchBegin, BatchGrant, BatchDelete, BatchStamp, Holding

LEMMA AheadStep ==
  ASSUME Serialized, QueueInv, [Next]_vars, NEW s \in Schedulers
  PROVE  Ahead(s)'
<1>1. SessionInv /\ SessionInv' /\ Typed /\ Rows /\ Ahead(s) /\ Batched(s) /\ s \in Sessions
  BY SessionStep DEF QueueInv, BatchInv, SessionInv, AccountInv, Sessions
<1>2. CASE UNCHANGED vars
  BY <1>1, <1>2 DEF vars, Ahead, Live, OnList, EntryRef
<1> SUFFICES ASSUME Next, pc'[s] \in Holding PROVE Ahead(s)'
  BY <1>2 DEF Ahead
<1>3. pc[s] \in Holding => Held(s)
  BY <1>1 DEF Batched
<1>4. CASE Tick
  BY <1>1, <1>3, <1>4, AheadTick DEF Tick
<1>5. CASE Acts(s)
  <2>1. CASE FetchEntries(s)
    BY <1>1, <2>1, AheadFetched
  <2>2. CASE ~FetchEntries(s)
    BY <1>1, <1>3, <1>5, <2>2, HoldingKept, AheadActs
  <2> QED
    BY <2>1, <2>2
<1>6. ASSUME NEW p \in Sessions, p # s, Acts(p) PROVE Ahead(s)'
  <2>1. pc'[s] = pc[s] /\ batch'[s] = batch[s] /\ proj'[s] = proj[s]
    BY <1>1, <1>6, ActsKept DEF Kept, Others
  <2> QED
    BY <1>1, <1>3, <1>6, <2>1, AheadActs
<1> QED
  BY <1>4, <1>5, <1>6, NextActs

LEMMA QueueInit == Init => QueueInv
<1> SUFFICES ASSUME Init PROVE QueueInv
  OBVIOUS
<1>1. \A s \in Schedulers : pc[s] = "idle"
  BY DEF Init, Sessions
<1> QED
  BY <1>1, BatchInit, SerialInit DEF QueueInv, Ahead, Holding

LEMMA NoOvertakingStep ==
  ASSUME QueueInv, NEW s \in Schedulers, BatchCommitted(s),
         NEW a \in Leaving, NEW b \in OnList(proj[s]) \ Leaving
  PROVE  entry[b].age <= entry[a].age
<1>1. /\ BatchInv /\ Typed /\ Ahead(s) /\ pc[s] = "batchCommit" /\ Commit(s) /\ s \in Sessions
      /\ a \in Accounts /\ b \in Accounts
      /\ entry[a].on /\ ~entry'[a].on /\ entry[b].on /\ entry'[b].on
  BY BatchCommits DEF QueueInv, BatchInv, SessionInv, AccountInv, Leaving, OnList
<1>2. tx[s].add = {} /\ tx[s].del \subseteq batch[s] /\ \A r \in batch[s] : Live(r) => r \in tx[s].del
  BY <1>1, BatchReady
<1>3. EntryRef(a) \in batch[s] /\ Live(EntryRef(a)) /\ EntryRef(a).acct = a
  BY <1>1, <1>2, CommittedRow DEF Live, EntryRef
<1>4. EntryRef(b) \notin batch[s]
  BY <1>1, <1>2, CommittedRow DEF Live, EntryRef
<1> QED
  BY <1>1, <1>3, <1>4 DEF Ahead, Holding

\* On SQLite the list is a queue: whatever joins and leaves it while a batch is on
\* its way, the batch leaves nobody behind who has waited longer than somebody it
\* takes.
THEOREM NobodyIsOvertaken ==
  ASSUME Serialized
  PROVE  Spec => NoOvertaking
<1>1. QueueInv /\ [Next]_vars => QueueInv'
  BY SerialStep, BatchInvStep, AheadStep DEF QueueInv
<1>2. QueueInv /\ [Next]_vars =>
        [\A s \in Schedulers : BatchCommitted(s) =>
           \A a \in Leaving, b \in OnList(proj[s]) \ Leaving :
             entry[b].age <= entry[a].age]_vars
  BY NoOvertakingStep
<1> QED
  BY <1>1, <1>2, QueueInit, PTL DEF Spec, NoOvertaking
=============================================================================
