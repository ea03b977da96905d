--------------------------- MODULE WaitlistProofs ---------------------------
(* Theorems about module Waitlist, for every value of its constants. *)
EXTENDS Waitlist, TLAPS

ClientBusy == {"create", "insert", "addCommit"}
BatchBusy == {"fetch", "begin", "grant", "delete", "stamp", "batchCommit", "batchNotify"}

\* A session has the locals its next statement needs.
LocalsOK ==
  /\ \A c \in Clients : pc[c] \in ClientBusy => acct[c] \in Accounts
  /\ \A d \in Admins : pc[d] \in {"grantCommit", "grantNotify"} => acct[d] \in Accounts
  /\ \A s \in Schedulers : pc[s] \in BatchBusy => proj[s] \in Projects

Typed == TypeOK /\ LocalsOK

\* Ending a session keeps the locals in order: its own are reset, those of the
\* others stay.
LEMMA FinishTyped ==
  ASSUME Typed, NEW p \in Sessions, NEW step \in Waiting, Finish(p, step)
  PROVE  /\ acct' \in [Clients \cup Admins -> Accounts \cup {NoAccount}]
         /\ proj' \in [Schedulers -> Projects \cup {NoProject}]
         /\ batch' \in [Schedulers -> SUBSET Refs]
         /\ round' = round
         /\ pc' \in [Sessions -> Steps]
         /\ pc' = [pc EXCEPT ![p] = step]
         /\ \A q \in Clients \cup Admins : q # p => acct'[q] = acct[q]
         /\ \A s \in Schedulers : s # p => proj'[s] = proj[s] /\ batch'[s] = batch[s]
         /\ LocalsOK'
  <1>. USE DEF Typed, TypeOK, Finish, Goto, Sessions
  <1>1. DOMAIN acct = Clients \cup Admins
    OBVIOUS
  <1>2. step \in Steps /\ step \notin ClientBusy \cup BatchBusy \cup {"grantCommit", "grantNotify"}
    BY DEF Steps, Waiting, Answers, ClientBusy, BatchBusy
  <1>3. /\ acct' \in [Clients \cup Admins -> Accounts \cup {NoAccount}]
        /\ \A q \in Clients \cup Admins : q # p => acct'[q] = acct[q]
    BY <1>1
  <1>4. /\ proj' \in [Schedulers -> Projects \cup {NoProject}]
        /\ \A s \in Schedulers : s # p => proj'[s] = proj[s] /\ batch'[s] = batch[s]
    OBVIOUS
  <1>5. batch' \in [Schedulers -> SUBSET Refs]
    OBVIOUS
  <1>6. /\ pc' \in [Sessions -> Steps]
        /\ pc' = [pc EXCEPT ![p] = step]
    BY <1>2
  <1>7. LocalsOK'
    BY <1>2, <1>3, <1>4, <1>6 DEF LocalsOK
  <1>8. QED
    BY <1>3, <1>4, <1>5, <1>6, <1>7

LEMMA CommitTypes ==
  ASSUME TypeOK, NEW p \in Sessions, Commit(p)
  PROVE  StoreTypeOK'
  <1>. USE DEF TypeOK, StoreTypeOK
  <1>1. user' \in [Accounts -> Users]
    <2>1. tx[p].by \in Sources
      BY DEF Transactions
    <2>2. ASSUME NEW a \in Accounts
          PROVE  CommittedUser(p, a) \in Users
      <3>1. user[a] \in Users
        OBVIOUS
      <3>2. [user[a] EXCEPT !.access = TRUE, !.by = tx[p].by, !.revoked = FALSE] \in Users
        BY <2>1, <3>1 DEF Users
      <3>3. Signed \in Users
        BY DEF Users, Signed, Unknown, Sources
      <3>4. QED
        BY <3>1, <3>2, <3>3 DEF CommittedUser
    <2>3. QED
      BY <2>2 DEF Commit
  <1>2. entry' \in [Accounts -> Entries]
    <2>1. tx[p].age \in Ages
      BY DEF Transactions
    <2>2. ASSUME NEW a \in Accounts
          PROVE  CommittedEntry(p, a) \in Entries
      <3>1. entry[a] \in Entries
        OBVIOUS
      <3>2. [on |-> TRUE, id |-> entry[a].id + 1, age |-> tx[p].age] \in Entries
        BY <2>1, <3>1 DEF Entries, Ids
      <3>3. ASSUME NEW b \in BOOLEAN
            PROVE  [entry[a] EXCEPT !.on = b] \in Entries
        BY <3>1 DEF Entries
      <3>4. (entry[a].on /\ EntryRef(a) \notin tx[p].del) \in BOOLEAN
        OBVIOUS
      <3>5. QED
        BY <3>2, <3>3, <3>4 DEF CommittedEntry
    <2>3. QED
      BY <2>2 DEF Commit
  <1>3. cool' \in [Projects -> Ages]
    BY DEF Commit, Transactions
  <1>4. tx' \in [Sessions -> Transactions]
    BY BoundsAssumption DEF Commit, Rollback, NoTx, Transactions, Ages, Sources
  <1>5. QED
    BY <1>1, <1>2, <1>3, <1>4
LEMMA BegunTypes == NoTx \in Transactions /\ Begun \in Transactions
  <1>1. 0 \in Ages /\ "none" \in Sources
    BY BoundsAssumption DEF Ages, Sources
  <1>2. NoTx \in Transactions
    BY <1>1 DEF NoTx, Transactions
  <1>3. QED
    BY <1>2 DEF Begun, Transactions

\* Every statement leaves a transaction a transaction.
LEMMA StatementTypes ==
  ASSUME TypeOK, NEW p \in Sessions
  PROVE  /\ Rollback(p) => tx' \in [Sessions -> Transactions]
         /\ \A a \in Accounts : CreateTx(p, a) => tx' \in [Sessions -> Transactions]
         /\ \A a \in Accounts : Add(p, a) => tx' \in [Sessions -> Transactions]
         /\ \A A \in SUBSET Accounts, b \in Sources :
              GrantAccessTx(p, A, b) => tx' \in [Sessions -> Transactions]
         /\ \A R \in SUBSET Refs : DeleteByIDsTx(p, R) => tx' \in [Sessions -> Transactions]
         /\ \A j \in Projects : UpdateLastSuccess(p, j) => tx' \in [Sessions -> Transactions]
  <1>. DEFINE t == tx[p]
  <1>1. tx \in [Sessions -> Transactions] /\ t \in Transactions
    BY DEF TypeOK, StoreTypeOK
  <1>2. Rollback(p) => tx' \in [Sessions -> Transactions]
    BY <1>1, BegunTypes DEF Rollback
  <1>3. ASSUME NEW a \in Accounts
        PROVE  CreateTx(p, a) => tx' \in [Sessions -> Transactions]
    <2>1. [t EXCEPT !.create = {a}] \in Transactions
      BY <1>1 DEF Transactions
    <2>2. QED
      BY <1>1, <2>1 DEF CreateTx
  <1>4. NowAge(p) \in Ages
    BY <1>1, BoundsAssumption DEF NowAge, Transactions, Ages
  <1>5. ASSUME NEW a \in Accounts
        PROVE  Add(p, a) => tx' \in [Sessions -> Transactions]
    <2>1. [t EXCEPT !.add = {a}, !.age = NowAge(p)] \in Transactions
      BY <1>1, <1>4 DEF Transactions
    <2>2. QED
      BY <1>1, <2>1 DEF Add
  <1>6. ASSUME NEW A \in SUBSET Accounts, NEW b \in Sources
        PROVE  GrantAccessTx(p, A, b) => tx' \in [Sessions -> Transactions]
    <2>1. [t EXCEPT !.grant = A, !.by = b] \in Transactions
      BY <1>1 DEF Transactions
    <2>2. QED
      BY <1>1, <2>1 DEF GrantAccessTx
  <1>7. ASSUME NEW R \in SUBSET Refs
        PROVE  DeleteByIDsTx(p, R) => tx' \in [Sessions -> Transactions]
    <2>1. [t EXCEPT !.del = R] \in Transactions
      BY <1>1 DEF Transactions
    <2>2. QED
      BY <1>1, <2>1 DEF DeleteByIDsTx
  <1>8. ASSUME NEW j \in Projects
        PROVE  UpdateLastSuccess(p, j) => tx' \in [Sessions -> Transactions]
    <2>1. [t EXCEPT !.stamp = {j}, !.age = NowAge(p)] \in Transactions
      BY <1>1, <1>4 DEF Transactions
    <2>2. QED
      BY <1>1, <2>1 DEF UpdateLastSuccess
  <1>9. QED
    BY <1>2, <1>3, <1>5, <1>6, <1>7, <1>8

LEMMA ClockTypes ==
  ASSUME TypeOK, Clock
  PROVE  StoreTypeOK'
  <1>. USE DEF TypeOK, StoreTypeOK
  <1>1. \A n \in Ages : Older(n) \in Ages
    BY BoundsAssumption DEF Older, Ages
  <1>2. entry' \in [Accounts -> Entries]
    <2>1. ASSUME NEW a \in Accounts
          PROVE  [entry[a] EXCEPT !.age = Older(@)] \in Entries
      <3>1. entry[a] \in Entries /\ entry[a].age \in Ages
        BY DEF Entries
      <3>2. Older(entry[a].age) \in Ages
        BY <1>1, <3>1
      <3>3. QED
        BY <3>1, <3>2 DEF Entries
    <2>2. QED
      BY <2>1 DEF Clock
  <1>3. cool' \in [Projects -> Ages]
    BY <1>1 DEF Clock
  <1>4. tx' \in [Sessions -> Transactions]
    <2>1. ASSUME NEW p \in Sessions
          PROVE  [tx[p] EXCEPT !.age = Older(@)] \in Transactions
      <3>1. tx[p] \in Transactions /\ tx[p].age \in Ages
        BY DEF Transactions
      <3>2. Older(tx[p].age) \in Ages
        BY <1>1, <3>1
      <3>3. QED
        BY <3>1, <3>2 DEF Transactions
    <2>2. QED
      BY <2>1 DEF Clock
  <1>5. user' = user
    BY DEF Clock
  <1>6. QED
    BY <1>2, <1>3, <1>4, <1>5

LEMMA InitTyped == Init => Typed
  <1>1. Init => StoreTypeOK
    BY BegunTypes, BoundsAssumption
    DEF Init, StoreInit, StoreTypeOK, Users, Unknown, Entries, Ids, Ages, Sources
  <1>2. Init => TypeOK
    BY <1>1, FaultsAssumption DEF Init, TypeOK, Steps, Waiting
  <1>3. Init => LocalsOK
    BY DEF Init, LocalsOK, ClientBusy, BatchBusy, Sessions
  <1>4. QED
    BY <1>2, <1>3 DEF Typed

\* An answer or an error ends a session.
LEMMA AbortTyped ==
  ASSUME Typed, NEW p \in Sessions, Abort(p)
  PROVE  \E step \in Waiting : Finish(p, step)
  BY DEF Abort, Waiting, Answers

LEMMA MarkDueTypes ==
  ASSUME TypeOK, NEW p \in Sessions, MarkDue(p)
  PROVE  notice' \in [Accounts -> {"none", "due", "sent"}]
  BY DEF TypeOK, MarkDue

LEMMA TypedStep == Typed /\ [Next]_vars => Typed'
  <1>. SUFFICES ASSUME Typed, [Next]_vars PROVE Typed'
    OBVIOUS
  <1>. USE DEF Sessions
  <1>1. ASSUME NEW c \in Clients, NEW a \in Accounts, AddLookup(c, a)
        PROVE  Typed'
    <2>1. tx' \in [Sessions -> Transactions]
      BY <1>1, BegunTypes DEF AddLookup, Typed, TypeOK, StoreTypeOK
    <2>2. pc' \in [Sessions -> Steps]
      BY <1>1 DEF AddLookup, Typed, TypeOK, Goto, Steps, Waiting, Answers
    <2>3. acct' \in [Clients \cup Admins -> Accounts \cup {NoAccount}]
      BY <1>1 DEF AddLookup, Typed, TypeOK
    <2>4. LocalsOK'
      BY <1>1, RolesAssumption
      DEF AddLookup, Goto, Typed, TypeOK, LocalsOK, ClientBusy, BatchBusy
    <2>5. QED
      BY <1>1, <2>1, <2>2, <2>3, <2>4 DEF AddLookup, Typed, TypeOK, StoreTypeOK
  <1>2. ASSUME NEW c \in Clients, AddCreate(c)
        PROVE  Typed'
    <2>1. acct[c] \in Accounts
      BY <1>2 DEF AddCreate, Typed, LocalsOK, ClientBusy
    <2>2. tx' \in [Sessions -> Transactions]
      BY <1>2, <2>1, StatementTypes DEF AddCreate, Typed
    <2>3. CASE Abort(c)
      BY <1>2, <2>2, <2>3, AbortTyped, FinishTyped DEF AddCreate, Typed, TypeOK, StoreTypeOK
    <2>4. CASE Goto(c, "insert") /\ UNCHANGED localVars
      <3>1. pc' \in [Sessions -> Steps] /\ LocalsOK'
        BY <2>1, <2>4, RolesAssumption
        DEF Goto, localVars, Typed, TypeOK, LocalsOK, Steps, ClientBusy, BatchBusy
      <3>2. QED
        BY <1>2, <2>2, <2>4, <3>1 DEF AddCreate, localVars, Typed, TypeOK, StoreTypeOK
    <2>5. QED
      BY <1>2, <2>3, <2>4 DEF AddCreate
  <1>3. ASSUME NEW c \in Clients, AddInsert(c)
        PROVE  Typed'
    <2>1. acct[c] \in Accounts
      BY <1>3 DEF AddInsert, Typed, LocalsOK, ClientBusy
    <2>2. tx' \in [Sessions -> Transactions]
      BY <1>3, <2>1, StatementTypes DEF AddInsert, Typed
    <2>3. CASE Finish(c, "Conflict")
      <3>1. "Conflict" \in Waiting
        BY DEF Waiting, Answers
      <3>2. QED
        BY <1>3, <2>2, <2>3, <3>1, FinishTyped DEF AddInsert, Typed, TypeOK, StoreTypeOK
    <2>4. CASE Goto(c, "addCommit") /\ UNCHANGED localVars
      <3>1. pc' \in [Sessions -> Steps] /\ LocalsOK'
        BY <2>1, <2>4, RolesAssumption
        DEF Goto, localVars, Typed, TypeOK, LocalsOK, Steps, ClientBusy, BatchBusy
      <3>2. QED
        BY <1>3, <2>2, <2>4, <3>1 DEF AddInsert, localVars, Typed, TypeOK, StoreTypeOK
    <2>5. QED
      BY <1>3, <2>3, <2>4 DEF AddInsert
  <1>4. ASSUME NEW c \in Clients, AddCommit(c)
        PROVE  Typed'
    <2>1. StoreTypeOK'
      BY <1>4, CommitTypes DEF AddCommit, Typed
    <2>2. "Created" \in Waiting
      BY DEF Waiting, Answers
    <2>3. QED
      BY <1>4, <2>1, <2>2, FinishTyped DEF AddCommit, Typed, TypeOK
  <1>5. ASSUME NEW d \in Admins, NEW a \in Accounts \cup {NoAccount}, GrantDelete(d, a)
        PROVE  Typed'
    <2>1. tx' \in [Sessions -> Transactions]
      <3>1. CASE a = NoAccount
        BY <1>5, <3>1, BegunTypes, NamesAssumption DEF GrantDelete, Typed, TypeOK, StoreTypeOK
      <3>2. CASE a \in Accounts
        <4>1. EntryRef(a) \in Refs
          BY <3>2 DEF EntryRef, Refs, Typed, TypeOK, StoreTypeOK, Entries
        <4>2. [Begun EXCEPT !.del = {r \in {EntryRef(a)} : Live(r)}] \in Transactions
          BY <4>1, BegunTypes DEF Transactions
        <4>3. QED
          BY <1>5, <3>2, <4>2, NamesAssumption DEF GrantDelete, Typed, TypeOK, StoreTypeOK
      <3>3. QED
        BY <3>1, <3>2
    <2>2. pc' \in [Sessions -> Steps] /\ LocalsOK'
      BY <1>5, RolesAssumption
      DEF GrantDelete, Goto, Typed, TypeOK, LocalsOK, Steps, ClientBusy, BatchBusy
    <2>3. acct' \in [Clients \cup Admins -> Accounts \cup {NoAccount}]
      BY <1>5 DEF GrantDelete, Typed, TypeOK
    <2>4. QED
      BY <1>5, <2>1, <2>2, <2>3 DEF GrantDelete, Typed, TypeOK, StoreTypeOK
  <1>6. ASSUME NEW d \in Admins, GrantAccess(d)
        PROVE  Typed'
    <2>1. tx' \in [Sessions -> Transactions]
      <3>1. "admin" \in Sources /\ acct[d] \in Accounts \cup {NoAccount}
        BY DEF Sources, Typed, TypeOK
      <3>2. acct[d] # NoAccount => {acct[d]} \in SUBSET Accounts
        BY <3>1
      <3>3. QED
        BY <1>6, <3>1, <3>2, StatementTypes DEF GrantAccess, Typed
    <2>2. CASE Finish(d, "idle")
      <3>1. "idle" \in Waiting
        BY DEF Waiting
      <3>2. QED
        BY <1>6, <2>1, <2>2, <3>1, FinishTyped DEF GrantAccess, Typed, TypeOK, StoreTypeOK
    <2>3. CASE acct[d] # NoAccount /\ Goto(d, "grantCommit") /\ UNCHANGED localVars
      <3>1. pc' \in [Sessions -> Steps] /\ LocalsOK'
        BY <2>3, RolesAssumption
        DEF Goto, localVars, Typed, TypeOK, LocalsOK, Steps, ClientBusy, BatchBusy
      <3>2. QED
        BY <1>6, <2>1, <2>3, <3>1 DEF GrantAccess, localVars, Typed, TypeOK, StoreTypeOK
    <2>4. QED
      BY <1>6, <2>2, <2>3 DEF GrantAccess
  <1>7. ASSUME NEW d \in Admins, GrantCommit(d)
        PROVE  Typed'
    <2>1. StoreTypeOK'
      BY <1>7, CommitTypes DEF GrantCommit, Typed
    <2>2. notice' \in [Accounts -> {"none", "due", "sent"}]
      BY <1>7, MarkDueTypes DEF GrantCommit, Typed
    <2>3. pc' \in [Sessions -> Steps] /\ LocalsOK'
      BY <1>7, RolesAssumption
      DEF GrantCommit, Goto, Typed, TypeOK, LocalsOK, Steps, ClientBusy, BatchBusy
    <2>4. QED
      BY <1>7, <2>1, <2>2, <2>3 DEF GrantCommit, Typed, TypeOK
  <1>8. ASSUME NEW d \in Admins, GrantNotify(d)
        PROVE  Typed'
    <2>1. "idle" \in Waiting
      BY DEF Waiting
    <2>2. notice' \in [Accounts -> {"none", "due", "sent"}]
      BY <1>8 DEF GrantNotify, Typed, TypeOK
    <2>3. QED
      BY <1>8, <2>1, <2>2, FinishTyped DEF GrantNotify, Typed, TypeOK, StoreTypeOK
  <1>9. ASSUME NEW d \in Admins, NEW a \in Accounts, Revoke(d, a)
        PROVE  Typed'
    <2>1. [user[a] EXCEPT !.access = FALSE, !.revoked = TRUE] \in Users
      <3>1. user[a] \in Users
        BY DEF Typed, TypeOK, StoreTypeOK
      <3>2. QED
        BY <3>1 DEF Users
    <2>2. user' \in [Accounts -> Users]
      BY <1>9, <2>1 DEF Revoke, RevokeAccess, Typed, TypeOK, StoreTypeOK
    <2>3. QED
      BY <1>9, <2>2 DEF Revoke, RevokeAccess, Typed, TypeOK, StoreTypeOK, LocalsOK
  <1>10. ASSUME NEW d \in Admins, NEW a \in Accounts, DeleteWaitlist(d, a)
         PROVE  Typed'
    <2>1. [entry[a] EXCEPT !.on = FALSE] \in Entries
      <3>1. entry[a] \in Entries
        BY DEF Typed, TypeOK, StoreTypeOK
      <3>2. QED
        BY <3>1 DEF Entries
    <2>2. entry' \in [Accounts -> Entries]
      BY <1>10, <2>1 DEF DeleteWaitlist, DeleteByID, EntryRef, Typed, TypeOK, StoreTypeOK
    <2>3. QED
      BY <1>10, <2>2 DEF DeleteWaitlist, DeleteByID, Typed, TypeOK, StoreTypeOK, LocalsOK
  <1>11. ASSUME NEW s \in Schedulers, CheckAllProjects(s)
         PROVE  Typed'
    BY <1>11 DEF CheckAllProjects, Typed, TypeOK, StoreTypeOK, LocalsOK
  <1>12. ASSUME NEW s \in Schedulers, NEW j \in Projects, ProcessProject(s, j)
         PROVE  Typed'
    <2>1. /\ pc' \in [Sessions -> Steps]
          /\ proj' \in [Schedulers -> Projects \cup {NoProject}]
          /\ round' \in [Schedulers -> SUBSET Projects]
      BY <1>12 DEF ProcessProject, Goto, Typed, TypeOK, Steps
    <2>2. LocalsOK'
      BY <1>12, RolesAssumption
      DEF ProcessProject, Goto, Typed, TypeOK, LocalsOK, ClientBusy, BatchBusy
    <2>3. QED
      BY <1>12, <2>1, <2>2 DEF ProcessProject, Typed, TypeOK, StoreTypeOK
  <1>13. ASSUME NEW s \in Schedulers, FetchEntries(s)
         PROVE  Typed'
    <2>1. CASE Finish(s, "idle")
      <3>1. "idle" \in Waiting
        BY DEF Waiting
      <3>2. QED
        BY <1>13, <2>1, <3>1, FinishTyped DEF FetchEntries, Typed, TypeOK, StoreTypeOK
    <2>2. CASE \E ready \in SUBSET Accounts :
                 /\ batch' = [batch EXCEPT ![s] = {EntryRef(a) : a \in ready}]
                 /\ Goto(s, "begin")
                 /\ UNCHANGED <<acct, round, proj>>
      <3>1. \A a \in Accounts : EntryRef(a) \in Refs
        BY DEF EntryRef, Refs, Typed, TypeOK, StoreTypeOK, Entries
      <3>2. batch' \in [Schedulers -> SUBSET Refs]
        BY <2>2, <3>1 DEF Typed, TypeOK
      <3>3. pc' \in [Sessions -> Steps] /\ LocalsOK'
        BY <1>13, <2>2, RolesAssumption
        DEF FetchEntries, Goto, Typed, TypeOK, LocalsOK, Steps, ClientBusy, BatchBusy
      <3>4. QED
        BY <1>13, <2>2, <3>2, <3>3 DEF FetchEntries, Typed, TypeOK, StoreTypeOK
    <2>3. PICK page \in OldestFirst(proj[s], Batch[proj[s]]) :
            LET ready == {a \in page : entry[a].age >= Window[proj[s]]} IN
            IF ready = {}
            THEN Finish(s, "idle")
            ELSE /\ batch' = [batch EXCEPT ![s] = {EntryRef(a) : a \in ready}]
                 /\ Goto(s, "begin")
                 /\ UNCHANGED <<acct, round, proj>>
      BY <1>13 DEF FetchEntries
    <2>4. page \in SUBSET Accounts
      BY DEF OldestFirst, OnList
    <2>. DEFINE ready == {a \in page : entry[a].age >= Window[proj[s]]}
    <2>5. ready \in SUBSET Accounts
      BY <2>4
    <2>6. CASE ready = {}
      BY <2>1, <2>3, <2>6
    <2>7. CASE ready # {}
      BY <2>2, <2>3, <2>5, <2>7
    <2>8. QED
      BY <2>6, <2>7
  <1>14. ASSUME NEW s \in Schedulers,
                BatchBegin(s) \/ BatchGrant(s) \/ BatchDelete(s) \/ BatchStamp(s)
         PROVE  Typed'
    <2>1. proj[s] \in Projects
      BY <1>14 DEF BatchBegin, BatchGrant, BatchDelete, BatchStamp, Typed, LocalsOK, BatchBusy
    <2>2. batch[s] \in SUBSET Refs /\ UsersToAllow(s) \in SUBSET Accounts
      BY DEF UsersToAllow, Refs, Typed, TypeOK
    <2>3. BatchBegin(s) => tx' \in [Sessions -> Transactions]
      BY BegunTypes DEF BatchBegin, Typed, TypeOK, StoreTypeOK
    <2>. TypeOK /\ tx \in [Sessions -> Transactions]
      BY DEF Typed, TypeOK, StoreTypeOK
    <2>4. tx' \in [Sessions -> Transactions]
      <3>1. CASE BatchBegin(s)
        BY <2>3, <3>1
      <3>2. CASE BatchGrant(s)
        <4>1. PICK a \in UsersToAllow(s) : GrantAccessTx(s, tx[s].grant \cup {a}, "scheduler")
          BY <3>2 DEF BatchGrant
        <4>2. tx[s].grant \cup {a} \in SUBSET Accounts /\ "scheduler" \in Sources
          BY <2>2 DEF Transactions, Sources
        <4>3. QED
          BY ONLY <4>1, <4>2, StatementTypes, TypeOK, s \in Sessions
      <3>3. CASE BatchDelete(s)
        <4>1. CASE UNCHANGED tx
          BY <4>1
        <4>2. CASE \E r \in Left(s) : DeleteByIDsTx(s, tx[s].del \cup {r})
          <5>1. PICK r \in batch[s] : DeleteByIDsTx(s, tx[s].del \cup {r})
            BY <4>2 DEF Left
          <5>2. tx[s].del \cup {r} \in SUBSET Refs
            BY <2>2 DEF Transactions
          <5>3. QED
            BY ONLY <5>1, <5>2, StatementTypes, TypeOK, s \in Sessions
        <4>3. QED
          BY <3>3, <4>1, <4>2 DEF BatchDelete
      <3>4. CASE BatchStamp(s)
        BY <2>1, <3>4, StatementTypes DEF BatchStamp
      <3>5. QED
        BY <1>14, <3>1, <3>2, <3>3, <3>4
    <2>5. pc' \in [Sessions -> Steps] /\ LocalsOK'
      <3>1. \/ UNCHANGED pc
            \/ \E next \in {"grant", "delete", "stamp", "batchCommit"} :
                 pc' = [pc EXCEPT ![s] = next]
        BY <1>14 DEF BatchBegin, BatchGrant, BatchDelete, BatchStamp, Goto
      <3>2. pc[s] \in BatchBusy /\ UNCHANGED <<acct, proj>>
        BY <1>14 DEF BatchBegin, BatchGrant, BatchDelete, BatchStamp, BatchBusy
      <3>3. pc' \in [Sessions -> Steps]
        BY ONLY <3>1, Typed DEF Typed, TypeOK, Steps
      <3>4. LocalsOK'
        BY ONLY <3>1, <3>2, RolesAssumption, Typed, s \in Schedulers
        DEF Typed, TypeOK, LocalsOK, ClientBusy, BatchBusy, Sessions
      <3>5. QED
        BY <3>3, <3>4
    <2>6. QED
      BY <1>14, <2>4, <2>5
      DEF BatchBegin, BatchGrant, BatchDelete, BatchStamp, Typed, TypeOK, StoreTypeOK
  <1>15. ASSUME NEW s \in Schedulers, BatchCommit(s)
         PROVE  Typed'
    <2>1. StoreTypeOK'
      BY <1>15, CommitTypes DEF BatchCommit, Typed
    <2>2. notice' \in [Accounts -> {"none", "due", "sent"}]
      BY <1>15, MarkDueTypes DEF BatchCommit, Typed
    <2>3. pc' \in [Sessions -> Steps] /\ LocalsOK'
      BY <1>15, RolesAssumption
      DEF BatchCommit, Goto, Typed, TypeOK, LocalsOK, Steps, ClientBusy, BatchBusy
    <2>4. QED
      BY <1>15, <2>1, <2>2, <2>3 DEF BatchCommit, Typed, TypeOK
  <1>16. ASSUME NEW s \in Schedulers, BatchNotify(s)
         PROVE  Typed'
    <2>1. "idle" \in Waiting
      BY DEF Waiting
    <2>2. notice' \in [Accounts -> {"none", "due", "sent"}]
      BY <1>16 DEF BatchNotify, Typed, TypeOK
    <2>3. QED
      BY <1>16, <2>1, <2>2, FinishTyped DEF BatchNotify, Typed, TypeOK, StoreTypeOK
  <1>17. ASSUME NEW p \in Sessions, DeadlockVictim(p) \/ Fault(p)
         PROVE  Typed'
    <2>1. tx' \in [Sessions -> Transactions]
      BY <1>17, StatementTypes DEF DeadlockVictim, Fault, Typed
    <2>2. faults' \in 0 .. MaxFaults
      BY <1>17, FaultsAssumption DEF DeadlockVictim, Fault, Typed, TypeOK
    <2>3. QED
      BY <1>17, <2>1, <2>2, AbortTyped, FinishTyped
      DEF DeadlockVictim, Fault, Typed, TypeOK, StoreTypeOK
  <1>18. ASSUME NEW p \in Sessions, CommitUnacknowledged(p)
         PROVE  Typed'
    <2>1. StoreTypeOK'
      BY <1>18, CommitTypes DEF CommitUnacknowledged, Typed
    <2>2. notice' \in [Accounts -> {"none", "due", "sent"}]
      BY <1>18, MarkDueTypes DEF CommitUnacknowledged, Typed
    <2>3. faults' \in 0 .. MaxFaults
      BY <1>18, FaultsAssumption DEF CommitUnacknowledged, Typed, TypeOK
    <2>4. QED
      BY <1>18, <2>1, <2>2, <2>3, AbortTyped, FinishTyped
      DEF CommitUnacknowledged, Typed, TypeOK
  <1>19. ASSUME NEW s \in Schedulers, Crash(s)
         PROVE  Typed'
    <2>1. tx' \in [Sessions -> Transactions]
      BY <1>19, StatementTypes DEF Crash, Typed
    <2>2. faults' \in 0 .. MaxFaults
      BY <1>19, FaultsAssumption DEF Crash, Typed, TypeOK
    <2>3. pc' \in [Sessions -> Steps] /\ LocalsOK'
      BY <1>19, RolesAssumption
      DEF Crash, Goto, Typed, TypeOK, LocalsOK, Steps, Waiting, ClientBusy, BatchBusy
    <2>4. QED
      BY <1>19, <2>1, <2>2, <2>3 DEF Crash, Typed, TypeOK, StoreTypeOK
  <1>20. CASE Tick
    BY <1>20, ClockTypes DEF Tick, Typed, TypeOK, LocalsOK
  <1>21. CASE UNCHANGED vars
    BY <1>21 DEF vars, Typed, TypeOK, StoreTypeOK, LocalsOK
  <1>22. QED
    BY <1>1, <1>2, <1>3, <1>4, <1>5, <1>6, <1>7, <1>8, <1>9, <1>10, <1>11, <1>12, <1>13,
       <1>14, <1>15, <1>16, <1>17, <1>18, <1>19, <1>20, <1>21
    DEF Next, AddStep, GrantStep, AdminRequest, Poll, BatchStep

\* Type correctness: the tables and the locals of every session hold what they
\* are meant to hold, for any number of accounts, requests and schedulers.
THEOREM TypeCorrect == Spec => []TypeOK
  <1>1. Spec => []Typed
    BY InitTyped, TypedStep, PTL DEF Spec
  <1>2. Typed => TypeOK
    BY DEF Typed
  <1>3. QED
    BY <1>1, <1>2, PTL

-----------------------------------------------------------------------------
(* What the statements of a transaction change. *)

\* Nobody but p changes its transaction.
OnlyOf(p) == \A q \in Others(p) : tx'[q] = tx[q]

SameCreate(p) == tx'[p].create = tx[p].create
SameAdd(p)    == tx'[p].add = tx[p].add
SameDel(p)    == tx'[p].del = tx[p].del
SameGrant(p)  == tx'[p].grant = tx[p].grant /\ tx'[p].by = tx[p].by
SameStamp(p)  == tx'[p].stamp = tx[p].stamp

\* A transaction that has written nothing but the rows it deletes.
OnlyDeletes(p, R) ==
  /\ tx'[p].create = {} /\ tx'[p].add = {} /\ tx'[p].del \subseteq R
  /\ tx'[p].grant = {} /\ tx'[p].by = "none" /\ tx'[p].stamp = {}

LEMMA BeginEffect ==
  ASSUME TypeOK, NEW p \in Sessions, tx' = [tx EXCEPT ![p] = NoTx] \/ tx' = [tx EXCEPT ![p] = Begun]
  PROVE  OnlyOf(p) /\ OnlyDeletes(p, {})
  <1>1. OnlyOf(p)
    BY DEF TypeOK, StoreTypeOK, OnlyOf, Others
  <1>2. tx'[p] = NoTx \/ tx'[p] = Begun
    BY DEF TypeOK, StoreTypeOK
  <1>3. QED
    BY <1>1, <1>2 DEF OnlyDeletes, NoTx, Begun

LEMMA BeginDeleteEffect ==
  ASSUME TypeOK, NEW p \in Sessions, NEW R, NEW D, D \subseteq R,
         tx' = [tx EXCEPT ![p] = [Begun EXCEPT !.del = D]]
  PROVE  OnlyOf(p) /\ OnlyDeletes(p, R)
  <1>1. OnlyOf(p)
    BY DEF TypeOK, StoreTypeOK, OnlyOf, Others
  <1>2. tx'[p] = [Begun EXCEPT !.del = D]
    BY DEF TypeOK, StoreTypeOK
  <1>3. /\ tx'[p].create = {} /\ tx'[p].add = {} /\ tx'[p].del = D
        /\ tx'[p].grant = {} /\ tx'[p].by = "none" /\ tx'[p].stamp = {}
    BY ONLY <1>2, SMT DEF Begun, NoTx
  <1>4. QED
    BY <1>1, <1>3 DEF OnlyDeletes

LEMMA CreateEffect ==
  ASSUME TypeOK, NEW p \in Sessions, NEW a, CreateTx(p, a)
  PROVE  /\ OnlyOf(p) /\ tx'[p].create = {a}
         /\ SameAdd(p) /\ SameDel(p) /\ SameGrant(p) /\ SameStamp(p)
  BY DEF TypeOK, StoreTypeOK, Transactions, OnlyOf, Others, CreateTx,
         SameAdd, SameDel, SameGrant, SameStamp

LEMMA AddEffect ==
  ASSUME TypeOK, NEW p \in Sessions, NEW a, Add(p, a)
  PROVE  /\ OnlyOf(p) /\ tx'[p].add = {a}
         /\ SameCreate(p) /\ SameDel(p) /\ SameGrant(p) /\ SameStamp(p)
  BY DEF TypeOK, StoreTypeOK, Transactions, OnlyOf, Others, Add,
         SameCreate, SameDel, SameGrant, SameStamp

LEMMA GrantEffect ==
  ASSUME TypeOK, NEW p \in Sessions, NEW A, NEW b, GrantAccessTx(p, A, b)
  PROVE  /\ OnlyOf(p) /\ tx'[p].grant = A /\ tx'[p].by = b
         /\ SameCreate(p) /\ SameAdd(p) /\ SameDel(p) /\ SameStamp(p)
  BY DEF TypeOK, StoreTypeOK, Transactions, OnlyOf, Others, GrantAccessTx,
         SameCreate, SameAdd, SameDel, SameStamp

LEMMA DeleteEffect ==
  ASSUME TypeOK, NEW p \in Sessions, NEW R, DeleteByIDsTx(p, R)
  PROVE  /\ OnlyOf(p) /\ tx'[p].del = R
         /\ SameCreate(p) /\ SameAdd(p) /\ SameGrant(p) /\ SameStamp(p)
  BY DEF TypeOK, StoreTypeOK, Transactions, OnlyOf, Others, DeleteByIDsTx,
         SameCreate, SameAdd, SameGrant, SameStamp

LEMMA StampEffect ==
  ASSUME TypeOK, NEW p \in Sessions, NEW j, UpdateLastSuccess(p, j)
  PROVE  /\ OnlyOf(p) /\ tx'[p].stamp = {j}
         /\ SameCreate(p) /\ SameAdd(p) /\ SameDel(p) /\ SameGrant(p)
  BY DEF TypeOK, StoreTypeOK, Transactions, OnlyOf, Others, UpdateLastSuccess,
         SameCreate, SameAdd, SameDel, SameGrant

LEMMA ClockEffect ==
  ASSUME TypeOK, Clock, NEW p \in Sessions
  PROVE  SameCreate(p) /\ SameAdd(p) /\ SameDel(p) /\ SameGrant(p) /\ SameStamp(p)
  BY DEF Clock, TypeOK, StoreTypeOK, Transactions,
         SameCreate, SameAdd, SameDel, SameGrant, SameStamp

-----------------------------------------------------------------------------
(* The locks of open transactions exclude each other: what the guards of the
   statements, which stand for the row locks of the database, amount to. *)

LocksExclusive ==
  \A p, q \in Sessions : p # q =>
    /\ tx[p].create \cap tx[q].create = {}
    /\ tx[p].add \cap tx[q].add = {}
    /\ tx[p].del \cap tx[q].del = {}
    /\ tx[p].grant \cap tx[q].grant = {}
    /\ tx[p].stamp \cap tx[q].stamp = {}

\* A transaction that changes keeps the locks exclusive if what it holds then
\* nobody else holds.
LEMMA OneTransaction ==
  ASSUME LocksExclusive, NEW p \in Sessions, OnlyOf(p),
         \A q \in Others(p) :
           /\ tx'[p].create \cap tx[q].create = {}
           /\ tx'[p].add \cap tx[q].add = {}
           /\ tx'[p].del \cap tx[q].del = {}
           /\ tx'[p].grant \cap tx[q].grant = {}
           /\ tx'[p].stamp \cap tx[q].stamp = {}
  PROVE  LocksExclusive'
  BY DEF LocksExclusive, OnlyOf, Others

LEMMA RollbackKeepsLocks ==
  ASSUME TypeOK, LocksExclusive, NEW p \in Sessions, Rollback(p)
  PROVE  LocksExclusive'
  <1>1. OnlyOf(p) /\ OnlyDeletes(p, {})
    BY BeginEffect DEF Rollback
  <1>2. QED
    BY <1>1, OneTransaction DEF OnlyDeletes

LEMMA LocksStep == TypeOK /\ LocksExclusive /\ [Next]_vars => LocksExclusive'
  <1>. SUFFICES ASSUME TypeOK, LocksExclusive, [Next]_vars PROVE LocksExclusive'
    OBVIOUS
  <1>. USE DEF Sessions
  <1>0. ASSUME NEW p \in Sessions
        PROVE  \A q \in Others(p) :
                 /\ tx[p].create \cap tx[q].create = {}
                 /\ tx[p].add \cap tx[q].add = {}
                 /\ tx[p].del \cap tx[q].del = {}
                 /\ tx[p].grant \cap tx[q].grant = {}
                 /\ tx[p].stamp \cap tx[q].stamp = {}
    BY DEF LocksExclusive, Others
  <1>1. ASSUME NEW c \in Clients, NEW a \in Accounts, AddLookup(c, a)
        PROVE  LocksExclusive'
    <2>1. CASE UNCHANGED tx
      BY <2>1 DEF LocksExclusive
    <2>2. CASE tx' = [tx EXCEPT ![c] = Begun]
      BY <2>2, BeginEffect, OneTransaction DEF OnlyDeletes
    <2>3. QED
      BY <1>1, <2>1, <2>2 DEF AddLookup
  <1>2. ASSUME NEW c \in Clients, AddCreate(c)
        PROVE  LocksExclusive'
    <2>1. CASE Rollback(c)
      BY <2>1, RollbackKeepsLocks
    <2>2. CASE CreateTx(c, acct[c])
      <3>1. \A q \in Others(c) : acct[c] \notin tx[q].create
        BY <1>2 DEF AddCreate, CreatorsOf, Others
      <3>2. QED
        BY <2>2, <3>1, <1>0, CreateEffect, OneTransaction
        DEF SameAdd, SameDel, SameGrant, SameStamp
    <2>3. QED
      BY <1>2, <2>1, <2>2 DEF AddCreate
  <1>3. ASSUME NEW c \in Clients, AddInsert(c)
        PROVE  LocksExclusive'
    <2>1. CASE Rollback(c)
      BY <2>1, RollbackKeepsLocks
    <2>2. CASE Add(c, acct[c])
      <3>1. \A q \in Others(c) : acct[c] \notin tx[q].add
        BY <1>3 DEF AddInsert, InsertersOf, Others
      <3>2. QED
        BY <2>2, <3>1, <1>0, AddEffect, OneTransaction
        DEF SameCreate, SameDel, SameGrant, SameStamp
    <2>3. QED
      BY <1>3, <2>1, <2>2 DEF AddInsert
  <1>4. ASSUME NEW d \in Admins, NEW a \in Accounts \cup {NoAccount}, GrantDelete(d, a)
        PROVE  LocksExclusive'
    <2>1. CASE tx' = [tx EXCEPT ![d] = Begun]
      BY <2>1, BeginEffect, OneTransaction DEF OnlyDeletes
    <2>2. CASE /\ DeletersOf({EntryRef(a)}) = {}
               /\ tx' = [tx EXCEPT ![d] = [Begun EXCEPT !.del = {r \in {EntryRef(a)} : Live(r)}]]
      <3>1. \A q \in Others(d) : EntryRef(a) \notin tx[q].del
        BY <2>2 DEF DeletersOf, Others
      <3>2. OnlyOf(d) /\ OnlyDeletes(d, {EntryRef(a)})
        <4>. DEFINE D == {r \in {EntryRef(a)} : Live(r)}
        <4>1. D \subseteq {EntryRef(a)} /\ tx' = [tx EXCEPT ![d] = [Begun EXCEPT !.del = D]]
          BY <2>2
        <4>. HIDE DEF D
        <4>2. QED
          BY <4>1, BeginDeleteEffect
      <3>3. QED
        BY <3>1, <3>2, OneTransaction DEF OnlyDeletes
    <2>3. QED
      BY <1>4, <2>1, <2>2 DEF GrantDelete
  <1>5. ASSUME NEW p \in Sessions, NEW a, NEW A, NEW b, A \subseteq tx[p].grant \cup {a},
               GrantersOf({a}) = {}, GrantAccessTx(p, A, b)
        PROVE  LocksExclusive'
    <2>1. \A q \in Others(p) : tx[q].grant \cap {a} = {}
      BY <1>5 DEF GrantersOf, Others
    <2>2. QED
      BY <1>5, <2>1, <1>0, GrantEffect, OneTransaction
      DEF SameCreate, SameAdd, SameDel, SameStamp
  <1>6. ASSUME NEW d \in Admins, GrantAccess(d)
        PROVE  LocksExclusive'
    BY <1>5, <1>6, RollbackKeepsLocks DEF GrantAccess
  <1>7. ASSUME NEW s \in Schedulers, BatchBegin(s)
        PROVE  LocksExclusive'
    BY <1>7, BeginEffect, OneTransaction DEF BatchBegin, OnlyDeletes
  <1>8. ASSUME NEW s \in Schedulers, BatchGrant(s)
        PROVE  LocksExclusive'
    BY <1>5, <1>8 DEF BatchGrant
  <1>9. ASSUME NEW s \in Schedulers, BatchDelete(s)
        PROVE  LocksExclusive'
    <2>1. CASE UNCHANGED tx
      BY <2>1 DEF LocksExclusive
    <2>2. ASSUME NEW r, DeletersOf({r}) = {}, DeleteByIDsTx(s, tx[s].del \cup {r})
          PROVE  LocksExclusive'
      <3>1. \A q \in Others(s) : tx[q].del \cap {r} = {}
        BY <2>2 DEF DeletersOf, Others
      <3>2. /\ OnlyOf(s) /\ tx'[s].del = tx[s].del \cup {r}
            /\ SameCreate(s) /\ SameAdd(s) /\ SameGrant(s) /\ SameStamp(s)
        BY <2>2, DeleteEffect
      <3>3. QED
        BY <3>1, <3>2, <1>0, OneTransaction DEF SameCreate, SameAdd, SameGrant, SameStamp
    <2>3. QED
      BY <1>9, <2>1, <2>2 DEF BatchDelete
  <1>10. ASSUME NEW s \in Schedulers, BatchStamp(s)
         PROVE  LocksExclusive'
    <2>1. \A q \in Others(s) : proj[s] \notin tx[q].stamp
      BY <1>10 DEF BatchStamp, StampersOf, Others
    <2>2. QED
      BY <1>10, <2>1, <1>0, StampEffect, OneTransaction
      DEF BatchStamp, SameCreate, SameAdd, SameDel, SameGrant
  <1>11. ASSUME NEW p \in Sessions,
                \/ DeadlockVictim(p) \/ Fault(p) \/ CommitUnacknowledged(p)
                \/ p \in Clients /\ AddCommit(p)
                \/ p \in Admins /\ GrantCommit(p)
                \/ p \in Schedulers /\ (BatchCommit(p) \/ Crash(p))
         PROVE  LocksExclusive'
    BY <1>11, RollbackKeepsLocks
    DEF DeadlockVictim, Fault, Crash, CommitUnacknowledged, AddCommit, GrantCommit, BatchCommit,
        Commit
  <1>12. CASE Tick
    BY <1>12, ClockEffect
    DEF Tick, LocksExclusive, SameCreate, SameAdd, SameDel, SameGrant, SameStamp
  <1>13. CASE UNCHANGED tx
    BY <1>13 DEF LocksExclusive
  <1>14. QED
    BY <1>1, <1>2, <1>3, <1>4, <1>6, <1>7, <1>8, <1>9, <1>10, <1>11, <1>12, <1>13
    DEF Next, AddStep, GrantStep, AdminRequest, Poll, BatchStep, vars,
        GrantNotify, Revoke, RevokeAccess, DeleteWaitlist, DeleteByID,
        CheckAllProjects, ProcessProject, FetchEntries, BatchNotify

\* No two open transactions hold the same row or key: the locks as the proofs of
\* the other properties use them.
LEMMA LocksAreExclusive == Spec => []LocksExclusive
  <1>1. Init => LocksExclusive
    BY DEF Init, StoreInit, LocksExclusive, NoTx
  <1>2. QED
    BY <1>1, TypeCorrect, LocksStep, PTL DEF Spec

=============================================================================
