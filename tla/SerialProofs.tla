---------------------------- MODULE SerialProofs ----------------------------
(***************************************************************************)
(* What module Waitlist promises on SQLite, whose pool of one connection   *)
(* lets no two transactions be open at once (Serialized).  What a request  *)
(* has read in its transaction is then still true at each of its           *)
(* statements (Owns): nothing commits meanwhile, and statements on their   *)
(* own wait for the connection.                                            *)
(***************************************************************************)
EXTENDS SessionProofs

\* What an open transaction has read and may rely on.
Owns(p) ==
  /\ p \in Clients => /\ ~user[acct[p]].access
                      /\ pc[p] = "create" => ~user[acct[p]].known
  /\ p \in Admins /\ acct[p] # NoAccount /\ entry[acct[p]].on =>
       EntryRef(acct[p]) \in tx[p].del

OneOpen == \A p, q \in Sessions : tx[p].open /\ tx[q].open => p = q

SerialInv ==
  /\ SessionInv
  /\ OneOpen
  /\ \A p \in Sessions : tx[p].open => Owns(p)
  /\ NoSpuriousError

-----------------------------------------------------------------------------
(* While a transaction is open *)

\* What a session sees of a step that is not its own.
Undisturbed(p) ==
  /\ user' = user
  /\ \A a \in Accounts : entry'[a].on = entry[a].on /\ entry'[a].id = entry[a].id
  /\ pc'[p] = pc[p]
  /\ p \in Clients \cup Admins => acct'[p] = acct[p]
  /\ tx'[p].del = tx[p].del /\ (tx'[p].open <=> tx[p].open)

\* A step of another session: statements on their own wait for the connection, and
\* a commit needs a transaction of its own.
LEMMA ActsBeside ==
  ASSUME Serialized, SessionInv, OneOpen, NEW p \in Sessions, tx[p].open,
         NEW q \in Others(p), Acts(q)
  PROVE  Undisturbed(p)
<1>1. Typed /\ q \in Sessions /\ q # p /\ Written(q) /\ ~tx[q].open
  BY DEF SessionInv, AccountInv, OneOpen, Others
<1>2. pc[q] \notin TxSteps /\ ~ConnectionFree
  BY <1>1 DEF Written, ConnectionFree
<1>3. Kept(q)
  BY <1>1, ActsKept
<1>4. user' = user /\ entry' = entry
  <2>1. pc[q] \notin {"create", "insert", "addCommit", "access", "grantCommit", "grant", "delete",
                      "stamp", "batchCommit"}
    BY <1>2 DEF TxSteps, AddSteps, GrantSteps, BatchSteps
  <2> QED
    BY <1>2, <2>1
    DEF Acts, AddStep, AddLookup, AddCreate, AddInsert, AddCommit,
        GrantStep, GrantAccess, GrantCommit, GrantNotify, AdminRequest, GrantDelete, Revoke,
        DeleteWaitlist, Poll, CheckAllProjects, ProcessProject, BatchStep, FetchEntries,
        BatchBegin, BatchGrant, BatchDelete, BatchStamp, BatchCommit, BatchNotify, Crash,
        DeadlockVictim, Fault, CommitUnacknowledged
<1> QED
  BY <1>3, <1>4 DEF Kept, Others, Undisturbed

LEMMA TickBeside ==
  ASSUME Typed, NEW p \in Sessions, Tick
  PROVE  Undisturbed(p)
<1>1. UNCHANGED <<user, pc, acct>> /\ tx'[p].del = tx[p].del
  BY ClockEffect DEF Tick, Clock, Typed, SameDel
<1>2. tx'[p].open <=> tx[p].open
  BY DEF Tick, Clock, Typed, TypeOK, StoreTypeOK, Transactions
<1>3. \A a \in Accounts : entry'[a].on = entry[a].on /\ entry'[a].id = entry[a].id
  <2>1. ASSUME NEW a \in Accounts
        PROVE  /\ [entry[a] EXCEPT !.age = Older(@)].on = entry[a].on
               /\ [entry[a] EXCEPT !.age = Older(@)].id = entry[a].id
    BY DEF Typed, TypeOK, StoreTypeOK, Entries
  <2> QED
    BY <2>1 DEF Tick, Clock
<1> QED
  BY <1>1, <1>2, <1>3 DEF Undisturbed

LEMMA UndisturbedOwns ==
  ASSUME Typed, NEW p \in Sessions, tx[p].open, Written(p), Owns(p), Undisturbed(p)
  PROVE  Owns(p)'
<1>1. CASE p \in Clients
  BY <1>1, RolesAssumption DEF Owns, Undisturbed
<1>2. CASE p \in Admins /\ acct[p] # NoAccount
  <2>1. acct[p] \in Accounts
    BY <1>2 DEF Typed, TypeOK
  <2>2. EntryRef(acct[p])' = EntryRef(acct[p])
    BY <1>2, <2>1 DEF EntryRef, Undisturbed
  <2> QED
    BY <1>2, <2>1, <2>2, RolesAssumption DEF Owns, Undisturbed
<1>3. CASE p \in Admins /\ acct[p] = NoAccount
  BY <1>3, RolesAssumption DEF Owns, Undisturbed
<1>4. CASE p \in Schedulers
  BY <1>4, RolesAssumption DEF Owns
<1> QED
  BY <1>1, <1>2, <1>3, <1>4 DEF Sessions

\* A transaction that is open when its session has taken a step.
LEMMA ActsOwns ==
  ASSUME Serialized, SerialInv, NEW p \in Sessions, Acts(p), tx'[p].open
  PROVE  Owns(p)' /\ (tx[p].open \/ ConnectionFree)
<1>1. Typed /\ TypeOK /\ Written(p) /\ (tx[p].open => Owns(p))
  BY DEF SerialInv, SessionInv, AccountInv, Typed
<1>2. ~Rollback(p)
  BY <1>1, NoTxWrites DEF NothingWritten
<1>3. ASSUME p \in Schedulers PROVE Owns(p)'
  BY <1>3, RolesAssumption DEF Owns
<1>4. ASSUME pc[p] \in TxSteps PROVE tx[p].open
  BY <1>1, <1>4 DEF Written
<1>5. ASSUME tx' = tx PROVE tx[p].open /\ pc[p] \in TxSteps
  BY <1>1, <1>5 DEF Written
<1>6. CASE p \in Clients
  <2>1. p \notin Admins /\ p \notin Schedulers
    BY <1>6, RolesAssumption
  <2>2. ASSUME NEW a \in Accounts, AddLookup(p, a)
        PROVE  Owns(p)' /\ (tx[p].open \/ ConnectionFree)
    <3>1. ~user[a].access /\ user' = user
      BY <1>5, <2>2 DEF AddLookup, Busy, Waiting, Answers, TxSteps, AddSteps, GrantSteps, BatchSteps
    <3>2. acct'[p] = a /\ (pc'[p] = "create" => ~user[a].known) /\ ConnectionFree
      BY <1>1, <1>6, <2>2, <3>1 DEF AddLookup, Goto, TypeOK
    <3> QED
      BY <2>1, <3>1, <3>2 DEF Owns
  <2>3. CASE AddCreate(p) \/ AddInsert(p)
    <3>1. Goto(p, "insert") \/ Goto(p, "addCommit")
      BY <1>2, <2>3 DEF AddCreate, AddInsert
    <3>2. pc'[p] # "create" /\ acct' = acct /\ user' = user /\ tx[p].open
      BY <1>1, <1>2, <1>4, <2>3, <3>1
      DEF AddCreate, AddInsert, localVars, Goto, TypeOK, TxSteps, AddSteps
    <3> QED
      BY <1>1, <1>6, <2>1, <3>2 DEF Owns
  <2>4. AddCommit(p) \/ DeadlockVictim(p) \/ Fault(p) \/ CommitUnacknowledged(p) => Rollback(p)
    BY DEF AddCommit, DeadlockVictim, Fault, CommitUnacknowledged, Commit
  <2> QED
    BY <1>2, <2>1, <2>2, <2>3, <2>4 DEF Acts, AddStep
<1>7. CASE p \in Admins
  <2>1. p \notin Clients /\ p \notin Schedulers
    BY <1>7, RolesAssumption
  <2>2. ASSUME NEW a \in Accounts \cup {NoAccount}, GrantDelete(p, a)
        PROVE  Owns(p)' /\ (tx[p].open \/ ConnectionFree)
    <3>1. acct'[p] = a /\ entry' = entry /\ ConnectionFree
      BY <1>1, <1>7, <2>2 DEF GrantDelete, TypeOK
    <3>2. ASSUME a \in Accounts, entry[a].on PROVE EntryRef(a) \in tx'[p].del
      <4> DEFINE D == {r \in {EntryRef(a)} : Live(r)}
      <4>1. EntryRef(a) \in D
        BY <3>2 DEF Live, EntryRef
      <4>2. tx' = [tx EXCEPT ![p] = [Begun EXCEPT !.del = D]]
        BY <2>2, <3>2, NamesAssumption DEF GrantDelete
      <4> HIDE DEF D
      <4>3. tx'[p].del = D
        BY <1>1, <4>2 DEF TypeOK, StoreTypeOK, Begun, NoTx
      <4> QED
        BY <4>1, <4>3
    <3>3. EntryRef(a)' = EntryRef(a)
      BY <3>1 DEF EntryRef
    <3> QED
      BY <2>1, <3>1, <3>2, <3>3 DEF Owns, EntryRef
  <2>3. CASE GrantAccess(p)
    <3>1. GrantAccessTx(p, {acct[p]}, "admin") /\ acct' = acct /\ entry' = entry
      BY <1>2, <2>3 DEF GrantAccess, localVars
    <3>2. tx'[p].del = tx[p].del /\ tx[p].open
      BY <1>1, <1>4, <2>3, <3>1, GrantEffect DEF SameDel, GrantAccess, TxSteps, GrantSteps
    <3> QED
      BY <1>1, <1>7, <2>1, <3>1, <3>2 DEF Owns, EntryRef
  <2>4. CASE GrantNotify(p)
    <3>1. tx' = tx /\ pc[p] = "grantNotify"
      BY <2>4 DEF GrantNotify
    <3> QED
      BY <1>5, <3>1 DEF TxSteps, AddSteps, GrantSteps, BatchSteps
  <2>5. ASSUME NEW a \in Accounts, Revoke(p, a) \/ DeleteWaitlist(p, a)
        PROVE  Owns(p)' /\ (tx[p].open \/ ConnectionFree)
    <3>1. tx' = tx /\ ConnectionFree
      BY <2>5 DEF Revoke, RevokeAccess, DeleteWaitlist, DeleteByID
    <3> QED
      BY <1>5, <3>1 DEF ConnectionFree
  <2>6. \/ GrantCommit(p) \/ DeadlockVictim(p) \/ Fault(p) \/ CommitUnacknowledged(p)
        => Rollback(p)
    BY DEF GrantCommit, DeadlockVictim, Fault, CommitUnacknowledged, Commit
  <2> QED
    BY <1>2, <2>1, <2>2, <2>3, <2>4, <2>5, <2>6 DEF Acts, GrantStep, AdminRequest
<1>8. CASE p \in Schedulers
  <2>1. tx[p].open \/ ConnectionFree
    <3>1. CASE Poll(p) \/ FetchEntries(p) \/ BatchNotify(p)
      BY <1>5, <3>1 DEF Poll, CheckAllProjects, ProcessProject, FetchEntries, BatchNotify
    <3>2. CASE BatchBegin(p)
      BY <3>2 DEF BatchBegin
    <3>3. CASE BatchGrant(p) \/ BatchDelete(p) \/ BatchStamp(p)
      BY <1>4, <3>3 DEF BatchGrant, BatchDelete, BatchStamp, TxSteps, BatchSteps
    <3>4. \/ BatchCommit(p) \/ Crash(p) \/ DeadlockVictim(p) \/ Fault(p)
          \/ CommitUnacknowledged(p)
          => Rollback(p)
      BY DEF BatchCommit, Crash, DeadlockVictim, Fault, CommitUnacknowledged, Commit
    <3> QED
      BY <1>2, <1>8, <3>1, <3>2, <3>3, <3>4, RolesAssumption DEF Acts, BatchStep
  <2> QED
    BY <1>3, <1>8, <2>1
<1> QED
  BY <1>6, <1>7, <1>8 DEF Sessions

\* Where no two transactions are open, nobody waits for another one's.
LEMMA NobodyWaits ==
  ASSUME SessionInv, OneOpen, NEW p \in Sessions
  PROVE  WaitsFor(p) = {}
<1> SUFFICES ASSUME NEW q \in WaitsFor(p) PROVE FALSE
  OBVIOUS
<1>1. Written(p) /\ q \in Sessions /\ Written(q) /\ q # p
  BY Waits DEF SessionInv
<1>2. pc[p] \in TxSteps
  BY Waits DEF TxSteps, AddSteps, GrantSteps, BatchSteps
<1>3. \/ tx[q].create # {} \/ tx[q].add # {} \/ tx[q].del # {} \/ tx[q].grant # {}
      \/ tx[q].stamp # {}
  BY Waits
<1>4. pc[q] \in TxSteps
  BY <1>1, <1>3, OutsideTx DEF NothingWritten
<1> QED
  BY <1>1, <1>2, <1>4 DEF Written, OneOpen

-----------------------------------------------------------------------------
(* The invariant *)

\* Only a session that finds the connection free opens a transaction.
LEMMA OneOpenStep ==
  ASSUME Serialized, SerialInv, [Next]_vars
  PROVE  OneOpen' /\ \A p \in Sessions : tx'[p].open => Owns(p)'
<1>1. /\ SessionInv /\ OneOpen /\ Typed /\ \A p \in Sessions : Written(p)
      /\ \A p \in Sessions : tx[p].open => Owns(p)
  BY DEF SerialInv, SessionInv, AccountInv
<1>2. CASE Tick
  <2>1. \A p \in Sessions : Undisturbed(p)
    BY <1>1, <1>2, TickBeside
  <2>2. \A p \in Sessions : tx'[p].open <=> tx[p].open
    BY <2>1 DEF Undisturbed
  <2> QED
    BY <1>1, <2>1, <2>2, UndisturbedOwns DEF OneOpen
<1>3. CASE UNCHANGED vars
  BY <1>1, <1>3 DEF vars, OneOpen, Owns, EntryRef
<1>4. ASSUME NEW p \in Sessions, Acts(p)
      PROVE  OneOpen' /\ \A q \in Sessions : tx'[q].open => Owns(q)'
  <2>1. \A q \in Others(p) : tx'[q] = tx[q]
    BY <1>1, <1>4, ActsKept DEF Kept
  <2>2. tx'[p].open => Owns(p)' /\ (tx[p].open \/ ConnectionFree)
    BY <1>4, ActsOwns
  <2>3. OneOpen'
    BY <1>1, <2>1, <2>2 DEF OneOpen, Others, ConnectionFree
  <2>4. ASSUME NEW q \in Sessions, q # p, tx'[q].open PROVE Owns(q)'
    <3>1. tx[q].open /\ Owns(q) /\ Written(q) /\ p \in Others(q)
      BY <1>1, <2>1, <2>4 DEF Others
    <3>2. Undisturbed(q)
      BY <1>1, <1>4, <3>1, ActsBeside
    <3> QED
      BY <1>1, <3>1, <3>2, UndisturbedOwns
  <2> QED
    BY <2>2, <2>3, <2>4
<1> QED
  BY <1>2, <1>3, <1>4, NextActs

\* A sign-up whose user nobody else can create meanwhile, and which waits for no
\* lock, is answered 500 only by a fault.
LEMMA AnswerStep ==
  ASSUME Serialized, SerialInv, [Next]_vars
  PROVE  NoSpuriousError'
<1>1. SessionInv /\ OneOpen /\ Typed /\ TypeOK /\ \A p \in Sessions : tx[p].open => Owns(p)
  BY DEF SerialInv, SessionInv, AccountInv, Typed
<1> SUFFICES ASSUME faults' = 0, NEW c \in Clients PROVE pc'[c] # "ServerError"
  BY DEF NoSpuriousError
<1>2. c \in Sessions /\ c \notin Admins /\ c \notin Schedulers /\ Written(c)
  BY <1>1, RolesAssumption DEF Sessions, SessionInv
<1>3. ASSUME faults = 0 PROVE pc[c] # "ServerError"
  BY <1>3 DEF SerialInv, NoSpuriousError
<1>4. faults \in Nat
  BY <1>1 DEF TypeOK
<1>5. \A p \in Sessions : ~Fault(p) /\ ~CommitUnacknowledged(p) /\ ~Crash(p)
  BY <1>4 DEF Fault, CommitUnacknowledged, Crash
<1>6. CASE UNCHANGED <<pc, faults>>
  BY <1>3, <1>6
<1>7. ASSUME NEW p \in Sessions, Acts(p) PROVE pc'[c] # "ServerError"
  <2>1. ~DeadlockVictim(p)
    BY <1>1, NobodyWaits DEF DeadlockVictim
  <2>2. faults' = faults
    BY <1>5, <1>7, <2>1
    DEF Acts, AddStep, AddLookup, AddCreate, AddInsert, AddCommit,
        GrantStep, GrantAccess, GrantCommit, GrantNotify, AdminRequest, GrantDelete, Revoke,
        DeleteWaitlist, Poll, CheckAllProjects, ProcessProject, BatchStep, FetchEntries,
        BatchBegin, BatchGrant, BatchDelete, BatchStamp, BatchCommit, BatchNotify
  <2>3. CASE p # c
    <3>1. pc'[c] = pc[c]
      BY <1>1, <1>2, <1>7, <2>3, ActsKept DEF Kept, Others
    <3> QED
      BY <1>3, <2>2, <3>1
  <2>4. CASE p = c
    <3>1. AddStep(c) \/ \E a \in Accounts : AddLookup(c, a)
      BY <1>2, <1>5, <1>7, <2>1, <2>4 DEF Acts
    <3>2. CASE AddCreate(c)
      <4>1. pc[c] = "create" /\ tx[c].open
        BY <1>2, <3>2 DEF AddCreate, Written, TxSteps, AddSteps
      <4>2. ~user[acct[c]].known
        BY <1>1, <1>2, <4>1 DEF Owns
      <4> QED
        BY <1>1, <1>2, <3>2, <4>2 DEF AddCreate, Goto, TypeOK
    <3>3. CASE AddInsert(c) \/ AddCommit(c) \/ \E a \in Accounts : AddLookup(c, a)
      BY <1>1, <1>2, <3>3 DEF AddInsert, AddCommit, AddLookup, Finish, Goto, TypeOK
    <3> QED
      BY <3>1, <3>2, <3>3 DEF AddStep
  <2> QED
    BY <2>3, <2>4
<1>8. CASE Tick \/ UNCHANGED vars
  BY <1>6, <1>8 DEF Tick, vars
<1> QED
  BY <1>7, <1>8, NextActs

LEMMA SerialInit == Init => SerialInv
<1> SUFFICES ASSUME Init PROVE SerialInv
  OBVIOUS
<1>1. \A p \in Sessions : ~tx[p].open /\ pc[p] = "idle"
  BY DEF Init, StoreInit, NoTx
<1>2. Clients \subseteq Sessions
  BY DEF Sessions
<1> QED
  BY <1>1, <1>2, SessionInit DEF SerialInv, OneOpen, NoSpuriousError

LEMMA SerialStep ==
  ASSUME Serialized
  PROVE  SerialInv /\ [Next]_vars => SerialInv'
<1> SUFFICES ASSUME SerialInv, [Next]_vars PROVE SerialInv'
  OBVIOUS
<1>1. SessionInv'
  BY SessionStep DEF SerialInv
<1> QED
  BY <1>1, OneOpenStep, AnswerStep DEF SerialInv

\* On SQLite, for any number of requests, schedulers and faults: one transaction is
\* open at a time, and what it has read is true until it commits.
THEOREM OneConnection ==
  ASSUME Serialized
  PROVE  Spec => []SerialInv
BY SerialInit, SerialStep, PTL DEF Spec

\* On SQLite a sign-up is answered 500 only if something failed.  (On PostgreSQL two
\* sign-ups with one address race for its unique key, and the later one is answered 500.)
THEOREM SignupsAreAnswered ==
  ASSUME Serialized
  PROVE  Spec => []NoSpuriousError
<1>1. SerialInv => NoSpuriousError
  BY DEF SerialInv
<1> QED
  BY <1>1, OneConnection, PTL

\* What a sign-up's commit puts on the list, and whether its user has access then.
LEMMA EnlistStep ==
  ASSUME Serialized, SerialInv, Next, NEW a \in Accounts, ~entry[a].on, entry'[a].on
  PROVE  ~user[a].access
<1>1. SessionInv /\ Typed /\ TypeOK /\ \A p \in Sessions : tx[p].open => Owns(p)
  BY DEF SerialInv, SessionInv, AccountInv, Typed
<1>2. ASSUME NEW p \in Sessions, Commit(p), pc[p] \in {"addCommit", "grantCommit", "batchCommit"}
      PROVE  ~user[a].access
  <2>1. Written(p) /\ tx[p].open /\ Owns(p)
    BY <1>1, <1>2 DEF SessionInv, Written, TxSteps, AddSteps, GrantSteps, BatchSteps
  <2>2. entry'[a] = CommittedEntry(p, a) /\ entry[a] \in Entries
    BY <1>1, <1>2 DEF Commit, TypeOK, StoreTypeOK
  <2>3. a \in tx[p].add
    BY <2>2 DEF CommittedEntry, Entries
  <2>4. a = acct[p] /\ p \in Clients
    BY <2>1, <2>3 DEF Written, InRole, AddSteps
  <2> QED
    BY <2>1, <2>4 DEF Owns
<1>3. ASSUME NEW d \in Admins, NEW b \in Accounts, DeleteWaitlist(d, b) PROVE FALSE
  <2>1. entry' = [entry EXCEPT ![b].on = FALSE]
    BY <1>3 DEF DeleteWaitlist, DeleteByID, EntryRef
  <2> QED
    BY <1>1, <2>1 DEF TypeOK, StoreTypeOK, Entries
<1>4. CASE Tick
  BY <1>1, <1>4, TickBeside DEF Undisturbed, Sessions, Tick, Clock, TypeOK, StoreTypeOK, Entries
<1>5. ASSUME NEW p \in Sessions, Acts(p) PROVE ~user[a].access
  <2>1. CASE entry' = entry
    BY <2>1
  <2>2. \/ AddCommit(p) \/ GrantCommit(p) \/ BatchCommit(p) \/ CommitUnacknowledged(p)
        => ~user[a].access
    BY <1>2 DEF AddCommit, GrantCommit, BatchCommit, CommitUnacknowledged
  <2> QED
    BY <1>3, <1>5, <2>1, <2>2
    DEF Acts, AddStep, AddLookup, AddCreate, AddInsert,
        GrantStep, GrantAccess, GrantNotify, AdminRequest, GrantDelete, Revoke, RevokeAccess,
        Poll, CheckAllProjects, ProcessProject, BatchStep, FetchEntries,
        BatchBegin, BatchGrant, BatchDelete, BatchStamp, BatchNotify, Crash,
        DeadlockVictim, Fault
<1> QED
  BY <1>4, <1>5, NextActs

\* On SQLite nobody is put on the list who has access.  (On PostgreSQL a grant may
\* commit between the check of a sign-up and its commit: run stale_signup.)
THEOREM NobodyEnlistsWithAccess ==
  ASSUME Serialized
  PROVE  Spec => NoEnlistWithAccess
<1>1. SerialInv /\ [Next]_vars =>
        [\A a \in Accounts : ~entry[a].on /\ entry'[a].on => ~user[a].access]_vars
  BY EnlistStep DEF vars
<1> QED
  BY <1>1, OneConnection, PTL DEF Spec, NoEnlistWithAccess
=============================================================================
