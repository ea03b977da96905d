---------------------------- MODULE SessionProofs ----------------------------
(***************************************************************************)
(* What the open transaction of a session holds at each of its statements, *)
(* and what follows for sessions that wait for each other: the deadlocks   *)
(* of module Waitlist, and the promises of an engine that has one          *)
(* connection.                                                             *)
(*                                                                         *)
(* The invariant is exact: a transaction has written what the statements   *)
(* before this one write, and nothing else (Written).  AccountProofs says  *)
(* how those writes fit the tables.                                        *)
(***************************************************************************)
EXTENDS AccountProofs

AddSteps   == {"create", "insert", "addCommit"}
GrantSteps == {"access", "grantCommit"}
BatchSteps == {"grant", "delete", "stamp", "batchCommit"}
TxSteps    == AddSteps \cup GrantSteps \cup BatchSteps

\* A session takes the steps of its role.
InRole(p) ==
  /\ pc[p] \in AddSteps => p \in Clients
  /\ pc[p] \in GrantSteps \cup {"grantNotify"} => p \in Admins
  /\ pc[p] \in BatchSteps \cup {"fetch", "begin", "batchNotify"} => p \in Schedulers

Written(p) ==
  /\ InRole(p)
  /\ tx[p].open <=> pc[p] \in TxSteps
  /\ tx[p].create \subseteq IF pc[p] \in {"insert", "addCommit"} THEN {acct[p]} ELSE {}
  /\ tx[p].add = IF pc[p] = "addCommit" THEN {acct[p]} ELSE {}
  /\ tx[p].del # {} => pc[p] \in {"access", "grantCommit", "delete", "stamp", "batchCommit"}
  /\ tx[p].grant \subseteq IF pc[p] = "grantCommit" THEN {acct[p]}
                           ELSE IF pc[p] \in BatchSteps THEN UsersToAllow(p)
                           ELSE {}
  /\ pc[p] = "grantCommit" => acct[p] \in tx[p].grant
  /\ pc[p] \in {"delete", "stamp", "batchCommit"} => UsersToAllow(p) \subseteq tx[p].grant
  /\ tx[p].by = IF pc[p] = "grantCommit" THEN "admin"
                ELSE IF pc[p] \in {"delete", "stamp", "batchCommit"} \/ tx[p].grant # {}
                THEN "scheduler" ELSE "none"
  /\ tx[p].stamp = IF pc[p] = "batchCommit" THEN {proj[p]} ELSE {}

SessionInv == AccountInv /\ \A p \in Sessions : Written(p)

\* The step of p leaves the transactions and the locals of the others alone.
Kept(p) ==
  \A q \in Others(p) :
    /\ tx'[q] = tx[q] /\ pc'[q] = pc[q]
    /\ q \in Clients \cup Admins => acct'[q] = acct[q]
    /\ q \in Schedulers => batch'[q] = batch[q] /\ proj'[q] = proj[q]

-----------------------------------------------------------------------------
(* Steps of one session *)

LEMMA KeptWritten ==
  ASSUME NEW q \in Sessions, Written(q), tx'[q] = tx[q], pc'[q] = pc[q],
         q \in Clients \cup Admins => acct'[q] = acct[q],
         q \in Schedulers => batch'[q] = batch[q] /\ proj'[q] = proj[q]
  PROVE  Written(q)'
<1>1. q \in Schedulers => UsersToAllow(q)' = UsersToAllow(q)
  BY DEF UsersToAllow
<1>2. pc[q] \in AddSteps \cup GrantSteps => acct'[q] = acct[q]
  BY DEF Written, InRole
<1>3. pc[q] \in BatchSteps => UsersToAllow(q)' = UsersToAllow(q) /\ proj'[q] = proj[q]
  BY <1>1 DEF Written, InRole
<1> QED
  BY <1>2, <1>3 DEF Written, InRole, AddSteps, GrantSteps, BatchSteps

LEMMA OwnStep ==
  ASSUME \A q \in Sessions : Written(q), NEW p \in Sessions, Kept(p), Written(p)'
  PROVE  \A q \in Sessions : Written(q)'
<1>1. ASSUME NEW q \in Sessions, q # p PROVE Written(q)'
  BY <1>1, KeptWritten DEF Kept, Others
<1> QED
  BY <1>1

\* A session that has no transaction, and is at no statement of one.
NothingWritten(p) ==
  /\ ~tx[p].open /\ tx[p].create = {} /\ tx[p].add = {} /\ tx[p].del = {}
  /\ tx[p].grant = {} /\ tx[p].by = "none" /\ tx[p].stamp = {}

LEMMA NoTxWrites ==
  ASSUME TypeOK, NEW p \in Sessions, Rollback(p)
  PROVE  NothingWritten(p)' /\ \A q \in Others(p) : tx'[q] = tx[q]
BY DEF TypeOK, StoreTypeOK, Rollback, NoTx, NothingWritten, Others

\* Who is at no statement of a transaction has written nothing.
LEMMA OutsideTx ==
  ASSUME NEW p \in Sessions, Written(p), pc[p] \notin TxSteps
  PROVE  NothingWritten(p)
BY DEF Written, NothingWritten, TxSteps, AddSteps, GrantSteps, BatchSteps

LEMMA WrittenOutside ==
  ASSUME NEW p \in Sessions, NothingWritten(p), pc[p] \notin TxSteps, InRole(p)
  PROVE  Written(p)
BY DEF Written, NothingWritten, TxSteps, AddSteps, GrantSteps, BatchSteps

\* A session that ends: its transaction is over, or was not open.
LEMMA FinishWritten ==
  ASSUME Typed, \A q \in Sessions : Written(q), NEW p \in Sessions, NEW step \in Waiting,
         Finish(p, step), NothingWritten(p)', \A q \in Others(p) : tx'[q] = tx[q]
  PROVE  \A q \in Sessions : Written(q)'
<1>1. /\ pc' = [pc EXCEPT ![p] = step] /\ pc \in [Sessions -> Steps]
      /\ \A q \in Clients \cup Admins : q # p => acct'[q] = acct[q]
      /\ \A s \in Schedulers : s # p => proj'[s] = proj[s] /\ batch'[s] = batch[s]
  BY FinishTyped DEF Typed, TypeOK
<1>2. pc'[p] \in Waiting /\ \A q \in Others(p) : pc'[q] = pc[q]
  BY <1>1 DEF Others
<1>3. Kept(p)
  BY <1>1, <1>2 DEF Kept, Others
<1>4. pc'[p] \notin TxSteps /\ InRole(p)'
  BY <1>2 DEF Waiting, Answers, InRole, TxSteps, AddSteps, GrantSteps, BatchSteps
<1>5. Written(p)'
  BY <1>4, WrittenOutside DEF NothingWritten, Written, TxSteps, AddSteps, GrantSteps, BatchSteps
<1> QED
  BY <1>3, <1>5, OwnStep

\* A session that gives up or is over with a commit.
LEMMA EndedWritten ==
  ASSUME Typed, \A q \in Sessions : Written(q), NEW p \in Sessions, NEW step \in Waiting,
         Finish(p, step), Rollback(p)
  PROVE  \A q \in Sessions : Written(q)'
BY NoTxWrites, FinishWritten DEF Typed

\* A session that goes on to its next step, and changes nobody's locals but its own.
LEMMA GotoWritten ==
  ASSUME Typed, \A q \in Sessions : Written(q), NEW p \in Sessions, NEW step, Goto(p, step),
         \A q \in Others(p) : tx'[q] = tx[q],
         \A q \in (Clients \cup Admins) \ {p} : acct'[q] = acct[q],
         \A s \in Schedulers \ {p} : batch'[s] = batch[s] /\ proj'[s] = proj[s],
         pc'[p] = step => Written(p)'
  PROVE  \A q \in Sessions : Written(q)'
<1>1. pc'[p] = step /\ \A q \in Others(p) : pc'[q] = pc[q]
  BY DEF Goto, Typed, TypeOK, Others
<1>2. Kept(p)
  BY <1>1 DEF Kept, Others
<1> QED
  BY <1>1, <1>2, OwnStep

\* One statement of a transaction that is open.
LEMMA StatementKeeps ==
  ASSUME TypeOK, NEW p \in Sessions,
         \/ \E a : CreateTx(p, a) \/ Add(p, a)
         \/ \E A, source : GrantAccessTx(p, A, source)
         \/ \E R : DeleteByIDsTx(p, R)
         \/ \E j : UpdateLastSuccess(p, j)
  PROVE  (tx'[p].open <=> tx[p].open) /\ \A q \in Others(p) : tx'[q] = tx[q]
<1>1. tx \in [Sessions -> Transactions] /\ tx[p] \in Transactions
  BY DEF TypeOK, StoreTypeOK
<1>2. \A q \in Others(p) : tx'[q] = tx[q]
  BY <1>1 DEF CreateTx, Add, GrantAccessTx, DeleteByIDsTx, UpdateLastSuccess, Others
<1>3. CASE \E a : CreateTx(p, a)
  BY <1>1, <1>2, <1>3 DEF CreateTx, Transactions
<1>4. CASE \E a : Add(p, a)
  <2>1. PICK a : tx'[p] = [tx[p] EXCEPT !.add = {a}, !.age = NowAge(p)]
    BY <1>1, <1>4 DEF Add
  <2> QED
    BY <1>1, <1>2, <2>1 DEF Transactions
<1>5. CASE \E A, source : GrantAccessTx(p, A, source)
  BY <1>1, <1>2, <1>5 DEF GrantAccessTx, Transactions
<1>6. CASE \E R : DeleteByIDsTx(p, R)
  BY <1>1, <1>2, <1>6 DEF DeleteByIDsTx, Transactions
<1>7. CASE \E j : UpdateLastSuccess(p, j)
  <2>1. PICK j : tx'[p] = [tx[p] EXCEPT !.stamp = {j}, !.age = NowAge(p)]
    BY <1>1, <1>7 DEF UpdateLastSuccess
  <2> QED
    BY <1>1, <1>2, <2>1 DEF Transactions
<1> QED
  BY <1>3, <1>4, <1>5, <1>6, <1>7

LEMMA BegunWrites ==
  ASSUME TypeOK, NEW p \in Sessions,
         \/ tx' = [tx EXCEPT ![p] = Begun]
         \/ \E D : tx' = [tx EXCEPT ![p] = [Begun EXCEPT !.del = D]]
  PROVE  /\ tx'[p].open /\ tx'[p].create = {} /\ tx'[p].add = {}
         /\ tx'[p].grant = {} /\ tx'[p].by = "none" /\ tx'[p].stamp = {}
         /\ tx' = [tx EXCEPT ![p] = Begun] => tx'[p].del = {}
         /\ \A q \in Others(p) : tx'[q] = tx[q]
<1>1. CASE tx' = [tx EXCEPT ![p] = Begun]
  BY <1>1 DEF TypeOK, StoreTypeOK, Others, NoTx, Begun
<1>2. CASE \E D : tx' = [tx EXCEPT ![p] = [Begun EXCEPT !.del = D]]
  <2>1. PICK D : tx' = [tx EXCEPT ![p] = [Begun EXCEPT !.del = D]]
    BY <1>2
  <2>2. /\ tx'[p].open /\ tx'[p].create = {} /\ tx'[p].add = {} /\ tx'[p].del = D
        /\ tx'[p].grant = {} /\ tx'[p].by = "none" /\ tx'[p].stamp = {}
        /\ \A q \in Others(p) : tx'[q] = tx[q]
    BY <2>1 DEF TypeOK, StoreTypeOK, Others, NoTx, Begun
  <2>3. tx' = [tx EXCEPT ![p] = Begun] => tx'[p].del = {}
    BY DEF TypeOK, StoreTypeOK, NoTx, Begun
  <2> QED
    BY <2>2, <2>3
<1> QED
  BY <1>1, <1>2

-----------------------------------------------------------------------------
(* Each action *)

LEMMA ClientWritten ==
  ASSUME Typed, \A q \in Sessions : Written(q), NEW c \in Clients,
         AddStep(c) \/ \E a \in Accounts : AddLookup(c, a)
  PROVE  \A q \in Sessions : Written(q)'
<1>1. c \in Sessions /\ c \notin Admins /\ c \notin Schedulers
  BY RolesAssumption DEF Sessions
<1>2. TypeOK /\ Written(c)
  BY <1>1 DEF Typed
<1>3. ASSUME NEW a \in Accounts, AddLookup(c, a)
      PROVE  \A q \in Sessions : Written(q)'
  <2>1. batch' = batch /\ proj' = proj /\ ~Busy(c)
    BY <1>3 DEF AddLookup
  <2>2. CASE user[a].access
    <3>1. Goto(c, "ResetContent") /\ tx' = tx /\ acct' = acct
      BY <1>3, <2>2 DEF AddLookup
    <3>2. NothingWritten(c)
      BY <1>1, <1>2, <2>1, OutsideTx
      DEF Busy, Waiting, Answers, TxSteps, AddSteps, GrantSteps, BatchSteps
    <3>3. pc'[c] = "ResetContent" => Written(c)'
      BY <3>1, <3>2
      DEF NothingWritten, Written, InRole, TxSteps, AddSteps, GrantSteps, BatchSteps
    <3> QED
      BY <1>1, <2>1, <3>1, <3>3, GotoWritten
  <2>3. CASE ~user[a].access
    <3> DEFINE step == IF user[a].known THEN "insert" ELSE "create"
    <3>1. Goto(c, step) /\ acct' = [acct EXCEPT ![c] = a] /\ tx' = [tx EXCEPT ![c] = Begun]
      BY <1>3, <2>3 DEF AddLookup
    <3>2. /\ tx'[c].open /\ tx'[c].create = {} /\ tx'[c].add = {} /\ tx'[c].del = {}
          /\ tx'[c].grant = {} /\ tx'[c].by = "none" /\ tx'[c].stamp = {}
          /\ \A q \in Others(c) : tx'[q] = tx[q]
      BY <1>1, <1>2, <3>1, BegunWrites
    <3>3. step \in {"insert", "create"}
      OBVIOUS
    <3> HIDE DEF step
    <3>4. pc'[c] = step => Written(c)'
      BY <1>1, <3>2, <3>3 DEF Written, InRole, TxSteps, AddSteps, GrantSteps, BatchSteps
    <3>5. \A q \in (Clients \cup Admins) \ {c} : acct'[q] = acct[q]
      BY <1>2, <3>1 DEF TypeOK
    <3> QED
      BY <1>1, <2>1, <3>1, <3>2, <3>4, <3>5, GotoWritten
  <2> QED
    BY <2>2, <2>3
<1>4. CASE AddCreate(c)
  <2>1. CASE Abort(c) /\ Rollback(c)
    BY <1>1, <2>1, AbortTyped, EndedWritten
  <2>2. CASE Goto(c, "insert") /\ CreateTx(c, acct[c]) /\ UNCHANGED localVars
    <3>1. /\ tx'[c].create = {acct[c]} /\ SameAdd(c) /\ SameDel(c) /\ SameGrant(c) /\ SameStamp(c)
          /\ (tx'[c].open <=> tx[c].open) /\ \A q \in Others(c) : tx'[q] = tx[q]
      BY <1>1, <1>2, <2>2, CreateEffect, StatementKeeps
    <3>2. pc[c] = "create" /\ acct' = acct /\ batch' = batch /\ proj' = proj
      BY <1>4, <2>2 DEF AddCreate, localVars
    <3>3. pc'[c] = "insert" => Written(c)'
      BY <1>1, <1>2, <3>1, <3>2
      DEF Written, InRole, TxSteps, AddSteps, GrantSteps, BatchSteps,
          SameAdd, SameDel, SameGrant, SameStamp
    <3> QED
      BY <1>1, <2>2, <3>1, <3>2, <3>3, GotoWritten
  <2> QED
    BY <1>4, <2>1, <2>2 DEF AddCreate
<1>5. CASE AddInsert(c)
  <2>1. CASE Finish(c, "Conflict") /\ Rollback(c)
    <3>1. "Conflict" \in Waiting
      BY DEF Waiting, Answers
    <3> QED
      BY <1>1, <2>1, <3>1, EndedWritten
  <2>2. CASE Goto(c, "addCommit") /\ Add(c, acct[c]) /\ UNCHANGED localVars
    <3>1. /\ tx'[c].add = {acct[c]} /\ SameCreate(c) /\ SameDel(c) /\ SameGrant(c) /\ SameStamp(c)
          /\ (tx'[c].open <=> tx[c].open) /\ \A q \in Others(c) : tx'[q] = tx[q]
      BY <1>1, <1>2, <2>2, AddEffect, StatementKeeps
    <3>2. pc[c] = "insert" /\ acct' = acct /\ batch' = batch /\ proj' = proj
      BY <1>5, <2>2 DEF AddInsert, localVars
    <3>3. pc'[c] = "addCommit" => Written(c)'
      BY <1>1, <1>2, <3>1, <3>2
      DEF Written, InRole, TxSteps, AddSteps, GrantSteps, BatchSteps,
          SameCreate, SameDel, SameGrant, SameStamp
    <3> QED
      BY <1>1, <2>2, <3>1, <3>2, <3>3, GotoWritten
  <2> QED
    BY <1>5, <2>1, <2>2 DEF AddInsert
<1>6. CASE AddCommit(c)
  <2>1. Finish(c, "Created") /\ Rollback(c) /\ "Created" \in Waiting
    BY <1>6 DEF AddCommit, Commit, Waiting, Answers
  <2> QED
    BY <1>1, <2>1, EndedWritten
<1> QED
  BY <1>3, <1>4, <1>5, <1>6 DEF AddStep

LEMMA AdminWritten ==
  ASSUME Typed, \A q \in Sessions : Written(q), NEW d \in Admins,
         GrantStep(d) \/ AdminRequest(d)
  PROVE  \A q \in Sessions : Written(q)'
<1>1. d \in Sessions /\ d \notin Clients /\ d \notin Schedulers
  BY RolesAssumption DEF Sessions
<1>2. TypeOK /\ Written(d)
  BY <1>1 DEF Typed
<1>3. ASSUME NEW a \in Accounts \cup {NoAccount}, GrantDelete(d, a)
      PROVE  \A q \in Sessions : Written(q)'
  <2>1. /\ batch' = batch /\ proj' = proj /\ Goto(d, "access") /\ acct' = [acct EXCEPT ![d] = a]
        /\ \/ tx' = [tx EXCEPT ![d] = Begun]
           \/ \E D : tx' = [tx EXCEPT ![d] = [Begun EXCEPT !.del = D]]
    BY <1>3 DEF GrantDelete
  <2>2. /\ tx'[d].open /\ tx'[d].create = {} /\ tx'[d].add = {}
        /\ tx'[d].grant = {} /\ tx'[d].by = "none" /\ tx'[d].stamp = {}
        /\ \A q \in Others(d) : tx'[q] = tx[q]
    BY <1>1, <1>2, <2>1, BegunWrites
  <2>3. pc'[d] = "access" => Written(d)'
    BY <1>1, <2>2 DEF Written, InRole, TxSteps, AddSteps, GrantSteps, BatchSteps
  <2>4. \A q \in (Clients \cup Admins) \ {d} : acct'[q] = acct[q]
    BY <1>2, <2>1 DEF TypeOK
  <2> QED
    BY <1>1, <2>1, <2>2, <2>3, <2>4, GotoWritten
<1>4. CASE GrantAccess(d)
  <2>1. CASE Finish(d, "idle") /\ Rollback(d)
    <3>1. "idle" \in Waiting
      BY DEF Waiting
    <3> QED
      BY <1>1, <2>1, <3>1, EndedWritten
  <2>2. CASE /\ Goto(d, "grantCommit") /\ GrantAccessTx(d, {acct[d]}, "admin")
             /\ UNCHANGED localVars
    <3>1. /\ tx'[d].grant = {acct[d]} /\ tx'[d].by = "admin"
          /\ SameCreate(d) /\ SameAdd(d) /\ SameDel(d) /\ SameStamp(d)
          /\ (tx'[d].open <=> tx[d].open) /\ \A q \in Others(d) : tx'[q] = tx[q]
      BY <1>1, <1>2, <2>2, GrantEffect, StatementKeeps
    <3>2. pc[d] = "access" /\ acct' = acct /\ batch' = batch /\ proj' = proj
      BY <1>4, <2>2 DEF GrantAccess, localVars
    <3>3. pc'[d] = "grantCommit" => Written(d)'
      BY <1>1, <1>2, <3>1, <3>2
      DEF Written, InRole, TxSteps, AddSteps, GrantSteps, BatchSteps,
          SameCreate, SameAdd, SameDel, SameStamp
    <3> QED
      BY <1>1, <2>2, <3>1, <3>2, <3>3, GotoWritten
  <2> QED
    BY <1>4, <2>1, <2>2 DEF GrantAccess
<1>5. CASE GrantCommit(d)
  <2>1. /\ Goto(d, "grantNotify") /\ Rollback(d)
        /\ acct' = acct /\ batch' = batch /\ proj' = proj
    BY <1>5 DEF GrantCommit, Commit
  <2>2. NothingWritten(d)' /\ \A q \in Others(d) : tx'[q] = tx[q]
    BY <1>1, <1>2, <2>1, NoTxWrites
  <2>3. pc'[d] = "grantNotify" => Written(d)'
    BY <1>1, <2>2
    DEF NothingWritten, Written, InRole, TxSteps, AddSteps, GrantSteps, BatchSteps
  <2> QED
    BY <1>1, <2>1, <2>2, <2>3, GotoWritten
<1>6. CASE GrantNotify(d)
  <2>1. Finish(d, "idle") /\ tx' = tx /\ "idle" \in Waiting /\ pc[d] = "grantNotify"
    BY <1>6 DEF GrantNotify, Waiting
  <2>2. NothingWritten(d)
    BY <1>1, <1>2, <2>1, OutsideTx DEF TxSteps, AddSteps, GrantSteps, BatchSteps
  <2>3. NothingWritten(d)' /\ \A q \in Others(d) : tx'[q] = tx[q]
    BY <2>1, <2>2 DEF NothingWritten
  <2> QED
    BY <1>1, <2>1, <2>3, FinishWritten
<1>7. ASSUME NEW a \in Accounts, Revoke(d, a) \/ DeleteWaitlist(d, a)
      PROVE  \A q \in Sessions : Written(q)'
  <2>1. UNCHANGED <<tx, pc, acct, proj, batch>>
    BY <1>7 DEF Revoke, RevokeAccess, DeleteWaitlist, DeleteByID
  <2> QED
    BY <2>1, KeptWritten
<1> QED
  BY <1>3, <1>4, <1>5, <1>6, <1>7 DEF GrantStep, AdminRequest

LEMMA SchedulerWritten ==
  ASSUME Typed, \A q \in Sessions : Written(q), NEW s \in Schedulers, Poll(s) \/ BatchStep(s)
  PROVE  \A q \in Sessions : Written(q)'
<1>1. s \in Sessions /\ s \notin Clients /\ s \notin Admins
  BY RolesAssumption DEF Sessions
<1>2. TypeOK /\ Written(s)
  BY <1>1 DEF Typed
<1>3. \A q \in Schedulers \ {s} : q \in Sessions
  BY DEF Sessions
<1>4. CASE CheckAllProjects(s)
  BY <1>4, KeptWritten DEF CheckAllProjects
<1>5. ASSUME NEW j \in Projects, ProcessProject(s, j)
      PROVE  \A q \in Sessions : Written(q)'
  <2>1. UNCHANGED <<tx, acct, batch>> /\ pc[s] = "idle"
    BY <1>5 DEF ProcessProject
  <2>2. CASE UNCHANGED <<pc, proj>>
    BY <2>1, <2>2, KeptWritten
  <2>3. CASE Goto(s, "fetch") /\ proj' = [proj EXCEPT ![s] = j]
    <3>1. NothingWritten(s)
      BY <1>1, <1>2, <2>1, OutsideTx DEF TxSteps, AddSteps, GrantSteps, BatchSteps
    <3>2. pc'[s] = "fetch" => Written(s)'
      BY <1>1, <2>1, <3>1
      DEF NothingWritten, Written, InRole, TxSteps, AddSteps, GrantSteps, BatchSteps
    <3>3. \A q \in Schedulers \ {s} : proj'[q] = proj[q]
      BY <1>2, <2>3 DEF TypeOK
    <3> QED
      BY <1>1, <2>1, <2>3, <3>2, <3>3, GotoWritten
  <2> QED
    BY <1>5, <2>2, <2>3 DEF ProcessProject
<1>6. CASE FetchEntries(s)
  <2>1. tx' = tx /\ pc[s] = "fetch"
    BY <1>6 DEF FetchEntries
  <2>2. NothingWritten(s) /\ NothingWritten(s)' /\ \A q \in Others(s) : tx'[q] = tx[q]
    <3>1. NothingWritten(s)
      BY <1>1, <1>2, <2>1, OutsideTx DEF TxSteps, AddSteps, GrantSteps, BatchSteps
    <3> QED
      BY <2>1, <3>1 DEF NothingWritten
  <2>3. CASE Finish(s, "idle")
    <3>1. "idle" \in Waiting
      BY DEF Waiting
    <3> QED
      BY <1>1, <2>2, <2>3, <3>1, FinishWritten
  <2>4. CASE /\ Goto(s, "begin") /\ UNCHANGED <<acct, proj>>
             /\ \E B : batch' = [batch EXCEPT ![s] = B]
    <3>1. pc'[s] = "begin" => Written(s)'
      BY <1>1, <2>2
      DEF NothingWritten, Written, InRole, TxSteps, AddSteps, GrantSteps, BatchSteps
    <3>2. \A q \in Schedulers \ {s} : batch'[q] = batch[q]
      BY <1>2, <2>4 DEF TypeOK
    <3> QED
      BY <1>1, <2>2, <2>4, <3>1, <3>2, GotoWritten
  <2> QED
    BY <1>6, <2>3, <2>4 DEF FetchEntries
<1>7. CASE BatchBegin(s)
  <2>1. UNCHANGED <<acct, batch, proj>> /\ Goto(s, "grant") /\ tx' = [tx EXCEPT ![s] = Begun]
    BY <1>7 DEF BatchBegin
  <2>2. /\ tx'[s].open /\ tx'[s].create = {} /\ tx'[s].add = {} /\ tx'[s].del = {}
        /\ tx'[s].grant = {} /\ tx'[s].by = "none" /\ tx'[s].stamp = {}
        /\ \A q \in Others(s) : tx'[q] = tx[q]
    BY <1>1, <1>2, <2>1, BegunWrites
  <2>3. pc'[s] = "grant" => Written(s)'
    BY <1>1, <2>2 DEF Written, InRole, TxSteps, AddSteps, GrantSteps, BatchSteps
  <2> QED
    BY <1>1, <2>1, <2>2, <2>3, GotoWritten
<1>8. CASE BatchGrant(s)
  <2>1. UNCHANGED <<acct, batch, proj>> /\ pc[s] = "grant"
    BY <1>8 DEF BatchGrant
  <2>2. PICK a \in UsersToAllow(s) :
          /\ GrantAccessTx(s, tx[s].grant \cup {a}, "scheduler")
          /\ Goto(s, IF UsersToAllow(s) \subseteq tx[s].grant \cup {a} THEN "delete" ELSE "grant")
    BY <1>8 DEF BatchGrant
  <2> DEFINE step == IF UsersToAllow(s) \subseteq tx[s].grant \cup {a} THEN "delete" ELSE "grant"
  <2>3. /\ tx'[s].grant = tx[s].grant \cup {a} /\ tx'[s].by = "scheduler"
        /\ SameCreate(s) /\ SameAdd(s) /\ SameDel(s) /\ SameStamp(s)
        /\ (tx'[s].open <=> tx[s].open) /\ \A q \in Others(s) : tx'[q] = tx[q]
    BY <1>1, <1>2, <2>2, GrantEffect, StatementKeeps
  <2>4. ASSUME pc'[s] = step PROVE Written(s)'
    <3>1. UsersToAllow(s)' = UsersToAllow(s) /\ pc'[s] \in {"grant", "delete"}
      BY <2>1, <2>4 DEF UsersToAllow
    <3>2. tx'[s].grant \subseteq UsersToAllow(s) /\ tx'[s].grant # {}
      BY <1>1, <2>1, <2>3 DEF Written, BatchSteps
    <3>3. pc'[s] = "delete" => UsersToAllow(s) \subseteq tx'[s].grant
      BY <2>3, <2>4
    <3>4. /\ tx[s].open /\ tx[s].create = {} /\ tx[s].add = {} /\ tx[s].del = {}
          /\ tx[s].stamp = {} /\ InRole(s)
      BY <1>1, <2>1 DEF Written, TxSteps, BatchSteps
    <3>5. /\ tx'[s].open /\ tx'[s].create = {} /\ tx'[s].add = {} /\ tx'[s].del = {}
          /\ tx'[s].stamp = {}
      BY <2>3, <3>4 DEF SameCreate, SameAdd, SameDel, SameStamp
    <3>6. InRole(s)'
      BY <3>1, <1>1 DEF InRole, AddSteps, GrantSteps, BatchSteps
    <3> QED
      BY <2>3, <3>1, <3>2, <3>3, <3>5, <3>6 DEF Written, TxSteps, AddSteps, GrantSteps, BatchSteps
  <2>5. Goto(s, step)
    BY <2>2
  <2> HIDE DEF step
  <2> QED
    BY <1>1, <2>1, <2>3, <2>4, <2>5, GotoWritten
<1>9. CASE BatchDelete(s)
  <2>1. UNCHANGED <<acct, batch, proj>> /\ pc[s] = "delete" /\ UsersToAllow(s)' = UsersToAllow(s)
    BY <1>9 DEF BatchDelete, UsersToAllow
  <2>2. CASE Goto(s, "stamp") /\ UNCHANGED tx
    <3>1. ASSUME pc'[s] = "stamp" PROVE Written(s)'
      <4>1. /\ tx[s].open /\ tx[s].create = {} /\ tx[s].add = {} /\ tx[s].stamp = {}
            /\ tx[s].grant \subseteq UsersToAllow(s) /\ UsersToAllow(s) \subseteq tx[s].grant
            /\ tx[s].by = "scheduler"
        BY <1>2, <2>1 DEF Written, TxSteps, BatchSteps
      <4>2. tx' = tx /\ InRole(s)'
        BY <1>1, <2>2, <3>1 DEF InRole, AddSteps, GrantSteps, BatchSteps
      <4> QED
        BY <2>1, <3>1, <4>1, <4>2 DEF Written, TxSteps, BatchSteps
    <3> QED
      BY <1>1, <2>1, <2>2, <3>1, GotoWritten
  <2>3. CASE UNCHANGED pc /\ \E r \in Left(s) : DeleteByIDsTx(s, tx[s].del \cup {r})
    <3>1. PICK r : DeleteByIDsTx(s, tx[s].del \cup {r})
      BY <2>3
    <3>2. /\ SameCreate(s) /\ SameAdd(s) /\ SameGrant(s) /\ SameStamp(s)
          /\ (tx'[s].open <=> tx[s].open) /\ \A q \in Others(s) : tx'[q] = tx[q]
      BY <1>1, <1>2, <3>1, DeleteEffect, StatementKeeps
    <3>3. pc'[s] = "delete" => Written(s)'
      BY <1>1, <1>2, <2>1, <3>2
      DEF Written, InRole, TxSteps, AddSteps, GrantSteps, BatchSteps,
          SameCreate, SameAdd, SameGrant, SameStamp
    <3>4. Goto(s, "delete")
      BY <1>1, <1>2, <2>1, <2>3 DEF Goto, TypeOK
    <3> QED
      BY <1>1, <2>1, <3>2, <3>3, <3>4, GotoWritten
  <2> QED
    BY <1>9, <2>2, <2>3 DEF BatchDelete
<1>10. CASE BatchStamp(s)
  <2>1. /\ UNCHANGED <<acct, batch, proj>> /\ Goto(s, "batchCommit") /\ pc[s] = "stamp"
        /\ UpdateLastSuccess(s, proj[s])
    BY <1>10 DEF BatchStamp
  <2>2. /\ tx'[s].stamp = {proj[s]} /\ SameCreate(s) /\ SameAdd(s) /\ SameDel(s) /\ SameGrant(s)
        /\ (tx'[s].open <=> tx[s].open) /\ \A q \in Others(s) : tx'[q] = tx[q]
    BY <1>1, <1>2, <2>1, StampEffect, StatementKeeps
  <2>3. pc'[s] = "batchCommit" => Written(s)'
    BY <1>1, <1>2, <2>1, <2>2
    DEF Written, InRole, TxSteps, AddSteps, GrantSteps, BatchSteps, UsersToAllow,
        SameCreate, SameAdd, SameDel, SameGrant
  <2> QED
    BY <1>1, <2>1, <2>2, <2>3, GotoWritten
<1>11. CASE BatchCommit(s)
  <2>1. UNCHANGED <<acct, batch, proj>> /\ Goto(s, "batchNotify") /\ Rollback(s)
    BY <1>11 DEF BatchCommit, Commit
  <2>2. NothingWritten(s)' /\ \A q \in Others(s) : tx'[q] = tx[q]
    BY <1>1, <1>2, <2>1, NoTxWrites
  <2>3. pc'[s] = "batchNotify" => Written(s)'
    BY <1>1, <2>2
    DEF NothingWritten, Written, InRole, TxSteps, AddSteps, GrantSteps, BatchSteps
  <2> QED
    BY <1>1, <2>1, <2>2, <2>3, GotoWritten
<1>12. CASE BatchNotify(s)
  <2>1. Finish(s, "idle") /\ tx' = tx /\ "idle" \in Waiting /\ pc[s] = "batchNotify"
    BY <1>12 DEF BatchNotify, Waiting
  <2>2. NothingWritten(s)
    BY <1>1, <1>2, <2>1, OutsideTx DEF TxSteps, AddSteps, GrantSteps, BatchSteps
  <2>3. NothingWritten(s)' /\ \A q \in Others(s) : tx'[q] = tx[q]
    BY <2>1, <2>2 DEF NothingWritten
  <2> QED
    BY <1>1, <2>1, <2>3, FinishWritten
<1> QED
  BY <1>4, <1>5, <1>6, <1>7, <1>8, <1>9, <1>10, <1>11, <1>12 DEF Poll, BatchStep

LEMMA FailureWritten ==
  ASSUME Typed, \A q \in Sessions : Written(q), NEW p \in Sessions,
         \/ DeadlockVictim(p) \/ Fault(p) \/ CommitUnacknowledged(p)
         \/ p \in Schedulers /\ Crash(p)
  PROVE  \A q \in Sessions : Written(q)'
<1>1. CASE DeadlockVictim(p) \/ Fault(p) \/ CommitUnacknowledged(p)
  <2>1. Rollback(p) /\ Abort(p)
    BY <1>1 DEF DeadlockVictim, Fault, CommitUnacknowledged, Commit
  <2> QED
    BY <2>1, AbortTyped, EndedWritten
<1>2. CASE p \in Schedulers /\ Crash(p)
  <2>1. /\ Rollback(p) /\ Goto(p, "idle") /\ acct' = acct
        /\ proj' = [proj EXCEPT ![p] = NoProject] /\ batch' = [batch EXCEPT ![p] = {}]
    BY <1>2 DEF Crash
  <2>2. NothingWritten(p)' /\ \A q \in Others(p) : tx'[q] = tx[q]
    BY <2>1, NoTxWrites DEF Typed
  <2>3. \A q \in Schedulers \ {p} : batch'[q] = batch[q] /\ proj'[q] = proj[q]
    BY <2>1 DEF Typed, TypeOK
  <2>4. pc'[p] = "idle" => Written(p)'
    BY <2>2
    DEF NothingWritten, Written, InRole, TxSteps, AddSteps, GrantSteps, BatchSteps
  <2> QED
    BY <2>1, <2>2, <2>3, <2>4, GotoWritten
<1> QED
  BY <1>1, <1>2

LEMMA TickWritten ==
  ASSUME Typed, \A q \in Sessions : Written(q), Tick
  PROVE  \A q \in Sessions : Written(q)'
<1> SUFFICES ASSUME NEW q \in Sessions PROVE Written(q)'
  OBVIOUS
<1>1. SameCreate(q) /\ SameAdd(q) /\ SameDel(q) /\ SameGrant(q) /\ SameStamp(q)
  BY ClockEffect DEF Tick, Typed
<1>2. tx'[q].open <=> tx[q].open
  <2>1. tx \in [Sessions -> Transactions] /\ tx[q] \in Transactions
    BY DEF Typed, TypeOK, StoreTypeOK
  <2>2. tx'[q] = IF tx[q].open THEN [tx[q] EXCEPT !.age = Older(@)] ELSE tx[q]
    BY DEF Tick, Clock
  <2> QED
    BY ONLY <2>1, <2>2, SMT DEF Transactions
<1>3. UNCHANGED <<pc, acct, batch, proj>>
  BY DEF Tick
<1>4. UsersToAllow(q)' = UsersToAllow(q)
  BY <1>3 DEF UsersToAllow
<1>5. InRole(q)'
  BY <1>3 DEF Written, InRole
<1>6. /\ tx'[q].create = tx[q].create /\ tx'[q].add = tx[q].add /\ tx'[q].del = tx[q].del
      /\ tx'[q].grant = tx[q].grant /\ tx'[q].by = tx[q].by /\ tx'[q].stamp = tx[q].stamp
  BY <1>1 DEF SameCreate, SameAdd, SameDel, SameGrant, SameStamp
<1>7. pc'[q] = pc[q] /\ acct'[q] = acct[q] /\ proj'[q] = proj[q]
  BY <1>3
<1>8. Written(q)
  OBVIOUS
<1> QED
  BY ONLY <1>2, <1>4, <1>5, <1>6, <1>7, <1>8, SMT DEF Written

LEMMA SessionInit == Init => SessionInv
<1> SUFFICES ASSUME Init, NEW p \in Sessions PROVE Written(p)
  BY AccountInit DEF SessionInv
<1>1. tx[p] = NoTx /\ pc[p] = "idle"
  BY DEF Init, StoreInit
<1> QED
  BY <1>1 DEF NoTx, Written, InRole, TxSteps, AddSteps, GrantSteps, BatchSteps

LEMMA SessionStep == SessionInv /\ [Next]_vars => SessionInv'
<1> SUFFICES ASSUME SessionInv, [Next]_vars PROVE SessionInv'
  OBVIOUS
<1>1. AccountInv' /\ Typed /\ \A q \in Sessions : Written(q)
  BY AccountStep DEF SessionInv, AccountInv
<1>2. CASE UNCHANGED vars
  BY <1>1, <1>2, KeptWritten DEF SessionInv, vars
<1>3. CASE Next
  <2>1. \A q \in Sessions : Written(q)'
    BY <1>1, <1>3, ClientWritten, AdminWritten, SchedulerWritten, FailureWritten, TickWritten
    DEF Next, Sessions
  <2> QED
    BY <1>1, <2>1 DEF SessionInv
<1> QED
  BY <1>2, <1>3

\* A transaction has written what its session's statements so far write, and no
\* more; none is open outside of the statements from its begin to its commit.
THEOREM TransactionsAreWritten == Spec => []SessionInv
BY SessionInit, SessionStep, PTL DEF Spec

-----------------------------------------------------------------------------
(* The actions of a session leave the others alone *)

\* The actions of one session.
Acts(p) ==
  \/ p \in Clients /\ (AddStep(p) \/ \E a \in Accounts : AddLookup(p, a))
  \/ p \in Admins /\ (GrantStep(p) \/ AdminRequest(p))
  \/ p \in Schedulers /\ (Poll(p) \/ BatchStep(p) \/ Crash(p))
  \/ DeadlockVictim(p) \/ Fault(p) \/ CommitUnacknowledged(p)

LEMMA FinishKeeps ==
  ASSUME Typed, NEW p \in Sessions, NEW step \in Waiting, Finish(p, step),
         tx' = tx \/ Rollback(p)
  PROVE  Kept(p)
<1>1. /\ pc' = [pc EXCEPT ![p] = step] /\ pc \in [Sessions -> Steps]
      /\ \A q \in Clients \cup Admins : q # p => acct'[q] = acct[q]
      /\ \A s \in Schedulers : s # p => proj'[s] = proj[s] /\ batch'[s] = batch[s]
  BY FinishTyped DEF Typed, TypeOK
<1>2. \A q \in Others(p) : tx'[q] = tx[q]
  BY NoTxWrites DEF Typed
<1> QED
  BY <1>1, <1>2 DEF Kept, Others

LEMMA AbortKeeps ==
  ASSUME Typed, NEW p \in Sessions, Abort(p), Rollback(p)
  PROVE  Kept(p)
BY AbortTyped, FinishKeeps

LEMMA StatementKept ==
  ASSUME Typed, NEW p \in Sessions, NEW step, Goto(p, step), UNCHANGED localVars,
         \A q \in Others(p) : tx'[q] = tx[q]
  PROVE  Kept(p)
BY DEF Goto, localVars, Kept, Others, Typed, TypeOK

LEMMA ActsKept ==
  ASSUME Typed, NEW p \in Sessions, Acts(p)
  PROVE  Kept(p)
<1>1. TypeOK /\ {"idle", "Created", "Conflict"} \subseteq Waiting
  BY DEF Typed, Waiting, Answers
<1>2. CASE p \in Clients /\ \E a \in Accounts : AddLookup(p, a)
  <2>1. /\ batch' = batch /\ proj' = proj /\ \E step : Goto(p, step)
        /\ \/ tx' = tx /\ acct' = acct
           \/ \E a : tx' = [tx EXCEPT ![p] = Begun] /\ acct' = [acct EXCEPT ![p] = a]
    BY <1>2 DEF AddLookup
  <2> QED
    BY <1>1, <2>1 DEF Goto, Kept, Others, TypeOK, StoreTypeOK
<1>3. CASE p \in Clients /\ AddStep(p)
  <2>1. CASE AddCreate(p)
    <3>1. CASE Abort(p) /\ Rollback(p)
      BY <3>1, AbortKeeps
    <3>2. CASE Goto(p, "insert") /\ CreateTx(p, acct[p]) /\ UNCHANGED localVars
      BY <1>1, <3>2, StatementKeeps, StatementKept
    <3> QED
      BY <2>1, <3>1, <3>2 DEF AddCreate
  <2>2. CASE AddInsert(p)
    <3>1. CASE Finish(p, "Conflict") /\ Rollback(p)
      BY <1>1, <3>1, FinishKeeps
    <3>2. CASE Goto(p, "addCommit") /\ Add(p, acct[p]) /\ UNCHANGED localVars
      BY <1>1, <3>2, StatementKeeps, StatementKept
    <3> QED
      BY <2>2, <3>1, <3>2 DEF AddInsert
  <2>3. CASE AddCommit(p)
    BY <1>1, <2>3, FinishKeeps DEF AddCommit, Commit
  <2> QED
    BY <1>3, <2>1, <2>2, <2>3 DEF AddStep
<1>4. CASE p \in Admins /\ GrantStep(p)
  <2>1. CASE GrantAccess(p)
    <3>1. CASE Finish(p, "idle") /\ Rollback(p)
      BY <1>1, <3>1, FinishKeeps
    <3>2. CASE /\ Goto(p, "grantCommit") /\ GrantAccessTx(p, {acct[p]}, "admin")
               /\ UNCHANGED localVars
      BY <1>1, <3>2, StatementKeeps, StatementKept
    <3> QED
      BY <2>1, <3>1, <3>2 DEF GrantAccess
  <2>2. CASE GrantCommit(p)
    <3>1. Rollback(p) /\ Goto(p, "grantNotify") /\ UNCHANGED localVars
      BY <2>2 DEF GrantCommit, Commit, localVars
    <3> QED
      BY <1>1, <3>1, NoTxWrites, StatementKept
  <2>3. CASE GrantNotify(p)
    BY <1>1, <2>3, FinishKeeps DEF GrantNotify
  <2> QED
    BY <1>4, <2>1, <2>2, <2>3 DEF GrantStep
<1>5. CASE p \in Admins /\ AdminRequest(p)
  <2>1. ASSUME NEW a \in Accounts \cup {NoAccount}, GrantDelete(p, a) PROVE Kept(p)
    <3>1. /\ batch' = batch /\ proj' = proj /\ Goto(p, "access")
          /\ acct' = [acct EXCEPT ![p] = a]
          /\ \E t : tx' = [tx EXCEPT ![p] = t]
      BY <2>1 DEF GrantDelete
    <3> QED
      BY <1>1, <3>1 DEF Goto, Kept, Others, TypeOK, StoreTypeOK
  <2>2. ASSUME NEW a \in Accounts, Revoke(p, a) \/ DeleteWaitlist(p, a) PROVE Kept(p)
    BY <2>2 DEF Revoke, RevokeAccess, DeleteWaitlist, DeleteByID, Kept
  <2> QED
    BY <1>5, <2>1, <2>2 DEF AdminRequest
<1>6. CASE p \in Schedulers /\ Poll(p)
  <2>1. UNCHANGED <<tx, acct, batch>>
    BY <1>6 DEF Poll, CheckAllProjects, ProcessProject
  <2>2. \/ UNCHANGED <<pc, proj>>
        \/ Goto(p, "fetch") /\ \E j : proj' = [proj EXCEPT ![p] = j]
    BY <1>6 DEF Poll, CheckAllProjects, ProcessProject
  <2> QED
    BY <1>1, <2>1, <2>2 DEF Goto, Kept, Others, TypeOK
<1>7. CASE p \in Schedulers /\ BatchStep(p)
  <2>1. CASE FetchEntries(p)
    <3>1. CASE Finish(p, "idle")
      BY <1>1, <2>1, <3>1, FinishKeeps DEF FetchEntries
    <3>2. CASE /\ Goto(p, "begin") /\ UNCHANGED <<acct, proj>>
               /\ \E B : batch' = [batch EXCEPT ![p] = B]
      BY <1>1, <2>1, <3>2 DEF FetchEntries, Goto, Kept, Others, TypeOK
    <3> QED
      BY <2>1, <3>1, <3>2 DEF FetchEntries
  <2>2. CASE BatchBegin(p)
    <3>1. UNCHANGED localVars /\ Goto(p, "grant") /\ tx' = [tx EXCEPT ![p] = Begun]
      BY <2>2 DEF BatchBegin, localVars
    <3> QED
      BY <1>1, <3>1, BegunWrites, StatementKept
  <2>3. CASE BatchGrant(p)
    <3>1. UNCHANGED localVars /\ \E a, step : /\ Goto(p, step)
                                             /\ GrantAccessTx(p, tx[p].grant \cup {a}, "scheduler")
      BY <2>3 DEF BatchGrant, localVars
    <3> QED
      BY <1>1, <3>1, StatementKeeps, StatementKept
  <2>4. CASE BatchDelete(p)
    <3>1. CASE Goto(p, "stamp") /\ UNCHANGED tx
      BY <1>1, <2>4, <3>1, StatementKept DEF BatchDelete, localVars
    <3>2. CASE UNCHANGED pc /\ \E r \in Left(p) : DeleteByIDsTx(p, tx[p].del \cup {r})
      <4>1. \A q \in Others(p) : tx'[q] = tx[q]
        BY <1>1, <3>2, StatementKeeps
      <4> QED
        BY <2>4, <3>2, <4>1 DEF BatchDelete, Kept
    <3> QED
      BY <2>4, <3>1, <3>2 DEF BatchDelete
  <2>5. CASE BatchStamp(p)
    <3>1. UNCHANGED localVars /\ Goto(p, "batchCommit") /\ UpdateLastSuccess(p, proj[p])
      BY <2>5 DEF BatchStamp, localVars
    <3> QED
      BY <1>1, <3>1, StatementKeeps, StatementKept
  <2>6. CASE BatchCommit(p)
    <3>1. Rollback(p) /\ Goto(p, "batchNotify") /\ UNCHANGED localVars
      BY <2>6 DEF BatchCommit, Commit, localVars
    <3> QED
      BY <1>1, <3>1, NoTxWrites, StatementKept
  <2>7. CASE BatchNotify(p)
    BY <1>1, <2>7, FinishKeeps DEF BatchNotify
  <2> QED
    BY <1>7, <2>1, <2>2, <2>3, <2>4, <2>5, <2>6, <2>7 DEF BatchStep
<1>8. CASE p \in Schedulers /\ Crash(p)
  <2>1. /\ Rollback(p) /\ Goto(p, "idle") /\ acct' = acct
        /\ proj' = [proj EXCEPT ![p] = NoProject] /\ batch' = [batch EXCEPT ![p] = {}]
    BY <1>8 DEF Crash
  <2> QED
    BY <1>1, <2>1, NoTxWrites DEF Goto, Kept, Others, TypeOK
<1>9. CASE DeadlockVictim(p) \/ Fault(p) \/ CommitUnacknowledged(p)
  BY <1>9, AbortKeeps DEF DeadlockVictim, Fault, CommitUnacknowledged, Commit
<1> QED
  BY <1>2, <1>3, <1>4, <1>5, <1>6, <1>7, <1>8, <1>9 DEF Acts

LEMMA NextActs ==
  ASSUME Next
  PROVE  Tick \/ \E p \in Sessions : Acts(p)
BY DEF Next, Acts, Sessions

-----------------------------------------------------------------------------
(* Who waits for whom *)

\* A statement waits for the transactions that hold what it needs.
LEMMA Waits ==
  ASSUME NEW p \in Sessions, NEW q \in WaitsFor(p)
  PROVE  /\ q \in Sessions /\ q # p
         /\ \/ pc[p] = "create" /\ tx[q].create # {}
            \/ pc[p] = "insert" /\ (tx[q].add # {} \/ tx[q].del # {})
            \/ pc[p] = "access" /\ acct[p] # NoAccount /\ tx[q].grant # {}
            \/ pc[p] = "grant" /\ tx[q].grant # {}
            \/ pc[p] = "delete" /\ tx[q].del \cap batch[p] # {}
            \/ pc[p] = "stamp" /\ tx[q].stamp # {}
<1>1. CASE pc[p] = "create"
  BY <1>1 DEF WaitsFor, Others, CreatorsOf
<1>2. CASE pc[p] = "insert"
  BY <1>2 DEF WaitsFor, Others, InsertersOf, DeletersOf
<1>3. CASE pc[p] = "access"
  BY <1>3 DEF WaitsFor, Others, GrantersOf
<1>4. CASE pc[p] = "grant"
  BY <1>4 DEF WaitsFor, Others, GrantersOf
<1>5. CASE pc[p] = "delete"
  BY <1>5 DEF WaitsFor, Others, DeletersOf, Left
<1>6. CASE pc[p] = "stamp"
  BY <1>6 DEF WaitsFor, Others, StampersOf
<1>7. CASE pc[p] \notin {"create", "insert", "access", "grant", "delete", "stamp"}
  BY <1>7 DEF WaitsFor
<1> QED
  BY <1>1, <1>2, <1>3, <1>4, <1>5, <1>6, <1>7

\* Where a session stands that waits itself and keeps another one waiting.
LEMMA Blockers ==
  ASSUME SessionInv, NEW p \in Sessions, NEW q \in WaitsFor(p), NEW o \in WaitsFor(q)
  PROVE  \/ pc[p] = "create" /\ pc[q] = "insert"
         \/ pc[p] = "insert" /\ pc[q] \in {"access", "delete", "stamp"}
         \/ pc[p] \in {"access", "grant"} /\ pc[q] \in {"grant", "delete", "stamp"}
         \/ pc[p] = "delete" /\ pc[q] \in {"access", "delete", "stamp"}
<1>1. q \in Sessions /\ Written(q)
  BY Waits DEF SessionInv
<1>2. pc[q] \in {"create", "insert", "access", "grant", "delete", "stamp"}
  BY <1>1, Waits
<1>3. /\ tx[q].create # {} => pc[q] \in {"insert", "addCommit"}
      /\ tx[q].add # {} => pc[q] = "addCommit"
      /\ tx[q].del # {} => pc[q] \in {"access", "grantCommit", "delete", "stamp", "batchCommit"}
      /\ tx[q].grant # {} => pc[q] \in {"grantCommit", "grant", "delete", "stamp", "batchCommit"}
      /\ tx[q].stamp # {} => pc[q] = "batchCommit"
  BY <1>1 DEF Written, BatchSteps
<1>4. tx[q].del \cap batch[p] # {} => tx[q].del # {}
  OBVIOUS
<1> QED
  BY <1>2, <1>3, <1>4, Waits

\* A batch that waits for a grant to release a row has locked the user of that row.
LEMMA Crossed ==
  ASSUME SessionInv, NEW d \in Sessions, NEW s \in Sessions, pc[d] = "access",
         pc[s] = "delete", d \in WaitsFor(s)
  PROVE  d \in Admins /\ s \in Schedulers /\ s \in WaitsFor(d)
<1>1. Written(d) /\ Written(s) /\ Relies(d) /\ Typed
  BY DEF SessionInv, AccountInv, Sessional
<1>2. d \in Admins /\ s \in Schedulers /\ d # s
  BY <1>1, RolesAssumption DEF Written, InRole, GrantSteps, BatchSteps
<1>3. PICK r \in tx[d].del \cap batch[s] : TRUE
  BY Waits
<1>4. r.acct = acct[d] /\ r.acct \in Accounts
  BY <1>1, <1>2, <1>3 DEF Relies, AdminRelies, Typed, TypeOK, Refs
<1>5. acct[d] \in tx[s].grant
  BY <1>1, <1>3, <1>4 DEF Written, UsersToAllow
<1>6. s \in GrantersOf({acct[d]}) /\ acct[d] # NoAccount
  BY <1>4, <1>5, NamesAssumption DEF GrantersOf
<1> QED
  BY <1>2, <1>6 DEF WaitsFor, Others

\* Two batches do not wait for each other's rows: each has locked the users of its
\* own before, so they have no row in common.
LEMMA BatchesShareNoRow ==
  ASSUME SessionInv, NEW s \in Sessions, NEW t \in WaitsFor(s), pc[s] = "delete"
  PROVE  pc[t] \notin {"delete", "stamp"}
<1> SUFFICES ASSUME pc[t] \in {"delete", "stamp"} PROVE FALSE
  OBVIOUS
<1>1. t \in Sessions /\ t # s
  BY Waits
<1>2. Written(s) /\ Written(t) /\ Relies(t) /\ LocksExclusive
  BY <1>1 DEF SessionInv, AccountInv, Sessional
<1>3. t \in Schedulers
  BY <1>2 DEF Written, InRole, BatchSteps
<1>4. PICK r \in tx[t].del \cap batch[s] : TRUE
  BY Waits
<1>5. r \in batch[t]
  BY <1>2, <1>3, <1>4 DEF Relies, SchedulerRelies
<1>6. r.acct \in tx[s].grant /\ r.acct \in tx[t].grant
  BY <1>2, <1>4, <1>5 DEF Written, UsersToAllow
<1> QED
  BY <1>1, <1>2, <1>6 DEF LocksExclusive

LEMMA DeadlocksAreCrossed == SessionInv => OnlyGrantsAndBatchesDeadlock
<1> SUFFICES ASSUME SessionInv, NEW S \in SUBSET Sessions, Stuck(S)
             PROVE  \/ \E d \in Admins \cap S, s \in Schedulers \cap S :
                         s \in WaitsFor(d) /\ d \in WaitsFor(s)
                    \/ \E s, t \in Schedulers \cap S :
                         pc[s] = "grant" /\ pc[t] = "grant" /\ t \in WaitsFor(s)
  BY DEF OnlyGrantsAndBatchesDeadlock
<1>1. S # {} /\ \A p \in S : p \in Sessions /\ \E q \in S : q \in WaitsFor(p)
  BY DEF Stuck
<1>2. ASSUME NEW p \in S
      PROVE  \E q \in S :
               /\ q \in WaitsFor(p)
               /\ \/ pc[p] = "create" /\ pc[q] = "insert"
                  \/ pc[p] = "insert" /\ pc[q] \in {"access", "delete", "stamp"}
                  \/ pc[p] \in {"access", "grant"} /\ pc[q] \in {"grant", "delete", "stamp"}
                  \/ pc[p] = "delete" /\ pc[q] = "access"
  <2>1. PICK q \in S : q \in WaitsFor(p)
    BY <1>1
  <2>2. PICK o \in S : o \in WaitsFor(q)
    BY <1>1
  <2>3. pc[p] = "delete" => pc[q] \notin {"delete", "stamp"}
    BY <1>1, <2>1, BatchesShareNoRow
  <2> QED
    BY <1>1, <2>1, <2>2, <2>3, Blockers
<1>3. \A p \in S : pc[p] \in {"create", "insert", "access", "grant", "delete"}
  BY <1>2
<1>4. CASE \E s \in S : pc[s] = "delete"
  <2>1. PICK s \in S : pc[s] = "delete"
    BY <1>4
  <2>2. PICK d \in S : d \in WaitsFor(s) /\ pc[d] = "access"
    BY <1>2, <2>1
  <2> QED
    BY <1>1, <2>1, <2>2, Crossed
<1>5. CASE \A s \in S : pc[s] # "delete"
  <2>1. \A p \in S : pc[p] = "create" => \E q \in S : pc[q] = "insert"
    BY <1>2
  <2>2. \A p \in S : pc[p] = "insert" => \E q \in S : pc[q] = "access"
    BY <1>2, <1>3, <1>5
  <2>3. \A p \in S : pc[p] \in {"access", "grant"} =>
          \E q \in S : q \in WaitsFor(p) /\ pc[q] = "grant"
    BY <1>2, <1>3, <1>5
  <2>4. PICK s \in S : pc[s] = "grant"
    BY <1>1, <1>3, <1>5, <2>1, <2>2, <2>3
  <2>5. PICK t \in S : t \in WaitsFor(s) /\ pc[t] = "grant"
    BY <2>3, <2>4
  <2>6. s \in Schedulers /\ t \in Schedulers
    BY <1>1, <2>4, <2>5 DEF SessionInv, Written, InRole, BatchSteps
  <2> QED
    BY <2>4, <2>5, <2>6
<1> QED
  BY <1>4, <1>5

\* However many sign-ups, grants and batches wait for each other's rows and keys,
\* each locked when its statement gets to it: among sessions that wait only for
\* each other, a grant and a batch have locked a row and its user in opposite
\* orders, or two batches their users.
THEOREM DeadlocksAreOfTwoKinds == Spec => []OnlyGrantsAndBatchesDeadlock
BY TransactionsAreWritten, DeadlocksAreCrossed, PTL
=============================================================================
