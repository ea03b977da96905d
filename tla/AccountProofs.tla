---------------------------- MODULE AccountProofs ----------------------------
(***************************************************************************)
(* What module Waitlist says about accounts, their rows and their mails,   *)
(* proved for every value of its constants.                                *)
(*                                                                         *)
(* None of the properties is inductive alone.  What a commit does to the   *)
(* tables depends on what its transaction has written before, and that on  *)
(* what its session had read: so the invariant also says how the writes of *)
(* an open transaction fit the tables (Fits) and what a session may rely   *)
(* on at its next statement (Relies).                                      *)
(***************************************************************************)
EXTENDS WaitlistProofs

\* The writes of an open transaction fit the tables others may have changed
\* since: it creates a user that is still unknown, adds a row for a user that
\* exists or that it creates, and grants access to users that exist.
Fits(p) ==
  /\ \A a \in tx[p].create : ~user[a].known
  /\ \A a \in tx[p].add : ~entry[a].on /\ (user[a].known \/ a \in tx[p].create)
  /\ \A a \in tx[p].grant : user[a].known /\ tx[p].by # "none"

ClientRelies(c) ==
  /\ tx[c].del = {}
  /\ pc[c] = "create" => tx[c].add = {}
  /\ pc[c] = "insert" => user[acct[c]].known \/ acct[c] \in tx[c].create

AdminRelies(d) ==
  /\ acct[d] # NoAccount => user[acct[d]].known
  /\ pc[d] \in {"access", "grantCommit"} => \A r \in tx[d].del : r.acct = acct[d]
  /\ pc[d] = "grantCommit" => acct[d] \in tx[d].grant
  /\ pc[d] = "grantNotify" => user[acct[d]].by # "none"

SchedulerRelies(s) ==
  /\ \A r \in batch[s] : user[r.acct].known
  /\ pc[s] \in {"delete", "stamp", "batchCommit"} => \A r \in batch[s] : r.acct \in tx[s].grant
  /\ pc[s] \in {"grant", "delete", "stamp", "batchCommit"} => tx[s].del \subseteq batch[s]
  /\ pc[s] = "batchNotify" => \A r \in batch[s] : user[r.acct].by # "none"

\* What a session knows of the tables and of its own transaction: a commit is
\* made by the kind of session that makes it.
Relies(p) ==
  /\ pc[p] = "addCommit" => p \in Clients
  /\ pc[p] = "grantCommit" => p \in Admins
  /\ pc[p] = "batchCommit" => p \in Schedulers
  /\ p \in Clients => ClientRelies(p)
  /\ p \in Admins => AdminRelies(p)
  /\ p \in Schedulers => SchedulerRelies(p)

\* What is true of the tables and of the mails.
Records ==
  /\ EntryHasUser
  /\ AuditTrail
  /\ NoticeAfterGrant
  /\ \A a \in Accounts : user[a].by # "none" => user[a].known

Sessional == \A p \in Sessions : Fits(p) /\ Relies(p)

AccountInv == Typed /\ LocksExclusive /\ Sessional /\ Records

-----------------------------------------------------------------------------
(* Steps of one session, seen from the others *)

\* The step of p leaves the transactions and the locals of the others alone.
OthersKept(p) ==
  /\ OnlyOf(p)
  /\ \A q \in Others(p) : pc'[q] = pc[q]
  /\ \A q \in (Clients \cup Admins) \ {p} : acct'[q] = acct[q]
  /\ \A s \in Schedulers \ {p} : batch'[s] = batch[s]

\* A user that exists goes on existing, and a grant stays on record.
RecordsGrow ==
  \A a \in Accounts :
    /\ user[a].known => user'[a].known
    /\ user[a].by # "none" => user'[a].by # "none"

\* What the others rely on survives a step of p.
LEMMA OthersRely ==
  ASSUME Typed, NEW p \in Sessions, OthersKept(p), RecordsGrow, Sessional
  PROVE  \A q \in Others(p) : Relies(q)'
  <1>1. SUFFICES ASSUME NEW q \in Others(p) PROVE Relies(q)'
    OBVIOUS
  <1>2. q \in Sessions /\ q # p /\ tx'[q] = tx[q] /\ pc'[q] = pc[q] /\ Relies(q)
    BY DEF OthersKept, OnlyOf, Others, Sessional
  <1>3. ASSUME q \in Clients PROVE ClientRelies(q)'
    <2>1. acct'[q] = acct[q] /\ ClientRelies(q)
      BY <1>2, <1>3 DEF OthersKept, Relies
    <2>2. pc[q] = "insert" => acct[q] \in Accounts
      BY <1>3 DEF Typed, LocalsOK, ClientBusy
    <2>3. QED
      BY <1>2, <2>1, <2>2 DEF ClientRelies, RecordsGrow
  <1>4. ASSUME q \in Admins PROVE AdminRelies(q)'
    <2>1. acct'[q] = acct[q] /\ AdminRelies(q)
      BY <1>2, <1>4 DEF OthersKept, Relies
    <2>2. acct[q] \in Accounts \cup {NoAccount}
      BY <1>4 DEF Typed, TypeOK
    <2>3. pc[q] = "grantNotify" => acct[q] \in Accounts
      BY <1>4 DEF Typed, LocalsOK
    <2>4. QED
      BY <1>2, <2>1, <2>2, <2>3 DEF AdminRelies, RecordsGrow
  <1>5. ASSUME q \in Schedulers PROVE SchedulerRelies(q)'
    <2>1. batch'[q] = batch[q] /\ SchedulerRelies(q)
      BY <1>2, <1>5 DEF OthersKept, Relies
    <2>2. \A r \in batch[q] : r.acct \in Accounts
      BY <1>5 DEF Typed, TypeOK, Refs
    <2>3. QED
      BY <1>2, <2>1, <2>2 DEF SchedulerRelies, RecordsGrow
  <1>6. QED
    BY <1>2, <1>3, <1>4, <1>5 DEF Relies

\* A step that leaves users and rows alone keeps the invariant if it does for
\* the session that takes it.
LEMMA QuietStep ==
  ASSUME AccountInv, NEW p \in Sessions, OthersKept(p), Fits(p)', Relies(p)',
         user' = user, entry' = entry, NoticeAfterGrant'
  PROVE  Sessional' /\ Records'
  <1>1. RecordsGrow
    BY DEF RecordsGrow
  <1>2. \A q \in Others(p) : Relies(q)'
    BY <1>1, OthersRely DEF AccountInv
  <1>3. \A q \in Others(p) : Fits(q)'
    BY DEF AccountInv, Sessional, Fits, OthersKept, OnlyOf, Others
  <1>4. Sessional'
    BY <1>2, <1>3 DEF Sessional, Others
  <1>5. Records'
    BY DEF AccountInv, Records, EntryHasUser, AuditTrail
  <1>6. QED
    BY <1>4, <1>5

-----------------------------------------------------------------------------
(* Commits *)

\* What the tables hold after a commit, for writes that fit them.
LEMMA CommitEffect ==
  ASSUME AccountInv, NEW p \in Sessions, Commit(p), NEW a \in Accounts
  PROVE  /\ user'[a].known <=> user[a].known \/ a \in tx[p].create
         /\ user'[a].by # "none" <=> user[a].by # "none" \/ a \in tx[p].grant
         /\ user'[a].access => user'[a].known /\ user'[a].by # "none" /\ ~user'[a].revoked
         /\ entry'[a].on => entry[a].on \/ a \in tx[p].add
         /\ user[a].access \/ a \in tx[p].grant => user'[a].access
         /\ entry[a].on => entry'[a].id = entry[a].id
         /\ entry[a].on /\ ~entry'[a].on => EntryRef(a) \in tx[p].del
  <1>1. user[a] \in Users /\ entry[a] \in Entries /\ tx[p] \in Transactions
    BY DEF AccountInv, Typed, TypeOK, StoreTypeOK
  <1>2. /\ a \in tx[p].create => ~user[a].known
        /\ a \in tx[p].add => ~entry[a].on
        /\ a \in tx[p].grant => user[a].known /\ tx[p].by # "none"
    BY DEF AccountInv, Sessional, Fits
  <1>3. /\ user[a].access => user[a].known /\ user[a].by # "none" /\ ~user[a].revoked
        /\ user[a].by # "none" => user[a].known
    BY DEF AccountInv, Records, AuditTrail
  <1>4. user'[a] = CommittedUser(p, a) /\ entry'[a] = CommittedEntry(p, a)
    BY DEF Commit
  <1>5. CASE a \in tx[p].grant
    <2>1. user'[a] = [user[a] EXCEPT !.access = TRUE, !.by = tx[p].by, !.revoked = FALSE]
      BY <1>4, <1>5 DEF CommittedUser
    <2>2. /\ user'[a].known = user[a].known /\ user'[a].access
          /\ user'[a].by = tx[p].by /\ ~user'[a].revoked
      BY <1>1, <2>1 DEF Users
    <2>3. /\ entry'[a].on => entry[a].on \/ a \in tx[p].add
          /\ entry[a].on => entry'[a].id = entry[a].id
          /\ entry[a].on /\ ~entry'[a].on => EntryRef(a) \in tx[p].del
      BY <1>1, <1>2, <1>4 DEF CommittedEntry, Entries
    <2>4. QED
      BY <1>2, <1>5, <2>2, <2>3
  <1>6. CASE a \notin tx[p].grant
    <2>1. user'[a] = IF a \in tx[p].create THEN Signed ELSE user[a]
      BY <1>4, <1>6 DEF CommittedUser
    <2>2. Signed.known /\ Signed.by = "none" /\ ~Signed.access
      BY DEF Signed, Unknown
    <2>3. /\ entry'[a].on => entry[a].on \/ a \in tx[p].add
          /\ entry[a].on => entry'[a].id = entry[a].id
          /\ entry[a].on /\ ~entry'[a].on => EntryRef(a) \in tx[p].del
      BY <1>1, <1>2, <1>4 DEF CommittedEntry, Entries
    <2>4. QED
      BY <1>2, <1>3, <1>6, <2>1, <2>2, <2>3
  <1>7. QED
    BY <1>5, <1>6

LEMMA CommitGrows ==
  ASSUME AccountInv, NEW p \in Sessions, Commit(p)
  PROVE  RecordsGrow
  BY CommitEffect DEF RecordsGrow

\* A commit keeps the invariant if its session can rely on what it needs next.
LEMMA CommitStep ==
  ASSUME AccountInv, NEW p \in Sessions, Commit(p), OthersKept(p), Relies(p)',
         notice' = notice \/ MarkDue(p)
  PROVE  Sessional' /\ Records'
  <1>1. RecordsGrow
    BY CommitGrows
  <1>2. \A q \in Others(p) : Relies(q)'
    BY <1>1, OthersRely DEF AccountInv
  <1>3. ASSUME NEW q \in Others(p) PROVE Fits(q)'
    <2>1. /\ q \in Sessions /\ q # p /\ tx'[q] = tx[q] /\ Fits(q)
          /\ tx[p].create \cap tx[q].create = {}
          /\ tx[p].add \cap tx[q].add = {}
      BY DEF OthersKept, OnlyOf, Others, AccountInv, Sessional, LocksExclusive
    <2>2. /\ tx[q].create \subseteq Accounts /\ tx[q].add \subseteq Accounts
          /\ tx[q].grant \subseteq Accounts
      BY <2>1 DEF AccountInv, Typed, TypeOK, StoreTypeOK, Transactions
    <2>3. \A a \in tx[q].create : ~user'[a].known
      BY <2>1, <2>2, CommitEffect DEF Fits
    <2>4. \A a \in tx[q].add : ~entry'[a].on /\ (user'[a].known \/ a \in tx[q].create)
      BY <2>1, <2>2, CommitEffect DEF Fits
    <2>5. \A a \in tx[q].grant : user'[a].known /\ tx[q].by # "none"
      BY <2>1, <2>2, CommitEffect DEF Fits
    <2>6. QED
      BY <2>1, <2>3, <2>4, <2>5 DEF Fits
  <1>4. Fits(p)'
    BY BeginEffect DEF Commit, Rollback, OnlyDeletes, Fits, AccountInv, Typed
  <1>5. Sessional'
    BY <1>2, <1>3, <1>4 DEF Sessional, Others
  <1>6. EntryHasUser'
    <2>1. \A a \in tx[p].add : user[a].known \/ a \in tx[p].create
      BY DEF AccountInv, Sessional, Fits
    <2>2. \A a \in Accounts : entry[a].on => user[a].known
      BY DEF AccountInv, Records, EntryHasUser
    <2>3. QED
      BY <2>1, <2>2, CommitEffect DEF EntryHasUser
  <1>7. AuditTrail'
    BY CommitEffect DEF AuditTrail
  <1>8. NoticeAfterGrant'
    <2>1. \A a \in Accounts : notice'[a] # "none" => notice[a] # "none" \/ a \in tx[p].grant
      BY DEF MarkDue
    <2>2. \A a \in Accounts : notice[a] # "none" => user[a].by # "none"
      BY DEF AccountInv, Records, NoticeAfterGrant
    <2>3. QED
      BY <2>1, <2>2, CommitEffect DEF NoticeAfterGrant
  <1>9. \A a \in Accounts : user'[a].by # "none" => user'[a].known
    <2>1. \A a \in tx[p].grant : user[a].known
      BY DEF AccountInv, Sessional, Fits
    <2>2. \A a \in Accounts : user[a].by # "none" => user[a].known
      BY DEF AccountInv, Records
    <2>3. QED
      BY <2>1, <2>2, CommitEffect
  <1>10. QED
    BY <1>5, <1>6, <1>7, <1>8, <1>9 DEF Records

-----------------------------------------------------------------------------
(* Sessions that end *)

LEMMA FinishKept ==
  ASSUME Typed, NEW p \in Sessions, NEW step \in Waiting, Finish(p, step), OnlyOf(p)
  PROVE  OthersKept(p)
  <1>1. \A q \in Others(p) : pc'[q] = pc[q]
    BY FinishTyped DEF Typed, TypeOK, Others
  <1>2. QED
    BY <1>1, FinishTyped DEF OthersKept

LEMMA EndedRelies ==
  ASSUME Typed, NEW p \in Sessions, NEW step \in Waiting, Finish(p, step),
         p \in Clients => tx'[p].del = {}
  PROVE  Relies(p)'
  <1>1. pc'[p] = step
    BY DEF Finish, Goto, Typed, TypeOK
  <1>2. step \notin {"create", "insert", "addCommit", "access", "grantCommit", "grantNotify",
                     "grant", "delete", "stamp", "batchCommit", "batchNotify"}
    BY DEF Waiting, Answers
  <1>3. p \in Admins => acct'[p] = NoAccount
    BY DEF Finish, Typed, TypeOK
  <1>4. p \in Schedulers => batch'[p] = {}
    BY DEF Finish
  <1>5. QED
    BY <1>1, <1>2, <1>3, <1>4 DEF Relies, ClientRelies, AdminRelies, SchedulerRelies

\* A session that gives up: what it has written is gone.
LEMMA GivenUp ==
  ASSUME AccountInv, NEW p \in Sessions, NEW step \in Waiting, Finish(p, step), Rollback(p),
         user' = user, entry' = entry, notice' = notice
  PROVE  Sessional' /\ Records'
  <1>1. OnlyOf(p) /\ OnlyDeletes(p, {})
    BY BeginEffect DEF Rollback, AccountInv, Typed
  <1>2. OthersKept(p)
    BY <1>1, FinishKept DEF AccountInv
  <1>3. Relies(p)'
    BY <1>1, EndedRelies DEF OnlyDeletes, AccountInv
  <1>4. Fits(p)'
    BY <1>1 DEF OnlyDeletes, Fits
  <1>5. NoticeAfterGrant'
    BY DEF AccountInv, Records, NoticeAfterGrant
  <1>6. QED
    BY <1>2, <1>3, <1>4, <1>5, QuietStep

\* A session that ends with a commit, whatever it answers.
LEMMA Finished ==
  ASSUME AccountInv, NEW p \in Sessions, NEW step \in Waiting, Finish(p, step), Commit(p),
         notice' = notice \/ MarkDue(p)
  PROVE  Sessional' /\ Records'
  <1>1. OnlyOf(p) /\ OnlyDeletes(p, {})
    BY BeginEffect DEF Commit, Rollback, AccountInv, Typed
  <1>2. OthersKept(p)
    BY <1>1, FinishKept DEF AccountInv
  <1>3. Relies(p)'
    BY <1>1, EndedRelies DEF OnlyDeletes, AccountInv
  <1>4. QED
    BY <1>2, <1>3, CommitStep

\* A session that goes on to its next statement leaves the others alone.
LEMMA GotoKept ==
  ASSUME Typed, NEW p \in Sessions, NEW step, Goto(p, step), OnlyOf(p),
         \A q \in (Clients \cup Admins) \ {p} : acct'[q] = acct[q],
         \A s \in Schedulers \ {p} : batch'[s] = batch[s]
  PROVE  OthersKept(p) /\ pc'[p] = step
  BY DEF Goto, OthersKept, Others, Typed, TypeOK

-----------------------------------------------------------------------------
(* Sign-ups *)

LEMMA ClientStep ==
  ASSUME AccountInv, NEW c \in Clients,
         AddStep(c) \/ \E a \in Accounts : AddLookup(c, a)
  PROVE  Sessional' /\ Records'
  <1>1. c \in Sessions /\ c \notin Admins /\ c \notin Schedulers
    BY RolesAssumption DEF Sessions
  <1>2. Typed /\ TypeOK /\ Fits(c) /\ ClientRelies(c) /\ NoticeAfterGrant
    BY <1>1 DEF AccountInv, Typed, Sessional, Relies, Records
  <1>3. ASSUME NEW a \in Accounts, AddLookup(c, a)
        PROVE  Sessional' /\ Records'
    <2>1. user' = user /\ entry' = entry /\ notice' = notice /\ batch' = batch
      BY <1>3 DEF AddLookup
    <2>2. NoticeAfterGrant'
      BY <1>2, <2>1 DEF NoticeAfterGrant
    <2>3. CASE user[a].access
      <3>1. Goto(c, "ResetContent") /\ tx' = tx /\ acct' = acct
        BY <1>3, <2>3 DEF AddLookup
      <3>2. OthersKept(c) /\ pc'[c] = "ResetContent"
        BY <1>1, <1>2, <2>1, <3>1, GotoKept DEF OnlyOf
      <3>3. Fits(c)' /\ Relies(c)'
        BY <1>1, <1>2, <2>1, <3>1, <3>2 DEF Fits, Relies, ClientRelies
      <3>4. QED
        BY <1>1, <2>1, <2>2, <3>2, <3>3, QuietStep
    <2>4. CASE ~user[a].access
      <3>1. /\ Goto(c, IF user[a].known THEN "insert" ELSE "create")
            /\ tx' = [tx EXCEPT ![c] = Begun]
            /\ acct' = [acct EXCEPT ![c] = a]
        BY <1>3, <2>4 DEF AddLookup
      <3>2. OnlyOf(c) /\ OnlyDeletes(c, {})
        BY <1>1, <1>2, <3>1, BeginEffect
      <3>3. acct'[c] = a /\ \A q \in (Clients \cup Admins) \ {c} : acct'[q] = acct[q]
        BY <1>2, <3>1 DEF TypeOK
      <3>4. OthersKept(c) /\ pc'[c] = IF user[a].known THEN "insert" ELSE "create"
        BY <1>1, <1>2, <2>1, <3>1, <3>2, <3>3, GotoKept
      <3>5. Fits(c)' /\ Relies(c)'
        BY <1>1, <2>1, <3>2, <3>3, <3>4 DEF OnlyDeletes, Fits, Relies, ClientRelies
      <3>6. QED
        BY <1>1, <2>1, <2>2, <3>4, <3>5, QuietStep
    <2>5. QED
      BY <2>3, <2>4
  <1>4. ASSUME AddCreate(c)
        PROVE  Sessional' /\ Records'
    <2>1. user' = user /\ entry' = entry /\ notice' = notice
      BY <1>4 DEF AddCreate
    <2>2. CASE Abort(c) /\ Rollback(c)
      BY <1>1, <1>2, <2>1, <2>2, AbortTyped, GivenUp
    <2>3. CASE ~user[acct[c]].known /\ Goto(c, "insert") /\ CreateTx(c, acct[c])
               /\ UNCHANGED localVars
      <3>1. /\ OnlyOf(c) /\ tx'[c].create = {acct[c]}
            /\ SameAdd(c) /\ SameDel(c) /\ SameGrant(c)
        BY <1>1, <1>2, <2>3, CreateEffect
      <3>2. acct' = acct /\ batch' = batch
        BY <2>3 DEF localVars
      <3>3. OthersKept(c) /\ pc'[c] = "insert"
        BY <1>1, <1>2, <2>3, <3>1, <3>2, GotoKept
      <3>4. tx'[c].add = {}
        BY <1>2, <1>4, <3>1 DEF AddCreate, ClientRelies, SameAdd
      <3>5. Fits(c)'
        BY <1>2, <2>1, <2>3, <3>1, <3>4 DEF Fits, SameGrant
      <3>6. Relies(c)'
        BY <1>1, <1>2, <3>1, <3>2, <3>3 DEF Relies, ClientRelies, SameDel
      <3>7. NoticeAfterGrant'
        BY <1>2, <2>1 DEF NoticeAfterGrant
      <3>8. QED
        BY <1>1, <2>1, <3>3, <3>5, <3>6, <3>7, QuietStep
    <2>4. QED
      BY <1>4, <2>2, <2>3 DEF AddCreate
  <1>5. ASSUME AddInsert(c)
        PROVE  Sessional' /\ Records'
    <2>1. user' = user /\ entry' = entry /\ notice' = notice
      BY <1>5 DEF AddInsert
    <2>2. CASE Finish(c, "Conflict") /\ Rollback(c)
      <3>1. "Conflict" \in Waiting
        BY DEF Waiting, Answers
      <3>2. QED
        BY <1>1, <2>1, <2>2, <3>1, GivenUp
    <2>3. CASE ~entry[acct[c]].on /\ Goto(c, "addCommit") /\ Add(c, acct[c])
               /\ UNCHANGED localVars
      <3>1. /\ OnlyOf(c) /\ tx'[c].add = {acct[c]}
            /\ SameCreate(c) /\ SameDel(c) /\ SameGrant(c)
        BY <1>1, <1>2, <2>3, AddEffect
      <3>2. acct' = acct /\ batch' = batch
        BY <2>3 DEF localVars
      <3>3. OthersKept(c) /\ pc'[c] = "addCommit"
        BY <1>1, <1>2, <2>3, <3>1, <3>2, GotoKept
      <3>4. user[acct[c]].known \/ acct[c] \in tx[c].create
        BY <1>2, <1>5 DEF AddInsert, ClientRelies
      <3>5. Fits(c)'
        BY <1>2, <2>1, <2>3, <3>1, <3>4 DEF Fits, SameCreate, SameGrant
      <3>6. Relies(c)'
        BY <1>1, <1>2, <3>1, <3>2, <3>3 DEF Relies, ClientRelies, SameDel
      <3>7. NoticeAfterGrant'
        BY <1>2, <2>1 DEF NoticeAfterGrant
      <3>8. QED
        BY <1>1, <2>1, <3>3, <3>5, <3>6, <3>7, QuietStep
    <2>4. QED
      BY <1>5, <2>2, <2>3 DEF AddInsert
  <1>6. ASSUME AddCommit(c)
        PROVE  Sessional' /\ Records'
    <2>1. "Created" \in Waiting
      BY DEF Waiting, Answers
    <2>2. QED
      BY <1>1, <1>6, <2>1, Finished DEF AddCommit
  <1>7. QED
    BY <1>3, <1>4, <1>5, <1>6 DEF AddStep

-----------------------------------------------------------------------------
(* Requests of an admin *)

LEMMA GrantRequestStep ==
  ASSUME AccountInv, NEW d \in Admins,
         GrantStep(d) \/ \E a \in Accounts \cup {NoAccount} : GrantDelete(d, a)
  PROVE  Sessional' /\ Records'
  <1>1. d \in Sessions /\ d \notin Clients /\ d \notin Schedulers
    BY RolesAssumption DEF Sessions
  <1>2. Typed /\ TypeOK /\ Fits(d) /\ AdminRelies(d) /\ NoticeAfterGrant
    BY <1>1 DEF AccountInv, Typed, Sessional, Relies, Records
  <1>3. ASSUME NEW a \in Accounts \cup {NoAccount}, GrantDelete(d, a)
        PROVE  Sessional' /\ Records'
    <2>1. /\ user' = user /\ entry' = entry /\ notice' = notice /\ batch' = batch
          /\ Goto(d, "access") /\ acct' = [acct EXCEPT ![d] = a]
      BY <1>3 DEF GrantDelete
    <2>2. /\ OnlyOf(d)
          /\ OnlyDeletes(d, {r \in Refs : r.acct = a})
      <3>1. CASE a = NoAccount
        <4>1. a \notin Accounts
          BY <3>1, NamesAssumption
        <4>2. tx' = [tx EXCEPT ![d] = Begun]
          BY <1>3, <4>1 DEF GrantDelete
        <4>3. OnlyOf(d) /\ OnlyDeletes(d, {})
          BY <1>1, <1>2, <4>2, BeginEffect
        <4>4. QED
          BY <4>3 DEF OnlyDeletes
      <3>2. CASE a \in Accounts
        <4>. DEFINE D == {r \in {EntryRef(a)} : Live(r)}
        <4>1. tx' = [tx EXCEPT ![d] = [Begun EXCEPT !.del = D]]
          BY <1>3, <3>2, NamesAssumption DEF GrantDelete
        <4>2. D \subseteq {r \in Refs : r.acct = a}
          BY <1>2, <3>2 DEF EntryRef, Refs, TypeOK, StoreTypeOK, Entries
        <4>. HIDE DEF D
        <4>3. QED
          BY <1>1, <1>2, <4>1, <4>2, BeginDeleteEffect
      <3>3. QED
        BY <3>1, <3>2
    <2>3. \A r \in tx'[d].del : r.acct = a
      BY <2>2 DEF OnlyDeletes
    <2>4. tx'[d].create = {} /\ tx'[d].add = {} /\ tx'[d].grant = {}
      BY <2>2 DEF OnlyDeletes
    <2>5. acct'[d] = a /\ \A q \in (Clients \cup Admins) \ {d} : acct'[q] = acct[q]
      BY <1>2, <2>1 DEF TypeOK
    <2>6. OthersKept(d) /\ pc'[d] = "access"
      BY <1>1, <1>2, <2>1, <2>2, <2>5, GotoKept
    <2>7. Fits(d)'
      BY <2>4 DEF Fits
    <2>8. a # NoAccount => user[a].known
      BY <1>3 DEF GrantDelete
    <2>9. Relies(d)'
      BY <1>1, <2>1, <2>3, <2>5, <2>6, <2>8 DEF Relies, AdminRelies
    <2>10. NoticeAfterGrant'
      BY <1>2, <2>1 DEF NoticeAfterGrant
    <2>11. QED
      BY <1>1, <2>1, <2>6, <2>7, <2>9, <2>10, QuietStep
  <1>4. ASSUME GrantAccess(d)
        PROVE  Sessional' /\ Records'
    <2>1. user' = user /\ entry' = entry /\ notice' = notice
      BY <1>4 DEF GrantAccess
    <2>2. CASE Finish(d, "idle") /\ Rollback(d)
      <3>1. "idle" \in Waiting
        BY DEF Waiting
      <3>2. QED
        BY <1>1, <2>1, <2>2, <3>1, GivenUp
    <2>3. CASE /\ acct[d] # NoAccount
               /\ GrantAccessTx(d, {acct[d]}, "admin")
               /\ Goto(d, "grantCommit") /\ UNCHANGED localVars
      <3>1. /\ OnlyOf(d) /\ tx'[d].grant = {acct[d]} /\ tx'[d].by = "admin"
            /\ SameCreate(d) /\ SameAdd(d) /\ SameDel(d)
        BY <1>1, <1>2, <2>3, GrantEffect
      <3>2. acct' = acct /\ batch' = batch
        BY <2>3 DEF localVars
      <3>3. OthersKept(d) /\ pc'[d] = "grantCommit"
        BY <1>1, <1>2, <2>3, <3>1, <3>2, GotoKept
      <3>4. user[acct[d]].known /\ \A r \in tx[d].del : r.acct = acct[d]
        BY <1>2, <1>4, <2>3 DEF GrantAccess, AdminRelies
      <3>5. Fits(d)'
        BY <1>2, <2>1, <3>1, <3>4 DEF Fits, SameCreate, SameAdd
      <3>6. Relies(d)'
        BY <1>1, <2>1, <3>1, <3>2, <3>3, <3>4 DEF Relies, AdminRelies, SameDel
      <3>7. NoticeAfterGrant'
        BY <1>2, <2>1 DEF NoticeAfterGrant
      <3>8. QED
        BY <1>1, <2>1, <3>3, <3>5, <3>6, <3>7, QuietStep
    <2>4. QED
      BY <1>4, <2>2, <2>3 DEF GrantAccess
  <1>5. ASSUME GrantCommit(d)
        PROVE  Sessional' /\ Records'
    <2>1. Commit(d) /\ MarkDue(d) /\ Goto(d, "grantNotify") /\ acct' = acct /\ batch' = batch
      BY <1>5 DEF GrantCommit
    <2>2. OnlyOf(d)
      BY <1>1, <1>2, <2>1, BeginEffect DEF Commit, Rollback
    <2>3. OthersKept(d) /\ pc'[d] = "grantNotify"
      BY <1>1, <1>2, <2>1, <2>2, GotoKept
    <2>4. acct[d] \in Accounts /\ acct[d] \in tx[d].grant
      BY <1>2, <1>5 DEF GrantCommit, Typed, LocalsOK, AdminRelies
    <2>5. user'[acct[d]].by # "none"
      BY <1>1, <2>1, <2>4, CommitEffect
    <2>6. user'[acct[d]].known
      BY <1>1, <1>2, <2>1, <2>4, CommitEffect DEF Fits
    <2>7. Relies(d)'
      BY <1>1, <2>1, <2>3, <2>5, <2>6 DEF Relies, AdminRelies
    <2>8. QED
      BY <1>1, <2>1, <2>3, <2>7, CommitStep
  <1>6. ASSUME GrantNotify(d)
        PROVE  Sessional' /\ Records'
    <2>1. /\ user' = user /\ entry' = entry /\ tx' = tx /\ Finish(d, "idle")
          /\ notice' = [notice EXCEPT ![acct[d]] = "sent"]
      BY <1>6 DEF GrantNotify
    <2>2. "idle" \in Waiting
      BY DEF Waiting
    <2>3. OthersKept(d)
      BY <1>1, <1>2, <2>1, <2>2, FinishKept DEF OnlyOf
    <2>4. Relies(d)'
      BY <1>1, <1>2, <2>1, <2>2, EndedRelies
    <2>5. Fits(d)'
      BY <1>2, <2>1 DEF Fits
    <2>6. user[acct[d]].by # "none"
      BY <1>2, <1>6 DEF GrantNotify, AdminRelies
    <2>7. NoticeAfterGrant'
      BY <1>2, <2>1, <2>6 DEF NoticeAfterGrant, TypeOK
    <2>8. QED
      BY <1>1, <2>1, <2>3, <2>4, <2>5, <2>7, QuietStep
  <1>7. QED
    BY <1>3, <1>4, <1>5, <1>6 DEF GrantStep

\* The two statements of an admin that commit as they finish.
LEMMA AdminEditStep ==
  ASSUME AccountInv, NEW d \in Admins, NEW a \in Accounts, Revoke(d, a) \/ DeleteWaitlist(d, a)
  PROVE  Sessional' /\ Records'
  <1>1. /\ tx' = tx /\ pc' = pc /\ acct' = acct /\ batch' = batch /\ notice' = notice
    BY DEF Revoke, RevokeAccess, DeleteWaitlist, DeleteByID
  <1>2. TypeOK /\ StoreTypeOK
    BY DEF AccountInv, Typed, TypeOK
  <1>3. \A b \in Accounts :
          /\ user'[b].known = user[b].known /\ user'[b].by = user[b].by
          /\ entry'[b].on => entry[b].on
          /\ user'[b].access => user[b].access /\ user'[b].revoked = user[b].revoked
    <2>1. CASE Revoke(d, a)
      <3>1. user' = [user EXCEPT ![a].access = FALSE, ![a].revoked = TRUE] /\ entry' = entry
        BY <2>1 DEF Revoke, RevokeAccess
      <3>2. user[a] \in Users
        BY <1>2 DEF StoreTypeOK
      <3>3. /\ user'[a].known = user[a].known /\ user'[a].by = user[a].by /\ ~user'[a].access
        BY <1>2, <3>1, <3>2 DEF StoreTypeOK, Users
      <3>4. \A b \in Accounts \ {a} : user'[b] = user[b]
        BY <1>2, <3>1 DEF StoreTypeOK
      <3>5. QED
        BY <3>1, <3>3, <3>4
    <2>2. CASE DeleteWaitlist(d, a)
      <3>1. user' = user /\ entry' = [entry EXCEPT ![a].on = FALSE]
        BY <2>2 DEF DeleteWaitlist, DeleteByID, EntryRef
      <3>2. entry[a] \in Entries
        BY <1>2 DEF StoreTypeOK
      <3>3. ~entry'[a].on /\ \A b \in Accounts \ {a} : entry'[b] = entry[b]
        BY <1>2, <3>1, <3>2 DEF StoreTypeOK, Entries
      <3>4. QED
        BY <3>1, <3>3
    <2>3. QED
      BY <2>1, <2>2
  <1>4. ASSUME NEW p \in Sessions PROVE Fits(p)'
    <2>1. Fits(p) /\ tx[p] \in Transactions
      BY <1>2 DEF AccountInv, Sessional, StoreTypeOK
    <2>2. /\ tx[p].create \subseteq Accounts /\ tx[p].add \subseteq Accounts
          /\ tx[p].grant \subseteq Accounts
      BY <2>1 DEF Transactions
    <2>3. QED
      BY <1>1, <1>3, <2>1, <2>2 DEF Fits
  <1>5. ASSUME NEW p \in Sessions PROVE Relies(p)'
    <2>1. Relies(p)
      BY DEF AccountInv, Sessional
    <2>2. ASSUME p \in Clients PROVE ClientRelies(p)'
      <3>1. pc[p] = "insert" => acct[p] \in Accounts
        BY <2>2 DEF AccountInv, Typed, LocalsOK, ClientBusy
      <3>2. QED
        BY <1>1, <1>3, <2>1, <2>2, <3>1 DEF Relies, ClientRelies
    <2>3. ASSUME p \in Admins PROVE AdminRelies(p)'
      <3>1. acct[p] # NoAccount => acct[p] \in Accounts
        BY <1>2, <2>3 DEF TypeOK
      <3>2. pc[p] = "grantNotify" => acct[p] \in Accounts
        BY <2>3 DEF AccountInv, Typed, LocalsOK
      <3>3. QED
        BY <1>1, <1>3, <2>1, <2>3, <3>1, <3>2 DEF Relies, AdminRelies
    <2>4. ASSUME p \in Schedulers PROVE SchedulerRelies(p)'
      <3>1. \A r \in batch[p] : r.acct \in Accounts
        BY <1>2, <2>4 DEF TypeOK, Refs
      <3>2. QED
        BY <1>1, <1>3, <2>1, <2>4, <3>1 DEF Relies, SchedulerRelies
    <2>5. QED
      BY <1>1, <2>1, <2>2, <2>3, <2>4 DEF Relies
  <1>6. Records'
    BY <1>1, <1>3 DEF AccountInv, Records, EntryHasUser, AuditTrail, NoticeAfterGrant
  <1>7. QED
    BY <1>4, <1>5, <1>6 DEF Sessional

-----------------------------------------------------------------------------
(* The scheduler *)

\* A statement of a batch that leaves users and rows as they are.
LEMMA BatchStatement ==
  ASSUME AccountInv, NEW s \in Schedulers, NEW step, Goto(s, step), OnlyOf(s), Fits(s)',
         user' = user, entry' = entry, notice' = notice, acct' = acct,
         step \notin {"addCommit", "grantCommit"},
         \A q \in Schedulers \ {s} : batch'[q] = batch[q],
         pc'[s] = step => SchedulerRelies(s)'
  PROVE  Sessional' /\ Records'
  <1>1. s \in Sessions /\ s \notin Clients /\ s \notin Admins
    BY RolesAssumption DEF Sessions
  <1>2. OthersKept(s) /\ pc'[s] = step
    BY <1>1, GotoKept DEF AccountInv
  <1>3. Relies(s)'
    BY <1>1, <1>2 DEF Relies
  <1>4. NoticeAfterGrant'
    BY DEF AccountInv, Records, NoticeAfterGrant
  <1>5. QED
    BY <1>1, <1>2, <1>3, <1>4, QuietStep

LEMMA SchedulerStep ==
  ASSUME AccountInv, NEW s \in Schedulers, Poll(s) \/ BatchStep(s)
  PROVE  Sessional' /\ Records'
  <1>1. s \in Sessions /\ s \notin Clients /\ s \notin Admins
    BY RolesAssumption DEF Sessions
  <1>2. Typed /\ TypeOK /\ Fits(s) /\ SchedulerRelies(s) /\ NoticeAfterGrant
    BY <1>1 DEF AccountInv, Typed, Sessional, Relies, Records
  <1>3. \A r \in batch[s] : r.acct \in Accounts /\ user[r.acct].known
    BY <1>2 DEF SchedulerRelies, TypeOK, Refs
  <1>4. ASSUME UNCHANGED <<user, entry, tx, pc, acct, batch, notice>>
        PROVE  Sessional' /\ Records'
    BY <1>4 DEF AccountInv, Sessional, Records, Fits, Relies, ClientRelies, AdminRelies,
                SchedulerRelies, EntryHasUser, AuditTrail, NoticeAfterGrant
  <1>5. ASSUME NEW j \in Projects, ProcessProject(s, j)
        PROVE  Sessional' /\ Records'
    <2>1. /\ user' = user /\ entry' = entry /\ tx' = tx /\ acct' = acct /\ batch' = batch
          /\ notice' = notice
      BY <1>5 DEF ProcessProject
    <2>2. CASE pc' = pc
      BY <1>4, <2>1, <2>2
    <2>3. CASE Goto(s, "fetch")
      <3>1. OnlyOf(s) /\ Fits(s)'
        BY <1>2, <2>1 DEF OnlyOf, Fits
      <3>2. pc'[s] = "fetch" => SchedulerRelies(s)'
        BY <1>2, <2>1 DEF SchedulerRelies
      <3>3. QED
        BY <2>1, <2>3, <3>1, <3>2, BatchStatement
    <2>4. QED
      BY <1>5, <2>2, <2>3 DEF ProcessProject
  <1>6. ASSUME FetchEntries(s)
        PROVE  Sessional' /\ Records'
    <2>1. user' = user /\ entry' = entry /\ tx' = tx /\ notice' = notice
      BY <1>6 DEF FetchEntries
    <2>2. OnlyOf(s) /\ Fits(s)'
      BY <1>2, <2>1 DEF OnlyOf, Fits
    <2>3. CASE Finish(s, "idle")
      <3>1. "idle" \in Waiting
        BY DEF Waiting
      <3>2. OthersKept(s)
        BY <1>1, <1>2, <2>2, <2>3, <3>1, FinishKept
      <3>3. Relies(s)'
        BY <1>1, <1>2, <2>3, <3>1, EndedRelies
      <3>4. NoticeAfterGrant'
        BY <1>2, <2>1 DEF NoticeAfterGrant
      <3>5. QED
        BY <1>1, <2>1, <2>2, <3>2, <3>3, <3>4, QuietStep
    <2>4. ASSUME NEW ready \in SUBSET {a \in Accounts : entry[a].on},
                 batch' = [batch EXCEPT ![s] = {EntryRef(a) : a \in ready}],
                 Goto(s, "begin"), acct' = acct
          PROVE  Sessional' /\ Records'
      <3>1. batch'[s] = {EntryRef(a) : a \in ready}
        BY <1>2, <2>4 DEF TypeOK
      <3>2. \A a \in ready : user[a].known
        BY <2>4 DEF AccountInv, Records, EntryHasUser
      <3>3. \A r \in batch'[s] : user[r.acct].known
        BY <3>1, <3>2 DEF EntryRef
      <3>4. pc'[s] = "begin" => SchedulerRelies(s)'
        BY <2>1, <3>3 DEF SchedulerRelies
      <3>5. \A q \in Schedulers \ {s} : batch'[q] = batch[q]
        BY <1>2, <2>4 DEF TypeOK
      <3>6. QED
        BY <2>1, <2>2, <2>4, <3>4, <3>5, BatchStatement
    <2>5. PICK page \in OldestFirst(proj[s], Batch[proj[s]]) :
            LET ready == {a \in page : entry[a].age >= Window[proj[s]]} IN
            IF ready = {}
            THEN Finish(s, "idle")
            ELSE /\ batch' = [batch EXCEPT ![s] = {EntryRef(a) : a \in ready}]
                 /\ Goto(s, "begin")
                 /\ UNCHANGED <<acct, round, proj>>
      BY <1>6 DEF FetchEntries
    <2>. DEFINE ready == {a \in page : entry[a].age >= Window[proj[s]]}
    <2>6. ready \in SUBSET {a \in Accounts : entry[a].on}
      BY DEF OldestFirst, OnList
    <2>7. CASE ready = {}
      BY <2>3, <2>5, <2>7
    <2>8. CASE ready # {}
      BY <2>4, <2>5, <2>6, <2>8
    <2>9. QED
      BY <2>7, <2>8
  <1>7. ASSUME BatchBegin(s)
        PROVE  Sessional' /\ Records'
    <2>1. /\ user' = user /\ entry' = entry /\ acct' = acct /\ batch' = batch /\ notice' = notice
          /\ Goto(s, "grant") /\ tx' = [tx EXCEPT ![s] = Begun]
      BY <1>7 DEF BatchBegin
    <2>2. OnlyOf(s) /\ OnlyDeletes(s, {})
      BY <1>1, <1>2, <2>1, BeginEffect
    <2>3. Fits(s)'
      BY <2>2 DEF OnlyDeletes, Fits
    <2>4. pc'[s] = "grant" => SchedulerRelies(s)'
      BY <1>2, <2>1, <2>2 DEF SchedulerRelies, OnlyDeletes
    <2>5. QED
      BY <2>1, <2>2, <2>3, <2>4, BatchStatement
  <1>8. ASSUME BatchGrant(s)
        PROVE  Sessional' /\ Records'
    <2>1. /\ user' = user /\ entry' = entry /\ acct' = acct /\ batch' = batch /\ notice' = notice
          /\ pc[s] = "grant"
      BY <1>8 DEF BatchGrant
    <2>2. PICK a \in UsersToAllow(s) :
            /\ GrantAccessTx(s, tx[s].grant \cup {a}, "scheduler")
            /\ Goto(s, IF UsersToAllow(s) \subseteq tx[s].grant \cup {a} THEN "delete" ELSE "grant")
      BY <1>8 DEF BatchGrant
    <2>. DEFINE step == IF UsersToAllow(s) \subseteq tx[s].grant \cup {a} THEN "delete" ELSE "grant"
    <2>3. /\ OnlyOf(s) /\ tx'[s].grant = tx[s].grant \cup {a} /\ tx'[s].by = "scheduler"
          /\ SameCreate(s) /\ SameAdd(s) /\ SameDel(s)
      BY <1>1, <1>2, <2>2, GrantEffect
    <2>4. user[a].known
      BY <1>3 DEF UsersToAllow
    <2>5. Fits(s)'
      <3>1. \A b \in tx[s].grant : user[b].known
        BY <1>2 DEF Fits
      <3>2. QED
        BY <1>2, <2>1, <2>3, <2>4, <3>1 DEF Fits, SameCreate, SameAdd
    <2>6. ASSUME pc'[s] = step PROVE SchedulerRelies(s)'
      <3>1. pc'[s] = "delete" => \A r \in batch[s] : r.acct \in tx'[s].grant
        BY <2>3, <2>6 DEF UsersToAllow
      <3>2. pc'[s] \in {"grant", "delete"} /\ tx'[s].del \subseteq batch'[s]
        BY <1>2, <2>1, <2>3, <2>6 DEF SchedulerRelies, SameDel
      <3>3. QED
        BY <1>2, <2>1, <3>1, <3>2 DEF SchedulerRelies
    <2>7. Goto(s, step) /\ step \notin {"addCommit", "grantCommit"}
      BY <2>2
    <2>. HIDE DEF step
    <2>8. QED
      BY <2>1, <2>3, <2>5, <2>6, <2>7, BatchStatement
  <1>9. ASSUME BatchDelete(s)
        PROVE  Sessional' /\ Records'
    <2>1. /\ user' = user /\ entry' = entry /\ acct' = acct /\ batch' = batch /\ notice' = notice
          /\ pc[s] = "delete"
      BY <1>9 DEF BatchDelete
    <2>2. CASE Goto(s, "stamp") /\ UNCHANGED tx
      <3>1. OnlyOf(s) /\ Fits(s)'
        BY <1>2, <2>1, <2>2 DEF OnlyOf, Fits
      <3>2. pc'[s] = "stamp" => SchedulerRelies(s)'
        BY <1>2, <2>1, <2>2 DEF SchedulerRelies
      <3>3. QED
        BY <2>1, <2>2, <3>1, <3>2, BatchStatement
    <2>3. CASE UNCHANGED pc /\ \E r \in Left(s) : DeleteByIDsTx(s, tx[s].del \cup {r})
      <3>1. PICK r \in batch[s] : DeleteByIDsTx(s, tx[s].del \cup {r})
        BY <2>3 DEF Left
      <3>2. /\ OnlyOf(s) /\ tx'[s].del = tx[s].del \cup {r}
            /\ SameCreate(s) /\ SameAdd(s) /\ SameGrant(s)
        BY <1>1, <1>2, <3>1, DeleteEffect
      <3>3. Fits(s)'
        BY <1>2, <2>1, <3>2 DEF Fits, SameCreate, SameAdd, SameGrant
      <3>4. pc'[s] = "delete" => SchedulerRelies(s)'
        BY <1>2, <2>1, <3>1, <3>2 DEF SchedulerRelies, SameGrant
      <3>5. Goto(s, "delete")
        BY <1>2, <2>1, <2>3 DEF Goto, TypeOK
      <3>6. QED
        BY <2>1, <3>2, <3>3, <3>4, <3>5, BatchStatement
    <2>4. QED
      BY <1>9, <2>2, <2>3 DEF BatchDelete
  <1>10. ASSUME BatchStamp(s)
         PROVE  Sessional' /\ Records'
    <2>1. /\ user' = user /\ entry' = entry /\ acct' = acct /\ batch' = batch /\ notice' = notice
          /\ Goto(s, "batchCommit") /\ UpdateLastSuccess(s, proj[s])
      BY <1>10 DEF BatchStamp
    <2>2. OnlyOf(s) /\ SameCreate(s) /\ SameAdd(s) /\ SameDel(s) /\ SameGrant(s)
      BY <1>1, <1>2, <2>1, StampEffect
    <2>3. Fits(s)'
      BY <1>2, <2>1, <2>2 DEF Fits, SameCreate, SameAdd, SameGrant
    <2>4. pc'[s] = "batchCommit" => SchedulerRelies(s)'
      BY <1>2, <1>10, <2>1, <2>2 DEF BatchStamp, SchedulerRelies, SameGrant, SameDel
    <2>5. QED
      BY <2>1, <2>2, <2>3, <2>4, BatchStatement
  <1>11. ASSUME BatchCommit(s)
         PROVE  Sessional' /\ Records'
    <2>1. /\ Commit(s) /\ MarkDue(s) /\ Goto(s, "batchNotify") /\ acct' = acct /\ batch' = batch
      BY <1>11 DEF BatchCommit
    <2>2. OnlyOf(s)
      BY <1>1, <1>2, <2>1, BeginEffect DEF Commit, Rollback
    <2>3. OthersKept(s) /\ pc'[s] = "batchNotify"
      BY <1>1, <1>2, <2>1, <2>2, GotoKept
    <2>4. \A r \in batch[s] : r.acct \in tx[s].grant
      BY <1>2, <1>11 DEF BatchCommit, SchedulerRelies
    <2>5. \A r \in batch[s] : user'[r.acct].known /\ user'[r.acct].by # "none"
      BY <1>1, <1>3, <2>1, <2>4, CommitEffect
    <2>6. Relies(s)'
      BY <1>1, <2>1, <2>3, <2>5 DEF Relies, SchedulerRelies
    <2>7. QED
      BY <1>1, <2>1, <2>3, <2>6, CommitStep
  <1>12. ASSUME BatchNotify(s)
         PROVE  Sessional' /\ Records'
    <2>1. /\ user' = user /\ entry' = entry /\ tx' = tx /\ Finish(s, "idle")
          /\ notice' = [a \in Accounts |-> IF a \in UsersToAllow(s) THEN "sent" ELSE notice[a]]
      BY <1>12 DEF BatchNotify
    <2>2. "idle" \in Waiting
      BY DEF Waiting
    <2>3. OthersKept(s)
      BY <1>1, <1>2, <2>1, <2>2, FinishKept DEF OnlyOf
    <2>4. Relies(s)'
      BY <1>1, <1>2, <2>1, <2>2, EndedRelies
    <2>5. Fits(s)'
      BY <1>2, <2>1 DEF Fits
    <2>6. \A a \in UsersToAllow(s) : user[a].by # "none"
      BY <1>2, <1>12 DEF BatchNotify, SchedulerRelies, UsersToAllow
    <2>7. NoticeAfterGrant'
      BY <1>2, <2>1, <2>6 DEF NoticeAfterGrant
    <2>8. QED
      BY <1>1, <2>1, <2>3, <2>4, <2>5, <2>7, QuietStep
  <1>13. CASE CheckAllProjects(s)
    BY <1>4, <1>13 DEF CheckAllProjects
  <1>14. QED
    BY <1>5, <1>6, <1>7, <1>8, <1>9, <1>10, <1>11, <1>12, <1>13 DEF Poll, BatchStep

-----------------------------------------------------------------------------
(* The invariant *)

LEMMA AccountInit == Init => AccountInv
  <1>. SUFFICES ASSUME Init PROVE AccountInv
    OBVIOUS
  <1>1. Typed
    BY InitTyped
  <1>2. \A p \in Sessions : /\ tx[p].create = {} /\ tx[p].add = {} /\ tx[p].del = {}
                            /\ tx[p].grant = {} /\ pc[p] = "idle"
    BY DEF Init, StoreInit, NoTx
  <1>3. LocksExclusive
    BY DEF Init, StoreInit, LocksExclusive, NoTx
  <1>4. Sessional
    BY <1>2 DEF Init, Sessional, Fits, Relies, ClientRelies, AdminRelies, SchedulerRelies
  <1>5. Records
    BY DEF Init, StoreInit, Records, EntryHasUser, AuditTrail, NoticeAfterGrant, Unknown
  <1>6. QED
    BY <1>1, <1>3, <1>4, <1>5 DEF AccountInv

\* Everything that may befall a session.
LEMMA FailureStep ==
  ASSUME AccountInv, NEW p \in Sessions,
         \/ DeadlockVictim(p) \/ Fault(p) \/ CommitUnacknowledged(p)
         \/ p \in Schedulers /\ Crash(p)
  PROVE  Sessional' /\ Records'
  <1>1. CASE DeadlockVictim(p) \/ Fault(p)
    <2>1. PICK step \in Waiting : Finish(p, step)
      BY <1>1, AbortTyped DEF DeadlockVictim, Fault, AccountInv
    <2>2. Rollback(p) /\ user' = user /\ entry' = entry /\ notice' = notice
      BY <1>1 DEF DeadlockVictim, Fault
    <2>3. QED
      BY <2>1, <2>2, GivenUp
  <1>2. CASE CommitUnacknowledged(p)
    <2>1. PICK step \in Waiting : Finish(p, step)
      BY <1>2, AbortTyped DEF CommitUnacknowledged, AccountInv
    <2>2. Commit(p) /\ MarkDue(p)
      BY <1>2 DEF CommitUnacknowledged
    <2>3. QED
      BY <2>1, <2>2, Finished
  <1>3. CASE p \in Schedulers /\ Crash(p)
    <2>1. /\ user' = user /\ entry' = entry /\ acct' = acct /\ notice' = notice
          /\ Rollback(p) /\ Goto(p, "idle") /\ batch' = [batch EXCEPT ![p] = {}]
      BY <1>3 DEF Crash
    <2>2. OnlyOf(p) /\ OnlyDeletes(p, {})
      BY <2>1, BeginEffect DEF Rollback, AccountInv, Typed
    <2>3. Fits(p)'
      BY <2>2 DEF OnlyDeletes, Fits
    <2>4. batch'[p] = {} /\ \A q \in Schedulers \ {p} : batch'[q] = batch[q]
      BY <1>3, <2>1 DEF AccountInv, Typed, TypeOK
    <2>5. pc'[p] = "idle" => SchedulerRelies(p)'
      BY <2>4 DEF SchedulerRelies
    <2>6. QED
      BY <1>3, <2>1, <2>2, <2>3, <2>4, <2>5, BatchStatement
  <1>4. QED
    BY <1>1, <1>2, <1>3

\* Time passes, or nothing happens.
LEMMA IdleStep ==
  ASSUME AccountInv, Tick \/ UNCHANGED vars
  PROVE  Sessional' /\ Records'
  <1>1. CASE UNCHANGED vars
    BY <1>1 DEF vars, AccountInv, Sessional, Records, Fits, Relies, ClientRelies, AdminRelies,
                SchedulerRelies, EntryHasUser, AuditTrail, NoticeAfterGrant
  <1>2. CASE Tick
    <2>1. user' = user /\ pc' = pc /\ acct' = acct /\ batch' = batch /\ notice' = notice
      BY <1>2 DEF Tick, Clock
    <2>2. \A a \in Accounts : entry'[a].on = entry[a].on
      <3>1. ASSUME NEW a \in Accounts
            PROVE  [entry[a] EXCEPT !.age = Older(@)].on = entry[a].on
        BY DEF AccountInv, Typed, TypeOK, StoreTypeOK, Entries
      <3>2. QED
        BY <1>2, <3>1 DEF Tick, Clock
    <2>3. \A p \in Sessions : SameCreate(p) /\ SameAdd(p) /\ SameDel(p) /\ SameGrant(p)
      BY <1>2, ClockEffect DEF Tick, AccountInv, Typed
    <2>4. ASSUME NEW p \in Sessions PROVE Fits(p)' /\ Relies(p)'
      <3>1. Fits(p) /\ Relies(p)
        BY DEF AccountInv, Sessional
      <3>2. tx[p].add \subseteq Accounts
        BY DEF AccountInv, Typed, TypeOK, StoreTypeOK, Transactions
      <3>3. Fits(p)'
        BY <2>1, <2>2, <2>3, <3>1, <3>2 DEF Fits, SameCreate, SameAdd, SameGrant
      <3>4. Relies(p)'
        BY <2>1, <2>3, <3>1
        DEF Relies, ClientRelies, AdminRelies, SchedulerRelies,
            SameCreate, SameAdd, SameDel, SameGrant
      <3>5. QED
        BY <3>3, <3>4
    <2>5. Records'
      BY <2>1, <2>2 DEF AccountInv, Records, EntryHasUser, AuditTrail, NoticeAfterGrant
    <2>6. QED
      BY <2>4, <2>5 DEF Sessional
  <1>3. QED
    BY <1>1, <1>2

LEMMA AccountStep == AccountInv /\ [Next]_vars => AccountInv'
  <1>. SUFFICES ASSUME AccountInv, [Next]_vars PROVE AccountInv'
    OBVIOUS
  <1>1. Typed' /\ LocksExclusive'
    BY TypedStep, LocksStep DEF AccountInv, Typed
  <1>2. Sessional' /\ Records'
    BY ClientStep, GrantRequestStep, AdminEditStep, SchedulerStep, FailureStep, IdleStep
    DEF Next, AdminRequest, Sessions
  <1>3. QED
    BY <1>1, <1>2 DEF AccountInv

\* Every open transaction fits the tables whatever the others have committed since
\* it began, every session may rely on what it has read, and the tables and mails
\* are in order.
THEOREM AccountsAreSound == Spec => []AccountInv
  BY AccountInit, AccountStep, PTL DEF Spec

\* A row of the waiting list never outlives, or precedes, its user: the sign-up
\* that creates the user adds the row in the same transaction.
THEOREM RowsHaveUsers == Spec => []EntryHasUser
  <1>1. AccountInv => EntryHasUser
    BY DEF AccountInv, Records
  <1>2. QED
    BY <1>1, AccountsAreSound, PTL

\* The audit columns agree with has_access, however grants, batches, revocations
\* and sign-ups overlap.
THEOREM AuditTrailIsKept == Spec => []AuditTrail
  <1>1. AccountInv => AuditTrail
    BY DEF AccountInv, Records
  <1>2. QED
    BY <1>1, AccountsAreSound, PTL

\* Nobody is told of an access that no committed transaction has granted.
THEOREM MailsFollowGrants == Spec => []NoticeAfterGrant
  <1>1. AccountInv => NoticeAfterGrant
    BY DEF AccountInv, Records
  <1>2. QED
    BY <1>1, AccountsAreSound, PTL

-----------------------------------------------------------------------------
(* What a step may do to the access of a user *)

LEMMA AccessStep ==
  ASSUME AccountInv, [Next]_vars, NEW a \in Accounts, user[a].access, ~user'[a].access
  PROVE  \E d \in Admins : Revoke(d, a)
  <1>1. ASSUME NEW p \in Sessions, Commit(p)
        PROVE  FALSE
    BY <1>1, CommitEffect
  <1>2. user' # user
    OBVIOUS
  <1>3. ASSUME NEW d \in Admins, NEW b \in Accounts, Revoke(d, b)
        PROVE  b = a
    BY <1>3 DEF Revoke, RevokeAccess, AccountInv, Typed, TypeOK, StoreTypeOK
  <1>4. \/ \E p \in Sessions : Commit(p)
        \/ \E d \in Admins, b \in Accounts : Revoke(d, b)
    <2>. USE <1>2 DEF Sessions
    <2>1. ~ UNCHANGED vars /\ ~ Tick
      BY DEF vars, Tick, Clock
    <2>2. ASSUME NEW c \in Clients, AddStep(c) \/ \E b \in Accounts : AddLookup(c, b)
          PROVE  Commit(c)
      BY <2>2 DEF AddStep, AddLookup, AddCreate, AddInsert, AddCommit
    <2>3. ASSUME NEW d \in Admins, GrantStep(d) \/ AdminRequest(d)
          PROVE  Commit(d) \/ \E b \in Accounts : Revoke(d, b)
      BY <2>3 DEF GrantStep, AdminRequest, GrantDelete, GrantAccess, GrantCommit, GrantNotify,
                  DeleteWaitlist, DeleteByID
    <2>4. ASSUME NEW s \in Schedulers, Poll(s) \/ BatchStep(s) \/ Crash(s)
          PROVE  Commit(s)
      BY <2>4 DEF Poll, CheckAllProjects, ProcessProject, BatchStep, FetchEntries, BatchBegin,
                  BatchGrant, BatchDelete, BatchStamp, BatchCommit, BatchNotify, Crash
    <2>5. ASSUME NEW p \in Sessions, DeadlockVictim(p) \/ Fault(p) \/ CommitUnacknowledged(p)
          PROVE  Commit(p)
      BY <2>5 DEF DeadlockVictim, Fault, CommitUnacknowledged
    <2>6. QED
      BY <2>1, <2>2, <2>3, <2>4, <2>5 DEF Next
  <1>5. QED
    BY <1>1, <1>3, <1>4

\* Access is taken back by a revocation of that account and by nothing else: no
\* commit of a transaction that began earlier, no fault and no crash does.
THEOREM OnlyRevocationTakesAccess == Spec => OnlyRevokeTakesAccess
  <1>1. AccountInv /\ [Next]_vars =>
          [\A a \in Accounts :
             user[a].access /\ ~user'[a].access => \E d \in Admins : Revoke(d, a)]_vars
    BY AccessStep
  <1>2. QED
    BY <1>1, AccountsAreSound, PTL DEF Spec, OnlyRevokeTakesAccess

-----------------------------------------------------------------------------
(* What a step may do to a row *)

\* A commit removes only rows of users it gives access to.
LEMMA CommitRemoves ==
  ASSUME AccountInv, NEW p \in Sessions, Commit(p),
         pc[p] \in {"addCommit", "grantCommit", "batchCommit"},
         NEW a \in Accounts, entry[a].on, ~entry'[a].on
  PROVE  user'[a].access
  <1>1. EntryRef(a) \in tx[p].del /\ EntryRef(a).acct = a
    BY CommitEffect DEF EntryRef
  <1>2. Relies(p)
    BY DEF AccountInv, Sessional
  <1>3. a \in tx[p].grant
    BY <1>1, <1>2 DEF Relies, ClientRelies, AdminRelies, SchedulerRelies
  <1>4. QED
    BY <1>3, CommitEffect

LEMMA RowStep ==
  ASSUME AccountInv, [Next]_vars, NEW a \in Accounts, entry[a].on,
         ~entry'[a].on \/ entry'[a].id # entry[a].id
  PROVE  user'[a].access \/ \E d \in Admins : DeleteWaitlist(d, a)
  <1>. DEFINE Commits(p) == Commit(p) /\ pc[p] \in {"addCommit", "grantCommit", "batchCommit"}
  <1>1. ASSUME NEW p \in Sessions, Commits(p)
        PROVE  user'[a].access
    BY <1>1, CommitEffect, CommitRemoves
  <1>2. entry' # entry /\ ~ UNCHANGED vars
    BY DEF vars
  <1>3. ~ Tick
    <2>1. entry[a] \in Entries
      BY DEF AccountInv, Typed, TypeOK, StoreTypeOK
    <2>2. LET older == [entry[a] EXCEPT !.age = Older(@)]
          IN  older.on = entry[a].on /\ older.id = entry[a].id
      BY <2>1 DEF Entries
    <2>3. QED
      BY <2>2 DEF Tick, Clock
  <1>4. ASSUME NEW d \in Admins, NEW b \in Accounts, DeleteWaitlist(d, b)
        PROVE  b = a
    BY <1>4 DEF DeleteWaitlist, DeleteByID, EntryRef, AccountInv, Typed, TypeOK, StoreTypeOK
  <1>5. \/ \E p \in Sessions : Commits(p)
        \/ \E d \in Admins, b \in Accounts : DeleteWaitlist(d, b)
    <2>. USE <1>2 DEF Sessions
    <2>1. ASSUME NEW c \in Clients, AddStep(c) \/ \E b \in Accounts : AddLookup(c, b)
          PROVE  Commits(c)
      BY <2>1 DEF AddStep, AddLookup, AddCreate, AddInsert, AddCommit
    <2>2. ASSUME NEW d \in Admins, GrantStep(d) \/ AdminRequest(d)
          PROVE  Commits(d) \/ \E b \in Accounts : DeleteWaitlist(d, b)
      BY <2>2 DEF GrantStep, AdminRequest, GrantDelete, GrantAccess, GrantCommit, GrantNotify,
                  Revoke, RevokeAccess
    <2>3. ASSUME NEW s \in Schedulers, Poll(s) \/ BatchStep(s) \/ Crash(s)
          PROVE  Commits(s)
      BY <2>3 DEF Poll, CheckAllProjects, ProcessProject, BatchStep, FetchEntries, BatchBegin,
                  BatchGrant, BatchDelete, BatchStamp, BatchCommit, BatchNotify, Crash
    <2>4. ASSUME NEW p \in Sessions, DeadlockVictim(p) \/ Fault(p) \/ CommitUnacknowledged(p)
          PROVE  Commits(p)
      BY <2>4 DEF DeadlockVictim, Fault, CommitUnacknowledged
    <2>5. QED
      BY <1>3, <2>1, <2>2, <2>3, <2>4 DEF Next
  <1>6. QED
    BY <1>1, <1>4, <1>5

\* No applicant is lost: a row goes, or is replaced, only in the step that gives
\* its user access, or because an admin removed that very row.  A batch that read
\* the row long ago, a grant that is cancelled and a crash between the statements
\* all leave it where it is.
THEOREM NoApplicantIsLost == Spec => NoLostApplicant
  <1>1. AccountInv /\ [Next]_vars =>
          [\A a \in Accounts :
             entry[a].on /\ (~entry'[a].on \/ entry'[a].id # entry[a].id) =>
               user'[a].access \/ \E d \in Admins : DeleteWaitlist(d, a)]_vars
    BY RowStep
  <1>2. QED
    BY <1>1, AccountsAreSound, PTL DEF Spec, NoLostApplicant

=============================================================================
