------------------------------ MODULE Waitlist ------------------------------
(***************************************************************************)
(* The life of an account on the waiting list: the sign-up handler of the  *)
(* public API, the grant, revoke and remove handlers of the admin API and  *)
(* the scheduler, each one a process that talks to the database of module  *)
(* Store one statement at a time.                                          *)
(*                                                                         *)
(*   sign-up    idle -> create -> insert -> addCommit -> an answer         *)
(*   grant      idle -> access -> grantCommit -> grantNotify -> idle       *)
(*   scheduler  idle -> fetch -> begin -> grant -> delete -> stamp         *)
(*                   -> batchCommit -> batchNotify -> idle                 *)
(***************************************************************************)
EXTENDS Store

CONSTANTS
  Batch,      \* entry_batch_size of a project
  Window,     \* entry_window_interval of a project, in steps of the clock
  Disabled,   \* the projects with scheduler_disabled
  MaxFaults   \* bound: statements that fail, requests cancelled, crashes

\* Neither number is validated: a batch of nothing and no window at all
\* are possible.
ASSUME ConfigAssumption ==
  /\ Batch \in [Projects -> Nat]
  /\ Window \in [Projects -> 0 .. AgeCap]
  /\ Disabled \subseteq Projects

ASSUME FaultsAssumption == MaxFaults \in Nat

NoAccount == <<>>
NoProject == "none"

ASSUME NamesAssumption ==
  /\ NoAccount \notin Accounts
  /\ NoProject \notin Projects

VARIABLES
  pc,      \* the statement a session is about to make, or its answer
  acct,    \* the account a request is about
  round,   \* the projects a scheduler has still to look at on this tick
  proj,    \* the project a scheduler is processing
  batch,   \* the rows a scheduler has read and means to promote
  notice,  \* the mail that tells an account of its access
  faults

vars == <<user, entry, cool, tx, pc, acct, round, proj, batch, notice, faults>>
localVars == <<acct, round, proj, batch>>

Answers == {"Created", "ResetContent", "Conflict", "ServerError"}
Waiting == {"idle"} \cup Answers
Steps ==
  Waiting \cup {"create", "insert", "addCommit",
                "access", "grantCommit", "grantNotify",
                "fetch", "begin", "grant", "delete", "stamp", "batchCommit", "batchNotify"}

TypeOK ==
  /\ StoreTypeOK
  /\ pc \in [Sessions -> Steps]
  /\ acct \in [Clients \cup Admins -> Accounts \cup {NoAccount}]
  /\ round \in [Schedulers -> SUBSET Projects]
  /\ proj \in [Schedulers -> Projects \cup {NoProject}]
  /\ batch \in [Schedulers -> SUBSET Refs]
  /\ notice \in [Accounts -> {"none", "due", "sent"}]
  /\ faults \in 0 .. MaxFaults

Init ==
  /\ StoreInit
  /\ pc = [p \in Sessions |-> "idle"]
  /\ acct = [p \in Clients \cup Admins |-> NoAccount]
  /\ round = [s \in Schedulers |-> {}]
  /\ proj = [s \in Schedulers |-> NoProject]
  /\ batch = [s \in Schedulers |-> {}]
  /\ notice = [a \in Accounts |-> "none"]
  /\ faults = 0

Busy(p) == pc[p] \notin Waiting

Goto(p, step) == pc' = [pc EXCEPT ![p] = step]

\* A request is answered, a scheduler goes on with its round: the locals of the
\* handler are gone.
Finish(p, step) ==
  /\ Goto(p, step)
  /\ acct' = [q \in DOMAIN acct |-> IF q = p THEN NoAccount ELSE acct[q]]
  /\ proj' = [s \in Schedulers |-> IF s = p THEN NoProject ELSE proj[s]]
  /\ batch' = [s \in Schedulers |-> IF s = p THEN {} ELSE batch[s]]
  /\ UNCHANGED round

\* How a session ends that meets an error: the deferred Rollback and, for a
\* sign-up, a 500.
Abort(p) == Finish(p, IF p \in Clients THEN "ServerError" ELSE "idle")

-----------------------------------------------------------------------------
(* Sign-up: WaitingListHandler.handleAdd *)

\* Bound: the rows there have ever been and those the requests under way may add.
RowsEver == UNION {{[acct |-> a, id |-> n] : n \in 1 .. entry[a].id} : a \in Accounts}
MayAddRow ==
  Cardinality(RowsEver) + Cardinality({c \in Clients : Busy(c)}) < MaxEntries

\* Mutant: the check of HasAccess is gone.
AddLookupAnyone(c, a) ==
  /\ ~Busy(c)
  /\ ConnectionFree
  /\ MayAddRow
  /\ Goto(c, IF user[a].known THEN "insert" ELSE "create")
  /\ acct' = [acct EXCEPT ![c] = a]
  /\ tx' = [tx EXCEPT ![c] = Begun]
  /\ UNCHANGED <<user, entry, cool, round, proj, batch, notice, faults>>

\* Mutant: the pool is not limited to one connection.
AddLookupUnlimited(c, a) ==
  /\ ~Busy(c)
  /\ MayAddRow
  /\ IF user[a].access
     THEN Goto(c, "ResetContent") /\ UNCHANGED <<tx, acct>>
     ELSE /\ Goto(c, IF user[a].known THEN "insert" ELSE "create")
          /\ acct' = [acct EXCEPT ![c] = a]
          /\ tx' = [tx EXCEPT ![c] = Begun]
  /\ UNCHANGED <<user, entry, cool, round, proj, batch, notice, faults>>

\* Mutant: the place on the list is taken before the user is created.
AddLookupReserves(c, a) ==
  /\ ~Busy(c)
  /\ ConnectionFree
  /\ MayAddRow
  /\ IF user[a].access
     THEN Goto(c, "ResetContent") /\ UNCHANGED <<tx, acct>>
     ELSE /\ Goto(c, IF user[a].known THEN "insert" ELSE "create")
          /\ acct' = [acct EXCEPT ![c] = a]
          /\ tx' = [tx EXCEPT ![c] = [Begun EXCEPT !.add = {a}]]
  /\ UNCHANGED <<user, entry, cool, round, proj, batch, notice, faults>>

\* BeginTx and GetByEmailTx.  Neither waits for a lock.
AddLookup(c, a) ==
  /\ ~Busy(c)
  /\ ConnectionFree
  /\ MayAddRow
  /\ IF user[a].access
     THEN Goto(c, "ResetContent") /\ UNCHANGED <<tx, acct>>
     ELSE /\ Goto(c, IF user[a].known THEN "insert" ELSE "create")
          /\ acct' = [acct EXCEPT ![c] = a]
          /\ tx' = [tx EXCEPT ![c] = Begun]
  /\ UNCHANGED <<user, entry, cool, round, proj, batch, notice, faults>>

\* Mutant: INSERT .. ON CONFLICT DO UPDATE.
AddCreateUpserts(c) ==
  LET a == acct[c] IN
  /\ pc[c] = "create"
  /\ CreatorsOf(a) \subseteq {c}
  /\ Goto(c, "insert") /\ CreateTx(c, a) /\ UNCHANGED localVars
  /\ UNCHANGED <<user, entry, cool, notice, faults>>

\* Mutant: the user another sign-up is still creating is taken for granted.
AddCreateTrusting(c) ==
  LET a == acct[c] IN
  /\ pc[c] = "create"
  /\ IF user[a].known \/ CreatorsOf(a) # {}
     THEN Goto(c, "insert") /\ UNCHANGED <<tx, localVars>>
     ELSE Goto(c, "insert") /\ CreateTx(c, a) /\ UNCHANGED localVars
  /\ UNCHANGED <<user, entry, cool, notice, faults>>

\* Any error of CreateTx is a 500, ErrDuplicateEmail included.
AddCreate(c) ==
  LET a == acct[c] IN
  /\ pc[c] = "create"
  /\ CreatorsOf(a) \subseteq {c}
  /\ IF user[a].known
     THEN Abort(c) /\ Rollback(c)
     ELSE Goto(c, "insert") /\ CreateTx(c, a) /\ UNCHANGED localVars
  /\ UNCHANGED <<user, entry, cool, notice, faults>>

\* The unique index on user_id: a second row for the user is a 409.
AddInsert(c) ==
  LET a == acct[c] IN
  /\ pc[c] = "insert"
  /\ InsertersOf(a) \subseteq {c}
  /\ DeletersOf({EntryRef(a)}) = {}
  /\ IF entry[a].on
     THEN Finish(c, "Conflict") /\ Rollback(c)
     ELSE Goto(c, "addCommit") /\ Add(c, a) /\ UNCHANGED localVars
  /\ UNCHANGED <<user, entry, cool, notice, faults>>

AddCommit(c) ==
  /\ pc[c] = "addCommit"
  /\ Commit(c)
  /\ Finish(c, "Created")
  /\ UNCHANGED <<notice, faults>>

-----------------------------------------------------------------------------
(* Admin: AdminHandler.handleGrant, handleRevoke, handleDeleteWaitlist *)

\* Mutant: the row is deleted outside of the transaction.
GrantDeleteAtOnce(d, a) ==
  /\ ~Busy(d)
  /\ ConnectionFree
  /\ a \in Accounts /\ user[a].known
  /\ DeletersOf({EntryRef(a)}) = {}
  /\ entry' = [entry EXCEPT ![a].on = FALSE]
  /\ tx' = [tx EXCEPT ![d] = Begun]
  /\ Goto(d, "access")
  /\ acct' = [acct EXCEPT ![d] = a]
  /\ UNCHANGED <<user, cool, round, proj, batch, notice, faults>>

\* BeginTx and DeleteByUserIDTx, for the id of a user or an id of nobody.
GrantDelete(d, a) ==
  /\ ~Busy(d)
  /\ ConnectionFree
  /\ \/ a = NoAccount /\ tx' = [tx EXCEPT ![d] = Begun]
     \/ /\ a \in Accounts /\ user[a].known
        /\ DeletersOf({EntryRef(a)}) = {}
        /\ tx' = [tx EXCEPT ![d] = [Begun EXCEPT !.del = {r \in {EntryRef(a)} : Live(r)}]]
  /\ Goto(d, "access")
  /\ acct' = [acct EXCEPT ![d] = a]
  /\ UNCHANGED <<user, entry, cool, round, proj, batch, notice, faults>>

\* Mutant: the mail is sent before the commit.
GrantAccessTells(d) ==
  LET a == acct[d] IN
  /\ pc[d] = "access"
  /\ IF a = NoAccount
     THEN Finish(d, "idle") /\ Rollback(d) /\ UNCHANGED notice
     ELSE /\ GrantersOf({a}) = {}
          /\ GrantAccessTx(d, {a}, "admin")
          /\ notice' = [notice EXCEPT ![a] = "sent"]
          /\ Goto(d, "grantCommit") /\ UNCHANGED localVars
  /\ UNCHANGED <<user, entry, cool, faults>>

\* Mutant: no row matched is not an error.
GrantAccessUnchecked(d) ==
  LET a == acct[d] IN
  /\ pc[d] = "access"
  /\ GrantersOf({a}) = {}
  /\ GrantAccessTx(d, {a}, "admin")
  /\ Goto(d, "grantCommit")
  /\ UNCHANGED <<user, entry, cool, acct, round, proj, batch, notice, faults>>

\* GrantAccessTx; no row matched is a 404.
GrantAccess(d) ==
  LET a == acct[d] IN
  /\ pc[d] = "access"
  /\ IF a = NoAccount
     THEN Finish(d, "idle") /\ Rollback(d)
     ELSE /\ GrantersOf({a}) = {}
          /\ GrantAccessTx(d, {a}, "admin")
          /\ Goto(d, "grantCommit") /\ UNCHANGED localVars
  /\ UNCHANGED <<user, entry, cool, notice, faults>>

\* Whoever a committed transaction granted access to is to be told.
MarkDue(p) ==
  notice' = [a \in Accounts |-> IF a \in tx[p].grant THEN "due" ELSE notice[a]]

GrantCommit(d) ==
  /\ pc[d] = "grantCommit"
  /\ Commit(d)
  /\ MarkDue(d)
  /\ Goto(d, "grantNotify")
  /\ UNCHANGED <<acct, round, proj, batch, faults>>

\* GetByID and NotifyAccessGranted.
GrantNotify(d) ==
  /\ pc[d] = "grantNotify"
  /\ ConnectionFree
  /\ notice' = [notice EXCEPT ![acct[d]] = "sent"]
  /\ Finish(d, "idle")
  /\ UNCHANGED <<user, entry, cool, tx, faults>>

\* One UPDATE, whether or not the user has access.
Revoke(d, a) ==
  /\ ~Busy(d)
  /\ ConnectionFree
  /\ RevokeAccess(a)
  /\ UNCHANGED <<pc, acct, round, proj, batch, notice, faults>>

\* One DELETE by the id of a row; a row that is gone is a 404.
DeleteWaitlist(d, a) ==
  /\ ~Busy(d)
  /\ ConnectionFree
  /\ DeleteByID(EntryRef(a))
  /\ UNCHANGED <<pc, acct, round, proj, batch, notice, faults>>

-----------------------------------------------------------------------------
(* Scheduler: waitlist.Start *)

\* The ticker, or the first run of a started server.
CheckAllProjects(s) ==
  /\ pc[s] = "idle" /\ round[s] = {}
  /\ round' = [round EXCEPT ![s] = Projects]
  /\ UNCHANGED <<user, entry, cool, tx, pc, acct, proj, batch, notice, faults>>

\* Mutant: the cooldown ends one step of the clock early.
ProcessProjectEarly(s, j) ==
  /\ pc[s] = "idle" /\ j \in round[s]
  /\ ConnectionFree
  /\ round' = [round EXCEPT ![s] = @ \ {j}]
  /\ IF j \in Disabled \/ cool[j] + 1 < Window[j]
     THEN UNCHANGED <<pc, proj>>
     ELSE Goto(s, "fetch") /\ proj' = [proj EXCEPT ![s] = j]
  /\ UNCHANGED <<user, entry, cool, tx, acct, batch, notice, faults>>

\* Mutant: SchedulerDisabled is not looked at.
ProcessProjectAlways(s, j) ==
  /\ pc[s] = "idle" /\ j \in round[s]
  /\ ConnectionFree
  /\ round' = [round EXCEPT ![s] = @ \ {j}]
  /\ IF cool[j] < Window[j]
     THEN UNCHANGED <<pc, proj>>
     ELSE Goto(s, "fetch") /\ proj' = [proj EXCEPT ![s] = j]
  /\ UNCHANGED <<user, entry, cool, tx, acct, batch, notice, faults>>

\* GetLastSuccess, and the returns before a project's rows are read.
ProcessProject(s, j) ==
  /\ pc[s] = "idle" /\ j \in round[s]
  /\ ConnectionFree
  /\ round' = [round EXCEPT ![s] = @ \ {j}]
  /\ IF j \in Disabled \/ cool[j] < Window[j]
     THEN UNCHANGED <<pc, proj>>
     ELSE Goto(s, "fetch") /\ proj' = [proj EXCEPT ![s] = j]
  /\ UNCHANGED <<user, entry, cool, tx, acct, batch, notice, faults>>

\* Mutant: rows are taken one step of the clock before they have waited a window.
FetchEntriesEarly(s) ==
  LET j == proj[s] IN
  /\ pc[s] = "fetch"
  /\ ConnectionFree
  /\ \E page \in OldestFirst(j, Batch[j]) :
       LET ready == {a \in page : entry[a].age + 1 >= Window[j]} IN
       IF ready = {}
       THEN Finish(s, "idle")
       ELSE /\ batch' = [batch EXCEPT ![s] = {EntryRef(a) : a \in ready}]
            /\ Goto(s, "begin")
            /\ UNCHANGED <<acct, round, proj>>
  /\ UNCHANGED <<user, entry, cool, tx, notice, faults>>

\* GetWithOffsetLimit, outside of any transaction, and the filter on the age.
FetchEntries(s) ==
  LET j == proj[s] IN
  /\ pc[s] = "fetch"
  /\ ConnectionFree
  /\ \E page \in OldestFirst(j, Batch[j]) :
       LET ready == {a \in page : entry[a].age >= Window[j]} IN
       IF ready = {}
       THEN Finish(s, "idle")
       ELSE /\ batch' = [batch EXCEPT ![s] = {EntryRef(a) : a \in ready}]
            /\ Goto(s, "begin")
            /\ UNCHANGED <<acct, round, proj>>
  /\ UNCHANGED <<user, entry, cool, tx, notice, faults>>

UsersToAllow(s) == {r.acct : r \in batch[s]}

BatchBegin(s) ==
  /\ pc[s] = "begin"
  /\ ConnectionFree
  /\ tx' = [tx EXCEPT ![s] = Begun]
  /\ Goto(s, "grant")
  /\ UNCHANGED <<user, entry, cool, acct, round, proj, batch, notice, faults>>

\* Mutant: the UPDATE leaves out users that have access, and matching none of the
\* batch is an error.
BatchGrantOnlyNew(s) ==
  /\ pc[s] = "grant"
  /\ IF \A a \in UsersToAllow(s) : user[a].access
     THEN Rollback(s) /\ Finish(s, "idle")
     ELSE \E a \in UsersToAllow(s) \ tx[s].grant :
            /\ GrantersOf({a}) = {}
            /\ GrantAccessTx(s, tx[s].grant \cup {a}, "scheduler")
            /\ Goto(s, IF UsersToAllow(s) \subseteq tx'[s].grant THEN "delete" ELSE "grant")
            /\ UNCHANGED localVars
  /\ UNCHANGED <<user, entry, cool, notice, faults>>

\* GrantAccessTx: by user id, whatever has become of the user since the rows
\* were read.  One UPDATE locks the rows of the array one by one, in an order of
\* the database's choosing; this is the step to the next of them.
BatchGrant(s) ==
  /\ pc[s] = "grant"
  /\ \E a \in UsersToAllow(s) \ tx[s].grant :
       /\ GrantersOf({a}) = {}
       /\ GrantAccessTx(s, tx[s].grant \cup {a}, "scheduler")
       /\ Goto(s, IF UsersToAllow(s) \subseteq tx[s].grant \cup {a} THEN "delete" ELSE "grant")
  /\ UNCHANGED <<user, entry, cool, acct, round, proj, batch, notice, faults>>

\* Mutant: one id of the array is passed on.
LeftOfOne(s) == IF tx[s].del = {} THEN {r \in batch[s] : Live(r)} ELSE {}

\* The rows of the batch that the DELETE has still to get to; one that is gone
\* matches nothing.
Left(s) == {r \in batch[s] : Live(r)} \ tx[s].del

\* DeleteByIDsTx, row by row as well.
BatchDelete(s) ==
  /\ pc[s] = "delete"
  /\ IF Left(s) = {}
     THEN Goto(s, "stamp") /\ UNCHANGED tx
     ELSE /\ \E r \in Left(s) :
               DeletersOf({r}) = {} /\ DeleteByIDsTx(s, tx[s].del \cup {r})
          /\ UNCHANGED pc
  /\ UNCHANGED <<user, entry, cool, acct, round, proj, batch, notice, faults>>

BatchStamp(s) ==
  /\ pc[s] = "stamp"
  /\ StampersOf(proj[s]) = {}
  /\ UpdateLastSuccess(s, proj[s])
  /\ Goto(s, "batchCommit")
  /\ UNCHANGED <<user, entry, cool, acct, round, proj, batch, notice, faults>>

BatchCommit(s) ==
  /\ pc[s] = "batchCommit"
  /\ Commit(s)
  /\ MarkDue(s)
  /\ Goto(s, "batchNotify")
  /\ UNCHANGED <<acct, round, proj, batch, faults>>

\* Mutant: no mail to a user whose access is gone again.
BatchNotifyIfAccess(s) ==
  /\ pc[s] = "batchNotify"
  /\ ConnectionFree
  /\ notice' = [a \in Accounts |->
                  IF a \in UsersToAllow(s) /\ user[a].access THEN "sent" ELSE notice[a]]
  /\ Finish(s, "idle")
  /\ UNCHANGED <<user, entry, cool, tx, faults>>

\* GetByIDs and a NotifyAccessGranted for each user found.
BatchNotify(s) ==
  /\ pc[s] = "batchNotify"
  /\ ConnectionFree
  /\ notice' = [a \in Accounts |-> IF a \in UsersToAllow(s) THEN "sent" ELSE notice[a]]
  /\ Finish(s, "idle")
  /\ UNCHANGED <<user, entry, cool, tx, faults>>

-----------------------------------------------------------------------------
(* Waits, failures, time *)

\* The sessions the statement p is at has to wait for, of a statement of several
\* rows for any row it has not got to: those it may be waiting for.
WaitsFor(p) ==
  LET q == Others(p) IN
  CASE pc[p] = "create" -> q \cap CreatorsOf(acct[p])
    [] pc[p] = "insert" -> q \cap (InsertersOf(acct[p]) \cup DeletersOf({EntryRef(acct[p])}))
    [] pc[p] = "access" -> IF acct[p] = NoAccount THEN {} ELSE q \cap GrantersOf({acct[p]})
    [] pc[p] = "grant"  -> q \cap GrantersOf(UsersToAllow(p) \ tx[p].grant)
    [] pc[p] = "delete" -> q \cap DeletersOf(Left(p))
    [] pc[p] = "stamp"  -> q \cap StampersOf(proj[p])
    [] OTHER -> {}

\* p waits for somebody who waits, directly or through others, for p: it is one of
\* every set that has those it waits for and all those they wait for.
WaitsForItself(p) ==
  \A S \in SUBSET Sessions :
    WaitsFor(p) \subseteq S /\ (\A q \in S : WaitsFor(q) \subseteq S) => p \in S

\* The database ends a transaction that waits in a circle.
DeadlockVictim(p) ==
  /\ WaitsFor(p) # {}
  /\ WaitsForItself(p)
  /\ Rollback(p)
  /\ Abort(p)
  /\ UNCHANGED <<user, entry, cool, notice, faults>>

\* A statement fails, or the request is cancelled: what was not committed is gone.
Fault(p) ==
  /\ Busy(p)
  /\ faults < MaxFaults
  /\ faults' = faults + 1
  /\ Rollback(p)
  /\ Abort(p)
  /\ UNCHANGED <<user, entry, cool, notice>>

\* The server of a scheduler dies and is started again: its round is over as well.
\* For a request that is on its way a crash is a Fault.
Crash(s) ==
  /\ Busy(s) \/ round[s] # {}
  /\ faults < MaxFaults
  /\ faults' = faults + 1
  /\ Rollback(s)
  /\ Goto(s, "idle")
  /\ round' = [round EXCEPT ![s] = {}]
  /\ proj' = [proj EXCEPT ![s] = NoProject]
  /\ batch' = [batch EXCEPT ![s] = {}]
  /\ UNCHANGED <<user, entry, cool, acct, notice>>

\* The connection is lost after the database has committed: the caller sees an
\* error although the writes are there.
CommitUnacknowledged(p) ==
  /\ pc[p] \in {"addCommit", "grantCommit", "batchCommit"}
  /\ faults < MaxFaults
  /\ faults' = faults + 1
  /\ Commit(p)
  /\ MarkDue(p)
  /\ Abort(p)

Tick ==
  /\ Clock
  /\ UNCHANGED <<pc, acct, round, proj, batch, notice, faults>>

-----------------------------------------------------------------------------
AddStep(c) == AddCreate(c) \/ AddInsert(c) \/ AddCommit(c)

GrantStep(d) == GrantAccess(d) \/ GrantCommit(d) \/ GrantNotify(d)

BatchStep(s) ==
  \/ FetchEntries(s) \/ BatchBegin(s) \/ BatchGrant(s) \/ BatchDelete(s)
  \/ BatchStamp(s) \/ BatchCommit(s) \/ BatchNotify(s)

Poll(s) == CheckAllProjects(s) \/ \E j \in Projects : ProcessProject(s, j)

AdminRequest(d) ==
  \/ \E a \in Accounts \cup {NoAccount} : GrantDelete(d, a)
  \/ \E a \in Accounts : Revoke(d, a) \/ DeleteWaitlist(d, a)

Next ==
  \/ \E c \in Clients : AddStep(c) \/ \E a \in Accounts : AddLookup(c, a)
  \/ \E d \in Admins : AdminRequest(d) \/ GrantStep(d)
  \/ \E s \in Schedulers : Poll(s) \/ BatchStep(s) \/ Crash(s)
  \/ \E p \in Sessions : DeadlockVictim(p) \/ Fault(p) \/ CommitUnacknowledged(p)
  \/ Tick

Spec == Init /\ [][Next]_vars

\* The runtime keeps every request and every scheduler going, and time passes.  A
\* statement that waits gets its turn: PostgreSQL queues the waiters of a row and
\* database/sql those of the connection, so a session whose next statement can be
\* made again and again makes it; of the scheduler's DELETE, which can be the
\* victim of a deadlock, this holds by itself.  The database resolves its
\* deadlocks.  Nobody is obliged to send a request, and nothing is obliged to fail.
Fairness ==
  /\ \A c \in Clients : SF_vars(AddStep(c))
  /\ \A d \in Admins : SF_vars(GrantStep(d))
  /\ \A s \in Schedulers : SF_vars(BatchDelete(s)) /\ SF_vars(Poll(s) \/ BatchStep(s))
  /\ WF_vars(\E p \in Sessions : DeadlockVictim(p))
  /\ WF_vars(Tick)

FairSpec == Spec /\ Fairness

-----------------------------------------------------------------------------
(* Properties *)

\* Whoever has access got it from a recorded source, and no revocation is left
\* on record beside it (GrantAccessTx: "re-granting access leaves the audit
\* state consistent"), however grants, revocations and sign-ups overlap.
AuditTrail ==
  \A a \in Accounts :
    user[a].access => user[a].known /\ user[a].by # "none" /\ ~user[a].revoked

\* Every row of the waiting list belongs to a user that exists: the row a
\* sign-up inserts never outlives the user the same sign-up created.
EntryHasUser == \A a \in Accounts : entry[a].on => user[a].known

\* A mail says the truth about the past: it is due, and sent, only to an account
\* some committed transaction has granted access to.
NoticeAfterGrant ==
  \A a \in Accounts : notice[a] # "none" => user[a].by # "none"

\* An applicant is never lost: a row leaves the waiting list only in the step
\* that gives its user access, or because an admin removed that row.
NoLostApplicant ==
  [][\A a \in Accounts :
       entry[a].on /\ (~entry'[a].on \/ entry'[a].id # entry[a].id) =>
         user'[a].access \/ \E d \in Admins : DeleteWaitlist(d, a)]_vars

\* RevokeAccess is "the only code path permitted to set has_access from true to
\* false": no sign-up, batch or grant that started earlier takes it back.
OnlyRevokeTakesAccess ==
  [][\A a \in Accounts :
       user[a].access /\ ~user'[a].access => \E d \in Admins : Revoke(d, a)]_vars

\* The step in which the writes of a batch reach the tables, acknowledged or not.
BatchCommitted(s) == BatchCommit(s) \/ CommitUnacknowledged(s)

\* The cooldown: a batch reaches the tables only when its project's last success
\* is at least a window old, and starts the next cooldown, whatever restarts,
\* faults and other projects do in between.
CooldownRespected ==
  [][\A s \in Schedulers : BatchCommitted(s) =>
       /\ cool[proj[s]] >= Window[proj[s]]
       /\ cool'[proj[s]] = tx[s].age]_vars

\* Who leaves the waiting list in a step.
Leaving == {a \in Accounts : entry[a].on /\ ~entry'[a].on}

\* A batch takes off the list only applicants of its own project that have
\* waited for a window, no more than the batch size, and none of a project whose
\* scheduler is disabled: also with rows that were read before other requests
\* changed them.
Admission ==
  [][\A s \in Schedulers : BatchCommitted(s) =>
       /\ Cardinality(Leaving) <= Batch[proj[s]]
       /\ \A a \in Leaving : /\ ProjectOf(a) = proj[s]
                             /\ proj[s] \notin Disabled
                             /\ entry[a].age >= Window[proj[s]]]_vars

\* The list is a queue: a batch leaves nobody behind who has waited longer than
\* somebody it takes.
NoOvertaking ==
  [][\A s \in Schedulers : BatchCommitted(s) =>
       \A a \in Leaving, b \in OnList(proj[s]) \ Leaving :
         entry[b].age <= entry[a].age]_vars

\* Nobody is put on the list who has access: handleAdd answers 205 instead.
NoEnlistWithAccess ==
  [][\A a \in Accounts :
       ~entry[a].on /\ entry'[a].on => ~user[a].access]_vars

\* A request is answered 500 only if something failed.
NoSpuriousError == faults = 0 => \A c \in Clients : pc[c] # "ServerError"

\* A batch gives access back to an account that was granted it and had it revoked
\* only through a row that is still on the waiting list: an account that signed up
\* again, not one that was revoked after the batch was read.
NoSilentRegrant ==
  [][\A s \in Schedulers, a \in Accounts :
       BatchCommitted(s) /\ a \in tx[s].grant /\ user[a].by # "none" /\ user[a].revoked
         => entry[a].on]_vars

\* Sessions of which each waits for one of them.
Stuck(S) == S # {} /\ \A p \in S : WaitsFor(p) \cap S # {}

\* Whoever waits for a lock waits in the end for somebody who can go on, or for
\* somebody the database ends.  Two things alone make a circle: a grant and a
\* batch, which lock the row and its user in opposite orders, and two batches
\* whose UPDATEs get to their users in different orders.  So a DELETE of a batch
\* is in none without a grant, a stamp in none, and sign-ups are in none.
OnlyGrantsAndBatchesDeadlock ==
  \A S \in SUBSET Sessions : Stuck(S) =>
    \/ \E d \in Admins \cap S, s \in Schedulers \cap S :
         s \in WaitsFor(d) /\ d \in WaitsFor(s)
    \/ \E s, t \in Schedulers \cap S :
         pc[s] = "grant" /\ pc[t] = "grant" /\ t \in WaitsFor(s)

-----------------------------------------------------------------------------
(* The promise of module Membership, and the mapping to it *)

Promise ==
  INSTANCE Membership WITH
    waiting <- {EntryRef(a) : a \in {b \in Accounts : entry[b].on}},
    last <- [a \in Accounts |-> entry[a].id],
    Isolated <- Serialized,
    Sole <- \A s, t \in Schedulers : s = t

KeepsPromise == Promise!Spec

-----------------------------------------------------------------------------
(* What must happen in the end *)

\* Every applicant leaves the list: nobody waits for ever behind others, behind
\* locks, or behind batches that fail.
EverybodyLeaves ==
  \A a \in Accounts : ProjectOf(a) \notin Disabled => (entry[a].on ~> ~entry[a].on)

\* Who is granted access is told, unless a fault keeps the mail from being sent.
EverybodyTold ==
  \A a \in Accounts : (notice[a] = "due") ~> (notice[a] = "sent" \/ faults > 0)
=============================================================================
