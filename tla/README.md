# The waiting-list service in TLA+

Specifications of the waiting-list service of this repository, model-checked
with TLC and partly proved with TLAPS. Paths are relative to the repository
(`src/` stands for its root).

## The system

| Component | Code | State | Operations |
|---|---|---|---|
| Public API | `internal/handler/waitinglist.go` | none of its own | sign up, list, look up users |
| Admin API | `internal/handler/admin.go` | none of its own | grant, revoke, remove, listings, dashboard, full-state digest |
| Scheduler | `internal/waitlist/waitlist.go` | a goroutine and its ticker per server | lets the oldest applicants in, a batch per project and window |
| Digest | `internal/waitlist/digest.go` | cron jobs; `scheduler_state` key `digest_last_success` | mails what has happened since the last digest |
| Notifier | `internal/notifier` | templates | one SMTP session per mail |
| Repositories | `internal/repository/{postgres,sqlite}`, `migrations` | `user_entity`, `waiting_list`, `scheduler_state` | one SQL statement each, in a transaction or alone |
| Database handle | `internal/database` | connection pool (SQLite: one connection) | open, migrate |
| Project resolver, configuration | `internal/handler/tenant.go`, `internal/config` | projects, host map | which project a request belongs to |
| Admin UI | `internal/handler/adminui/static/admin.js` | project filter, pages, modal | calls the admin API |
| Server | `cmd/server/main.go` | | wiring, start, graceful shutdown |

They meet in the database: no component calls another one to change state, and
there is no lock in the program except that of the resolver's cache. Requests,
the scheduler of every server and the digest's cron jobs run concurrently, and
what keeps them apart are transactions, unique indexes and row locks
(PostgreSQL, READ COMMITTED) or the single connection (SQLite).

What is hard about it, and what makes each component correct:

* **Sign-up.** It reads the user, then creates it, then inserts the row, and
  others commit in between. No row without a user, no user twice, a duplicate is
  a 409 and a user with access a 205.
* **Grant.** Deletes the row and gives access in one transaction. Both or
  neither; the mail only afterwards.
* **Revoke.** The only way to lose access, in one statement, and what it
  records is consistent with what a later grant records.
* **Scheduler.** Reads the last success and the batch outside of the
  transaction that writes them. Oldest first, never before a window has passed
  (for the row and for the project), never more than a batch, never for a
  disabled project; nobody is dropped and nobody waits for ever.
* **Several writers.** Transactions hold rows and wait for each other in
  different orders; a deadlock is resolved by ending one of them.
* **Failures.** A statement fails, a request is cancelled, a server dies
  between any two steps, a commit is not acknowledged.
* **Digest.** Mails first and stamps afterwards, with the time of the stamp and
  not of the queries; runs overlap. An event may be left out only for a known
  reason, repeated only after an error or an overlap, and must be reported else.
* **Mails.** The SMTP dialogue has no deadline. Who waits for a server that does
  not answer may hang; nobody else may.
* **Start and shutdown.** What the configuration lets through must be able to
  run, and an interrupt must end the process.
* **Project resolution.** Every request has the project its host or header names.
* **Listings, full-state digest.** An answer that is put together from two
  statements must not lose somebody who moved between them.
* **Admin UI.** Answers arrive out of order and dialogs stay open while tables
  change: what is shown, asked for and closed must be what was meant.

`PROJECT.json` lists every hazard with its line and the properties that are
about it.

## Modules

| Module | What it is |
|---|---|
| `Store` | the tables and the statements of the repositories, with transactions and locks |
| `Waitlist` | sign-up, grant, revoke, remove and scheduler as processes on `Store`; properties |
| `Membership` | the abstract promise: the same accounts with one indivisible step per operation |
| `Digest` | the scheduled digest of one project: runs, commits of others, mails, stamp |
| `Server` | one process from configuration to exit, with requests, scheduler and digest job as actors |
| `Listing` | the read-only queries of the admin API and the full-state digest |
| `AdminUi` | the admin page on `Listing`: tables, requests, dialog |
| `MCWaitlist`, `MCServer`, `MCAdminUi` | values for TLC: batch sizes, windows, configurations, symmetry |
| `WaitlistProofs` | type correctness; what each statement changes |
| `AccountProofs` | what is true of accounts, their rows and their mails |
| `SessionProofs` | what an open transaction has written at each statement; deadlocks |
| `SerialProofs` | what one connection (SQLite) adds |
| `PromiseProofs` | batches, the cooldown, the implementation of `Membership`, the queue |
| `DigestProofs` | types of `Digest`; what a digest may leave out and repeat |
| `ServerProofs` | types of `Server`; project resolution, the port of the health check, who holds the connection |
| `AdminUiProofs` | types of `AdminUi`; the screen, the dialogs, the full-state digest, the days of the dashboard |

`Store` and `Waitlist` are about writes; the other three take as much of the
tables as they read. `Digest` has the times of rows and grants, `Listing` their
order, `Server` only who holds the connection. What an actor of `Server` does in
its transaction is one step there and spelled out in `Waitlist` and `Digest`.

### Store

`user`, `entry` and `cool` are the committed rows of `user_entity`,
`waiting_list` and `scheduler_state`. A user is named by (project, email), the
columns of its unique index, and a row of the list by its user and a number
(`id`) that counts the rows that user has had, in place of a uuid. `known` says
that the user row exists; `access`, `by` and `revoked` are `has_access`,
`access_granted_by` and "the `access_revoked_*` columns are set".

An open transaction (`tx[p]`) is the set of writes of session `p`: users to
create, a row to add, rows to delete, users to grant, a project to stamp.
`Commit` applies them, `Rollback` forgets them. Until then they are its locks: a
statement whose guard names `CreatorsOf`, `InsertersOf`, `DeletersOf`,
`GrantersOf` or `StampersOf` waits for another transaction's uncommitted write
of the same key or row, and goes by the committed rows once it is let through,
as READ COMMITTED does. With `Serialized` (SQLite) a session gets the connection
only when no transaction is open (`ConnectionFree`).

Timestamps are ages in steps of the clock, up to `AgeCap`. `NOW()` on PostgreSQL
is the start of the transaction and on SQLite the time of the statement
(`NowAge`), so a row may be older than its insertion.

### Waitlist

`pc[p]` is the next statement of session `p`. A client and an administrator
serve one request after the other; a scheduler works off the projects of its
round.

* `AddLookup`, `AddCreate`, `AddInsert`, `AddCommit` are `handleAdd` from
  `BeginTx` to the answer. The answer stays in `pc` until the next request.
* `GrantDelete`, `GrantAccess`, `GrantCommit`, `GrantNotify` are `handleGrant`,
  for a known user or for an id of nobody (a 404 after a rollback).
* `Revoke` and `DeleteWaitlist` are one statement each.
* `CheckAllProjects` is a tick; `ProcessProject` the configuration, the last
  success and the cooldown; `FetchEntries` the query and the filter on the age;
  `BatchBegin` to `BatchCommit` the transaction; `BatchNotify` the mails.
* `Fault` ends any session that is under way as an error does, with the deferred
  `Rollback`; `Crash` also ends the round of a scheduler; `CommitUnacknowledged`
  commits and reports an error; `DeadlockVictim` is PostgreSQL's deadlock
  detection; `Tick` moves the clock.

`BeginTx` is part of the first statement where nothing observable lies between
the two (sign-up, grant) and a step of its own for the scheduler, whose `NOW()`
is fixed by it. `BatchGrant` and `BatchDelete` are the steps of one `UPDATE` and
one `DELETE` from row to row, in any order: each row is locked when the statement
gets to it, and the statement may wait, or lose a deadlock, half-way. The rows of
one batch that two servers have read can be locked crosswise.

### Membership

`Enlist`, `Promote`, `AdminGrant`, `Revoke`, `Remove` and `Tick` on the users,
the rows and the age of the last batch. `Waitlist` implements it
(`KeepsPromise`) by mapping the rows that are on the list to `waiting`; all other
steps of `Waitlist` are stutters. It says plainly what is *not* promised: on
PostgreSQL (`Isolated` false) a user with access may join the list, and an
administrator's grant may leave a row behind; with more than one scheduler (`Sole`
false) the cooldown is not kept; and a batch that has been read lets its users
in whatever happened to their rows since.

### Digest

`joined[a]` and `granted[a]` are the event a digest would list of person `a`: the
row on the list, by its `created_at`, and `access_granted_at`. `tx[a]` is the set of
that person's open transactions, what each writes and when, a time that is fixed
before the commit; on PostgreSQL there may be several. `last` is `scheduler_state`
with the key `digest_last_success`.

`GrantAccessTx` is open to every account, as `GrantAccessTx` of the repository and
`handleGrant` are: on the list or not, with access or without. `Commit` of a grant
overwrites `access_granted_at`, also between a run's query and its stamp; the new
time is an event of its own, and the old one is in no table any more. `writes[a]`
counts what has been committed and numbers the events. The users of a batch commit
in one transaction of the program and in one each in the model, which allows more.
A grant may leave a row on the list that came after it looked (`Waitlist` says how).
`Refuse` is the sign-up of somebody who is on the list.

A run takes one statement or mail per step: `Fire` (cron, whatever its earlier
runs do), `GetLastSuccess` (24 hours ago on a first run), `QueryEnlisted`,
`QueryGranted` (which ends a run without activity), `SendAccepted`, `SendFails`,
`SendHangs` for one recipient each, `UpdateLastSuccess`. `SendDigest` goes on
after a refused mail and returns the error (`AfterMail`), and the run then leaves
no stamp. `StatementFails`, `Stop` (the interrupt cancels the context), `Exit` and
`Start` are the faults. `Stored` is what becomes of a time: SQLite keeps seconds.

`mailed`, `passed`, `again` and `overlap` observe: which recipient was mailed
what, which events a stamp passed over, and whether anything happened twice.

### Server

`main` is where `main` is: `Load`, `Connect`, `Migrate`, `Wire`, `Start`, then
`Shutdown`, `ShutdownReturns`, `DeadlinePasses`. `Listen` is the goroutine of the
HTTP server. `cfg` never changes; `Validate`, `Port`, `ResolveHealthCheckPort`,
`BuildHostMapping` and `Middleware` are the functions of those names. `ctx` is the
context the interrupt cancels and every request inherits.

An actor is a request, the scheduler or the digest job: `Arrive` or `Fire`, then
`Nothing`, or `Begin`, `Commit`, `Fetch` (the users are read once more, for the
answer and the mails, with a connection that has to be had again), then a mail
that ends (`Mailed`) or hangs (`Hangs`), and for the digest job `Activity` and
`Stamp`. `holder` is who has a connection in a transaction. `Stop` is the end of
the two loops after the interrupt.

### Listing and AdminUi

`waiting` and `access` are the two lists in the order of their queries.
`Matching` is where the rows a query asks for are on their list, and `Page` is
LIMIT and OFFSET on them, as a set: who is on a page depends on the order of the
list, and in which order the page draws them is left out. `ListWithAccess`,
`ListJoined`, `ListAllWithAccess`, `ListAllJoined` are the repository's
functions. `ReadAccess` and `ReadWaitlist` are the two statements of
`handleSendDigest`.

`AdminUi` keeps `state` of `admin.js` (`tab`, `project`, `list`), what is drawn
(`table`), the requests that wait for an answer (`pending`, `posts`) and the
dialog (`modal`). `Load` starts a request in the same step as the click; `Arrive`
draws its answer, in any order, with the pager compared to the filters of that
moment. A list is read at the moment it is drawn, which loses nothing: a change
between the two could as well come right after. Of the dashboard the page's side is
modelled, what it asks for and when it is drawn; its counters and its chart are two
statements of which only the second is cut to a window of days, and nothing relates
them (`EnlistmentsByDay` in `Listing` is the window). `Confirm` may be pressed
again while its request is under way; `Completed` closes whichever dialog is open
then and loads the table again. `Others` is everybody else who changes the lists.

## Runs

| Run | Question | Instance |
|---|---|---|
| `pg` | PostgreSQL: records, deadlocks, lost applicants, cooldown, promise | 1 account, 2 sign-ups, 1 admin, 1 scheduler, 2 rows, 1 failure |
| `sqlite` | SQLite: does one connection rule out the sign-up races, and do two projects, one with its scheduler disabled, stay apart? | 1 address in 2 projects, 2 sign-ups, 1 admin, 1 scheduler, 2 rows |
| `queue` | order, age, size of batches | 3 accounts, batches of 2, 3 rows |
| `live` | everybody leaves the list, everybody is told | 2 accounts, batches of 1, 2 rows, 1 failure |
| `digest` | what may a digest leave out or repeat, and is the rest reported in the end? | both engines, 1 person with 3 sign-ups or grants, 2 recipients, 2 runs at a time, 1 fault |
| `server` | do requests reach their project, does the probe find the server, does the shutdown end, does anybody wait for somebody else's mail? | every configuration of `MCServer`, one request of each kind, 2 faults |
| `ui` | is what the page shows and closes what was meant; what does a composed answer miss? | 2 accounts, pages of 1 and 2, 2 moves, 3 changes by others, 2 requests per table, 3 dialogs, 2 posts |
| `two_schedulers` | is the cooldown kept by two servers? **No** | 2 schedulers |
| `stale_signup` | is nobody with access put on the list on PostgreSQL? **No** | 1 sign-up, 1 admin, 1 scheduler |
| `stale_batch` | is a revocation never undone by a batch read before it? **No** | 1 admin, 1 scheduler |
| `smtp_off` | is the digest disabled without SMTP? **No** | every configuration of `MCServer` |
| `drain` | does the shutdown let the requests in flight finish? **No** | one request of each kind |

What the properties say is in the comments of their modules. The five runs
that find a violation check a statement of the documentation, or of a comment or a
log message, that the code does not keep; `PROJECT.json` quotes it under "findings".

* `two_schedulers`: both servers read the last success before either commits.
  The second waits at the row of `scheduler_state` and then overwrites it. Each
  batch is right in itself, but two are let in within one window.
* `stale_signup`: the sign-up reads `has_access = false` of a user who is not on
  the list (removed or revoked), a grant commits, the sign-up inserts its row.
  The scheduler removes it later by granting once more.
* `stale_batch`: the scheduler reads the batch; an administrator grants one of
  its users (the row is deleted) and revokes the grant; the batch grants again,
  by the ids it read. It happens on SQLite as well.
* `smtp_off`: without a notifier `main` passes a nil `*SMTPNotifier` as a
  `DigestSender`. The interface is not nil, so the digest's jobs are registered,
  and the first one with something to tell dereferences the pointer and ends the
  process.
* `drain`: every request inherits the context that the interrupt cancels. While
  `Shutdown` waits for a request in flight, its next statement fails, its transaction
  is rolled back and it is answered 500.

`sqlite` shows that the single connection rules out two races of the sign-up.
One of them is `stale_signup`; the other is two first sign-ups of one address
that both find no user. On PostgreSQL the second one's `INSERT` waits and then
fails with the unique index, which `handleAdd` answers 500 (a retry gets the
409), so that `NoSpuriousError` holds on SQLite only. `digest` shows what the
code promises in spite of its order of steps: an event that is still there is
left out only if it became visible after the run's queries and no later than its
stamp, or lay more than 24 hours before a first run (`LossesExplained`); it is
repeated only after an error or an overlap of two runs (`OnceUnlessRetried`),
where a second grant of a person is an event of its own and is reported for
itself; and whatever is neither left out nor too old is reported in the end,
also beside a run that hangs for ever (`EverythingReported`). `server` shows
that mails are sent outside of every transaction (`MailsHoldNoConnection`), so
that a dialogue that hangs keeps the connection from nobody
(`NobodyWaitsForOthers`), also when the users are read once more before it; and
that the deadline of the shutdown ends the process whatever hangs. `ui` states
three limits as exceptions of its properties: an older answer may overwrite a
newer one (`ShownIsAsked`), the answer to one dialog closes another that was
opened meanwhile (`ClosedMeansDone`), and the full-state digest misses who was
granted access between its two statements (`FullStateComplete`). Everything else
would be a violation. One more they do not name: the text of a digest dialog is
of the project selected when it opened, and the request of the one selected when
it is confirmed (`Target`), which may have been changed in between.

### Bounds

`AgeCap` is the oldest age told apart; an age at the cap compares like every
older one because no window exceeds it, and the two steps of `pg` are enough for
a transaction to start in one step, and commit in another, of a window of two.
`MaxEntries` bounds the rows there may ever be (`MayAddRow`): two of one account
are enough for a batch that was read for a first row to meet a second one; three
of three accounts fill a batch of two and leave one behind. `MaxFaults` is one,
which puts a failure at every point of every behaviour; what needs no failure is
checked without, so that it cannot be excused by one. `BatchOfOne`,
`BatchOfTwo`, `ShortWindow` and `LongWindow` are the configurations. Deadlock is
checked in every run but `ui`, whose user may stop clicking. `pg` has one scheduler,
and so no two batches that could lock each other's rows; that nothing else waits in a
circle when there are several is proved (`DeadlocksAreOfTwoKinds`).

`digest`: three writes of one person are a sign-up with two grants, the second
of which overwrites the first, or two sign-ups with a removal or a grant between
them. Two times put an event before a stamp, at its time, or after it. The
seconds of SQLite need no ticks of their own: everything it writes and compares
is a time cut to seconds, so what happens within one has one time, as it has
here; the proofs have seconds of any length. Recipients are mailed in the order
of their list, and a new run takes the first number that is free. Two runs
overlap in every way; more would repeat it. `MaxFaults` 1 puts one refusal,
hang, stop or crash anywhere. `server`: two projects and one host give every way
of declaring, sharing and missing a host and a default; the ports are those that
the rules tell apart; what runs side by side is one actor of each kind, since an
actor is only ever kept by a connection or by its own mail; two faults let two
dialogues hang. `ui`: two accounts on pages of one row are enough for rows to
move over a page's boundary; two requests overtake each other; three dialogs are
one that is confirmed, one opened behind its request and one more.

### Fairness

`FairSpec` assumes: a request or a scheduler whose next statement can be made
again and again makes it (strong fairness, because a statement may wait and be
let through many times: PostgreSQL queues the waiters of a row, `database/sql`
those of a connection); the same for the scheduler's `DELETE` by itself, the one
statement of a batch at which it may lose a deadlock; a deadlock is resolved;
the clock moves. No request and no failure is ever required. It also assumes
that `NotifyAccessGranted` returns, which the SMTP client does not guarantee
(its timeout covers the dial only); `server` drops that assumption. A mail the
server does not accept is logged and never retried, so an account counts as told
once the attempt was made.

In `Digest` cron goes on firing, a run makes its next statement if it can again
and again (`database/sql` serves those who wait for the connection in order), a
mail that does not hang ends, open transactions commit, main comes to its end
after the interrupt, and a server that went down is started again. In `Server`
main goes on, the five seconds pass, and an actor makes its next step under the
same conditions; that a mail which hangs ends (`Mailed` on a `hung` actor) is
never assumed, and neither are faults, requests and ticks.

## Proofs

TLAPS proves every safety property that a passing run checks, for every value of
the constants: any number of projects, addresses, concurrent requests,
administrators and schedulers, both engines; any number of people, recipients and
overlapping digests; any projects, hosts and ports; any number of requests and
dialogs of the admin page. `PROJECT.json` lists the theorems. Hardly any of the
properties is inductive; what follows says what had to be added, and why.

### Requests and schedulers (`Waitlist`)

* `TypeCorrect` (`WaitlistProofs`): that a session has an account or a project when
  its next statement needs one (`LocalsOK`) is added to `TypeOK`; `Typed` is the two
  together. One lemma per kind of step (`FinishTyped`, `CommitTypes`,
  `StatementTypes`, `ClockTypes`) says what it leaves of the types.
* `LocksAreExclusive` is a lemma, the part the database plays: no two open
  transactions have written the same thing. The `..Effect` lemmas say which component
  of a transaction a statement changes, and the guard of the statement gives the rest.
* `RowsHaveUsers`, `AuditTrailIsKept`, `MailsFollowGrants` (`AccountProofs`): what a
  commit does to the tables depends on what its transaction wrote, and that on what
  its session had read. `AccountInv` adds, for every session, that the writes of its
  open transaction still fit the tables (`Fits`: it creates unknown users, adds rows
  for users that exist or that it creates, grants access to users that exist)
  and what the session knows at its next statement (`Relies`: for example, a
  scheduler that is about to commit has granted access to the user of every row
  it deletes). `LocksExclusive` is what makes `Fits` survive the commits of
  others; users that exist go on existing and a grant stays on record
  (`RecordsGrow`), which makes `Relies` survive them (`OthersRely`). `QuietStep`
  and `CommitStep` reduce every action to what its own session must show.
* `OnlyRevocationTakesAccess` and `NoApplicantIsLost`: the two action properties,
  from the same invariant: `CommitEffect` says what a commit leaves of a user and a
  row, and `CommitRemoves` that it removes only rows of users it gives access to.
* `TransactionsAreWritten` and `DeadlocksAreOfTwoKinds` (`SessionProofs`):
  `SessionInv` is exact where `Fits` is an upper bound: a transaction has written
  what the statements before the next one write, some of the rows of that one, and
  nothing more, and nothing is open between requests. From that it follows whom a
  session can be waiting for at each statement: a sign-up for a sign-up, a grant or a
  batch that is further on, a grant for a batch, a batch at its `UPDATE` for a grant
  or another batch, one at its `DELETE`, within a circle, for a grant only, since two
  batches that are past their `UPDATE`s share no row. So every circle of waiting
  sessions has a grant and a batch in it that wait for each other, or a batch at its
  `UPDATE` that waits for another one at its own.
* `OneConnection`, `SignupsAreAnswered`, `NobodyEnlistsWithAccess` (`SerialProofs`)
  assume `Serialized`, which is SQLite; neither of the last two holds on
  PostgreSQL (see the runs). At most one transaction is open (`OneOpen`),
  and what its session has read stays true until it ends (`Owns`), since
  statements on their own wait for the connection too.
* `BatchesStayTrue`, `OnlyTheDueAreAdmitted`, `CooldownIsRespected`
  (`PromiseProofs`): a scheduler reads rows and cooldown outside of the transaction
  that uses them. `BatchInv` says what stays true of what it has read, whoever
  commits meanwhile: the batch is of one enabled project and not too large, a row of
  it that is still there has waited long enough, because rows only age and an id is
  never given to another row (`Rows`), and it is deleted by the time of the commit
  (`Held`). That the cooldown read is still over at the commit (`Cooled`) needs one
  scheduler (`Sole`): `two_schedulers` shows that it is false for two.
* `PromiseIsKept`: `Waitlist` implements `Membership`, for any number of sessions,
  both engines and any number of schedulers. `Effects` says that a step leaves the
  tables alone, commits, revokes or removes. Each kind of step maps to one step of
  `Membership` (the commit of a sign-up to `Enlist`, of a grant to `AdminGrant`, of a
  batch to `Promote`), everything else to a stutter. `BatchInv` provides what
  `Promote` demands, and `SerialInv` what the other two demand when `Isolated`.
* `NobodyIsOvertaken`: `NoOvertaking`, assuming `Serialized`. Between the query of a
  batch and its commit rows join, go and age; `Ahead` says that whoever is on the
  list beside the batch's rows, or on the way to it, has not waited longer than
  they have. `queue` checks it on SQLite. On PostgreSQL it does not hold: a row is
  dated by the start of its transaction, so of two concurrent sign-ups the older one
  may commit after the batch that lets the younger one in was read.

### The digest (`Digest`)

* `DigestTypeCorrect`, `LossesAreExplained`: a stamp loses nothing because its run
  has mailed what it found, what it found is everything visible after its time, and
  what came after its queries is new. `ReportInv` says so for each place of each run
  (`Progress`), that nothing is dated later than now (`Timed`), and that sign-ups and
  grants are numbered as they are committed, so that an event which has left the
  tables, also one a later grant has overwritten, never returns (`Numbered`).
* `EventsAreMailedOnce`: as long as nothing has failed and no run has overlapped
  another (`OnceInv`), one run is under way at most, its time is the last stamp, and
  until it mails, whatever has been mailed lies before that stamp (`Steady`).

### The server (`Server`)

* `RequestsReachTheirProject` and `ProbeUsesThePort`: the invariant `Started` says
  what main has established at each place: a validated configuration after `Load`,
  the host map after `Wire`, a listener only after `Start`.
* `ServerTypeCorrect` and `MailsAreOutsideTransactions`: in `ServerInv` an actor has a
  connection exactly as long as its transaction is open (`at[x] = "tx"`), so nobody
  has one while a mail of his is on its way or hangs. `NobodyWaitsForOthers` rests on
  that fact and on fairness.

### The admin page (`AdminUi`)

* `UiTypeCorrect`: `UiTyped` adds that what a request or a dialog is about fits its
  kind, a row of a table or, for a digest, a project (`Fits`). Lemmas say what
  `RemoveAt`, `InsertAt`, `Append` and replacing an element do to a sequence and to
  the set of its elements.
* `ScreenShowsWhatIsAsked`: `Shown` adds the requests under way on the tab on the
  screen: the newest asks for what is chosen, and if no request is the newest any
  more, and no older answer came later, the table is its answer. Switching to
  another tab, whose filters were changed meanwhile, starts a request for them, and
  that is what keeps it true.
* `DialogsCloseWhenDone`: the action property `ClosedMeansDone`. As long as no dialog
  was opened behind a request, every request under way is one of the dialog that is
  open (`OwnRequests`), also after it was confirmed twice.
* `FullStateIsComplete`: whoever has access now was in the first list or has been
  granted access since (`AccessCovered`).
* `ListedDaysComplete`: the chart of the dashboard counts every listed day in
  full, for any number of days and any times; a fact of arithmetic about
  `EnlistmentsByDay`.

### Assumptions, and what is left to TLC

The assumptions are those of the modules, which TLC evaluates in every run: bounds
are natural numbers (`BoundsAssumption`, `FaultsAssumption`); the three roles are
disjoint (`RolesAssumption`); batch sizes and windows are natural numbers
(`ConfigAssumption`); the "nothing" values are not accounts, projects or slugs; a
second and a day of the digest have ticks (`DigestAssumption`); the default page
size is one the server accepts and the page offers, and an empty search box matches
everybody (`ListingAssumption`, `AdminUiAssumption`). `Serialized` and `Sole` are
assumed by the theorems named above and by no others. The library's theorems on
finite sets, functions and sequences are used as they are.

Only model-checked: liveness (`EverybodyLeaves`, `EverybodyTold`,
`EverythingReported`, `ShutdownCompletes`, `NobodyWaitsForOthers`), which needs
`ENABLED` to say what fairness gives, and the absence of deadlock, which does as
well. The properties of the five runs that expect a violation are false, so there
is nothing to prove.

## Not modelled

* Priority weights: every row has weight 0, as everything the code inserts has.
  Weights are set only in the database by hand.
* Clock skew between servers and the database, and time zones of `timestamp`
  columns.
* A `DELETE .. WHERE user_id` that waits on PostgreSQL goes by the snapshot it
  took before; a row inserted while it waits is not deleted. The outcome, a user
  with access on the list, is the one `stale_signup` reaches another way.
* Negative batch sizes and windows (the configuration accepts them).
* The public read-only requests (`handleGetAll`, `handleGetUsersByEmail`): one
  query each, of which nothing depends. Formatting, logging, HTTP details.
* Basic authentication and the other middleware: they keep no state, and a
  request that is refused changes nothing (`Arrive` of `Server`).
* The steps of the SMTP dialogue. From outside it is accepted, refused, accepted
  with an error, or hangs; the content of a mail is formatting.
* The environment's way of naming keys: it maps `WL_A_B` to `a.b` in lower case,
  and whether that meets a key in camel case is a matter of the configuration
  library. The port, the one setting the models take from it, is in lower case.
* `ProjectResolver.Reload`, which nothing calls.
* How the chart is drawn, and the banner that hides after five seconds.
* What a migration does to tables that exist: it is its SQL, run as a whole.

## Plan

1. `Store`, `Membership`, `Waitlist`, `Digest`, `Server`, `Listing`, `AdminUi`:
   done, each with its runs.
2. Proofs: every safety property that a passing run checks is a theorem. What would
   say more: that `Digest` implements an abstract promise of its own (an event is
   pending, reported, or lost for a stated reason), stated in a module and proved as
   `Membership` is.
3. Weights in `Store` (order by weighted time), should any code set them.
