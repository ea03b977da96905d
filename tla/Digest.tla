------------------------------- MODULE Digest -------------------------------
(***************************************************************************)
(* The scheduled activity digest of one project: the cron job that mails   *)
(* every recipient what has happened since the last digest.  Projects      *)
(* share nothing but the code.                                             *)
(*                                                                         *)
(*   a run   idle -> last -> enlisted -> granted -> send -> stamp -> idle  *)
(*                                                                         *)
(* Cron starts a run whether or not the last one is over.  A run reads the *)
(* time of the last success, then the two tables, mails, and only then     *)
(* writes the time of the success: NOW(), not the time it read at.  What   *)
(* becomes visible in between is the subject of this module.               *)
(*                                                                         *)
(* The clock counts ticks.  PostgreSQL keeps a tick as it is; SQLite keeps *)
(* seconds, of several ticks each.                                         *)
(***************************************************************************)
EXTENDS Integers, FiniteSets

CONSTANTS
  People,      \* accounts of the project
  Recipients,  \* digest.recipients, not empty, by their place in the list
  Runs,        \* runs of the job that may be under way at once, numbered
  MaxClock,    \* bound: the last tick of the clock
  MaxWrites,   \* bound: the sign-ups and grants a person ever has
  Second,      \* ticks in a second
  Day,         \* ticks in the 24 hours a first digest looks back
  MaxFaults    \* bound: refused mails, failed statements, stops and crashes

ASSUME DigestAssumption ==
  /\ MaxClock \in Nat /\ MaxWrites \in Nat /\ MaxFaults \in Nat
  /\ Recipients \subseteq Nat /\ Runs \subseteq Nat
  /\ Second \in Nat \ {0} /\ Day \in Nat \ {0}

VARIABLES
  engine,  \* the database server, chosen at the start
  server,  \* "up", "stopping" between the signal and the exit, or "down"
  clock,
  writes,  \* a person's committed sign-ups and grants; the account exists from the first
  joined,  \* a person's waiting_list row, by its created_at: {} or one event
  granted, \* user_entity.access_granted_at: {} or one event
  tx,      \* a person's open transactions: what each writes and the time it writes
  last,    \* scheduler_state, digest_last_success: {} or one time
  run,     \* the runs of the cron job
  faults,
  mailed,  \* observer: the events each recipient has been mailed
  passed,  \* observer: the events a stamp has passed over
  again,   \* observer: an event was mailed twice to one recipient, before any fault
           \* and any overlap
  overlap  \* observer: cron has started a run beside another

database == <<engine, writes, joined, granted, tx, last>>
observer == <<mailed, passed, again, overlap>>
vars == <<engine, server, clock, writes, joined, granted, tx, last, run,
          faults, mailed, passed, again, overlap>>

Times == -(Day + Second) .. MaxClock
\* What a digest lists: a waiting_list row by its created_at, or an account by its
\* access_granted_at.  The number tells a person's events apart: a second grant of
\* the same person is an event of its own.
Events == [kind : {"join", "grant"}, who : People, n : 1 .. MaxWrites, at : Times]
Writes == [kind : {"join", "grant"}, at : Times]

IdleRun == [pc |-> "idle", first |-> FALSE, since |-> 0, found |-> {}, seen |-> {},
            todo |-> {}, failed |-> FALSE]
RunRecords ==
  [pc : {"idle", "last", "enlisted", "granted", "send", "hung", "stamp"},
   first : BOOLEAN, since : Times, found : SUBSET Events, seen : SUBSET Events,
   todo : SUBSET Recipients, failed : BOOLEAN]

TypeOK ==
  /\ engine \in {"postgres", "sqlite"}
  /\ server \in {"up", "stopping", "down"}
  /\ clock \in 0 .. MaxClock
  /\ writes \in [People -> 0 .. MaxWrites]
  /\ joined \in [People -> SUBSET Events]
  /\ granted \in [People -> SUBSET Events]
  /\ tx \in [People -> SUBSET Writes]
  /\ last \in SUBSET Times /\ Cardinality(last) <= 1
  /\ run \in [Runs -> RunRecords]
  /\ faults \in 0 .. MaxFaults
  /\ mailed \in [Recipients -> SUBSET Events]
  /\ passed \in SUBSET Events
  /\ again \in BOOLEAN /\ overlap \in BOOLEAN

Init ==
  /\ engine \in {"postgres", "sqlite"}
  /\ server = "up"
  /\ clock = 0
  /\ writes = [a \in People |-> 0]
  /\ joined = [a \in People |-> {}]
  /\ granted = [a \in People |-> {}]
  /\ tx = [a \in People |-> {}]
  /\ last = {}
  /\ run = [r \in Runs |-> IdleRun]
  /\ faults = 0
  /\ mailed = [m \in Recipients |-> {}]
  /\ passed = {}
  /\ again = FALSE /\ overlap = FALSE

-----------------------------------------------------------------------------
\* What the tables show.

\* strftime('%Y-%m-%dT%H:%M:%SZ') and time.RFC3339 on SQLite.
Stored(t) == IF engine = "sqlite" THEN Second * (t \div Second) ELSE t

Joins  == UNION {joined[a] : a \in People}
Grants == UNION {granted[a] : a \in People}
Visible == Joins \cup Grants
OnList == {a \in People : joined[a] # {}}

\* SQLite has one connection: a statement waits for the open transaction.
Connection == engine = "sqlite" => \A a \in People : tx[a] = {}

\* Mutant: WHERE created_at >= $2.
GetEnlistedSinceInclusive(since) == {e \in Joins : e.at >= since}

GetEnlistedSince(since) == {e \in Joins : e.at > since}

GetGrantedSince(since) == {e \in Grants : e.at > since}

-----------------------------------------------------------------------------
\* What people, admins and the scheduler do meanwhile, each in a transaction of its
\* own.  Its time is that of its start on PostgreSQL, where several of one person may
\* be open, and that of the statement on SQLite, where nothing comes between it and
\* the commit.

Write(a, kind) ==
  /\ server = "up" /\ Connection
  /\ writes[a] + Cardinality(tx[a]) < MaxWrites
  /\ tx' = [tx EXCEPT ![a] = @ \cup {[kind |-> kind, at |-> Stored(clock)]}]
  /\ UNCHANGED <<engine, server, clock, writes, joined, granted, last, run,
                 faults, observer>>

\* A sign-up.  Whether the row is refused turns out at its INSERT.
Add(a) == Write(a, "join")

\* An admin's grant or a batch's, of any account: on the list or not, with access or
\* without.
GrantAccessTx(a) == writes[a] > 0 /\ Write(a, "grant")

\* The observers forget the events whose row has gone or changed.
Forget ==
  /\ mailed' = [m \in Recipients |-> mailed[m] \cap Visible']
  /\ UNCHANGED <<again, overlap>>

\* The end of an open transaction.
Ends(a, w) ==
  /\ server = "up"
  /\ tx' = [tx EXCEPT ![a] = @ \ {w}]
  /\ UNCHANGED <<engine, server, clock, last, run, faults>>

\* A grant sets access_granted_at whatever it was.  It takes the person's row, unless
\* it deleted before that row came or is a batch that holds an earlier one: the row
\* it leaves is never the first.
Commit(a, w) ==
  /\ Ends(a, w)
  /\ writes[a] < MaxWrites
  /\ writes' = [writes EXCEPT ![a] = @ + 1]
  /\ LET e == [kind |-> w.kind, who |-> a, n |-> writes[a] + 1, at |-> w.at] IN
     /\ \/ /\ w.kind = "join" /\ a \notin OnList
           /\ joined' = [joined EXCEPT ![a] = {e}]
           /\ UNCHANGED granted
        \/ /\ w.kind = "grant"
           /\ \E left \in {{}, {j \in joined[a] : j.n > 1}} :
                joined' = [joined EXCEPT ![a] = left]
           /\ granted' = [granted EXCEPT ![a] = {e}]
     /\ passed' = (passed \cap Visible')
                    \cup {f \in {e} : \E s \in last : f.at <= s}
  /\ Forget

\* Who is on the list already is refused.
Refuse(a, w) ==
  /\ Ends(a, w)
  /\ w.kind = "join" /\ a \in OnList
  /\ UNCHANGED <<writes, joined, granted, observer>>

\* An admin takes somebody off the list.  (To take access away changes nothing that
\* a digest reads; the person may then sign up again.)
Remove(a) ==
  /\ server = "up" /\ Connection
  /\ a \in OnList
  /\ joined' = [joined EXCEPT ![a] = {}]
  /\ UNCHANGED <<engine, server, clock, writes, granted, tx, last, run, faults>>
  /\ passed' = passed \cap Visible'
  /\ Forget

-----------------------------------------------------------------------------
\* The cron job.

RunUnchanged ==
  UNCHANGED <<engine, server, clock, writes, joined, granted, tx>>

\* The job fires whatever its earlier runs are doing.  The first number that is free
\* is the new run's.
Fire(r) ==
  /\ server = "up"
  /\ run[r].pc = "idle" /\ \A q \in Runs : q < r => run[q].pc # "idle"
  /\ run' = [run EXCEPT ![r].pc = "last"]
  /\ overlap' = (overlap \/ \E q \in Runs : run[q].pc # "idle")
  /\ UNCHANGED <<last, faults, mailed, passed, again>> /\ RunUnchanged

\* A statement of run r that succeeds.
Statement(r, place) == run[r].pc = place /\ server = "up" /\ Connection

GetLastSuccess(r) ==
  /\ Statement(r, "last")
  /\ \E since \in IF last = {} THEN {Stored(clock - Day)} ELSE last :
       run' = [run EXCEPT ![r].pc = "enlisted", ![r].first = (last = {}),
                          ![r].since = since]
  /\ UNCHANGED <<last, faults, observer>> /\ RunUnchanged

QueryEnlisted(r) ==
  /\ Statement(r, "enlisted")
  /\ run' = [run EXCEPT ![r].pc = "granted",
                        ![r].found = GetEnlistedSince(run[r].since),
                        ![r].seen = Joins]
  /\ UNCHANGED <<last, faults, observer>> /\ RunUnchanged

\* Mutant: the grants are not looked at when nobody has signed up.
QuietWithoutSignups(enlisted, grants) == enlisted = {}

Quiet(enlisted, grants) == enlisted = {} /\ grants = {}

\* Without activity the run ends, and leaves no stamp.
QueryGranted(r) ==
  /\ Statement(r, "granted")
  /\ LET grants == GetGrantedSince(run[r].since) IN
     run' = [run EXCEPT ![r] =
               IF Quiet(run[r].found, grants) THEN IdleRun
               ELSE [run[r] EXCEPT !.pc = "send", !.found = run[r].found \cup grants,
                                   !.seen = run[r].seen \cup Grants, !.todo = Recipients]]
  /\ UNCHANGED <<last, faults, observer>> /\ RunUnchanged

\* Mutant: the first error ends the loop, and is lost.
AfterMailForgetful(r, m, err) ==
  IF run[r].todo # {m} /\ ~err THEN [run[r] EXCEPT !.todo = @ \ {m}]
  ELSE [run[r] EXCEPT !.pc = "stamp", !.todo = {}, !.found = {}]

\* SendDigest goes on with the other recipients after an error and returns it.
AfterMail(r, m, err) ==
  LET failed == run[r].failed \/ err IN
  IF run[r].todo # {m} THEN [run[r] EXCEPT !.todo = @ \ {m}, !.failed = failed]
  ELSE IF failed THEN IdleRun
  ELSE [run[r] EXCEPT !.pc = "stamp", !.todo = {}, !.found = {}]

\* One mail, to the first recipient that is left.  An answer may get lost after the
\* server has accepted the message, in which case send returns an error for a mail
\* that was delivered.
Send(r, m, delivered, err) ==
  /\ run[r].pc = "send" /\ server # "down"
  /\ m \in run[r].todo /\ \A k \in run[r].todo : m <= k
  /\ run' = [run EXCEPT ![r] = AfterMail(r, m, err)]
  /\ IF delivered
     THEN /\ mailed' = [mailed EXCEPT ![m] = @ \cup (run[r].found \cap Visible)]
          /\ again' = (again \/ (faults = 0 /\ ~overlap /\ run[r].found \cap mailed[m] # {}))
     ELSE UNCHANGED <<mailed, again>>
  /\ UNCHANGED <<last, passed, overlap>> /\ RunUnchanged

SendAccepted(r, m) == Send(r, m, TRUE, FALSE) /\ UNCHANGED faults

Fault == faults < MaxFaults /\ faults' = faults + 1

SendFails(r, m) == \E delivered \in BOOLEAN : Send(r, m, delivered, TRUE) /\ Fault

\* After the dial nothing limits the dialogue.  Cron can always start one more
\* run, so a bound on the runs must leave one of them.
SendHangs(r) ==
  /\ run[r].pc = "send" /\ server # "down"
  /\ \E q \in Runs \ {r} : run[q].pc # "hung"
  /\ run' = [run EXCEPT ![r] = [IdleRun EXCEPT !.pc = "hung"]]
  /\ Fault
  /\ UNCHANGED <<last, observer>> /\ RunUnchanged

\* Mutant: INSERT without ON CONFLICT DO UPDATE.
NewStampKept(t) == last \cup {t}

NewStamp(t) == {t}

\* The events the new stamp covers and the run has not looked at: those its
\* queries could not see, and those before the 24 hours of a first run.
PassedBy(r, s) ==
  {e \in Visible : /\ e.at <= s
                   /\ e \in run[r].seen => run[r].first /\ e.at <= run[r].since}

UpdateLastSuccess(r) ==
  /\ Statement(r, "stamp")
  /\ last' = NewStamp(Stored(clock))
  /\ passed' = passed \cup PassedBy(r, Stored(clock))
  /\ run' = [run EXCEPT ![r] = IdleRun]
  /\ UNCHANGED <<faults, mailed, again, overlap>> /\ RunUnchanged

\* An error is logged and ends the run.  The signal cancels the context, with
\* which every later statement fails.
StatementFails(r) ==
  /\ run[r].pc \in {"last", "enlisted", "granted", "stamp"}
  /\ \/ server = "stopping" /\ UNCHANGED faults
     \/ server = "up" /\ Fault
  /\ run' = [run EXCEPT ![r] = IdleRun]
  /\ UNCHANGED <<last, observer>> /\ RunUnchanged

-----------------------------------------------------------------------------
\* The server and the clock.

\* An interrupt cancels the context of requests and runs.
Stop ==
  /\ server = "up" /\ Fault
  /\ server' = "stopping"
  /\ UNCHANGED <<database, clock, run, observer>>

\* main returns without waiting for the job; or the process crashes.
Exit ==
  /\ \/ server = "stopping" /\ UNCHANGED faults
     \/ server = "up" /\ Fault
  /\ server' = "down"
  /\ tx' = [a \in People |-> {}]
  /\ run' = [r \in Runs |-> IdleRun]
  /\ UNCHANGED <<engine, clock, writes, joined, granted, last, observer>>

Start ==
  /\ server = "down"
  /\ server' = "up"
  /\ UNCHANGED <<database, clock, run, faults, observer>>

Tick ==
  /\ clock < MaxClock
  /\ clock' = clock + 1
  /\ UNCHANGED <<database, server, run, faults, observer>>

\* What a run does when nothing goes wrong.
Advance(r) ==
  \/ GetLastSuccess(r) \/ QueryEnlisted(r) \/ QueryGranted(r)
  \/ \E m \in Recipients : SendAccepted(r, m)
  \/ UpdateLastSuccess(r)

Next ==
  \/ \E a \in People : \/ Add(a) \/ GrantAccessTx(a) \/ Remove(a)
                       \/ \E w \in tx[a] : Commit(a, w) \/ Refuse(a, w)
  \/ \E r \in Runs : \/ Fire(r) \/ Advance(r)
                     \/ \E m \in Recipients : SendFails(r, m)
                     \/ SendHangs(r) \/ StatementFails(r)
  \/ Stop \/ Exit \/ Start \/ Tick

Spec == Init /\ [][Next]_vars

\* Cron keeps firing, main comes to its end after the signal, a server that went down
\* is started again (only one of the three can happen at a time), and a mail dialogue
\* that does not hang comes to its end.  Strong fairness of a run's steps:
\* database/sql hands out its connection in the order of the requests.
Fairness ==
  /\ WF_vars((\E r \in Runs : Fire(r)) \/ (server = "stopping" /\ Exit) \/ Start)
  /\ \A r \in Runs : SF_vars(Advance(r))
  /\ \A a \in People : WF_vars(\E w \in tx[a] : Commit(a, w) \/ Refuse(a, w))

FairSpec == Spec /\ Fairness

-----------------------------------------------------------------------------
\* Properties.

Told(e) == \A m \in Recipients : e \in mailed[m]

\* An event the next digest will leave out, because the last stamp is not before
\* it, has been mailed to every recipient or is one the stamp passed over:
\* committed after the run's queries, or older than the 24 hours of a first run.
\* (A grant that another one overwrites before a digest reads it is in no digest, and
\* no event of the tables any more.)
LossesExplained ==
  \A e \in Visible : (\E s \in last : e.at <= s) => e \in passed \/ Told(e)

\* No recipient is mailed an event twice unless something failed or two runs
\* overlapped.  A grant over an earlier one is an event of its own: the digests list
\* the person for each of the two that they find in access_granted_at.
OnceUnlessRetried == ~again

\* What the coming digests still owe somebody: an event that was not told, not
\* passed over, and not too old for a first digest.
Owed(a) ==
  \E e \in joined[a] \cup granted[a] :
    /\ ~Told(e) /\ e \notin passed
    /\ last = {} => e.at > clock - Day

\* Even while a run hangs in a dialogue with the mail server, a later one reports
\* what there is to report: again and again nothing is owed a person.  The writes of a
\* person have an end, so the last of their events is not owed for ever.
EverythingReported == \A a \in People : []<>~Owed(a)
=============================================================================
