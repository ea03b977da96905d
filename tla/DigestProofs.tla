---------------------------- MODULE DigestProofs ----------------------------
(***************************************************************************)
(* What module Digest says about the events a digest leaves out and those  *)
(* it mails twice, proved for any number of people, recipients and runs,   *)
(* any clock and both engines.                                             *)
(*                                                                         *)
(* Neither property is inductive.  A stamp loses nothing because its run   *)
(* has mailed what it found, because what it found is what was visible     *)
(* after its time, and because what came after its queries is new: so the  *)
(* invariant says how far each run has come with the events it has seen    *)
(* (Progress), and that an event that left the tables never returns        *)
(* (Numbered).                                                             *)
(***************************************************************************)
EXTENDS Digest, FiniteSetTheorems, TLAPS

\* The events the tables show or a run has been shown.
Known == Visible \cup UNION {run[r].seen : r \in Runs}

\* Events are numbered as they are committed, so a new one is never one that is known:
\* what has left the tables does not return.
Numbered == \A e \in Known : e.n <= writes[e.who]

\* Nothing is dated later than now; there is one stamp at most.
Timed ==
  /\ \A s \in last : s <= Stored(clock) /\ last = {s}
  /\ \A e \in Visible : e.at <= Stored(clock)
  /\ \A a \in People : \A w \in tx[a] : w.at <= Stored(clock)

\* What people, admins and the scheduler do to the list.
ListChanges(a) ==
  \/ Add(a) \/ GrantAccessTx(a) \/ Remove(a)
  \/ \E w \in tx[a] : Commit(a, w) \/ Refuse(a, w)

\* The events a run has to report: those it has seen, that are still there, and
\* that came after its time.
Due(r) == {e \in run[r].seen \cap Visible : e.at > run[r].since}

MailedTo(m, E) == E \subseteq mailed[m]

\* How far a run has come with what it has to report.
RunProgress(r) ==
  /\ run[r].pc \in {"enlisted", "granted", "send", "stamp"} /\ ~run[r].first
       => \E s \in last : run[r].since <= s
  /\ run[r].pc \in {"granted", "send"} => run[r].found \subseteq run[r].seen /\ Due(r) \subseteq run[r].found
  /\ run[r].pc = "send" /\ ~run[r].failed
       => \A m \in Recipients \ run[r].todo : MailedTo(m, Due(r))
  /\ run[r].pc = "stamp" => \A m \in Recipients : MailedTo(m, Due(r))

Progress == \A r \in Runs : RunProgress(r)

ReportInv == TypeOK /\ Numbered /\ Timed /\ Progress /\ LossesExplained

\* As long as nothing failed and no run overlapped another, one run is under way at
\* most, and until it mails, what has been mailed was stamped.
Alone(r) == \A q \in Runs : run[q].pc # "idle" => q = r
Stamped(m) == \A e \in mailed[m] : \E s \in last : e.at <= s

\* A run under way that nothing disturbs: its time is the last stamp, and what it
\* has found is later.
Steady(r) ==
  /\ Alone(r)
  /\ run[r].pc # "hung"
  /\ run[r].pc \in {"enlisted", "granted", "send"} =>
       \A s \in last : ~run[r].first /\ run[r].since = s
  /\ run[r].pc \in {"granted", "send"} => \A e \in run[r].found : e.at > run[r].since
  /\ run[r].pc = "send" => \A m \in run[r].todo : Stamped(m)
  /\ run[r].pc \notin {"send", "stamp"} => \A m \in Recipients : Stamped(m)

Undisturbed ==
  /\ server = "up" /\ ~again
  /\ \A r \in Runs : ~run[r].failed /\ (run[r].pc # "idle" => Steady(r))
  /\ (\A r \in Runs : run[r].pc = "idle") => \A m \in Recipients : Stamped(m)
  /\ \A m \in Recipients : \A e \in mailed[m] : e.at <= Stored(clock)

OnceInv == ~again /\ (faults = 0 /\ ~overlap => Undisturbed)

-----------------------------------------------------------------------------
(* Times and types *)

\* SQLite keeps the second a time falls in, PostgreSQL the time.
LEMMA StoredBounds ==
  ASSUME NEW t \in Int
  PROVE  Stored(t) \in Int /\ Stored(t) <= t /\ t - Second < Stored(t)
BY DigestAssumption DEF Stored

LEMMA StoredMonotone ==
  ASSUME NEW t \in Int, NEW u \in Int, t <= u
  PROVE  Stored(t) <= Stored(u)
BY DigestAssumption DEF Stored

LEMMA StoredTimes ==
  ASSUME TypeOK
  PROVE  Stored(clock) \in Times /\ Stored(clock - Day) \in Times
<1>1. clock \in Int /\ 0 <= clock /\ clock <= MaxClock /\ clock - Day \in Int
  BY DigestAssumption DEF TypeOK
<1> QED
  BY <1>1, StoredBounds, DigestAssumption DEF Times

LEMMA EventTypes ==
  ASSUME NEW e \in Events
  PROVE  e.who \in People /\ e.n \in Int /\ e.at \in Times /\ e.at \in Int
         /\ e.kind \in {"join", "grant"}
BY DigestAssumption DEF Events, Times

LEMMA KnownTypes ==
  ASSUME TypeOK
  PROVE  /\ Joins \subseteq Events /\ Grants \subseteq Events /\ Visible \subseteq Events
         /\ Known \subseteq Events
         /\ \A r \in Runs : /\ run[r].seen \subseteq Events /\ run[r].found \subseteq Events
                            /\ run[r].since \in Times /\ run[r].since \in Int
                            /\ run[r].todo \subseteq Recipients
         /\ \A s \in last : s \in Int
<1>1. \A r \in Runs : /\ run[r].seen \subseteq Events /\ run[r].found \subseteq Events
                      /\ run[r].since \in Times /\ run[r].todo \subseteq Recipients
  BY DEF TypeOK, RunRecords
<1>2. Joins \subseteq Events /\ Grants \subseteq Events
  BY DEF TypeOK, Joins, Grants
<1>3. Times \subseteq Int
  BY DEF Times
<1> QED
  BY <1>1, <1>2, <1>3 DEF TypeOK, Known, Visible

LEMMA IdleType == IdleRun \in RunRecords /\ [IdleRun EXCEPT !.pc = "hung"] \in RunRecords
<1>1. 0 \in Times
  BY DigestAssumption DEF Times
<1> QED
  BY <1>1 DEF IdleRun, RunRecords

LEMMA DigestInitTyped == Init => TypeOK
<1> SUFFICES ASSUME Init PROVE TypeOK
  OBVIOUS
<1>1. Cardinality({}) = 0
  BY FS_EmptySet
<1>2. 0 \in 0 .. MaxClock /\ 0 \in 0 .. MaxWrites /\ 0 \in 0 .. MaxFaults
  BY DigestAssumption
<1>3. run \in [Runs -> RunRecords]
  BY IdleType DEF Init
<1>4. last = {} /\ last \in SUBSET Times /\ Cardinality(last) <= 1
  BY <1>1 DEF Init
<1> QED
  BY <1>2, <1>3, <1>4 DEF Init, TypeOK

\* The event a commit shows.
LEMMA NewEvent ==
  ASSUME TypeOK, NEW a \in People, NEW w \in tx[a], writes[a] < MaxWrites
  PROVE  /\ [kind |-> w.kind, who |-> a, n |-> writes[a] + 1, at |-> w.at] \in Events
         /\ writes[a] + 1 \in 1 .. MaxWrites /\ writes[a] \in Int /\ w.at \in Int
<1>1. writes[a] \in 0 .. MaxWrites /\ w \in Writes
  BY DEF TypeOK
<1>2. writes[a] + 1 \in 1 .. MaxWrites /\ writes[a] \in Int
  BY <1>1, DigestAssumption
<1>3. w.kind \in {"join", "grant"} /\ w.at \in Times /\ w.at \in Int
  BY <1>1 DEF Writes, Times
<1> QED
  BY <1>2, <1>3 DEF Events

LEMMA ListTypes ==
  ASSUME TypeOK, NEW a \in People, ListChanges(a)
  PROVE  TypeOK'
<1>1. CASE Add(a) \/ GrantAccessTx(a)
  <2>1. PICK kind \in {"join", "grant"} : Write(a, kind)
    BY <1>1 DEF Add, GrantAccessTx
  <2>2. [kind |-> kind, at |-> Stored(clock)] \in Writes
    BY StoredTimes DEF Writes
  <2>3. tx' \in [People -> SUBSET Writes]
    BY <2>1, <2>2 DEF Write, TypeOK
  <2> QED
    BY <2>1, <2>3 DEF Write, observer, TypeOK
<1>2. CASE Remove(a)
  BY <1>2 DEF Remove, Forget, TypeOK
<1>3. ASSUME NEW w \in tx[a], Refuse(a, w) PROVE TypeOK'
  BY <1>3 DEF Refuse, Ends, observer, TypeOK
<1>4. ASSUME NEW w \in tx[a], Commit(a, w) PROVE TypeOK'
  <2> DEFINE e == [kind |-> w.kind, who |-> a, n |-> writes[a] + 1, at |-> w.at]
  <2>1. e \in Events /\ writes[a] + 1 \in 0 .. MaxWrites
    BY <1>4, NewEvent, DigestAssumption DEF Commit
  <2>2. /\ \/ joined' = [joined EXCEPT ![a] = {e}] /\ granted' = granted
           \/ /\ \E left \in {{}, {j \in joined[a] : j.n > 1}} :
                  joined' = [joined EXCEPT ![a] = left]
              /\ granted' = [granted EXCEPT ![a] = {e}]
        /\ passed' = (passed \cap Visible') \cup {f \in {e} : \E s \in last : f.at <= s}
    BY <1>4 DEF Commit
  <2> HIDE DEF e
  <2>3. joined' \in [People -> SUBSET Events] /\ granted' \in [People -> SUBSET Events]
    BY <2>1, <2>2 DEF TypeOK
  <2>4. passed' \in SUBSET Events
    BY <2>1, <2>2 DEF TypeOK
  <2>5. writes' \in [People -> 0 .. MaxWrites] /\ tx' \in [People -> SUBSET Writes]
    BY <1>4, <2>1 DEF Commit, Ends, TypeOK
  <2>6. /\ mailed' \in [Recipients -> SUBSET Events]
        /\ UNCHANGED <<engine, server, clock, last, run, faults, again, overlap>>
    BY <1>4 DEF Commit, Ends, Forget, TypeOK
  <2> QED
    BY <2>3, <2>4, <2>5, <2>6 DEF TypeOK
<1> QED
  BY <1>1, <1>2, <1>3, <1>4 DEF ListChanges

-----------------------------------------------------------------------------
(* Steps of a run, which leave the tables alone *)

\* What run r knows at its next step: one it has been shown already, or that the
\* tables show.
LEMMA RunStep ==
  ASSUME TypeOK, Numbered, NEW r \in Runs, NEW x \in RunRecords, RunUnchanged,
         run' = [run EXCEPT ![r] = x], x.seen \subseteq Known
  PROVE  /\ run' \in [Runs -> RunRecords] /\ run'[r] = x
         /\ \A q \in Runs \ {r} : run'[q] = run[q]
         /\ Visible' = Visible /\ Joins' = Joins /\ Grants' = Grants
         /\ Stored(clock)' = Stored(clock)
         /\ Numbered'
<1>1. run' \in [Runs -> RunRecords] /\ run'[r] = x /\ \A q \in Runs \ {r} : run'[q] = run[q]
  BY DEF TypeOK
<1>2. /\ Visible' = Visible /\ Joins' = Joins /\ Grants' = Grants
      /\ Stored(clock)' = Stored(clock)
  BY DEF RunUnchanged, Visible, Joins, Grants, Stored
<1>3. Known' \subseteq Known
  BY <1>1, <1>2 DEF Known
<1>4. Numbered'
  BY <1>3 DEF Numbered, RunUnchanged
<1> QED
  BY <1>1, <1>2, <1>4

\* The progress of a run is not undone by another one that mails or stamps.
LEMMA OtherRuns ==
  ASSUME TypeOK, NEW q \in Runs, RunProgress(q), run'[q] = run[q], Visible' = Visible,
         \A m \in Recipients : mailed[m] \subseteq mailed'[m],
         \A s \in last : \E t \in last' : s <= t,
         last' \subseteq Int
  PROVE  RunProgress(q)'
<1>1. Due(q)' = Due(q)
  BY DEF Due
<1>2. run[q].since \in Int /\ last \subseteq Int
  BY KnownTypes
<1>3. (\E s \in last : run[q].since <= s) => \E t \in last' : run'[q].since <= t
  BY <1>2
<1>4. \A m \in Recipients : MailedTo(m, Due(q)) => MailedTo(m, Due(q))'
  BY <1>1 DEF MailedTo
<1> QED
  BY <1>1, <1>3, <1>4 DEF RunProgress

\* A step that changes neither the stamp nor the tables, and takes no mail back.
LEMMA SilentStep ==
  ASSUME ReportInv, NEW r \in Runs, NEW x \in RunRecords, RunUnchanged,
         run' = [run EXCEPT ![r] = x], x.seen \subseteq Known, RunProgress(r)',
         UNCHANGED <<last, passed>>, \A m \in Recipients : mailed[m] \subseteq mailed'[m]
  PROVE  Numbered' /\ Timed' /\ Progress' /\ LossesExplained'
<1>1. /\ \A q \in Runs \ {r} : run'[q] = run[q]
      /\ Visible' = Visible /\ Stored(clock)' = Stored(clock) /\ Numbered'
  BY RunStep DEF ReportInv
<1>2. \A q \in Runs \ {r} : RunProgress(q)'
  <2>1. last' = last /\ last \subseteq Int /\ \A s \in last : s <= s
    BY KnownTypes DEF ReportInv
  <2> QED
    BY <1>1, <2>1, OtherRuns DEF ReportInv, Progress
<1>3. Timed'
  BY <1>1 DEF ReportInv, Timed, RunUnchanged
<1>4. LossesExplained'
  BY <1>1 DEF ReportInv, LossesExplained, Told
<1> QED
  BY <1>1, <1>2, <1>3, <1>4 DEF Progress

\* A run that is over has nothing to do.
LEMMA Over ==
  ASSUME ReportInv, NEW r \in Runs, NEW x \in {IdleRun, [IdleRun EXCEPT !.pc = "hung"]},
         RunUnchanged, run' = [run EXCEPT ![r] = x],
         UNCHANGED <<last, passed>>, \A m \in Recipients : mailed[m] \subseteq mailed'[m]
  PROVE  Numbered' /\ Timed' /\ Progress' /\ LossesExplained'
<1>1. x \in RunRecords /\ x.seen = {} /\ x.pc \in {"idle", "hung"}
  <2>1. CASE x = IdleRun
    BY <2>1, IdleType DEF IdleRun
  <2>2. CASE x = [IdleRun EXCEPT !.pc = "hung"]
    BY <2>2, IdleType DEF IdleRun
  <2> QED
    BY <2>1, <2>2
<1>2. run'[r] = x
  BY DEF ReportInv, TypeOK
<1>3. RunProgress(r)'
  BY <1>1, <1>2 DEF RunProgress
<1> QED
  BY <1>1, <1>3, SilentStep

LEMMA FireStep ==
  ASSUME ReportInv, NEW r \in Runs, Fire(r)
  PROVE  ReportInv'
<1> DEFINE x == [run[r] EXCEPT !.pc = "last"]
<1>1. run' = [run EXCEPT ![r] = x] /\ RunUnchanged /\ UNCHANGED <<last, mailed, passed>>
  BY DEF Fire
<1>2. run[r] \in RunRecords
  BY DEF ReportInv, TypeOK
<1>3. x \in RunRecords /\ x.pc = "last" /\ x.seen = run[r].seen
  BY <1>2 DEF RunRecords
<1>4. x.seen \subseteq Known
  BY <1>3 DEF Known
<1>5. run'[r] = x /\ run' \in [Runs -> RunRecords]
  BY <1>1, <1>3 DEF ReportInv, TypeOK
<1>6. RunProgress(r)'
  BY <1>3, <1>5 DEF RunProgress
<1>7. TypeOK'
  BY <1>5 DEF ReportInv, TypeOK, Fire, RunUnchanged
<1> HIDE DEF x
<1> QED
  BY <1>1, <1>3, <1>4, <1>6, <1>7, SilentStep DEF ReportInv

LEMMA GetLastSuccessStep ==
  ASSUME ReportInv, NEW r \in Runs, GetLastSuccess(r)
  PROVE  ReportInv'
<1>1. PICK since \in IF last = {} THEN {Stored(clock - Day)} ELSE last :
        run' = [run EXCEPT ![r].pc = "enlisted", ![r].first = (last = {}), ![r].since = since]
  BY DEF GetLastSuccess
<1> DEFINE x == [run[r] EXCEPT !.pc = "enlisted", !.first = (last = {}), !.since = since]
<1>2. run' = [run EXCEPT ![r] = x] /\ RunUnchanged /\ UNCHANGED <<last, mailed, passed>>
  BY <1>1 DEF GetLastSuccess, observer
<1>3. run[r] \in RunRecords /\ since \in Times /\ since \in Int /\ (last = {} \/ since \in last)
  <2>1. TypeOK /\ last \subseteq Times /\ run[r] \in RunRecords
    BY DEF ReportInv, TypeOK
  <2>2. since \in Times
    BY <2>1, StoredTimes
  <2> QED
    BY <2>1, <2>2 DEF Times
<1>4. /\ x \in RunRecords /\ x.pc = "enlisted" /\ x.seen = run[r].seen
      /\ x.since = since /\ (x.first <=> last = {})
  BY <1>3 DEF RunRecords
<1>5. x.seen \subseteq Known
  BY <1>4 DEF Known
<1>6. run'[r] = x /\ run' \in [Runs -> RunRecords]
  BY <1>2, <1>4 DEF ReportInv, TypeOK
<1> HIDE DEF x
<1>7. RunProgress(r)'
  <2>1. ~x.first => since \in last
    BY <1>3, <1>4
  <2>2. last' = last /\ since <= since
    BY <1>2, <1>3
  <2>3. ~x.first => \E s \in last' : x.since <= s
    BY <1>4, <2>1, <2>2
  <2> QED
    BY <1>4, <1>6, <2>3 DEF RunProgress
<1>8. TypeOK'
  BY <1>6 DEF ReportInv, TypeOK, GetLastSuccess, observer, RunUnchanged
<1> QED
  BY <1>2, <1>4, <1>5, <1>7, <1>8, SilentStep DEF ReportInv

LEMMA QueryEnlistedStep ==
  ASSUME ReportInv, NEW r \in Runs, QueryEnlisted(r)
  PROVE  ReportInv'
<1> DEFINE x == [run[r] EXCEPT !.pc = "granted", !.found = GetEnlistedSince(run[r].since),
                               !.seen = Joins]
<1>1. run' = [run EXCEPT ![r] = x] /\ RunUnchanged /\ UNCHANGED <<last, mailed, passed>>
  BY DEF QueryEnlisted, observer
<1>2. /\ run[r] \in RunRecords /\ run[r].pc = "enlisted" /\ RunProgress(r)
      /\ Joins \subseteq Events /\ GetEnlistedSince(run[r].since) \subseteq Joins
  BY KnownTypes DEF ReportInv, TypeOK, Progress, QueryEnlisted, Statement, GetEnlistedSince
<1>3. /\ x \in RunRecords /\ x.pc = "granted" /\ x.seen = Joins
      /\ x.found = GetEnlistedSince(run[r].since)
      /\ x.since = run[r].since /\ x.first = run[r].first
  BY <1>2 DEF RunRecords
<1>4. x.seen \subseteq Known
  BY <1>3 DEF Known, Visible
<1>5. run'[r] = x /\ run' \in [Runs -> RunRecords]
  BY <1>1, <1>3 DEF ReportInv, TypeOK
<1> HIDE DEF x
<1>6. RunProgress(r)'
  <2>1. ~x.first => \E s \in last' : x.since <= s
    BY <1>1, <1>2, <1>3 DEF RunProgress
  <2>2. Due(r)' \subseteq x.found /\ x.found \subseteq x.seen
    BY <1>2, <1>3, <1>5 DEF Due, GetEnlistedSince
  <2> QED
    BY <1>3, <1>5, <2>1, <2>2 DEF RunProgress
<1>7. TypeOK'
  BY <1>5 DEF ReportInv, TypeOK, QueryEnlisted, observer, RunUnchanged
<1> QED
  BY <1>1, <1>3, <1>4, <1>6, <1>7, SilentStep DEF ReportInv

LEMMA QueryGrantedStep ==
  ASSUME ReportInv, NEW r \in Runs, QueryGranted(r)
  PROVE  ReportInv'
<1> DEFINE grants == GetGrantedSince(run[r].since)
           x == [run[r] EXCEPT !.pc = "send", !.found = @ \cup grants,
                               !.seen = @ \cup Grants, !.todo = Recipients]
<1>1. /\ run' = [run EXCEPT ![r] = IdleRun] \/ run' = [run EXCEPT ![r] = x]
      /\ RunUnchanged /\ UNCHANGED <<last, mailed, passed>>
  BY DEF QueryGranted, observer
<1>2. /\ run[r] \in RunRecords /\ run[r].pc = "granted" /\ RunProgress(r)
      /\ Grants \subseteq Events /\ grants \subseteq Grants
  BY KnownTypes DEF ReportInv, TypeOK, Progress, QueryGranted, Statement, GetGrantedSince
<1>3. /\ x \in RunRecords /\ x.pc = "send" /\ x.seen = run[r].seen \cup Grants
      /\ x.found = run[r].found \cup grants /\ x.todo = Recipients
      /\ x.since = run[r].since /\ x.first = run[r].first
  BY <1>2 DEF RunRecords
<1>4. x.seen \subseteq Known
  BY <1>3 DEF Known, Visible
<1>5. run' \in [Runs -> RunRecords]
  BY <1>1, <1>3, IdleType DEF ReportInv, TypeOK
<1>6. TypeOK'
  BY <1>5 DEF ReportInv, TypeOK, QueryGranted, observer, RunUnchanged
<1>7. CASE run' = [run EXCEPT ![r] = IdleRun]
  BY <1>1, <1>6, <1>7, Over DEF ReportInv
<1>8. CASE run' = [run EXCEPT ![r] = x]
  <2>1. run'[r] = x /\ Visible' = Visible
    BY <1>3, <1>4, <1>8, <1>1, RunStep DEF ReportInv
  <2>2. \A e \in Due(r)' : e \in run[r].seen => e \in Due(r)
    BY <1>3, <2>1 DEF Due
  <2>3. \A e \in Due(r)' : e \in Grants => e \in grants
    BY <1>3, <2>1 DEF Due, GetGrantedSince
  <2>4. \A e \in Due(r)' : e \in run[r].seen \/ e \in Grants
    BY <1>3, <2>1 DEF Due
  <2>5. run[r].found \subseteq run[r].seen /\ Due(r) \subseteq run[r].found
    BY <1>2 DEF RunProgress
  <2> HIDE DEF x, grants
  <2>6. Due(r)' \subseteq x.found /\ x.found \subseteq x.seen
    BY <1>2, <1>3, <2>2, <2>3, <2>4, <2>5
  <2>7. ~x.first => \E s \in last' : x.since <= s
    BY <1>1, <1>2, <1>3 DEF RunProgress
  <2>8. RunProgress(r)'
    BY <1>3, <2>1, <2>6, <2>7 DEF RunProgress
  <2> QED
    BY <1>1, <1>3, <1>4, <1>6, <1>8, <2>8, SilentStep DEF ReportInv
<1> QED
  BY <1>1, <1>7, <1>8

\* A statement that fails ends its run, and so does a dialogue that hangs.
LEMMA RunFailsStep ==
  ASSUME ReportInv, NEW r \in Runs, StatementFails(r) \/ SendHangs(r)
  PROVE  ReportInv'
<1>1. /\ RunUnchanged /\ UNCHANGED observer /\ last' = last
      /\ faults' = faults \/ Fault
      /\ \/ run' = [run EXCEPT ![r] = IdleRun]
         \/ run' = [run EXCEPT ![r] = [IdleRun EXCEPT !.pc = "hung"]]
  BY DEF StatementFails, SendHangs
<1>2. TypeOK'
  <2>1. run' \in [Runs -> RunRecords]
    BY <1>1, IdleType DEF ReportInv, TypeOK
  <2>2. faults' \in 0 .. MaxFaults
    BY <1>1, DigestAssumption DEF Fault, ReportInv, TypeOK
  <2> QED
    BY <1>1, <2>1, <2>2 DEF ReportInv, TypeOK, RunUnchanged, observer
<1>3. Numbered' /\ Timed' /\ Progress' /\ LossesExplained'
  BY <1>1, Over DEF observer
<1> QED
  BY <1>2, <1>3 DEF ReportInv

\* What a mail leaves of its run: it is one of three, as the mail was the last one
\* or not, and as one of them failed or not.
LEMMA AfterMailIs ==
  ASSUME ReportInv, NEW r \in Runs, NEW m \in Recipients, NEW err \in BOOLEAN,
         run[r].pc = "send"
  PROVE  LET x == AfterMail(r, m, err)
         IN  /\ x \in RunRecords /\ x.seen \subseteq Known
             /\ \/ /\ x.pc = "send" /\ x.seen = run[r].seen /\ x.found = run[r].found
                   /\ x.first = run[r].first /\ x.since = run[r].since
                   /\ x.todo = run[r].todo \ {m} /\ (x.failed <=> run[r].failed \/ err)
                \/ x = IdleRun
                \/ /\ x.pc = "stamp" /\ x.seen = run[r].seen /\ x.first = run[r].first
                   /\ x.since = run[r].since
                   /\ run[r].todo = {m} /\ ~run[r].failed /\ ~err
<1>1. run[r] \in RunRecords /\ run[r].seen \subseteq Known
  BY DEF ReportInv, TypeOK, Known
<1> DEFINE more == [run[r] EXCEPT !.todo = @ \ {m}, !.failed = run[r].failed \/ err]
           done == [run[r] EXCEPT !.pc = "stamp", !.todo = {}, !.found = {}]
<1>2. /\ more \in RunRecords /\ more.pc = "send"
      /\ more.seen = run[r].seen /\ more.found = run[r].found
      /\ more.first = run[r].first /\ more.since = run[r].since
      /\ more.todo = run[r].todo \ {m} /\ (more.failed <=> run[r].failed \/ err)
  BY <1>1 DEF RunRecords
<1>3. /\ done \in RunRecords /\ done.pc = "stamp" /\ done.seen = run[r].seen
      /\ done.first = run[r].first /\ done.since = run[r].since
  BY <1>1 DEF RunRecords
<1>4. IdleRun \in RunRecords /\ IdleRun.seen \subseteq Known
  BY IdleType DEF IdleRun
<1>5. AfterMail(r, m, err) = IF run[r].todo # {m} THEN more
                             ELSE IF run[r].failed \/ err THEN IdleRun ELSE done
  BY DEF AfterMail
<1> HIDE DEF more, done
<1>6. CASE run[r].todo # {m}
  BY <1>1, <1>2, <1>5, <1>6
<1>7. CASE run[r].todo = {m} /\ (run[r].failed \/ err)
  BY <1>4, <1>5, <1>7
<1>8. CASE run[r].todo = {m} /\ ~(run[r].failed \/ err)
  BY <1>1, <1>3, <1>5, <1>8
<1> QED
  BY <1>6, <1>7, <1>8

LEMMA SendStep ==
  ASSUME ReportInv, NEW r \in Runs, NEW m \in Recipients,
         NEW delivered \in BOOLEAN, NEW err \in BOOLEAN, ~err => delivered,
         Send(r, m, delivered, err), faults' = faults \/ Fault
  PROVE  ReportInv'
<1> DEFINE x == AfterMail(r, m, err)
<1>1. /\ run' = [run EXCEPT ![r] = x] /\ RunUnchanged /\ UNCHANGED <<last, passed, overlap>>
      /\ run[r].pc = "send" /\ m \in run[r].todo /\ RunProgress(r)
  BY DEF Send, ReportInv, Progress
<1>2. /\ x \in RunRecords /\ x.seen \subseteq Known
      /\ \/ /\ x.pc = "send" /\ x.seen = run[r].seen /\ x.found = run[r].found
            /\ x.first = run[r].first /\ x.since = run[r].since
            /\ x.todo = run[r].todo \ {m} /\ (x.failed <=> run[r].failed \/ err)
         \/ x = IdleRun
         \/ /\ x.pc = "stamp" /\ x.seen = run[r].seen /\ x.first = run[r].first
            /\ x.since = run[r].since
            /\ run[r].todo = {m} /\ ~run[r].failed /\ ~err
  BY <1>1, AfterMailIs
<1> HIDE DEF x
<1>3. /\ mailed' \in [Recipients -> SUBSET Events]
      /\ \A n \in Recipients : mailed[n] \subseteq mailed'[n]
      /\ delivered => run[r].found \cap Visible \subseteq mailed'[m]
  <2>1. run[r].found \subseteq Events /\ mailed \in [Recipients -> SUBSET Events]
    BY KnownTypes DEF ReportInv, TypeOK
  <2>2. CASE delivered
    <3>1. /\ mailed' = [mailed EXCEPT ![m] = @ \cup (run[r].found \cap Visible)]
          BY <2>2 DEF Send
    <3> QED
      BY <2>1, <3>1
  <2>3. CASE ~delivered
    BY <2>1, <2>3 DEF Send
  <2> QED
    BY <2>2, <2>3
<1>4. TypeOK'
  <2>1. run' \in [Runs -> RunRecords]
    BY <1>1, <1>2 DEF ReportInv, TypeOK
  <2>2. faults' \in 0 .. MaxFaults
    BY DigestAssumption DEF Fault, ReportInv, TypeOK
  <2>3. again' \in BOOLEAN
    <3>1. CASE delivered
      BY <3>1, Zenon DEF Send
    <3>2. CASE ~delivered
      BY <3>2 DEF Send, ReportInv, TypeOK
    <3> QED
      BY <3>1, <3>2
  <2> QED
    BY <1>1, <1>3, <2>1, <2>2, <2>3 DEF ReportInv, TypeOK, RunUnchanged
<1>5. CASE x = IdleRun
  BY <1>1, <1>3, <1>4, <1>5, Over DEF ReportInv
<1>6. CASE x # IdleRun
  <2>1. run'[r] = x /\ Visible' = Visible
    BY <1>1, <1>2, RunStep DEF ReportInv
  <2>2. Due(r)' = Due(r)
    BY <1>2, <1>6, <2>1 DEF Due
  <2>3. run[r].found \subseteq run[r].seen /\ Due(r) \subseteq run[r].found \cap Visible
    BY <1>1 DEF RunProgress, Due
  <2>4. delivered => MailedTo(m, Due(r))'
    BY <1>3, <2>2, <2>3 DEF MailedTo
  <2>5. ~run[r].failed => \A n \in Recipients \ run[r].todo : MailedTo(n, Due(r))'
    BY <1>1, <1>3, <2>2 DEF RunProgress, MailedTo
  <2>6. ~x.first => \E s \in last' : x.since <= s
    BY <1>1, <1>2, <1>6 DEF RunProgress
  <2>7. RunProgress(r)'
    <3>1. CASE x.pc = "send"
      BY <1>2, <1>6, <2>1, <2>2, <2>3, <2>4, <2>5, <2>6, <3>1 DEF RunProgress
    <3>2. CASE x.pc = "stamp"
      BY <1>2, <1>6, <2>1, <2>2, <2>3, <2>4, <2>5, <2>6, <3>2 DEF RunProgress
    <3> QED
      BY <1>2, <1>6, <3>1, <3>2
  <2> QED
    BY <1>1, <1>2, <1>3, <1>4, <2>7, SilentStep DEF ReportInv
<1> QED
  BY <1>5, <1>6

\* The stamp: whatever it covers its run has mailed, or the last stamp covered it,
\* or it is passed over.
LEMMA StampStep ==
  ASSUME ReportInv, NEW r \in Runs, UpdateLastSuccess(r)
  PROVE  ReportInv'
<1> DEFINE t == Stored(clock)
<1>1. /\ run' = [run EXCEPT ![r] = IdleRun] /\ RunUnchanged /\ last' = {t}
      /\ passed' = passed \cup PassedBy(r, t) /\ UNCHANGED <<faults, mailed, again, overlap>>
      /\ run[r].pc = "stamp" /\ RunProgress(r)
  BY DEF UpdateLastSuccess, NewStamp, Statement, ReportInv, Progress
<1>2. IdleRun \in RunRecords /\ IdleRun.seen \subseteq Known
  BY IdleType DEF IdleRun
<1>3. /\ run' \in [Runs -> RunRecords] /\ run'[r] = IdleRun
      /\ \A q \in Runs \ {r} : run'[q] = run[q]
      /\ Visible' = Visible /\ Stored(clock)' = t /\ Numbered'
  BY <1>1, <1>2, RunStep DEF ReportInv
<1>4. /\ TypeOK /\ t \in Times /\ t \in Int /\ Visible \subseteq Events /\ last \subseteq Int
      /\ \A s \in last : s <= t
  BY StoredTimes, KnownTypes DEF ReportInv, Times, Timed
<1>5. TypeOK'
  <2>1. Cardinality({t}) = 1
    BY FS_Singleton
  <2>2. last' \in SUBSET Times /\ Cardinality(last') <= 1
    BY <1>1, <1>4, <2>1
  <2>3. passed' \in SUBSET Events
    BY <1>1, <1>4 DEF PassedBy, TypeOK
  <2> QED
    BY <1>1, <1>3, <1>4, <2>2, <2>3 DEF TypeOK, RunUnchanged
<1>6. Timed'
  <2>1. t <= t
    BY <1>4
  <2> QED
    BY <1>1, <1>3, <2>1 DEF ReportInv, Timed, RunUnchanged
<1>7. Progress'
  <2>1. RunProgress(r)'
    BY <1>3 DEF RunProgress, IdleRun
  <2>2. ASSUME NEW q \in Runs \ {r} PROVE RunProgress(q)'
    <3>1. RunProgress(q) /\ run'[q] = run[q]
      BY <1>3 DEF ReportInv, Progress
    <3>2. \A m \in Recipients : mailed[m] \subseteq mailed'[m]
      BY <1>1
    <3>3. (\A s \in last : \E u \in last' : s <= u) /\ last' \subseteq Int
      BY <1>1, <1>4
    <3> QED
      BY <1>3, <1>4, <3>1, <3>2, <3>3, OtherRuns
  <2> QED
    BY <2>1, <2>2 DEF Progress
<1>8. LossesExplained'
  <2> SUFFICES ASSUME NEW e \in Visible, e.at <= t, e \notin PassedBy(r, t)
               PROVE  e \in passed \/ Told(e)
    BY <1>1, <1>3 DEF LossesExplained, Told
  <2>1. e \in run[r].seen /\ ~(run[r].first /\ e.at <= run[r].since)
    BY DEF PassedBy
  <2>2. e.at \in Int /\ run[r].since \in Int
    BY <1>4, EventTypes, KnownTypes
  <2>3. CASE e.at > run[r].since
    BY <1>1, <2>1, <2>3 DEF RunProgress, Due, MailedTo, Told
  <2>4. CASE e.at <= run[r].since
    <3>1. PICK s \in last : run[r].since <= s
      BY <1>1, <2>1, <2>4 DEF RunProgress
    <3>2. e.at <= s
      BY <1>4, <2>2, <2>4, <3>1
    <3> QED
      BY <3>2 DEF ReportInv, LossesExplained
  <2> QED
    BY <2>2, <2>3, <2>4
<1> QED
  BY <1>3, <1>5, <1>6, <1>7, <1>8 DEF ReportInv

-----------------------------------------------------------------------------
(* Steps of people and admins *)

\* A step that changes the tables shows nothing but what an open transaction wrote,
\* and brings back nothing that is known.
LEMMA ListNumbers ==
  ASSUME TypeOK, Numbered, NEW a \in People, ListChanges(a)
  PROVE  /\ Numbered' /\ run' = run
         /\ Visible' \cap Known \subseteq Visible
         /\ \A e \in Visible' :
              \/ e \in Visible
              \/ /\ \E w \in tx[a] : e.at = w.at
                 /\ \A s \in last : e.at <= s => e \in passed'
<1>1. /\ joined \in [People -> SUBSET Events] /\ granted \in [People -> SUBSET Events]
      /\ writes \in [People -> 0 .. MaxWrites] /\ Known \subseteq Events
  BY KnownTypes DEF TypeOK
<1>2. run' = run
  BY DEF ListChanges, Add, GrantAccessTx, Write, Commit, Refuse, Remove, Ends
<1>3. \A e \in Known : e.who \in People /\ e.n \in Int /\ e.n <= writes[e.who] /\ writes[e.who] \in Int
  BY <1>1, EventTypes, DigestAssumption DEF Numbered
<1>4. CASE UNCHANGED <<writes, joined, granted>>
  <2>1. Visible' = Visible /\ Known' = Known
    BY <1>2, <1>4 DEF Known, Visible, Joins, Grants
  <2> QED
    BY <1>2, <1>4, <2>1 DEF Numbered
<1>5. CASE Remove(a)
  <2>1. joined' = [joined EXCEPT ![a] = {}] /\ granted' = granted /\ writes' = writes
    BY <1>5 DEF Remove
  <2>2. \A b \in People : joined'[b] \subseteq joined[b]
    BY <1>1, <2>1
  <2>3. Visible' \subseteq Visible
    BY <2>1, <2>2 DEF Visible, Joins, Grants
  <2>4. Known' \subseteq Known
    BY <1>2, <2>3 DEF Known
  <2> QED
    BY <1>2, <2>1, <2>3, <2>4 DEF Numbered
<1>6. ASSUME NEW w \in tx[a], Commit(a, w)
      PROVE  /\ Numbered'
             /\ Visible' \cap Known \subseteq Visible
             /\ \A e \in Visible' :
                  \/ e \in Visible
                  \/ e.at = w.at /\ \A s \in last : e.at <= s => e \in passed'
  <2> DEFINE e == [kind |-> w.kind, who |-> a, n |-> writes[a] + 1, at |-> w.at]
  <2>1. e \in Events /\ e.who = a /\ e.n = writes[a] + 1 /\ e.at = w.at /\ writes[a] \in Int
    BY <1>6, NewEvent DEF Commit
  <2>2. /\ \/ joined' = [joined EXCEPT ![a] = {e}] /\ granted' = granted
           \/ /\ \E left \in {{}, {j \in joined[a] : j.n > 1}} :
                  joined' = [joined EXCEPT ![a] = left]
              /\ granted' = [granted EXCEPT ![a] = {e}]
        /\ passed' = (passed \cap Visible') \cup {f \in {e} : \E s \in last : f.at <= s}
        /\ writes' = [writes EXCEPT ![a] = @ + 1]
    BY <1>6 DEF Commit
  <2> HIDE DEF e
  <2>3. \A b \in People : joined'[b] \subseteq joined[b] \cup {e} /\ granted'[b] \subseteq granted[b] \cup {e}
    BY <1>1, <2>2
  <2>4. Visible' \subseteq Visible \cup {e}
    BY <2>3 DEF Visible, Joins, Grants
  <2>5. Known' \subseteq Known \cup {e}
    BY <1>2, <2>4 DEF Known
  <2>6. e \notin Known
    BY <1>3, <2>1
  <2>7. writes'[a] = writes[a] + 1 /\ \A b \in People : b # a => writes'[b] = writes[b]
    BY <1>1, <2>2
  <2>8. \A f \in Known : f.n <= writes'[f.who]
    BY <1>3, <2>1, <2>7
  <2>9. e.n <= writes'[e.who]
    BY <2>1, <2>7
  <2>10. Numbered'
    BY <2>5, <2>8, <2>9 DEF Numbered
  <2>11. \A s \in last : e.at <= s => e \in passed'
    BY <2>2
  <2> QED
    BY <2>1, <2>4, <2>6, <2>10, <2>11
<1>7. ListChanges(a) => \/ UNCHANGED <<writes, joined, granted>> \/ Remove(a)
                        \/ \E w \in tx[a] : Commit(a, w)
  BY DEF ListChanges, Add, GrantAccessTx, Write, Refuse, Ends
<1> QED
  BY <1>2, <1>4, <1>5, <1>6, <1>7

LEMMA ListStep ==
  ASSUME ReportInv, NEW a \in People, ListChanges(a)
  PROVE  ReportInv'
<1>1. /\ TypeOK' /\ Numbered' /\ run' = run
      /\ Visible' \cap Known \subseteq Visible
      /\ \A e \in Visible' :
           \/ e \in Visible
              \/ /\ \E w \in tx[a] : e.at = w.at
                 /\ \A s \in last : e.at <= s => e \in passed'
  BY ListTypes, ListNumbers DEF ReportInv
<1>2. UNCHANGED <<engine, clock, last, faults>>
  BY DEF ListChanges, Add, GrantAccessTx, Write, Commit, Refuse, Ends, Remove
<1>3. Stored(clock)' = Stored(clock)
  BY <1>2 DEF Stored
<1>4. \A m \in Recipients : mailed[m] \cap Visible' \subseteq mailed'[m]
  BY DEF ListChanges, Add, GrantAccessTx, Write, Commit, Refuse, Remove, Forget, observer
<1>5. passed \cap Visible' \subseteq passed'
  BY DEF ListChanges, Add, GrantAccessTx, Write, Commit, Refuse, Remove, observer
<1>6. \A e \in Visible' : e \notin Visible => \A s \in last : e.at <= s => e \in passed'
  BY <1>1
<1>7. Timed'
  <2>1. \A e \in Visible' : e.at <= Stored(clock)
    BY <1>1 DEF ReportInv, Timed
  <2>2. tx \in [People -> SUBSET Writes]
    BY DEF ReportInv, TypeOK
  <2>3. \A b \in People : \A w \in tx'[b] : w \in tx[b] \/ w.at = Stored(clock)
    <3>1. \/ \E kind \in {"join", "grant"} :
               tx' = [tx EXCEPT ![a] = @ \cup {[kind |-> kind, at |-> Stored(clock)]}]
          \/ tx' = tx \/ \E w \in tx[a] : tx' = [tx EXCEPT ![a] = @ \ {w}]
      BY DEF ListChanges, Add, GrantAccessTx, Write, Commit, Refuse, Ends, Remove
    <3> QED
      BY <2>2, <3>1
  <2>4. Stored(clock) <= Stored(clock)
    BY StoredTimes DEF ReportInv, Times
  <2>5. \A b \in People : \A w \in tx'[b] : w.at <= Stored(clock)
    BY <2>3, <2>4 DEF ReportInv, Timed
  <2> QED
    BY <1>2, <1>3, <2>1, <2>5 DEF ReportInv, Timed
<1>8. Progress'
  <2> SUFFICES ASSUME NEW r \in Runs PROVE RunProgress(r)'
    BY DEF Progress
  <2>1. RunProgress(r)
    BY DEF ReportInv, Progress
  <2>2. Due(r)' \subseteq Due(r) \cap Visible'
    BY <1>1 DEF Due, Known
  <2>3. \A m \in Recipients : MailedTo(m, Due(r)) => MailedTo(m, Due(r))'
    BY <1>4, <2>2 DEF MailedTo
  <2> QED
    BY <1>1, <1>2, <2>1, <2>2, <2>3 DEF RunProgress
<1>9. LossesExplained'
  BY <1>2, <1>4, <1>5, <1>6 DEF ReportInv, LossesExplained, Told
<1> QED
  BY <1>1, <1>7, <1>8, <1>9 DEF ReportInv

-----------------------------------------------------------------------------
(* The server and the clock *)

LEMMA ServerStep ==
  ASSUME ReportInv, Stop \/ Exit \/ Start \/ Tick
  PROVE  ReportInv'
<1>1. /\ Visible' = Visible /\ UNCHANGED <<engine, writes, joined, granted, last, mailed, passed>>
      /\ (clock' = clock /\ Stored(clock)' = Stored(clock)) \/ Tick
  BY DEF Stop, Exit, Start, Tick, database, observer, Visible, Joins, Grants, Stored
<1>2. /\ run' \in [Runs -> RunRecords] /\ tx' \in [People -> SUBSET Writes]
      /\ \A a \in People : tx'[a] \subseteq tx[a]
      /\ \A r \in Runs : run'[r] = run[r] \/ run'[r] = IdleRun
  BY IdleType DEF ReportInv, TypeOK, Stop, Exit, Start, Tick, database
<1>3. TypeOK'
  <2>1. faults' \in 0 .. MaxFaults
    BY DigestAssumption DEF Stop, Exit, Start, Tick, Fault, ReportInv, TypeOK
  <2>2. clock' \in 0 .. MaxClock /\ server' \in {"up", "stopping", "down"}
    BY DigestAssumption DEF Stop, Exit, Start, Tick, database, ReportInv, TypeOK
  <2>3. again' = again /\ overlap' = overlap
    BY DEF Stop, Exit, Start, Tick, observer
  <2> QED
    BY <1>1, <1>2, <2>1, <2>2, <2>3 DEF ReportInv, TypeOK
<1>4. \A r \in Runs : run'[r].seen \subseteq run[r].seen
  BY <1>2 DEF IdleRun
<1>5. Known' \subseteq Known
  BY <1>1, <1>4 DEF Known
<1>6. Numbered'
  BY <1>1, <1>5 DEF ReportInv, Numbered
<1>7. Stored(clock) <= Stored(clock)' /\ Stored(clock) \in Int /\ Stored(clock)' \in Int
  <2>1. clock \in Int /\ clock' \in Int /\ clock <= clock'
    BY <1>1, DigestAssumption DEF Tick, ReportInv, TypeOK
  <2>2. Stored(clock)' = Stored(clock')
    BY <1>1 DEF Stored
  <2> QED
    BY <2>1, <2>2, StoredBounds, StoredMonotone
<1>8. Timed'
  <2>1. /\ \A s \in last : s \in Int
        /\ \A e \in Visible : e.at \in Int
        /\ \A a \in People : \A w \in tx[a] : w.at \in Int
    BY KnownTypes, EventTypes DEF ReportInv, TypeOK, Writes, Times
  <2> QED
    BY <1>1, <1>2, <1>7, <2>1 DEF ReportInv, Timed
<1>9. Progress'
  <2> SUFFICES ASSUME NEW r \in Runs PROVE RunProgress(r)'
    BY DEF Progress
  <2>1. CASE run'[r] = IdleRun
    BY <2>1 DEF RunProgress, IdleRun
  <2>2. CASE run'[r] = run[r]
    <3>1. RunProgress(r) /\ Due(r)' = Due(r)
      BY <1>1, <2>2 DEF ReportInv, Progress, Due
    <3> QED
      BY <1>1, <2>2, <3>1 DEF RunProgress, MailedTo
  <2> QED
    BY <1>2, <2>1, <2>2
<1>10. LossesExplained'
  BY <1>1 DEF ReportInv, LossesExplained, Told
<1> QED
  BY <1>3, <1>6, <1>8, <1>9, <1>10 DEF ReportInv

LEMMA ReportInit == Init => ReportInv
<1> SUFFICES ASSUME Init PROVE ReportInv
  OBVIOUS
<1>1. TypeOK
  BY DigestInitTyped
<1>2. Visible = {} /\ \A r \in Runs : run[r] = IdleRun /\ run[r].seen = {} /\ run[r].pc = "idle"
  BY DEF Init, Visible, Joins, Grants, IdleRun
<1>3. Known = {}
  BY <1>2 DEF Known
<1>4. Numbered
  BY <1>3 DEF Init, Numbered
<1>5. Timed
  BY <1>2 DEF Init, Timed
<1>6. Progress
  BY <1>2 DEF Progress, RunProgress
<1>7. LossesExplained
  BY <1>2 DEF LossesExplained
<1> QED
  BY <1>1, <1>4, <1>5, <1>6, <1>7 DEF ReportInv

LEMMA ReportNext == ReportInv /\ [Next]_vars => ReportInv'
<1> SUFFICES ASSUME ReportInv, [Next]_vars PROVE ReportInv'
  OBVIOUS
<1>1. ASSUME NEW r \in Runs, NEW m \in Recipients, SendAccepted(r, m)
      PROVE  ReportInv'
  <2>1. TRUE \in BOOLEAN /\ FALSE \in BOOLEAN /\ Send(r, m, TRUE, FALSE) /\ faults' = faults
    BY <1>1 DEF SendAccepted
  <2> QED
    BY <2>1, SendStep
<1>2. ASSUME NEW r \in Runs, NEW m \in Recipients, SendFails(r, m)
      PROVE  ReportInv'
  <2>1. PICK delivered \in BOOLEAN : Send(r, m, delivered, TRUE) /\ Fault
    BY <1>2 DEF SendFails
  <2> QED
    BY <2>1, SendStep
<1>3. CASE UNCHANGED vars
  <2>1. Visible' = Visible /\ Known' = Known /\ Stored(clock)' = Stored(clock)
    BY <1>3 DEF vars, Known, Visible, Joins, Grants, Stored
  <2> QED
    BY <1>3, <2>1
    DEF vars, ReportInv, TypeOK, Numbered, Timed, Progress, RunProgress, Due, MailedTo,
        LossesExplained, Told
<1> QED
  BY <1>1, <1>2, <1>3, ListStep, ServerStep, FireStep, GetLastSuccessStep, QueryEnlistedStep,
     QueryGrantedStep, StampStep, RunFailsStep
  DEF Next, Advance, ListChanges

\* Type correctness of the digest's model, for any number of people, recipients,
\* runs, faults and ticks of the clock.
THEOREM DigestTypeCorrect == Spec => []TypeOK
<1>1. ReportInv => TypeOK
  BY DEF ReportInv
<1> QED
  BY <1>1, ReportInit, ReportNext, PTL DEF Spec

\* However runs overlap, fail and hang, and whatever people do between a run's
\* queries and its stamp: an event the next digest leaves out has been mailed to
\* every recipient, or its row became visible after the queries, or it was older
\* than the 24 hours of a first digest.
THEOREM LossesAreExplained == Spec => []LossesExplained
<1>1. ReportInv => LossesExplained
  BY DEF ReportInv
<1> QED
  BY <1>1, ReportInit, ReportNext, PTL DEF Spec

-----------------------------------------------------------------------------
(* An event is mailed once *)

\* The one run under way makes a step.
LEMMA SteadyStep ==
  ASSUME ReportInv, Undisturbed, NEW r \in Runs, NEW x \in RunRecords, RunUnchanged,
         run' = [run EXCEPT ![r] = x], Alone(r), ~x.failed, ~again', Steady(r)',
         \A m \in Recipients : \A e \in mailed'[m] : e.at <= Stored(clock)
  PROVE  Undisturbed'
<1>1. /\ run'[r] = x /\ \A q \in Runs \ {r} : run'[q] = run[q]
      /\ server' = server /\ Stored(clock)' = Stored(clock)
  BY DEF ReportInv, TypeOK, RunUnchanged, Stored
<1>2. \A q \in Runs \ {r} : run'[q].pc = "idle" /\ ~run'[q].failed
  BY <1>1 DEF Alone, Undisturbed
<1>3. \A q \in Runs : ~run'[q].failed /\ (run'[q].pc # "idle" => Steady(q)')
  BY <1>1, <1>2
<1>4. run'[r].pc = "idle" => \A m \in Recipients : Stamped(m)'
  BY DEF Steady
<1> QED
  BY <1>1, <1>3, <1>4 DEF Undisturbed

\* Its statements leave the mails and the stamp as they are.
LEMMA SteadyStatement ==
  ASSUME ReportInv, Undisturbed, NEW r \in Runs, NEW x \in RunRecords, RunUnchanged,
         run' = [run EXCEPT ![r] = x], Alone(r), ~x.failed,
         x.pc \in {"idle", "last", "enlisted", "granted", "send"},
         UNCHANGED <<last, mailed, again>>, \A m \in Recipients : Stamped(m),
         x.pc \in {"enlisted", "granted", "send"} => \A s \in last : ~x.first /\ x.since = s,
         x.pc \in {"granted", "send"} => \A e \in x.found : e.at > x.since
  PROVE  Undisturbed'
<1>1. run'[r] = x /\ \A q \in Runs \ {r} : run'[q] = run[q]
  BY DEF ReportInv, TypeOK
<1>2. Alone(r)'
  BY <1>1 DEF Alone
<1>3. \A m \in Recipients : Stamped(m)'
  BY DEF Stamped
<1>4. x.todo \subseteq Recipients
  BY DEF RunRecords
<1>5. Steady(r)'
  BY <1>1, <1>2, <1>3, <1>4 DEF Steady
<1> QED
  BY <1>5, SteadyStep DEF Undisturbed

LEMMA FireOnce ==
  ASSUME ReportInv, Undisturbed, NEW r \in Runs, Fire(r), ~overlap'
  PROVE  Undisturbed'
<1>1. \A q \in Runs : run[q].pc = "idle"
  BY DEF Fire
<1> DEFINE x == [run[r] EXCEPT !.pc = "last"]
<1>2. run[r] \in RunRecords
  BY DEF ReportInv, TypeOK
<1>3. x \in RunRecords /\ x.pc = "last" /\ (x.failed <=> run[r].failed)
  BY <1>2 DEF RunRecords
<1>4. run' = [run EXCEPT ![r] = x] /\ RunUnchanged /\ UNCHANGED <<last, mailed, again>>
  BY DEF Fire
<1>5. Alone(r) /\ ~run[r].failed /\ \A m \in Recipients : Stamped(m)
  BY <1>1 DEF Alone, Undisturbed
<1> HIDE DEF x
<1> QED
  BY <1>3, <1>4, <1>5, SteadyStatement

LEMMA QueriesOnce ==
  ASSUME ReportInv, Undisturbed, NEW r \in Runs,
         GetLastSuccess(r) \/ QueryEnlisted(r) \/ QueryGranted(r)
  PROVE  Undisturbed'
<1>1. /\ run[r].pc \in {"last", "enlisted", "granted"} /\ RunUnchanged
      /\ UNCHANGED <<last, mailed, again>>
  BY DEF GetLastSuccess, QueryEnlisted, QueryGranted, Statement, observer
<1>2. Steady(r) /\ Alone(r) /\ ~run[r].failed /\ \A m \in Recipients : Stamped(m)
  BY <1>1 DEF Undisturbed, Steady
<1>3. run[r] \in RunRecords /\ TypeOK
  BY DEF ReportInv, TypeOK
<1>4. CASE GetLastSuccess(r)
  <2>1. PICK since \in IF last = {} THEN {Stored(clock - Day)} ELSE last :
          run' = [run EXCEPT ![r].pc = "enlisted", ![r].first = (last = {}), ![r].since = since]
    BY <1>4 DEF GetLastSuccess
  <2> DEFINE x == [run[r] EXCEPT !.pc = "enlisted", !.first = (last = {}), !.since = since]
  <2>2. run' = [run EXCEPT ![r] = x]
    BY <2>1
  <2>3. since \in Times
    BY <1>3, StoredTimes DEF TypeOK
  <2>4. x \in RunRecords /\ x.pc = "enlisted" /\ x.since = since /\ (x.first <=> last = {})
        /\ (x.failed <=> run[r].failed)
    BY <1>3, <2>3 DEF RunRecords
  <2> HIDE DEF x
  <2>5. \A s \in last : ~x.first /\ x.since = s
    BY <2>1, <2>4 DEF ReportInv, Timed
  <2> QED
    BY <1>1, <1>2, <2>2, <2>4, <2>5, SteadyStatement
<1>5. CASE QueryEnlisted(r)
  <2> DEFINE x == [run[r] EXCEPT !.pc = "granted", !.found = GetEnlistedSince(run[r].since),
                                 !.seen = Joins]
  <2>1. run' = [run EXCEPT ![r] = x] /\ run[r].pc = "enlisted"
    BY <1>5 DEF QueryEnlisted, Statement
  <2>2. Joins \subseteq Events /\ GetEnlistedSince(run[r].since) \subseteq Joins
    BY <1>3, KnownTypes DEF GetEnlistedSince
  <2>3. x \in RunRecords /\ x.pc = "granted" /\ x.since = run[r].since
        /\ (x.first <=> run[r].first) /\ (x.failed <=> run[r].failed)
        /\ x.found = GetEnlistedSince(run[r].since)
    BY <1>3, <2>2 DEF RunRecords
  <2> HIDE DEF x
  <2>4. \A e \in x.found : e.at > x.since
    BY <2>3 DEF GetEnlistedSince
  <2>5. \A s \in last : ~x.first /\ x.since = s
    BY <1>2, <2>1, <2>3 DEF Steady
  <2> QED
    BY <1>1, <1>2, <2>1, <2>3, <2>4, <2>5, SteadyStatement
<1>6. CASE QueryGranted(r)
  <2> DEFINE grants == GetGrantedSince(run[r].since)
             x == [run[r] EXCEPT !.pc = "send", !.found = @ \cup grants,
                                 !.seen = @ \cup Grants, !.todo = Recipients]
  <2>1. run' = [run EXCEPT ![r] = IdleRun] \/ run' = [run EXCEPT ![r] = x]
    BY <1>6 DEF QueryGranted
  <2>2. run[r].pc = "granted" /\ Grants \subseteq Events /\ grants \subseteq Grants
    BY <1>3, <1>6, KnownTypes DEF QueryGranted, Statement, GetGrantedSince
  <2>3. x \in RunRecords /\ x.pc = "send" /\ x.since = run[r].since
        /\ (x.first <=> run[r].first) /\ (x.failed <=> run[r].failed)
        /\ x.found = run[r].found \cup grants
    BY <1>3, <2>2 DEF RunRecords
  <2>4. \A e \in grants : e.at > run[r].since
    BY DEF GetGrantedSince
  <2> HIDE DEF x, grants
  <2>5. \A e \in x.found : e.at > x.since
    BY <1>2, <2>2, <2>3, <2>4 DEF Steady
  <2>6. \A s \in last : ~x.first /\ x.since = s
    BY <1>2, <2>2, <2>3 DEF Steady
  <2>7. CASE run' = [run EXCEPT ![r] = IdleRun]
    <3>1. IdleRun \in RunRecords /\ IdleRun.pc = "idle" /\ ~IdleRun.failed
      BY IdleType DEF IdleRun
    <3> QED
      BY <1>1, <1>2, <2>7, <3>1, SteadyStatement
  <2>8. CASE run' = [run EXCEPT ![r] = x]
    BY <1>1, <1>2, <2>3, <2>5, <2>6, <2>8, SteadyStatement
  <2> QED
    BY <2>1, <2>7, <2>8
<1> QED
  BY <1>4, <1>5, <1>6

\* A recipient who is still to be mailed knows nothing of what the run has found:
\* that is later than the last stamp.
LEMMA NothingTwice ==
  ASSUME ReportInv, NEW r \in Runs, NEW m \in Recipients, NEW delivered \in BOOLEAN,
         NEW err \in BOOLEAN, Send(r, m, delivered, err), ~again,
         faults = 0 /\ ~overlap => Undisturbed
  PROVE  ~again'
<1>1. /\ run[r].pc = "send" /\ m \in run[r].todo
      /\ \/ again' = again
         \/ again' = (again \/ (faults = 0 /\ ~overlap /\ run[r].found \cap mailed[m] # {}))
  BY DEF Send
<1>2. ASSUME Undisturbed, NEW e \in run[r].found, e \in mailed[m] PROVE FALSE
  <2>1. Steady(r) /\ Stamped(m)
    BY <1>1, <1>2 DEF Undisturbed, Steady
  <2>2. PICK s \in last : e.at <= s
    BY <1>2, <2>1 DEF Stamped
  <2>3. run[r].since = s /\ e.at > s
    BY <1>1, <1>2, <2>1, <2>2 DEF Steady
  <2>4. e.at \in Int /\ s \in Int
    BY <1>2, KnownTypes, EventTypes DEF ReportInv
  <2> QED
    BY <2>2, <2>3, <2>4
<1> QED
  BY <1>1, <1>2

LEMMA SendOnce ==
  ASSUME ReportInv, Undisturbed, NEW r \in Runs, NEW m \in Recipients, SendAccepted(r, m)
  PROVE  Undisturbed'
<1> DEFINE x == AfterMail(r, m, FALSE)
<1>1. /\ run' = [run EXCEPT ![r] = x] /\ RunUnchanged /\ last' = last
      /\ mailed' = [mailed EXCEPT ![m] = @ \cup (run[r].found \cap Visible)]
      /\ run[r].pc = "send" /\ m \in run[r].todo
  BY DEF SendAccepted, Send
<1>2. Steady(r) /\ Alone(r) /\ ~run[r].failed /\ Stamped(m)
  BY <1>1 DEF Undisturbed, Steady
<1>3. /\ x \in RunRecords
      /\ \/ /\ x.pc = "send" /\ x.found = run[r].found /\ x.first = run[r].first
            /\ x.since = run[r].since /\ x.todo = run[r].todo \ {m}
            /\ (x.failed <=> run[r].failed)
         \/ x.pc = "stamp" /\ ~x.failed
  <2>1. run[r] \in RunRecords
    BY DEF ReportInv, TypeOK
  <2> DEFINE more == [run[r] EXCEPT !.todo = @ \ {m}, !.failed = run[r].failed \/ FALSE]
             done == [run[r] EXCEPT !.pc = "stamp", !.todo = {}, !.found = {}]
  <2>2. /\ more \in RunRecords /\ more.pc = run[r].pc /\ more.found = run[r].found
        /\ more.first = run[r].first /\ more.since = run[r].since
        /\ more.todo = run[r].todo \ {m} /\ (more.failed <=> run[r].failed)
    BY <2>1 DEF RunRecords
  <2>3. done \in RunRecords /\ done.pc = "stamp" /\ (done.failed <=> run[r].failed)
    BY <2>1 DEF RunRecords
  <2>4. x = more \/ x = done
    BY <1>2 DEF AfterMail
  <2> HIDE DEF more, done, x
  <2> QED
    BY <1>1, <1>2, <2>2, <2>3, <2>4
<1> HIDE DEF x
<1>4. run'[r] = x /\ \A q \in Runs \ {r} : run'[q] = run[q]
  BY <1>1, <1>3 DEF ReportInv, TypeOK
<1>5. ~again'
  BY NothingTwice DEF SendAccepted, Undisturbed
<1>6. ASSUME NEW n \in Recipients PROVE \A e \in mailed'[n] : e.at <= Stored(clock)
  <2>1. \A e \in mailed'[n] : e \in mailed[n] \/ e \in Visible
    BY <1>1 DEF ReportInv, TypeOK
  <2> QED
    BY <2>1 DEF ReportInv, Timed, Undisturbed
<1>7. \A n \in Recipients \ {m} : Stamped(n) => Stamped(n)'
  BY <1>1 DEF Stamped, ReportInv, TypeOK
<1>8. run[r].todo \subseteq Recipients
  BY KnownTypes DEF ReportInv
<1>9. Steady(r)'
  <2>1. Alone(r)'
    BY <1>2, <1>4 DEF Alone
  <2>2. CASE x.pc = "stamp"
    BY <1>4, <2>1, <2>2 DEF Steady
  <2>3. CASE x.pc = "send"
    <3>1. \A s \in last' : ~x.first /\ x.since = s
      BY <1>1, <1>2, <1>3, <2>3 DEF Steady
    <3>2. \A e \in x.found : e.at > x.since
      BY <1>1, <1>2, <1>3, <2>3 DEF Steady
    <3>3. \A n \in x.todo : Stamped(n)'
      BY <1>1, <1>2, <1>3, <1>7, <1>8, <2>3 DEF Steady
    <3> QED
      BY <1>4, <2>1, <2>3, <3>1, <3>2, <3>3 DEF Steady
  <2> QED
    BY <1>3, <2>2, <2>3
<1> QED
  BY <1>1, <1>2, <1>3, <1>5, <1>6, <1>9, SteadyStep

\* A stamp is not before anything that was mailed.
LEMMA StampOnce ==
  ASSUME ReportInv, Undisturbed, NEW r \in Runs, UpdateLastSuccess(r)
  PROVE  Undisturbed'
<1>1. /\ run' = [run EXCEPT ![r] = IdleRun] /\ RunUnchanged /\ last' = {Stored(clock)}
      /\ UNCHANGED <<mailed, again>> /\ run[r].pc = "stamp"
  BY DEF UpdateLastSuccess, NewStamp, Statement
<1>2. Alone(r)
  BY <1>1 DEF Undisturbed, Steady
<1>3. IdleRun \in RunRecords /\ IdleRun.pc = "idle" /\ ~IdleRun.failed
  BY IdleType DEF IdleRun
<1>4. run'[r] = IdleRun /\ \A q \in Runs \ {r} : run'[q] = run[q]
  BY <1>1, <1>3 DEF ReportInv, TypeOK
<1>5. \A m \in Recipients : Stamped(m)'
  BY <1>1 DEF Stamped, Undisturbed
<1>6. Steady(r)'
  BY <1>2, <1>3, <1>4, <1>5 DEF Steady, Alone
<1> QED
  BY <1>1, <1>2, <1>3, <1>6, SteadyStep DEF Undisturbed

\* What people and admins do takes events away, and none before now comes back.
LEMMA ListOnce ==
  ASSUME ReportInv, Undisturbed, NEW a \in People, ListChanges(a)
  PROVE  Undisturbed'
<1>1. UNCHANGED <<engine, server, clock, last, run, again>>
  BY DEF ListChanges, Add, GrantAccessTx, Write, Commit, Refuse, Ends, Remove, Forget, observer
<1>2. Stored(clock)' = Stored(clock)
  BY <1>1 DEF Stored
<1>3. \A m \in Recipients : mailed'[m] \subseteq mailed[m]
  BY DEF ListChanges, Add, GrantAccessTx, Write, Commit, Refuse, Ends, Remove, Forget, observer
<1>4. \A m \in Recipients : Stamped(m) => Stamped(m)'
  BY <1>1, <1>3 DEF Stamped
<1>5. \A r \in Runs : run[r].todo \subseteq Recipients
  BY KnownTypes DEF ReportInv
<1>6. \A r \in Runs : Steady(r) => Steady(r)'
  BY <1>1, <1>4, <1>5 DEF Steady, Alone
<1> QED
  BY <1>1, <1>2, <1>3, <1>4, <1>6 DEF Undisturbed

LEMMA TickOnce ==
  ASSUME ReportInv, Undisturbed, Tick
  PROVE  Undisturbed'
<1>1. UNCHANGED <<engine, server, last, run, mailed, again>>
  BY DEF Tick, database, observer
<1>2. Stored(clock) <= Stored(clock)' /\ Stored(clock) \in Int /\ Stored(clock)' \in Int
  <2>1. clock \in Int /\ clock' \in Int /\ clock <= clock'
    BY DigestAssumption DEF Tick, ReportInv, TypeOK
  <2>2. Stored(clock)' = Stored(clock')
    BY <1>1 DEF Stored
  <2> QED
    BY <2>1, <2>2, StoredBounds, StoredMonotone
<1>3. \A m \in Recipients : \A e \in mailed[m] : e.at \in Int
  BY EventTypes DEF ReportInv, TypeOK
<1>4. \A m \in Recipients : \A e \in mailed'[m] : e.at <= Stored(clock)'
  BY <1>1, <1>2, <1>3 DEF Undisturbed
<1>5. \A m \in Recipients : Stamped(m) => Stamped(m)'
  BY <1>1 DEF Stamped
<1>6. \A r \in Runs : run[r].todo \subseteq Recipients
  BY KnownTypes DEF ReportInv
<1>7. \A r \in Runs : Steady(r) => Steady(r)'
  BY <1>1, <1>5, <1>6 DEF Steady, Alone
<1> QED
  BY <1>1, <1>4, <1>5, <1>7 DEF Undisturbed

LEMMA OnceInit == Init => OnceInv
<1> SUFFICES ASSUME Init PROVE Undisturbed
  BY DEF OnceInv, Undisturbed
<1>1. \A r \in Runs : run[r].pc = "idle" /\ ~run[r].failed
  BY DEF Init, IdleRun
<1>2. \A m \in Recipients : mailed[m] = {}
  BY DEF Init
<1> QED
  BY <1>1, <1>2 DEF Init, Undisturbed, Stamped

LEMMA NeverTwice == ReportInv /\ OnceInv /\ [Next]_vars => ~again'
<1> SUFFICES ASSUME ReportInv, OnceInv, [Next]_vars PROVE ~again'
  OBVIOUS
<1>1. ASSUME NEW r \in Runs, NEW m \in Recipients, SendAccepted(r, m) \/ SendFails(r, m)
      PROVE  ~again'
  BY <1>1, NothingTwice DEF SendAccepted, SendFails, OnceInv
<1>2. CASE again' = again
  BY <1>2 DEF OnceInv
<1>3. \/ again' = again
      \/ \E r \in Runs, m \in Recipients : SendAccepted(r, m) \/ SendFails(r, m)
  BY DEF Next, Add, GrantAccessTx, Write, Remove, Commit, Refuse, Ends, Forget, Fire, Advance,
         GetLastSuccess, QueryEnlisted, QueryGranted, UpdateLastSuccess, SendHangs,
         StatementFails, Stop, Exit, Start, Tick, observer, vars
<1> QED
  BY <1>1, <1>2, <1>3

LEMMA OnceNext == ReportInv /\ OnceInv /\ [Next]_vars => OnceInv'
<1> SUFFICES ASSUME ReportInv, OnceInv, [Next]_vars, faults' = 0, ~overlap'
             PROVE  Undisturbed'
  BY NeverTwice DEF OnceInv
<1>1. faults \in Nat /\ ~Fault
  BY DEF ReportInv, TypeOK, Fault
<1>2. CASE UNCHANGED vars
  <2>1. Undisturbed /\ Stored(clock)' = Stored(clock)
    BY <1>2 DEF vars, OnceInv, Stored
  <2> QED
    BY <1>2, <2>1 DEF vars, Undisturbed, Steady, Stamped, Alone
<1>3. CASE \E a \in People : ListChanges(a)
  <2>1. faults' = faults /\ overlap' = overlap
    BY <1>3 DEF ListChanges, Add, GrantAccessTx, Write, Commit, Refuse, Ends, Remove, Forget, observer
  <2> QED
    BY <1>3, <2>1, ListOnce DEF OnceInv
<1>4. CASE \E r \in Runs : Fire(r)
  <2>1. faults' = faults /\ ~overlap
    BY <1>4 DEF Fire
  <2> QED
    BY <1>4, <2>1, FireOnce DEF OnceInv
<1>5. ASSUME NEW r \in Runs, Advance(r) PROVE Undisturbed'
  <2>1. faults' = faults /\ overlap' = overlap
    BY <1>5 DEF Advance, GetLastSuccess, QueryEnlisted, QueryGranted, SendAccepted, Send,
                UpdateLastSuccess, observer
  <2> QED
    BY <1>5, <2>1, QueriesOnce, SendOnce, StampOnce DEF Advance, OnceInv
<1>6. ASSUME NEW r \in Runs,
             (\E m \in Recipients : SendFails(r, m)) \/ SendHangs(r) \/ StatementFails(r)
      PROVE  Undisturbed'
  <2>1. server = "stopping" /\ faults' = faults /\ overlap' = overlap
    BY <1>1, <1>6 DEF SendFails, SendHangs, StatementFails, observer
  <2> QED
    BY <2>1 DEF OnceInv, Undisturbed
<1>7. CASE Stop \/ Exit \/ Start
  <2>1. server # "up" /\ faults' = faults /\ overlap' = overlap
    BY <1>1, <1>7 DEF Stop, Exit, Start, observer
  <2> QED
    BY <2>1 DEF OnceInv, Undisturbed
<1>8. CASE Tick
  <2>1. faults' = faults /\ overlap' = overlap
    BY <1>8 DEF Tick, observer
  <2> QED
    BY <1>8, <2>1, TickOnce DEF OnceInv
<1> QED
  BY <1>2, <1>3, <1>4, <1>5, <1>6, <1>7, <1>8 DEF Next, ListChanges

\* With any number of recipients and any activity: nobody is mailed an event twice
\* unless a mail or a statement failed, the server stopped, or cron started a run
\* while another one was under way.
THEOREM EventsAreMailedOnce == Spec => []OnceUnlessRetried
<1>1. ReportInv /\ OnceInv => OnceUnlessRetried
  BY DEF OnceInv, OnceUnlessRetried
<1>2. Init => ReportInv /\ OnceInv
  BY ReportInit, OnceInit
<1>3. (ReportInv /\ OnceInv) /\ [Next]_vars => (ReportInv /\ OnceInv)'
  BY ReportNext, OnceNext
<1> QED
  BY <1>1, <1>2, <1>3, PTL DEF Spec
=============================================================================
