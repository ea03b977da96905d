------------------------------- MODULE Server -------------------------------
(***************************************************************************)
(* One server process from its configuration to its exit: the start in     *)
(* main, the resolution of projects, and then the actors that live side by *)
(* side until the interrupt: requests, the scheduler and the digest job.   *)
(*                                                                         *)
(*   main    load -> connect -> migrate -> wire -> start -> wait           *)
(*           -> shutdown -> exited                                         *)
(*   actor   idle -> reads -> tx -> fetch -> mail -> idle                  *)
(*                                                                         *)
(* What the actors write is the matter of Waitlist and Digest.  Here they  *)
(* compete for the database connection and wait for the mail server, and   *)
(* the question is what can keep one of them, or the process, for ever.    *)
(***************************************************************************)
EXTENDS Integers, FiniteSets

CONSTANTS
  Slugs,        \* the projects of projects.definitions, not empty
  Strangers,    \* slugs that are not defined
  NoSlug,       \* no header, or an empty one
  Names,        \* host names
  Configs,      \* the configurations to start with, see Config
  DefaultPort,
  SignUps, Grants, Probes,  \* requests, by what they ask for
  MaxFaults     \* bound: faults of the database, the network and mail server

NoHost == <<>>
HostPorts == Names \X {0, 8443}  \* 0: no port
Ports == Int

\* What file and environment set; database.url by its scheme.  A port is {} when
\* it is not set, or one number.
Config ==
  [hosts : [Slugs -> HostPorts \cup {NoHost}], default : Slugs \cup Strangers,
   file : SUBSET Ports, env : SUBSET Ports,
   scheme : {"postgres", "sqlite", "other"}, template : {"builtin", "missing", "broken"},
   digest : {"none", "scheduled", "invalid"},
   smtp : BOOLEAN, admin : BOOLEAN, disabled : BOOLEAN]

ASSUME ServerAssumption ==
  /\ Configs \subseteq Config
  /\ NoSlug \notin Slugs \cup Strangers /\ Slugs \cap Strangers = {}
  /\ MaxFaults \in Nat

Requests == SignUps \cup Grants \cup Probes
Scheduler == "scheduler"
Job == "digest"
Actors == Requests \cup {Scheduler, Job}

VARIABLES
  cfg,
  main,      \* where main is
  mapping,   \* hostMapping of the project resolver
  ctx,       \* "live", or "cancelled" by the interrupt
  listener,  \* of the HTTP server
  at,        \* where each actor is
  holder,    \* the actors whose transaction holds a connection
  exit,      \* how the process ended
  faults

vars == <<cfg, main, mapping, ctx, listener, at, holder, exit, faults>>

TypeOK ==
  /\ cfg \in Configs
  /\ main \in {"load", "connect", "migrate", "wire", "start", "wait", "shutdown", "exited"}
  /\ DOMAIN mapping \subseteq HostPorts /\ \A h \in DOMAIN mapping : mapping[h] \in Slugs
  /\ ctx \in {"live", "cancelled"}
  /\ listener \in {"none", "starting", "open", "failed", "closed"}
  /\ at \in [Actors -> {"off", "idle", "reads", "tx", "fetch", "mail", "hung", "stamp"}]
  /\ holder \subseteq Actors
  /\ exit \in {"no", "ok", "error", "deadline", "panic", "interrupt"}
  /\ faults \in 0 .. MaxFaults

Init ==
  /\ cfg \in Configs
  /\ main = "load"
  /\ mapping = [h \in {} |-> NoSlug]
  /\ ctx = "live"
  /\ listener = "none"
  /\ at = [x \in Actors |-> "off"]
  /\ holder = {}
  /\ exit = "no"
  /\ faults = 0

Fault == faults < MaxFaults /\ faults' = faults + 1

\* The end of the process takes every goroutine with it.
Die(how) ==
  /\ main' = "exited" /\ exit' = how
  /\ listener' = "none" /\ at' = [x \in Actors |-> "off"] /\ holder' = {}
  /\ UNCHANGED <<cfg, mapping, ctx>>

Goto(place) ==
  main' = place /\ UNCHANGED <<cfg, ctx, listener, at, holder, exit>>

-----------------------------------------------------------------------------
\* Configuration.

\* Mutant: two projects may declare one host.
ValidateSharing(c) ==
  /\ c.default \in Slugs
  /\ c.digest # "invalid" /\ c.template # "missing"

Validate(c) ==
  /\ c.default \in Slugs
  /\ c.digest # "invalid" /\ c.template # "missing"
  /\ \A p, q \in Slugs : c.hosts[p] = c.hosts[q] => p = q \/ c.hosts[p] = NoHost

\* The environment overrides the file.
Given(c) == IF c.env = {} THEN c.file ELSE c.env

\* Mutant: only a port that is not set has a default.
PortZeroKept(c) == IF Given(c) = {} THEN {DefaultPort} ELSE Given(c)

Port(c) == IF Given(c) \subseteq {0} THEN {DefaultPort} ELSE Given(c)

\* The health check reads the environment and no file.
ResolveHealthCheckPort(c) ==
  IF \E n \in c.env : n > 0 THEN c.env ELSE {DefaultPort}

\* Mutant: a project without a host is entered all the same.
BuildHostMappingOfAll(c) ==
  {f \in [{c.hosts[p] : p \in Slugs} -> Slugs] :
     \A h \in DOMAIN f : c.hosts[f[h]] = h}

\* A host two projects declared would lead to any of them: Go's maps have no order.
BuildHostMapping(c) ==
  LET declared == {c.hosts[p] : p \in Slugs} \ {NoHost} IN
  {f \in [declared -> Slugs] : \A h \in declared : c.hosts[f[h]] = h}

StripPort(host) == <<host[1], 0>>

\* The project of a request, {} when it is refused.
Middleware(header, host) ==
  LET name == StripPort(host)
      slug == IF header # NoSlug THEN header
              ELSE IF name \in DOMAIN mapping THEN mapping[name] ELSE cfg.default
  IN {slug} \cap Slugs

-----------------------------------------------------------------------------
\* main.

Load ==
  /\ main = "load"
  /\ IF Validate(cfg) THEN Goto("connect") ELSE Die("error")
  /\ UNCHANGED <<mapping, faults>>

\* database.New: the scheme chooses the driver, and a ping has to succeed.
Connect ==
  /\ main = "connect"
  /\ \/ cfg.scheme # "other" /\ Goto("migrate") /\ UNCHANGED faults
     \/ cfg.scheme = "other" /\ Die("error") /\ UNCHANGED faults
     \/ cfg.scheme # "other" /\ Die("error") /\ Fault
  /\ UNCHANGED mapping

\* Every start executes every file: IF NOT EXISTS makes the next one a repetition.
Migrate ==
  /\ main = "migrate"
  /\ \/ Goto("wire") /\ UNCHANGED faults
     \/ Die("error") /\ Fault
  /\ UNCHANGED mapping

\* The project resolver, and the notifier, which parses the templates.
Wire ==
  /\ main = "wire"
  /\ UNCHANGED faults
  /\ \/ /\ cfg.smtp /\ cfg.template = "broken"
        /\ Die("error")
     \/ /\ ~(cfg.smtp /\ cfg.template = "broken")
        /\ mapping' \in BuildHostMapping(cfg)
        /\ Goto("start")

\* waitlist.Start, StartDigest and the HTTP server.  main hands StartDigest a nil
\* pointer when there is no notifier; in an interface it is not nil, so that the
\* test for it never disables the digest.
Start ==
  /\ main = "start"
  /\ main' = "wait"
  /\ listener' = "starting"
  /\ at' = [at EXCEPT ![Scheduler] = IF cfg.disabled THEN "off" ELSE "idle",
                      ![Job] = IF cfg.digest = "none" THEN "off" ELSE "idle"]
  /\ UNCHANGED <<cfg, mapping, ctx, holder, exit, faults>>

\* The goroutine of ListenAndServe.  An error is logged, and main waits on.
Listen ==
  /\ listener = "starting"
  /\ \/ main = "shutdown" /\ listener' = "closed" /\ UNCHANGED faults
     \/ main # "shutdown" /\ Port(cfg) \subseteq Nat /\ listener' = "open" /\ UNCHANGED faults
     \/ main # "shutdown" /\ ~(Port(cfg) \subseteq Nat) /\ listener' = "failed" /\ UNCHANGED faults
     \/ main # "shutdown" /\ listener' = "failed" /\ Fault
  /\ UNCHANGED <<cfg, main, mapping, ctx, at, holder, exit>>

\* Before NotifyContext and after stop an interrupt ends the process at once.
Interrupt ==
  /\ main # "exited"
  /\ IF main \in {"load", "shutdown"} THEN Die("interrupt")
     ELSE /\ ctx' = "cancelled"
          /\ UNCHANGED <<cfg, main, mapping, listener, at, holder, exit>>
  /\ UNCHANGED faults

Shutdown ==
  /\ main = "wait" /\ ctx = "cancelled"
  /\ main' = "shutdown"
  /\ listener' = IF listener = "open" THEN "closed" ELSE listener
  /\ UNCHANGED <<cfg, mapping, ctx, at, holder, exit, faults>>

InFlight == {q \in Requests : at[q] # "off"}

ShutdownReturns ==
  /\ main = "shutdown" /\ InFlight = {}
  /\ Die("ok")
  /\ UNCHANGED faults

\* Mutant: Shutdown with a context that has no deadline.
DeadlinePassesNever == FALSE

\* After 5 seconds Shutdown returns an error, and main panics.
DeadlinePasses ==
  /\ main = "shutdown" /\ InFlight # {}
  /\ Die("deadline")
  /\ UNCHANGED faults

-----------------------------------------------------------------------------
\* The actors.

ActorsMove == UNCHANGED <<cfg, main, mapping, ctx, listener, exit>>

Rest(x) == IF x \in Requests THEN "off" ELSE "idle"

\* A request that passes the middleware; a probe has none.  A request that is
\* refused, for its project, path or credentials, changes nothing.
Arrive(q) ==
  /\ listener = "open"
  /\ at[q] = "off"
  /\ q \in SignUps => \E header \in Slugs \cup Strangers \cup {NoSlug}, host \in HostPorts :
                        Middleware(header, host) # {}
  /\ q \in Grants => cfg.admin
  /\ at' = [at EXCEPT ![q] = "reads"]
  /\ UNCHANGED <<holder, faults>> /\ ActorsMove

\* The ticker of the scheduler, or cron.
Fire(x) ==
  /\ x \in {Scheduler, Job}
  /\ at[x] = "idle"
  /\ at' = [at EXCEPT ![x] = "reads"]
  /\ UNCHANGED <<holder, faults>> /\ ActorsMove

\* SQLite has one connection, which a transaction keeps.
Connection == cfg.scheme = "sqlite" => holder = {}

\* Reads, and BeginTx where there is something to write.
Begin(x) ==
  /\ at[x] = "reads" /\ Connection
  /\ x \in SignUps \cup Grants \cup {Scheduler}
  /\ at' = [at EXCEPT ![x] = "tx"]
  /\ holder' = holder \cup {x}
  /\ UNCHANGED faults /\ ActorsMove

\* Nothing to write; for a probe, the answer to its ping.
Nothing(x) ==
  /\ at[x] = "reads" /\ Connection
  /\ at' = [at EXCEPT ![x] = Rest(x)]
  /\ UNCHANGED <<holder, faults>> /\ ActorsMove

Mails(x) == cfg.smtp /\ x \in Grants \cup {Scheduler}

\* Who reads the users again after the commit: an admin's request in any case, for its
\* answer, the scheduler only for its mails.
Fetches(x) == x \in Grants \/ Mails(x)

\* Mutant: the users are read before the commit, with a connection of the pool.
CommitAfterFetch(x) ==
  /\ at[x] = "tx"
  /\ at' = [at EXCEPT ![x] = IF Fetches(x) THEN "fetch" ELSE Rest(x)]
  /\ holder' = IF Fetches(x) THEN holder ELSE holder \ {x}
  /\ UNCHANGED faults /\ ActorsMove

Commit(x) ==
  /\ at[x] = "tx"
  /\ at' = [at EXCEPT ![x] = IF Fetches(x) THEN "fetch" ELSE Rest(x)]
  /\ holder' = holder \ {x}
  /\ UNCHANGED faults /\ ActorsMove

\* Mutant: the mail in a transaction.
FetchInTx(x) ==
  /\ at[x] = "fetch" /\ Connection
  /\ at' = [at EXCEPT ![x] = IF Mails(x) THEN "mail" ELSE Rest(x)]
  /\ holder' = IF Mails(x) THEN holder \cup {x} ELSE holder
  /\ UNCHANGED faults /\ ActorsMove

\* It takes a connection once more, which others may have in the meantime.
Fetch(x) ==
  /\ at[x] = "fetch" /\ Connection
  /\ at' = [at EXCEPT ![x] = IF Mails(x) THEN "mail" ELSE Rest(x)]
  /\ UNCHANGED <<holder, faults>> /\ ActorsMove

\* A digest with something to tell.  Without a notifier SendDigest dereferences the
\* nil pointer, in a goroutine of cron, which does not recover.
Activity ==
  /\ at[Job] = "reads" /\ Connection
  /\ IF cfg.smtp
     THEN at' = [at EXCEPT ![Job] = "mail"] /\ UNCHANGED holder /\ ActorsMove
     ELSE Die("panic")
  /\ UNCHANGED faults

\* The mail dialogue ends, well or not.
Mailed(x) ==
  /\ at[x] \in {"mail", "hung"}
  /\ at' = [at EXCEPT ![x] = IF x = Job THEN "stamp" ELSE Rest(x)]
  /\ holder' = holder \ {x}
  /\ UNCHANGED faults /\ ActorsMove

\* It has no deadline but the one of its dial.
Hangs(x) ==
  /\ at[x] = "mail"
  /\ at' = [at EXCEPT ![x] = "hung"]
  /\ Fault
  /\ UNCHANGED holder /\ ActorsMove

Stamp ==
  /\ at[Job] = "stamp" /\ Connection
  /\ at' = [at EXCEPT ![Job] = "idle"]
  /\ UNCHANGED <<holder, faults>> /\ ActorsMove

\* A statement fails: its context is cancelled, the two seconds of a ping are over,
\* or the database is at fault.  The transaction is rolled back.
Fails(x) ==
  /\ at[x] \in {"reads", "tx", "fetch", "stamp"}
  /\ \/ (ctx = "cancelled" \/ x \in Probes) /\ UNCHANGED faults
     \/ ctx = "live" /\ x \notin Probes /\ Fault
  /\ at' = [at EXCEPT ![x] = Rest(x)]
  /\ holder' = holder \ {x}
  /\ ActorsMove

\* The scheduler's select sees the context; cron is stopped.
Stop(x) ==
  /\ x \in {Scheduler, Job}
  /\ ctx = "cancelled" /\ at[x] = "idle"
  /\ at' = [at EXCEPT ![x] = "off"]
  /\ UNCHANGED <<holder, faults>> /\ ActorsMove

Terminated == main = "exited" /\ UNCHANGED vars

MainStep ==
  Load \/ Connect \/ Migrate \/ Wire \/ Start \/ Listen \/ Shutdown \/ ShutdownReturns

\* What an actor does for itself, unless a mail hangs.
Advance(x) ==
  \/ Begin(x) \/ Nothing(x) \/ Commit(x) \/ Fetch(x)
  \/ at[x] = "mail" /\ Mailed(x)
  \/ x = Job /\ (Activity \/ Stamp)

Next ==
  \/ MainStep \/ DeadlinePasses \/ Interrupt
  \/ \E x \in Actors : \/ x \in Requests /\ Arrive(x)
                       \/ Fire(x) \/ Advance(x) \/ Mailed(x) \/ Hangs(x) \/ Fails(x) \/ Stop(x)
  \/ Terminated

Spec == Init /\ [][Next]_vars

\* The database answers, database/sql hands out its connection in the order of the
\* requests for it, a deadline passes, and a mail dialogue that does not hang ends.
Fairness ==
  /\ WF_vars(MainStep) /\ WF_vars(DeadlinePasses)
  /\ \A x \in Actors : SF_vars(Advance(x))

FairSpec == Spec /\ Fairness

-----------------------------------------------------------------------------
\* Properties.

\* Once the server listens, every request without a header has a project, and one
\* for the host a project declares has that project.  (A host declared with a port
\* matches no request: the port is stripped from what is looked up.)
ReachesItsProject ==
  listener = "open" =>
    \A host \in HostPorts :
      /\ Middleware(NoSlug, host) # {}
      /\ \A p \in Slugs : cfg.hosts[p] = StripPort(host) => Middleware(NoSlug, host) = {p}

\* The health check asks at the port the server listens on, unless that port stands
\* in the file only.
ProbeFindsServer ==
  listener = "open" /\ ~(cfg.env = {} /\ cfg.file \notin {{}, {0}}) =>
    ResolveHealthCheckPort(cfg) = Port(cfg)

\* A mail is sent outside of every transaction: whoever waits for the mail server, for
\* ever perhaps, keeps no connection to the database from the others.
MailsHoldNoConnection == \A x \in holder : at[x] \notin {"mail", "hung"}

\* After an interrupt the process ends, even when a mail dialogue never does.
ShutdownCompletes == ctx = "cancelled" ~> main = "exited"

\* Whoever has work to do with the database and the mail server gets to its end,
\* whatever the others wait for, unless its own mail dialogue hangs.
NobodyWaitsForOthers ==
  \A x \in Actors : at[x] \notin {"off", "idle"} ~> at[x] \in {"off", "idle", "hung"}

\* The shutdown drains the requests in flight: a grant in its transaction gets to its
\* commit, unless a fault or the end of the process comes first.
ShutdownDrains ==
  [][\A q \in Grants :
       main = "shutdown" /\ main' = main /\ at[q] = "tx" /\ UNCHANGED faults => at'[q] # "off"]_vars

\* Without SMTP there is no digest, and so none that could do harm.
NoDigestWithoutSmtp == cfg.smtp \/ exit # "panic"
=============================================================================
