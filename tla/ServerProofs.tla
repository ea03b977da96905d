------------------------------ MODULE ServerProofs ------------------------------
(***************************************************************************)
(* Proofs about the server: the project of a request, and the port of the  *)
(* health check, for every configuration; the types; and who holds a       *)
(* connection.                                                             *)
(***************************************************************************)
EXTENDS Server, TLAPS

\* What main has established by the time it gets to a place: Load comes before
\* everything else, Wire before Start, and only Start lets the listener begin.  None
\* of it changes afterwards.
Started ==
  /\ cfg \in Configs
  /\ main \notin {"load", "exited"} => Validate(cfg)
  /\ main \in {"start", "wait", "shutdown"} => mapping \in BuildHostMapping(cfg)
  /\ listener # "none" => main \in {"wait", "shutdown"}
  /\ listener = "open" => Port(cfg) \subseteq Nat

LEMMA StartedInit == Init => Started
BY DEF Init, Started

\* The end of the process.
LEMMA StartedDie ==
  ASSUME Started, NEW how, Die(how)
  PROVE  Started'
BY DEF Started, Die

\* What leaves main, its configuration and the listener alone.
LEMMA StartedQuiet ==
  ASSUME Started, UNCHANGED <<cfg, main, mapping, listener>>
  PROVE  Started'
BY DEF Started

\* Between the first and the last place no step back: the start of main.
LEMMA StartedMain ==
  ASSUME Started, MainStep
  PROVE  Started'
<1>1. CASE Load
  <2>1. CASE Validate(cfg) /\ Goto("connect") /\ UNCHANGED mapping
    BY <1>1, <2>1 DEF Started, Load, Goto
  <2>2. CASE Die("error")
    BY <2>2, StartedDie
  <2> QED
    BY <1>1, <2>1, <2>2 DEF Load
<1>2. CASE Connect
  <2>1. CASE Goto("migrate")
    BY <1>2, <2>1 DEF Started, Connect, Goto
  <2> QED
    BY <1>2, <2>1, StartedDie DEF Connect
<1>3. CASE Migrate
  <2>1. CASE Goto("wire")
    BY <1>3, <2>1 DEF Started, Migrate, Goto
  <2> QED
    BY <1>3, <2>1, StartedDie DEF Migrate
<1>4. CASE Wire
  <2>1. CASE mapping' \in BuildHostMapping(cfg) /\ Goto("start")
    <3>1. BuildHostMapping(cfg)' = BuildHostMapping(cfg) /\ cfg' = cfg
      BY <2>1 DEF Goto, BuildHostMapping
    <3> QED
      BY <1>4, <2>1, <3>1 DEF Started, Wire, Goto
  <2> QED
    BY <1>4, <2>1, StartedDie DEF Wire
<1>5. CASE Start
  BY <1>5 DEF Started, Start
<1>6. CASE Listen
  BY <1>6 DEF Started, Listen
<1>7. CASE Shutdown
  BY <1>7 DEF Started, Shutdown
<1>8. CASE ShutdownReturns
  BY <1>8, StartedDie DEF ShutdownReturns
<1> QED
  BY <1>1, <1>2, <1>3, <1>4, <1>5, <1>6, <1>7, <1>8 DEF MainStep

LEMMA StartedNext == Started /\ [Next]_vars => Started'
<1> SUFFICES ASSUME Started, [Next]_vars PROVE Started'
  OBVIOUS
<1>1. CASE MainStep
  BY <1>1, StartedMain
<1>2. CASE DeadlinePasses
  BY <1>2, StartedDie DEF DeadlinePasses
<1>3. CASE Interrupt
  BY <1>3, StartedDie, StartedQuiet DEF Interrupt
<1>4. ASSUME NEW x \in Actors,
             \/ x \in Requests /\ Arrive(x)
             \/ Fire(x) \/ Advance(x) \/ Mailed(x) \/ Hangs(x) \/ Fails(x) \/ Stop(x)
      PROVE  Started'
  <2>1. CASE Activity
    BY <2>1, StartedDie, StartedQuiet DEF Activity, ActorsMove
  <2>2. CASE ActorsMove
    BY <2>2, StartedQuiet DEF ActorsMove
  <2> QED
    BY <1>4, <2>1, <2>2
    DEF Arrive, Fire, Advance, Begin, Nothing, Commit, Fetch, Stamp, Mailed, Hangs, Fails, Stop
<1>5. CASE UNCHANGED vars
  BY <1>5, StartedQuiet DEF vars
<1> QED
  BY <1>1, <1>2, <1>3, <1>4, <1>5 DEF Next, Terminated

\* For any projects, hosts and default project: a server that listens has a project
\* for every request without a header, and the right one for the host a project
\* declares.  Validate refuses a default that is not defined and a host that two
\* projects declare; without either of these it would not hold.
THEOREM RequestsReachTheirProject == Spec => []ReachesItsProject
<1>1. Started => ReachesItsProject
  <2> SUFFICES ASSUME Started, listener = "open", NEW host \in HostPorts
               PROVE  /\ Middleware(NoSlug, host) # {}
                      /\ \A p \in Slugs : cfg.hosts[p] = StripPort(host) =>
                           Middleware(NoSlug, host) = {p}
    BY DEF ReachesItsProject
  <2>1. Validate(cfg) /\ mapping \in BuildHostMapping(cfg)
    BY DEF Started
  <2> DEFINE name == StripPort(host)
             declared == {cfg.hosts[p] : p \in Slugs} \ {NoHost}
  <2>2. /\ mapping \in [declared -> Slugs]
        /\ \A h \in declared : cfg.hosts[mapping[h]] = h
    BY <2>1 DEF BuildHostMapping
  <2>3. CASE name \in declared
    <3>1. mapping[name] \in Slugs /\ cfg.hosts[mapping[name]] = name /\ name # NoHost
      BY <2>2, <2>3
    <3>2. Middleware(NoSlug, host) = {mapping[name]}
      BY <2>2, <2>3, <3>1 DEF Middleware
    <3>3. ASSUME NEW p \in Slugs, cfg.hosts[p] = name
          PROVE  p = mapping[name]
      BY <2>1, <3>1, <3>3 DEF Validate
    <3> QED
      BY <3>2, <3>3
  <2>4. CASE name \notin declared
    <3>1. cfg.default \in Slugs
      BY <2>1 DEF Validate
    <3>2. Middleware(NoSlug, host) = {cfg.default}
      BY <2>2, <2>4, <3>1 DEF Middleware
    <3>3. name # NoHost
      BY DEF StripPort, NoHost
    <3>4. \A p \in Slugs : cfg.hosts[p] # name
      BY <2>4, <3>3
    <3> QED
      BY <3>2, <3>4
  <2> QED
    BY <2>3, <2>4
<1> QED
  BY <1>1, StartedInit, StartedNext, PTL DEF Spec

\* For any settings of the port in file and environment, also zero and negative ones:
\* if the server listens at all, the health check resolves the same port, unless it
\* stands in the file only.
THEOREM ProbeUsesThePort == Spec => []ProbeFindsServer
<1>1. Started => ProbeFindsServer
  <2> SUFFICES ASSUME Started, listener = "open", ~(cfg.env = {} /\ cfg.file \notin {{}, {0}})
               PROVE  ResolveHealthCheckPort(cfg) = Port(cfg)
    BY DEF ProbeFindsServer
  <2>1. Port(cfg) \subseteq Nat
    BY DEF Started
  <2>2. CASE cfg.env = {}
    BY <2>2 DEF ResolveHealthCheckPort, Port, Given
  <2>3. CASE cfg.env # {} /\ cfg.env \subseteq {0}
    BY <2>3 DEF ResolveHealthCheckPort, Port, Given
  <2>4. CASE ~(cfg.env \subseteq {0})
    <3>1. Port(cfg) = cfg.env
      BY <2>4 DEF Port, Given
    <3>2. \E n \in cfg.env : n > 0
      BY <2>1, <2>4, <3>1
    <3> QED
      BY <3>1, <3>2 DEF ResolveHealthCheckPort
  <2> QED
    BY <2>2, <2>3, <2>4
<1> QED
  BY <1>1, StartedInit, StartedNext, PTL DEF Spec

-----------------------------------------------------------------------------
(* The actors *)

\* An actor has a connection of its own exactly as long as its transaction is open;
\* there are no actors before main waits, nor after the end.
ServerInv ==
  /\ TypeOK
  /\ holder = {x \in Actors : at[x] = "tx"}
  /\ main \notin {"wait", "shutdown"} => \A x \in Actors : at[x] = "off"
  /\ listener # "none" => main \in {"wait", "shutdown"}

LEMMA InvInit == Init => ServerInv
BY ServerAssumption DEF Init, ServerInv, TypeOK

LEMMA InvDie ==
  ASSUME ServerInv, NEW how \in {"ok", "error", "deadline", "panic", "interrupt"}, Die(how),
         faults' \in 0 .. MaxFaults
  PROVE  ServerInv'
BY DEF ServerInv, TypeOK, Die

LEMMA FaultTyped ==
  ASSUME TypeOK, UNCHANGED faults \/ Fault
  PROVE  faults' \in 0 .. MaxFaults
BY ServerAssumption DEF TypeOK, Fault

\* The map of a configuration: from host names to projects that are defined.
LEMMA MappingTyped ==
  ASSUME NEW c \in Configs, NEW f \in BuildHostMapping(c)
  PROVE  DOMAIN f \subseteq HostPorts /\ \A h \in DOMAIN f : f[h] \in Slugs
<1>1. c.hosts \in [Slugs -> HostPorts \cup {NoHost}]
  BY ServerAssumption DEF Config
<1> QED
  BY <1>1 DEF BuildHostMapping

LEMMA InvMain ==
  ASSUME ServerInv, MainStep
  PROVE  ServerInv'
<1>1. faults' \in 0 .. MaxFaults
  <2>1. UNCHANGED faults \/ Fault
    BY DEF MainStep, Load, Connect, Migrate, Wire, Start, Listen, Shutdown, ShutdownReturns
  <2> QED
    BY <2>1, FaultTyped DEF ServerInv
<1>2. ASSUME NEW how \in {"ok", "error"}, Die(how)
      PROVE  ServerInv'
  BY <1>1, <1>2, InvDie
<1>3. ASSUME main \in {"load", "connect", "migrate", "wire"},
             NEW place \in {"connect", "migrate", "wire", "start"}, Goto(place),
             UNCHANGED mapping \/ mapping' \in BuildHostMapping(cfg)
      PROVE  ServerInv'
  <2>1. DOMAIN mapping' \subseteq HostPorts /\ \A h \in DOMAIN mapping' : mapping'[h] \in Slugs
    BY <1>3, MappingTyped DEF ServerInv, TypeOK
  <2> QED
    BY <1>1, <1>3, <2>1 DEF ServerInv, TypeOK, Goto
<1>4. CASE Load \/ Connect \/ Migrate \/ Wire
  BY <1>2, <1>3, <1>4 DEF Load, Connect, Migrate, Wire
<1>5. CASE Start
  <2>1. at' \in [Actors -> {"off", "idle"}] /\ holder = {}
    BY <1>5 DEF Start, ServerInv, TypeOK, Actors
  <2> QED
    BY <1>1, <1>5, <2>1 DEF Start, ServerInv, TypeOK
<1>6. CASE Listen
  BY <1>1, <1>6 DEF Listen, ServerInv, TypeOK
<1>7. CASE Shutdown
  BY <1>1, <1>7 DEF Shutdown, ServerInv, TypeOK
<1>8. CASE ShutdownReturns
  BY <1>2, <1>8 DEF ShutdownReturns
<1> QED
  BY <1>4, <1>5, <1>6, <1>7, <1>8 DEF MainStep

\* An actor goes to a place, and the transaction it may have is over, or begins.
LEMMA InvActor ==
  ASSUME ServerInv, ActorsMove, NEW x \in Actors, main \in {"wait", "shutdown"},
         NEW place \in {"off", "idle", "reads", "tx", "fetch", "mail", "hung", "stamp"},
         at' = [at EXCEPT ![x] = place],
         holder' = IF place = "tx" THEN holder \cup {x} ELSE holder \ {x},
         UNCHANGED faults \/ Fault
  PROVE  ServerInv'
<1>1. faults' \in 0 .. MaxFaults
  BY FaultTyped DEF ServerInv
<1> QED
  BY <1>1 DEF ServerInv, TypeOK, ActorsMove

LEMMA InvActs ==
  ASSUME ServerInv, NEW x \in Actors,
         \/ x \in Requests /\ Arrive(x)
         \/ Fire(x) \/ Advance(x) \/ Mailed(x) \/ Hangs(x) \/ Fails(x) \/ Stop(x)
  PROVE  ServerInv'
<1> DEFINE Goes(place) ==
      /\ at' = [at EXCEPT ![x] = place]
      /\ holder' = IF place = "tx" THEN holder \cup {x} ELSE holder \ {x}
<1>1. Rest(x) \in {"off", "idle"}
  BY DEF Rest
<1>2. ASSUME at[x] # "tx", UNCHANGED holder
      PROVE  holder' = holder \ {x}
  BY <1>2 DEF ServerInv
<1>3. CASE x = Job /\ Activity /\ ~cfg.smtp
  <2>1. faults' \in 0 .. MaxFaults
    BY <1>3 DEF Activity, ServerInv, TypeOK
  <2> QED
    BY <1>3, <2>1, InvDie DEF Activity
<1>4. CASE ActorsMove /\ (UNCHANGED faults \/ Fault) /\ (at[x] # "off" \/ listener = "open")
           /\ \E place \in {"off", "idle", "reads", "tx", "fetch", "mail", "hung", "stamp"} : Goes(place)
  <2>1. main \in {"wait", "shutdown"}
    BY <1>4 DEF ServerInv
  <2> QED
    BY <1>4, <2>1, InvActor
<1>5. CASE x \in Requests /\ Arrive(x)
  BY <1>2, <1>4, <1>5 DEF Arrive
<1>6. CASE Fire(x)
  BY <1>2, <1>4, <1>6 DEF Fire
<1>7. CASE Begin(x)
  BY <1>4, <1>7 DEF Begin
<1>8. CASE Nothing(x)
  BY <1>1, <1>2, <1>4, <1>8 DEF Nothing
<1>9. CASE Commit(x)
  BY <1>1, <1>4, <1>9 DEF Commit
<1>10. CASE Mailed(x)
  BY <1>1, <1>4, <1>10 DEF Mailed
<1>11. CASE x = Job /\ Activity /\ cfg.smtp
  BY <1>2, <1>4, <1>11 DEF Activity
<1>12. CASE x = Job /\ Stamp
  BY <1>2, <1>4, <1>12 DEF Stamp
<1>13. CASE Hangs(x)
  BY <1>2, <1>4, <1>13 DEF Hangs
<1>14. CASE Fails(x)
  BY <1>1, <1>4, <1>14 DEF Fails
<1>15. CASE Stop(x)
  BY <1>2, <1>4, <1>15 DEF Stop
<1>16. CASE Fetch(x)
  BY <1>1, <1>2, <1>4, <1>16 DEF Fetch
<1> QED
  BY <1>3, <1>5, <1>6, <1>7, <1>8, <1>9, <1>10, <1>11, <1>12, <1>13, <1>14, <1>15, <1>16
  DEF Advance

LEMMA InvNext == ServerInv /\ [Next]_vars => ServerInv'
<1> SUFFICES ASSUME ServerInv, [Next]_vars PROVE ServerInv'
  OBVIOUS
<1>1. CASE MainStep
  BY <1>1, InvMain
<1>2. CASE DeadlinePasses
  <2>1. faults' \in 0 .. MaxFaults
    BY <1>2 DEF DeadlinePasses, ServerInv, TypeOK
  <2> QED
    BY <1>2, <2>1, InvDie DEF DeadlinePasses
<1>3. CASE Interrupt
  <2>1. faults' \in 0 .. MaxFaults
    BY <1>3 DEF Interrupt, ServerInv, TypeOK
  <2>2. CASE Die("interrupt")
    BY <2>1, <2>2, InvDie
  <2>3. CASE ctx' = "cancelled" /\ UNCHANGED <<cfg, main, mapping, listener, at, holder, exit>>
    BY <2>1, <2>3 DEF ServerInv, TypeOK
  <2> QED
    BY <1>3, <2>2, <2>3 DEF Interrupt
<1>4. CASE \E x \in Actors :
             \/ x \in Requests /\ Arrive(x)
             \/ Fire(x) \/ Advance(x) \/ Mailed(x) \/ Hangs(x) \/ Fails(x) \/ Stop(x)
  BY <1>4, InvActs
<1>5. CASE UNCHANGED vars
  BY <1>5 DEF vars, ServerInv, TypeOK
<1> QED
  BY <1>1, <1>2, <1>3, <1>4, <1>5 DEF Next, Terminated

\* Type correctness, for any configurations, requests and faults.
THEOREM ServerTypeCorrect == Spec => []TypeOK
<1>1. ServerInv => TypeOK
  BY DEF ServerInv
<1> QED
  BY <1>1, InvInit, InvNext, PTL DEF Spec

\* Nobody waits for the mail server with a connection in his hands: a mail that hangs
\* keeps the one connection of SQLite from nobody, for any number of requests.
THEOREM MailsAreOutsideTransactions == Spec => []MailsHoldNoConnection
<1>1. ServerInv => MailsHoldNoConnection
  BY DEF ServerInv, MailsHoldNoConnection
<1> QED
  BY <1>1, InvInit, InvNext, PTL DEF Spec
=============================================================================
