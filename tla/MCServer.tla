------------------------------ MODULE MCServer ------------------------------
(* Configurations of module Server for TLC. *)
EXTENDS Server

Plain ==
  [hosts |-> [p \in Slugs |-> NoHost], default |-> CHOOSE p \in Slugs : TRUE,
   file |-> {}, env |-> {}, scheme |-> "sqlite", template |-> "builtin",
   digest |-> "scheduled", smtp |-> TRUE, admin |-> TRUE, disabled |-> FALSE]

\* Hosts and default project, ports, and what start-up may refuse, each with the
\* least that can then run.
Quiet == [Plain EXCEPT !.digest = "none", !.disabled = TRUE, !.admin = FALSE]
Resolution ==
  {[Quiet EXCEPT !.hosts = h, !.default = d] :
     h \in [Slugs -> HostPorts \cup {NoHost}], d \in Slugs \cup Strangers}
Listening ==
  {[Quiet EXCEPT !.file = f, !.env = e] :
     f \in {{}, {0}, {9090}}, e \in {{}, {-1}, {0}, {8081}}}
Refused ==
  {[Quiet EXCEPT !.scheme = s, !.template = t, !.digest = d, !.smtp = m] :
     s \in {"sqlite", "other"}, t \in {"builtin", "missing", "broken"},
     d \in {"none", "invalid"}, m \in BOOLEAN}
\* What runs: everything, or everything but one.
Running ==
  {[Plain EXCEPT !.scheme = s, !.smtp = m] : s \in {"postgres", "sqlite"}, m \in BOOLEAN}
    \cup {[Plain EXCEPT !.admin = FALSE], [Plain EXCEPT !.disabled = TRUE]}
AllConfigs == Resolution \cup Listening \cup Refused \cup Running
=============================================================================
