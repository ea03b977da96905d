\* A server with everything configured, or everything but one; one request of each kind
\* beside the scheduler and the digest job.
CONSTANTS
  Slugs = {shop, club}
  Strangers = {other}
  NoSlug = NoSlug
  Names = {host}
  Configs <- Running
  DefaultPort = 8080
  SignUps = {signup}
  Grants = {grant}
  Probes = {probe}
  MaxFaults = 1
SPECIFICATION Spec
PROPERTY ShutdownDrains
