\* Every configuration of MCServer; one request of each kind beside the scheduler and
\* the digest job.
CONSTANTS
  Slugs = {shop, club}
  Strangers = {other}
  NoSlug = NoSlug
  Names = {host}
  Configs <- AllConfigs
  DefaultPort = 8080
  SignUps = {signup}
  Grants = {grant}
  Probes = {probe}
  MaxFaults = 2
SPECIFICATION FairSpec
INVARIANTS TypeOK ReachesItsProject ProbeFindsServer MailsHoldNoConnection
PROPERTIES ShutdownCompletes NobodyWaitsForOthers
