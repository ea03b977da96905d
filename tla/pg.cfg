\* PostgreSQL: one account, two sign-ups, an admin request and one scheduler.
CONSTANTS
  Projects = {shop}
  Emails = {ann}
  Clients = {c1, c2}
  Admins = {adm}
  Schedulers = {s1}
  Serialized = FALSE
  AgeCap = 2
  MaxEntries = 2
  MaxFaults = 1
  Batch <- BatchOfOne
  Window <- LongWindow
  Disabled = {}
SPECIFICATION Spec
SYMMETRY ClientSymmetry
INVARIANTS TypeOK AuditTrail EntryHasUser NoticeAfterGrant OnlyGrantsAndBatchesDeadlock
PROPERTIES NoLostApplicant OnlyRevokeTakesAccess CooldownRespected KeepsPromise
