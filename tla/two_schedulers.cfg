\* PostgreSQL shared by two servers, each with its scheduler.
CONSTANTS
  Projects = {shop}
  Emails = {ann}
  Clients = {c1}
  Admins = {adm}
  Schedulers = {s1, s2}
  Serialized = FALSE
  AgeCap = 2
  MaxEntries = 2
  MaxFaults = 0
  Batch <- BatchOfOne
  Window <- LongWindow
  Disabled = {}
SPECIFICATION Spec
PROPERTY CooldownRespected
