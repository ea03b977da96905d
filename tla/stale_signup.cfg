\* PostgreSQL: a sign-up beside a grant or a batch.
CONSTANTS
  Projects = {shop}
  Emails = {ann}
  Clients = {c1}
  Admins = {adm}
  Schedulers = {s1}
  Serialized = FALSE
  AgeCap = 2
  MaxEntries = 2
  MaxFaults = 0
  Batch <- BatchOfOne
  Window <- LongWindow
  Disabled = {}
SPECIFICATION Spec
PROPERTY NoEnlistWithAccess
