\* SQLite: admin requests between the read of a batch and its transaction.
CONSTANTS
  Projects = {shop}
  Emails = {ann}
  Clients = {c1}
  Admins = {adm}
  Schedulers = {s1}
  Serialized = TRUE
  AgeCap = 2
  MaxEntries = 2
  MaxFaults = 0
  Batch <- BatchOfOne
  Window <- LongWindow
  Disabled = {}
SPECIFICATION Spec
PROPERTY NoSilentRegrant
