\* SQLite: three accounts compete for batches of two.
CONSTANTS
  Projects = {shop}
  Emails = {ann, bob, cat}
  Clients = {c1}
  Admins = {adm}
  Schedulers = {s1}
  Serialized = TRUE
  AgeCap = 2
  MaxEntries = 3
  MaxFaults = 0
  Batch <- BatchOfTwo
  Window <- ShortWindow
  Disabled = {}
SPECIFICATION Spec
SYMMETRY Symmetry
PROPERTIES NoOvertaking Admission KeepsPromise
