\* SQLite: one connection for two sign-ups, an admin request and one scheduler, with
\* the accounts of one person in two projects, one of them with its scheduler disabled.
CONSTANTS
  Projects = {shop, club}
  Emails = {ann}
  Clients = {c1, c2}
  Admins = {adm}
  Schedulers = {s1}
  Serialized = TRUE
  AgeCap = 2
  MaxEntries = 2
  MaxFaults = 0
  Batch <- BatchOfOne
  Window <- ShortWindow
  Disabled = {club}
SPECIFICATION Spec
SYMMETRY ClientSymmetry
INVARIANT NoSpuriousError
PROPERTIES NoEnlistWithAccess Admission KeepsPromise
