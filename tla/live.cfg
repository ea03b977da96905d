\* PostgreSQL under fairness: two accounts, batches of one.
CONSTANTS
  Projects = {shop}
  Emails = {ann, bob}
  Clients = {c1}
  Admins = {adm}
  Schedulers = {s1}
  Serialized = FALSE
  AgeCap = 1
  MaxEntries = 2
  MaxFaults = 1
  Batch <- BatchOfOne
  Window <- ShortWindow
  Disabled = {}
SPECIFICATION FairSpec
PROPERTIES EverybodyLeaves EverybodyTold
