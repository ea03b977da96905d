\* Two accounts, pages of one row, two requests at a time for a table and two
\* confirmed dialogs.  A page with nothing under way waits for its user, whose clicks
\* are bounded: it may stop.
CONSTANTS
  Accounts = {ann, bob}
  Shop = Shop
  ProjectOf <- OneProject
  Searches <- Everybody
  AllProjects = AllProjects
  DefaultLimit = 1
  MaxLimit = 2
  MaxEntries = 2
  Limits = {1, 2}
  MaxMoves = 2
  MaxDialogs = 3
  MaxOthers = 3
  MaxLoads = 2
  MaxPosts = 2
SPECIFICATION Spec
SYMMETRY AccountSymmetry
INVARIANTS TypeOK FullStateComplete ShownIsAsked
PROPERTY ClosedMeansDone
CHECK_DEADLOCK FALSE
