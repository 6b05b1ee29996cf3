SPECIFICATION FairSpec
CONSTANTS
  t2 = t2
  t1 = t1
  Threads = {t1, t2}
  Backlog = 2
  Modes = {TRUE, FALSE}
  Serialised = TRUE
  Windows = FALSE
INVARIANTS
  TypeOK
  ModeRestored
  NeverWaits
PROPERTIES
  KeepsPromise
  CallsReturn
