SPECIFICATION FairSpec
CONSTANTS
  Schedulers = {s1}  Handlers = {h1, h2}  Workers = {w1, w2}
  NONE = NONE  MaxJobs = 3
INVARIANTS NoCircularWait NoRace ReadyWhenUsed
PROPERTY LockIsGranted
CHECK_DEADLOCK FALSE
