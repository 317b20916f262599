SPECIFICATION Spec
CONSTANTS
  Threads = {a, b, c}
  Killable = {c}
  KillSleeping = FALSE
  Buckets = {1}
  Bucket <- mcBucket
  Timeout = 3
  Wrap = 2
  None = None
INVARIANTS SleepersLinked LockCountsOwners
PROPERTIES SleepEnds
CHECK_DEADLOCK FALSE
