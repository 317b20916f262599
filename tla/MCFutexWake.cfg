SPECIFICATION Spec
CONSTANTS
  Threads = {a, b, c}
  Killable = {c}
  KillSleeping = FALSE
  Buckets = {1}
  Bucket <- mcBucket
  Timeout = 3
  Wrap = 2
  None = None
PROPERTIES WakeReaches
CHECK_DEADLOCK FALSE
