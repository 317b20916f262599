SPECIFICATION Spec
CONSTANTS
  Inodes <- mcInodes
  Names = {a, b}
  data_block_start = 6
  total_blocks = 15
  Bits = 16
  NDIRECT = 1
  NINDIR = 2
  Slots = 2
  Handles = {h}
  Writes <- mcWrites
  MaxLinks = 2
  Stale = FALSE
  Tasks = {"p", "q"}
  EntryNames = {"a", "b"}
  Paths <- mcPaths
  MAX_INODES = 7
INVARIANT BlocksOwnedOnce
CHECK_DEADLOCK FALSE
