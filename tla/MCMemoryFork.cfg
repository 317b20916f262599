SPECIFICATION Spec
CONSTANTS
  MAX_PAGES = 8
  MAX_ORDER = 3
  MemoryMap <- mcMemoryMap
  LowPages = 1
  KernelStart = 2
  KernelEnd = 3
  Repeats = FALSE
  Caches = {c1, c2}
  objects_per_slab <- mcObjects
  MAX_OBJECTS = 4
  Frames = {1, 2, 3, 4, 5, 6, 7}
  Sizes = {1, 2}
  Tasks = {1, 2, 3}
  HeapPages = 2
  TlsSlots = 1
  Stacks <- mcStacks
  Quotas = {2}
  Hints <- mcHints
  ShmIds = {1}
  Careless = {}
  Ram <- mcRam
  Machines <- mcMachines
  BLOCK_MAX_DEVICES = 8
  FirmwareMaps <- mcFirmwareMaps
  FirmwareTakes = {7, 8}
  Low = {1}
  OB_KERNEL_LMA = 2
  KernelImage = {2, 3, 4}
  ReportedEnds = {2, 4}
  MIN_KERNEL_END = 5
  OB_MAX_MEMORY_MAP_ENTRIES = 11
  MaxChanges = 2
  Settles = TRUE
  Disks <- mcDisks
  FormatSectors = 3
  TestSectors = 2
  Names = {"a"}
  Misreads = TRUE
  MaxBoots = 3
INVARIANT ForksGiveBack
CHECK_DEADLOCK FALSE
