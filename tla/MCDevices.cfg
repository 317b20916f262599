SPECIFICATION Spec
CONSTANTS
  Slots = {1, 2}
  Socks = {sock1}
  Actives = {1}
  Passives = {3}
  Talkers = {1}
  TxqMax = 2
  RxSize = 2
  OutUnits = 2
  InUnits = 2
  InFlight = 2
  Hasty = FALSE
  use_num = 6
  total_sectors = 2
  Contents = {a, b}
  Zero = Zero
  MaxCount = 2
  MaxCalls = 3
  MaxTimeouts = 2
  InOrder = TRUE
  ring_num = 3
  Pollers = {p1, p2}
  MaxFrames = 5
  Reuses = FALSE
  ME = 1
  LO = 2
  Hosts = {3}
  NS = 3
  Bufs = {1, 2, 3}
  ARP_CACHE_MAX = 2
  ARP_TIMEOUT_TICKS = 1
  Names = {"x", "y"}
  AddrOf <- mcAddrOf
  Stored <- mcStored
  DNS_CACHE_MAX = 1
  DNS_TTL = 2
  DNS_MAX_ROUNDS = 1
  NetIds = {1, 2}
  MaxResolves = 3
  NetPorts = 1
  Servers = {1}
  Pool <- mcPool
  DHCP_ROUNDS = 2
  Xids = {1, 2}
  StaticIp = 15
  StaticGateway = 9
  TestGateway = 8
INVARIANTS StreamsWhole DescriptorsSound DiskTrue FramesSound  
CHECK_DEADLOCK FALSE
