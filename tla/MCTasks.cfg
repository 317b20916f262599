SPECIFICATION Spec
CONSTANTS
    S = S
    D = D
    A = A
    B = B
    C = C
    Boot = Boot
    Idle = Idle
    None = None
    Tasks = {S, D, A, B, C}
    Kernel = {S, D}
    Failing = {}
    TopLevel = {S, D, A}
    Spawns <- mcSpawns
    MayJoin <- mcMayJoin
    Killable = {B, C}
    Queue <- mcQueue
    Requested <- mcRequested
    ReservedMax = 1
    UserMin = 3
    PidMax = 4
    ChildLimit <- mcChildLimit
    Callers = {1, 2, 3}
    Program <- mcProgram
    Parent <- mcParent
    Fds = {3, 4}
    PIPE_BUF_SIZE = 2
    MaxPipes = 1
    Wakes <- mcWakes
    NsTasks = {1, 2, 3}
    FirstTask = 1
    NsIds = {1, 2, 3}
    RootRefs = 7
    FlagSets = {{}, {"pid"}, {"mnt"}, {"pid", "mnt", "ipc"}}
    Nests = FALSE
    Frames = {1, 2, 3, 4, 5, 6, 7, 8, 9, 10, 11, 12}
    Programs <- mcPrograms
    Libs <- mcLibs
    LibBase <- mcLibBase
    ImageMax = 8
    LibMax = 4
    MaxDeps = 8
    Teb = 40
    Peb = 41
    StubPages <- mcStubPages
    StubUnit = 100
    Api = {0, 1}
    SigTasks = {1, 2, 3}
    SIG_TASK_MAX = 2
    Signals = {8, 9, 11}
    Insns <- mcInsns
    Compat = {2}
    Catches <- mcCatches
    Sends <- mcSends
    FaultsNest = FALSE
    Files = {"a", "b"}
    Progs = {1, 2}
    ProgFiles = {"a"}
    Chars = {1}
    MAX_SIZE = 3
    FIRST_CAP = 1
    POSITIONS = 8
    Offsets = {0, 1, 7}
    SeekTo = {0, 1, 2, 4}
    CHUNK = 2
    COPY_LIMIT = 2
    SharesCopied = FALSE
    Stale = Stale
    Untrusted <- mcUntrusted
    Testers <- mcTesters
    Level <- mcLevel
    Boxed = {7001}
    Reserved = {0, 5}
    Whitelist <- mcWhitelist
    Filters <- mcFilters
    AUDIT_RING_SIZE = 2
    MaxRefusals = 3
INVARIANTS  JoinersServed FilesHeldOnce PipeKeepsOrder  NamespacesHeld LoadsSound SignalsReachOwner RefusalsOnRecord
PROPERTIES FilesTrue FilterHolds
