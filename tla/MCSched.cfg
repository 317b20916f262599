SPECIFICATION FairSpec
CONSTANTS
    boot = boot
    idle = idle
    a = a
    b = b
    None = None
    Threads = {boot, idle, a, b}
    Boot = boot
    Idle = idle
    Preemptible = {idle, a}
    Killable = {a, b}
    Throttled = {a}
    Prios = {0, 6}
    Slice <- MCSlice
    Window = 3
    Quotas = {0, 1}
INVARIANTS TypeOK QueueIntegrity ListsServe
PROPERTIES DeadStaysDead StrictPriority HighRuns
