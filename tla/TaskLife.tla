------------------------------ MODULE TaskLife ------------------------------
(***************************************************************************)
(* The life of a task: task_create, task_exit, task_join, task_destroy and *)
(* task_reap_orphans (kernel/arch/x64/task.c), process identifiers (pid.c) *)
(* and the kills that the timer tick carries out (oom.c).                  *)
(*                                                                         *)
(* Memory is one record, m: the task list, what each struct task_t holds,  *)
(* and what the scheduler does with the task's thread.  A C function is an *)
(* operator from one such record to the next.  The scheduler is abstract   *)
(* here: a thread of the highest list that has a live one gets the CPU     *)
(* (Sched proves the lists sound and checks that), in any order within it. *)
(*                                                                         *)
(* Interrupts.  User code and kernel threads are struck by the tick at any *)
(* point; a system call is not, so it is one step.  What a kernel thread   *)
(* does in a system call's stead is one step per section between two locks.*)
(***************************************************************************)
EXTENDS Naturals, Sequences, FiniteSets, TLC

CONSTANTS
    Tasks,       \* every struct task_t that is ever allocated
    Boot,        \* g_bootstrap_task_storage, and the boot's own thread
    Idle,        \* the idle thread, which has no task
    Kernel,      \* tasks whose entry never leaves the kernel (services, driver)
    Failing,     \* tasks whose program may fail to load: they exit in the kernel
    TopLevel,    \* tasks created with parent = 0, children of Boot
    Spawns,      \* who creates which tasks
    MayJoin,     \* who waits for which tasks
    Killable,    \* tasks that an allocation failure or TerminateProcess marks
    Queue,       \* the ready list of each thread
    Requested,   \* requested_pid of each task, 0 for any
    ReservedMax, \* PID_RESERVED_MAX
    UserMin,     \* PID_USER_MIN: where the search for an identifier starts
    PidMax,
    ChildLimit,  \* child_process_limit of each task
    None

Actors == Tasks \cup {Boot, Idle}
Objects == Tasks \cup {Boot}

ASSUME TaskAssumption ==
    /\ Boot \notin Tasks /\ Idle \notin Tasks /\ Boot # Idle
    /\ None \notin Actors
    /\ Kernel \subseteq Tasks /\ Failing \subseteq Tasks
    /\ TopLevel \subseteq Tasks /\ Killable \subseteq Tasks
    /\ Spawns \in [Objects -> SUBSET Tasks]
    /\ MayJoin \in [Tasks -> SUBSET Tasks]
    /\ Queue \in [Actors -> Nat]
    /\ \A t \in Actors : Queue[Idle] <= Queue[t]

ASSUME PidAssumption ==
    /\ ReservedMax \in Nat /\ UserMin \in Nat /\ PidMax \in Nat
    /\ ChildLimit \in [Objects -> Nat]
    /\ Requested \in [Tasks -> 0 .. ReservedMax]

VARIABLES
    m,        \* the kernel's memory of tasks and threads, see TaskInit
    pc,       \* where each thread is, see Stages
    held,     \* the task pointer a preemptible thread holds, or None
    jw,       \* the join_waiter that task_exit has taken and not woken yet
    victims,  \* task_reap_orphans: what is left of its snapshot
    goal      \* the task whose waiter a joiner has registered itself as

task_vars == <<m, pc, held, jw, victims, goal>>

Stages == {"kernel",     \* preemptible kernel code: a thread starts here
           "user",       \* user mode
           "asleep",     \* in a system call that waits for something else
           "found",      \* task_join of a kernel thread: target found,
           "registered", \*   waiter registered,
           "blocking",   \*   state set to BLOCKED,
           "waiting",    \*   in schedule()
           "unlist",     \* task_destroy, preemptible: about to take the lock,
           "free",       \*   after unlock
           "exit",       \* task_exit, preemptible: after unlock,
           "teardown",   \*   after waking the joiner,
           "dead",       \*   state set to DEAD
           "scan", "reap"}  \* the idle loop: snapshot, next victim

TaskInit ==
    /\ m = [list   |-> <<Boot>>,                        \* g_task_head
            live   |-> {},                              \* allocated and not freed
            pid    |-> [t \in Objects |-> 0],
            parent |-> [t \in Objects |-> 0],           \* parent_pid
            kids   |-> [t \in Objects |-> {}],          \* child_head
            bits   |-> {0},                             \* g_pid_bitmap
            zombie |-> {},
            kill   |-> {},                              \* pending_kill
            waiter |-> [t \in Tasks |-> None],          \* join_waiter->th
            woken  |-> {},                              \* joiners whose waiter was woken
            state  |-> [a \in Actors |-> IF a = Idle THEN "READY"
                                         ELSE IF a = Boot THEN "DEAD" ELSE "NONE"],
            ready  |-> {Idle},                          \* linked in a ready list
            cur    |-> Boot]
    /\ pc = [a \in Actors |-> IF a = Idle THEN "scan" ELSE "kernel"]
    /\ held = [a \in Actors |-> None]
    /\ jw = [t \in Tasks |-> None]
    /\ victims = <<>>
    /\ goal = [t \in Tasks |-> None]

Members(s) == {s[i] : i \in DOMAIN s}
Listed == Members(m.list)

----------------------------------------------------------------------------
(* The scheduler, as far as tasks need it *)

\* sched_enqueue_thread
enqueue(k, t) ==
    IF k.state[t] = "DEAD" \/ t \in k.ready
    THEN k
    ELSE [k EXCEPT !.state[t] = "READY", !.ready = @ \cup {t}]

Requeue(k) ==
    IF k.state[k.cur] = "RUNNING"
    THEN [k EXCEPT !.state[k.cur] = "READY", !.ready = @ \cup {k.cur}]
    ELSE k

\* k2 is k after schedule() has switched: DEAD threads that it finds on its way are
\* dropped from the lists.
Switched(k, k2) ==
    \E r \in {Requeue(k)} :
    \E n \in {t \in r.ready : r.state[t] # "DEAD"} :
    \E dropped \in SUBSET {t \in r.ready : r.state[t] = "DEAD" /\ Queue[t] = Queue[n]} :
        /\ \A t \in r.ready : r.state[t] = "DEAD" \/ Queue[t] <= Queue[n]
        /\ k2 = [r EXCEPT !.ready = (@ \ {t \in r.ready : Queue[t] > Queue[n]}) \ (dropped \cup {n}),
                          !.state[n] = "RUNNING",
                          !.cur = n]

\* schedule(): a RUNNING caller with some slice left stays unless a higher list has
\* a thread.
schedule(k, k2) ==
    \/ /\ k.state[k.cur] = "RUNNING"
       /\ \A t \in k.ready : Queue[t] <= Queue[k.cur]
       /\ k2 = k
    \/ Switched(k, k2)

\* The timer may strike: everywhere but in a system call.
InterruptsOn ==
    /\ m.cur # Boot
    /\ pc[m.cur] # "asleep"
    /\ pc[m.cur] = "waiting" => m.cur \in Kernel

Runs(t) == m.cur = t

----------------------------------------------------------------------------
(* Helpers of task.c and pid.c *)

\* task_find_by_pid: the newest task of that pid.
task_find_by_pid(k, p) ==
    LET at == {i \in DOMAIN k.list : k.pid[k.list[i]] = p}
    IN  IF at = {} THEN None
        ELSE k.list[CHOOSE i \in at : \A j \in at : i <= j]

\* The task is taken off its parent's chain, if a task with the parent's pid is
\* still listed and has it there.
unlink_child(k, t) ==
    LET par == task_find_by_pid(k, k.parent[t])
    IN  IF par \in {None, t} THEN k ELSE [k EXCEPT !.kids[par] = @ \ {t}]

free_pid(k, p) ==
    IF p <= ReservedMax THEN k ELSE [k EXCEPT !.bits = @ \ {p}]

Least(ps) == {p \in ps : \A q \in ps : p <= q}

\* What alloc_pid and alloc_pid_kernel can return: the requested identifier, or else the
\* first free one from UserMin on, or else the first free one below; nothing if
\* there is none.
alloc_pid(k, t) ==
    IF Requested[t] # 0 THEN {Requested[t]} \ k.bits
    ELSE IF UserMin .. PidMax \subseteq k.bits
    THEN Least(ReservedMax + 1 .. UserMin - 1 \ k.bits)
    ELSE Least(UserMin .. PidMax \ k.bits)

\* Mutant: the exit has taken the task off the chain already.
Unlisted_KeepsChain(k, t) == [k EXCEPT !.list = SelectSeq(@, LAMBDA u : u # t)]

\* task_destroy up to unlock.
Unlisted(k, t) ==
    [unlink_child(k, t) EXCEPT !.list = SelectSeq(@, LAMBDA u : u # t)]

\* The rest of task_destroy: the task, its thread and its stack are freed.
Freed(k, t) == [free_pid(k, k.pid[t]) EXCEPT !.live = @ \ {t}]

task_destroy(k, t) == Freed(Unlisted(k, t), t)

\* Mutant: the identifier is given back at once, before anyone has joined.
Ended_FreesPid(k, t) ==
    [free_pid(unlink_child(k, t), k.pid[t]) EXCEPT !.zombie = @ \cup {t},
                                                   !.waiter[t] = None]

\* task_exit up to unlock.
Ended(k, t) ==
    [unlink_child(k, t) EXCEPT !.zombie = @ \cup {t}, !.waiter[t] = None]

\* A joiner is woken through its waiter.
WakeJoiner(k, j) ==
    IF j = None THEN k ELSE enqueue([k EXCEPT !.woken = @ \cup {j}], j)

\* Mutant: join_waiter is read after it has been cleared.
task_exit_LateRead(k, t) ==
    [WakeJoiner(Ended(k, t), Ended(k, t).waiter[t]) EXCEPT !.state[t] = "DEAD"]

\* The whole of task_exit, up to its call of schedule().
task_exit(k, t) ==
    [WakeJoiner(Ended(k, t), k.waiter[t]) EXCEPT !.state[t] = "DEAD"]

----------------------------------------------------------------------------
(* Creation *)

\* task_create(parent): IF = 0 or under g_task_lock to the end.
task_create(t, u) ==
    /\ Runs(t)
    /\ pc[t] = IF t = Boot \/ t \in Kernel THEN "kernel" ELSE "user"
    /\ u \in Spawns[t] /\ m.state[u] = "NONE"
    /\ \E par \in {IF u \in TopLevel THEN Boot ELSE t} :
       \E p \in alloc_pid(m, u) :
        /\ Cardinality(m.kids[par]) < ChildLimit[par]
        /\ m' = [m EXCEPT !.list = <<u>> \o @, !.live = @ \cup {u},
                          !.pid[u] = p, !.parent[u] = m.pid[par],
                          !.kids[par] = @ \cup {u}, !.bits = @ \cup {p},
                          !.state[u] = "READY", !.ready = @ \cup {u}]
    /\ UNCHANGED <<pc, held, jw, victims, goal>>

\* sched_start: the boot's thread is left for good.
sched_start ==
    /\ Runs(Boot)
    /\ Switched(m, m')
    /\ UNCHANGED <<pc, held, jw, victims, goal>>

\* The entry function has loaded the program and leaves for user mode.
EnterUser(t) ==
    /\ Runs(t) /\ t \notin Kernel /\ pc[t] = "kernel"
    /\ pc' = [pc EXCEPT ![t] = "user"]
    /\ UNCHANGED <<m, held, jw, victims, goal>>

----------------------------------------------------------------------------
(* task_join in a system call (ThreadWait, wait4): IF = 0 up to schedule() *)

SysJoin(t, u) ==
    /\ Runs(t) /\ pc[t] = "user" /\ u \in MayJoin[t] /\ m.pid[u] # 0
    /\ \E x \in {task_find_by_pid(m, m.pid[u])} \ {None} :
        \/ /\ x \in m.zombie
           /\ m' = task_destroy(m, x)
           /\ UNCHANGED <<pc, goal>>
        \/ /\ x \notin m.zombie /\ m.waiter[x] = None
           /\ Switched([m EXCEPT !.waiter[x] = t, !.woken = @ \ {t},
                                 !.state[t] = "BLOCKED"], m')
           /\ pc' = [pc EXCEPT ![t] = "waiting"]
           /\ goal' = [goal EXCEPT ![t] = x]
    /\ UNCHANGED <<held, jw, victims>>

\* schedule() has returned: the task is looked up again by the identifier.
SysJoinReturns(t) ==
    /\ Runs(t) /\ t \notin Kernel /\ pc[t] = "waiting"
    /\ m' = LET x == task_find_by_pid(m, m.pid[goal[t]])
            IN  IF t \in m.woken /\ x \in m.zombie
                THEN [task_destroy(m, x) EXCEPT !.woken = @ \ {t}]
                ELSE [m EXCEPT !.woken = @ \ {t}]
    /\ pc' = [pc EXCEPT ![t] = "user"]
    /\ goal' = [goal EXCEPT ![t] = None]
    /\ UNCHANGED <<held, jw, victims>>

----------------------------------------------------------------------------
(* task_join in a kernel thread: interrupts are on between the locks *)

JoinFind(t, u) ==
    /\ Runs(t) /\ t \in Kernel /\ pc[t] = "kernel"
    /\ u \in MayJoin[t] /\ m.pid[u] # 0
    /\ \E x \in {task_find_by_pid(m, m.pid[u])} \ {None} :
        /\ held' = [held EXCEPT ![t] = x]
        /\ pc' = [pc EXCEPT ![t] = IF x \in m.zombie THEN "unlist" ELSE "found"]
    /\ UNCHANGED <<m, jw, victims, goal>>

\* Under g_task_lock: is_zombie is looked at again, then the waiter registered.
JoinRegister(t) ==
    /\ Runs(t) /\ pc[t] = "found"
    /\ \/ /\ held[t] \in m.zombie
          /\ pc' = [pc EXCEPT ![t] = "unlist"]
          /\ UNCHANGED <<m, held, goal>>
       \/ /\ held[t] \notin m.zombie
          /\ IF m.waiter[held[t]] = None
             THEN /\ m' = [m EXCEPT !.waiter[held[t]] = t, !.woken = @ \ {t}]
                  /\ pc' = [pc EXCEPT ![t] = "registered"]
                  /\ goal' = [goal EXCEPT ![t] = held[t]]
             ELSE pc' = [pc EXCEPT ![t] = "kernel"] /\ UNCHANGED <<m, goal>>
          /\ held' = [held EXCEPT ![t] = None]
    /\ UNCHANGED <<jw, victims>>

JoinBlock(t) ==
    /\ Runs(t) /\ pc[t] = "registered"
    /\ m' = [m EXCEPT !.state[t] = "BLOCKED"]
    /\ pc' = [pc EXCEPT ![t] = "blocking"]
    /\ UNCHANGED <<held, jw, victims, goal>>

JoinSleep(t) ==
    /\ Runs(t) /\ pc[t] = "blocking"
    /\ schedule(m, m')
    /\ pc' = [pc EXCEPT ![t] = "waiting"]
    /\ UNCHANGED <<held, jw, victims, goal>>

JoinCollect(t) ==
    /\ Runs(t) /\ t \in Kernel /\ pc[t] = "waiting"
    /\ \E x \in {task_find_by_pid(m, m.pid[goal[t]])} :
        IF t \in m.woken /\ x \in m.zombie
        THEN held' = [held EXCEPT ![t] = x] /\ pc' = [pc EXCEPT ![t] = "unlist"]
        ELSE pc' = [pc EXCEPT ![t] = "kernel"] /\ UNCHANGED held
    /\ m' = [m EXCEPT !.woken = @ \ {t}]
    /\ goal' = [goal EXCEPT ![t] = None]
    /\ UNCHANGED <<jw, victims>>

----------------------------------------------------------------------------
(* task_destroy and task_reap_orphans where interrupts are on *)

DestroyUnlists(t) ==
    /\ Runs(t) /\ pc[t] = "unlist"
    /\ m' = Unlisted(m, held[t])
    /\ pc' = [pc EXCEPT ![t] = "free"]
    /\ UNCHANGED <<held, jw, victims, goal>>

DestroyFrees(t) ==
    /\ Runs(t) /\ pc[t] = "free"
    /\ m' = Freed(m, held[t])
    /\ held' = [held EXCEPT ![t] = None]
    /\ pc' = [pc EXCEPT ![t] = IF t = Idle THEN "reap" ELSE "kernel"]
    /\ UNCHANGED <<jw, victims, goal>>

\* Mutant: the zombies that a parent may yet join are taken too.
Orphans_AnyParent == SelectSeq(m.list, LAMBDA t : t \in m.zombie /\ m.pid[t] # 0)

\* Zombies that nobody is expected to join, the first eight of them (the model has
\* fewer tasks).
Orphans ==
    SelectSeq(m.list, LAMBDA t : t \in m.zombie /\ m.parent[t] = 0 /\ m.pid[t] # 0)

ReapScan ==
    /\ Runs(Idle) /\ pc[Idle] = "scan" /\ Orphans # <<>>
    /\ victims' = Orphans
    /\ pc' = [pc EXCEPT ![Idle] = "reap"]
    /\ UNCHANGED <<m, held, jw, goal>>

ReapNext ==
    /\ Runs(Idle) /\ pc[Idle] = "reap"
    /\ IF victims = <<>>
       THEN pc' = [pc EXCEPT ![Idle] = "scan"] /\ UNCHANGED <<held, victims>>
       ELSE /\ held' = [held EXCEPT ![Idle] = Head(victims)]
            /\ victims' = Tail(victims)
            /\ pc' = [pc EXCEPT ![Idle] = "unlist"]
    /\ UNCHANGED <<m, jw, goal>>

----------------------------------------------------------------------------
(* Exit *)

\* SYS_OB_UserExit: one step.
SysExit(t) ==
    /\ Runs(t) /\ pc[t] = "user"
    /\ Switched(task_exit(m, t), m')
    /\ pc' = [pc EXCEPT ![t] = "dead"]
    /\ UNCHANGED <<held, jw, victims, goal>>

\* task_exit called by the entry function: a service or the driver at its end (the
\* driver has joined what it started), a program that failed to load.
ExitLocked(t) ==
    /\ Runs(t) /\ t \in Kernel \cup Failing /\ pc[t] = "kernel"
    /\ MayJoin[t] \cap m.live = {} \/ t \notin Kernel
    /\ m' = Ended(m, t)
    /\ jw' = [jw EXCEPT ![t] = m.waiter[t]]
    /\ pc' = [pc EXCEPT ![t] = "exit"]
    /\ UNCHANGED <<held, victims, goal>>

ExitWakes(t) ==
    /\ Runs(t) /\ pc[t] = "exit"
    /\ m' = WakeJoiner(m, jw[t])
    /\ jw' = [jw EXCEPT ![t] = None]
    /\ pc' = [pc EXCEPT ![t] = "teardown"]
    /\ UNCHANGED <<held, victims, goal>>

\* The task's resources are released; thread_exit marks the thread.
ExitMarksDead(t) ==
    /\ Runs(t) /\ pc[t] = "teardown"
    /\ m' = [m EXCEPT !.state[t] = "DEAD"]
    /\ pc' = [pc EXCEPT ![t] = "dead"]
    /\ UNCHANGED <<held, jw, victims, goal>>

ExitLeaves(t) ==
    /\ Runs(t) /\ pc[t] = "dead"
    /\ Switched(m, m')
    /\ UNCHANGED <<pc, held, jw, victims, goal>>

----------------------------------------------------------------------------
(* Waiting for something else *)

Sleep(t) ==
    /\ Runs(t) /\ pc[t] = "user"
    /\ Switched([m EXCEPT !.state[t] = "BLOCKED"], m')
    /\ pc' = [pc EXCEPT ![t] = "asleep"]
    /\ UNCHANGED <<held, jw, victims, goal>>

Awake(t) ==
    /\ Runs(t) /\ pc[t] = "asleep"
    /\ pc' = [pc EXCEPT ![t] = "user"]
    /\ UNCHANGED <<m, held, jw, victims, goal>>

----------------------------------------------------------------------------
(* The out-of-memory killer and the tick *)

\* oom_mark_victim, called where the running thread allocates; a zombie may be the
\* victim too.
oom_mark_victim(u) ==
    /\ pc[m.cur] \in {"kernel", "user"}
    /\ u \in Killable \cap Listed /\ u \notin m.kill
    /\ m' = [m EXCEPT !.kill = @ \cup {u}]
    /\ UNCHANGED <<pc, held, jw, victims, goal>>

\* The victims V end: DEAD, zombies, their joiners woken.
Killed(k, V) ==
    LET woken == {k.waiter[v] : v \in V} \ {None}
        up == {j \in woken : k.state[j] # "DEAD" /\ j \notin V}
    IN  [k EXCEPT !.state = [a \in V |-> "DEAD"] @@ [a \in up \ k.ready |-> "READY"] @@ @,
                  !.ready = @ \cup up,
                  !.zombie = @ \cup V,
                  !.woken = @ \cup woken,
                  !.waiter = [t \in V |-> None] @@ @,
                  !.kill = @ \ V]

\* Mutant: the thread is marked DEAD and stays in its ready list.
Reaped_Linked(k, V) == Killed(k, V)

\* oom_tick_reap for victims that are not running: each is taken out of its ready
\* list and ends.  Its parent keeps it in the chain of children.
Reaped(k, V) ==
    Killed([k EXCEPT !.ready = @ \ V], V)

Before(k, x) ==
    {k.list[i] : i \in {j \in DOMAIN k.list :
                        \A h \in DOMAIN k.list : k.list[h] = x => j < h}}

\* oom_tick_reap goes through the list; it does not come back from the running task.
Tick ==
    /\ InterruptsOn
    /\ \E ws \in SUBSET {t \in Tasks : pc[t] = "asleep" /\ m.state[t] = "BLOCKED"} :
       LET k == [m EXCEPT !.state = [a \in ws |-> "READY"] @@ @,
                          !.ready = @ \cup ws]
           V == k.kill \cap Listed
       IN  IF k.cur \in V
           THEN /\ Switched(task_exit(Reaped(k, V \cap Before(k, k.cur)), k.cur), m')
                /\ pc' = [pc EXCEPT ![k.cur] = "dead"]
           ELSE /\ \/ m' = Reaped(k, V)
                   \/ Switched(Reaped(k, V), m')
                /\ UNCHANGED pc
    /\ UNCHANGED <<held, jw, victims, goal>>

Step(t) ==
    \/ \E u \in Tasks : task_create(t, u) \/ SysJoin(t, u) \/ JoinFind(t, u)
    \/ EnterUser(t)
    \/ SysJoinReturns(t)
    \/ JoinRegister(t)
    \/ JoinBlock(t)
    \/ JoinSleep(t)
    \/ JoinCollect(t)
    \/ SysExit(t)
    \/ ExitLocked(t)
    \/ ExitWakes(t)
    \/ ExitMarksDead(t)
    \/ ExitLeaves(t)
    \/ Sleep(t)
    \/ Awake(t)

TaskNext ==
    \/ \E u \in Tasks : task_create(Boot, u)
    \/ sched_start
    \/ \E t \in Tasks : Step(t)
    \/ \E t \in Tasks \cup {Idle} : DestroyUnlists(t) \/ DestroyFrees(t)
    \/ ReapScan
    \/ ReapNext
    \/ \E u \in Tasks : oom_mark_victim(u)
    \/ Tick


----------------------------------------------------------------------------
(* Properties *)

\* What the scheduler and the joiners' records point to has not been freed: a linked
\* thread, the current one, and every thread that a task's join_waiter names.  A
\* kill, an exit and a collection in any order must leave a thread unlinked before
\* its stack goes.
ThreadsLive ==
    \A t \in Tasks :
        (t \in m.ready \/ t = m.cur \/ \E u \in m.live : m.waiter[u] = t) => t \in m.live

\* A listed task's chain of children holds tasks in memory, all its own.  An exit
\* takes the task off the chain and a kill does not: destruction must.
ChainsLive ==
    \A p \in Listed : \A t \in m.kids[p] :
        t \in m.live /\ m.parent[t] = m.pid[p]

\* No pointer to a task outlives it: neither one that a preemptible thread carries
\* past a lock (task_join of the driver, task_destroy, the snapshot of
\* task_reap_orphans), so that no task is collected by two, nor a parent's chain.
PointersLive ==
    /\ \A a \in Actors : held[a] # None => held[a] \in m.live
    /\ \A i \in DOMAIN victims : victims[i] \in m.live
    /\ ChainsLive

\* An identifier is taken for as long as its task can be found or is being freed:
\* tasks in memory have different ones, each marked in the bitmap, and above the
\* reserved range the bitmap marks no others.
PidHeld ==
    /\ \A t, u \in m.live : m.pid[t] = m.pid[u] => t = u
    /\ {p \in m.bits : p > ReservedMax} =
       {p \in {m.pid[t] : t \in m.live} : p > ReservedMax}
    /\ \A t \in m.live : m.pid[t] \in m.bits

\* Nothing freed is still used or found, and no identifier has two tasks, in any order
\* of exits, kills, joins and collections (task.c:470-760).
TasksLive == ThreadsLive /\ PointersLive /\ PidHeld

\* A task that sleeps in a join by system call has someone to wake it: its target is
\* still listed, has not ended, and names it as its joiner, or is on its way
\* from publishing the zombie to the wake-up.
SyscallJoinersWake ==
    \A t \in Tasks \ Kernel :
        pc[t] = "waiting" /\ m.state[t] = "BLOCKED" =>
            \/ \E u \in Tasks : jw[u] = t
            \/ goal[t] \in Listed \ m.zombie /\ m.waiter[goal[t]] = t

\* A joiner that has been woken looks its target up by the identifier: until it
\* does, the task of that identifier is the one it waited for, a zombie.
WokenFindsTarget ==
    \A t \in Tasks :
        t \in m.woken /\ pc[t] = "waiting" /\ m.state[t] # "BLOCKED" =>
            /\ task_find_by_pid(m, m.pid[goal[t]]) = goal[t]
            /\ goal[t] \in m.zombie

\* A join by system call ends, and with its own target (task.c:528-640).
JoinersServed == SyscallJoinersWake /\ WokenFindsTarget

\* "task_join waits for the target to exit and collects it" (task.c:126-128): no
\* joiner stays blocked that has been woken already.
NoStrandedJoiner ==
    \A t \in Tasks :
        ~(pc[t] = "waiting" /\ m.state[t] = "BLOCKED" /\ t \in m.woken)

============================================================================
